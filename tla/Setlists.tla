------------------------------ MODULE Setlists ------------------------------
(***************************************************************************)
(* Setlist and bundle files: presets copied, swapped, taken out and put    *)
(* back.  An edit reads the last file, changes what it holds and writes    *)
(* another; each is one step, for nothing else has the file open.  A slot  *)
(* taken out as a rig is compiled like any other before it is put back.    *)
(*                                                                         *)
(* How the file is put on disk is AtomicFile's.                            *)
(***************************************************************************)
EXTENDS Transfer

CONSTANTS
  Bundles,  \* setlist and bundle files as they come
  Singles,  \* preset files somebody puts into one
  Places    \* addresses asked for: which setlist, which slot

\* What a file holds was written by a device, or here.
ASSUME SetlistsAssumption ==
  /\ \A d \in Singles : IsPreset(d)
  /\ Places \subseteq Nat \X Nat
  /\ \A b \in Bundles :
       b.schema \in {"L6Setlist", "L6PresetBundle"} =>
         \A l \in DOMAIN b.payload : \A s \in DOMAIN b.payload[l] :
           IsPreset(b.payload[l][s])

VARIABLES
  bundle,  \* the last file written, or the one edits start from
  answer   \* what the last operation reported

setlists == <<transfer, bundle, answer>>

NoBundle == [schema |-> "none"]
NoAnswer == [did |-> "nothing"]
NoDevice == "none"

-----------------------------------------------------------------------------
(* The file *)

\* What the envelope says of its payload tells one payload from another.
Sum(payload) == payload

Packed(schema, meta, payload) ==
  [schema |-> schema, meta |-> meta, sum |-> Sum(payload), payload |-> payload]

Schemas == {"L6Setlist", "L6PresetBundle"}

DecodesPayload(packed) == packed.sum = Sum(packed.payload)

Reads(packed) == packed.schema \in Schemas /\ DecodesPayload(packed)

Opened(packed) ==
  [schema |-> packed.schema, meta |-> packed.meta, setlists |-> packed.payload]

\* Mutant: the checksum the file came with is kept.
EncodeStale(d) ==
  [Packed(d.schema, d.meta, d.setlists) EXCEPT !.sum = bundle.sum]

\* The checksum is the written payload's own.
EncodeSetlists(d) == Packed(d.schema, d.meta, d.setlists)

\* Setlists and slots are counted from one here, and from zero in the file.
HasSlot(d, a) == a[1] \in DOMAIN d.setlists /\ a[2] \in DOMAIN d.setlists[a[1]]

Addresses(d) == {a \in Places : HasSlot(d, a)}

SlotAt(d, a) == d.setlists[a[1]][a[2]]
PutAt(d, a, preset) == [d EXCEPT !.setlists[a[1]][a[2]] = preset]

CopySlot(d, from, to) == PutAt(d, to, SlotAt(d, from))

\* Mutant: both slots end with what the second held.
SwapOver(d, a, b) == PutAt(PutAt(d, a, SlotAt(d, b)), b, SlotAt(d, b))

SwapSlots(d, a, b) == PutAt(PutAt(d, a, SlotAt(d, b)), b, SlotAt(d, a))

NameAt(d, a) == SlotAt(d, a).name

\* A listing shows every slot, the empty ones by the name they keep.
Listing(d, l) ==
  [s \in DOMAIN d.setlists[l] |->
     [name |-> d.setlists[l][s].name, blocks |-> Len(ChainOf(d.setlists[l][s]))]]

-----------------------------------------------------------------------------
(* The operations *)

Bundled(packed, t) == [kind |-> "setlist", was |-> packed, over |-> t]

SetlistsInit ==
  \/ TransferInit /\ bundle = NoBundle /\ answer = NoAnswer
  \/ /\ task \in {Bundled(b, t) : b \in Bundles, t \in Templates}
     /\ pc = "bundle"
     /\ bundle = task.was /\ answer = NoAnswer
     /\ rig = Empty /\ doc = Blank /\ slot = NoSlot
     /\ at = 1 /\ blocks = Empty /\ said = Empty /\ missed = FALSE
     /\ chain = Empty /\ before = Empty /\ file = NoFile

Ready == pc = "bundle"

\* A file that is not a setlist, or is not what it says it holds.
Unopened ==
  /\ Ready
  /\ ~Reads(bundle)
  /\ Refuse
  /\ UNCHANGED <<slot, bundle, answer>>

\* Nothing of a build outlives it but the file it wrote.
Rest == <<task, rig, doc, at, blocks, said, missed, chain, before, slot>>
Forgotten ==
  /\ rig' = Empty /\ doc' = Blank /\ at' = 1 /\ chain' = Empty /\ before' = Empty
  /\ UNCHANGED <<task, blocks, said, missed, slot>>

Here == Opened(bundle)

Report(did, a) == [did |-> did, to |-> a]
Replaced(did, a, name) == [did |-> did, to |-> a, replaced |-> name]

Wrong(a) ==
  /\ answer' = Report("refused", a)
  /\ UNCHANGED <<Rest, pc, file, bundle>>

\* A slot onto itself is refused before the file is read.
RefuseEdit(from, to) ==
  /\ Ready /\ Reads(bundle)
  /\ from = to \/ ~HasSlot(Here, from) \/ ~HasSlot(Here, to)
  /\ Wrong(to)

\* Mutant: the name is read once the edit is made.
EditNamesAfter(did, from, to, after) ==
  /\ Ready /\ Reads(bundle)
  /\ from # to /\ HasSlot(Here, from) /\ HasSlot(Here, to)
  /\ answer' = Replaced(did, to, NameAt(after, to))
  /\ bundle' = EncodeSetlists(after)
  /\ UNCHANGED <<Rest, pc, file>>

\* The name is read before the edit, which cannot fail once both slots are
\* there, and the file written after.
Edit(did, from, to, after) ==
  /\ Ready /\ Reads(bundle)
  /\ from # to /\ HasSlot(Here, from) /\ HasSlot(Here, to)
  /\ answer' = Replaced(did, to, NameAt(Here, to))
  /\ bundle' = EncodeSetlists(after)
  /\ UNCHANGED <<Rest, pc, file>>

Copy(from, to) == Edit("copied", from, to, CopySlot(Here, from, to))
Swap(from, to) == Edit("swapped", from, to, SwapSlots(Here, from, to))

ExportPreset(a) ==
  /\ Ready /\ Reads(bundle)
  /\ HasSlot(Here, a)
  /\ file' = SlotAt(Here, a)
  /\ answer' = Report("written", a)
  /\ UNCHANGED <<Rest, pc, bundle>>

\* An empty slot is not a rig.
ExportRig(a) ==
  /\ Ready /\ Reads(bundle)
  /\ HasSlot(Here, a)
  /\ LET lifted == Lift(SlotAt(Here, a))
     IN IF ~ValidRig(lifted) THEN Wrong(a)
        ELSE /\ rig' = lifted
             /\ doc' = [task.over EXCEPT !.device = Device, !.name = rig'.name]
             /\ answer' = Report("written", a)
             /\ Goto("load")
             /\ UNCHANGED <<at, blocks, said, missed, chain, before, slot, file, bundle>>

\* What was written, or a file somebody has; a device that differs from the one
\* the slot names is said.
ImportInto(d, a) ==
  /\ task.kind = "setlist" /\ pc \in {"bundle", "written"}
  /\ Reads(bundle) /\ HasSlot(Here, a)
  /\ d # NoFile
  /\ answer' = [did |-> "imported", to |-> a, replaced |-> NameAt(Here, a),
                 mismatch |-> SlotAt(Here, a).device \notin {NoDevice, d.device}]
  /\ bundle' = EncodeSetlists(PutAt(Here, a, d))
  /\ pc' = "bundle"
  /\ file' = NoFile
  /\ Forgotten

Setlist(a, b) ==
  \/ RefuseEdit(a, b) \/ Copy(a, b) \/ Swap(a, b)
  \/ ExportPreset(a) \/ ExportRig(a)
  \/ \E d \in Singles \cup {file} : ImportInto(d, a)

SetlistsNext ==
  \/ TransferNext /\ UNCHANGED <<bundle, answer>>
  \/ Unopened
  \/ \E a, b \in Places : Setlist(a, b)

SetlistsSpec == SetlistsInit /\ [][SetlistsNext]_setlists
-----------------------------------------------------------------------------
(* Properties *)

\* An edit leaves a file that reads back, with every slot it had; a preset
\* that is no longer in it is the one the answer says was replaced, by the
\* name a listing showed it under.  A slot taken out as a rig and compiled is the preset the slot
\* holds, whatever template it was compiled over (setlist.Write, Copy, Swap,
\* fileslots.edit, Import, Export).
StillThere(d, now) == \E a \in Addresses(now) : SlotAt(now, a) = d
NothingLost ==
  [][/\ bundle' # bundle =>
          LET was == Opened(bundle)
              now == Opened(bundle')
          IN /\ Reads(bundle')
             /\ Addresses(now) = Addresses(was)
             /\ \A a \in Addresses(was) :
                  \/ StillThere(SlotAt(was, a), now)
                  \/ /\ a = answer'.to
                     /\ answer'.replaced = Listing(was, a[1])[a[2]].name
     /\ task.kind = "setlist" /\ pc # "written" /\ pc' = "written" =>
          file' = SlotAt(Here, answer.to)]_setlists
=============================================================================
