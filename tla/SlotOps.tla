------------------------------ MODULE SlotOps ------------------------------
(***************************************************************************)
(* Copy, swap and import on a pedal's slots (deviceslots/editdevice.go,    *)
(* importdevice.go, keep.go) and what is kept of the slots they replace    *)
(* (backup/backup.go).  One edit is several exchanges with the pedal; any  *)
(* of them may fail, a write that failed may have landed, the caller may   *)
(* give up between two, and the process may die.  The pedal has no undo.   *)
(***************************************************************************)
EXTENDS Naturals, Sequences

CONSTANTS
  Addresses, \* slots, each with its setlist
  Presets,   \* documents with blocks in them
  None,      \* no document: what an emptied slot answers
  Blank,     \* a document with no blocks
  Junk,      \* an answer that does not decode
  Names, Untouched, \* what slots are called, "New Preset" among them
  NoName,    \* what a .bin says its slot was called, and a move that it replaced
  MaxEdits,  \* bound: edits begun
  MaxFaults  \* bound: exchanges and backups that fail

ASSUME SlotsAssumption ==
  /\ Untouched \in Names /\ NoName \notin Names
  /\ Presets \cap {None, Blank, Junk} = {}
  /\ None # Blank /\ Blank # Junk /\ None # Junk
  /\ MaxEdits \in Nat /\ MaxFaults \in Nat

Bodies == Presets \cup {None, Blank, Junk}
Slots  == [name : Names, body : Bodies]

\* A document of a file: .hlx carries a name, .bin only the bytes.
Files  == [name : Names, body : Presets] \cup [name : {NoName}, body : {Blank}]
Kept   == [at : Addresses, file : Files]
Held   == [at : Addresses, name : Names, body : Bodies]

VARIABLES
  slots,     \* what the pedal holds
  kept,      \* the backups on disk
  pc,        \* where the edit under way is
  op,        \* what it was asked and what it has read
  cancelled, \* its caller has given up
  said,      \* how the last edit ended, and the backups it named
  past,      \* history: slots and backups when the edit began
  faulty,    \* history: something failed during it
  edits, faults

vars == <<slots, kept, pc, op, cancelled, said, past, faulty, edits, faults>>

counts == <<edits, faults>>

Kinds  == {"copy", "swap", "import"}
Places == {"idle", "names", "source", "dest", "writer", "holds", "keep", "write"}

Ops == [kind : Kinds, from : Addresses, to : Addresses, writer : BOOLEAN,
        file : Files, fromName : Names, toName : Names,
        source : Presets \cup {None}, dest : Presets \cup {None},
        toKeep : Seq(Held), steps : Seq(Held), kept : SUBSET Kept]

Unsaid == [end |-> "none", kept |-> {}]

Untold == [name |-> NoName, body |-> Blank]

Asked(kind, from, to, writer, file) ==
  [kind |-> kind, from |-> from, to |-> to, writer |-> writer, file |-> file,
   fromName |-> Untouched, toName |-> Untouched, source |-> None, dest |-> None,
   toKeep |-> <<>>, steps |-> <<>>, kept |-> {}]

Init ==
  /\ slots \in [Addresses -> {s \in Slots : s.body = None => s.name = Untouched}]
  /\ kept = {} /\ pc = "idle"
  /\ \E a \in Addresses : op = Asked("copy", a, a, TRUE, Untold)
  /\ cancelled = FALSE /\ said = Unsaid
  /\ past = [slots |-> slots, kept |-> kept] /\ faulty = FALSE
  /\ edits = 0 /\ faults = 0

-----------------------------------------------------------------------------
\* Beginning and ending.

Start(o, place) ==
  /\ pc = "idle" /\ edits < MaxEdits
  /\ edits' = edits + 1
  /\ op' = o /\ pc' = place
  /\ cancelled' = FALSE /\ faulty' = FALSE
  /\ past' = [slots |-> slots, kept |-> kept]
  /\ UNCHANGED <<slots, kept, faults>>

BeginEdit(kind, from, to, writer) ==
  /\ kind \in {"copy", "swap"} /\ from # to
  /\ Start(Asked(kind, from, to, writer, Untold), "names")
  /\ said' = Unsaid

\* A slot onto itself.
RefuseSame(kind, at) ==
  /\ kind \in {"copy", "swap"}
  /\ Start(Asked(kind, at, at, TRUE, Untold), "idle")
  /\ said' = [end |-> "failed", kept |-> {}]

\* The document is built before the pedal is asked anything.
BeginImport(file, at, writer) ==
  /\ Start(Asked("import", at, at, writer, file), "writer")
  /\ said' = Unsaid

RefuseFile(at) ==
  /\ Start(Asked("import", at, at, TRUE, Untold), "idle")
  /\ said' = [end |-> "failed", kept |-> {}]

End(how, named) == pc' = "idle" /\ said' = [end |-> how, kept |-> named]

\* An error names the backups there are (keptError).
Fail(named) ==
  /\ End("failed", named)
  /\ UNCHANGED <<op, cancelled, past, edits>>

\* A failure nobody asked for.
Fault == faults < MaxFaults /\ faults' = faults + 1 /\ faulty' = TRUE

Sound == UNCHANGED <<faulty, faults>>

Proceed(place, o) ==
  /\ pc' = place /\ op' = o
  /\ UNCHANGED <<cancelled, said, past, faulty, counts>>

GiveUp ==
  /\ pc # "idle" /\ ~cancelled
  /\ cancelled' = TRUE
  /\ UNCHANGED <<slots, kept, pc, op, said, past, faulty, counts>>

-----------------------------------------------------------------------------
\* Reading.

\* Both names, each from its own setlist's listing.
ListNames ==
  /\ pc = "names" /\ ~cancelled
  /\ Proceed(IF op.kind = "import" THEN "holds" ELSE "source",
             [op EXCEPT !.fromName = slots[op.from].name, !.toName = slots[op.to].name])
  /\ UNCHANGED <<slots, kept>>

\* A slot read as a preset, or as none when it has no blocks.
Read(at) == IF slots[at].body \in Presets THEN slots[at].body ELSE None

Refuse == Fail({}) /\ Sound /\ UNCHANGED <<slots, kept>>

ReadSource ==
  /\ pc = "source" /\ ~cancelled
  /\ slots[op.from].body # Junk
  /\ op.kind = "copy" => Read(op.from) # None
  /\ Proceed(IF op.kind = "copy" THEN "writer" ELSE "dest",
             [op EXCEPT !.source = Read(op.from)])
  /\ UNCHANGED <<slots, kept>>

RefuseSource ==
  /\ pc = "source" /\ ~cancelled
  /\ \/ slots[op.from].body = Junk
     \/ op.kind = "copy" /\ Read(op.from) = None
  /\ Refuse

ReadDest ==
  /\ pc = "dest" /\ ~cancelled
  /\ slots[op.to].body # Junk
  /\ op.source # None \/ Read(op.to) # None
  /\ Proceed("writer", [op EXCEPT !.dest = Read(op.to)])
  /\ UNCHANGED <<slots, kept>>

RefuseDest ==
  /\ pc = "dest" /\ ~cancelled
  /\ \/ slots[op.to].body = Junk
     \/ op.source = None /\ Read(op.to) = None
  /\ Refuse

HeldAt(at, name, body) == [at |-> at, name |-> name, body |-> body]

\* The session can write; a swap keeps what it has already read.
FindWriter ==
  /\ pc = "writer" /\ op.writer
  /\ \/ op.kind = "copy" /\ Proceed("holds", op)
     \/ op.kind = "import" /\ Proceed("names", op)
     \/ op.kind = "swap"
        /\ Proceed("keep", [op EXCEPT !.toKeep =
                              <<HeldAt(op.to, op.toName, op.dest),
                                HeldAt(op.from, op.fromName, op.source)>>])
  /\ UNCHANGED <<slots, kept>>

RefuseWriter == pc = "writer" /\ ~op.writer /\ Refuse

\* The destination of a copy or an import is read to be kept, whatever it is.
ReadHeld ==
  /\ pc = "holds" /\ ~cancelled
  /\ Proceed("keep", [op EXCEPT !.toKeep =
                        <<HeldAt(op.to, op.toName, slots[op.to].body)>>])
  /\ UNCHANGED <<slots, kept>>

ReadFails ==
  /\ pc \in {"names", "source", "dest", "holds"}
  /\ Fail({})
  /\ Fault \/ (cancelled /\ Sound)
  /\ UNCHANGED <<slots, kept>>

-----------------------------------------------------------------------------
\* Keeping.

\* Mutant: the name is not asked about.
WorthlessBlank(h) == h.body \in {None, Blank}

\* Rules 1 and 2: nothing there, or nothing of anybody's.
Worthless(h) == h.body = None \/ (h.body = Blank /\ h.name = Untouched)

\* Rules 3 and 4: a document that carries the name, or the bytes.
Backup(h) ==
  [at |-> h.at,
   file |-> [name |-> IF h.body = Blank THEN NoName ELSE h.name, body |-> h.body]]

KeepOne ==
  /\ pc = "keep" /\ op.toKeep # <<>>
  /\ LET h == Head(op.toKeep)
         new == IF Worthless(h) THEN {} ELSE {Backup(h)}
     IN /\ h.body # Junk
        /\ kept' = kept \cup new
        /\ Proceed("keep", [op EXCEPT !.toKeep = Tail(@), !.kept = @ \cup new])
  /\ UNCHANGED slots

\* What does not decode is not kept, and stops the write.
KeepRefuses ==
  /\ pc = "keep" /\ op.toKeep # <<>> /\ Head(op.toKeep).body = Junk
  /\ Fail(op.kept) /\ Sound
  /\ UNCHANGED <<slots, kept>>

KeepFails ==
  /\ pc = "keep" /\ op.toKeep # <<>> /\ Head(op.toKeep).body # None
  /\ Fail(op.kept)
  /\ Fault \/ (cancelled /\ Sound)
  /\ UNCHANGED <<slots, kept>>

-----------------------------------------------------------------------------
\* Writing.

\* Mutant: each side keeps its own name.
ExchangeNames(o) ==
  IF o.source = None
  THEN <<HeldAt(o.from, o.fromName, o.dest), HeldAt(o.to, o.fromName, None)>>
  ELSE <<HeldAt(o.to, o.toName, o.source), HeldAt(o.from, o.fromName, o.dest)>>

\* Mutant: a slot is emptied before the preset is in the other.
ExchangeEmptiesFirst(o) ==
  IF o.source = None
  THEN <<HeldAt(o.to, o.fromName, None), HeldAt(o.from, o.toName, o.dest)>>
  ELSE <<HeldAt(o.from, o.toName, o.dest), HeldAt(o.to, o.fromName, o.source)>>

\* The halves of a swap: the preset that is certain to exist moves first.
Exchange(o) ==
  IF o.source = None
  THEN <<HeldAt(o.from, o.toName, o.dest), HeldAt(o.to, o.fromName, None)>>
  ELSE <<HeldAt(o.to, o.fromName, o.source), HeldAt(o.from, o.toName, o.dest)>>

\* What an import writes.  A .bin has no name: the slot keeps the one it has.
Imported(o) ==
  HeldAt(o.to, IF o.file.name = NoName THEN o.toName ELSE o.file.name, o.file.body)

StepsOf(o) ==
  IF o.kind = "swap" THEN Exchange(o)
  ELSE IF o.kind = "copy" THEN <<HeldAt(o.to, o.fromName, o.source)>>
  ELSE <<Imported(o)>>

Plan ==
  /\ pc = "keep" /\ op.toKeep = <<>>
  /\ Proceed("write", [op EXCEPT !.steps = StepsOf(op)])
  /\ UNCHANGED <<slots, kept>>

\* The pedal writes a document under a name, or empties the slot.
Landed(held, s) ==
  [held EXCEPT ![s.at] =
    IF s.body = None THEN [name |-> Untouched, body |-> None]
                     ELSE [name |-> s.name, body |-> s.body]]

Put(s) == slots' = Landed(slots, s)

\* A write looks at its caller's context as it begins; the second half of a
\* swap is not given one.
Stoppable == op.kind # "swap" \/ Len(op.steps) = 2

Write ==
  /\ pc = "write" /\ op.steps # <<>>
  /\ ~(cancelled /\ Stoppable)
  /\ Put(Head(op.steps))
  /\ Proceed("write", [op EXCEPT !.steps = Tail(@)])
  /\ UNCHANGED kept

\* The caller gave up before it began: nothing is sent.
WriteStopped ==
  /\ pc = "write" /\ op.steps # <<>>
  /\ cancelled /\ Stoppable
  /\ Fail(op.kept) /\ Sound
  /\ UNCHANGED <<slots, kept>>

\* Mutant: the error does not say where the backups are.
WriteFailsSilent ==
  /\ pc = "write" /\ op.steps # <<>>
  /\ Fault
  /\ Put(Head(op.steps)) \/ UNCHANGED slots
  /\ Fail({})
  /\ UNCHANGED kept

\* An error: a refusal, a timeout, the bus.  The write may have landed.
WriteFails ==
  /\ pc = "write" /\ op.steps # <<>>
  /\ Fault
  /\ (~(cancelled /\ Stoppable) /\ Put(Head(op.steps))) \/ UNCHANGED slots
  /\ Fail(op.kept)
  /\ UNCHANGED kept

Done ==
  /\ pc = "write" /\ op.steps = <<>>
  /\ End("done", op.kept)
  /\ UNCHANGED <<slots, kept, op, cancelled, past, faulty, counts>>

\* The process dies; a write it had begun lands or does not.
Die ==
  /\ pc # "idle"
  /\ \/ pc = "write" /\ op.steps # <<>> /\ ~(cancelled /\ Stoppable)
        /\ Put(Head(op.steps))
     \/ UNCHANGED slots
  /\ End("died", {})
  /\ UNCHANGED <<kept, op, cancelled, past, faulty, counts>>

-----------------------------------------------------------------------------
Asking ==
  \/ \E k \in {"copy", "swap"}, a, b \in Addresses, w \in BOOLEAN : BeginEdit(k, a, b, w)
  \/ \E k \in {"copy", "swap"}, a \in Addresses : RefuseSame(k, a)
  \/ \E f \in Files, a \in Addresses, w \in BOOLEAN : BeginImport(f, a, w)
  \/ \E a \in Addresses : RefuseFile(a)

Working ==
  \/ ListNames \/ ReadSource \/ RefuseSource \/ ReadDest \/ RefuseDest
  \/ FindWriter \/ RefuseWriter \/ ReadHeld \/ ReadFails
  \/ KeepOne \/ KeepRefuses \/ KeepFails
  \/ Plan \/ Write \/ WriteStopped \/ WriteFails \/ Done

Next == Asking \/ Working \/ GiveUp \/ Die

Spec == Init /\ [][Next]_vars

-----------------------------------------------------------------------------
\* Properties.

\* Every variable has its type.
TypeOK ==
  /\ slots \in [Addresses -> Slots]
  /\ kept \subseteq Kept
  /\ pc \in Places
  /\ op \in Ops
  /\ cancelled \in BOOLEAN /\ faulty \in BOOLEAN
  /\ said \in [end : {"none", "done", "failed", "died"}, kept : SUBSET Kept]
  /\ past \in [slots : [Addresses -> Slots], kept : SUBSET Kept]
  /\ edits \in 0..MaxEdits /\ faults \in 0..MaxFaults

\* What a slot held is in a backup of that slot, under its name if it has one.
InBackup(backups, at, s) ==
  [at |-> at, file |-> [name |-> IF s.body = Blank THEN NoName ELSE s.name,
                        body |-> s.body]] \in backups

\* Somebody's: a preset, an answer nobody can read, or a blank with a name.
Somebodys(s) == s.body \notin {None, Blank} \/ (s.body = Blank /\ s.name # Untouched)

\* What a swap takes for nothing: a slot with no blocks, whatever its name.
SwapWaives(s) == op.kind = "swap" /\ s.body = Blank

\* A slot stops holding something of somebody's only after a backup of it, from
\* that slot and under its name, is on disk: whatever failed, was given up or
\* died before, and whatever earlier edits did (rule 6 of backup.go; copyOne,
\* swapTwo and Import keep before they write).  A swap waives blank slots.
KeptFirst ==
  [][\A a \in Addresses :
       slots'[a] # slots[a] /\ Somebodys(slots[a]) /\ ~SwapWaives(slots[a])
         => InBackup(kept, a, slots[a])]_vars

\* The same of a blank slot somebody named, which rule 4 of backup.go keeps:
\* no edit overwrites one without a backup.
NamedBlankKept ==
  [][\A a \in Addresses :
       slots'[a] # slots[a] /\ slots[a].body = Blank /\ slots[a].name # Untouched
         => InBackup(kept, a, slots[a])]_vars

\* An edit that reports an error names, in it, a backup of every slot that no
\* longer holds what it held; and whatever it reports, it names every backup it
\* made, the first of two whose second failed included (KeptError, Keep).
ReportNamesBackups ==
  /\ said.end = "failed" =>
       \A a \in Addresses :
         \/ slots[a] = past.slots[a]
         \/ ~Somebodys(past.slots[a]) \/ SwapWaives(past.slots[a])
         \/ InBackup(said.kept, a, past.slots[a])
  /\ said.end \in {"done", "failed"} => kept \subseteq past.kept \cup said.kept

\* A preset swapped with an empty slot is in one of the two at every moment,
\* and stays on the pedal when the swap fails halfway or its process dies
\* (exchange).
MoveStaysOnPedal ==
  LET from == past.slots[op.from].body
      to   == past.slots[op.to].body
      now  == {slots[op.from].body, slots[op.to].body}
  IN op.kind = "swap" =>
       /\ from \in Presets /\ to \in {None, Blank} => from \in now
       /\ to \in Presets /\ from \in {None, Blank} => to \in now

\* An edit that ends in an error though nothing failed, because it was refused
\* or its caller gave up, has changed no slot: a swap is never left half done
\* by giving up (context.WithoutCancel in swapTwo); and a refusal has kept
\* nothing either (the order of the checks in copyOne, swapTwo and Import).
RefusalChangesNothing ==
  said.end = "failed" /\ ~faulty =>
    /\ slots = past.slots
    /\ cancelled \/ kept = past.kept

Swapped(s) == IF s.body \in Presets THEN s ELSE [name |-> Untouched, body |-> None]

\* An edit that says it is done has done exactly that: the named slots hold what
\* it promises, under the right names, and the others what they held, however
\* late its caller gave up (edit, copyOne, swapTwo, Import).
DoneIsExact ==
  said.end = "done" =>
    slots = CASE op.kind = "copy" ->
                   [past.slots EXCEPT ![op.to] = past.slots[op.from]]
              [] op.kind = "swap" ->
                   [past.slots EXCEPT ![op.to] = Swapped(past.slots[op.from]),
                                      ![op.from] = Swapped(past.slots[op.to])]
              [] op.kind = "import" ->
                   [past.slots EXCEPT ![op.to] =
                      [name |-> IF op.file.name = NoName THEN @.name ELSE op.file.name,
                       body |-> op.file.body]]
=============================================================================
