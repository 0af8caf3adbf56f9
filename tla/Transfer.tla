------------------------------ MODULE Transfer ------------------------------
(***************************************************************************)
(* A preset between the pedal and a file: a slot exported and imported     *)
(* again, a file imported and exported again, and a slot shown as a rig    *)
(* that is compiled like any other.  An import builds the slot in stages   *)
(* over an unused one; a stage that refuses leaves the pedal untouched.    *)
(*                                                                         *)
(* How the bytes reach the pedal is Command's and SlotOps'.                *)
(***************************************************************************)
EXTENDS Compile, Editors

CONSTANTS
  Slots,  \* presets the pedal holds
  Files   \* preset files somebody imports

\* A preset as the pedal keeps one: the first place of its grid is its input,
\* its lists are lists, and a control counted in wholes is at one.
IsList(s) == s \in Seq(ToSet(s))
IsKept(p) ==
  /\ p.grid[0].kind # "block"
  /\ IsList(p.snapshots)
  /\ IsList(p.switches) /\ \A n \in DOMAIN p.switches : IsList(p.switches[n])
  /\ IsList(p.controllers) /\ \A n \in DOMAIN p.controllers : IsList(p.controllers[n])
  /\ \A i \in Grid : p.grid[i].kind = "block" =>
       LET b == p.grid[i].body
           s == Symbol(b.model)
       IN InTable(b.model) => IsWhole(ModelOf(s), ParamsOf(s.params, b.values))

ASSUME TransferAssumption == \A p \in Slots : IsKept(p)

VARIABLES
  slot  \* the preset read off the pedal, or the one being built for it

transfer == <<vars, slot>>

NoSlot == [grid |-> "no slot"]

Import(d) == [kind |-> "import", was |-> d, over |-> Blank]
Export(p) == [kind |-> "export", was |-> p, over |-> Blank]
Show(p, t) == [kind |-> "show", was |-> p, over |-> t]

SlotName == "slot"

TransferTasks ==
  {Import(d) : d \in Files} \cup {Export(p) : p \in Slots}
    \cup {Show(p, t) : p \in Slots, t \in Templates}

TransferInit ==
  \/ Init /\ slot = NoSlot
  \/ /\ task \in TransferTasks
     /\ pc = IF task.kind = "import" THEN "place" ELSE "read"
     /\ doc = IF task.kind = "import" THEN task.was ELSE Blank
     /\ slot = IF task.kind = "import" THEN Untouched ELSE task.was
     /\ rig = Empty
     /\ at = 1 /\ blocks = Empty /\ said = Empty /\ missed = FALSE
     /\ chain = Empty /\ before = Empty /\ file = NoFile

-----------------------------------------------------------------------------
(* A slot read as the pedal's own file, or as a rig *)

Got == DecodePreset(slot)

\* A slot that names a model the table does not reach, or holds nothing.
Unreadable ==
  /\ pc = "read"
  /\ ~Names(Got) \/ Got.blocks = Empty
  /\ Refuse
  /\ UNCHANGED slot

ReadFile ==
  /\ pc = "read" /\ task.kind # "show"
  /\ Names(Got) /\ Got.blocks # Empty
  /\ file' = DocumentRead(SlotName, Got)
  /\ Goto("exported")
  /\ UNCHANGED <<rig, at, blocks, said, missed, chain, before, doc, slot>>

ReadRig ==
  /\ pc = "read" /\ task.kind = "show"
  /\ Names(Got) /\ Got.blocks # Empty
  /\ rig' = RigOf(SlotName, Got)
  /\ doc' = [task.over EXCEPT !.device = Device, !.name = rig'.name]
  /\ Goto("load")
  /\ UNCHANGED <<at, blocks, said, missed, chain, before, file, slot>>

-----------------------------------------------------------------------------
(* A file built into an unused slot *)

\* Somebody puts what they exported back.
PutBack ==
  /\ pc = "exported" /\ task.kind = "export"
  /\ doc' = file /\ slot' = Untouched
  /\ Goto("place")
  /\ UNCHANGED <<rig, at, blocks, said, missed, chain, before, file>>

PlaceBlocks ==
  /\ pc = "place"
  /\ IF ~Writes(doc) THEN Refuse /\ UNCHANGED slot
     ELSE IF ~Room(slot, Placements(doc)) THEN Refuse /\ UNCHANGED slot
     ELSE /\ slot' = PlaceAsWritten(slot, Placements(doc))
          /\ Goto("recall")
          /\ UNCHANGED build

\* After the chain, which says of every snapshot what is switched on.
Recall ==
  /\ pc = "recall"
  /\ \E states \in SnapshotStates(doc) : slot' = PlaceSnapshots(slot, states)
  /\ Goto("route")
  /\ UNCHANGED build

Held == RoutingOf(Untouched)

Route ==
  /\ pc = "route"
  /\ IF Overruns(doc, Held) THEN Goto("crashed") /\ UNCHANGED <<build, slot>>
     ELSE /\ slot' = Encode(PlaceRouting(slot, RoutingStates(doc, Held)))
          /\ Goto("imported")
          /\ UNCHANGED build

\* Somebody exports what they imported.
ReadAgain ==
  /\ pc = "imported" /\ task.kind = "import"
  /\ Goto("read")
  /\ UNCHANGED <<build, slot>>

TransferNext ==
  \/ Next /\ UNCHANGED slot
  \/ Unreadable \/ ReadFile \/ ReadRig
  \/ PutBack \/ PlaceBlocks \/ Recall \/ Route \/ ReadAgain

TransferSpec == TransferInit /\ [][TransferNext]_transfer
-----------------------------------------------------------------------------
(* Properties *)

Imported == pc = "imported"
BlocksAt(p) == {i \in Grid : p.grid[i].kind = "block"}

\* A cabinet's values as the pedal would read them back: the ones sent, and
\* nothing where fewer are sent than are named.
SameValues(was, now) ==
  /\ SubSeq(now, 1, Len(was)) = was
  /\ \A i \in Len(was) + 1 .. Len(now) : now[i] = 0

\* A block's values by what they set: a mono and a stereo instance of a model
\* need not name the same, nor in the same order.
NamedBy(b) == ParamsOf(Symbol(b.model).params, b.values)

SameBlock(was, now) ==
  /\ ModelOf(Symbol(now.model)) = ModelOf(Symbol(was.model))
  /\ now.enabled = was.enabled
  /\ \A key \in ToSet(Symbol(now.model).params) :
       key \in DOMAIN NamedBy(now) /\ NamedBy(now)[key] = Carried(NamedBy(was), key, 0)
  /\ MicAttr(Symbol(now.model), now.values) = MicAttr(Symbol(was.model), was.values)
  /\ SameValues(was.cab, now.cab)

\* A preset exported and imported again is the preset it was: each block
\* where it stood, the model it was but for mono and stereo, switched as it was
\* and set as it was in all its instance names, each with its cabinet; every
\* snapshot recalls what it recalled,
\* and leaves the pedal's own entries as an unused slot recalls them;
\* the chain is wrapped as it was, where the entry takes as many values as an
\* unused slot's; and the table points at the sections as they now lie
\* (editor.Document, Placements, SnapshotStates, RoutingStates,
\* wire.PlaceAsWritten, PlaceRouting, Encode).
PresetKept ==
  Imported /\ task.kind = "export" =>
    /\ BlocksAt(slot) = BlocksAt(task.was)
    /\ \A i \in BlocksAt(slot) : SameBlock(task.was.grid[i].body, slot.grid[i].body)
    /\ \A n \in DOMAIN slot.snapshots \cap DOMAIN task.was.snapshots :
         LET was == SnapshotsOf(task.was)[n]
             now == SnapshotsOf(slot)[n]
         IN /\ [now EXCEPT !.on = Empty] = [was EXCEPT !.on = Empty]
            /\ \A i \in BlocksAt(slot) : now.on[i] = was.on[i]
            /\ \A i \in Grid : ~Open(Untouched, i) =>
                 now.on[i] = Untouched.snapshots[n].on[i]
    /\ \A i \in DOMAIN Held :
         LET was == RoutingOf(task.was)[i].flow
             now == RoutingOf(slot)[i].flow
         IN Len(was.values) = Len(Held[i].flow.values) => now = was
    /\ slot.table = Offsets(slot)

\* A file imported and exported again says what it said of every block and
\* cabinet it named, of what each snapshot switches where a block stands at
\* the position its key counts, and of the routing an unused slot has room
\* for (the same code, the other way round).  Where a snapshot names more than
\* one entry of a position, a split beside a block, what comes back is what it
\* said of one of them, and nothing says which.
FileKept ==
  pc = "exported" /\ task.kind = "import" =>
    LET was == task.was
        kept(now, then) == \A key \in DOMAIN then.params \cap DOMAIN now.params :
                             now.params[key] = then.params[key]
    IN /\ file.name = SlotName
       /\ DOMAIN file.blocks = DOMAIN was.blocks
       /\ \A a \in DOMAIN was.blocks :
            LET b == file.blocks[a]
                c == was.blocks[a]
            IN /\ b.model = c.model /\ b.enabled = c.enabled
               /\ DOMAIN c.params \subseteq DOMAIN b.params /\ kept(b, c)
               /\ Carried(b.attrs, "mic", 0) = Carried(c.attrs, "mic", 0)
               /\ NamesCab(c) =>
                    LET now == file.routing[<<a[1], b.attrs.cab>>]
                        then == was.routing[<<a[1], c.attrs.cab>>]
                    IN now.model = then.model /\ now.attrs = then.attrs /\ kept(now, then)
       /\ \A n \in DOMAIN was.snapshots \cap DOMAIN file.snapshots :
            LET asked == was.snapshots[n].on
            IN \A a \in DOMAIN asked \cap DOMAIN was.blocks :
                 was.blocks[a].position = a[2] =>
                   /\ a \in DOMAIN file.snapshots[n].on
                   /\ file.snapshots[n].on[a] \in
                        SaidOf(was, was.snapshots[n], a[2] + GridOffset)
       /\ \A k \in DOMAIN was.routing \cap DOMAIN file.routing :
            k[2] \in {Held[i].slot : i \in DOMAIN Held} => kept(file.routing[k], was.routing[k])

\* A transfer loses nothing it has room for, whichever way it is taken first
\* (the same code, as above).
ComesBack == PresetKept /\ FileKept

\* A slot read as a rig and compiled is the slot exported as a file: the same
\* chain, under its name without the spaces around it, and the same routing
\* where the slot says any; and what is put in the rig after it was checked
\* leaves it one that can be read again (deviceslots.deviceReading,
\* compile.Lower).
ShownIsExported ==
  /\ pc = "load" /\ task.kind = "show" => ValidRig(rig)
  /\ Written /\ task.kind = "show" =>
       LET got == DecodePreset(task.was)
           exported == DocumentRead(SlotName, got)
       IN /\ file.blocks = exported.blocks
          /\ RoutingRead(got) # Empty =>
               \A k \in DOMAIN file.routing : file.routing[k] = exported.routing[k]
          /\ file.name = SubjectName(exported)
=============================================================================
