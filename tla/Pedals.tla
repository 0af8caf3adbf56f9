------------------------------- MODULE Pedals -------------------------------
(***************************************************************************)
(* A preset the way the pedal stores it, and what writes into one.  The    *)
(* pedal lays a chain on a grid it shares with its own input, output,      *)
(* split and join; it names a model by number, sends settings by place,    *)
(* and finds the sections of a preset by a table of offsets.               *)
(*                                                                         *)
(* Bytes are abstracted to what they hold and to how much room they take:  *)
(* a value is its number, whatever width and kind it is written in.        *)
(***************************************************************************)
EXTENDS Documents

CONSTANTS
  GridSize,  \* how many positions the pedal lays out
  Untouched  \* the unused slot a preset is built into, as the pedal wrote it

ASSUME GridAssumption == GridSize \in Nat

Grid == 0 .. GridSize - 1
GridOffset == 1

-----------------------------------------------------------------------------
(* Sections, and the table the pedal seeks them by *)

ToneKey == 0
SnapshotsKey == 10
OffsetOrder == <<0, 1, 3, 4, 2, 5, 6, 7, 10>>

Weight(entry) ==
  IF entry.kind = "block" THEN 2 + Len(entry.body.values) + Len(entry.body.cab)
                          ELSE 1

Size(p, key) ==
  CASE key = ToneKey -> MapThenSumSet(LAMBDA i : Weight(p.grid[i]), Grid)
    [] key = SnapshotsKey -> Len(p.snapshots)
    [] OTHER -> 1

\* Where each section starts, the first offset before them all and the last
\* two behind them; a section that is missing keeps none.
Offsets(p) ==
  LET before(n) == MapThenSumSet(LAMBDA i : 1 + Size(p, p.order[i]), 1 .. n - 1)
      where(key) == IF key \in Range(p.order)
                    THEN before(SelectInSeq(p.order, LAMBDA k : k = key)) ELSE -1
      end == before(Len(p.order) + 1)
  IN <<0>> \o [i \in DOMAIN OffsetOrder |-> where(OffsetOrder[i])] \o <<end, end>>

\* Mutant: the table is left as it was read.
EncodeBody(p) == p

\* A preset is written back with the table worked out afresh.
Encode(p) == [p EXCEPT !.table = Offsets(p)]

-----------------------------------------------------------------------------
(* Reading one *)

SlotsIn == [input  |-> <<"inputA">>,           output |-> <<"outputA">>,
            split  |-> <<"inputB", "split">>,  join   |-> <<"outputB", "join">>]
Selector == [inputA  |-> "input",  inputB  |-> "input",
             outputA |-> "output", outputB |-> "output"]

BlocksOf(p) ==
  LET at == Ascending({i \in Grid : p.grid[i].kind = "block"})
  IN [n \in DOMAIN at |->
        LET body == p.grid[at[n]].body
        IN [index |-> at[n], model |-> body.model, values |-> body.values,
            enabled |-> body.enabled, cab |-> body.cab,
            cabNamed |-> IF body.cab = Empty THEN 0 ELSE body.cabNamed]]

\* What the pedal wraps a chain in, each entry under the name a file gives it.
RoutingOf(p) ==
  FlattenSeq([n \in 1 .. GridSize |->
    LET entry == p.grid[n - 1]
    IN IF entry.kind \notin DOMAIN SlotsIn THEN <<>>
       ELSE LET held == SelectSeq(SlotsIn[entry.kind],
                                  LAMBDA s : s \in DOMAIN entry.flows)
            IN [i \in DOMAIN held |->
                  [slot |-> held[i], flow |-> entry.flows[held[i]]]]])

SnapshotsOf(p) ==
  [i \in DOMAIN p.snapshots |->
     LET s == p.snapshots[i]
     IN [name |-> Carried(s, "name", ""), tempo |-> Carried(s, "tempo", 0),
         led |-> Carried(s, "led", 0), valid |-> Carried(s, "valid", FALSE),
         on |-> s.on]]

\* Somebody's own words where they set them, and the block's name elsewhere.
LabelOf(one) == IF one.named /\ one.label # "" THEN one.label ELSE one.gear

SwitchesOf(p) ==
  FlattenSeq([n \in DOMAIN p.switches |->
    LET held == p.switches[n]
        named == Those(held, {i \in DOMAIN held : held[i].gear # ""})
    IN [i \in DOMAIN named |->
          [switch |-> n, label |-> LabelOf(named[i]),
           block |-> named[i].block, led |-> named[i].led]]])

ControllersOf(p) ==
  FlattenSeq([n \in DOMAIN p.controllers |->
    [i \in DOMAIN p.controllers[n] |->
       LET c == p.controllers[n][i]
       IN [number |-> n - 1, block |-> c.block, param |-> c.param,
           min |-> c.min, max |-> c.max]]])

DecodePreset(p) ==
  [blocks |-> BlocksOf(p), routing |-> RoutingOf(p), snapshots |-> SnapshotsOf(p),
   switches |-> SwitchesOf(p), controllers |-> ControllersOf(p)]

-----------------------------------------------------------------------------
(* Writing a chain into one *)

Open(p, i) == p.grid[i].kind \in {"block", "empty"}
EmptyEntry == [kind |-> "empty"]

\* A block where nothing but a block may go, and nowhere twice.
Room(p, placements) ==
  /\ \A n \in DOMAIN placements :
       LET i == placements[n].position + GridOffset IN i \in Grid /\ Open(p, i)
  /\ \A m, n \in DOMAIN placements :
       placements[m].position = placements[n].position => m = n

PlacedEntry(b) ==
  [kind |-> "block",
   body |-> [class |-> b.class, enabled |-> b.enabled, model |-> b.model,
             values |-> b.values, named |-> b.named,
             cab |-> b.cab, cabNamed |-> b.cabNamed,
             cabModel |-> IF b.cab = Empty THEN -1 ELSE b.cabModel]]

\* Every snapshot's record of what is switched on, where a block may go.
Recorded(p, on) ==
  [n \in DOMAIN p.snapshots |->
     [p.snapshots[n] EXCEPT !.on =
        [i \in DOMAIN @ |-> IF Open(p, i) THEN i \in on ELSE @[i]]]]

PlacedAt(placements, i) ==
  SelectInSeq(placements, LAMBDA b : b.position + GridOffset = i)
SwitchedOn(placements) ==
  {b.position + GridOffset : b \in {c \in Range(placements) : c.enabled}}

\* Every position a block may take is written, with a block or with nothing;
\* the pedal's own positions are left.
PlaceAsWritten(p, placements) ==
  LET at(i) == PlacedAt(placements, i)
  IN [p EXCEPT !.grid = [i \in Grid |-> IF ~Open(p, i) THEN p.grid[i]
                                        ELSE IF at(i) = 0 THEN EmptyEntry
                                        ELSE PlacedEntry(placements[at(i)])],
               !.snapshots = Recorded(p, SwitchedOn(placements))]

\* What is said of a snapshot, over what it holds and no further.
PlaceSnapshot(p, held, said) ==
  [field \in DOMAIN held |->
     IF field = "on"
     THEN [i \in DOMAIN held.on |-> IF i \in DOMAIN said.on /\ Open(p, i)
                                    THEN said.on[i] ELSE held.on[i]]
     ELSE Carried(said, field, held[field])]

PlaceSnapshots(p, said) ==
  [p EXCEPT !.snapshots =
     [n \in DOMAIN @ |-> IF n \in DOMAIN said THEN PlaceSnapshot(p, @[n], said[n])
                                              ELSE @[n]]]

\* Where the pedal keeps a slot: the first entry of the kind that holds it.
KindOf(slot) == CHOOSE kind \in DOMAIN SlotsIn : slot \in Range(SlotsIn[kind])
KindAt(p, kind) == {i \in Grid : /\ p.grid[i].kind = kind
                                 /\ \A j \in 0 .. i - 1 : p.grid[j].kind # kind}

\* Only the fields the entry keeps are written, with what is said of them.
PlaceRoute(p, r) ==
  [p EXCEPT !.grid = [i \in Grid |->
     IF i \in KindAt(p, KindOf(r.slot)) /\ r.slot \in DOMAIN p.grid[i].flows
     THEN [@[i] EXCEPT !.flows[r.slot] =
             [field \in DOMAIN @ |-> Carried(r.said, field, @[field])]]
     ELSE @[i]]]

PlaceRouting(p, routes) == FoldLeft(LAMBDA q, r : PlaceRoute(q, r), p, routes)
=============================================================================
