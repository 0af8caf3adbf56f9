------------------------------ MODULE Editors ------------------------------
(***************************************************************************)
(* The translation between what a pedal stores and the documents and rigs  *)
(* the rest of the program speaks, both ways.  A pedal names a model by    *)
(* its place in a table and sends values by place; a document names both,  *)
(* keeps an amplifier's cabinet as an entry of its own, and says which     *)
(* blocks a snapshot switches by entry where the pedal says it by grid     *)
(* position.                                                               *)
(***************************************************************************)
EXTENDS Pedals

CONSTANTS
  Symbols,  \* the model table: an identifier, the model it is an instance
            \* of and how, and its parameters in the order they are sent
  Flow      \* the models either side of a chain: input, main, send

\* Whatever the table names is a model's name.
ASSUME SymbolsAssumption ==
  \A n \in DOMAIN Symbols : NoModel \notin {Symbols[n].id, Symbols[n].base}

NoSymbol == -1
Symbol(n) == Symbols[n + 1]
InTable(n) == n + 1 \in DOMAIN Symbols

\* The number of a model: as it stands, or its mono or its stereo instance.
SymbolNumber(m) ==
  LET at(suffix) == SelectInSeq(Symbols, LAMBDA s :
        IF suffix = "" THEN s.id = m ELSE s.base = m /\ s.suffix = suffix)
      found == SelectSeq(<<at(""), at("Mono"), at("Stereo")>>, LAMBDA i : i # 0)
  IN IF found = <<>> THEN NoSymbol ELSE Head(found) - 1

\* The catalog names a model once, whatever instance of it the table holds.
ModelOf(s) ==
  IF s.id \notin Models /\ s.base \in Models THEN s.base ELSE s.id

\* The entry a model has under its own name.
SymbolFor(m) == SelectInSeq(Symbols, LAMBDA s : s.id = m)

ByKind(m, amp, cab, other) ==
  IF m \notin Models THEN other
  ELSE CASE Block(m).category = "amp" -> amp
         [] Block(m).category = "cab" -> cab
         [] OTHER -> other

TypeOf(m, paired) == ByKind(m, IF paired THEN 3 ELSE 1, 2, 0)
ClassOf(m, paired) == ByKind(m, IF paired THEN 18 ELSE 17, 15, 1)

CabKey(n) == "cab" \o ToString(n)

-----------------------------------------------------------------------------
(* From the pedal *)

\* The shorter of the names and the values is what can be read.
ParamsOf(names, values) ==
  [key \in {names[i] : i \in DOMAIN names \cap DOMAIN values} |->
     values[SelectInSeq(names, LAMBDA n : n = key)]]

\* The microphone is past every named value.
MicAttr(s, values) ==
  IF Len(values) <= Len(s.params) THEN <<>> ELSE [mic |-> values[Len(s.params) + 1]]

Names(got) == \A i \in DOMAIN got.blocks : InTable(got.blocks[i].model)

Chain(got) ==
  [i \in DOMAIN got.blocks |->
     LET b == got.blocks[i]
         s == Symbol(b.model)
         paired == b.cab # Empty
         cabs == Cardinality({j \in 1 .. i - 1 : got.blocks[j].cab # Empty})
     IN [model |-> ModelOf(s), params |-> ParamsOf(s.params, b.values),
         dsp |-> 0, pos |-> b.index - GridOffset, enabled |-> b.enabled,
         position |-> NoPosition,
         attrs |-> [type |-> TypeOf(ModelOf(s), paired)]
                     @@ (IF paired THEN [cab |-> CabKey(cabs)] ELSE <<>>)
                     @@ MicAttr(s, b.values)]]

NamedValues(m, values) ==
  IF SymbolFor(m) = 0 THEN Empty
  ELSE ParamsOf(Symbols[SymbolFor(m)].params, values)

\* The cabinet each amplifier was voiced with, as an entry of its own.
PairedCabs(got) ==
  LET link(b) == LET m == ModelOf(Symbol(b.model))
                 IN IF m \in Models THEN Block(m).cabLink ELSE NoModel
      paired == SelectSeq(got.blocks, LAMBDA b :
                  b.cab # Empty /\ InTable(b.model) /\ link(b) # NoModel)
      key(n) == <<0, CabKey(n - 1)>>
      mic(b) == IF b.cabNamed \in 1 .. Len(b.cab) - 1
                THEN [mic |-> b.cab[b.cabNamed + 1]] ELSE <<>>
  IN [k \in {key(n) : n \in DOMAIN paired} |->
        LET b == paired[CHOOSE n \in DOMAIN paired : key(n) = k]
        IN [model |-> link(b), attrs |-> [enabled |-> TRUE] @@ mic(b),
            params |-> NamedValues(link(b), b.cab)]]

HasModel(flow) == "model" \in DOMAIN flow

\* A split and a join name themselves; the catalog names the rest.
RouteModelOf(r) ==
  IF HasModel(r.flow)
  THEN IF InTable(r.flow.model) THEN Symbol(r.flow.model).id ELSE NoModel
  ELSE CASE r.slot \in {"inputA", "inputB"} -> Flow.input
         [] r.slot = "outputA" -> Flow.main
         [] r.slot = "outputB" -> Flow.send
         [] OTHER -> NoModel

RouteRead(r) ==
  LET m == RouteModelOf(r)
      selects == IF r.slot \in DOMAIN Selector /\ "select" \in DOMAIN r.flow
                 THEN [select |-> r.flow.select] ELSE <<>>
      sits == IF HasModel(r.flow)
              THEN [enabled |-> Carried(r.flow, "enabled", FALSE),
                    position |-> Carried(r.flow, "position", 0)]
              ELSE <<>>
  IN [model |-> m, attrs |-> selects @@ sits,
      params |-> NamedValues(m, Carried(r.flow, "values", Empty))]

\* What a document keeps beside its chain.
RoutingRead(got) ==
  LET named == SelectSeq(got.routing, LAMBDA r : RouteModelOf(r) # NoModel)
      at(slot) == SelectLastInSeq(named, LAMBDA r : r.slot = slot)
  IN [k \in {<<0, named[i].slot>> : i \in DOMAIN named} |->
        RouteRead(named[at(k[2])])] @@ PairedCabs(got)

\* Mutant: a snapshot names its blocks by where they lie on the grid.
SnapshotsByGrid(doc, got) ==
  LET switched(s) == {got.blocks[i].index : i \in DOMAIN got.blocks} \cap DOMAIN s.on
      on(s, was) == IF switched(s) = {} THEN was
                    ELSE [a \in {<<0, i>> : i \in switched(s)} |->
                            s.on[a[2]]]
      said(s) == [tempo |-> s.tempo, led |-> s.led, valid |-> s.valid]
      held(n) == IF n \in DOMAIN doc.snapshots THEN doc.snapshots[n]
                 ELSE [name |-> "", on |-> Empty, wraps |-> Empty, rest |-> Empty]
      into(n) == LET s == got.snapshots[n]
                 IN [name |-> s.name, on |-> on(s, held(n).on),
                     wraps |-> IF switched(s) = {} THEN held(n).wraps ELSE Empty,
                     rest |-> said(s) @@ held(n).rest]
  IN [doc EXCEPT !.snapshots =
        [n \in 1 .. Len(@) \cup DOMAIN got.snapshots |->
           IF n \in DOMAIN got.snapshots THEN into(n) ELSE @[n]]]

\* Into the snapshots the untouched preset holds, and past them.
SnapshotsInto(doc, got) ==
  LET switched(s) == {got.blocks[i].index : i \in DOMAIN got.blocks} \cap DOMAIN s.on
      on(s, was) == IF switched(s) = {} THEN was
                    ELSE [a \in {<<0, i - GridOffset>> : i \in switched(s)} |->
                            s.on[a[2] + GridOffset]]
      said(s) == [tempo |-> s.tempo, led |-> s.led, valid |-> s.valid]
      held(n) == IF n \in DOMAIN doc.snapshots THEN doc.snapshots[n]
                 ELSE [name |-> "", on |-> Empty, wraps |-> Empty, rest |-> Empty]
      into(n) == LET s == got.snapshots[n]
                 IN [name |-> s.name, on |-> on(s, held(n).on),
                     wraps |-> IF switched(s) = {} THEN held(n).wraps ELSE Empty,
                     rest |-> said(s) @@ held(n).rest]
  IN [doc EXCEPT !.snapshots =
        [n \in 1 .. Len(@) \cup DOMAIN got.snapshots |->
           IF n \in DOMAIN got.snapshots THEN into(n) ELSE @[n]]]

\* Entries said over those already there.
Over(said, held) ==
  [k \in DOMAIN said \cup DOMAIN held |-> IF k \in DOMAIN said THEN said[k] ELSE held[k]]

\* The file a slot becomes: its chain and routing over an untouched preset.
DocumentRead(name, got) ==
  LET chained == SetSpec([Blank EXCEPT !.device = Device], name, Chain(got))
  IN SnapshotsInto([chained EXCEPT !.routing = Over(RoutingRead(got), @)], got)

-----------------------------------------------------------------------------
(* From the pedal to a rig *)

\* A snapshot keeps its name and its tempo, and not what it switches.
RigSnapshots(got) ==
  [n \in DOMAIN got.snapshots |->
     LET s == got.snapshots[n]
     IN [name |-> s.name, on |-> Empty, wraps |-> Empty,
         rest |-> [led |-> s.led, valid |-> s.valid]
                    @@ (IF s.tempo > 0 THEN [tempo |-> s.tempo] ELSE <<>>)]]

RigFootswitches(got) ==
  [n \in DOMAIN got.switches |->
     LET f == got.switches[n]
     IN [switch |-> f.switch, label |-> f.label, path |-> 0,
         block |-> f.block - GridOffset, led |-> LEDColour(f.led)]]

\* A parameter is its place in the model's own order; one that names nothing
\* is dropped.
ParamNameOf(got, c) ==
  LET at == SelectInSeq(got.blocks, LAMBDA b : b.index = c.block)
  IN IF at = 0 THEN "none"
     ELSE IF ~InTable(got.blocks[at].model) THEN "none"
     ELSE LET names == Symbol(got.blocks[at].model).params
          IN IF c.param + 1 \in DOMAIN names THEN names[c.param + 1] ELSE "none"

RigControllers(got) ==
  LET swept == got.controllers
      named == Those(swept, {i \in DOMAIN swept : ParamNameOf(got, swept[i]) # "none"})
  IN [n \in DOMAIN named |->
        LET c == named[n]
        IN [number |-> c.number, path |-> 0, block |-> c.block - GridOffset,
            parameter |-> ParamNameOf(got, c),
            min |-> <<c.min>>, max |-> <<c.max>>]]

\* Lifted like a file; then what the device did not say is taken out.
RigOf(name, got) ==
  LET lifted == Lift(DocumentRead(name, got))
      routing == RoutingRead(got)
      switches == RigFootswitches(got)
      swept == RigControllers(got)
      has == (IF routing # Empty THEN {"device"} ELSE {})
               \cup (IF got.snapshots # Empty THEN {"snapshots"} ELSE {})
               \cup (IF switches # Empty THEN {"switches"} ELSE {})
               \cup (IF swept # Empty THEN {"controllers"} ELSE {})
  IN [lifted EXCEPT !.device = [id |-> Device, routing |-> routing],
                    !.snapshots = RigSnapshots(got), !.switches = switches,
                    !.controllers = swept, !.has = has]

-----------------------------------------------------------------------------
(* To the pedal *)

Truncate(v) == IF v >= 0 THEN (v \div Unit) * Unit ELSE -((-v \div Unit) * Unit)

\* A value in the shape the catalog says a parameter has.
RawValue(m, key, v) ==
  IF m \in Models /\ key \in DOMAIN Block(m).params /\ Block(m).params[key].kind = "int"
  THEN Truncate(v) ELSE v

\* A parameter nobody set still takes its place.
InOrder(names, m, params) ==
  [i \in DOMAIN names |-> RawValue(m, names[i], Carried(params, names[i], 0))]

MicOf(attrs) == IF "mic" \in DOMAIN attrs THEN <<attrs.mic>> ELSE <<>>

\* By place, the microphone last; a model with no names sends nothing.
ValuesOf(n, m, params, attrs) ==
  LET names == Symbol(n).params
  IN IF names = <<>> THEN <<>> ELSE InOrder(names, m, params) \o MicOf(attrs)

CabOf(doc, b) == doc.routing[<<b.dsp, b.attrs.cab>>]
NamesCab(b) == "cab" \in DOMAIN b.attrs

\* Every model is in the table, and every cabinet named in the document.
Writes(doc) ==
  LET c == ChainOf(doc)
  IN \A i \in DOMAIN c :
       /\ SymbolNumber(c[i].model) # NoSymbol
       /\ NamesCab(c[i]) =>
            /\ <<c[i].dsp, c[i].attrs.cab>> \in DOMAIN doc.routing
            /\ SymbolNumber(CabOf(doc, c[i]).model) # NoSymbol

PlacementOf(doc, b) ==
  LET n == SymbolNumber(b.model)
      held == CabOf(doc, b)
      m == SymbolNumber(held.model)
      cab == IF NamesCab(b) THEN ValuesOf(m, held.model, held.params, held.attrs)
                            ELSE <<>>
  IN [position |-> b.pos, model |-> n,
      values |-> ValuesOf(n, b.model, b.params, b.attrs),
      named |-> Len(Symbol(n).params), enabled |-> b.enabled,
      class |-> ClassOf(b.model, cab # Empty), cab |-> cab,
      cabNamed |-> IF NamesCab(b) THEN Len(Symbol(m).params) ELSE 0,
      cabModel |-> IF NamesCab(b) THEN m ELSE NoSymbol]

\* What goes on the grid, where its key in the document says.
Placements(doc) ==
  LET c == ChainOf(doc) IN [i \in DOMAIN c |-> PlacementOf(doc, c[i])]

\* Where an entry of the document says it sits: a block does, and so do a
\* split and a join.
BlockSits(doc, a, i) ==
  a \in DOMAIN doc.blocks /\ doc.blocks[a].position + GridOffset = i
WrapSits(doc, k, i) ==
  /\ k \in DOMAIN doc.routing /\ "position" \in DOMAIN doc.routing[k].attrs
  /\ doc.routing[k].attrs.position + GridOffset = i

\* All that a snapshot says of one place of the grid, by the entries it names.
SaidOf(doc, s, i) ==
  {s.on[a] : a \in {a \in DOMAIN s.on : a[1] = 0 /\ BlockSits(doc, a, i)}}
    \cup {s.wraps[k] : k \in {k \in DOMAIN s.wraps : k[1] = 0 /\ WrapSits(doc, k, i)}}

\* What each snapshot may be read to switch: of two entries at one place it is
\* the one that Go's map comes to last, and no order of a map is promised.
SnapshotStates(doc) ==
  LET placed(s) == {i \in Grid : SaidOf(doc, s, i) # {}}
      readings(s) == {[name |-> s.name, on |-> on] @@ s.rest :
                        on \in {f \in [placed(s) -> BOOLEAN] :
                                 \A i \in placed(s) : f[i] \in SaidOf(doc, s, i)}}
      said(n) == readings(doc.snapshots[n])
  IN {states \in [DOMAIN doc.snapshots -> UNION {said(n) : n \in DOMAIN doc.snapshots}] :
        \A n \in DOMAIN doc.snapshots : states[n] \in said(n)}

\* The fields a slot of the document says, for a slot the pedal holds.
RouteSaid(was, entry) ==
  LET only(fields, on) == IF on THEN [f \in fields \cap DOMAIN entry.attrs |->
                                        entry.attrs[f]] ELSE <<>>
      n == SymbolNumber(entry.model)
      model == IF HasModel(was.flow) /\ n # NoSymbol THEN [model |-> n] ELSE <<>>
      names == Symbols[SymbolFor(entry.model)].params
      values == IF SymbolFor(entry.model) = 0 THEN <<>>
                ELSE [values |-> InOrder(SubSeq(names, 1, Len(was.flow.values)),
                                         entry.model, entry.params)]
  IN only({"select"}, was.slot \in DOMAIN Selector)
       @@ only({"enabled", "position"}, HasModel(was.flow)) @@ model @@ values

Routed(doc, held) == SelectSeq(held, LAMBDA r : <<0, r.slot>> \in DOMAIN doc.routing)

\* As many values as the preset written into has, whatever model is named.
RoutingStates(doc, held) ==
  LET routed == Routed(doc, held)
  IN [i \in DOMAIN routed |->
        [slot |-> routed[i].slot,
         said |-> RouteSaid(routed[i], doc.routing[<<0, routed[i].slot>>])]]

\* A model that names fewer parameters than that is sliced past its end.
Overruns(doc, held) ==
  \E i \in DOMAIN Routed(doc, held) :
    LET was == Routed(doc, held)[i]
        n == SymbolFor(doc.routing[<<0, was.slot>>].model)
    IN n # 0 /\ Len(was.flow.values) > Len(Symbols[n].params)
=============================================================================
