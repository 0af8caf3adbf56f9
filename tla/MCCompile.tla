----------------------------- MODULE MCCompile -----------------------------
(* A ten-model catalog, a corpus that measured basses, and small rigs.     *)
EXTENDS Replies

Knob(default) == [kind |-> "float", min |-> 0, max |-> 80, default |-> default]
Whole(default) == [kind |-> "int", min |-> -24, max |-> 24, default |-> default]
Switch == [kind |-> "switch", min |-> 0, max |-> 0, default |-> 1]
Kindless == [kind |-> "none", min |-> 0, max |-> 80, default |-> 0]

Model(category, gear, tag, cost, params) ==
  [category |-> category, gear |-> gear, length |-> 10, tag |-> tag,
   cost |-> cost, params |-> params, cabLink |-> NoModel,
   trusted |-> TRUE, userIR |-> FALSE]

MCCatalog == <<
  [Model("amp", {"svt"}, "bass", 50,
     [Drive |-> Knob(32), ChVol |-> Knob(40), Treble |-> Knob(40), Bass |-> Kindless])
     EXCEPT !.cabLink = 5],
  [Model("amp", {"svt", "plexi"}, "guitar", 50,
     [Drive |-> Knob(40), Mid |-> Switch, ChVol |-> Knob(24)])
     EXCEPT !.cabLink = 5],
  Model("comp", {"la2a"}, "any", 40,
    [Level |-> Knob(40), Attack |-> Knob(40), Spread |-> Knob(0)]),
  Model("comp", {"dyna"}, "any", 40, [Level |-> Knob(48)]),
  Model("cab", {"8x10"}, "any", 10, [LowCut |-> Whole(8)]),
  Model("eq", {"graphic"}, "any", 30, [MidGain |-> Knob(40), HighGain |-> Knob(40)]),
  [Model("filter", {"mutron"}, "any", 30, [Mix |-> Knob(80)]) EXCEPT !.length = 12],
  Model("filter", {"mutron"}, "any", 30, [Mix |-> Knob(72)]),
  [Model("cab", {"8x10", "ir"}, "any", 10, [Mix |-> Knob(40)])
     EXCEPT !.userIR = TRUE, !.length = 2],
  [Model("reverb", {"plate"}, "any", 60, [Mix |-> Knob(40)]) EXCEPT !.trusted = FALSE]
  >>
Unknown == 11

MCStats ==
  [grammar |-> "bass" :>
     [chains |-> 8,
      models |-> 1 :> 4 @@ 3 :> 2 @@ 4 :> 5 @@ 6 :> 3 @@ 7 :> 1 @@ 8 :> 1,
      categories |->
        [amp |-> [chains |-> 8, before |-> 0, after |-> 0],
         comp |-> [chains |-> 7, before |-> 5, after |-> 2],
         cab |-> [chains |-> 7, before |-> 0, after |-> 7],
         eq |-> [chains |-> 3, before |-> 1, after |-> 2],
         filter |-> [chains |-> 1, before |-> 1, after |-> 0]]],
   uses |-> [m \in 1 .. 9 |-> 1],
   params |-> <<1, "Treble">> :> [median |-> 60, spread |-> 8]
           @@ <<1, "Drive">> :> [median |-> 48, spread |-> 40]
           @@ <<5, "LowCut">> :> [median |-> -12, spread |-> 4]]

MCColours == <<"auto", "red", "violet">>
MCLimits == [MaxBlocks |-> 6, Paths |-> 2, ChipCeiling |-> 95]

-----------------------------------------------------------------------------
Gear(role, gear) ==
  [role |-> role, gear |-> gear, sub |-> "none", settings |-> Empty,
   model |-> NoModel, path |-> 0, pos |-> NoPosition, enabled |-> TRUE,
   exact |-> FALSE, params |-> Empty, attrs |-> Empty, position |-> NoPosition]
Svt == Gear("amp", "svt")
Loud == [Svt EXCEPT !.settings = [level |-> 2]]
Comped == [Gear("comp", "la2a") EXCEPT !.settings = [level |-> 1]]
Pedal == Gear("other", "mutron")
Plate == Gear("reverb", "plate")
Lost == Gear("cab", "isobaric")
Cab == Gear("cab", "8x10")
Alembic == [Gear("amp", "f2b") EXCEPT !.sub = "svt"]

Rig(gear, instrument) ==
  [name |-> "made", instrument |-> instrument, chain |-> gear,
   target |-> "any", terms |-> Empty, technique |-> "none",
   controllers |-> Empty, sections |-> Empty, switches |-> Empty,
   snapshots |-> Empty, device |-> Empty,
   has |-> {"controllers", "switches", "sections"}]

Said(term) == [term |-> term, evidence |-> Empty]
Half(term) == [term |-> term, evidence |-> <<[measured |-> 1, against |-> 2]>>]

GearChains ==
  {<<Svt>>, <<Comped, Loud, Cab>>, <<Alembic, Lost>>, <<Pedal, Svt, Pedal>>,
   <<Svt, Gear("eq", "graphic"), Gear("filter", "mutron"), Comped>>,
   <<Svt, Plate>>, <<Gear("amp", "f2b")>>, <<Lost>>, <<Loud>>}
Words ==
  {Empty, <<Said("bright")>>, <<Said("bright"), Said("glassy"), Said("clean")>>,
   <<Half("mid-forward"), Said("percussive")>>,
   <<Said("mid-forward"), Said("scooped"), Said("envelope-swept"), Said("static")>>,
   <<Said("envelope-swept"), Said("dry"), Said("odd")>>}
Controller(path, block, parameter) ==
  [number |-> 2, path |-> path, block |-> block, parameter |-> parameter,
   min |-> Empty, max |-> <<40>>]
Assigned ==
  {Empty, <<Controller(0, 0, "Level")>>,
   <<Controller(0, 1, "Drive"), Controller(0, 2, "LowCut")>>}
SwitchOn(path, block, led) ==
  [switch |-> 1, label |-> "on", path |-> path, block |-> block, led |-> led]
Switched ==
  {Empty, <<SwitchOn(0, 0, "violet"), SwitchOn(0, NoBlock, "none")>>,
   <<SwitchOn(0, 3, "red")>>}
Song ==
  {Empty, <<[name |-> "verse", play |-> {}, bypass |-> {"comp"}],
            [name |-> "chorus", play |-> {"comp"}, bypass |-> {"cab"}]>>}

MCRecipes ==
  {[Rig(c, "bass") EXCEPT !.terms = w, !.controllers = a, !.switches = s,
                          !.sections = v] :
     c \in GearChains, w \in Words, a \in Assigned, s \in Switched, v \in Song}
  \cup {[Rig(c, "bass") EXCEPT !.terms = w, !.sections = v, !.technique = "slap"] :
          c \in GearChains, w \in Words, v \in Song}
  \cup {[Rig(c, "guitar") EXCEPT !.has = {}] : c \in GearChains}
  \cup {[Rig(<<Svt>>, "bass") EXCEPT !.target = t] : t \in {"stomp", "floor"}}
  \cup {Rig(<<>>, "bass"), [Rig(<<Svt>>, "bass") EXCEPT !.name = "  "],
        Rig(<<[Svt EXCEPT !.settings = [drive |-> 3]]>>, "bass"),
        [Rig(<<Svt>>, "bass") EXCEPT
           !.switches = <<[SwitchOn(0, 0, "red") EXCEPT !.switch = 0]>>]}

MCTrimmed == "  " :> "" @@ "KASHMIR " :> "KASHMIR"

-----------------------------------------------------------------------------
Snapshot(name) ==
  [name |-> name, on |-> Empty, wraps |-> Empty, rest |-> [tempo |-> 120, led |-> 0, valid |-> FALSE]]
Wrap(m, select, params) ==
  [model |-> m, attrs |-> [select |-> select], params |-> params]
MCBlank ==
  [name |-> "New Preset", device |-> "stomp", meta |-> [build |-> 1],
   blocks |-> Empty,
   routing |-> <<0, "inputA">> :> Wrap(20, 1, [gate |-> 0])
            @@ <<0, "outputA">> :> Wrap(21, 1, [pan |-> 4]),
   snapshots |-> <<Snapshot("1"), Snapshot("2"), Snapshot("3")>>,
   tone |-> [global |-> "blank", variax |-> "blank"]]
Stored(m, params, position) ==
  [model |-> m, params |-> params, enabled |-> position # 2,
   attrs |-> [type |-> "other"], position |-> position]
Full ==
  [name |-> "KASHMIR ", device |-> "floor", meta |-> [author |-> "jp"],
   blocks |-> <<0, 0>> :> Stored(3, [Level |-> 7], 2)
           @@ <<0, 2>> :> Stored(1, [Drive |-> 9, Bass |-> 3], 0)
           @@ <<1, 0>> :> Stored(Unknown, [New |-> 5], 0),
   routing |-> <<0, "inputA">> :> Wrap(20, 0, [gate |-> 1])
            @@ <<0, "split">> :> Wrap(22, 1, [route |-> 4]),
   snapshots |-> <<[Snapshot("A") EXCEPT !.on = <<0, 0>> :> FALSE, !.rest = [tempo |-> 90],
                                         !.wraps = <<0, "split">> :> TRUE],
                   [Snapshot("B") EXCEPT !.on = <<1, 0>> :> TRUE]>>,
   tone |-> [global |-> "own",
             controller |-> <<0, 0, "Level">> :> [number |-> 2, min |-> 0, max |-> 1],
             footswitch |-> <<1, 0>> :> [switch |-> 2, label |-> "new", chosen |-> 2]
                         @@ <<0, 2>> :> [switch |-> 1, label |-> "amp", chosen |-> -1]]]
Bare ==
  [name |-> "", device |-> "stomp", meta |-> [build |-> 2], blocks |-> Empty,
   routing |-> Empty, snapshots |-> Empty, tone |-> [footswitch |-> Empty]]
MCTemplates == {MCBlank, Full}
MCPresets == {Full, Bare}

-----------------------------------------------------------------------------
(* A table that names the compressor twice, its stereo instance with a
   parameter of its own, and models the catalog has not.                       *)
In(id, base, suffix, params) ==
  [id |-> id, base |-> base, suffix |-> suffix, params |-> params]
Own(id, params) == In(id, id, "", params)
MCSymbols ==
  <<Own(1, <<"Drive", "ChVol", "Treble", "Bass">>),
    In(31, 3, "Mono", <<"Level", "Attack">>),
    In(32, 3, "Stereo", <<"Level", "Spread", "Attack">>),
    Own(5, <<"LowCut">>), Own(Unknown, <<"New">>),
    Own(20, <<"gate", "decay">>), Own(21, <<"pan", "gain">>), Own(26, <<"pan">>),
    Own(22, <<"a", "b">>), Own(23, <<"route">>), Own(24, <<"x", "y", "z">>),
    Own(25, <<"level">>), Own(2, <<"Drive">>)>>
MCFlow == [input |-> 20, main |-> 21, send |-> 26]
SplitY == 8
SplitAB == 9
SplitDyn == 10

\* Eight positions: 0 the input, 4 the split, 6 the join and 7 the output.
Nothing == [kind |-> "empty"]
Pedalboard(one, two, three, five, split) ==
  <<one, two, three,
    [kind |-> "split",
     flows |-> [inputB |-> [select |-> 0, values |-> <<>>], split |-> split]],
    five,
    [kind |-> "join",
     flows |-> [outputB |-> [select |-> 0, values |-> <<1>>],
                join |-> [model |-> 11, position |-> 4, enabled |-> TRUE,
                          values |-> <<2>>]]],
    [kind |-> "output", flows |-> [outputA |-> [select |-> 1, values |-> <<4>>]]]>>
  @@ 0 :> [kind |-> "input", flows |-> [inputA |-> [select |-> 1, values |-> <<3>>]]]
Split(model, enabled, values) ==
  [model |-> model, position |-> 0, enabled |-> enabled, values |-> values]
Recalls(name, on) ==
  [name |-> name, tempo |-> 120, led |-> 0, valid |-> FALSE,
   on |-> [i \in 0 .. 7 |-> i \in on]]
MCOrderOf == <<7, 0, 1, 3, 4, 2, 5, 6, 10>>
Preset(grid, snapshots) ==
  LET p == [grid |-> grid, snapshots |-> snapshots, order |-> MCOrderOf,
            table |-> <<>>, switches |-> <<>>, controllers |-> <<>>]
  IN Encode(p)
MCUntouched ==
  Preset(Pedalboard(Nothing, Nothing, Nothing, Nothing, Split(SplitY, TRUE, <<4, 4>>)),
         <<Recalls("1", {0, 4, 6, 7}), Recalls("2", {0, 4, 6, 7})>>)

Holds(model, values, cab, enabled) ==
  [kind |-> "block",
   body |-> [class |-> ClassOf(ModelOf(Symbol(model)), cab # <<>>),
             enabled |-> enabled, model |-> model, values |-> values,
             named |-> Len(Symbol(model).params), cab |-> cab,
             cabNamed |-> IF cab = <<>> THEN 0 ELSE 1,
             cabModel |-> IF cab = <<>> THEN -1 ELSE 3]]
AmpCab == Holds(0, <<9, 8, 7, 6>>, <<8, 2>>, TRUE)
MCSlots ==
  {[Preset(Pedalboard(one, two, three, five, split), <<first, Recalls("b", {2, 6})>>)
      EXCEPT !.switches = <<<<[gear |-> "amp", block |-> 2, led |-> 1, named |-> TRUE,
                               label |-> "loud"]>>, <<>>>>,
             !.controllers = <<<<>>, <<[block |-> 2, param |-> 0, min |-> 0, max |-> 1],
                                       [block |-> 1, param |-> 9, min |-> 0, max |-> 1]>>>>] :
     one \in {Nothing, Holds(2, <<1, 6, 2>>, <<>>, FALSE)},
     two \in {Nothing, AmpCab, Holds(0, <<9>>, <<>>, TRUE)},
     three \in {Nothing, Holds(3, <<8, 3>>, <<>>, TRUE)},
     five \in {Nothing, [AmpCab EXCEPT !.body.cab = <<16>>], Holds(4, <<1>>, <<>>, FALSE),
              [Holds(4, <<>>, <<>>, TRUE) EXCEPT !.body.model = 99]},
     split \in {Split(SplitY, FALSE, <<3, 2>>), Split(SplitAB, TRUE, <<1>>),
               Split(SplitDyn, TRUE, <<1, 2, 3>>)},
     first \in {Recalls("a", {1, 3, 0}),
               [Recalls("a", {1, 3, 0}) EXCEPT !.valid = TRUE, !.tempo = 90, !.led = 2]}}

\* Files: a chain on one processor, its cabinet beside it.
At(m, params, enabled, attrs, position) ==
  [model |-> m, params |-> params, enabled |-> enabled, attrs |-> attrs,
   position |-> position]
FileOf(placed, splits, on, wraps) ==
  [MCBlank EXCEPT !.name = "file", !.blocks = placed,
     !.routing = splits @@ <<0, "cab0">> :> [model |-> 5, attrs |-> [enabled |-> TRUE, mic |-> 2],
                                     params |-> [LowCut |-> -8]] @@ @,
     !.snapshots = <<[Snapshot("loud") EXCEPT !.on = on, !.wraps = wraps],
                     Snapshot("soft")>>]
MCFiles ==
  {FileOf(<<0, 0>> :> comp @@ <<0, p>> :> amp, splits, on, wraps) :
     comp \in {At(3, [Level |-> 5], TRUE, [type |-> 0], 0),
             At(3, [Level |-> 5, Attack |-> 3], FALSE, [type |-> 0], 0),
             At(20, <<>>, TRUE, [type |-> 0], 0), At(4, <<>>, TRUE, [type |-> 0], 0)},
     p \in {1, 2, 3, 6},
     amp \in {At(1, [Drive |-> 9], TRUE, [type |-> 3, cab |-> "cab0"], 2),
            At(1, [Drive |-> 9], TRUE, [type |-> 1], 0),
            At(5, [LowCut |-> 8], FALSE, [type |-> 2, mic |-> 4], 1),
            At(1, [Drive |-> 9], TRUE, [type |-> 3, cab |-> "cab1"], 2)},
     splits \in {<<>>,
               <<0, "split">> :> [model |-> 24, attrs |-> [position |-> 0, enabled |-> TRUE],
                                 params |-> [x |-> 1, y |-> 2, z |-> 3]],
               <<0, "split">> :> [model |-> 23, attrs |-> [position |-> 0, enabled |-> TRUE],
                                 params |-> [route |-> 1]]},
     on \in {<<>>, <<0, 0>> :> FALSE @@ <<0, 1>> :> TRUE @@ <<0, 2>> :> FALSE},
     wraps \in {<<>>, <<0, "split">> :> TRUE}}
  \cup {Full, Bare}
-----------------------------------------------------------------------------
(* A setlist file, a bundle of two, one cut short and one that is neither. *)
Loose == [MCBlank EXCEPT !.name = "loose", !.device = "floor",
                         !.blocks = <<0, 1>> :> Stored(4, [Level |-> 2], 1)]
OneList == Packed("L6Setlist", "list", << <<[Bare EXCEPT !.device = NoDevice], Loose>> >>)
TwoLists == Packed("L6PresetBundle", "all", << <<Full>>, <<Loose>> >>)
MCBundles ==
  {OneList, TwoLists, [TwoLists EXCEPT !.payload = << <<Full>> >>],
   [OneList EXCEPT !.schema = "L6Preset"]}
MCSingles == {[Loose EXCEPT !.name = "single"]}
MCPlaces == {1, 2} \X {1, 2}

-----------------------------------------------------------------------------
(* Two rigs that ship, and what somebody may have put over them. *)
MCAlphabet == <<"bass", "cliff", "flea", "geddy", "jaco">>
MCFolded == "JACO" :> "jaco"
File(id, aliases, oneLine, extends) ==
  [stem |-> id, id |-> id, aliases |-> aliases, oneLine |-> oneLine,
   extends |-> extends, sound |-> "rig", rig |-> Rig(<<Svt>>, "bass")]
Flea == File("flea", <<"bass">>, TRUE, "")
Jaco == [File("jaco", <<"geddy">>, FALSE, "flea") EXCEPT !.rig.chain = <<Comped, Loud, Cab>>]
MCBases == {{Flea, Jaco}, {Flea, [Jaco EXCEPT !.sound = "invalid"]}}
MCShelves ==
  {{}, {File("cliff", <<"bass">>, TRUE, "")},
   {File("geddy", <<"JACO">>, FALSE, "jaco")},
   {[File("cliff", <<"bass">>, TRUE, "") EXCEPT !.sound = "invalid"]},
   {[File("cliff", <<"bass">>, TRUE, "") EXCEPT !.sound = "unread"],
    File("geddy", <<"JACO">>, TRUE, "")},
   {[File("cliff", <<>>, TRUE, "") EXCEPT !.id = "geddy"],
    File("geddy", <<"bass">>, TRUE, "flea")}}
MCNewIds == {"cliff", "geddy", "Mr. Bungle"}
MCOrders ==
  {[name |-> "new", plain |-> p, instrument |-> "bass", amp |-> a, cab |-> c,
    pedals |-> <<"mutron">>] : p \in BOOLEAN, a \in {"svt"}, c \in {"8x10", "4x12"}}

-----------------------------------------------------------------------------
(* A tone section of three positions, whole and cut short, and one whose keys
   are not all integers.  TLC's own integers end where an int32 does.         *)
Width(code, least, most) == [code |-> code, least |-> least, most |-> most]
MCNumbers ==
  <<Width("fixint", 0, 127), Width("negfix", -32, -1), Width("uint8", 0, 255),
    Width("int8", -128, 127), Width("uint16", 0, 65535), Width("int16", -32768, 32767),
    Width("uint32", 0, 2147483647), Width("int32", -2147483647, 2147483647),
    Width("uint64", 0, 2147483647), Width("int64", -2147483647, 2147483647)>>
MCStrings ==
  <<Width("fixstr", 0, 31), Width("str8", 0, 255), Width("str16", 0, 65535),
    Width("str32", 0, 2147483647)>>
Code(code, n) == <<[code |-> code, n |-> n]>>
Small(n) == Code(EncodeInt(n, "nil"), n)
Counted(code, n, items) == Code(code, n) \o FlattenSeq(items)
Position(kind, inside) == Counted("map", 2, <<Small(19), Small(kind), Small(20), inside>>)
Placed(number) ==
  Position(6, Counted("map", 2, <<Small(10), Code("true", 0),
    Small(24), Counted("map", 1, <<Small(25), number>>)>>))
Cleared == Position(8, Code("nil", 0))
Tone(first, second) ==
  Counted("map", 3,
    <<Small(9), Code("float32", 3), Code("uint16", 22),
      Counted("array", 3,
        <<Position(0, Counted("map", 1, <<Small(5), Code("uint8", 1)>>)), first, second>>),
      Small(21), Code("str8", 40)>>)
WholeTone == Tone(Placed(Code("uint16", 261)), Cleared)
Wordy == Counted("map", 3, <<Small(21), Code("int16", 4), Code("fixstr", 3), Small(1),
                             Small(22), Counted("array", 0, <<>>)>>)
MCBodies ==
  {[body |-> WholeTone, tail |-> <<>>], [body |-> Wordy, tail |-> <<>>],
   [body |-> SubSeq(WholeTone, 1, 14), tail |-> SubSeq(WholeTone, 15, Len(WholeTone))]}
MCPaths ==
  {<<21>>, <<22, 0, 20, 5>>, <<22, 1, 20, 24, 25>>, <<22, 3>>, <<21, 0>>}
MCValues ==
  {[kind |-> "int", n |-> 300], [kind |-> "text", n |-> 20], [kind |-> "float", n |-> 7]}
MCGridPaths == {<<22, 0>>, <<22, 2>>}
MCEntered == {Placed(Small(120)), Cleared}

-----------------------------------------------------------------------------
(* Answers to call 1002: a listing of two, done or accepted or a status nobody
   has seen, and a refusal, with an older answer, a notification or nothing
   before them and with an opaque tail; then one behind a corrupt length.      *)
Row(key, name) ==
  Counted("map", 1, <<key, Counted("map", 1, <<Code("uint16", 109), name>>)>>)
Both == Counted("array", 2, <<Row(Small(7), Code("fixstr", 4)), Row(Small(3), Code("str8", 5))>>)
Nameless == Counted("array", 1, <<Counted("map", 1, <<Small(1), Code("nil", 0)>>)>>)
Failed == Counted("map", 1, <<Small(111), Code("int8", -3)>>)
Response(txn, status, result) ==
  Counted("map", 3,
    <<Code("uint16", 102), txn, Small(103), status, Small(104), result>>)
Notice == Counted("map", 1, <<Small(103), Small(1)>>)
Exchange(sent, meant) == [txn |-> 1002, sent |-> sent, meant |-> meant, sound |-> TRUE]
Ours(status, result) == Response(Code("uint16", 1002), status, result)
TwoNames == [did |-> "listed", names |-> <<4, 5>>]
MCExchanges ==
  {Exchange(<<Ours(Code("uint8", 0), Both) \o <<[code |-> "junk", n |-> 9]>>, Notice>>, TwoNames),
   Exchange(<<Notice, Ours(Small(1), Both)>>, TwoNames),
   Exchange(<<Response(Small(7), Small(0), Both), Ours(Code("uint8", 255), Failed)>>,
            [did |-> "refused", number |-> -3]),
   Exchange(<<Code("nil", 0), Ours(Code("negfix", -1), Code("nil", 0))>>,
            [did |-> "refused", number |-> 0]),
   Exchange(<<Ours(Small(2), Both)>>, [did |-> "unexpected", number |-> 2]),
   Exchange(<<Ours(Small(0), Nameless)>>, [did |-> "unreadable"]),
   [Exchange(<< <<>>, Ours(Small(0), Both)>>, TwoNames) EXCEPT !.sound = FALSE]}
MCBetween ==
  {<<>>, Frame("cli", {"ack"}, <<>>), Frame("events", {"data"}, <<[code |-> "nil", n |-> 0]>>)}
=============================================================================
