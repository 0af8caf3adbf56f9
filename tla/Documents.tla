----------------------------- MODULE Documents -----------------------------
(***************************************************************************)
(* A preset document, and the two ways between it and a rig: Lift reads    *)
(* one into a rig, Lower writes a rig over one.                            *)
(*                                                                         *)
(* A document's blocks and its routing are kept by processor and entry;    *)
(* what the file says beside them (meta, tone) is carried and not looked   *)
(* into, except for the controllers and the footswitches.                  *)
(***************************************************************************)
EXTENDS Rigs

CONSTANTS
  Blank  \* the untouched preset a rig is written over

Empty == <<>>

-----------------------------------------------------------------------------
(* What a device writes *)

IsFcn(f) == f = [x \in DOMAIN f |-> f[x]]

\* A control that is counted in wholes is at one.
IsWhole(m, params) ==
  /\ IsFcn(params)
  /\ m \in Models =>
       \A key \in DOMAIN params \cap DOMAIN Block(m).params :
         Block(m).params[key].kind = "int" =>
           params[key] \in Int /\ Round(params[key]) = params[key]

IsStored(b) ==
  /\ b = [model |-> b.model, params |-> b.params, enabled |-> b.enabled,
          attrs |-> b.attrs, position |-> b.position]
  /\ b.model # NoModel /\ IsWhole(b.model, b.params)
  /\ b.position \in Nat

IsSwitch(fs) ==
  /\ fs = [switch |-> fs.switch, label |-> fs.label, chosen |-> fs.chosen]
  /\ fs.switch \in Nat \ {0} /\ fs.chosen \in -1 .. Len(Colours) - 1

IsAddressed(held) ==
  /\ IsFcn(held) /\ IsFiniteSet(DOMAIN held)
  /\ DOMAIN held \subseteq Nat \X Nat

IsTone(tone) ==
  /\ IsFcn(tone)
  /\ "footswitch" \in DOMAIN tone =>
       /\ IsAddressed(tone["footswitch"])
       /\ \A a \in DOMAIN tone["footswitch"] : IsSwitch(tone["footswitch"][a])

\* Which blocks it switches, and which of the entries a chain is wrapped in.
IsSnapshot(s) ==
  s = [name |-> s.name, on |-> s.on, wraps |-> s.wraps, rest |-> s.rest]

\* A device always says something of the preset itself.
IsPreset(d) ==
  /\ d = [name |-> d.name, device |-> d.device, meta |-> d.meta, blocks |-> d.blocks,
          routing |-> d.routing, snapshots |-> d.snapshots, tone |-> d.tone]
  /\ d.meta # Empty
  /\ IsAddressed(d.blocks) /\ \A a \in DOMAIN d.blocks : IsStored(d.blocks[a])
  /\ d.snapshots \in Seq(ToSet(d.snapshots))
  /\ \A s \in ToSet(d.snapshots) : IsSnapshot(s)
  /\ IsTone(d.tone)

ASSUME BlankAssumption == IsPreset(Blank)

-----------------------------------------------------------------------------
(* The chain in a document *)

\* The position attribute a chain did not carry is its place.
Encoded(block) ==
  [model    |-> block.model,
   params   |-> block.params,
   enabled  |-> block.enabled,
   attrs    |-> block.attrs,
   position |-> IF block.position = NoPosition THEN block.pos ELSE block.position]

Address(block) == <<block.dsp, block.pos>>

\* Of two blocks at one place it is the last that stands there.
LastAt(chain, a) == Max({i \in DOMAIN chain : Address(chain[i]) = a})

\* Every processor loses its blocks, and takes the chain's.
SetSpec(doc, name, chain) ==
  [doc EXCEPT
     !.name = name,
     !.blocks = [a \in {Address(chain[i]) : i \in DOMAIN chain} |->
                   Encoded(chain[LastAt(chain, a)])]]

\* By processor, then the attribute, then the key.
Earlier(doc) ==
  LET held == DOMAIN doc.blocks
      position(a) == doc.blocks[a].position
  IN {p \in held \X held :
        LET a == p[1]
            b == p[2]
        IN \/ a[1] < b[1]
           \/ a[1] = b[1] /\ position(a) < position(b)
           \/ a[1] = b[1] /\ position(a) = position(b) /\ a[2] < b[2]}

\* A block where it stands.
Standing(doc, a) ==
  LET b == doc.blocks[a]
  IN [model |-> b.model, params |-> b.params, dsp |-> a[1], pos |-> a[2],
      enabled |-> b.enabled, attrs |-> b.attrs, position |-> b.position]

\* The chain read back.
ChainOf(doc) ==
  LET order == Ordered(DOMAIN doc.blocks, Earlier(doc))
  IN [i \in DOMAIN order |-> Standing(doc, order[i])]

-----------------------------------------------------------------------------
(* Song sections, written over a document's snapshots *)

RolesOf(chain) ==
  [i \in DOMAIN chain |->
     IF chain[i].model \in Models THEN Block(chain[i].model).category ELSE "none"]

Contradicts(section) == section.play \cap section.bypass # {}

\* A section can only switch what the chain holds.
Buildable(doc, rig, chain) ==
  "sections" \in rig.has =>
    /\ "snapshots" \notin rig.has
    /\ Len(rig.sections) <= Len(doc.snapshots)
    /\ \A i \in DOMAIN rig.sections :
         /\ rig.sections[i].play \cup rig.sections[i].bypass
              \subseteq Range(RolesOf(chain))
         /\ ~Contradicts(rig.sections[i])

Engaged(section, role, enabled) ==
  IF role \in section.bypass THEN FALSE
  ELSE role \in section.play \/ enabled

\* A section's snapshot is set up, under a name somebody gave it.
SetUp == [named |-> TRUE, valid |-> TRUE]

\* Mutant: the blocks a section names, over what the snapshot said.
SectionEntryOver(existing, section, chain) ==
  [existing EXCEPT
     !.name = section.name,
     !.on = [a \in {Address(chain[i]) : i \in DOMAIN chain} |->
               LET i == LastAt(chain, a)
               IN Engaged(section, RolesOf(chain)[i], chain[i].enabled)] @@ @,
     !.rest = SetUp @@ @]

\* Over the snapshot there: the blocks are the section's to say, and what else
\* of a path it switches stays.
SectionEntry(existing, section, chain) ==
  [existing EXCEPT
     !.name = section.name,
     !.on = [a \in {Address(chain[i]) : i \in DOMAIN chain} |->
               LET i == LastAt(chain, a)
               IN Engaged(section, RolesOf(chain)[i], chain[i].enabled)],
     !.rest = SetUp @@ @]

Sections(doc, rig, chain) ==
  IF "sections" \notin rig.has THEN doc
  ELSE [doc EXCEPT !.snapshots =
          [i \in DOMAIN @ |->
             IF i \in DOMAIN rig.sections
             THEN SectionEntry(@[i], rig.sections[i], chain) ELSE @[i]]]

-----------------------------------------------------------------------------
(* What a pedal sweeps, and what is printed under its switches *)

With(tone, key, value) ==
  [k \in DOMAIN tone \cup {key} |-> IF k = key THEN value ELSE tone[k]]
Without(tone, keys) == [key \in DOMAIN tone \ keys |-> tone[key]]

Assignment(c, m) ==
  LET own == IF m \in Models THEN Block(m).params[c.parameter]
                            ELSE [min |-> 0, max |-> Unit]
  IN [number |-> c.number,
      min |-> IF c.min = Empty THEN own.min ELSE c.min[1],
      max |-> IF c.max = Empty THEN own.max ELSE c.max[1]]

\* The rig's list replaces the document's; what does not line up is skipped,
\* and what is said twice of one control is what was said last.
Controllers(doc, rig, chain) ==
  LET key(c) == <<c.path, c.block, c.parameter>>
      at(c) == BlockAt(chain, c.path, c.block)
      written == {i \in DOMAIN rig.controllers :
                    LET c == rig.controllers[i]
                    IN at(c) # 0 /\ Carries(chain[at(c)].model, c.parameter)}
      last(k) == rig.controllers[Max({i \in written : key(rig.controllers[i]) = k})]
  IN IF "controllers" \notin rig.has THEN doc
     ELSE [doc EXCEPT !.tone = With(@, "controller",
             [k \in {key(rig.controllers[i]) : i \in written} |->
                Assignment(last(k), chain[at(last(k))].model)])]

\* The number a device files a colour under, and the name of a number.
ColourNumber(led) == SelectInSeq(Colours, LAMBDA c : c = led) - 1
LEDColour(n) == IF n + 1 \in DOMAIN Colours THEN Colours[n + 1] ELSE "none"

FieldsOf(fs) ==
  [switch |-> fs.switch, label |-> fs.label, chosen |-> ColourNumber(fs.led)]

Footswitches(doc, rig) ==
  LET key(fs) == <<fs.path, fs.block>>
      placed == {i \in DOMAIN rig.switches : rig.switches[i].block # NoBlock}
      last(k) == rig.switches[Max({i \in placed : key(rig.switches[i]) = k})]
      pruned == Without(doc.tone, {"footswitch"})
  IN IF "switches" \notin rig.has THEN doc
     ELSE [doc EXCEPT !.tone =
             IF placed = {} THEN pruned
             ELSE With(pruned, "footswitch",
                       [k \in {key(rig.switches[i]) : i \in placed} |-> FieldsOf(last(k))])]

\* Processors and blocks in the order of their keys, whose numbers have one digit.
ByAddress(keys) ==
  {p \in keys \X keys :
     \/ p[1][1] < p[2][1]
     \/ p[1][1] = p[2][1] /\ p[1][2] < p[2][2]}

FootswitchesOf(doc) ==
  IF "footswitch" \notin DOMAIN doc.tone THEN Empty
  ELSE LET held == doc.tone["footswitch"]
           order == Ordered(DOMAIN held, ByAddress(DOMAIN held))
       IN [i \in DOMAIN order |->
             [path |-> order[i][1], block |-> order[i][2],
              switch |-> held[order[i]].switch, label |-> held[order[i]].label,
              led |-> LEDColour(held[order[i]].chosen)]]

-----------------------------------------------------------------------------
(* Reading a document into a rig *)

RoleFor(m) == IF m \in Models THEN Block(m).category ELSE "other"

\* Mutant: gear that forgets the attributes its block had.
EntryForBare(block) ==
  [role |-> RoleFor(block.model), gear |-> "recorded", sub |-> "none",
   settings |-> Empty, model |-> block.model, path |-> block.dsp,
   pos |-> block.pos, enabled |-> block.enabled, exact |-> TRUE,
   params |-> block.params, attrs |-> Empty, position |-> block.position]

\* A block as gear, with the exact model and values it had.
EntryFor(block) ==
  [role |-> RoleFor(block.model), gear |-> "recorded", sub |-> "none",
   settings |-> Empty, model |-> block.model, path |-> block.dsp,
   pos |-> block.pos, enabled |-> block.enabled, exact |-> TRUE,
   params |-> block.params, attrs |-> block.attrs, position |-> block.position]

InstrumentOf(chain) ==
  IF \E i \in DOMAIN chain :
       /\ chain[i].model \in Models
       /\ Block(chain[i].model).category = "amp"
       /\ Block(chain[i].model).tag = "bass"
  THEN "bass" ELSE "guitar"

\* A preset with no name is untitled, and spaces around one are not its own.
SubjectName(doc) ==
  IF Says(doc.name) THEN TrimSpace(doc.name) ELSE "Untitled"

\* What the rig has no field for, kept as it stood; nothing is not carried.
DeviceState(doc, modelled) ==
  LET tone == Without(doc.tone, modelled)
      state == [id |-> doc.device, name |-> doc.name, meta |-> doc.meta,
                tone |-> tone, routing |-> doc.routing]
  IN Without(state, {f \in {"meta", "tone", "routing"} : state[f] = Empty})

Lift(doc) ==
  LET chain == ChainOf(doc)
      switches == FootswitchesOf(doc)
      has == {"device"} \cup (IF doc.snapshots # Empty THEN {"snapshots"} ELSE {})
                        \cup (IF switches # Empty THEN {"switches"} ELSE {})
  IN [name |-> SubjectName(doc), instrument |-> InstrumentOf(chain),
      chain |-> [i \in DOMAIN chain |-> EntryFor(chain[i])],
      target |-> Device, terms |-> Empty, technique |-> "none",
      controllers |-> Empty, sections |-> Empty,
      switches |-> switches, snapshots |-> doc.snapshots,
      device |-> DeviceState(doc, IF switches = Empty THEN {} ELSE {"footswitch"}),
      has |-> has]

-----------------------------------------------------------------------------
(* Writing a rig over a document *)

\* The model recorded for this device, or what the gear means, or what the
\* rig says to use instead.
ModelFor(entry, instrument) ==
  LET named == FindGear(entry.gear, entry.role, instrument)
  IN IF entry.model # NoModel THEN entry.model
     ELSE IF named # NoModel \/ entry.sub = "none" THEN named
     ELSE FindGear(entry.sub, entry.role, instrument)

\* Exact values are the whole truth; gear takes the catalog's defaults.
ParamsFor(entry, m) ==
  IF ~entry.exact THEN IF m \in Models THEN Defaults(m) ELSE Empty
  ELSE [key \in DOMAIN entry.params |->
          IF /\ m \in Models
             /\ key \in DOMAIN Block(m).params
             /\ Block(m).params[key].kind = "int"
          THEN Round(entry.params[key]) ELSE entry.params[key]]

Lowers(entry, instrument) ==
  LET m == ModelFor(entry, instrument)
  IN /\ m # NoModel
     /\ IF m \in Models THEN KnobsTurn(m, entry.settings)
                        ELSE entry.settings = Empty

LoweredBlock(entry, i, instrument) ==
  LET m == ModelFor(entry, instrument)
      params == ParamsFor(entry, m)
  IN [model |-> m,
      params |-> IF m \in Models THEN SetKnobs(params, m, entry.settings)
                                 ELSE params,
      dsp |-> entry.path,
      pos |-> IF entry.pos = NoPosition THEN i - 1 ELSE entry.pos,
      enabled |-> entry.enabled, attrs |-> entry.attrs,
      position |-> entry.position]

LoweredChain(rig) ==
  [i \in DOMAIN rig.chain |-> LoweredBlock(rig.chain[i], i, rig.instrument)]

Carried(state, field, otherwise) ==
  IF field \in DOMAIN state THEN state[field] ELSE otherwise

\* Mutant: the rig's routing is merged into the document's.
RestoreMerged(doc, rig) ==
  IF "device" \notin rig.has THEN doc
  ELSE [doc EXCEPT !.device = Carried(rig.device, "id", @),
                   !.meta = Carried(rig.device, "meta", @),
                   !.name = Carried(rig.device, "name", @),
                   !.tone = Carried(rig.device, "tone", Empty),
                   !.routing = Carried(rig.device, "routing", Empty) @@ @,
                   !.snapshots = Empty]

\* A rig's own device state replaces the document's, and is not merged.
Restore(doc, rig) ==
  IF "device" \notin rig.has THEN doc
  ELSE [doc EXCEPT !.device = Carried(rig.device, "id", @),
                   !.meta = Carried(rig.device, "meta", @),
                   !.name = Carried(rig.device, "name", @),
                   !.tone = Carried(rig.device, "tone", Empty),
                   !.routing = Carried(rig.device, "routing", Empty),
                   !.snapshots = Empty]

RestoreSnapshots(doc, rig) ==
  IF "snapshots" \notin rig.has THEN doc
  ELSE [doc EXCEPT !.snapshots = rig.snapshots]

NameOf(rig) ==
  IF "device" \in rig.has THEN Carried(rig.device, "name", rig.name) ELSE rig.name
=============================================================================
