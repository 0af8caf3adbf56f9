------------------------------ MODULE Compile ------------------------------
(***************************************************************************)
(* The three ways a preset file comes to be: made from a recipe, compiled  *)
(* from a rig over a template, and rebuilt from a rig that was read out of *)
(* a preset.  One step per stage, in the code's order; a stage that        *)
(* refuses ends the build and leaves no file.                              *)
(*                                                                         *)
(* How the file is put on disk is AtomicFile's.                            *)
(***************************************************************************)
EXTENDS Documents

CONSTANTS
  Recipes,    \* rigs a preset is made from
  Templates,  \* presets a rig may be written over
  Presets     \* presets a device wrote

\* A rig as its file is read: places are counted from zero, and what is not
\* said is.
IsGear(entry) ==
  /\ entry.path \in Nat
  /\ {entry.pos, entry.position} \subseteq Nat \cup {NoPosition}
  /\ IsFcn(entry.params)
  /\ \A key \in DOMAIN entry.params : entry.params[key] \in Int

IsHeard(heard) ==
  /\ heard.evidence \in Seq(ToSet(heard.evidence))
  /\ \A e \in ToSet(heard.evidence) : e.measured \in Int /\ e.against \in Int

IsController(c) ==
  /\ c = [number |-> c.number, path |-> c.path, block |-> c.block,
          parameter |-> c.parameter, min |-> c.min, max |-> c.max]
  /\ c.path \in Nat /\ c.block \in Nat

IsFootswitch(fs) ==
  /\ fs = [switch |-> fs.switch, label |-> fs.label, path |-> fs.path,
           block |-> fs.block, led |-> fs.led]
  /\ fs.path \in Nat /\ fs.block \in Nat \cup {NoBlock} /\ fs.switch \in Int

IsState(state) ==
  /\ "meta" \in DOMAIN state => state["meta"] # Empty
  /\ "tone" \in DOMAIN state => IsTone(state["tone"])

IsRigFile(r) ==
  /\ r = [name |-> r.name, instrument |-> r.instrument, chain |-> r.chain,
          target |-> r.target, terms |-> r.terms, technique |-> r.technique,
          controllers |-> r.controllers, sections |-> r.sections,
          switches |-> r.switches, snapshots |-> r.snapshots,
          device |-> r.device, has |-> r.has]
  /\ \A list \in {r.chain, r.terms, r.controllers, r.switches, r.sections,
               r.snapshots} :
       list \in Seq(ToSet(list))
  /\ \A entry \in ToSet(r.chain) : IsGear(entry)
  /\ \A heard \in ToSet(r.terms) : IsHeard(heard)
  /\ \A c \in ToSet(r.controllers) : IsController(c)
  /\ \A fs \in ToSet(r.switches) : IsFootswitch(fs)
  /\ \A s \in ToSet(r.snapshots) : IsSnapshot(s)
  /\ "device" \in r.has => IsState(r.device)
  /\ r.controllers # Empty => "controllers" \in r.has
  /\ r.switches # Empty => "switches" \in r.has
  /\ r.sections # Empty => "sections" \in r.has

ASSUME BuildsAssumption ==
  /\ \A d \in Templates \cup Presets : IsPreset(d)
  /\ \A r \in Recipes : IsRigFile(r)

VARIABLES
  task,    \* what was asked: the kind, the rig or preset, the template
  pc,      \* the stage it is at
  rig,     \* the rig, its assignments moved by the fit
  at,      \* the entry being resolved
  blocks,  \* the models resolved so far
  said,    \* what the rig said about each of them
  missed,  \* a cabinet nothing emulates
  chain,   \* the chain laid out
  before,  \* the chain before the fit
  doc,     \* the document being written
  file     \* the file written, or none

build == <<rig, at, blocks, said, missed, chain, before, doc, file>>
vars == <<task, pc, build>>

NoFile == [name |-> "no file"]

Make(r) == [kind |-> "make", rig |-> r, over |-> Blank]
CompileOver(r, t) == [kind |-> "compile", rig |-> r, over |-> t]
Rebuild(d, t) == [kind |-> "rebuild", was |-> d, over |-> t]

Tasks ==
  {Make(r) : r \in Recipes}
    \cup {CompileOver(r, t) : r \in Recipes, t \in Templates}
    \cup {Rebuild(d, t) : d \in Presets, t \in Templates}

\* A rig is compiled over the template, which takes the rig's name; one that
\* is rebuilt is read out of its preset first.
Start(t) ==
  /\ rig = IF t.kind = "rebuild" THEN Lift(t.was) ELSE t.rig
  /\ pc = "load"
  /\ doc = [t.over EXCEPT !.device = Device, !.name = rig.name]

Init ==
  /\ task \in Tasks
  /\ Start(task)
  /\ at = 1 /\ blocks = Empty /\ said = Empty /\ missed = FALSE
  /\ chain = Empty /\ before = Empty /\ file = NoFile

Goto(stage) == pc' = stage /\ UNCHANGED task
Refuse == Goto("refused") /\ UNCHANGED build

\* However a rig came to be, it is held to its contract before it is built.
Load ==
  /\ pc = "load"
  /\ IF ~ValidRig(rig) THEN Refuse
     ELSE /\ Goto(IF task.kind = "make" THEN "entries" ELSE "lower")
          /\ UNCHANGED build

-----------------------------------------------------------------------------
(* Resolve: the rig's gear, then what it did not say *)

Entry == rig.chain[at]
Named == FindGear(Entry.gear, Entry.role, rig.instrument)
StandIn == IF Entry.sub = "none" THEN NoModel
           ELSE FindGear(Entry.sub, Entry.role, rig.instrument)

Resolved(m) ==
  /\ m # NoModel
  /\ blocks' = Append(blocks, m)
  /\ said' = Append(said, Entry.settings)
  /\ at' = at + 1
  /\ Goto("entries")
  /\ UNCHANGED <<rig, missed, chain, before, doc, file>>

TakeEntry ==
  /\ pc = "entries" /\ at <= Len(rig.chain)
  /\ Resolved(IF Named # NoModel THEN Named ELSE StandIn)

\* A cabinet is the one miss worth recovering from.
MissCab ==
  /\ pc = "entries" /\ at <= Len(rig.chain)
  /\ Named = NoModel /\ Entry.sub = "none" /\ Entry.role = "cab"
  /\ missed' = TRUE /\ at' = at + 1
  /\ Goto("entries")
  /\ UNCHANGED <<rig, blocks, said, chain, before, doc, file>>

NoSuchGear ==
  /\ pc = "entries" /\ at <= Len(rig.chain)
  /\ Named = NoModel /\ StandIn = NoModel
  /\ Entry.sub # "none" \/ Entry.role # "cab"
  /\ Refuse

ImplyCab ==
  /\ pc = "entries" /\ at > Len(rig.chain)
  /\ LET cab == ImpliedCab(blocks)
     IN IF cab = NoModel /\ missed THEN Refuse
        ELSE /\ blocks' = IF cab = NoModel THEN blocks ELSE Append(blocks, cab)
             /\ said' = IF cab = NoModel THEN said ELSE Append(said, Empty)
             /\ Goto("fill")
             /\ UNCHANGED <<rig, at, missed, chain, before, doc, file>>

FillIn ==
  /\ pc = "fill"
  /\ blocks' = Fill(blocks, rig.instrument)
  /\ Goto("demand")
  /\ UNCHANGED <<rig, at, said, missed, chain, before, doc, file>>

DemandMore ==
  /\ pc = "demand"
  /\ blocks' = Demand(blocks, rig.terms, rig.technique, rig.instrument)
  /\ Goto("settle")
  /\ UNCHANGED <<rig, at, said, missed, chain, before, doc, file>>

\* What players agree on, then the rig's words, then its numbers.
Settle ==
  /\ pc = "settle"
  /\ chain' = Move(SpecFor(blocks), rig.terms)
  /\ Goto("said")
  /\ UNCHANGED <<rig, at, blocks, said, missed, before, doc, file>>

Say ==
  /\ pc = "said"
  /\ IF ~SaidTurns(chain, said) THEN Refuse
     ELSE /\ chain' = SaidKnobs(chain, said)
          /\ Goto("claims")
          /\ UNCHANGED <<rig, at, blocks, said, missed, before, doc, file>>

CheckClaims ==
  /\ pc = "claims"
  /\ IF ~Check(rig, chain) THEN Refuse
     ELSE /\ Goto(IF task.kind = "make" THEN "fit" ELSE "restore")
          /\ UNCHANGED build

-----------------------------------------------------------------------------
(* Make: the chain laid over the device, into an untouched preset *)

FitChain ==
  /\ pc = "fit"
  /\ before' = chain
  /\ chain' = Fit(chain)
  /\ rig' = Refit(rig, before', chain')
  /\ Goto("validate")
  /\ UNCHANGED <<at, blocks, said, missed, doc, file>>

Judge ==
  /\ pc = "validate"
  /\ IF ~Validate(chain) THEN Refuse
     ELSE /\ doc' = SetSpec([Blank EXCEPT !.device = Device], rig.name, chain)
          /\ Goto("sections")
          /\ UNCHANGED <<rig, at, blocks, said, missed, chain, before, file>>

-----------------------------------------------------------------------------
(* Lower: the rig's own chain, over the document's *)

LowerChain ==
  /\ pc = "lower"
  /\ IF \E i \in DOMAIN rig.chain : ~Lowers(rig.chain[i], rig.instrument)
     THEN Refuse
     ELSE /\ chain' = LoweredChain(rig)
          /\ Goto("claims")
          /\ UNCHANGED <<rig, at, blocks, said, missed, before, doc, file>>

RestoreState ==
  /\ pc = "restore"
  /\ doc' = RestoreSnapshots(Restore(doc, rig), rig)
  /\ Goto("sections")
  /\ UNCHANGED <<rig, at, blocks, said, missed, chain, before, file>>

-----------------------------------------------------------------------------
(* Both: sections, controllers, footswitches, and the file *)

WriteSections ==
  /\ pc = "sections"
  /\ IF ~Buildable(doc, rig, chain) THEN Refuse
     ELSE /\ doc' = Sections(doc, rig, chain)
          /\ Goto("pedal")
          /\ UNCHANGED <<rig, at, blocks, said, missed, chain, before, file>>

WritePedal ==
  /\ pc = "pedal"
  /\ LET assigned == Footswitches(Controllers(doc, rig, chain), rig)
     IN doc' = IF task.kind = "make" THEN assigned
               ELSE SetSpec(assigned, NameOf(rig), chain)
  /\ Goto("save")
  /\ UNCHANGED <<rig, at, blocks, said, missed, chain, before, file>>

Save ==
  /\ pc = "save"
  /\ file' = doc
  /\ Goto("written")
  /\ UNCHANGED <<rig, at, blocks, said, missed, chain, before, doc>>

\* Somebody reads a made preset as a rig, and compiles that.
ReadBack(t) ==
  /\ pc = "written" /\ task.kind \in {"make", "compile"}
  /\ task' = Rebuild(file, t)
  /\ rig' = Lift(file)
  /\ doc' = [t EXCEPT !.device = Device, !.name = rig'.name]
  /\ pc' = "load"
  /\ UNCHANGED <<at, blocks, said, missed, chain, before, file>>

Next ==
  \/ Load
  \/ TakeEntry \/ MissCab \/ NoSuchGear \/ ImplyCab
  \/ FillIn \/ DemandMore \/ Settle \/ Say \/ CheckClaims
  \/ FitChain \/ Judge
  \/ LowerChain \/ RestoreState
  \/ WriteSections \/ WritePedal \/ Save
  \/ \E t \in Templates : ReadBack(t)

Spec == Init /\ [][Next]_vars
-----------------------------------------------------------------------------
(* Properties *)

Written == pc = "written"
Made == Written /\ task.kind = "make"

\* A preset that holds anything can be read into a rig and compiled again over
\* whatever template, and is then the preset it was: its blocks at their
\* places with their attributes, its snapshots, switches, routing and
\* everything a rig has no field for, and nothing of the template's
\* (compile.Lift, compile.Lower).
RoundTrip ==
  task.kind = "rebuild" =>
    /\ pc = "refused" => task.was.blocks = Empty
    /\ Written => file = task.was

\* An assignment of the rig's is written for the block it named before the
\* chain was laid over the processors, wherever that block went
\* (compile.Fit, Refit, Controllers, Footswitches).
NamedBlock(item) == BlockAt(before, item.path, item.block)
WentTo(item) == Address(chain[NamedBlock(item)])
PedalFollowsFit ==
  Made =>
    /\ \A i \in DOMAIN task.rig.controllers :
         LET c == task.rig.controllers[i]
         IN /\ Append(WentTo(c), c.parameter) \in DOMAIN file.tone["controller"]
            /\ file.blocks[WentTo(c)].model = before[NamedBlock(c)].model
    /\ \A i \in DOMAIN task.rig.switches :
         LET fs == task.rig.switches[i]
         IN NamedBlock(fs) # 0 =>
              /\ WentTo(fs) \in DOMAIN file.tone["footswitch"]
              /\ file.blocks[WentTo(fs)].model = before[NamedBlock(fs)].model

\* A snapshot a section became says of every block in the file, and of no
\* other, whether it plays, and as the section asked for the block's kind
\* (compile.Sections, run before or after the blocks are written).
SectionsHoldTheChain ==
  Written /\ task.kind \in {"make", "compile"} =>
    \A i \in DOMAIN task.rig.sections :
      LET section == task.rig.sections[i]
          on == file.snapshots[i].on
      IN /\ DOMAIN on = DOMAIN file.blocks
         /\ \A a \in DOMAIN on :
              LET m == file.blocks[a].model
              IN m \in Models =>
                   /\ Block(m).category \in section.play => on[a]
                   /\ Block(m).category \in section.bypass => ~on[a]

\* Whatever names a block of the rig names that block in the preset, though the
\* chain was laid over the processors, and blocks written, in between.
NamesFollowTheChain == PedalFollowsFit /\ SectionsHoldTheChain

\* Two words of one axis cancel: they seat no block to land on and turn no
\* knob, and the rest of the rig is built as though neither was said.  What a
\* word asks the presence of is seated whatever contests it (compile.demand,
\* compile.move).
Counts(terms, h) == ~Cancelled(terms, h.term) \/ h.term \in DOMAIN Needs
Heard(terms) ==
  LET heard[n \in 0 .. Len(terms)] ==
        IF n = 0 THEN Empty
        ELSE IF Counts(terms, terms[n]) THEN Append(heard[n - 1], terms[n])
        ELSE heard[n - 1]
  IN heard[Len(terms)]
ContestedSaysNothing ==
  [][/\ pc = "demand" =>
          blocks' = Demand(blocks, Heard(rig.terms), rig.technique, rig.instrument)
     /\ pc = "settle" =>
          chain' = Move(SpecFor(blocks), Heard(rig.terms))]_vars

\* What the rig said of a piece of gear is what that gear is set to
\* (resolve.go:435: "puts each entry's settings onto the block it resolved
\* to").
SettingsOnOwnGear ==
  Made =>
    \A i \in DOMAIN task.rig.chain :
      LET entry == task.rig.chain[i]
          m == ModelFor(entry, task.rig.instrument)
      IN m # NoModel =>
           \E j \in DOMAIN chain :
             /\ chain[j].model = m
             /\ \A word \in DOMAIN entry.settings :
                  LET key == ControlFor(m, word)
                  IN key # "none" /\ chain[j].params[key] =
                       Scale(Block(m).params[key], entry.settings[word])
=============================================================================
