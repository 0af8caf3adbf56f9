------------------------------- MODULE Chains -------------------------------
(***************************************************************************)
(* A signal chain on its way from a rig to a device: what is added to it,  *)
(* what the rig's words move in it, how it is laid over the device's       *)
(* processors and what a device refuses.                                   *)
(*                                                                         *)
(* A chain is a sequence of blocks with a model, its settings, a processor *)
(* and a position on it.  Steps and weights are counted in halves.         *)
(***************************************************************************)
EXTENDS Catalogs

CONSTANTS
  Device,   \* the device the catalog describes
  Colours,  \* what its footswitches light, in the order it numbers them
  Limits    \* its ceilings: MaxBlocks, Paths, ChipCeiling

ASSUME LimitsAssumption ==
  /\ Limits.MaxBlocks \in Nat
  /\ Limits.Paths \in Nat \ {0}
  /\ Limits.ChipCeiling \in Nat

\* What names no colour is none of them, and each is numbered once.
ASSUME ColoursAssumption ==
  /\ Colours \in Seq(ToSet(Colours)) /\ "none" \notin ToSet(Colours)
  /\ \A i, j \in DOMAIN Colours : Colours[i] = Colours[j] => i = j

NoBlock == -1
NoPosition == -1
Nowhere == -1

-----------------------------------------------------------------------------
(* What a chain gains *)

\* A block goes ahead of the first amplifier, or at the end.
Insert(blocks, m, beforeAmp) ==
  LET amp == IndexOf(blocks, "amp")
  IN IF ~beforeAmp THEN Append(blocks, m)
     ELSE InsertAt(blocks, IF amp = 0 THEN 1 ELSE amp, m)

\* By kind, the most common first: the model nearly every chain has one like
\* and this one does not, or none.
Filling(blocks, instrument) ==
  IF ~Measured(instrument) THEN <<>>
  ELSE LET g == Grammar(instrument)
           kinds == SortedByShare(instrument)
           missing(c) == /\ IndexOf(blocks, c) = 0
                         /\ NearUniversal(g.categories[c], g.chains)
       IN [i \in DOMAIN kinds |->
             IF missing(kinds[i]) THEN Commonest(kinds[i], instrument, "any")
                                  ELSE NoModel]

Seat(blocks, m, instrument) ==
  Insert(blocks, m, BeforeAmp(instrument, Block(m).category))

SeatAny(blocks, m, instrument) ==
  IF m = NoModel THEN blocks ELSE Seat(blocks, m, instrument)

Fill(blocks, instrument) ==
  LET picks == Filling(blocks, instrument)
      filled[n \in 0 .. Len(picks)] ==
        IF n = 0 THEN blocks ELSE SeatAny(filled[n - 1], picks[n], instrument)
  IN filled[Len(picks)]

-----------------------------------------------------------------------------
(* The words a rig describes its sound with *)

Place(category, control) == [category |-> category, control |-> control]
Turn(places, steps) ==
  [places |-> places, steps |-> steps, absenceMeans |-> FALSE]

Amp(control) == <<Place("amp", control)>>
AmpOrEQ(control, band) == <<Place("amp", control), Place("eq", band)>>
Reverb == <<Place("reverb", "Mix")>>
Comp == <<Place("comp", "Attack")>>

\* A word, and what it turns.
Turning ==
  {<<"mid-forward",         Turn(AmpOrEQ("Mid", "MidGain"), 2)>>,
   <<"scooped",             Turn(AmpOrEQ("Mid", "MidGain"), -2)>>,
   <<"dark",                Turn(AmpOrEQ("Treble", "HighGain"), -2)>>,
   <<"bright",              Turn(AmpOrEQ("Treble", "HighGain"), 2)>>,
   <<"glassy",              Turn(AmpOrEQ("Treble", "HighGain"), 2)>>,
   <<"clean",               Turn(Amp("Drive"), -2)>>,
   <<"minimal-drive",       Turn(Amp("Drive"), -1)>>,
   <<"grit-on-attack",      Turn(Amp("Drive"), 1)>>,
   <<"saturated",           Turn(Amp("Drive"), 2)>>,
   <<"tight-low-end",       Turn(Amp("Sag"), -2)>>,
   <<"loose-low-end",       Turn(Amp("Sag"), 2)>>,
   <<"dry",                 [Turn(Reverb, -2) EXCEPT !.absenceMeans = TRUE]>>,
   <<"roomy",               Turn(Reverb, 2)>>,
   <<"soft-attack",         Turn(Comp, -2)>>,
   <<"audible-pick-attack", Turn(Comp, 1)>>,
   <<"percussive",          Turn(Comp, 2)>>}
Turns ==
  [term \in {row[1] : row \in Turning} |->
     (CHOOSE row \in Turning : row[1] = term)[2]]

\* What a claim cannot be played without.
Needs ==
  [claim \in {"envelope-swept", "slap"} |-> IF claim = "slap" THEN "comp" ELSE "filter"]

\* The vocabulary's axes, those of which no word does anything left out.
Axes ==
  [mids      |-> {"mid-forward", "scooped"},
   highs     |-> {"dark", "bright", "glassy"},
   drive     |-> {"clean", "minimal-drive", "grit-on-attack", "saturated"},
   lowEnd    |-> {"tight-low-end", "loose-low-end"},
   space     |-> {"dry", "roomy"},
   attack    |-> {"soft-attack", "audible-pick-attack", "percussive"},
   movement  |-> {"envelope-swept", "static"}]

\* The axes some figure is measured for.
Measures == {"mids", "highs", "drive"}

OnAxis(term, axis) == term \in Axes[axis]

\* Two words of one axis are two answers to one question.
Contested(terms) ==
  {axis \in DOMAIN Axes :
     Cardinality({i \in DOMAIN terms : OnAxis(terms[i].term, axis)}) > 1}

Cancelled(terms, term) == \E axis \in Contested(terms) : OnAxis(term, axis)

Abs(v) == IF v < 0 THEN -v ELSE v

\* In halves, how far the first figure measured beside everybody else's
\* sits from it.
WeightOf(heard) ==
  LET told == SelectInSeq(heard.evidence, LAMBDA e : e.against # 0)
  IN IF told = 0 \/ ~\E axis \in Measures : OnAxis(heard.term, axis) THEN 2
     ELSE LET e == heard.evidence[told]
              halves == (2 * Abs(e.measured - e.against)) \div Abs(e.against)
          IN IF halves > 2 THEN 2 ELSE halves

\* The block and control that will take a word: its places in their order,
\* the first block of each that has the control.
Answered(blocks, places) ==
  LET has(place, m) == /\ Block(m).category = place.category
                       /\ place.control \in DOMAIN Block(m).params
      held == SelectInSeq(places, LAMBDA p : \E i \in DOMAIN blocks : has(p, blocks[i]))
  IN IF held = 0 THEN [at |-> 0, control |-> "none"]
     ELSE [at |-> SelectInSeq(blocks, LAMBDA m : has(places[held], m)),
           control |-> places[held].control]

\* A block that could answer a word nothing in the chain does.
SomewhereFor(places, instrument) ==
  LET picks == [i \in DOMAIN places |->
                  IF places[i].category = "amp" THEN NoModel
                  ELSE Commonest(places[i].category, instrument, places[i].control)]
      at == SelectInSeq(picks, LAMBDA m : m # NoModel)
  IN IF at = 0 THEN NoModel ELSE picks[at]

\* The kind of block a claim cannot do without, where the chain has none.
Presence(blocks, claim, instrument) ==
  IF claim \notin DOMAIN Needs THEN NoModel
  ELSE IF IndexOf(blocks, Needs[claim]) # 0 THEN NoModel
  ELSE Commonest(Needs[claim], instrument, "any")

\* Mutant: a word that is cancelled seats its block.
LandingAnyway(blocks, terms, term, instrument) ==
  IF term \notin DOMAIN Turns THEN NoModel
  ELSE IF Turns[term].absenceMeans THEN NoModel
  ELSE IF Answered(blocks, Turns[term].places).at # 0 THEN NoModel
  ELSE SomewhereFor(Turns[term].places, instrument)

\* The block a word needs to land on, unless it is cancelled or answered.
Landing(blocks, terms, term, instrument) ==
  IF Cancelled(terms, term) \/ term \notin DOMAIN Turns THEN NoModel
  ELSE IF Turns[term].absenceMeans THEN NoModel
  ELSE IF Answered(blocks, Turns[term].places).at # 0 THEN NoModel
  ELSE SomewhereFor(Turns[term].places, instrument)

Claim(blocks, claim, instrument) ==
  SeatAny(blocks, Presence(blocks, claim, instrument), instrument)

Land(blocks, terms, heard, instrument) ==
  SeatAny(blocks, Landing(blocks, terms, heard.term, instrument), instrument)

\* What the rig claims to be played with: its words, then its technique.
Claims(terms, technique) ==
  [i \in 1 .. Len(terms) + 1 |-> IF i > Len(terms) THEN technique ELSE terms[i].term]

\* Presence first: a block one claim asks for may answer another.
Present(blocks, claims, instrument) ==
  LET present[n \in 0 .. Len(claims)] ==
        IF n = 0 THEN blocks ELSE Claim(present[n - 1], claims[n], instrument)
  IN present[Len(claims)]

Demand(blocks, terms, technique, instrument) ==
  LET landed[n \in 0 .. Len(terms)] ==
        IF n = 0 THEN Present(blocks, Claims(terms, technique), instrument)
                 ELSE Land(landed[n - 1], terms, terms[n], instrument)
  IN IF ~Measured(instrument) THEN blocks ELSE landed[Len(terms)]

-----------------------------------------------------------------------------
(* What the words move *)

SpecFor(blocks) ==
  [i \in DOMAIN blocks |->
     [model |-> blocks[i], params |-> Settings(blocks[i]), dsp |-> 0,
      pos |-> i - 1, enabled |-> TRUE, attrs |-> <<>>, position |-> NoPosition]]

\* How far one word moves a control: the corpus spread, a quarter of the
\* range at most, and a tenth of it where nobody measured.
Step(m, key) ==
  LET p == Block(m).params[key]
      span == p.max - p.min
      spread == IF <<m, key>> \in DOMAIN Stats.params
                THEN Stats.params[<<m, key>>].spread ELSE 0
  IN IF spread = 0 THEN span \div 10
     ELSE IF 4 * spread > span THEN span \div 4 ELSE spread

Clamp(v, p) == IF v < p.min THEN p.min ELSE IF v > p.max THEN p.max ELSE v

\* One knob turned, where the control is one.
Apply(block, key, heard) ==
  LET p == Block(block.model).params[key]
      by == (Turns[heard.term].steps * WeightOf(heard) * Step(block.model, key)) \div 4
  IN IF p.kind # "float" THEN block
     ELSE [block EXCEPT !.params[key] = Clamp(@ + by, p)]

Moved(chain, terms, heard) ==
  IF Cancelled(terms, heard.term) \/ heard.term \notin DOMAIN Turns THEN chain
  ELSE LET to == Answered([i \in DOMAIN chain |-> chain[i].model],
                          Turns[heard.term].places)
       IN IF to.at = 0 THEN chain
          ELSE [chain EXCEPT ![to.at] = Apply(@, to.control, heard)]

Move(chain, terms) ==
  LET moved[n \in 0 .. Len(terms)] ==
        IF n = 0 THEN chain ELSE Moved(moved[n - 1], terms, terms[n])
  IN moved[Len(terms)]

\* Each entry's settings, onto the block at its place among what was
\* resolved.
SaidKnobs(chain, said) ==
  [i \in DOMAIN chain |->
     IF i \in DOMAIN said
     THEN [chain[i] EXCEPT !.params = SetKnobs(@, chain[i].model, said[i])]
     ELSE chain[i]]

SaidTurns(chain, said) ==
  \A i \in DOMAIN chain \cap DOMAIN said : KnobsTurn(chain[i].model, said[i])

-----------------------------------------------------------------------------
(* What a rig claims beside its chain *)

BlockAt(chain, path, pos) ==
  SelectInSeq(chain, LAMBDA b : b.dsp = path /\ b.pos = pos)

\* A model the catalog does not hold is taken at its word.
Carries(m, key) == m \in Models => key \in DOMAIN Block(m).params

CheckTarget(rig) == rig.target \in {"any", Device}

CheckFootswitches(rig) ==
  \A i \in DOMAIN rig.switches :
    Colours = <<>> \/ rig.switches[i].led \in {"none"} \cup ToSet(Colours)

CheckControllers(rig, chain) ==
  \A i \in DOMAIN rig.controllers :
    LET c == rig.controllers[i]
        at == BlockAt(chain, c.path, c.block)
    IN at # 0 /\ Carries(chain[at].model, c.parameter)

Check(rig, chain) ==
  CheckTarget(rig) /\ CheckFootswitches(rig) /\ CheckControllers(rig, chain)

-----------------------------------------------------------------------------
(* Laying a chain over the device *)

Cost(m) == Block(m).cost

\* The processor a block of this cost goes on, or none, and what is used then.
Laid(state, cost) ==
  LET ceiling == Limits.ChipCeiling
      next == IF state.used + cost <= ceiling THEN state
              ELSE IF cost <= ceiling /\ state.path + 1 < Limits.Paths
                   THEN [state EXCEPT !.path = @ + 1, !.used = 0]
              ELSE IF state.path + 1 < Limits.Paths
                   THEN [state EXCEPT !.path = Limits.Paths - 1, !.used = 0]
              ELSE state
  IN IF next.used + cost > ceiling
     THEN [next EXCEPT !.dsp = Nowhere]
     ELSE [next EXCEPT !.used = @ + cost, !.dsp = next.path]

\* A run of positions from zero on each processor.
Renumber(chain) ==
  [i \in DOMAIN chain |->
     [chain[i] EXCEPT !.pos =
        Cardinality({j \in 1 .. i - 1 : chain[j].dsp = chain[i].dsp})]]

\* One processor filled after the other; a block there is no room for stays.
Fit(chain) ==
  LET laid[n \in 0 .. Len(chain)] ==
        IF n = 0 THEN [path |-> 0, used |-> 0, dsp |-> Nowhere]
                 ELSE Laid(laid[n - 1], Cost(chain[n].model))
  IN Renumber([i \in DOMAIN chain |->
       IF laid[i].dsp = Nowhere THEN chain[i]
                                ELSE [chain[i] EXCEPT !.dsp = laid[i].dsp]])

\* An assignment names a block by where it was; this is where it went.
Rehomed(item, before, after) ==
  LET at == BlockAt(before, item.path, item.block)
  IN IF at = 0 THEN item
     ELSE [item EXCEPT !.path = after[at].dsp, !.block = after[at].pos]

\* Mutant: only the controllers follow.
RefitSweeps(rig, before, after) ==
  [rig EXCEPT
     !.controllers = [i \in DOMAIN @ |-> Rehomed(@[i], before, after)]]

Refit(rig, before, after) ==
  [rig EXCEPT
     !.controllers = [i \in DOMAIN @ |-> Rehomed(@[i], before, after)],
     !.switches = [i \in DOMAIN @ |-> Rehomed(@[i], before, after)]]

-----------------------------------------------------------------------------
(* What a device refuses *)

ValidateStructure(chain) == \A i \in DOMAIN chain : chain[i].model \in Models

InRange(p, value) == IsKnob(p) => value \in p.min .. p.max

ValidateParams(chain) ==
  \A i \in DOMAIN chain : \A key \in DOMAIN chain[i].params :
    LET m == chain[i].model
    IN /\ key \in DOMAIN Block(m).params
       /\ InRange(Block(m).params[key], chain[i].params[key])

On(chain, path) == {i \in DOMAIN chain : chain[i].dsp = path}
Positions(chain, path) == {chain[i].pos : i \in On(chain, path)}

ValidateTopology(chain) ==
  /\ Len(chain) \in 1 .. Limits.MaxBlocks
  /\ \A i \in DOMAIN chain : chain[i].dsp \in 0 .. Limits.Paths - 1
  /\ \A path \in 0 .. Limits.Paths - 1 :
       Positions(chain, path) = 0 .. Cardinality(On(chain, path)) - 1

ValidateBudget(chain) ==
  /\ \A i \in DOMAIN chain : Block(chain[i].model).trusted
  /\ \A path \in 0 .. Limits.Paths - 1 :
       MapThenSumSet(LAMBDA i : Cost(chain[i].model), On(chain, path))
         <= Limits.ChipCeiling

Validate(chain) ==
  /\ ValidateStructure(chain)
  /\ ValidateParams(chain)
  /\ ValidateTopology(chain)
  /\ ValidateBudget(chain)
=============================================================================
