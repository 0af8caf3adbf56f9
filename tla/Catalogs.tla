------------------------------ MODULE Catalogs ------------------------------
(***************************************************************************)
(* What a build asks of the catalog and of the measured corpus: which      *)
(* model a piece of gear is, which model players reach for, and what a     *)
(* model's controls are set to.                                            *)
(*                                                                         *)
(* A model is its place in the catalog's order of identifiers.  Whether a  *)
(* name matches a model's is data (gear); a number is counted in Unit'hs   *)
(* of a whole, so that the halves a weight and a step are made of divide.  *)
(***************************************************************************)
EXTENDS Integers, Sequences, FiniteSets, SequencesExt, TLC

CONSTANTS
  Catalog,  \* the models, in the order of their identifiers
  Stats,    \* the corpus: by instrument what chains hold, by model its values
  Unit      \* a whole, in the units the numbers are counted in

Models == DOMAIN Catalog
NoModel == 0
Block(m) == Catalog[m]

\* The device's own order of kinds where two are as common.
Categories == <<"amp", "cab", "comp", "delay", "eq", "filter", "reverb">>

IsKnob(p) == p.kind \in {"float", "int"}

Round(v) ==
  IF v >= 0 THEN ((v + Unit \div 2) \div Unit) * Unit
            ELSE -(((-v + Unit \div 2) \div Unit) * Unit)

\* A control counted in wholes starts at one, and nothing is heard less than
\* never.
ASSUME UnitAssumption == Unit \in Nat \ {0} /\ Unit % 2 = 0
ASSUME CatalogAssumption ==
  /\ Catalog \in Seq(ToSet(Catalog))
  /\ \A m \in Models :
       /\ {Block(m).length, Block(m).cost} \subseteq Nat
       /\ \A key \in DOMAIN Block(m).params :
            LET p == Block(m).params[key]
            IN /\ {p.min, p.max, p.default} \subseteq Int
               /\ p.kind = "int" => Round(p.default) = p.default
ASSUME StatsAssumption ==
  /\ \A m \in DOMAIN Stats.uses : Stats.uses[m] \in Nat
  /\ \A instrument \in DOMAIN Stats.grammar :
       LET counted == Stats.grammar[instrument].models
       IN \A m \in DOMAIN counted : counted[m] \in Nat
  /\ \A at \in DOMAIN Stats.params :
       {Stats.params[at].median, Stats.params[at].spread} \subseteq Int

-----------------------------------------------------------------------------
(* Order *)

\* The members of a finite set in the order the pairs tell.
Ordered(S, precedes) ==
  [i \in 1 .. Cardinality(S) |->
     CHOOSE a \in S : Cardinality({b \in S : <<b, a>> \in precedes}) = i - 1]

\* Numbers in their own order, and the members of a list at some of its places.
Ascending(S) == Ordered(S, {p \in S \X S : p[1] < p[2]})
Those(list, places) ==
  LET order == Ascending(places) IN [i \in DOMAIN order |-> list[order[i]]]

-----------------------------------------------------------------------------
(* Which model a name means *)

Suits(m, instrument) == Block(m).tag \in {"any", instrument}

Eligible(m, gear, category, instrument) ==
  /\ ~Block(m).userIR
  /\ gear \in Block(m).gear
  /\ category \in {"other", Block(m).category}
  /\ Suits(m, instrument)

Closer(m, n) ==
  \/ Block(m).length < Block(n).length
  \/ Block(m).length = Block(n).length /\ m < n

\* The closest of the models that could be the gear, or none.
FindGear(gear, category, instrument) ==
  LET found == {m \in Models : Eligible(m, gear, category, instrument)}
  IN IF found = {} THEN NoModel
     ELSE CHOOSE m \in found : \A n \in found \ {m} : Closer(m, n)

IndexOf(blocks, category) ==
  SelectInSeq(blocks, LAMBDA m : Block(m).category = category)

\* The cabinet the first amplifier naming one was voiced with.
ImpliedCab(blocks) ==
  LET amp == SelectInSeq(blocks, LAMBDA m :
               /\ Block(m).category = "amp"
               /\ Block(m).cabLink \in Models)
  IN IF IndexOf(blocks, "cab") # 0 \/ amp = 0 THEN NoModel
     ELSE Block(blocks[amp]).cabLink

-----------------------------------------------------------------------------
(* What the corpus says *)

Grammar(instrument) == Stats.grammar[instrument]
Measured(instrument) == instrument \in DOMAIN Stats.grammar

NearUniversal(s, chains) == chains > 0 /\ 4 * s.chains >= 3 * chains

BeforeAmp(instrument, category) ==
  /\ category \in DOMAIN Grammar(instrument).categories
  /\ LET s == Grammar(instrument).categories[category]
     IN s.before + s.after > 0 /\ s.before >= s.after

\* The kinds a chain for the instrument holds, the most common first.
SortedByShare(instrument) ==
  LET g == Grammar(instrument).categories
      held == ToSet(Categories) \cap DOMAIN g
      place(c) == SelectInSeq(Categories, LAMBDA d : d = c)
  IN Ordered(held, {p \in held \X held :
       \/ g[p[1]].chains > g[p[2]].chains
       \/ g[p[1]].chains = g[p[2]].chains /\ place(p[1]) < place(p[2])})

Uses(m, instrument) ==
  LET counted == Grammar(instrument).models
  IN IF DOMAIN counted = {} THEN Stats.uses[m]
     ELSE IF m \in DOMAIN counted THEN counted[m] ELSE 0

\* The model of a kind that chains for the instrument hold most often and
\* that carries the control asked for.
Commonest(category, instrument, control) ==
  LET picks == {m \in Models \cap DOMAIN Stats.uses :
                  /\ Block(m).category = category
                  /\ ~Block(m).userIR
                  /\ control = "any" \/ control \in DOMAIN Block(m).params
                  /\ Block(m).trusted
                  /\ Suits(m, instrument)
                  /\ DOMAIN Grammar(instrument).models = {}
                       \/ Uses(m, instrument) > 0}
  IN IF picks = {} THEN NoModel
     ELSE CHOOSE m \in picks : \A n \in picks \ {m} :
            \/ Uses(m, instrument) > Uses(n, instrument)
            \/ Uses(m, instrument) = Uses(n, instrument) /\ m < n

-----------------------------------------------------------------------------
(* What a control is set to *)

\* A share of a span no wider than this is players agreeing.
Agree(d, span) == span > 0 /\ 100 * d.spread <= 15 * span

Agreed(m, key) ==
  /\ <<m, key>> \in DOMAIN Stats.params
  /\ IsKnob(Block(m).params[key])
  /\ LET p == Block(m).params[key]
     IN Agree(Stats.params[<<m, key>>], p.max - p.min)

Settled(m, key) ==
  LET p == Block(m).params[key]
      median == Stats.params[<<m, key>>].median
  IN IF ~Agreed(m, key) THEN p.default
     ELSE IF p.kind = "int" THEN Round(median) ELSE median

\* A control nobody stated a default for has no kind, and takes no value.
Stated(m) == {key \in DOMAIN Block(m).params : Block(m).params[key].kind # "none"}

Settings(m) == [key \in Stated(m) |-> Settled(m, key)]
Defaults(m) == [key \in Stated(m) |-> Block(m).params[key].default]

\* The words a rig sets gear with, and the controls they may be.
KnobWords ==
  [drive    |-> <<"Drive", "Gain">>,
   bass     |-> <<"Bass", "Low">>,
   mid      |-> <<"Mid">>,
   treble   |-> <<"Treble", "High">>,
   presence |-> <<"Presence">>,
   level    |-> <<"Level", "ChVol", "Master", "Volume", "Output">>,
   mix      |-> <<"Mix", "Blend">>]

\* The first of a word's controls the model has as a knob, or none.
ControlFor(m, word) ==
  LET at == SelectInSeq(KnobWords[word], LAMBDA key :
              /\ key \in DOMAIN Block(m).params
              /\ IsKnob(Block(m).params[key]))
  IN IF at = 0 THEN "none" ELSE KnobWords[word][at]

\* A rig's halves of a turn, on the range the control is counted in.
Scale(p, halves) ==
  LET value == p.min + (halves * (p.max - p.min)) \div 2
  IN IF p.kind = "int" THEN Round(value) ELSE value

\* What a rig said about a model, over what its controls were set to.
SetKnobs(params, m, said) ==
  LET turned == {ControlFor(m, word) : word \in DOMAIN said} \ {"none"}
      word(key) == CHOOSE w \in DOMAIN said : ControlFor(m, w) = key
  IN [key \in DOMAIN params \cup turned |->
        IF key \in turned THEN Scale(Block(m).params[key], said[word(key)])
                          ELSE params[key]]

KnobsTurn(m, said) == \A word \in DOMAIN said : ControlFor(m, word) # "none"
=============================================================================
