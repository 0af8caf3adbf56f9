--------------------------- MODULE Compile_proofs ---------------------------
(***************************************************************************)
(* Proofs about the compiler, the setlist files built on it and a slot of  *)
(* the pedal shown as a rig, for any catalog, statistics, recipes,         *)
(* templates, presets, slots and files.                                    *)
(*                                                                         *)
(* Sane is what holds of a build under way, stage by stage: Building of    *)
(* one that makes a preset of a rig (what it has resolved, the chain it    *)
(* has settled and the document it has written are well formed), and       *)
(* Rebuilding of one that takes a preset apart and compiles it again (what *)
(* each stage holds, written out in terms of the preset it was).           *)
(*                                                                         *)
(* Faithful adds that what is made follows the rig that was given: every   *)
(* assignment of the rig's is on the block it named, moved where the fit   *)
(* moved that block.  Stocked is the same care for a setlist file: every   *)
(* slot of it is a preset, and the one taken out as a rig is Rebuilding.   *)
(* Showing is what each stage holds of a slot read as a rig, in terms of   *)
(* the file the slot is exported as.                                       *)
(*                                                                         *)
(* Most of the module is what the operators of the model return: the       *)
(* chain read out of a document and the document written from a chain, the *)
(* fill, the demands and the moves of a rig's words, the fit and what it   *)
(* moves, the sections, controllers and switches written last.  Recursion  *)
(* over a sequence is reasoned about through RunExists: a run of the steps *)
(* exists, and whatever holds at its start and over each step holds        *)
(* Throughout.                                                             *)
(***************************************************************************)
EXTENDS Setlists, FiniteSetTheorems, SequenceTheorems, WellFoundedInduction, TLAPS

-----------------------------------------------------------------------------
(* Numbers and orders *)

\* A set of numbers with anything in it has a least one.
LEMMA Least ==
  ASSUME NEW S, S \subseteq Nat, S # {}
  PROVE  \E n \in S : \A m \in S : n <= m
<1> DEFINE R == OpToRel(<, Nat)
<1>1. IsWellFoundedOn(R, Nat) BY NatLessThanWellFounded
<1>2. PICK n \in S : \A m \in S : <<m, n>> \notin R
  <2> HIDE DEF R
  <2> QED BY <1>1, WFMin
<1>3. ASSUME NEW m \in S, m < n PROVE FALSE
  <2>1. <<m, n>> \in R BY <1>3 DEF OpToRel
  <2> QED BY <2>1, <1>2
<1> QED BY <1>3

\* The least of a set of numbers is one of them, and the least.
LEMMA MinIs ==
  ASSUME NEW S, S \subseteq Nat, S # {}
  PROVE  Min(S) \in S /\ \A n \in S : Min(S) <= n
BY Least DEF Min

\* A set of numbers nothing in which is past some number has a last one.
LEMMA MaxIs ==
  ASSUME NEW S, S \subseteq Nat, S # {}, NEW k \in Nat, \A n \in S : n <= k
  PROVE  Max(S) \in S /\ \A n \in S : n <= Max(S)
<1> DEFINE T == {k - n : n \in S}
<1>1. T \subseteq Nat /\ T # {}
  <2>1. \A n \in S : n \in Nat /\ n <= k /\ k - n \in Nat OBVIOUS
  <2> QED BY <2>1
<1>2. PICK t \in T : \A u \in T : t <= u BY <1>1, Least
<1>3. PICK n \in S : t = k - n BY <1>2
<1>4. \A m \in S : n >= m BY <1>2, <1>3
<1> QED BY <1>3, <1>4 DEF Max

\* Of one number, it is the least and the last.
LEMMA OfOne ==
  ASSUME NEW i \in Int
  PROVE  Max({i}) = i /\ Min({i}) = i
BY DEF Max, Min

\* The pairs tell of any two members of the set which is first.
TotalOn(S, R) ==
  /\ \A a \in S : <<a, a>> \notin R
  /\ \A a, b \in S : a # b => <<a, b>> \in R \/ <<b, a>> \in R
  /\ \A a, b, c \in S : <<a, b>> \in R /\ <<b, c>> \in R => <<a, c>> \in R

\* How many come before it.
Rank(S, R, a) == Cardinality({b \in S : <<b, a>> \in R})

\* The further on in the order, the more comes before.
LEMMA RankGrows ==
  ASSUME NEW S, IsFiniteSet(S), NEW R, TotalOn(S, R),
         NEW a \in S, NEW b \in S
  PROVE  /\ Rank(S, R, a) \in 0 .. Cardinality(S) - 1
         /\ <<a, b>> \in R <=> Rank(S, R, a) < Rank(S, R, b)
         /\ a # b => Rank(S, R, a) # Rank(S, R, b)
<1> DEFINE Before(x) == {y \in S : <<y, x>> \in R}
<1>1. \A x \in S : /\ IsFiniteSet(Before(x)) /\ Cardinality(Before(x)) \in Nat
                   /\ Cardinality(Before(x)) < Cardinality(S)
  <2> TAKE x \in S
  <2>1. Before(x) \in SUBSET S OBVIOUS
  <2>2. x \notin Before(x) BY DEF TotalOn
  <2>3. Before(x) # S BY <2>2
  <2> HIDE DEF Before
  <2> QED BY <2>1, <2>3, FS_Subset, FS_CardinalityType
<1>2. ASSUME NEW x \in S, NEW y \in S, <<x, y>> \in R
      PROVE  Cardinality(Before(x)) < Cardinality(Before(y))
  <2>1. Before(x) \in SUBSET Before(y) BY <1>2 DEF TotalOn
  <2>2. x \in Before(y) /\ x \notin Before(x) BY <1>2 DEF TotalOn
  <2>3. IsFiniteSet(Before(y)) /\ Cardinality(Before(y)) \in Nat /\ Cardinality(Before(x)) \in Nat
    BY <1>1
  <2>4. Before(x) # Before(y) BY <2>2
  <2> HIDE DEF Before
  <2> QED BY <2>1, <2>3, <2>4, FS_Subset
<1>3. Cardinality(S) \in Nat BY FS_CardinalityType
<1> HIDE DEF Before
<1>4. <<a, b>> \in R => Cardinality(Before(a)) < Cardinality(Before(b)) BY <1>2
<1>5. <<b, a>> \in R => Cardinality(Before(b)) < Cardinality(Before(a)) BY <1>2
<1>6. a # b => <<a, b>> \in R \/ <<b, a>> \in R BY DEF TotalOn
<1>7. <<a, a>> \notin R BY DEF TotalOn
<1>8. Rank(S, R, a) = Cardinality(Before(a)) /\ Rank(S, R, b) = Cardinality(Before(b))
  BY DEF Rank, Before
<1> QED BY <1>1, <1>3, <1>4, <1>5, <1>6, <1>7, <1>8

\* Whatever is ordered is gone through once each, in its order.
LEMMA OrderedIs ==
  ASSUME NEW S, IsFiniteSet(S), NEW R, TotalOn(S, R)
  PROVE  LET s == Ordered(S, R)
         IN /\ Cardinality(S) \in Nat
            /\ s \in [1 .. Cardinality(S) -> S]
            /\ s \in Seq(S) /\ Len(s) = Cardinality(S)
            /\ \A a \in S : \E i \in DOMAIN s : s[i] = a
            /\ \A i, j \in DOMAIN s : i < j => <<s[i], s[j]>> \in R
            /\ \A i, j \in DOMAIN s : s[i] = s[j] => i = j
<1> DEFINE n == Cardinality(S)
           r == [a \in S |-> Rank(S, R, a) + 1]
           s == Ordered(S, R)
<1>1. n \in Nat BY FS_CardinalityType
<1>a. \A a \in S : Rank(S, R, a) \in 0 .. n - 1
  <2> HIDE DEF r, s
  <2> QED BY RankGrows
<1>b. \A a \in S : Rank(S, R, a) \in Nat /\ Rank(S, R, a) + 1 \in 1 .. n
  <2> HIDE DEF n, r, s
  <2> QED BY <1>a, <1>1
<1>c. \A a, b \in S : Rank(S, R, a) = Rank(S, R, b) => a = b
  <2> HIDE DEF n, r, s
  <2> QED BY RankGrows
<1>d. \A a, b \in S : <<a, b>> \in R <=> Rank(S, R, a) < Rank(S, R, b)
  <2> HIDE DEF n, r, s
  <2> QED BY RankGrows
<1> HIDE DEF s
<1>2. r \in [S -> 1 .. n]
  <2> HIDE DEF n
  <2> QED BY <1>b
<1>3. r \in Injection(S, 1 .. n)
  <2>1. \A a, b \in S : r[a] = r[b] => a = b
    <3> TAKE a, b \in S
    <3> HIDE DEF n
    <3>1. r[a] = r[b] => Rank(S, R, a) = Rank(S, R, b) BY <1>b
    <3> QED BY <3>1, <1>c
  <2> HIDE DEF r
  <2> QED BY <1>2, <2>1 DEF Injection, IsInjective
<1>4. IsFiniteSet(1 .. n) /\ Cardinality(1 .. n) = n
  BY <1>1, FS_Interval
<1>5. r \in Surjection(S, 1 .. n)
  <2> HIDE DEF r, n
  <2> QED BY <1>3, <1>4, FS_Injection DEF n
<1>6. \A i \in 1 .. n : \E a \in S : Rank(S, R, a) = i - 1
  <2>1. \A i \in 1 .. n : \E a \in S : r[a] = i
    <3> HIDE DEF r
    <3> QED BY <1>5 DEF Surjection
  <2> TAKE i \in 1 .. n
  <2>2. PICK a \in S : r[a] = i BY <2>1
  <2>3. Rank(S, R, a) + 1 = i /\ Rank(S, R, a) \in Nat BY <2>2, <1>b
  <2> QED BY <2>3
<1>7. s = [i \in 1 .. n |-> CHOOSE a \in S : Rank(S, R, a) = i - 1]
  BY DEF Ordered, Rank, s
<1>8. \A i \in 1 .. n : s[i] \in S /\ Rank(S, R, s[i]) = i - 1
  <2> HIDE DEF s
  <2> QED BY <1>6, <1>7
<1>9. s \in [1 .. n -> S] BY <1>7, <1>8
<1> HIDE DEF s
<1>10. s \in Seq(S) /\ Len(s) = n /\ DOMAIN s = 1 .. n
  BY <1>1, <1>9
<1>11. \A a \in S : \E i \in DOMAIN s : s[i] = a
  <2> TAKE a \in S
  <2>1. Rank(S, R, a) + 1 \in 1 .. n /\ Rank(S, R, a) \in Nat BY <1>b
  <2>2. Rank(S, R, s[Rank(S, R, a) + 1]) = Rank(S, R, a) BY <1>8, <2>1
  <2>3. s[Rank(S, R, a) + 1] = a BY <1>c, <1>8, <2>1, <2>2
  <2> QED BY <2>1, <2>3, <1>10
<1>12. \A i, j \in DOMAIN s : i < j => <<s[i], s[j]>> \in R
  <2> TAKE i, j \in DOMAIN s
  <2>1. i \in 1 .. n /\ j \in 1 .. n BY <1>10
  <2>2. <<s[i], s[j]>> \in R <=> i - 1 < j - 1 BY <1>d, <1>8, <2>1
  <2> QED BY <2>1, <2>2, <1>1
<1>13. \A i, j \in DOMAIN s : s[i] = s[j] => i = j
  BY <1>8, <1>10, <1>1
<1> QED BY <1>1, <1>9, <1>10, <1>11, <1>12, <1>13 DEF s

\* Something comes before everything else.
LEMMA FirstIs ==
  ASSUME NEW S, IsFiniteSet(S), S # {}, NEW R, TotalOn(S, R)
  PROVE  \E a \in S : \A b \in S \ {a} : <<a, b>> \in R
<1>1. PICK k \in {Rank(S, R, a) : a \in S} : \A m \in {Rank(S, R, a) : a \in S} : k <= m
  <2>1. {Rank(S, R, a) : a \in S} \subseteq Nat /\ {Rank(S, R, a) : a \in S} # {}
    <3>1. \A a \in S : Rank(S, R, a) \in 0 .. Cardinality(S) - 1 BY RankGrows
    <3>2. Cardinality(S) \in Nat BY FS_CardinalityType
    <3> QED BY <3>1, <3>2
  <2> QED BY <2>1, Least
<1>2. PICK a \in S : Rank(S, R, a) = k BY <1>1
<1>3. \A b \in S : ~ (Rank(S, R, b) < Rank(S, R, a))
  <2> TAKE b \in S
  <2>1. Rank(S, R, b) \in 0 .. Cardinality(S) - 1 /\ Rank(S, R, a) \in 0 .. Cardinality(S) - 1
    BY RankGrows
  <2>2. Cardinality(S) \in Nat BY FS_CardinalityType
  <2> QED BY <1>1, <1>2, <2>1, <2>2
<1>4. \A b \in S \ {a} : <<a, b>> \in R
  BY <1>3, RankGrows DEF TotalOn
<1> QED BY <1>4

\* What is at the places of a sequence is finite.
LEMMA PlacesAre ==
  ASSUME NEW s, s \in Seq(ToSet(s))
  PROVE  IsFiniteSet(ToSet(s))
<1> DEFINE f == [i \in 1 .. Len(s) |-> s[i]]
<1>1. Len(s) \in Nat /\ DOMAIN s = 1 .. Len(s) OBVIOUS
<1>2. IsFiniteSet(1 .. Len(s)) BY <1>1, FS_Interval
<1>3. f \in Surjection(1 .. Len(s), ToSet(s)) BY <1>1 DEF Surjection, ToSet
<1> HIDE DEF f
<1> QED BY <1>2, <1>3, FS_Surjection

\* A function of the places from one on is a sequence of what it holds.
LEMMA SeqIs ==
  ASSUME NEW n \in Nat, NEW s, s = [i \in 1 .. n |-> s[i]]
  PROVE  s \in Seq(ToSet(s))
<1>1. \A i \in 1 .. n : s[i] \in ToSet(s) BY DEF ToSet
<1> QED BY <1>1

\* A sequence with one more at its end.
LEMMA AppendIs ==
  ASSUME NEW S, NEW s, s \in Seq(S), NEW w, w \in S
  PROVE  /\ Append(s, w) \in Seq(S) /\ Len(Append(s, w)) = Len(s) + 1
         /\ Append(s, w)[Len(s) + 1] = w
         /\ \A i \in 1 .. Len(s) : Append(s, w)[i] = s[i]
OBVIOUS

\* A place and what is there.
LEMMA PairAndMore ==
  ASSUME NEW p, NEW q, NEW w
  PROVE  Append(<<p, q>>, w) = <<p, q, w>>
<1> DEFINE S == {p, q, w}
<1>1. PICK s : s = <<p, q>> OBVIOUS
<1>2. s \in Seq(S) /\ w \in S BY <1>1
<1>3. Len(s) = 2 /\ s[1] = p /\ s[2] = q BY <1>1
<1> HIDE DEF S
<1>4. /\ Append(s, w) \in Seq(S) /\ Len(Append(s, w)) = Len(s) + 1
      /\ Append(s, w)[Len(s) + 1] = w
      /\ \A i \in 1 .. Len(s) : Append(s, w)[i] = s[i]
  BY <1>2, AppendIs
<1>5. PICK t : t = Append(s, w) OBVIOUS
<1>6. t \in Seq(S) /\ Len(t) = 3 /\ t[3] = w /\ t[1] = p /\ t[2] = q
  BY <1>3, <1>4, <1>5
<1>7. t = <<p, q, w>> BY <1>6
<1> QED BY <1>1, <1>5, <1>7

-----------------------------------------------------------------------------
(* What is worked out one step after another *)

\* What holds at the start and is kept by every step holds throughout.
LEMMA Throughout ==
  ASSUME NEW N \in Nat, NEW D, NEW g, g[0] \in D,
         \A n \in 1 .. N : g[n - 1] \in D => g[n] \in D
  PROVE  \A n \in 0 .. N : g[n] \in D
<1> DEFINE out == {n \in 0 .. N : g[n] \notin D}
<1>1. ASSUME out # {} PROVE FALSE
  <2>1. out \subseteq Nat OBVIOUS
  <2>2. PICK n \in out : \A m \in out : n <= m
    <3> HIDE DEF out
    <3> QED BY <1>1, <2>1, Least
  <2>3. n \in 1 .. N OBVIOUS
  <2>4. n - 1 \in 0 .. N /\ ~ (n <= n - 1) BY <2>3
  <2>5. n - 1 \notin out BY <2>2, <2>4
  <2> QED BY <2>3, <2>4, <2>5
<1> QED BY <1>1

Steps(step, N, D) == step \in [1 .. N -> [D -> D]]
IsRun(f, base, step, N, D) ==
  /\ f \in [0 .. N -> D]
  /\ f[0] = base /\ \A n \in 1 .. N : f[n] = step[n][f[n - 1]]

\* There is a function that starts as told and goes on a step at a time.
LEMMA RunExists ==
  ASSUME NEW N \in Nat, NEW D, NEW base \in D, NEW step, Steps(step, N, D)
  PROVE  \E f : IsRun(f, base, step, N, D)
<1>0. step \in [1 .. N -> [D -> D]] BY DEF Steps
<1> DEFINE Runs(k) == {f \in [0 .. k -> D] :
                         f = [n \in 0 .. k |-> IF n = 0 THEN base ELSE step[n][f[n - 1]]]}
           stuck == {k \in 0 .. N : Runs(k) = {}}
<1>1. Runs(0) # {}
  <2> DEFINE f == [n \in 0 .. 0 |-> base]
  <2>1. f \in Runs(0) OBVIOUS
  <2> QED BY <2>1
<1>2. ASSUME NEW k \in 1 .. N, Runs(k - 1) # {} PROVE Runs(k) # {}
  <2>1. PICK f \in [0 .. k - 1 -> D] :
          f = [n \in 0 .. k - 1 |-> IF n = 0 THEN base ELSE step[n][f[n - 1]]]
    BY <1>2
  <2> DEFINE g == [n \in 0 .. k |-> IF n = k THEN step[k][f[k - 1]] ELSE f[n]]
  <2>2. f[k - 1] \in D /\ step[k] \in [D -> D] BY <1>0
  <2>3. g \in [0 .. k -> D] BY <2>2
  <2>4. \A n \in 0 .. k : g[n] = IF n = 0 THEN base ELSE step[n][g[n - 1]]
    <3> TAKE n \in 0 .. k
    <3>1. CASE n = k
      <4>1. k # 0 /\ k - 1 \in 0 .. k /\ k - 1 # k OBVIOUS
      <4>2. g[k - 1] = f[k - 1] BY <4>1
      <4> QED BY <3>1, <4>1, <4>2
    <3>2. CASE n # k /\ n = 0
      <4>1. f[0] = base BY <2>1
      <4> QED BY <3>2, <4>1
    <3>3. CASE n # k /\ n # 0
      <4>1. n \in 0 .. k - 1 /\ n - 1 \in 0 .. k /\ n - 1 # k BY <3>3
      <4>2. g[n] = f[n] /\ g[n - 1] = f[n - 1] BY <3>3, <4>1
      <4>3. f[n] = step[n][f[n - 1]] BY <2>1, <3>3, <4>1
      <4> QED BY <3>3, <4>2, <4>3
    <3> QED BY <3>1, <3>2, <3>3
  <2> HIDE DEF g
  <2>5. g = [n \in 0 .. k |-> IF n = 0 THEN base ELSE step[n][g[n - 1]]] BY <2>3, <2>4
  <2> QED BY <2>3, <2>5
<1>3. ASSUME stuck # {} PROVE FALSE
  <2>1. stuck \subseteq Nat OBVIOUS
  <2>2. PICK k \in stuck : \A m \in stuck : k <= m
    <3> HIDE DEF stuck
    <3> QED BY <1>3, <2>1, Least
  <2> HIDE DEF Runs
  <2>3. k \in 1 .. N BY <1>1
  <2>4. k - 1 \in 0 .. N /\ ~ (k <= k - 1) BY <2>3
  <2>5. Runs(k - 1) # {} BY <2>2, <2>4
  <2> QED BY <1>2, <2>3, <2>5
<1>4. Runs(N) # {}
  <2>1. N \in 0 .. N OBVIOUS
  <2> HIDE DEF Runs
  <2> QED BY <1>3, <2>1
<1>5. PICK f \in [0 .. N -> D] :
        f = [n \in 0 .. N |-> IF n = 0 THEN base ELSE step[n][f[n - 1]]]
  BY <1>4
<1>6. 0 \in 0 .. N /\ \A n \in 1 .. N : n \in 0 .. N /\ n # 0 OBVIOUS
<1>7. f[0] = base /\ \A n \in 1 .. N : f[n] = step[n][f[n - 1]]
  BY <1>5, <1>6
<1> QED BY <1>7 DEF IsRun

-----------------------------------------------------------------------------
(* What is rounded *)

\* Rounding down undoes what was added short of a whole unit.
LEMMA DivBack ==
  ASSUME NEW u \in Nat \ {0}, NEW q \in Nat, NEW h \in Nat, h < u
  PROVE  (q * u + h) \div u = q
OBVIOUS

\* What is rounded is a whole, and is rounded no further.
LEMMA RoundIs ==
  ASSUME NEW v \in Int
  PROVE  Round(v) \in Int /\ Round(Round(v)) = Round(v)
<1> DEFINE h == Unit \div 2
<1>1. Unit \in Nat \ {0} /\ h \in Nat /\ h < Unit BY UnitAssumption
<1>2. ASSUME NEW a \in Nat PROVE (a + h) \div Unit \in Nat
  <2> HIDE DEF h
  <2> QED BY <1>1
<1>3. \A q \in Nat : q * Unit \in Nat /\ (q * Unit + h) \div Unit = q
  <2> HIDE DEF h
  <2> QED BY <1>1, DivBack
<1>4. CASE v >= 0
  <2>1. PICK q \in Nat : q = (v + h) \div Unit BY <1>2, <1>4
  <2>2. Round(v) = q * Unit BY <2>1, <1>4 DEF Round
  <2>3. Round(q * Unit) = q * Unit BY <1>3 DEF Round
  <2> QED BY <1>3, <2>2, <2>3
<1>5. CASE ~ (v >= 0)
  <2>1. PICK q \in Nat : q = (-v + h) \div Unit BY <1>2, <1>5
  <2>2. Round(v) = -(q * Unit) BY <2>1, <1>5 DEF Round
  <2>3. q * Unit \in Nat /\ (q * Unit + h) \div Unit = q BY <1>3
  <2>4. CASE q * Unit = 0
    <3>1. Round(v) = 0 /\ 0 * Unit = 0 BY <2>2, <2>4, <1>1
    <3>2. (0 * Unit + h) \div Unit = 0 BY <1>3
    <3>3. Round(0) = 0 BY <3>1, <3>2, <1>1 DEF Round
    <3> QED BY <3>1, <3>3
  <2>5. CASE q * Unit # 0
    <3> DEFINE w == q * Unit
    <3>1. w \in Nat /\ w # 0 BY <2>3, <2>5
    <3> HIDE DEF w, h
    <3>2. ~ (-w >= 0) /\ -(-w) = w BY <3>1
    <3>3. Round(-w) = -(((-(-w) + h) \div Unit) * Unit) BY <3>2 DEF Round, h
    <3>4. Round(-w) = -(q * Unit) BY <3>2, <3>3, <2>3 DEF w
    <3> QED BY <3>1, <3>4, <2>2 DEF w
  <2> QED BY <2>4, <2>5
<1> QED BY <1>4, <1>5

-----------------------------------------------------------------------------
(* A document read as a chain, and written over one *)

\* One block comes before the other.
LEMMA EarlierIs ==
  ASSUME NEW d, IsPreset(d)
  PROVE  TotalOn(DOMAIN d.blocks, Earlier(d))
<1> DEFINE H == DOMAIN d.blocks
           pos == [a \in H |-> d.blocks[a].position]
<1>1. H \subseteq Nat \X Nat /\ \A a \in H : pos[a] \in Nat
  BY DEF IsPreset, IsAddressed, IsStored
<1>2. \A a, b \in H : <<a, b>> \in Earlier(d) <=>
        \/ a[1] < b[1]
        \/ a[1] = b[1] /\ pos[a] < pos[b]
        \/ a[1] = b[1] /\ pos[a] = pos[b] /\ a[2] < b[2]
  BY DEF Earlier
<1> HIDE DEF H, pos
<1>3. \A a \in H : a[1] \in Nat /\ a[2] \in Nat /\ pos[a] \in Nat /\ a = <<a[1], a[2]>>
  BY <1>1
<1>4. \A a \in H : <<a, a>> \notin Earlier(d) BY <1>2, <1>3
<1>5. \A a, b \in H : a # b => <<a, b>> \in Earlier(d) \/ <<b, a>> \in Earlier(d)
  <2> TAKE a, b \in H
  <2>1. a # b => a[1] # b[1] \/ a[2] # b[2] BY <1>3
  <2> QED BY <1>2, <1>3, <2>1
<1>6. \A a, b, c \in H : <<a, b>> \in Earlier(d) /\ <<b, c>> \in Earlier(d)
                           => <<a, c>> \in Earlier(d)
  <2> TAKE a, b, c \in H
  <2>1. /\ a[1] \in Nat /\ a[2] \in Nat /\ pos[a] \in Nat
        /\ b[1] \in Nat /\ b[2] \in Nat /\ pos[b] \in Nat
        /\ c[1] \in Nat /\ c[2] \in Nat /\ pos[c] \in Nat BY <1>3
  <2> QED BY <1>2, <2>1
<1> QED BY <1>4, <1>5, <1>6 DEF TotalOn, H

\* A chain read back is the blocks where they stand, once each.
LEMMA ChainOfIs ==
  ASSUME NEW d, IsPreset(d)
  PROVE  \E n \in Nat : \E order \in [1 .. n -> DOMAIN d.blocks] :
           /\ n = Cardinality(DOMAIN d.blocks)
           /\ ChainOf(d) = [i \in 1 .. n |-> Standing(d, order[i])]
           /\ \A a \in DOMAIN d.blocks : \E i \in 1 .. n : order[i] = a
           /\ \A i, j \in 1 .. n : order[i] = order[j] => i = j
<1> DEFINE H == DOMAIN d.blocks
           n == Cardinality(H)
           order == Ordered(H, Earlier(d))
<1>1. IsFiniteSet(H) /\ TotalOn(H, Earlier(d))
  BY EarlierIs DEF IsPreset, IsAddressed
<1>2. /\ n \in Nat /\ order \in [1 .. n -> H]
      /\ \A a \in H : \E i \in DOMAIN order : order[i] = a
      /\ \A i, j \in DOMAIN order : order[i] = order[j] => i = j
  <2> HIDE DEF H
  <2> QED BY <1>1, OrderedIs
<1>3. ChainOf(d) = [i \in DOMAIN order |-> Standing(d, order[i])]
  BY DEF ChainOf, H, order
<1>4. DOMAIN order = 1 .. n BY <1>2
<1> HIDE DEF order
<1> QED BY <1>2, <1>3, <1>4

\* What a rig says nothing of is left as it was.
LEMMA UnsaidKnobs ==
  ASSUME NEW m, NEW params, IsFcn(params)
  PROVE  SetKnobs(params, m, Empty) = params /\ KnobsTurn(m, Empty)
<1>1. DOMAIN Empty = {} BY DEF Empty
<1> DEFINE turned == {ControlFor(m, word) : word \in DOMAIN Empty} \ {"none"}
<1>2. turned = {} BY <1>1
<1>3. DOMAIN params \cup turned = DOMAIN params BY <1>2
<1> HIDE DEF turned
<1>4. SetKnobs(params, m, Empty) = [key \in DOMAIN params |-> params[key]]
  BY <1>2, <1>3 DEF SetKnobs, turned
<1> QED BY <1>1, <1>4 DEF IsFcn, KnobsTurn

\* A block read out of a document is written where it stood, as it was.
LEMMA LoweredAsItStood ==
  ASSUME NEW d, IsPreset(d), NEW a \in DOMAIN d.blocks, NEW i, NEW instrument
  PROVE  LET entry == EntryFor(Standing(d, a))
         IN /\ LoweredBlock(entry, i, instrument) = Standing(d, a)
            /\ Lowers(entry, instrument)
<1> DEFINE b == d.blocks[a]
           entry == EntryFor(Standing(d, a))
<1>1. /\ b.model # NoModel /\ IsWhole(b.model, b.params)
      /\ a[1] \in Nat /\ a[2] \in Nat
  BY DEF IsPreset, IsStored, IsAddressed
<1>2. /\ entry.model = b.model /\ entry.settings = Empty /\ entry.exact = TRUE
      /\ entry.params = b.params /\ entry.path = a[1] /\ entry.pos = a[2]
      /\ entry.enabled = b.enabled /\ entry.attrs = b.attrs
      /\ entry.position = b.position
  BY DEF EntryFor, Standing
<1> HIDE DEF entry
<1>3. ModelFor(entry, instrument) = b.model
  BY <1>1, <1>2 DEF ModelFor
<1>4. ParamsFor(entry, b.model) = b.params
  <2>1. \A key \in DOMAIN b.params :
          b.model \in Models /\ key \in DOMAIN Block(b.model).params
            /\ Block(b.model).params[key].kind = "int"
          => Round(b.params[key]) = b.params[key]
    BY <1>1 DEF IsWhole
  <2>2. IsFcn(b.params) BY <1>1 DEF IsWhole
  <2>3. ParamsFor(entry, b.model) =
          [key \in DOMAIN b.params |->
             IF /\ b.model \in Models
                /\ key \in DOMAIN Block(b.model).params
                /\ Block(b.model).params[key].kind = "int"
             THEN Round(b.params[key]) ELSE b.params[key]]
    BY <1>2 DEF ParamsFor
  <2>4. ParamsFor(entry, b.model) = [key \in DOMAIN b.params |-> b.params[key]]
    BY <2>1, <2>3
  <2> QED BY <2>2, <2>4 DEF IsFcn
<1>5. IsFcn(b.params) BY <1>1 DEF IsWhole
<1>6. SetKnobs(b.params, b.model, Empty) = b.params /\ KnobsTurn(b.model, Empty)
  BY <1>5, UnsaidKnobs
<1>7. entry.pos # NoPosition BY <1>1, <1>2 DEF NoPosition
<1>8. LoweredBlock(entry, i, instrument) = Standing(d, a)
  BY <1>2, <1>3, <1>4, <1>6, <1>7 DEF LoweredBlock, Standing
<1>9. Lowers(entry, instrument)
  BY <1>1, <1>2, <1>3, <1>6 DEF Lowers
<1> QED BY <1>8, <1>9 DEF entry

\* The chain of a rig read out of a preset is the preset's own.
LEMMA LoweredIs ==
  ASSUME NEW d, IsPreset(d)
  PROVE  LET r == Lift(d)
         IN /\ LoweredChain(r) = ChainOf(d)
            /\ \A i \in DOMAIN r.chain : Lowers(r.chain[i], r.instrument)
<1> DEFINE c == ChainOf(d)
           r == Lift(d)
<1>1. PICK n \in Nat : \E order \in [1 .. n -> DOMAIN d.blocks] :
        c = [i \in 1 .. n |-> Standing(d, order[i])]
  BY ChainOfIs
<1>2. PICK order \in [1 .. n -> DOMAIN d.blocks] :
        c = [i \in 1 .. n |-> Standing(d, order[i])]
  BY <1>1
<1> HIDE DEF c
<1>3. r.chain = [i \in 1 .. n |-> EntryFor(Standing(d, order[i]))]
  <2>1. r.chain = [i \in DOMAIN c |-> EntryFor(c[i])] BY DEF Lift, c
  <2> QED BY <1>2, <2>1
<1> HIDE DEF r
<1>4. \A i \in 1 .. n : /\ LoweredBlock(r.chain[i], i, r.instrument) = Standing(d, order[i])
                        /\ Lowers(r.chain[i], r.instrument)
  BY <1>3, LoweredAsItStood
<1>5. LoweredChain(r) = [i \in 1 .. n |-> LoweredBlock(r.chain[i], i, r.instrument)]
  BY <1>3 DEF LoweredChain
<1>6. LoweredChain(r) = c BY <1>2, <1>4, <1>5
<1>7. DOMAIN r.chain = 1 .. n BY <1>3
<1> QED BY <1>4, <1>6, <1>7 DEF r, c

\* The fields of a document, whatever they hold.
IsDocument(x) ==
  x = [name |-> x.name, device |-> x.device, meta |-> x.meta, blocks |-> x.blocks,
       routing |-> x.routing, snapshots |-> x.snapshots, tone |-> x.tone]

\* A preset's own chain puts its own blocks in a document.
LEMMA SetSpecIs ==
  ASSUME NEW d, IsPreset(d), NEW x, NEW name
  PROVE  SetSpec(x, name, ChainOf(d)) = [x EXCEPT !.name = name, !.blocks = d.blocks]
<1> DEFINE c == ChainOf(d)
           H == DOMAIN d.blocks
<1>1. PICK n \in Nat : \E order \in [1 .. n -> H] :
           /\ c = [i \in 1 .. n |-> Standing(d, order[i])]
           /\ \A a \in H : \E i \in 1 .. n : order[i] = a
           /\ \A i, j \in 1 .. n : order[i] = order[j] => i = j
  BY ChainOfIs
<1>2. PICK order \in [1 .. n -> H] :
           /\ c = [i \in 1 .. n |-> Standing(d, order[i])]
           /\ \A a \in H : \E i \in 1 .. n : order[i] = a
           /\ \A i, j \in 1 .. n : order[i] = order[j] => i = j
  BY <1>1
<1>3. H \subseteq Nat \X Nat /\ d.blocks = [a \in H |-> d.blocks[a]]
  BY DEF IsPreset, IsAddressed, IsFcn
<1>4. \A a \in H : Encoded(Standing(d, a)) = d.blocks[a]
  <2> TAKE a \in H
  <2>1. IsStored(d.blocks[a]) BY DEF IsPreset
  <2>2. d.blocks[a].position # NoPosition BY <2>1 DEF IsStored, NoPosition
  <2>3. Encoded(Standing(d, a)) =
          [model |-> d.blocks[a].model, params |-> d.blocks[a].params,
           enabled |-> d.blocks[a].enabled, attrs |-> d.blocks[a].attrs,
           position |-> d.blocks[a].position]
    BY <2>2 DEF Encoded, Standing
  <2> QED BY <2>1, <2>3 DEF IsStored
<1> HIDE DEF c
<1>5. DOMAIN c = 1 .. n BY <1>2
<1>6. \A i \in 1 .. n : Address(c[i]) = order[i] /\ c[i] = Standing(d, order[i])
  <2> TAKE i \in 1 .. n
  <2>1. order[i] \in Nat \X Nat BY <1>3
  <2>2. order[i] = <<order[i][1], order[i][2]>> BY <2>1
  <2> QED BY <1>2, <2>2 DEF Address, Standing
<1>7. {Address(c[i]) : i \in DOMAIN c} = H BY <1>2, <1>5, <1>6
<1>8. \A a \in H : Encoded(c[LastAt(c, a)]) = d.blocks[a]
  <2> TAKE a \in H
  <2>1. PICK i \in 1 .. n : order[i] = a BY <1>2
  <2>2. {j \in DOMAIN c : Address(c[j]) = a} = {i} BY <1>2, <1>5, <1>6, <2>1
  <2>3. LastAt(c, a) = i BY <2>2, OfOne DEF LastAt
  <2> QED BY <1>4, <1>6, <2>1, <2>3
<1>9. [a \in {Address(c[i]) : i \in DOMAIN c} |-> Encoded(c[LastAt(c, a)])] = d.blocks
  <2>1. [a \in {Address(c[i]) : i \in DOMAIN c} |-> Encoded(c[LastAt(c, a)])]
          = [a \in H |-> Encoded(c[LastAt(c, a)])] BY <1>7
  <2>2. [a \in H |-> Encoded(c[LastAt(c, a)])] = [a \in H |-> d.blocks[a]] BY <1>8
  <2> QED BY <1>3, <2>1, <2>2
<1> QED BY <1>9 DEF SetSpec, c

-----------------------------------------------------------------------------
(* What is printed under the switches, read and written *)

\* Switches in the order of their places: one comes before the other.
LEMMA ByAddressIs ==
  ASSUME NEW keys, keys \subseteq Nat \X Nat
  PROVE  TotalOn(keys, ByAddress(keys))
<1>1. \A a, b \in keys : <<a, b>> \in ByAddress(keys) <=>
        a[1] < b[1] \/ (a[1] = b[1] /\ a[2] < b[2])
  BY DEF ByAddress
<1>2. \A a \in keys : a[1] \in Nat /\ a[2] \in Nat /\ a = <<a[1], a[2]>>
  OBVIOUS
<1>3. \A a \in keys : <<a, a>> \notin ByAddress(keys) BY <1>1, <1>2
<1>4. \A a, b \in keys : a # b => <<a, b>> \in ByAddress(keys) \/ <<b, a>> \in ByAddress(keys)
  <2> TAKE a, b \in keys
  <2>1. a # b => a[1] # b[1] \/ a[2] # b[2] BY <1>2
  <2> QED BY <1>1, <1>2, <2>1
<1>5. \A a, b, c \in keys :
        <<a, b>> \in ByAddress(keys) /\ <<b, c>> \in ByAddress(keys)
          => <<a, c>> \in ByAddress(keys)
  <2> TAKE a, b, c \in keys
  <2>1. /\ a[1] \in Nat /\ a[2] \in Nat /\ b[1] \in Nat /\ b[2] \in Nat
        /\ c[1] \in Nat /\ c[2] \in Nat BY <1>2
  <2> QED BY <1>1, <2>1
<1> QED BY <1>3, <1>4, <1>5 DEF TotalOn

\* The number of a colour's name is the number it was.
LEMMA ColourIs ==
  ASSUME NEW n \in -1 .. Len(Colours) - 1
  PROVE  /\ ColourNumber(LEDColour(n)) = n
         /\ LEDColour(n) \in {"none"} \cup ToSet(Colours)
<1>1. Len(Colours) \in Nat /\ DOMAIN Colours = 1 .. Len(Colours)
  BY ColoursAssumption
<1> DEFINE I(led) == {i \in 1 .. Len(Colours) : Colours[i] = led}
<1>2. \A led : ColourNumber(led) = (IF I(led) # {} THEN Min(I(led)) ELSE 0) - 1
  BY DEF ColourNumber, SelectInSeq
<1>3. CASE n = -1
  <2>1. n + 1 \notin DOMAIN Colours BY <1>1, <1>3
  <2>2. LEDColour(n) = "none" BY <2>1 DEF LEDColour
  <2>3. I("none") = {} BY <1>1, ColoursAssumption DEF ToSet
  <2> HIDE DEF I
  <2> QED BY <1>2, <1>3, <2>2, <2>3
<1>4. CASE n # -1
  <2>1. n + 1 \in DOMAIN Colours /\ n + 1 \in Nat BY <1>1, <1>4
  <2>2. LEDColour(n) = Colours[n + 1] BY <2>1 DEF LEDColour
  <2>3. I(Colours[n + 1]) = {n + 1}
    <3>1. \A i \in I(Colours[n + 1]) : i = n + 1 BY <1>1, <2>1, ColoursAssumption
    <3>2. n + 1 \in I(Colours[n + 1]) BY <1>1, <2>1
    <3> HIDE DEF I
    <3> QED BY <3>1, <3>2
  <2>4. Min({n + 1}) = n + 1
    <3> DEFINE k == n + 1
    <3>1. k \in Int BY <2>1
    <3> HIDE DEF k
    <3>2. Min({k}) = k BY <3>1, OfOne
    <3> QED BY <3>2 DEF k
  <2> HIDE DEF I
  <2>5. ColourNumber(Colours[n + 1]) = n
    <3>1. I(Colours[n + 1]) # {} BY <2>3
    <3>2. ColourNumber(Colours[n + 1]) = Min(I(Colours[n + 1])) - 1 BY <1>2, <3>1
    <3> QED BY <2>1, <2>3, <2>4, <3>2
  <2>6. Colours[n + 1] \in ToSet(Colours) BY <2>1 DEF ToSet
  <2> QED BY <2>1, <2>2, <2>5, <2>6
<1> QED BY <1>3, <1>4

\* A switch as a rig says it.
Printed(held, a) ==
  [path |-> a[1], block |-> a[2], switch |-> held[a].switch, label |-> held[a].label,
   led |-> LEDColour(held[a].chosen)]

\* A listing says what is printed under every switch, once each.
ListsAll(sw, held) ==
  \E n \in Nat : \E order \in [1 .. n -> DOMAIN held] :
    /\ sw = [i \in 1 .. n |-> Printed(held, order[i])]
    /\ \A a \in DOMAIN held : \E i \in 1 .. n : order[i] = a
    /\ \A i, j \in 1 .. n : order[i] = order[j] => i = j

\* The switches read back are the ones printed, once each
\* (compile.footswitches).
LEMMA FootswitchesOfIs ==
  ASSUME NEW d, IsPreset(d), "footswitch" \in DOMAIN d.tone
  PROVE  ListsAll(FootswitchesOf(d), d.tone["footswitch"])
<1> DEFINE held == d.tone["footswitch"]
           H == DOMAIN held
           n == Cardinality(H)
           order == Ordered(H, ByAddress(H))
<1>1. IsFiniteSet(H) /\ H \subseteq Nat \X Nat
  BY DEF IsPreset, IsTone, IsAddressed
<1>2. /\ n \in Nat /\ order \in [1 .. n -> H]
      /\ \A a \in H : \E i \in DOMAIN order : order[i] = a
      /\ \A i, j \in DOMAIN order : order[i] = order[j] => i = j
  <2> HIDE DEF H
  <2> QED BY <1>1, ByAddressIs, OrderedIs
<1>3. FootswitchesOf(d) = [i \in DOMAIN order |-> Printed(held, order[i])]
  BY DEF FootswitchesOf, Printed, H, held, order
<1>4. DOMAIN order = 1 .. n BY <1>2
<1> HIDE DEF order, H
<1>5. /\ FootswitchesOf(d) = [i \in 1 .. n |-> Printed(held, order[i])]
      /\ \A a \in H : \E i \in 1 .. n : order[i] = a
      /\ \A i, j \in 1 .. n : order[i] = order[j] => i = j
  BY <1>2, <1>3, <1>4
<1> QED BY <1>2, <1>5 DEF ListsAll, H, held

\* The switches a rig read out of a preset says are the preset's own.
LEMMA FootswitchesIs ==
  ASSUME NEW d, IsPreset(d), FootswitchesOf(d) # Empty,
         NEW x, x.tone = Without(d.tone, {"footswitch"}),
         NEW r, r.switches = FootswitchesOf(d), "switches" \in r.has
  PROVE  Footswitches(x, r) = [x EXCEPT !.tone = d.tone]
<1> DEFINE held == d.tone["footswitch"]
           H == DOMAIN held
           sw == r.switches
<1>1. "footswitch" \in DOMAIN d.tone BY DEF FootswitchesOf
<1>2. PICK n \in Nat : \E order \in [1 .. n -> H] :
              /\ sw = [i \in 1 .. n |-> Printed(held, order[i])]
              /\ \A a \in H : \E i \in 1 .. n : order[i] = a
              /\ \A i, j \in 1 .. n : order[i] = order[j] => i = j
  <2>1. ListsAll(sw, held) BY <1>1, FootswitchesOfIs
  <2> QED BY <2>1 DEF ListsAll
<1>3. PICK order \in [1 .. n -> H] :
              /\ sw = [i \in 1 .. n |-> Printed(held, order[i])]
              /\ \A a \in H : \E i \in 1 .. n : order[i] = a
              /\ \A i, j \in 1 .. n : order[i] = order[j] => i = j
  BY <1>2
<1>4. /\ H \subseteq Nat \X Nat /\ held = [a \in H |-> held[a]]
      /\ \A a \in H : IsSwitch(held[a])
      /\ d.tone = [k \in DOMAIN d.tone |-> d.tone[k]]
  BY <1>1 DEF IsPreset, IsTone, IsAddressed, IsFcn
<1>5. n # 0
  <2> SUFFICES ASSUME n = 0 PROVE FALSE OBVIOUS
  <2>1. sw = [i \in {} |-> Printed(held, order[i])] BY <1>3
  <2> QED BY <2>1 DEF Empty
<1> HIDE DEF held, H
<1>6. \A a \in H : /\ a = <<a[1], a[2]>> /\ a[2] \in Nat
                   /\ FieldsOf(Printed(held, a)) = held[a]
  <2> TAKE a \in H
  <2>1. a = <<a[1], a[2]>> /\ a[2] \in Nat BY <1>4
  <2>2. IsSwitch(held[a]) BY <1>4
  <2>3. ColourNumber(LEDColour(held[a].chosen)) = held[a].chosen
    BY <2>2, ColourIs DEF IsSwitch
  <2>4. FieldsOf(Printed(held, a)) = [switch |-> held[a].switch, label |-> held[a].label,
                                      chosen |-> held[a].chosen]
    BY <2>3 DEF FieldsOf, Printed
  <2> QED BY <2>1, <2>2, <2>4 DEF IsSwitch
<1> DEFINE key(fs) == <<fs.path, fs.block>>
           placed == {i \in DOMAIN sw : sw[i].block # NoBlock}
           last(k) == sw[Max({i \in placed : key(sw[i]) = k})]
<1> HIDE DEF sw
<1>7. \A i \in 1 .. n : key(sw[i]) = order[i] /\ sw[i] = Printed(held, order[i])
                        /\ sw[i].block # NoBlock
  <2> TAKE i \in 1 .. n
  <2>1. sw[i] = Printed(held, order[i]) /\ order[i] \in H BY <1>3
  <2>2. /\ order[i] = <<order[i][1], order[i][2]>> /\ order[i][2] \in Nat BY <1>6, <2>1
  <2>3. /\ Printed(held, order[i]).path = order[i][1]
        /\ Printed(held, order[i]).block = order[i][2]
    BY DEF Printed
  <2> QED BY <2>1, <2>2, <2>3 DEF NoBlock
<1>0. DOMAIN sw = 1 .. n BY <1>3
<1>8. placed = 1 .. n BY <1>0, <1>7
<1>9. {key(sw[i]) : i \in placed} = H
  <2> HIDE DEF key, placed
  <2>1. \A i \in placed : key(sw[i]) \in H
    <3> TAKE i \in placed
    <3>1. key(sw[i]) = order[i] /\ i \in 1 .. n BY <1>7, <1>8
    <3> QED BY <3>1
  <2>2. \A a \in H : \E i \in placed : key(sw[i]) = a
    <3> TAKE a \in H
    <3>1. PICK i \in 1 .. n : order[i] = a BY <1>3
    <3>2. key(sw[i]) = a BY <3>1, <1>7
    <3> QED BY <3>2, <1>8
  <2> QED BY <2>1, <2>2
<1>10. \A k \in H : FieldsOf(last(k)) = held[k]
  <2> TAKE k \in H
  <2>1. PICK i \in 1 .. n : order[i] = k BY <1>3
  <2>2. {j \in placed : key(sw[j]) = k} = {i}
    <3> HIDE DEF key, placed
    <3>1. ASSUME NEW j \in placed, key(sw[j]) = k PROVE j = i
      <4>1. j \in 1 .. n /\ key(sw[j]) = order[j] BY <1>7, <1>8
      <4> QED BY <4>1, <3>1, <2>1, <1>3
    <3>2. i \in placed /\ key(sw[i]) = k BY <1>7, <1>8, <2>1
    <3> QED BY <3>1, <3>2
  <2>3. last(k) = sw[i] BY <2>2, OfOne
  <2> HIDE DEF last
  <2> QED BY <1>6, <1>7, <2>1, <2>3
<1>11. [k \in {key(sw[i]) : i \in placed} |-> FieldsOf(last(k))] = held
  <2> HIDE DEF last, key, placed
  <2>1. [k \in {key(sw[i]) : i \in placed} |-> FieldsOf(last(k))]
          = [k \in H |-> FieldsOf(last(k))] BY <1>9
  <2>2. [k \in H |-> FieldsOf(last(k))] = [k \in H |-> held[k]] BY <1>10
  <2> QED BY <1>4, <2>1, <2>2
<1> DEFINE pruned == Without(x.tone, {"footswitch"})
<1>12. With(pruned, "footswitch", held) = d.tone
  <2>1. pruned = [k \in DOMAIN d.tone \ {"footswitch"} |-> d.tone[k]]
    BY DEF Without
  <2>2. With(pruned, "footswitch", held) =
          [k \in DOMAIN d.tone |-> IF k = "footswitch" THEN held ELSE d.tone[k]]
    BY <1>1, <2>1 DEF With
  <2> QED BY <1>4, <2>2 DEF held
<1>13. placed # {} BY <1>5, <1>8
<1>14. Footswitches(x, r) =
         [x EXCEPT !.tone =
            IF placed = {} THEN pruned
            ELSE With(pruned, "footswitch",
                      [k \in {key(sw[i]) : i \in placed} |-> FieldsOf(last(k))])]
  BY DEF Footswitches, sw
<1> HIDE DEF placed, key, last, pruned
<1> QED BY <1>11, <1>12, <1>13, <1>14

-----------------------------------------------------------------------------
(* A rig read out of a preset *)

\* A name with the spaces around it gone, or a stand-in, is a name.
LEMMA NameIs ==
  ASSUME NEW d
  PROVE  Says(SubjectName(d)) /\ Says("recorded")
<1>1. \A name \in {"Untitled", "recorded"} : TrimSpace(name) = name
  BY TrimmedAssumption DEF TrimSpace
<1>2. TrimSpace(TrimSpace(d.name)) = TrimSpace(d.name)
  BY TrimmedAssumption DEF TrimSpace
<1> QED BY <1>1, <1>2 DEF Says, SubjectName

\* There is nothing in what is empty.
LEMMA NothingIn ==
  DOMAIN Empty = {} /\ ToSet(Empty) = {} /\ Empty \in Seq({})
BY DEF Empty, ToSet

\* Fields of a rig read out of a preset.
LEMMA LiftHas ==
  ASSUME NEW d, IsPreset(d)
  PROVE  LET r == Lift(d)
             sw == FootswitchesOf(d)
         IN /\ r.name = SubjectName(d) /\ r.instrument \in Instruments
            /\ r.target = Device /\ r.terms = Empty /\ r.technique = "none"
            /\ r.controllers = Empty /\ r.sections = Empty
            /\ r.switches = sw /\ r.snapshots = d.snapshots
            /\ r.device = DeviceState(d, IF sw = Empty THEN {} ELSE {"footswitch"})
            /\ "device" \in r.has
            /\ {"controllers", "sections"} \cap r.has = {}
            /\ "snapshots" \in r.has <=> d.snapshots # Empty
            /\ "switches" \in r.has <=> sw # Empty
            /\ DOMAIN r.chain = DOMAIN ChainOf(d)
BY DEF Lift, InstrumentOf, Instruments

\* A rig read out of a preset that holds anything can be built.
LEMMA LiftIsValid ==
  ASSUME NEW d, IsPreset(d), d.blocks # Empty
  PROVE  ValidRig(Lift(d))
<1> DEFINE r == Lift(d)
<1>1. PICK n \in Nat : \E order \in [1 .. n -> DOMAIN d.blocks] :
        /\ n = Cardinality(DOMAIN d.blocks)
        /\ ChainOf(d) = [i \in 1 .. n |-> Standing(d, order[i])]
  BY ChainOfIs
<1>2. PICK order \in [1 .. n -> DOMAIN d.blocks] :
        /\ n = Cardinality(DOMAIN d.blocks)
        /\ ChainOf(d) = [i \in 1 .. n |-> Standing(d, order[i])]
  BY <1>1
<1>3. n # 0
  <2>1. IsFiniteSet(DOMAIN d.blocks) /\ d.blocks = [a \in DOMAIN d.blocks |-> d.blocks[a]]
    BY DEF IsPreset, IsAddressed, IsFcn
  <2>2. SUFFICES ASSUME DOMAIN d.blocks = {} PROVE FALSE
    BY <1>2, <2>1, FS_EmptySet
  <2>3. d.blocks = [a \in {} |-> d.blocks[a]] BY <2>1, <2>2
  <2> QED BY <2>3 DEF Empty
<1>4. r.chain = [i \in 1 .. n |-> EntryFor(Standing(d, order[i]))]
  BY <1>2 DEF Lift
<1>5. r.chain # <<>>
  <2>1. DOMAIN r.chain = 1 .. n BY <1>4
  <2>2. 1 \in DOMAIN r.chain BY <1>3, <2>1
  <2> HIDE DEF r
  <2> QED BY <2>2
<1>6. \A i \in DOMAIN r.chain : ValidEntry(r.chain[i])
  <2> TAKE i \in DOMAIN r.chain
  <2>1. r.chain[i] = EntryFor(Standing(d, order[i])) BY <1>4
  <2>2. \A b : /\ EntryFor(b).role = RoleFor(b.model) /\ EntryFor(b).gear = "recorded"
               /\ EntryFor(b).sub = "none" /\ EntryFor(b).settings = Empty
    BY DEF EntryFor
  <2>3. \A m : RoleFor(m) \in Roles BY RolesAssumption DEF RoleFor, Roles
  <2>4. ValidSettings(Empty) BY NothingIn DEF ValidSettings
  <2> HIDE DEF r
  <2> QED BY <2>1, <2>2, <2>3, <2>4, NameIs DEF ValidEntry, ValidSubstitute
<1>7. \A i \in DOMAIN r.switches : ValidFootswitch(r.switches[i])
  <2>1. r.switches = FootswitchesOf(d) BY LiftHas
  <2> HIDE DEF r
  <2>2. CASE "footswitch" \notin DOMAIN d.tone
    BY <2>1, <2>2, NothingIn DEF FootswitchesOf
  <2>3. CASE "footswitch" \in DOMAIN d.tone
    <3> DEFINE held == d.tone["footswitch"]
    <3>1. PICK k \in Nat : \E seat \in [1 .. k -> DOMAIN held] :
            r.switches = [i \in 1 .. k |-> Printed(held, seat[i])]
      BY <2>1, <2>3, FootswitchesOfIs DEF ListsAll
    <3>2. PICK seat \in [1 .. k -> DOMAIN held] :
            r.switches = [i \in 1 .. k |-> Printed(held, seat[i])]
      BY <3>1
    <3>3. \A a \in DOMAIN held : held[a].switch \in Nat \ {0}
      BY <2>3 DEF IsPreset, IsTone, IsSwitch
    <3> HIDE DEF held
    <3>4. \A a \in DOMAIN held : ValidFootswitch(Printed(held, a))
      BY <3>3 DEF ValidFootswitch, Printed
    <3> QED BY <3>2, <3>4
  <2> QED BY <2>2, <2>3
<1>8. /\ Says(r.name) /\ r.instrument \in Instruments
      /\ r.terms = Empty /\ r.technique = "none"
      /\ r.controllers = Empty /\ r.sections = Empty
  BY LiftHas, NameIs
<1> HIDE DEF r
<1> QED BY <1>5, <1>6, <1>7, <1>8, NothingIn DEF ValidRig, ValidTechnique, r

\* What it claims beside its chain is so.
LEMMA LiftIsChecked ==
  ASSUME NEW d, IsPreset(d), NEW c
  PROVE  Check(Lift(d), c)
<1> DEFINE r == Lift(d)
<1>1. r.target = Device /\ r.controllers = Empty /\ r.switches = FootswitchesOf(d)
  BY LiftHas
<1> HIDE DEF r
<1>2. \A i \in DOMAIN r.switches : r.switches[i].led \in {"none"} \cup ToSet(Colours)
  <2>1. CASE "footswitch" \notin DOMAIN d.tone
    BY <1>1, <2>1, NothingIn DEF FootswitchesOf
  <2>2. CASE "footswitch" \in DOMAIN d.tone
    <3> DEFINE held == d.tone["footswitch"]
    <3>1. PICK k \in Nat : \E seat \in [1 .. k -> DOMAIN held] :
            r.switches = [i \in 1 .. k |-> Printed(held, seat[i])]
      BY <1>1, <2>2, FootswitchesOfIs DEF ListsAll
    <3>2. PICK seat \in [1 .. k -> DOMAIN held] :
            r.switches = [i \in 1 .. k |-> Printed(held, seat[i])]
      BY <3>1
    <3>3. \A a \in DOMAIN held : held[a].chosen \in -1 .. Len(Colours) - 1
      BY <2>2 DEF IsPreset, IsTone, IsSwitch
    <3> HIDE DEF held
    <3>4. \A a \in DOMAIN held : Printed(held, a).led \in {"none"} \cup ToSet(Colours)
      BY <3>3, ColourIs DEF Printed
    <3> QED BY <3>2, <3>4
  <2> QED BY <2>1, <2>2
<1> QED BY <1>1, <1>2, NothingIn DEF Check, CheckTarget, CheckFootswitches,
                                     CheckControllers, r

\* What of a preset's tone a rig has no field for.
Kept(d) ==
  IF FootswitchesOf(d) = Empty THEN d.tone ELSE Without(d.tone, {"footswitch"})

\* What the rig has no field for, and its snapshots, are the preset's again.
LEMMA RestoredIs ==
  ASSUME NEW d, IsPreset(d), NEW x, IsDocument(x)
  PROVE  RestoreSnapshots(Restore(x, Lift(d)), Lift(d)) =
           [name |-> d.name, device |-> d.device, meta |-> d.meta, blocks |-> x.blocks,
            routing |-> d.routing, snapshots |-> d.snapshots, tone |-> Kept(d)]
<1> DEFINE r == Lift(d)
           sw == FootswitchesOf(d)
           modelled == IF sw = Empty THEN {} ELSE {"footswitch"}
           tone == Without(d.tone, modelled)
           state == [id |-> d.device, name |-> d.name, meta |-> d.meta,
                     tone |-> tone, routing |-> d.routing]
           nothing == {f \in {"meta", "tone", "routing"} : state[f] = Empty}
<1>1. tone = Kept(d)
  <2>1. d.tone = [k \in DOMAIN d.tone |-> d.tone[k]] BY DEF IsPreset, IsTone, IsFcn
  <2>2. Without(d.tone, {}) = [k \in DOMAIN d.tone |-> d.tone[k]] BY DEF Without
  <2> QED BY <2>1, <2>2 DEF Kept
<1>2. d.meta # Empty BY DEF IsPreset
<1>3. r.device = Without(state, nothing)
  <2>1. r.device = DeviceState(d, modelled) BY LiftHas
  <2> QED BY <2>1 DEF DeviceState
<1> HIDE DEF tone
<1>4. /\ state["id"] = d.device /\ state["name"] = d.name /\ state["meta"] = d.meta
      /\ state["tone"] = tone /\ state["routing"] = d.routing
      /\ DOMAIN state = {"id", "name", "meta", "tone", "routing"}
  OBVIOUS
<1> HIDE DEF state
<1>5. /\ DOMAIN r.device = {"id", "name", "meta", "tone", "routing"} \ nothing
      /\ \A f \in DOMAIN r.device : r.device[f] = state[f]
  BY <1>3, <1>4 DEF Without
<1>6. /\ {"id", "name", "meta"} \subseteq DOMAIN r.device
      /\ "tone" \notin DOMAIN r.device => tone = Empty
      /\ "routing" \notin DOMAIN r.device => d.routing = Empty
  BY <1>2, <1>4, <1>5
<1> HIDE DEF nothing, r
<1>7. \A y : /\ Carried(r.device, "id", y) = d.device
             /\ Carried(r.device, "meta", y) = d.meta
             /\ Carried(r.device, "name", y) = d.name
             /\ Carried(r.device, "tone", Empty) = tone
             /\ Carried(r.device, "routing", Empty) = d.routing
  BY <1>4, <1>5, <1>6 DEF Carried
<1>8. "device" \in r.has /\ ("snapshots" \in r.has <=> d.snapshots # Empty)
      /\ r.snapshots = d.snapshots
  BY LiftHas DEF r
<1> DEFINE y == Restore(x, r)
<1>9. y = [name |-> d.name, device |-> d.device, meta |-> d.meta, blocks |-> x.blocks,
           routing |-> d.routing, snapshots |-> Empty, tone |-> tone]
  BY <1>7, <1>8 DEF Restore, IsDocument
<1> HIDE DEF y
<1>10. RestoreSnapshots(y, r) =
         [name |-> d.name, device |-> d.device, meta |-> d.meta, blocks |-> x.blocks,
          routing |-> d.routing, snapshots |-> d.snapshots, tone |-> tone]
  BY <1>8, <1>9 DEF RestoreSnapshots
<1> QED BY <1>1, <1>10 DEF y, r

\* A document with what was restored in it takes nothing of a song or of a
\* sweep, and with its switches and its blocks is the preset.
LEMMA WrittenIs ==
  ASSUME NEW d, IsPreset(d), NEW b, NEW c,
         NEW y, y = [name |-> d.name, device |-> d.device, meta |-> d.meta, blocks |-> b,
                     routing |-> d.routing, snapshots |-> d.snapshots, tone |-> Kept(d)]
  PROVE  LET r == Lift(d)
         IN /\ Buildable(y, r, c) /\ Sections(y, r, c) = y
            /\ SetSpec(Footswitches(Controllers(y, r, c), r), NameOf(r), ChainOf(d)) = d
<1> DEFINE r == Lift(d)
           sw == FootswitchesOf(d)
<1>1. /\ "device" \in r.has /\ "sections" \notin r.has /\ "controllers" \notin r.has
      /\ r.switches = sw /\ ("switches" \in r.has <=> sw # Empty)
      /\ r.device = DeviceState(d, IF sw = Empty THEN {} ELSE {"footswitch"})
  BY LiftHas
<1>2. NameOf(r) = d.name
  <2>1. "name" \in DOMAIN r.device /\ r.device["name"] = d.name
    BY <1>1 DEF DeviceState, Without
  <2> QED BY <1>1, <2>1 DEF NameOf, Carried
<1> HIDE DEF r
<1>3. Buildable(y, r, c) /\ Sections(y, r, c) = y /\ Controllers(y, r, c) = y
  BY <1>1 DEF Buildable, Sections, Controllers
<1>4. Footswitches(y, r) = [y EXCEPT !.tone = d.tone]
  <2>1. CASE sw = Empty
    <3>1. Footswitches(y, r) = y BY <1>1, <2>1 DEF Footswitches
    <3>2. y.tone = d.tone BY <2>1 DEF Kept
    <3> QED BY <3>1, <3>2
  <2>2. CASE sw # Empty
    <3>1. y.tone = Without(d.tone, {"footswitch"}) BY <2>2 DEF Kept
    <3> QED BY <1>1, <2>2, <3>1, FootswitchesIs
  <2> QED BY <2>1, <2>2
<1> DEFINE z == [y EXCEPT !.tone = d.tone]
<1>5. z = [name |-> d.name, device |-> d.device, meta |-> d.meta, blocks |-> b,
           routing |-> d.routing, snapshots |-> d.snapshots, tone |-> d.tone]
  OBVIOUS
<1>8. Footswitches(y, r) = z BY <1>4
<1> HIDE DEF z
<1>6. SetSpec(z, d.name, ChainOf(d)) = [z EXCEPT !.name = d.name, !.blocks = d.blocks]
  BY SetSpecIs
<1>7. [z EXCEPT !.name = d.name, !.blocks = d.blocks] = d
  <2>1. [z EXCEPT !.name = d.name] = z BY <1>5
  <2>2. [z EXCEPT !.name = d.name, !.blocks = d.blocks] =
          [[z EXCEPT !.name = d.name] EXCEPT !.blocks = d.blocks]
    BY <1>5
  <2>3. [z EXCEPT !.blocks = d.blocks] =
         [name |-> d.name, device |-> d.device, meta |-> d.meta, blocks |-> d.blocks,
          routing |-> d.routing, snapshots |-> d.snapshots, tone |-> d.tone]
    BY <1>5
  <2> QED BY <2>1, <2>2, <2>3 DEF IsPreset
<1> QED BY <1>2, <1>3, <1>6, <1>7, <1>8 DEF r

-----------------------------------------------------------------------------
(* A preset on its way through a rig *)

\* The document once what it carries is restored.
Restored(d, b) ==
  [name |-> d.name, device |-> d.device, meta |-> d.meta, blocks |-> b,
   routing |-> d.routing, snapshots |-> d.snapshots, tone |-> Kept(d)]

Rebuilding(d) ==
  /\ pc \in {"load", "lower", "claims", "restore", "sections", "pedal", "save",
             "written", "refused"}
  /\ pc \in {"load", "lower", "claims", "restore", "sections", "pedal"} => rig = Lift(d)
  /\ pc \in {"load", "lower", "claims", "restore"} => IsDocument(doc)
  /\ pc \in {"claims", "restore", "sections", "pedal"} => chain = ChainOf(d)
  /\ pc \in {"sections", "pedal"} => \E b : doc = Restored(d, b)
  /\ pc = "save" => doc = d
  /\ pc = "written" => file = d
  /\ pc = "refused" => d.blocks = Empty

\* Every stage leaves the preset what it was (compile.Lift, compile.Lower).
LEMMA RebuildStep ==
  ASSUME NEW d, IsPreset(d), Rebuilding(d), [Next]_vars,
         task.kind \notin {"make", "compile"}
  PROVE  Rebuilding(d)' /\ task' = task
<1> DEFINE r == Lift(d)
<1>1. CASE UNCHANGED vars
  BY <1>1 DEF Rebuilding, vars, build, IsDocument
<1>2. CASE Load
  <2>1. pc = "load" /\ rig = r /\ IsDocument(doc) BY <1>2 DEF Load, Rebuilding
  <2>2. CASE ~ValidRig(rig)
    <3>1. d.blocks = Empty BY <2>1, <2>2, LiftIsValid
    <3>2. pc' = "refused" /\ task' = task BY <1>2, <2>2 DEF Load, Refuse, Goto
    <3> QED BY <3>1, <3>2 DEF Rebuilding
  <2>3. CASE ValidRig(rig)
    <3>1. pc' = "lower" /\ task' = task /\ UNCHANGED build BY <1>2, <2>3 DEF Load, Goto
    <3> QED BY <2>1, <3>1 DEF Rebuilding, build, IsDocument
  <2> QED BY <2>2, <2>3
<1>3. CASE LowerChain
  <2>1. pc = "lower" /\ rig = r /\ IsDocument(doc) BY <1>3 DEF LowerChain, Rebuilding
  <2>2. /\ \A i \in DOMAIN rig.chain : Lowers(rig.chain[i], rig.instrument)
        /\ LoweredChain(rig) = ChainOf(d)
    BY <2>1, LoweredIs
  <2>3. pc' = "claims" /\ task' = task /\ chain' = ChainOf(d) /\ UNCHANGED <<rig, doc>>
    BY <1>3, <2>2 DEF LowerChain, Goto
  <2> QED BY <2>1, <2>3 DEF Rebuilding, IsDocument
<1>4. CASE CheckClaims
  <2>1. pc = "claims" /\ rig = r /\ IsDocument(doc) /\ chain = ChainOf(d)
    BY <1>4 DEF CheckClaims, Rebuilding
  <2>2. Check(rig, chain) BY <2>1, LiftIsChecked
  <2>3. pc' = "restore" /\ task' = task /\ UNCHANGED build
    BY <1>4, <2>2 DEF CheckClaims, Goto
  <2> QED BY <2>1, <2>3 DEF Rebuilding, build, IsDocument
<1>5. CASE RestoreState
  <2>1. pc = "restore" /\ rig = r /\ IsDocument(doc) /\ chain = ChainOf(d)
    BY <1>5 DEF RestoreState, Rebuilding
  <2>2. doc' = Restored(d, doc.blocks) BY <1>5, <2>1, RestoredIs DEF RestoreState, Restored
  <2>3. pc' = "sections" /\ task' = task /\ UNCHANGED <<rig, chain>>
    BY <1>5 DEF RestoreState, Goto
  <2> QED BY <2>1, <2>2, <2>3 DEF Rebuilding
<1>6. CASE WriteSections
  <2>1. pc = "sections" /\ rig = r /\ chain = ChainOf(d)
    BY <1>6 DEF WriteSections, Rebuilding
  <2>2. PICK b : doc = Restored(d, b) BY <1>6 DEF WriteSections, Rebuilding
  <2>3. Buildable(doc, rig, chain) /\ Sections(doc, rig, chain) = doc
    BY <2>1, <2>2, WrittenIs DEF Restored
  <2>4. pc' = "pedal" /\ task' = task /\ doc' = doc /\ UNCHANGED <<rig, chain>>
    BY <1>6, <2>3 DEF WriteSections, Goto
  <2> QED BY <2>1, <2>2, <2>4 DEF Rebuilding
<1>7. CASE WritePedal
  <2>1. pc = "pedal" /\ rig = r /\ chain = ChainOf(d)
    BY <1>7 DEF WritePedal, Rebuilding
  <2>2. PICK b : doc = Restored(d, b) BY <1>7 DEF WritePedal, Rebuilding
  <2>3. SetSpec(Footswitches(Controllers(doc, rig, chain), rig), NameOf(rig), chain) = d
    BY <2>1, <2>2, WrittenIs DEF Restored
  <2>4. pc' = "save" /\ task' = task /\ doc' = d
    BY <1>7, <2>3 DEF WritePedal, Goto
  <2> QED BY <2>4 DEF Rebuilding
<1>8. CASE Save
  BY <1>8 DEF Save, Goto, Rebuilding
<1>9. CASE \E t \in Templates : ReadBack(t)
  BY <1>9 DEF ReadBack
<1>10. CASE TakeEntry \/ MissCab \/ NoSuchGear \/ ImplyCab \/ FillIn \/ DemandMore
            \/ Settle \/ Say \/ FitChain \/ Judge
  BY <1>10 DEF Rebuilding, TakeEntry, MissCab, NoSuchGear, ImplyCab, FillIn, DemandMore,
               Settle, Say, FitChain, Judge
<1> QED BY <1>1, <1>2, <1>3, <1>4, <1>5, <1>6, <1>7, <1>8, <1>9, <1>10 DEF Next

-----------------------------------------------------------------------------
(* What a rig's gear resolves to *)

\* A model is its place in the catalog, counted from one.
LEMMA ModelsIs ==
  /\ Models = 1 .. Len(Catalog) /\ Len(Catalog) \in Nat
  /\ IsFiniteSet(Models) /\ Models \subseteq Nat \ {0}
<1>1. Len(Catalog) \in Nat /\ Models = 1 .. Len(Catalog)
  BY CatalogAssumption DEF Models
<1>2. IsFiniteSet(1 .. Len(Catalog)) BY <1>1, FS_Interval
<1> QED BY <1>1, <1>2

\* The closest of the models a name could mean is one of them, and what names
\* nothing is none (catalog.FindGear).
LEMMA FindGearIs ==
  ASSUME NEW gear, NEW category, NEW instrument
  PROVE  FindGear(gear, category, instrument) \in Models \cup {NoModel}
<1> DEFINE found == {m \in Models : Eligible(m, gear, category, instrument)}
           R == {p \in found \X found : Closer(p[1], p[2])}
           len == [m \in found |-> Block(m).length]
<1>1. /\ found \in SUBSET Models /\ IsFiniteSet(found)
      /\ \A m \in found : m \in Nat /\ len[m] \in Nat
  <2>1. found \in SUBSET Models OBVIOUS
  <2>2. IsFiniteSet(found)
    <3> HIDE DEF found
    <3> QED BY <2>1, ModelsIs, FS_Subset
  <2>3. \A m \in Models : Block(m).length \in Nat BY CatalogAssumption
  <2> QED BY <2>1, <2>2, <2>3, ModelsIs
<1>2. \A m, n \in found : <<m, n>> \in R <=> len[m] < len[n] \/ (len[m] = len[n] /\ m < n)
  BY DEF Closer
<1> HIDE DEF found, R, len
<1>3. TotalOn(found, R)
  <2>1. \A m \in found : <<m, m>> \notin R BY <1>1, <1>2
  <2>2. \A m, n \in found : m # n => <<m, n>> \in R \/ <<n, m>> \in R BY <1>1, <1>2
  <2>3. \A m, n, k \in found : <<m, n>> \in R /\ <<n, k>> \in R => <<m, k>> \in R
    BY <1>1, <1>2
  <2> QED BY <2>1, <2>2, <2>3 DEF TotalOn
<1>4. CASE found = {}
  BY <1>4 DEF FindGear, found
<1>5. CASE found # {}
  <2>1. PICK m \in found : \A n \in found \ {m} : <<m, n>> \in R
    BY <1>1, <1>3, <1>5, FirstIs
  <2>2. \E k \in found : \A n \in found \ {k} : Closer(k, n) BY <2>1 DEF R
  <2>3. FindGear(gear, category, instrument) =
          CHOOSE k \in found : \A n \in found \ {k} : Closer(k, n)
    BY <1>5 DEF FindGear, found
  <2>4. FindGear(gear, category, instrument) \in found BY <2>2, <2>3
  <2> QED BY <1>1, <2>4
<1> QED BY <1>4, <1>5

\* The model players reach for is one of the catalog's, or none.
LEMMA CommonestIs ==
  ASSUME NEW category, NEW instrument, Measured(instrument), NEW control
  PROVE  Commonest(category, instrument, control) \in Models \cup {NoModel}
<1> DEFINE picks == {m \in Models \cap DOMAIN Stats.uses :
                  /\ Block(m).category = category
                  /\ ~Block(m).userIR
                  /\ control = "any" \/ control \in DOMAIN Block(m).params
                  /\ Block(m).trusted
                  /\ Suits(m, instrument)
                  /\ DOMAIN Grammar(instrument).models = {}
                       \/ Uses(m, instrument) > 0}
           uses == [m \in picks |-> Uses(m, instrument)]
           R == {p \in picks \X picks :
                   \/ Uses(p[1], instrument) > Uses(p[2], instrument)
                   \/ Uses(p[1], instrument) = Uses(p[2], instrument) /\ p[1] < p[2]}
<1>1. /\ picks \in SUBSET Models /\ IsFiniteSet(picks)
      /\ \A m \in picks : m \in Nat /\ uses[m] \in Nat
  <2>1. picks \in SUBSET Models OBVIOUS
  <2>2. IsFiniteSet(picks)
    <3> HIDE DEF picks
    <3> QED BY <2>1, ModelsIs, FS_Subset
  <2>3. \A m \in DOMAIN Stats.uses : Uses(m, instrument) \in Nat
    <3>1. \A m \in DOMAIN Stats.uses : Stats.uses[m] \in Nat BY StatsAssumption
    <3>2. \A m \in DOMAIN Grammar(instrument).models : Grammar(instrument).models[m] \in Nat
      BY StatsAssumption DEF Grammar, Measured
    <3> QED BY <3>1, <3>2 DEF Uses
  <2>4. \A m \in picks : m \in DOMAIN Stats.uses OBVIOUS
  <2> HIDE DEF picks
  <2> QED BY <2>1, <2>2, <2>3, <2>4, ModelsIs
<1>2. \A m, n \in picks : <<m, n>> \in R <=> uses[m] > uses[n] \/ (uses[m] = uses[n] /\ m < n)
  <2> HIDE DEF picks
  <2> QED OBVIOUS
<1>0. picks = {} => Commonest(category, instrument, control) = NoModel
  BY DEF Commonest
<1>a. picks # {} => Commonest(category, instrument, control) =
          CHOOSE m \in picks : \A n \in picks \ {m} :
            \/ Uses(m, instrument) > Uses(n, instrument)
            \/ Uses(m, instrument) = Uses(n, instrument) /\ m < n
  BY DEF Commonest
<1> HIDE DEF picks, uses
<1>b. \A m, n \in picks : <<m, n>> \in R =>
            \/ Uses(m, instrument) > Uses(n, instrument)
            \/ Uses(m, instrument) = Uses(n, instrument) /\ m < n
  OBVIOUS
<1> HIDE DEF R
<1>3. TotalOn(picks, R)
  <2>1. \A m \in picks : <<m, m>> \notin R BY <1>1, <1>2
  <2>2. \A m, n \in picks : m # n => <<m, n>> \in R \/ <<n, m>> \in R BY <1>1, <1>2
  <2>3. \A m, n, k \in picks : <<m, n>> \in R /\ <<n, k>> \in R => <<m, k>> \in R
    BY <1>1, <1>2
  <2> QED BY <2>1, <2>2, <2>3 DEF TotalOn
<1>4. CASE picks = {} BY <1>0, <1>4
<1>5. CASE picks # {}
  <2>1. PICK m \in picks : \A n \in picks \ {m} : <<m, n>> \in R
    BY <1>1, <1>3, <1>5, FirstIs
  <2>2. \E k \in picks : \A n \in picks \ {k} :
            \/ Uses(k, instrument) > Uses(n, instrument)
            \/ Uses(k, instrument) = Uses(n, instrument) /\ k < n
    BY <2>1, <1>b
  <2>3. Commonest(category, instrument, control) \in picks BY <1>5, <1>a, <2>2
  <2> QED BY <1>1, <2>3
<1> QED BY <1>4, <1>5

\* Where a kind first stands among the models is a place among them, or none.
LEMMA IndexOfIs ==
  ASSUME NEW b \in Seq(Models), NEW category
  PROVE  IndexOf(b, category) \in 0 .. Len(b)
<1> DEFINE I == {i \in 1 .. Len(b) : Block(b[i]).category = category}
<1>1. IndexOf(b, category) = IF I # {} THEN Min(I) ELSE 0
  BY DEF IndexOf, SelectInSeq
<1>2. Len(b) \in Nat /\ \A i \in I : i \in 1 .. Len(b) OBVIOUS
<1> HIDE DEF I
<1>3. I # {} => Min(I) \in I
  <2>1. I \subseteq Nat BY <1>2
  <2> QED BY <2>1, MinIs
<1>4. CASE I = {} BY <1>1, <1>2, <1>4
<1>5. CASE I # {}
  <2>1. IndexOf(b, category) \in I BY <1>1, <1>3, <1>5
  <2> QED BY <1>2, <2>1
<1> QED BY <1>4, <1>5

\* A cabinet that is implied is the catalog's.
LEMMA ImpliedCabIs ==
  ASSUME NEW b \in Seq(Models)
  PROVE  ImpliedCab(b) \in Models \cup {NoModel}
<1> DEFINE I == {i \in 1 .. Len(b) : Block(b[i]).category = "amp"
                                      /\ Block(b[i]).cabLink \in Models}
           amp == SelectInSeq(b, LAMBDA m : /\ Block(m).category = "amp"
                                            /\ Block(m).cabLink \in Models)
<1>1. amp = IF I # {} THEN Min(I) ELSE 0
  BY DEF SelectInSeq
<1>2. ImpliedCab(b) = IF IndexOf(b, "cab") # 0 \/ amp = 0 THEN NoModel
                      ELSE Block(b[amp]).cabLink
  BY DEF ImpliedCab
<1>3. \A i \in I : Block(b[i]).cabLink \in Models /\ i \in Nat OBVIOUS
<1> HIDE DEF I, amp
<1>4. I # {} => Min(I) \in I
  <2>1. I \subseteq Nat BY <1>3
  <2> QED BY <2>1, MinIs
<1>5. amp # 0 => Block(b[amp]).cabLink \in Models
  <2> SUFFICES ASSUME amp # 0 PROVE Block(b[amp]).cabLink \in Models OBVIOUS
  <2>1. amp \in I BY <1>1, <1>4
  <2> QED BY <2>1, <1>3
<1> QED BY <1>2, <1>5

\* A model that is seated leaves a chain of models.
LEMMA SeatAnyIs ==
  ASSUME NEW b \in Seq(Models), NEW m \in Models \cup {NoModel}, NEW instrument
  PROVE  SeatAny(b, m, instrument) \in Seq(Models)
<1>1. CASE m = NoModel BY <1>1 DEF SeatAny
<1>2. CASE m # NoModel
  <2>1. m \in Models BY <1>2
  <2> DEFINE amp == IndexOf(b, "amp")
             i == IF amp = 0 THEN 1 ELSE amp
  <2>2. amp \in 0 .. Len(b) /\ Len(b) \in Nat BY IndexOfIs
  <2> HIDE DEF amp
  <2>3. i \in 1 .. Len(b) + 1 BY <2>2
  <2>4. InsertAt(b, i, m) \in Seq(Models)
    <3> HIDE DEF i
    <3>1. /\ i - 1 \in 0 .. Len(b)
          /\ SubSeq(b, 1, i - 1) \in Seq(Models) /\ SubSeq(b, i, Len(b)) \in Seq(Models)
      BY <2>2, <2>3, SubSeqProperties
    <3>2. <<m>> \in Seq(Models) BY <2>1
    <3>3. SubSeq(b, 1, i - 1) \o <<m>> \in Seq(Models) BY <3>1, <3>2, ConcatProperties
    <3> QED BY <3>1, <3>3, ConcatProperties DEF InsertAt
  <2>5. Append(b, m) \in Seq(Models) BY <2>1
  <2>6. Insert(b, m, BeforeAmp(instrument, Block(m).category)) \in {Append(b, m), InsertAt(b, i, m)}
    BY DEF Insert, amp
  <2>7. SeatAny(b, m, instrument) = Insert(b, m, BeforeAmp(instrument, Block(m).category))
    BY <1>2 DEF SeatAny, Seat
  <2> HIDE DEF i
  <2> QED BY <2>4, <2>5, <2>6, <2>7
<1> QED BY <1>1, <1>2

\* What the chain lacks is seated one kind after another, and leaves a chain of
\* models (compile.fill).
LEMMA FillIs ==
  ASSUME NEW b \in Seq(Models), NEW instrument
  PROVE  Fill(b, instrument) \in Seq(Models)
<1> DEFINE picks == Filling(b, instrument)
           N == Len(picks)
           D == Seq(Models)
           step == [n \in 1 .. N |-> [c \in D |-> SeatAny(c, picks[n], instrument)]]
           filled == CHOOSE f : f = [n \in 0 .. N |-> IF n = 0 THEN b
                                 ELSE SeatAny(f[n - 1], picks[n], instrument)]
<1>0. Fill(b, instrument) = filled[N] BY DEF Fill
<1>1. N \in Nat /\ DOMAIN picks = 1 .. N /\ \A n \in 1 .. N : picks[n] \in Models \cup {NoModel}
  <2>1. CASE ~Measured(instrument)
    <3>1. picks = <<>> BY <2>1 DEF Filling
    <3> QED BY <3>1
  <2>2. CASE Measured(instrument)
    <3> DEFINE kinds == SortedByShare(instrument)
               missing(c) == /\ IndexOf(b, c) = 0
                             /\ NearUniversal(Grammar(instrument).categories[c],
                                              Grammar(instrument).chains)
    <3>1. \E k \in Nat : DOMAIN kinds = 1 .. k
      <4> DEFINE held == ToSet(Categories) \cap DOMAIN Grammar(instrument).categories
      <4>1. IsFiniteSet(held)
        <5>1. IsFiniteSet(ToSet(Categories))
          <6>1. Categories \in Seq(ToSet(Categories)) BY DEF Categories, ToSet
          <6> QED BY <6>1, PlacesAre
        <5> HIDE DEF held
        <5>2. held \in SUBSET ToSet(Categories) BY DEF held
        <5> QED BY <5>1, <5>2, FS_Subset
      <4>2. Cardinality(held) \in Nat BY <4>1, FS_CardinalityType
      <4>3. DOMAIN kinds = 1 .. Cardinality(held)
        BY DEF SortedByShare, Ordered
      <4> QED BY <4>2, <4>3
    <3>2. PICK k \in Nat : DOMAIN kinds = 1 .. k BY <3>1
    <3>3. picks = [i \in DOMAIN kinds |->
             IF missing(kinds[i]) THEN Commonest(kinds[i], instrument, "any") ELSE NoModel]
      BY <2>2 DEF Filling
    <3> HIDE DEF kinds, missing, picks
    <3>4. \A i \in 1 .. k : picks[i] \in Models \cup {NoModel}
      BY <2>2, <3>2, <3>3, CommonestIs
    <3> QED BY <3>2, <3>3, <3>4
  <2> QED BY <2>1, <2>2
<1> HIDE DEF picks, filled
<1>2. Steps(step, N, D)
  <2> HIDE DEF N, D
  <2>1. \A n \in 1 .. N : [c \in D |-> SeatAny(c, picks[n], instrument)] \in [D -> D]
    BY <1>1, SeatAnyIs DEF D
  <2> QED BY <2>1 DEF Steps
<1>3. PICK f : IsRun(f, b, step, N, D)
  <2>1. b \in D /\ N \in Nat BY <1>1
  <2> HIDE DEF N, D, step
  <2> QED BY <1>2, <2>1, RunExists
<1>4. f = [n \in 0 .. N |-> IF n = 0 THEN b ELSE SeatAny(f[n - 1], picks[n], instrument)]
  <2>0. f \in [0 .. N -> D] /\ f[0] = b /\ \A n \in 1 .. N : f[n] = step[n][f[n - 1]]
    BY <1>3 DEF IsRun
  <2>1. \A n \in 1 .. N : step[n][f[n - 1]] = SeatAny(f[n - 1], picks[n], instrument)
    <3> HIDE DEF D, N
    <3>1. \A n \in 1 .. N : n - 1 \in 0 .. N BY <1>1
    <3> QED BY <2>0, <3>1
  <2> HIDE DEF step, N, D
  <2>2. \A n \in 0 .. N : n = 0 \/ n \in 1 .. N BY <1>1
  <2> QED BY <2>0, <2>1, <2>2
<1> HIDE DEF step, N, D
<1>5. filled = [n \in 0 .. N |-> IF n = 0 THEN b
                                 ELSE SeatAny(filled[n - 1], picks[n], instrument)]
  BY <1>4 DEF filled
<1>6. filled[0] \in D /\ \A n \in 1 .. N : filled[n - 1] \in D => filled[n] \in D
  <2>1. filled[0] = b BY <1>1, <1>5
  <2>2. \A n \in 1 .. N : n \in 0 .. N /\ n # 0 BY <1>1
  <2>3. \A n \in 1 .. N : filled[n] = SeatAny(filled[n - 1], picks[n], instrument)
    BY <1>5, <2>2
  <2> QED BY <1>1, <2>1, <2>3, SeatAnyIs DEF D
<1>7. filled[N] \in D
  <2>1. \A n \in 0 .. N : filled[n] \in D BY <1>1, <1>6, Throughout
  <2> QED BY <1>1, <2>1
<1> QED BY <1>0, <1>7 DEF D

\* What a word turns is looked for at places, and turned by so many halves.
LEMMA TurnsIs ==
  ASSUME NEW term \in DOMAIN Turns
  PROVE  /\ Turns[term].steps \in Int
         /\ \E n \in Nat : DOMAIN Turns[term].places = 1 .. n
<1> DEFINE Fine(t) == t.steps \in Int /\ \E n \in Nat : DOMAIN t.places = 1 .. n
<1>1. ASSUME NEW p, NEW k \in Int, NEW n \in Nat, DOMAIN p = 1 .. n
      PROVE  Fine(Turn(p, k))
  <2>1. Turn(p, k).steps = k /\ Turn(p, k).places = p BY DEF Turn
  <2> QED BY <1>1, <2>1
<1>2. Fine([Turn(Reverb, -2) EXCEPT !.absenceMeans = TRUE])
  <2> DEFINE t == [Turn(Reverb, -2) EXCEPT !.absenceMeans = TRUE]
  <2>1. t.steps = -2 /\ t.places = Reverb BY DEF Turn
  <2>2. DOMAIN Reverb = 1 .. 1 BY DEF Reverb
  <2> HIDE DEF t
  <2>3. Fine(t) BY <2>1, <2>2
  <2> QED BY <2>3 DEF t
<1>3. \A s : \A k \in Int : Fine(Turn(Amp(s), k))
  <2>1. \A s : DOMAIN Amp(s) = 1 .. 1 BY DEF Amp
  <2> HIDE DEF Fine
  <2> QED BY <1>1, <2>1
<1>4. \A s, b : \A k \in Int : Fine(Turn(AmpOrEQ(s, b), k))
  <2>1. \A s, b : DOMAIN AmpOrEQ(s, b) = 1 .. 2 BY DEF AmpOrEQ
  <2> HIDE DEF Fine
  <2> QED BY <1>1, <2>1
<1>5. \A k \in Int : Fine(Turn(Reverb, k)) /\ Fine(Turn(Comp, k))
  <2>1. DOMAIN Reverb = 1 .. 1 /\ DOMAIN Comp = 1 .. 1 BY DEF Reverb, Comp
  <2> HIDE DEF Fine
  <2> QED BY <1>1, <2>1
<1> HIDE DEF Fine
<1>7. \A row \in Turning : Fine(row[2])
  <2>1. \A s, b : Fine(Turn(AmpOrEQ(s, b), 2)) /\ Fine(Turn(AmpOrEQ(s, b), -2))
    BY <1>4
  <2>2. \A s : /\ Fine(Turn(Amp(s), 2)) /\ Fine(Turn(Amp(s), 1))
               /\ Fine(Turn(Amp(s), -1)) /\ Fine(Turn(Amp(s), -2))
    BY <1>3
  <2>3. /\ Fine(Turn(Reverb, 2)) /\ Fine(Turn(Comp, -2))
        /\ Fine(Turn(Comp, 1)) /\ Fine(Turn(Comp, 2))
    BY <1>5
  <2>4. \A row \in Turning :
          row[2] \in {Turn(AmpOrEQ("Mid", "MidGain"), 2), Turn(AmpOrEQ("Mid", "MidGain"), -2),
                     Turn(AmpOrEQ("Treble", "HighGain"), -2),
                     Turn(AmpOrEQ("Treble", "HighGain"), 2),
                     Turn(Amp("Drive"), -2), Turn(Amp("Drive"), -1), Turn(Amp("Drive"), 1),
                     Turn(Amp("Drive"), 2), Turn(Amp("Sag"), -2), Turn(Amp("Sag"), 2),
                     [Turn(Reverb, -2) EXCEPT !.absenceMeans = TRUE], Turn(Reverb, 2),
                     Turn(Comp, -2), Turn(Comp, 1), Turn(Comp, 2)}
    BY DEF Turning
  <2> QED BY <1>2, <2>1, <2>2, <2>3, <2>4, Zenon
<1>6. PICK row \in Turning : row[1] = term /\ Turns[term] = row[2]
  BY DEF Turns
<1> QED BY <1>6, <1>7 DEF Fine

\* What is seated for a claim leaves a chain of models.
LEMMA ClaimIs ==
  ASSUME NEW b \in Seq(Models), NEW instrument, Measured(instrument), NEW claim
  PROVE  Claim(b, claim, instrument) \in Seq(Models)
<1>1. Presence(b, claim, instrument) \in Models \cup {NoModel}
  BY CommonestIs DEF Presence
<1> QED BY <1>1, SeatAnyIs DEF Claim

\* What is seated for a word to land on leaves a chain of models.
LEMMA LandIs ==
  ASSUME NEW b \in Seq(Models), NEW instrument, Measured(instrument), NEW terms, NEW heard
  PROVE  Land(b, terms, heard, instrument) \in Seq(Models)
<1>1. ASSUME heard.term \in DOMAIN Turns
      PROVE  SomewhereFor(Turns[heard.term].places, instrument) \in Models \cup {NoModel}
  <2> DEFINE places == Turns[heard.term].places
             picks == [i \in DOMAIN places |->
                  IF places[i].category = "amp" THEN NoModel
                  ELSE Commonest(places[i].category, instrument, places[i].control)]
             I == {i \in 1 .. Len(picks) : picks[i] # NoModel}
  <2>1. PICK n \in Nat : DOMAIN places = 1 .. n BY <1>1, TurnsIs
  <2>2. SelectInSeq(picks, LAMBDA m : m # NoModel) = IF I # {} THEN Min(I) ELSE 0
    BY DEF SelectInSeq
  <2>3. SomewhereFor(places, instrument) =
          IF SelectInSeq(picks, LAMBDA m : m # NoModel) = 0 THEN NoModel
          ELSE picks[SelectInSeq(picks, LAMBDA m : m # NoModel)]
    BY DEF SomewhereFor
  <2> HIDE DEF places
  <2>4. DOMAIN picks = 1 .. n /\ Len(picks) = n BY <2>1
  <2>5. \A i \in 1 .. n : picks[i] \in Models \cup {NoModel}
    BY <2>1, CommonestIs
  <2> HIDE DEF picks
  <2>6. I # {} => Min(I) \in I
    <3>1. I \subseteq Nat BY <2>4
    <3> HIDE DEF I
    <3> QED BY <3>1, MinIs
  <2>7. I # {} => picks[Min(I)] \in Models \cup {NoModel}
    <3>1. \A i \in I : i \in 1 .. n BY <2>4
    <3> HIDE DEF I
    <3> QED BY <2>5, <2>6, <3>1
  <2> HIDE DEF I
  <2> QED BY <2>2, <2>3, <2>7 DEF places
<1>2. Landing(b, terms, heard.term, instrument) \in Models \cup {NoModel}
  BY <1>1 DEF Landing
<1> QED BY <1>2, SeatAnyIs DEF Land

\* What is seated after each claim in turn.
Seated(f, b, claims, instrument) ==
  /\ f[0] = b /\ Present(b, claims, instrument) = f[Len(claims)]
  /\ \A n \in 1 .. Len(claims) : f[n] = Claim(f[n - 1], claims[n], instrument)

\* Every claim is seated in turn (compile.demand).
LEMMA PresentIs ==
  ASSUME NEW b \in Seq(Models), NEW instrument, Measured(instrument),
         NEW claims, NEW N \in Nat, Len(claims) = N
  PROVE  /\ Present(b, claims, instrument) \in Seq(Models)
         /\ \E f : Seated(f, b, claims, instrument)
<1> DEFINE D == Seq(Models)
           step == [n \in 1 .. N |-> [c \in D |-> Claim(c, claims[n], instrument)]]
           present == CHOOSE f : f = [n \in 0 .. N |-> IF n = 0 THEN b
                                        ELSE Claim(f[n - 1], claims[n], instrument)]
<1>0. Present(b, claims, instrument) = present[N] BY DEF Present
<1> HIDE DEF present
<1>2. Steps(step, N, D)
  <2>1. \A n \in 1 .. N : [c \in D |-> Claim(c, claims[n], instrument)] \in [D -> D]
    BY ClaimIs
  <2> HIDE DEF D
  <2> QED BY <2>1 DEF Steps
<1>3. PICK f : IsRun(f, b, step, N, D)
  <2>1. b \in D /\ N \in Nat OBVIOUS
  <2> HIDE DEF D, step
  <2> QED BY <1>2, <2>1, RunExists
<1>4. f = [n \in 0 .. N |-> IF n = 0 THEN b ELSE Claim(f[n - 1], claims[n], instrument)]
  <2>0. f \in [0 .. N -> D] /\ f[0] = b /\ \A n \in 1 .. N : f[n] = step[n][f[n - 1]]
    BY <1>3 DEF IsRun
  <2>1. \A n \in 1 .. N : step[n][f[n - 1]] = Claim(f[n - 1], claims[n], instrument)
    <3> HIDE DEF D
    <3>1. \A n \in 1 .. N : n - 1 \in 0 .. N OBVIOUS
    <3> QED BY <2>0, <3>1
  <2> HIDE DEF step, D
  <2>2. \A n \in 0 .. N : n = 0 \/ n \in 1 .. N OBVIOUS
  <2> QED BY <2>0, <2>1, <2>2
<1> HIDE DEF step, D
<1>5. present = [n \in 0 .. N |-> IF n = 0 THEN b
                                  ELSE Claim(present[n - 1], claims[n], instrument)]
  BY <1>4 DEF present
<1>6. /\ present[0] = b
      /\ \A n \in 1 .. N : present[n] = Claim(present[n - 1], claims[n], instrument)
  <2>1. \A n \in 1 .. N : n \in 0 .. N /\ n # 0 OBVIOUS
  <2> QED BY <1>5, <2>1
<1>7. present[N] \in D
  <2>1. present[0] \in D /\ \A n \in 1 .. N : present[n - 1] \in D => present[n] \in D
    BY <1>6, ClaimIs DEF D
  <2>2. \A n \in 0 .. N : present[n] \in D BY <2>1, Throughout
  <2> QED BY <2>2
<1>8. Seated(present, b, claims, instrument) BY <1>0, <1>6 DEF Seated
<1> QED BY <1>0, <1>7, <1>8 DEF D

\* What the rig's claims and words ask for leaves a chain of models.
LEMMA DemandIs ==
  ASSUME NEW b \in Seq(Models), NEW instrument, NEW terms, terms \in Seq(ToSet(terms)),
         NEW technique
  PROVE  /\ Demand(b, terms, technique, instrument) \in Seq(Models)
         /\ Measured(instrument) =>
              \E f : /\ f[0] = Present(b, Claims(terms, technique), instrument)
                     /\ Demand(b, terms, technique, instrument) = f[Len(terms)]
                     /\ \A n \in 1 .. Len(terms) :
                          f[n] = Land(f[n - 1], terms, terms[n], instrument)
<1> DEFINE N == Len(terms)
           D == Seq(Models)
           base == Present(b, Claims(terms, technique), instrument)
           step == [n \in 1 .. N |-> [c \in D |-> Land(c, terms, terms[n], instrument)]]
           landed == CHOOSE f : f = [n \in 0 .. N |-> IF n = 0 THEN base
                                       ELSE Land(f[n - 1], terms, terms[n], instrument)]
<1>0. Demand(b, terms, technique, instrument) =
        IF ~Measured(instrument) THEN b ELSE landed[N]
  BY DEF Demand
<1>a. N \in Nat OBVIOUS
<1>b. SUFFICES ASSUME Measured(instrument)
               PROVE  /\ landed[N] \in D /\ landed[0] = base
                      /\ \A n \in 1 .. N :
                           landed[n] = Land(landed[n - 1], terms, terms[n], instrument)
  BY <1>0
<1>1. base \in D
  <2>1. Len(Claims(terms, technique)) = N + 1
    BY <1>a DEF Claims
  <2> HIDE DEF N
  <2>2. N + 1 \in Nat BY <1>a
  <2> QED BY <1>b, <2>1, <2>2, PresentIs
<1> HIDE DEF landed, base, N
<1>2. Steps(step, N, D)
  <2>1. \A n \in 1 .. N : [c \in D |-> Land(c, terms, terms[n], instrument)] \in [D -> D]
    BY <1>b, LandIs
  <2> HIDE DEF D
  <2> QED BY <2>1 DEF Steps
<1>3. PICK f : IsRun(f, base, step, N, D)
  <2> HIDE DEF D, step
  <2> QED BY <1>a, <1>1, <1>2, RunExists
<1>4. f = [n \in 0 .. N |-> IF n = 0 THEN base ELSE Land(f[n - 1], terms, terms[n], instrument)]
  <2>0. f \in [0 .. N -> D] /\ f[0] = base /\ \A n \in 1 .. N : f[n] = step[n][f[n - 1]]
    BY <1>3 DEF IsRun
  <2>1. \A n \in 1 .. N : step[n][f[n - 1]] = Land(f[n - 1], terms, terms[n], instrument)
    <3> HIDE DEF D
    <3>1. \A n \in 1 .. N : n - 1 \in 0 .. N BY <1>a
    <3> QED BY <2>0, <3>1
  <2> HIDE DEF step, D
  <2>2. \A n \in 0 .. N : n = 0 \/ n \in 1 .. N BY <1>a
  <2> QED BY <2>0, <2>1, <2>2
<1> HIDE DEF step, D
<1>5. landed = [n \in 0 .. N |-> IF n = 0 THEN base
                                 ELSE Land(landed[n - 1], terms, terms[n], instrument)]
  BY <1>4 DEF landed
<1>6. /\ landed[0] = base
      /\ \A n \in 1 .. N : landed[n] = Land(landed[n - 1], terms, terms[n], instrument)
  <2>1. \A n \in 1 .. N : n \in 0 .. N /\ n # 0 BY <1>a
  <2> QED BY <1>a, <1>5, <2>1
<1>7. landed[0] \in D /\ \A n \in 1 .. N : landed[n - 1] \in D => landed[n] \in D
  BY <1>b, <1>1, <1>6, LandIs DEF D
<1>8. \A n \in 0 .. N : landed[n] \in D BY <1>a, <1>7, Throughout
<1> QED BY <1>a, <1>6, <1>8

-----------------------------------------------------------------------------
(* What a chain's controls are set to *)

\* The settings a model can be given before the rig's own numbers.
Settable(m) == {q \in [Stated(m) -> Int] : IsWhole(m, q)}

\* What nobody said is what players agree on, or the default; a control counted
\* in wholes is at one.
LEMMA SettingsAre ==
  ASSUME NEW m \in Models
  PROVE  Settings(m) \in Settable(m) /\ IsWhole(m, Defaults(m))
<1> DEFINE P == Block(m).params
<1>1. \A key \in DOMAIN P : /\ P[key].default \in Int /\ P[key].min \in Int /\ P[key].max \in Int
                            /\ P[key].kind = "int" => Round(P[key].default) = P[key].default
  BY CatalogAssumption
<1>2. \A key : Agreed(m, key) => Stats.params[<<m, key>>].median \in Int
  <2> TAKE key
  <2>1. Agreed(m, key) => <<m, key>> \in DOMAIN Stats.params BY DEF Agreed
  <2> QED BY <2>1, StatsAssumption
<1>3. \A key \in DOMAIN P : /\ Settled(m, key) \in Int
                            /\ P[key].kind = "int" => Round(Settled(m, key)) = Settled(m, key)
  BY <1>1, <1>2, RoundIs DEF Settled
<1>4. Stated(m) \subseteq DOMAIN P BY DEF Stated
<1>5. Settings(m) = [key \in Stated(m) |-> Settled(m, key)] BY DEF Settings
<1>6. Defaults(m) = [key \in Stated(m) |-> P[key].default] BY DEF Defaults
<1> HIDE DEF P
<1>7. Settings(m) \in [Stated(m) -> Int] BY <1>3, <1>4, <1>5
<1>8. IsWhole(m, Settings(m)) BY <1>3, <1>4, <1>5 DEF IsWhole, IsFcn, P
<1>9. IsWhole(m, Defaults(m)) BY <1>1, <1>4, <1>6 DEF IsWhole, IsFcn, P
<1> QED BY <1>7, <1>8, <1>9 DEF Settable

\* How far a word moves a control, and how much of that it weighs, are numbers.
LEMMA StepIs ==
  ASSUME NEW m \in Models, NEW key \in DOMAIN Block(m).params
  PROVE  Step(m, key) \in Int
<1> DEFINE p == Block(m).params[key]
           spread == IF <<m, key>> \in DOMAIN Stats.params
                     THEN Stats.params[<<m, key>>].spread ELSE 0
           span == p.max - p.min
<1>1. p.min \in Int /\ p.max \in Int BY CatalogAssumption
<1>2. spread \in Int
  <2>1. <<m, key>> \in DOMAIN Stats.params => Stats.params[<<m, key>>].spread \in Int
    BY StatsAssumption
  <2> QED BY <2>1
<1>3. span \in Int BY <1>1
<1>4. Step(m, key) = IF spread = 0 THEN span \div 10
                     ELSE IF 4 * spread > span THEN span \div 4 ELSE spread
  BY DEF Step
<1> HIDE DEF p, spread, span
<1> QED BY <1>2, <1>3, <1>4

\* What is measured weighs a whole number, whatever it was measured against.
LEMMA WeightIs ==
  ASSUME NEW heard, IsHeard(heard)
  PROVE  WeightOf(heard) \in Int
<1> DEFINE I == {i \in 1 .. Len(heard.evidence) : heard.evidence[i].against # 0}
           told == SelectInSeq(heard.evidence, LAMBDA e : e.against # 0)
           e == heard.evidence[told]
           halves == (2 * Abs(e.measured - e.against)) \div Abs(e.against)
<1>1. told = IF I # {} THEN Min(I) ELSE 0 BY DEF SelectInSeq
<1>2. I \subseteq Nat OBVIOUS
<1>3. \A i \in I : /\ heard.evidence[i].measured \in Int /\ heard.evidence[i].against \in Int
                   /\ heard.evidence[i].against # 0
  BY DEF IsHeard, ToSet
<1>4. WeightOf(heard) =
        IF told = 0 \/ ~\E axis \in Measures : OnAxis(heard.term, axis) THEN 2
        ELSE IF halves > 2 THEN 2 ELSE halves
  BY Zenon DEF WeightOf
<1> HIDE DEF I, told
<1>5. CASE told = 0 BY <1>4, <1>5
<1>6. CASE told # 0
  <2>1. told \in I BY <1>1, <1>2, <1>6, MinIs
  <2>2. e.measured \in Int /\ e.against \in Int /\ e.against # 0 BY <1>3, <2>1
  <2> HIDE DEF e
  <2>3. Abs(e.measured - e.against) \in Int /\ Abs(e.against) \in Nat \ {0}
    BY <2>2 DEF Abs
  <2>4. halves \in Int BY <2>3
  <2> QED BY <1>4, <2>4
<1> QED BY <1>5, <1>6

\* A block where the resolved chain has it, before it is laid out.
BlockOf(m, params, dsp, pos, enabled, attrs, position) ==
  [model |-> m, params |-> params, dsp |-> dsp, pos |-> pos, enabled |-> enabled,
   attrs |-> attrs, position |-> position]
AtPlace(m, i, q) == BlockOf(m, q, 0, i - 1, TRUE, <<>>, NoPosition)

\* A knob that is turned leaves a control counted in wholes at one.
LEMMA ApplyIs ==
  ASSUME NEW m \in Models, NEW i, NEW q \in Settable(m), NEW key,
         NEW heard, IsHeard(heard), heard.term \in DOMAIN Turns
  PROVE  \E r \in Settable(m) : Apply(AtPlace(m, i, q), key, heard) = AtPlace(m, i, r)
<1> DEFINE b == AtPlace(m, i, q)
           p == Block(m).params[key]
           by == (Turns[heard.term].steps * WeightOf(heard) * Step(m, key)) \div 4
           r == [q EXCEPT ![key] = Clamp(q[key] + by, p)]
<1>1. Apply(b, key, heard) = IF p.kind # "float" THEN b
                             ELSE [b EXCEPT !.params[key] = Clamp(q[key] + by, p)]
  BY DEF Apply, AtPlace, BlockOf
<1>2. [b EXCEPT !.params[key] = Clamp(q[key] + by, p)] = AtPlace(m, i, r)
  <2> DEFINE v == Clamp(q[key] + by, p)
  <2> HIDE DEF v, p, by
  <2> DEFINE a == AtPlace(m, i, q)
             r0 == [q EXCEPT ![key] = v]
  <2>1. a.params = q BY DEF AtPlace, BlockOf
  <2>2. [a EXCEPT !.params[key] = v] = [a EXCEPT !.params = r0]
    <3> HIDE DEF a
    <3> QED BY <2>1
  <2> HIDE DEF r0
  <2>3. [a EXCEPT !.params = r0] = AtPlace(m, i, r0)
    <3>1. ASSUME NEW dsp, NEW pos, NEW enabled, NEW attrs, NEW position
          PROVE  [BlockOf(m, q, dsp, pos, enabled, attrs, position) EXCEPT !.params = r0] =
                 BlockOf(m, r0, dsp, pos, enabled, attrs, position)
      BY DEF BlockOf
    <3>2. PICK yes : yes = TRUE OBVIOUS
    <3>3. AtPlace(m, i, q) = BlockOf(m, q, 0, i - 1, yes, <<>>, NoPosition)
      BY <3>2 DEF AtPlace
    <3>4. AtPlace(m, i, r0) = BlockOf(m, r0, 0, i - 1, yes, <<>>, NoPosition)
      BY <3>2 DEF AtPlace
    <3> QED BY <3>1, <3>3, <3>4
  <2> QED BY <2>2, <2>3 DEF r0, v
<1>3. CASE p.kind # "float"
  BY <1>1, <1>3
<1>4. CASE p.kind = "float"
  <2>1. q \in [Stated(m) -> Int] /\ IsWhole(m, q) BY DEF Settable
  <2>2. r \in [Stated(m) -> Int]
    <3>1. CASE key \in Stated(m)
      <4>1. key \in DOMAIN Block(m).params BY <3>1 DEF Stated
      <4>2. p.min \in Int /\ p.max \in Int BY <4>1, CatalogAssumption
      <4>3. by \in Int
        <5>1. Step(m, key) \in Int BY <4>1, StepIs
        <5>2. WeightOf(heard) \in Int BY WeightIs
        <5>3. Turns[heard.term].steps \in Int BY TurnsIs
        <5>4. Turns[heard.term].steps * WeightOf(heard) * Step(m, key) \in Int
          BY <5>1, <5>2, <5>3
        <5> QED BY <5>4
      <4> HIDE DEF by, p
      <4>4. q[key] + by \in Int BY <2>1, <3>1, <4>3
      <4>5. Clamp(q[key] + by, p) \in Int BY <4>2, <4>4 DEF Clamp
      <4> QED BY <2>1, <3>1, <4>5
    <3>2. CASE key \notin Stated(m)
      <4>1. r = q BY <2>1, <3>2
      <4> QED BY <2>1, <4>1
    <3> QED BY <3>1, <3>2
  <2>3. \A k \in Stated(m) : k # key => r[k] = q[k] BY <2>1
  <2>4. \A k \in Stated(m) \cap DOMAIN Block(m).params :
          Block(m).params[k].kind = "int" => k # key
    BY <1>4
  <2> HIDE DEF r, p
  <2>5. IsFcn(r) BY <2>2 DEF IsFcn
  <2>6. IsWhole(m, r)
    <3>1. \A k \in DOMAIN r \cap DOMAIN Block(m).params :
            Block(m).params[k].kind = "int" => r[k] \in Int /\ Round(r[k]) = r[k]
      <4> TAKE k \in DOMAIN r \cap DOMAIN Block(m).params
      <4>1. k \in Stated(m) /\ k \in DOMAIN q BY <2>1, <2>2
      <4>2. Block(m).params[k].kind = "int" => r[k] = q[k] /\ q[k] \in Int /\ Round(q[k]) = q[k]
        BY <2>1, <2>3, <2>4, <4>1 DEF IsWhole
      <4> QED BY <4>2
    <3> QED BY <2>5, <3>1 DEF IsWhole
  <2>7. r \in Settable(m) BY <2>2, <2>6 DEF Settable
  <2> QED BY <1>1, <1>2, <1>4, <2>7 DEF r, p
<1> QED BY <1>3, <1>4

\* The chains so many models can be set to.
SetBlocks(n) ==
  UNION {{AtPlace(m, i, q) : i \in 1 .. n, q \in Settable(m)} : m \in Models}
SetChains(n) ==
  {c \in [1 .. n -> SetBlocks(n)] :
     \A i \in 1 .. n : \E m \in Models : \E q \in Settable(m) : c[i] = AtPlace(m, i, q)}

\* Fields of a block set down at its place in the chain.
LEMMA AtPlaceHas ==
  ASSUME NEW m, NEW i, NEW q
  PROVE  LET b == AtPlace(m, i, q)
         IN /\ b.model = m /\ b.params = q /\ b.dsp = 0 /\ b.pos = i - 1
            /\ b.position = NoPosition
            /\ b = BlockOf(b.model, b.params, b.dsp, b.pos, b.enabled, b.attrs, b.position)
BY DEF AtPlace, BlockOf

\* The models resolved, at what players agree on.
LEMMA SpecForIs ==
  ASSUME NEW b \in Seq(Models)
  PROVE  SpecFor(b) \in SetChains(Len(b)) /\ Len(b) \in Nat
<1> DEFINE n == Len(b)
           c == SpecFor(b)
<1>1. n \in Nat /\ DOMAIN b = 1 .. n OBVIOUS
<1>2. c = [i \in 1 .. n |-> AtPlace(b[i], i, Settings(b[i]))]
  BY <1>1 DEF SpecFor, AtPlace, BlockOf
<1>3. \A i \in 1 .. n : b[i] \in Models /\ Settings(b[i]) \in Settable(b[i])
  BY <1>1, SettingsAre
<1> HIDE DEF c, n
<1>4. \A i \in 1 .. n : AtPlace(b[i], i, Settings(b[i])) \in SetBlocks(n)
  BY <1>3 DEF SetBlocks
<1>5. c \in [1 .. n -> SetBlocks(n)] BY <1>2, <1>4
<1>6. \A i \in 1 .. n : \E m \in Models : \E q \in Settable(m) : c[i] = AtPlace(m, i, q)
  BY <1>2, <1>3
<1> QED BY <1>1, <1>5, <1>6 DEF SetChains, n, c

\* One word leaves such a chain.
LEMMA MovedIs ==
  ASSUME NEW n \in Nat, NEW c \in SetChains(n), NEW terms, NEW heard, IsHeard(heard)
  PROVE  Moved(c, terms, heard) \in SetChains(n)
<1> DEFINE to == Answered([i \in DOMAIN c |-> c[i].model], Turns[heard.term].places)
           d == [c EXCEPT ![to.at] = Apply(c[to.at], to.control, heard)]
<1>1. Moved(c, terms, heard) \in {c, d} /\ (heard.term \notin DOMAIN Turns => Moved(c, terms, heard) = c)
  BY DEF Moved
<1>2. SUFFICES ASSUME heard.term \in DOMAIN Turns PROVE d \in SetChains(n)
  BY <1>1
<1>3. c \in [1 .. n -> SetBlocks(n)]
  BY DEF SetChains
<1>4. \A i \in 1 .. n : \E m \in Models : \E q \in Settable(m) : c[i] = AtPlace(m, i, q)
  BY DEF SetChains
<1> HIDE DEF to
<1>5. \A i \in 1 .. n : \E m \in Models : \E q \in Settable(m) : d[i] = AtPlace(m, i, q)
  <2> TAKE i \in 1 .. n
  <2>1. PICK m \in Models : \E q \in Settable(m) : c[i] = AtPlace(m, i, q) BY <1>4
  <2>2. PICK q \in Settable(m) : c[i] = AtPlace(m, i, q) BY <2>1
  <2>3. CASE i = to.at
    <3>1. d[i] = Apply(c[i], to.control, heard) BY <1>3, <2>3
    <3>2. \E r \in Settable(m) : Apply(AtPlace(m, i, q), to.control, heard) = AtPlace(m, i, r)
      BY <1>2, ApplyIs
    <3> QED BY <2>2, <3>1, <3>2
  <2>4. CASE i # to.at
    <3>1. d[i] = c[i] BY <1>3, <2>4
    <3> QED BY <2>2, <3>1
  <2> QED BY <2>3, <2>4
<1>6. d = [i \in 1 .. n |-> d[i]] BY <1>3
<1> HIDE DEF d
<1>7. \A i \in 1 .. n : d[i] \in SetBlocks(n) BY <1>5 DEF SetBlocks
<1>8. d \in [1 .. n -> SetBlocks(n)] BY <1>6, <1>7
<1> QED BY <1>5, <1>8 DEF SetChains

\* So do all of them (compile.move).
LEMMA MoveIs ==
  ASSUME NEW n \in Nat, NEW c \in SetChains(n), NEW terms, terms \in Seq(ToSet(terms)),
         \A heard \in ToSet(terms) : IsHeard(heard)
  PROVE  /\ Move(c, terms) \in SetChains(n)
         /\ \E f : /\ f[0] = c /\ Move(c, terms) = f[Len(terms)]
                   /\ \A k \in 1 .. Len(terms) : f[k] = Moved(f[k - 1], terms, terms[k])
<1> DEFINE N == Len(terms)
           D == SetChains(n)
           step == [k \in 1 .. N |-> [x \in D |-> Moved(x, terms, terms[k])]]
           moved == CHOOSE f : f = [k \in 0 .. N |-> IF k = 0 THEN c
                                       ELSE Moved(f[k - 1], terms, terms[k])]
<1>0. Move(c, terms) = moved[N] BY DEF Move
<1>a. N \in Nat /\ \A k \in 1 .. N : IsHeard(terms[k])
  BY DEF ToSet
<1> HIDE DEF moved, N
<1>2. Steps(step, N, D)
  <2>1. \A k \in 1 .. N : [x \in D |-> Moved(x, terms, terms[k])] \in [D -> D]
    BY <1>a, MovedIs
  <2> HIDE DEF D
  <2> QED BY <2>1 DEF Steps
<1>3. PICK f : IsRun(f, c, step, N, D)
  <2>1. c \in D OBVIOUS
  <2> HIDE DEF D, step
  <2> QED BY <1>a, <1>2, <2>1, RunExists
<1>4. f = [k \in 0 .. N |-> IF k = 0 THEN c ELSE Moved(f[k - 1], terms, terms[k])]
  <2>0. f \in [0 .. N -> D] /\ f[0] = c /\ \A k \in 1 .. N : f[k] = step[k][f[k - 1]]
    BY <1>3 DEF IsRun
  <2>1. \A k \in 1 .. N : step[k][f[k - 1]] = Moved(f[k - 1], terms, terms[k])
    <3> HIDE DEF D
    <3>1. \A k \in 1 .. N : k - 1 \in 0 .. N BY <1>a
    <3> QED BY <2>0, <3>1
  <2> HIDE DEF step, D
  <2>2. \A k \in 0 .. N : k = 0 \/ k \in 1 .. N BY <1>a
  <2> QED BY <2>0, <2>1, <2>2
<1> HIDE DEF step, D
<1>5. moved = [k \in 0 .. N |-> IF k = 0 THEN c ELSE Moved(moved[k - 1], terms, terms[k])]
  BY <1>4 DEF moved
<1>6. /\ moved[0] = c
      /\ \A k \in 1 .. N : moved[k] = Moved(moved[k - 1], terms, terms[k])
  <2>1. \A k \in 1 .. N : k \in 0 .. N /\ k # 0 BY <1>a
  <2> QED BY <1>a, <1>5, <2>1
<1>7. moved[0] \in D /\ \A k \in 1 .. N : moved[k - 1] \in D => moved[k] \in D
  BY <1>a, <1>6, MovedIs DEF D
<1>8. \A k \in 0 .. N : moved[k] \in D BY <1>a, <1>7, Throughout
<1> QED BY <1>0, <1>a, <1>6, <1>8 DEF D, N

-----------------------------------------------------------------------------
(* A chain on its way to a device *)

\* A block of one.
IsLaid(b) ==
  /\ b = BlockOf(b.model, b.params, b.dsp, b.pos, b.enabled, b.attrs, b.position)
  /\ b.model # NoModel /\ IsWhole(b.model, b.params)
  /\ b.dsp \in Nat /\ b.pos \in Nat
  /\ b.position \in Nat \cup {NoPosition}

IsChain(c) == c \in Seq(ToSet(c)) /\ \A i \in DOMAIN c : IsLaid(c[i])

\* What a chain is to be of.
LEMMA ChainIs ==
  ASSUME NEW n \in Nat, NEW c, c = [i \in 1 .. n |-> c[i]], \A i \in 1 .. n : IsLaid(c[i])
  PROVE  IsChain(c) /\ DOMAIN c = 1 .. n /\ Len(c) = n
<1>1. DOMAIN c = 1 .. n OBVIOUS
<1>2. \A i \in 1 .. n : c[i] \in ToSet(c) BY <1>1 DEF ToSet
<1> QED BY <1>1, <1>2 DEF IsChain

\* A chain of blocks set down at their places is a chain.
LEMMA SetChainIs ==
  ASSUME NEW n \in Nat, NEW c \in SetChains(n)
  PROVE  IsChain(c)
<1>1. c = [i \in 1 .. n |-> c[i]] BY DEF SetChains
<1>2. \A i \in 1 .. n : IsLaid(c[i])
  <2> TAKE i \in 1 .. n
  <2>1. PICK m \in Models : \E q \in Settable(m) : c[i] = AtPlace(m, i, q) BY DEF SetChains
  <2>2. PICK q \in Settable(m) : c[i] = AtPlace(m, i, q) BY <2>1
  <2>3. m # NoModel BY ModelsIs DEF NoModel
  <2>4. IsWhole(m, q) BY DEF Settable
  <2>5. 0 \in Nat /\ i - 1 \in Nat OBVIOUS
  <2> QED BY <2>2, <2>3, <2>4, <2>5, AtPlaceHas DEF IsLaid
<1> QED BY <1>1, <1>2, ChainIs

\* A number of the rig's leaves a control counted in wholes at one.
LEMMA SetKnobsIs ==
  ASSUME NEW m \in Models, NEW params, IsWhole(m, params), NEW words, ValidSettings(words)
  PROVE  IsWhole(m, SetKnobs(params, m, words))
<1> DEFINE P == Block(m).params
           turned == {ControlFor(m, word) : word \in DOMAIN words} \ {"none"}
           word(key) == CHOOSE w \in DOMAIN words : ControlFor(m, w) = key
           out == SetKnobs(params, m, words)
<1>1. out = [key \in DOMAIN params \cup turned |->
                   IF key \in turned THEN Scale(P[key], words[word(key)]) ELSE params[key]]
  BY DEF SetKnobs
<1>2. \A key \in turned : words[word(key)] \in Int
  <2> TAKE key \in turned
  <2>1. \E w \in DOMAIN words : ControlFor(m, w) = key OBVIOUS
  <2>2. word(key) \in DOMAIN words BY <2>1
  <2> QED BY <2>2 DEF ValidSettings, KnobTurns
<1>3. \A key \in DOMAIN P : P[key].min \in Int /\ P[key].max \in Int
  BY CatalogAssumption
<1>4. ASSUME NEW key \in turned \cap DOMAIN P, P[key].kind = "int"
      PROVE  Scale(P[key], words[word(key)]) \in Int
             /\ Round(Scale(P[key], words[word(key)])) = Scale(P[key], words[word(key)])
  <2> DEFINE h == words[word(key)]
             p == P[key]
             v == p.min + (h * (p.max - p.min)) \div 2
  <2>1. h \in Int /\ p.min \in Int /\ p.max \in Int BY <1>2, <1>3
  <2>2. Scale(p, h) = Round(v) BY <1>4 DEF Scale
  <2> HIDE DEF h, p
  <2>3. h * (p.max - p.min) \in Int BY <2>1
  <2>4. v \in Int BY <2>1, <2>3
  <2> HIDE DEF v
  <2> QED BY <2>2, <2>4, RoundIs DEF h, p
<1>5. IsFcn(params)
      /\ \A key \in DOMAIN params \cap DOMAIN P :
           P[key].kind = "int" => params[key] \in Int /\ Round(params[key]) = params[key]
  BY DEF IsWhole
<1> HIDE DEF out, turned, word, P
<1>6. IsFcn(out) /\ DOMAIN out = DOMAIN params \cup turned BY <1>1 DEF IsFcn
<1>7. \A key \in DOMAIN out \cap DOMAIN P :
        P[key].kind = "int" => out[key] \in Int /\ Round(out[key]) = out[key]
  BY <1>1, <1>4, <1>5, <1>6
<1> QED BY <1>6, <1>7 DEF IsWhole, P, out

\* Every model of a chain is the catalog's.
Known(c) == \A i \in DOMAIN c : c[i].model \in Models

\* The rig's numbers leave a chain of the same models.
LEMMA SaidKnobsIs ==
  ASSUME NEW c, IsChain(c), Known(c), NEW words, \A i \in DOMAIN words : ValidSettings(words[i])
  PROVE  IsChain(SaidKnobs(c, words)) /\ Known(SaidKnobs(c, words))
<1> DEFINE n == Len(c)
           out == SaidKnobs(c, words)
<1>1. n \in Nat /\ DOMAIN c = 1 .. n BY DEF IsChain
<1>2. out = [i \in 1 .. n |->
         IF i \in DOMAIN words
         THEN [c[i] EXCEPT !.params = SetKnobs(c[i].params, c[i].model, words[i])]
         ELSE c[i]]
  BY <1>1 DEF SaidKnobs
<1> HIDE DEF n, out
<1>3. ASSUME NEW i \in 1 .. n
      PROVE  IsLaid(out[i]) /\ out[i].model \in Models
  <2>1. IsLaid(c[i]) /\ c[i].model \in Models BY <1>1 DEF IsChain, Known
  <2>2. CASE i \notin DOMAIN words
    <3>1. out[i] = c[i] BY <1>2, <2>2
    <3> QED BY <2>1, <3>1
  <2>3. CASE i \in DOMAIN words
    <3> DEFINE b == c[i]
               q == SetKnobs(b.params, b.model, words[i])
    <3>1. IsWhole(b.model, q) BY <2>1, <2>3, SetKnobsIs DEF IsLaid
    <3>2. out[i] = [b EXCEPT !.params = q] BY <1>2, <2>3
    <3> HIDE DEF b, q
    <3>3. b = BlockOf(b.model, b.params, b.dsp, b.pos, b.enabled, b.attrs, b.position)
      BY <2>1 DEF IsLaid, b
    <3>4. [b EXCEPT !.params = q] =
            BlockOf(b.model, q, b.dsp, b.pos, b.enabled, b.attrs, b.position)
      BY <3>3 DEF BlockOf
    <3>5. \A m, x, d, p, e, a, o :
            LET y == BlockOf(m, x, d, p, e, a, o)
            IN /\ y.model = m /\ y.params = x /\ y.dsp = d /\ y.pos = p /\ y.enabled = e
               /\ y.attrs = a /\ y.position = o
      BY DEF BlockOf
    <3> QED BY <2>1, <3>1, <3>2, <3>4, <3>5 DEF IsLaid, b
  <2> QED BY <2>2, <2>3
<1>4. out = [i \in 1 .. n |-> out[i]] BY <1>2
<1>5. IsChain(out) /\ DOMAIN out = 1 .. n
  BY <1>1, <1>3, <1>4, ChainIs
<1> QED BY <1>3, <1>5 DEF Known, out

\* Every entry of a rig's lowers to a block of a chain.
LEMMA LoweredChainIs ==
  ASSUME NEW r, r.chain \in Seq(ToSet(r.chain)),
         \A entry \in ToSet(r.chain) : IsGear(entry) /\ ValidSettings(entry.settings),
         \A i \in DOMAIN r.chain : Lowers(r.chain[i], r.instrument)
  PROVE  IsChain(LoweredChain(r))
<1> DEFINE n == Len(r.chain)
           out == LoweredChain(r)
<1>1. n \in Nat /\ DOMAIN r.chain = 1 .. n OBVIOUS
<1>2. out = [i \in 1 .. n |-> LoweredBlock(r.chain[i], i, r.instrument)]
  BY <1>1 DEF LoweredChain
<1> HIDE DEF n, out
<1>3. ASSUME NEW i \in 1 .. n PROVE IsLaid(out[i])
  <2> DEFINE entry == r.chain[i]
             m == ModelFor(entry, r.instrument)
             params == ParamsFor(entry, m)
             q == IF m \in Models THEN SetKnobs(params, m, entry.settings) ELSE params
             pos == IF entry.pos = NoPosition THEN i - 1 ELSE entry.pos
  <2>1. /\ IsGear(entry) /\ ValidSettings(entry.settings)
        /\ Lowers(entry, r.instrument)
    BY <1>1 DEF ToSet
  <2>2. m # NoModel BY <2>1 DEF Lowers
  <2>3. out[i] = BlockOf(m, q, entry.path, pos, entry.enabled, entry.attrs, entry.position)
    BY <1>2 DEF LoweredBlock, BlockOf
  <2>4. pos \in Nat /\ entry.path \in Nat /\ entry.position \in Nat \cup {NoPosition}
    BY <1>1, <2>1 DEF IsGear
  <2> HIDE DEF m, entry
  <2>5. IsWhole(m, params)
    <3>1. CASE entry.exact
      <4>1. params = [key \in DOMAIN entry.params |->
              IF /\ m \in Models
                 /\ key \in DOMAIN Block(m).params
                 /\ Block(m).params[key].kind = "int"
              THEN Round(entry.params[key]) ELSE entry.params[key]]
        BY <3>1 DEF ParamsFor
      <4>2. \A key \in DOMAIN entry.params : entry.params[key] \in Int
        BY <2>1 DEF IsGear
      <4> HIDE DEF params
      <4> QED BY <4>1, <4>2, RoundIs DEF IsWhole, IsFcn
    <3>2. CASE ~entry.exact
      <4>1. params = IF m \in Models THEN Defaults(m) ELSE Empty BY <3>2 DEF ParamsFor
      <4>2. m \in Models => IsWhole(m, Defaults(m)) BY SettingsAre
      <4>3. m \notin Models => IsWhole(m, Empty)
        <5>1. Empty = [x \in DOMAIN Empty |-> Empty[x]] BY DEF Empty
        <5> QED BY <5>1 DEF IsWhole, IsFcn
      <4> QED BY <4>1, <4>2, <4>3
    <3> QED BY <3>1, <3>2
  <2> HIDE DEF params
  <2>6. IsWhole(m, q) BY <2>1, <2>5, SetKnobsIs
  <2> HIDE DEF q, pos
  <2>7. \A x, d, p, e, a, o :
            LET y == BlockOf(m, x, d, p, e, a, o)
            IN /\ y.model = m /\ y.params = x /\ y.dsp = d /\ y.pos = p /\ y.enabled = e
               /\ y.attrs = a /\ y.position = o
    BY DEF BlockOf
  <2> QED BY <2>2, <2>3, <2>4, <2>6, <2>7 DEF IsLaid
<1>4. out = [i \in 1 .. n |-> out[i]] BY <1>2
<1> QED BY <1>1, <1>3, <1>4, ChainIs DEF out

-----------------------------------------------------------------------------
(* A chain laid over the device *)

Filled == [path : Nat, used : Int, dsp : Nat \cup {Nowhere}]

\* A block goes on some processor, or none.
LEMMA LaidIs ==
  ASSUME NEW s \in Filled, NEW cost \in Nat
  PROVE  Laid(s, cost) \in Filled
<1> DEFINE next == IF s.used + cost <= Limits.ChipCeiling THEN s
              ELSE IF cost <= Limits.ChipCeiling /\ s.path + 1 < Limits.Paths
                   THEN [s EXCEPT !.path = s.path + 1, !.used = 0]
              ELSE IF s.path + 1 < Limits.Paths
                   THEN [s EXCEPT !.path = Limits.Paths - 1, !.used = 0]
              ELSE s
<1>1. s.path \in Nat /\ s.used \in Int /\ s = [path |-> s.path, used |-> s.used, dsp |-> s.dsp]
      /\ s.dsp \in Nat \cup {Nowhere}
  BY DEF Filled
<1>2. next \in Filled
  <2>1. \A k \in Nat : [s EXCEPT !.path = k, !.used = 0] \in Filled
    <3> TAKE k \in Nat
    <3>1. [s EXCEPT !.path = k] \in Filled BY <1>1 DEF Filled
    <3>2. [s EXCEPT !.path = k, !.used = 0] = [[s EXCEPT !.path = k] EXCEPT !.used = 0]
      BY <1>1
    <3>3. \A t \in Filled : [t EXCEPT !.used = 0] \in Filled BY DEF Filled
    <3> QED BY <3>1, <3>2, <3>3
  <2>2. s.path + 1 \in Nat /\ Limits.Paths - 1 \in Nat BY <1>1, LimitsAssumption
  <2> QED BY <2>1, <2>2
<1>3. Laid(s, cost) = IF next.used + cost > Limits.ChipCeiling
                      THEN [next EXCEPT !.dsp = Nowhere]
                      ELSE [next EXCEPT !.used = next.used + cost, !.dsp = next.path]
  BY DEF Laid
<1> HIDE DEF next
<1>4. [next EXCEPT !.dsp = Nowhere] \in Filled BY <1>2 DEF Filled
<1>5. [next EXCEPT !.used = next.used + cost, !.dsp = next.path] \in Filled
  <2>1. next.used + cost \in Int /\ next.path \in Nat BY <1>2 DEF Filled
  <2> QED BY <1>2, <2>1 DEF Filled
<1> QED BY <1>3, <1>4, <1>5

\* A block moved to another processor or another place on it is a block.
LEMMA MovesAre ==
  ASSUME NEW b, IsLaid(b), NEW k \in Nat
  PROVE  /\ IsLaid([b EXCEPT !.dsp = k]) /\ IsLaid([b EXCEPT !.pos = k])
         /\ [b EXCEPT !.dsp = k].model = b.model /\ [b EXCEPT !.pos = k].model = b.model
         /\ [b EXCEPT !.pos = k].dsp = b.dsp /\ [b EXCEPT !.pos = k].pos = k
<1>1. b = BlockOf(b.model, b.params, b.dsp, b.pos, b.enabled, b.attrs, b.position)
  BY DEF IsLaid
<1>2. [b EXCEPT !.dsp = k] =
        BlockOf(b.model, b.params, k, b.pos, b.enabled, b.attrs, b.position)
  BY <1>1 DEF BlockOf
<1>3. [b EXCEPT !.pos = k] =
        BlockOf(b.model, b.params, b.dsp, k, b.enabled, b.attrs, b.position)
  BY <1>1 DEF BlockOf
<1>4. \A m, x, d, p, e, a, o :
            LET y == BlockOf(m, x, d, p, e, a, o)
            IN /\ y.model = m /\ y.params = x /\ y.dsp = d /\ y.pos = p /\ y.enabled = e
               /\ y.attrs = a /\ y.position = o
  BY DEF BlockOf
<1> QED BY <1>2, <1>3, <1>4 DEF IsLaid

\* On each processor the blocks stand one after another: no two at one place.
LEMMA RenumberIs ==
  ASSUME NEW c, IsChain(c)
  PROVE  LET f == Renumber(c)
         IN /\ IsChain(f) /\ DOMAIN f = DOMAIN c
            /\ \A i \in DOMAIN c : f[i].model = c[i].model
            /\ \A i, j \in DOMAIN c : Address(f[i]) = Address(f[j]) => i = j
<1> DEFINE n == Len(c)
           f == Renumber(c)
           ahead(i) == {j \in 1 .. i - 1 : c[j].dsp = c[i].dsp}
<1>1. n \in Nat /\ DOMAIN c = 1 .. n BY DEF IsChain
<1>2. f = [i \in 1 .. n |-> [c[i] EXCEPT !.pos = Cardinality(ahead(i))]]
  BY <1>1 DEF Renumber
<1>3. \A i \in 1 .. n : IsFiniteSet(ahead(i)) /\ Cardinality(ahead(i)) \in Nat
  <2> TAKE i \in 1 .. n
  <2>1. IsFiniteSet(1 .. i - 1) BY <1>1, FS_Interval
  <2>2. ahead(i) \in SUBSET (1 .. i - 1) OBVIOUS
  <2> HIDE DEF ahead
  <2> QED BY <2>1, <2>2, FS_Subset, FS_CardinalityType
<1> HIDE DEF n, f
<1>4. ASSUME NEW i \in 1 .. n, NEW j \in 1 .. n, i < j, c[i].dsp = c[j].dsp
      PROVE  Cardinality(ahead(i)) < Cardinality(ahead(j))
  <2>1. ahead(i) \in SUBSET ahead(j) BY <1>1, <1>4
  <2>2. i \in ahead(j) /\ i \notin ahead(i) BY <1>1, <1>4
  <2>3. ahead(i) # ahead(j) BY <2>2
  <2> HIDE DEF ahead
  <2> QED BY <1>3, <2>1, <2>3, FS_Subset
<1> HIDE DEF ahead
<1>5. \A i \in 1 .. n : /\ IsLaid(f[i]) /\ f[i].model = c[i].model
                        /\ f[i].dsp = c[i].dsp /\ f[i].pos = Cardinality(ahead(i))
  <2> TAKE i \in 1 .. n
  <2>1. IsLaid(c[i]) /\ Cardinality(ahead(i)) \in Nat BY <1>1, <1>3 DEF IsChain
  <2> QED BY <1>2, <2>1, MovesAre
<1>6. f = [i \in 1 .. n |-> f[i]] BY <1>2
<1>7. IsChain(f) /\ DOMAIN f = 1 .. n BY <1>1, <1>5, <1>6, ChainIs
<1>8. ASSUME NEW i \in 1 .. n, NEW j \in 1 .. n, Address(f[i]) = Address(f[j])
      PROVE  i = j
  <2>1. c[i].dsp = c[j].dsp /\ Cardinality(ahead(i)) = Cardinality(ahead(j))
    BY <1>5, <1>8 DEF Address
  <2>2. ~ (i < j) /\ ~ (j < i)
    <3>1. i < j => Cardinality(ahead(i)) < Cardinality(ahead(j)) BY <1>4, <2>1
    <3>2. j < i => Cardinality(ahead(j)) < Cardinality(ahead(i)) BY <1>4, <2>1
    <3> QED BY <1>3, <2>1, <3>1, <3>2
  <2> QED BY <1>1, <2>2
<1> QED BY <1>1, <1>5, <1>7, <1>8 DEF f

\* A chain laid over the processors is of the same models in the same order, no
\* two at one place (compile.Fit).
LEMMA FitIs ==
  ASSUME NEW c, IsChain(c), Known(c)
  PROVE  LET f == Fit(c)
         IN /\ IsChain(f) /\ DOMAIN f = DOMAIN c
            /\ \A i \in DOMAIN c : f[i].model = c[i].model
            /\ \A i, j \in DOMAIN c : Address(f[i]) = Address(f[j]) => i = j
<1> DEFINE N == Len(c)
           base == [path |-> 0, used |-> 0, dsp |-> Nowhere]
           step == [n \in 1 .. N |-> [s \in Filled |-> Laid(s, Cost(c[n].model))]]
           laid == CHOOSE f : f = [n \in 0 .. N |-> IF n = 0 THEN base
                                     ELSE Laid(f[n - 1], Cost(c[n].model))]
           d == [i \in DOMAIN c |-> IF laid[i].dsp = Nowhere THEN c[i]
                                    ELSE [c[i] EXCEPT !.dsp = laid[i].dsp]]
<1>0. Fit(c) = Renumber(d) BY DEF Fit
<1>1. N \in Nat /\ DOMAIN c = 1 .. N BY DEF IsChain
<1>2. base \in Filled BY DEF Filled
<1>3. \A n \in 1 .. N : Cost(c[n].model) \in Nat
  BY <1>1, CatalogAssumption DEF Known, Cost
<1> HIDE DEF N, base, laid
<1>4. Steps(step, N, Filled)
  <2>1. \A n \in 1 .. N : [s \in Filled |-> Laid(s, Cost(c[n].model))] \in [Filled -> Filled]
    BY <1>3, LaidIs
  <2> QED BY <2>1 DEF Steps
<1>5. PICK f : IsRun(f, base, step, N, Filled)
  <2> HIDE DEF step
  <2> QED BY <1>1, <1>2, <1>4, RunExists
<1>6. f = [n \in 0 .. N |-> IF n = 0 THEN base ELSE Laid(f[n - 1], Cost(c[n].model))]
  <2>0. f \in [0 .. N -> Filled] /\ f[0] = base /\ \A n \in 1 .. N : f[n] = step[n][f[n - 1]]
    BY <1>5 DEF IsRun
  <2>1. \A n \in 1 .. N : step[n][f[n - 1]] = Laid(f[n - 1], Cost(c[n].model))
    <3>1. \A n \in 1 .. N : n - 1 \in 0 .. N BY <1>1
    <3> QED BY <2>0, <3>1
  <2> HIDE DEF step
  <2>2. \A n \in 0 .. N : n = 0 \/ n \in 1 .. N BY <1>1
  <2> QED BY <2>0, <2>1, <2>2
<1> HIDE DEF step
<1>7. laid = [n \in 0 .. N |-> IF n = 0 THEN base ELSE Laid(laid[n - 1], Cost(c[n].model))]
  BY <1>6 DEF laid
<1>8. laid[0] \in Filled /\ \A n \in 1 .. N : laid[n - 1] \in Filled => laid[n] \in Filled
  <2>1. laid[0] = base BY <1>7, <1>1
  <2>2. \A n \in 1 .. N : n \in 0 .. N /\ n # 0 BY <1>1
  <2>3. \A n \in 1 .. N : laid[n] = Laid(laid[n - 1], Cost(c[n].model))
    BY <1>7, <2>2
  <2> QED BY <1>2, <1>3, <2>1, <2>3, LaidIs
<1>9. \A n \in 0 .. N : laid[n] \in Filled BY <1>1, <1>8, Throughout
<1>10. \A i \in 1 .. N : IsLaid(d[i]) /\ d[i].model = c[i].model
  <2> TAKE i \in 1 .. N
  <2>1. IsLaid(c[i]) BY <1>1 DEF IsChain
  <2>2. i \in 0 .. N BY <1>1
  <2>3. laid[i].dsp \in Nat \cup {Nowhere} BY <1>9, <2>2 DEF Filled
  <2> QED BY <1>1, <2>1, <2>3, MovesAre
<1>11. IsChain(d) /\ DOMAIN d = 1 .. N
  <2>1. d = [i \in 1 .. N |-> d[i]] BY <1>1
  <2> HIDE DEF d
  <2> QED BY <1>1, <1>10, <2>1, ChainIs
<1> HIDE DEF d
<1> QED BY <1>0, <1>1, <1>10, <1>11, RenumberIs

-----------------------------------------------------------------------------
(* Which block is at a place *)

\* What a function makes of finitely many things is finitely many.
LEMMA ImageIs ==
  ASSUME NEW S, IsFiniteSet(S), NEW f
  PROVE  IsFiniteSet({f[x] : x \in S})
<1> DEFINE g == [x \in S |-> f[x]]
<1>1. g \in Surjection(S, {f[x] : x \in S}) BY DEF Surjection
<1> HIDE DEF g
<1> QED BY <1>1, FS_Surjection

\* The block looked up by its place is there, and there is none where none is
\* found.
LEMMA BlockAtIs ==
  ASSUME NEW c, IsChain(c), NEW path, NEW pos
  PROVE  LET k == BlockAt(c, path, pos)
         IN /\ k # 0 => k \in DOMAIN c /\ Address(c[k]) = <<path, pos>>
            /\ \A i \in DOMAIN c : Address(c[i]) = <<path, pos>> => k # 0
<1> DEFINE I == {i \in 1 .. Len(c) : c[i].dsp = path /\ c[i].pos = pos}
           k == BlockAt(c, path, pos)
<1>1. DOMAIN c = 1 .. Len(c) /\ Len(c) \in Nat BY DEF IsChain
<1>2. k = IF I # {} THEN Min(I) ELSE 0 BY DEF BlockAt, SelectInSeq
<1>3. I # {} => Min(I) \in I
  <2>1. I \subseteq Nat BY <1>1
  <2> HIDE DEF I
  <2> QED BY <2>1, MinIs
<1>4. \A i \in DOMAIN c : i \in I <=> Address(c[i]) = <<path, pos>>
  BY <1>1 DEF Address
<1>5. \A i \in I : i \in DOMAIN c /\ i # 0 BY <1>1
<1> HIDE DEF I, k
<1>6. k # 0 => k \in DOMAIN c /\ Address(c[k]) = <<path, pos>>
  BY <1>2, <1>3, <1>4, <1>5
<1>7. \A i \in DOMAIN c : Address(c[i]) = <<path, pos>> => k # 0
  BY <1>2, <1>3, <1>4, <1>5
<1> QED BY <1>6, <1>7 DEF k

\* The last block at a place some block is at is one of the blocks there.
LEMMA LastAtIs ==
  ASSUME NEW c, IsChain(c), NEW a \in {Address(c[i]) : i \in DOMAIN c}
  PROVE  LastAt(c, a) \in DOMAIN c /\ Address(c[LastAt(c, a)]) = a
<1> DEFINE S == {i \in DOMAIN c : Address(c[i]) = a}
<1>1. DOMAIN c = 1 .. Len(c) /\ Len(c) \in Nat BY DEF IsChain
<1>2. S \subseteq Nat /\ S # {} /\ \A i \in S : i <= Len(c) BY <1>1
<1>3. Max(S) \in S
  <2> HIDE DEF S
  <2> QED BY <1>1, <1>2, MaxIs
<1> QED BY <1>3 DEF LastAt

\* The places of a chain are finitely many places of a device.
LEMMA AddressesAre ==
  ASSUME NEW c, IsChain(c)
  PROVE  /\ IsFiniteSet({Address(c[i]) : i \in DOMAIN c})
         /\ {Address(c[i]) : i \in DOMAIN c} \subseteq Nat \X Nat
<1>1. DOMAIN c = 1 .. Len(c) /\ Len(c) \in Nat BY DEF IsChain
<1> DEFINE f == [i \in DOMAIN c |-> Address(c[i])]
<1>2. IsFiniteSet(DOMAIN c) BY <1>1, FS_Interval
<1>3. IsFiniteSet({f[i] : i \in DOMAIN c})
  <2> HIDE DEF f
  <2> QED BY <1>2, ImageIs
<1>4. {f[i] : i \in DOMAIN c} = {Address(c[i]) : i \in DOMAIN c} OBVIOUS
<1>5. \A i \in DOMAIN c : Address(c[i]) \in Nat \X Nat
  BY DEF IsChain, IsLaid, Address
<1> QED BY <1>3, <1>4, <1>5

-----------------------------------------------------------------------------
(* The rig, its assignments moved by the fit *)

\* An assignment that follows its block is still one, and nothing in it but
\* the place is another's.
LEMMA RehomedIs ==
  ASSUME NEW b, IsChain(b), NEW a, IsChain(a), DOMAIN a = DOMAIN b
  PROVE  /\ \A c : IsController(c) =>
              /\ IsController(Rehomed(c, b, a))
              /\ Rehomed(c, b, a).number = c.number
              /\ Rehomed(c, b, a).parameter = c.parameter
         /\ \A fs : IsFootswitch(fs) =>
              /\ IsFootswitch(Rehomed(fs, b, a))
              /\ Rehomed(fs, b, a).switch = fs.switch
         /\ \A item : IsController(item) \/ IsFootswitch(item) =>
              LET k == BlockAt(b, item.path, item.block)
              IN k # 0 => /\ Rehomed(item, b, a).path = a[k].dsp
                          /\ Rehomed(item, b, a).block = a[k].pos
<1> DEFINE k(item) == BlockAt(b, item.path, item.block)
<1>0. \A item : k(item) # 0 => k(item) \in DOMAIN a BY BlockAtIs
<1>1. \A i \in DOMAIN a : a[i].dsp \in Nat /\ a[i].pos \in Nat BY DEF IsChain, IsLaid
<1>2. \A item : Rehomed(item, b, a) =
                  IF k(item) = 0 THEN item
                  ELSE [item EXCEPT !.path = a[k(item)].dsp, !.block = a[k(item)].pos]
  BY DEF Rehomed
<1> HIDE DEF k
<1>3. \A c, x, y : IsController(c) =>
        [c EXCEPT !.path = x, !.block = y] =
          [number |-> c.number, path |-> x, block |-> y, parameter |-> c.parameter,
           min |-> c.min, max |-> c.max]
  <2> TAKE c, x, y
  <2> HAVE IsController(c)
  <2>1. PICK n, p, q, r, lo, hi :
          c = [number |-> n, path |-> p, block |-> q, parameter |-> r, min |-> lo, max |-> hi]
    BY DEF IsController
  <2>2. [c EXCEPT !.path = x, !.block = y] = [[c EXCEPT !.path = x] EXCEPT !.block = y]
    BY <2>1
  <2> DEFINE u == [c EXCEPT !.path = x]
  <2>3. u = [number |-> n, path |-> x, block |-> q, parameter |-> r, min |-> lo, max |-> hi]
    BY <2>1
  <2>4. [c EXCEPT !.path = x, !.block = y] = [u EXCEPT !.block = y] BY <2>2
  <2> HIDE DEF u
  <2>5. [u EXCEPT !.block = y] =
          [number |-> n, path |-> x, block |-> y, parameter |-> r, min |-> lo, max |-> hi]
    BY <2>3
  <2>6. c.number = n /\ c.parameter = r /\ c.min = lo /\ c.max = hi BY <2>1
  <2> QED BY <2>4, <2>5, <2>6
<1>4. \A fs, x, y : IsFootswitch(fs) =>
        [fs EXCEPT !.path = x, !.block = y] =
          [switch |-> fs.switch, label |-> fs.label, path |-> x, block |-> y,
           led |-> fs.led]
  <2> TAKE fs, x, y
  <2> HAVE IsFootswitch(fs)
  <2>1. PICK n, p, q, r, l :
          fs = [switch |-> n, label |-> p, path |-> q, block |-> r, led |-> l]
    BY DEF IsFootswitch
  <2>2. [fs EXCEPT !.path = x, !.block = y] = [[fs EXCEPT !.path = x] EXCEPT !.block = y]
    BY <2>1
  <2> DEFINE u == [fs EXCEPT !.path = x]
  <2>3. u = [switch |-> n, label |-> p, path |-> x, block |-> r, led |-> l] BY <2>1
  <2>4. [fs EXCEPT !.path = x, !.block = y] = [u EXCEPT !.block = y] BY <2>2
  <2> HIDE DEF u
  <2>5. [u EXCEPT !.block = y] =
          [switch |-> n, label |-> p, path |-> x, block |-> y, led |-> l]
    BY <2>3
  <2>6. fs.switch = n /\ fs.label = p /\ fs.led = l BY <2>1
  <2> QED BY <2>4, <2>5, <2>6
<1>5. ASSUME NEW c, IsController(c)
      PROVE  /\ IsController(Rehomed(c, b, a))
             /\ Rehomed(c, b, a).number = c.number
             /\ Rehomed(c, b, a).parameter = c.parameter
             /\ k(c) # 0 => /\ Rehomed(c, b, a).path = a[k(c)].dsp
                            /\ Rehomed(c, b, a).block = a[k(c)].pos
  <2>1. CASE k(c) = 0 BY <1>2, <1>5, <2>1
  <2>2. CASE k(c) # 0
    <3>1. Rehomed(c, b, a) =
            [number |-> c.number, path |-> a[k(c)].dsp, block |-> a[k(c)].pos,
             parameter |-> c.parameter, min |-> c.min, max |-> c.max]
      BY <1>2, <1>3, <1>5, <2>2
    <3>2. a[k(c)].dsp \in Nat /\ a[k(c)].pos \in Nat BY <1>0, <1>1, <2>2
    <3> QED BY <3>1, <3>2 DEF IsController
  <2> QED BY <2>1, <2>2
<1>6. ASSUME NEW fs, IsFootswitch(fs)
      PROVE  /\ IsFootswitch(Rehomed(fs, b, a))
             /\ Rehomed(fs, b, a).switch = fs.switch
             /\ k(fs) # 0 => /\ Rehomed(fs, b, a).path = a[k(fs)].dsp
                             /\ Rehomed(fs, b, a).block = a[k(fs)].pos
  <2>1. CASE k(fs) = 0 BY <1>2, <1>6, <2>1
  <2>2. CASE k(fs) # 0
    <3>1. Rehomed(fs, b, a) =
            [switch |-> fs.switch, label |-> fs.label, path |-> a[k(fs)].dsp,
             block |-> a[k(fs)].pos, led |-> fs.led]
      BY <1>2, <1>4, <1>6, <2>2
    <3>2. a[k(fs)].dsp \in Nat /\ a[k(fs)].pos \in Nat BY <1>0, <1>1, <2>2
    <3>3. fs.switch \in Int BY <1>6 DEF IsFootswitch
    <3> QED BY <3>1, <3>2, <3>3 DEF IsFootswitch
  <2> QED BY <2>1, <2>2
<1> QED BY <1>5, <1>6 DEF k

\* What is asked of a rig's switches and gear, past the shape of its file.
Sound(r) ==
  /\ \A i \in DOMAIN r.switches : ValidFootswitch(r.switches[i])
  /\ \A i \in DOMAIN r.chain : ValidSettings(r.chain[i].settings)

\* A rig whose assignments followed the fit is a rig, and says nothing else
\* than it said.
LEMMA RefitIs ==
  ASSUME NEW r, IsRigFile(r), Sound(r),
         NEW b, IsChain(b), NEW a, IsChain(a), DOMAIN a = DOMAIN b
  PROVE  LET q == Refit(r, b, a)
         IN /\ IsRigFile(q) /\ Sound(q)
            /\ q.has = r.has /\ q.sections = r.sections /\ q.name = r.name
            /\ q.controllers = [i \in DOMAIN r.controllers |->
                                  Rehomed(r.controllers[i], b, a)]
            /\ q.switches = [i \in DOMAIN r.switches |-> Rehomed(r.switches[i], b, a)]
<1> DEFINE q == Refit(r, b, a)
           cs == [i \in DOMAIN r.controllers |-> Rehomed(r.controllers[i], b, a)]
           fss == [i \in DOMAIN r.switches |-> Rehomed(r.switches[i], b, a)]
<1>1. q = [r EXCEPT !.controllers = cs, !.switches = fss] BY DEF Refit
<1>2. /\ r.controllers \in Seq(ToSet(r.controllers))
      /\ r.switches \in Seq(ToSet(r.switches))
      /\ \A c \in ToSet(r.controllers) : IsController(c)
      /\ \A fs \in ToSet(r.switches) : IsFootswitch(fs)
  BY DEF IsRigFile
<1>3. /\ DOMAIN r.controllers = 1 .. Len(r.controllers) /\ Len(r.controllers) \in Nat
      /\ DOMAIN r.switches = 1 .. Len(r.switches) /\ Len(r.switches) \in Nat
  BY <1>2
<1>4. /\ \A i \in DOMAIN r.controllers : IsController(r.controllers[i])
      /\ \A i \in DOMAIN r.switches : IsFootswitch(r.switches[i])
  BY <1>2 DEF ToSet
<1>5. /\ cs \in Seq(ToSet(cs)) /\ \A c \in ToSet(cs) : IsController(c)
      /\ cs # Empty => r.controllers # Empty
  <2>1. \A i \in DOMAIN cs : cs[i] \in ToSet(cs) /\ IsController(cs[i])
    BY <1>4, RehomedIs DEF ToSet
  <2>2. \A c \in ToSet(cs) : \E i \in DOMAIN cs : c = cs[i] BY DEF ToSet
  <2>3. cs \in Seq(ToSet(cs)) BY <1>3, SeqIs
  <2>4. r.controllers = Empty => cs = Empty
    <3>1. r.controllers = Empty => DOMAIN r.controllers = {} BY DEF Empty
    <3> QED BY <3>1 DEF Empty
  <2> QED BY <2>1, <2>2, <2>3, <2>4
<1>6. /\ fss \in Seq(ToSet(fss)) /\ \A fs \in ToSet(fss) : IsFootswitch(fs)
      /\ fss # Empty => r.switches # Empty
      /\ \A i \in DOMAIN fss : ValidFootswitch(fss[i])
  <2>1. \A i \in DOMAIN fss : fss[i] \in ToSet(fss) /\ IsFootswitch(fss[i])
    BY <1>4, RehomedIs DEF ToSet
  <2>2. \A fs \in ToSet(fss) : \E i \in DOMAIN fss : fs = fss[i] BY DEF ToSet
  <2>3. fss \in Seq(ToSet(fss)) BY <1>3, SeqIs
  <2>4. r.switches = Empty => fss = Empty
    <3>1. r.switches = Empty => DOMAIN r.switches = {} BY DEF Empty
    <3> QED BY <3>1 DEF Empty
  <2>5. \A i \in DOMAIN fss : ValidFootswitch(fss[i])
    <3>1. \A i \in DOMAIN fss : fss[i].switch = r.switches[i].switch
      BY <1>4, RehomedIs
    <3> QED BY <3>1 DEF Sound, ValidFootswitch
  <2> QED BY <2>1, <2>2, <2>3, <2>4, <2>5
<1> HIDE DEF cs, fss, q
<1>7. q = [name |-> r.name, instrument |-> r.instrument, chain |-> r.chain,
           target |-> r.target, terms |-> r.terms, technique |-> r.technique,
           controllers |-> cs, sections |-> r.sections,
           switches |-> fss, snapshots |-> r.snapshots,
           device |-> r.device, has |-> r.has]
  <2>1. PICK n, i, c, t, w, k, x, s, y, z, v, h :
          r = [name |-> n, instrument |-> i, chain |-> c, target |-> t, terms |-> w,
               technique |-> k, controllers |-> x, sections |-> s, switches |-> y,
               snapshots |-> z, device |-> v, has |-> h]
    BY DEF IsRigFile
  <2> QED BY <1>1, <2>1
<1>8. /\ q.name = r.name /\ q.chain = r.chain /\ q.terms = r.terms
      /\ q.controllers = cs /\ q.sections = r.sections /\ q.switches = fss
      /\ q.snapshots = r.snapshots /\ q.device = r.device /\ q.has = r.has
      /\ q.instrument = r.instrument /\ q.target = r.target /\ q.technique = r.technique
  BY <1>7
<1>9. Sound(q) BY <1>6, <1>8 DEF Sound
<1>10. IsRigFile(q)
  <2>1. q = [name |-> q.name, instrument |-> q.instrument, chain |-> q.chain,
             target |-> q.target, terms |-> q.terms, technique |-> q.technique,
             controllers |-> q.controllers, sections |-> q.sections,
             switches |-> q.switches, snapshots |-> q.snapshots,
             device |-> q.device, has |-> q.has]
    BY <1>7
  <2>2. \A list \in {q.chain, q.terms, q.controllers, q.switches, q.sections, q.snapshots} :
          list \in Seq(ToSet(list))
    BY <1>5, <1>6, <1>8 DEF IsRigFile
  <2>3. /\ \A entry \in ToSet(q.chain) : IsGear(entry)
        /\ \A heard \in ToSet(q.terms) : IsHeard(heard)
        /\ \A c \in ToSet(q.controllers) : IsController(c)
        /\ \A fs \in ToSet(q.switches) : IsFootswitch(fs)
        /\ \A s \in ToSet(q.snapshots) : IsSnapshot(s)
        /\ "device" \in q.has => IsState(q.device)
        /\ q.controllers # Empty => "controllers" \in q.has
        /\ q.switches # Empty => "switches" \in q.has
        /\ q.sections # Empty => "sections" \in q.has
    BY <1>5, <1>6, <1>8 DEF IsRigFile
  <2> QED BY <2>1, <2>2, <2>3 DEF IsRigFile
<1> QED BY <1>8, <1>9, <1>10 DEF q, cs, fss

-----------------------------------------------------------------------------
(* A document as it is written *)

\* The document of these fields.
DocOf(n, v, m, b, r, s, t) ==
  [name |-> n, device |-> v, meta |-> m, blocks |-> b, routing |-> r, snapshots |-> s,
   tone |-> t]

\* A document of such fields is one a device could have written.
LEMMA DocIs ==
  ASSUME NEW n, NEW v, NEW m, NEW b, NEW r, NEW s, NEW t
  PROVE  /\ IsPreset(DocOf(n, v, m, b, r, s, t)) <=>
              /\ m # Empty
              /\ IsAddressed(b) /\ \A a \in DOMAIN b : IsStored(b[a])
              /\ s \in Seq(ToSet(s)) /\ \A e \in ToSet(s) : IsSnapshot(e)
              /\ IsTone(t)
         /\ DocOf(n, v, m, b, r, s, t).name = n /\ DocOf(n, v, m, b, r, s, t).device = v
         /\ DocOf(n, v, m, b, r, s, t).meta = m /\ DocOf(n, v, m, b, r, s, t).blocks = b
         /\ DocOf(n, v, m, b, r, s, t).routing = r
         /\ DocOf(n, v, m, b, r, s, t).snapshots = s /\ DocOf(n, v, m, b, r, s, t).tone = t
<1> DEFINE y == DocOf(n, v, m, b, r, s, t)
<1>1. /\ y.name = n /\ y.device = v /\ y.meta = m /\ y.blocks = b /\ y.routing = r
      /\ y.snapshots = s /\ y.tone = t
      /\ y = [name |-> n, device |-> v, meta |-> m, blocks |-> b, routing |-> r,
              snapshots |-> s, tone |-> t]
  BY DEF DocOf
<1> HIDE DEF y
<1> QED BY <1>1 DEF IsPreset, y

\* What a device wrote is a document of such fields.
LEMMA PresetIs ==
  ASSUME NEW d, IsPreset(d)
  PROVE  \E n, v, m, b, r, s, t : d = DocOf(n, v, m, b, r, s, t)
BY DEF IsPreset, DocOf

\* A document that takes a chain is one.
LEMMA SetSpecKeeps ==
  ASSUME NEW d, IsPreset(d), NEW c, IsChain(c), NEW name
  PROVE  LET e == SetSpec(d, name, c)
         IN /\ IsPreset(e) /\ e.snapshots = d.snapshots /\ e.tone = d.tone
            /\ DOMAIN e.blocks = {Address(c[i]) : i \in DOMAIN c}
            /\ \A a \in DOMAIN e.blocks : e.blocks[a].model = c[LastAt(c, a)].model
<1> DEFINE A == {Address(c[i]) : i \in DOMAIN c}
           x == [a \in A |-> Encoded(c[LastAt(c, a)])]
           e == SetSpec(d, name, c)
<1>1. IsFiniteSet(A) /\ A \subseteq Nat \X Nat BY AddressesAre
<1>2. \A a \in A : LastAt(c, a) \in DOMAIN c BY LastAtIs
<1>3. \A i \in DOMAIN c : IsStored(Encoded(c[i])) /\ Encoded(c[i]).model = c[i].model
  <2> TAKE i \in DOMAIN c
  <2>1. IsLaid(c[i]) BY DEF IsChain
  <2> DEFINE b == c[i]
             p == IF b.position = NoPosition THEN b.pos ELSE b.position
  <2>2. p \in Nat BY <2>1 DEF IsLaid
  <2>3. Encoded(b) = [model |-> b.model, params |-> b.params, enabled |-> b.enabled,
                      attrs |-> b.attrs, position |-> p]
    BY DEF Encoded
  <2>4. b.model # NoModel /\ IsWhole(b.model, b.params) BY <2>1 DEF IsLaid
  <2> HIDE DEF b, p
  <2>5. IsStored(Encoded(b)) /\ Encoded(b).model = b.model
    BY <2>2, <2>3, <2>4 DEF IsStored
  <2> QED BY <2>5 DEF b
<1> HIDE DEF A
<1>4. IsAddressed(x) /\ DOMAIN x = A /\ \A a \in DOMAIN x : IsStored(x[a])
  BY <1>1, <1>2, <1>3 DEF IsAddressed, IsFcn
<1>5. \A a \in A : x[a].model = c[LastAt(c, a)].model BY <1>2, <1>3
<1>6. e = [d EXCEPT !.name = name, !.blocks = x] BY DEF SetSpec, A
<1> HIDE DEF x, e
<1>7. PICK n, v, m, b, r, s, t : d = DocOf(n, v, m, b, r, s, t) BY PresetIs
<1>8. e = DocOf(name, v, m, x, r, s, t) /\ d.snapshots = s /\ d.tone = t
  BY <1>6, <1>7 DEF DocOf
<1>9. e.snapshots = d.snapshots /\ e.tone = d.tone /\ e.blocks = x BY <1>8, DocIs
<1>10. IsPreset(e) BY <1>4, <1>7, <1>8, DocIs
<1> QED BY <1>4, <1>5, <1>9, <1>10 DEF e, A

\* A document's snapshots are snapshots once sections are written over them.
LEMMA SectionsKeep ==
  ASSUME NEW d, IsPreset(d), NEW r, NEW c
  PROVE  IsPreset(Sections(d, r, c))
<1>1. CASE "sections" \notin r.has BY <1>1 DEF Sections
<1>2. CASE "sections" \in r.has
  <2> DEFINE s == d.snapshots
             x == [i \in DOMAIN s |->
                     IF i \in DOMAIN r.sections
                     THEN SectionEntry(s[i], r.sections[i], c) ELSE s[i]]
  <2>1. Sections(d, r, c) = [d EXCEPT !.snapshots = x] BY <1>2 DEF Sections
  <2>2. s \in Seq(ToSet(s)) /\ \A i \in DOMAIN s : IsSnapshot(s[i])
    BY DEF IsPreset, ToSet
  <2>3. \A t, section : IsSnapshot(t) => IsSnapshot(SectionEntry(t, section, c))
    <3> TAKE t, section
    <3> HAVE IsSnapshot(t)
    <3> DEFINE on == [a \in {Address(c[i]) : i \in DOMAIN c} |->
                        LET i == LastAt(c, a)
                        IN Engaged(section, RolesOf(c)[i], c[i].enabled)]
    <3>1. SectionEntry(t, section, c) =
            [t EXCEPT !.name = section.name, !.on = on, !.rest = SetUp @@ @]
      BY DEF SectionEntry
    <3> HIDE DEF on
    <3>2. PICK n, o, w, q : t = [name |-> n, on |-> o, wraps |-> w, rest |-> q]
      BY DEF IsSnapshot
    <3>3. SectionEntry(t, section, c) =
            [name |-> section.name, on |-> on, wraps |-> w, rest |-> SetUp @@ q]
      BY <3>1, <3>2
    <3> QED BY <3>3 DEF IsSnapshot
  <2>4. DOMAIN s = 1 .. Len(s) /\ Len(s) \in Nat BY <2>2
  <2>5. \A i \in DOMAIN s : IsSnapshot(x[i]) BY <2>2, <2>3
  <2>6. x = [i \in 1 .. Len(s) |-> x[i]] BY <2>4
  <2>7. DOMAIN x = DOMAIN s OBVIOUS
  <2> HIDE DEF x
  <2>8. x \in Seq(ToSet(x)) BY <2>4, <2>6, SeqIs
  <2>9. \A e \in ToSet(x) : IsSnapshot(e) BY <2>5, <2>7 DEF ToSet
  <2>10. PICK n, v, m, b, u, p, t : d = DocOf(n, v, m, b, u, p, t) BY PresetIs
  <2>11. Sections(d, r, c) = DocOf(n, v, m, b, u, x, t) BY <2>1, <2>10 DEF DocOf
  <2> QED BY <2>8, <2>9, <2>10, <2>11, DocIs
<1> QED BY <1>1, <1>2

\* A tone with one more thing in it is a tone, unless that is the switches.
LEMMA ToneWith ==
  ASSUME NEW tone, IsTone(tone), NEW x
  PROVE  /\ IsTone(With(tone, "controller", x)) /\ IsTone(Without(tone, {"footswitch"}))
         /\ IsAddressed(x) /\ (\A a \in DOMAIN x : IsSwitch(x[a]))
              => IsTone(With(Without(tone, {"footswitch"}), "footswitch", x))
<1>1. IsTone(With(tone, "controller", x))
  <2> DEFINE w == With(tone, "controller", x)
  <2>1. DOMAIN w = DOMAIN tone \cup {"controller"} /\ IsFcn(w) BY DEF With, IsFcn
  <2>2. "footswitch" # "controller" OBVIOUS
  <2>3. "footswitch" \in DOMAIN w =>
          "footswitch" \in DOMAIN tone /\ w["footswitch"] = tone["footswitch"]
    BY <2>1, <2>2 DEF With
  <2> HIDE DEF w
  <2>4. IsTone(w) BY <2>1, <2>3 DEF IsTone
  <2> QED BY <2>4 DEF w
<1>2. IsTone(Without(tone, {"footswitch"}))
  <2> DEFINE w == Without(tone, {"footswitch"})
  <2>1. IsFcn(w) /\ "footswitch" \notin DOMAIN w BY DEF Without, IsFcn
  <2> HIDE DEF w
  <2>2. IsTone(w) BY <2>1 DEF IsTone
  <2> QED BY <2>2 DEF w
<1>3. ASSUME IsAddressed(x), \A a \in DOMAIN x : IsSwitch(x[a])
      PROVE  IsTone(With(Without(tone, {"footswitch"}), "footswitch", x))
  <2> DEFINE w == With(Without(tone, {"footswitch"}), "footswitch", x)
  <2>1. IsFcn(w) /\ w["footswitch"] = x BY DEF With, IsFcn
  <2> HIDE DEF w
  <2>2. IsTone(w) BY <1>3, <2>1 DEF IsTone
  <2> QED BY <2>2 DEF w
<1> QED BY <1>1, <1>2, <1>3

\* A document is one once the controllers are written into it.
LEMMA ControllersKeep ==
  ASSUME NEW d, IsPreset(d), NEW r, NEW c
  PROVE  LET e == Controllers(d, r, c)
         IN IsPreset(e) /\ e.blocks = d.blocks /\ e.snapshots = d.snapshots
<1>1. CASE "controllers" \notin r.has BY <1>1 DEF Controllers
<1>2. CASE "controllers" \in r.has
  <2>1. PICK x : Controllers(d, r, c) = [d EXCEPT !.tone = With(d.tone, "controller", x)]
    BY <1>2 DEF Controllers
  <2>2. IsTone(With(d.tone, "controller", x)) BY ToneWith DEF IsPreset
  <2>3. PICK n, v, m, b, u, p, t : d = DocOf(n, v, m, b, u, p, t) BY PresetIs
  <2> DEFINE w == With(d.tone, "controller", x)
  <2> HIDE DEF w
  <2>4. Controllers(d, r, c) = DocOf(n, v, m, b, u, p, w) BY <2>1, <2>3 DEF DocOf, w
  <2> QED BY <2>2, <2>3, <2>4, DocIs DEF w
<1> QED BY <1>1, <1>2

\* A document is one once what is printed under the switches is written.
LEMMA FootswitchesKeep ==
  ASSUME NEW d, IsPreset(d), NEW r, IsRigFile(r), Sound(r)
  PROVE  LET e == Footswitches(d, r)
         IN IsPreset(e) /\ e.blocks = d.blocks /\ e.snapshots = d.snapshots
<1> DEFINE key(fs) == <<fs.path, fs.block>>
           placed == {i \in DOMAIN r.switches : r.switches[i].block # NoBlock}
           these(k) == {i \in placed : key(r.switches[i]) = k}
           last(k) == r.switches[Max(these(k))]
           K == {key(r.switches[i]) : i \in placed}
           x == [k \in K |-> FieldsOf(last(k))]
           pruned == Without(d.tone, {"footswitch"})
<1>1. CASE "switches" \notin r.has BY <1>1 DEF Footswitches
<1>2. CASE "switches" \in r.has
  <2>1. Footswitches(d, r) =
          [d EXCEPT !.tone = IF placed = {} THEN pruned ELSE With(pruned, "footswitch", x)]
    BY <1>2 DEF Footswitches
  <2>2. r.switches \in Seq(ToSet(r.switches)) /\ \A fs \in ToSet(r.switches) : IsFootswitch(fs)
    BY DEF IsRigFile
  <2>3. DOMAIN r.switches = 1 .. Len(r.switches) /\ Len(r.switches) \in Nat BY <2>2
  <2>4. \A i \in DOMAIN r.switches : IsFootswitch(r.switches[i]) /\ r.switches[i].switch >= 1
    BY <2>2 DEF ToSet, Sound, ValidFootswitch
  <2>5. IsFiniteSet(placed)
    <3>1. IsFiniteSet(1 .. Len(r.switches)) BY <2>3, FS_Interval
    <3> QED BY <2>3, <3>1, FS_Subset
  <2>6. IsFiniteSet(K)
    <3> DEFINE f == [i \in placed |-> key(r.switches[i])]
    <3>1. IsFiniteSet({f[i] : i \in placed})
      <4> HIDE DEF f, placed
      <4> QED BY <2>5, ImageIs
    <3>2. {f[i] : i \in placed} = K OBVIOUS
    <3> QED BY <3>1, <3>2
  <2>7. K \subseteq Nat \X Nat
    <3>1. \A i \in placed : r.switches[i].path \in Nat /\ r.switches[i].block \in Nat
      BY <2>4 DEF IsFootswitch
    <3> QED BY <3>1
  <2>8. \A k \in K : IsSwitch(FieldsOf(last(k)))
    <3> TAKE k \in K
    <3>1. these(k) \subseteq Nat /\ these(k) # {} /\ \A i \in these(k) : i <= Len(r.switches)
      BY <2>3
    <3>2. Max(these(k)) \in these(k)
      <4> HIDE DEF these
      <4> QED BY <2>3, <3>1, MaxIs
    <3>3. Max(these(k)) \in DOMAIN r.switches BY <3>2
    <3> DEFINE fs == last(k)
    <3>4. IsFootswitch(fs) /\ fs.switch >= 1 BY <2>4, <3>3
    <3> HIDE DEF fs
    <3>5. fs.switch \in Nat \ {0} BY <3>4 DEF IsFootswitch
    <3>6. ColourNumber(fs.led) \in -1 .. Len(Colours) - 1
      <4> DEFINE I == {i \in 1 .. Len(Colours) : Colours[i] = fs.led}
      <4>1. Len(Colours) \in Nat BY ColoursAssumption
      <4>2. ColourNumber(fs.led) = (IF I # {} THEN Min(I) ELSE 0) - 1
        BY DEF ColourNumber, SelectInSeq
      <4>3. I \subseteq 1 .. Len(Colours) OBVIOUS
      <4> HIDE DEF I
      <4>4. I # {} => Min(I) \in 1 .. Len(Colours)
        <5>1. I \subseteq Nat BY <4>1, <4>3
        <5> QED BY <4>3, <5>1, MinIs
      <4> QED BY <4>1, <4>2, <4>4
    <3>7. FieldsOf(fs) = [switch |-> fs.switch, label |-> fs.label,
                          chosen |-> ColourNumber(fs.led)]
      BY DEF FieldsOf
    <3>8. IsSwitch(FieldsOf(fs)) BY <3>5, <3>6, <3>7 DEF IsSwitch
    <3> QED BY <3>8 DEF fs
  <2>9. IsAddressed(x) /\ \A a \in DOMAIN x : IsSwitch(x[a])
    <3> HIDE DEF K, last
    <3> QED BY <2>6, <2>7, <2>8 DEF IsAddressed, IsFcn
  <2>10. IsTone(d.tone) BY DEF IsPreset
  <2> HIDE DEF placed, x
  <2>11. IsTone(pruned) /\ IsTone(With(pruned, "footswitch", x)) BY <2>9, <2>10, ToneWith
  <2> HIDE DEF pruned
  <2>12. PICK n, v, m, b, u, p, t : d = DocOf(n, v, m, b, u, p, t) BY PresetIs
  <2> DEFINE w == IF placed = {} THEN pruned ELSE With(pruned, "footswitch", x)
  <2>13. IsTone(w) BY <2>11
  <2> HIDE DEF w
  <2>14. Footswitches(d, r) = DocOf(n, v, m, b, u, p, w) BY <2>1, <2>12 DEF DocOf, w
  <2> QED BY <2>12, <2>13, <2>14, DocIs
<1> QED BY <1>1, <1>2

\* A document is one once a rig's own device state and snapshots are in it.
LEMMA RestoreKeeps ==
  ASSUME NEW d, IsPreset(d), NEW r, IsRigFile(r)
  PROVE  IsPreset(RestoreSnapshots(Restore(d, r), r))
<1> DEFINE e == Restore(d, r)
<1>1. IsPreset(e)
  <2>1. CASE "device" \notin r.has BY <2>1 DEF Restore
  <2>2. CASE "device" \in r.has
    <3> DEFINE s == r.device
    <3>1. IsState(s) BY <2>2 DEF IsRigFile
    <3>2. Carried(s, "meta", d.meta) # Empty BY <3>1 DEF Carried, IsState, IsPreset
    <3>3. IsTone(Carried(s, "tone", Empty))
      <4>1. IsTone(Empty)
        <5>1. DOMAIN Empty = {} /\ Empty = [x \in DOMAIN Empty |-> Empty[x]] BY DEF Empty
        <5> QED BY <5>1 DEF IsTone, IsFcn
      <4> QED BY <3>1, <4>1 DEF Carried, IsState
    <3>4. Empty \in Seq(ToSet(Empty)) /\ \A x \in ToSet(Empty) : IsSnapshot(x)
      BY DEF Empty, ToSet
    <3>5. PICK n, v, m, b, u, p, t : d = DocOf(n, v, m, b, u, p, t) BY PresetIs
    <3>6. e = DocOf(Carried(s, "name", n), Carried(s, "id", v), Carried(s, "meta", m), b,
                    Carried(s, "routing", Empty), Empty, Carried(s, "tone", Empty))
      BY <2>2, <3>5 DEF Restore, DocOf
    <3>7. d.meta = m BY <3>5, DocIs
    <3> QED BY <3>2, <3>3, <3>4, <3>5, <3>6, <3>7, DocIs
  <2> QED BY <2>1, <2>2
<1> HIDE DEF e
<1>2. IsPreset(RestoreSnapshots(e, r))
  <2>1. CASE "snapshots" \notin r.has BY <1>1, <2>1 DEF RestoreSnapshots
  <2>2. CASE "snapshots" \in r.has
    <3>1. r.snapshots \in Seq(ToSet(r.snapshots)) /\ \A s \in ToSet(r.snapshots) : IsSnapshot(s)
      BY DEF IsRigFile
    <3>2. RestoreSnapshots(e, r) = [e EXCEPT !.snapshots = r.snapshots]
      BY <2>2 DEF RestoreSnapshots
    <3>3. PICK n, v, m, b, u, p, t : e = DocOf(n, v, m, b, u, p, t) BY <1>1, PresetIs
    <3>4. RestoreSnapshots(e, r) = DocOf(n, v, m, b, u, r.snapshots, t)
      BY <3>2, <3>3 DEF DocOf
    <3> QED BY <1>1, <3>1, <3>3, <3>4, DocIs
  <2> QED BY <2>1, <2>2
<1> QED BY <1>2 DEF e

-----------------------------------------------------------------------------
(* A rig on its way to a preset *)

\* The stages at which there is a chain, and those a rig has been checked
\* before.
Laying == {"said", "claims", "fit", "validate", "restore", "sections", "pedal"}
Stages ==
  Laying \cup {"load", "refused", "entries", "fill", "demand", "settle", "lower", "save",
               "written"}

\* What a build holds while it makes a preset: a rig, a document, the models
\* resolved and what was said of each, and the chain they became.
Building ==
  /\ task.kind \in {"make", "compile"} /\ pc \in Stages
  /\ task.kind = "make" => pc \notin {"lower", "restore"}
  /\ IsRigFile(rig)
  /\ pc \notin {"load", "refused"} => Sound(rig)
  /\ IsPreset(doc)
  /\ at \in Nat \ {0}
  /\ blocks \in Seq(Models)
  /\ \A i \in DOMAIN said : ValidSettings(said[i])
  /\ said \in Seq(ToSet(said))
  /\ pc \in Laying => IsChain(chain)
  /\ pc \in {"said", "fit"} => Known(chain)
  /\ pc = "claims" /\ task.kind = "make" => Known(chain)
  /\ pc = "written" => file = doc

\* A document opened for a rig is one: the template, under the rig's name.
LEMMA OpenedIs ==
  ASSUME NEW d, IsPreset(d), NEW v, NEW n
  PROVE  IsPreset([d EXCEPT !.device = v, !.name = n])
         /\ IsDocument([d EXCEPT !.device = v, !.name = n])
<1>1. PICK a, b, m, k, r, s, t : d = DocOf(a, b, m, k, r, s, t) BY PresetIs
<1>2. [d EXCEPT !.device = v, !.name = n] = DocOf(n, v, m, k, r, s, t)
  <2> DEFINE u == [d EXCEPT !.device = v]
  <2>1. u = DocOf(a, v, m, k, r, s, t) BY <1>1 DEF DocOf
  <2>2. [d EXCEPT !.device = v, !.name = n] = [u EXCEPT !.name = n] BY <1>1 DEF DocOf
  <2> HIDE DEF u
  <2>3. [u EXCEPT !.name = n] = DocOf(n, v, m, k, r, s, t) BY <2>1 DEF DocOf
  <2> QED BY <2>2, <2>3
<1>3. IsDocument(DocOf(n, v, m, k, r, s, t)) BY DEF IsDocument, DocOf
<1> QED BY <1>1, <1>2, <1>3, DocIs

\* A sequence with one more thing said at its end.
LEMMA SaidMore ==
  ASSUME NEW s, s \in Seq(ToSet(s)), \A i \in DOMAIN s : ValidSettings(s[i]),
         NEW x, ValidSettings(x)
  PROVE  LET t == Append(s, x)
         IN t \in Seq(ToSet(t)) /\ \A i \in DOMAIN t : ValidSettings(t[i])
<1> DEFINE t == Append(s, x)
<1>1. DOMAIN s = 1 .. Len(s) /\ Len(s) \in Nat OBVIOUS
<1>2. \A i \in 1 .. Len(s) + 1 : t[i] = IF i = Len(s) + 1 THEN x ELSE s[i] OBVIOUS
<1>3. t = [i \in 1 .. Len(s) + 1 |-> t[i]] /\ Len(s) + 1 \in Nat
  <2>1. s \in Seq(ToSet(s) \cup {x}) BY <1>1
  <2>2. t \in Seq(ToSet(s) \cup {x}) /\ Len(t) = Len(s) + 1 BY <2>1
  <2> HIDE DEF t
  <2>3. t \in [1 .. Len(t) -> ToSet(s) \cup {x}] BY <2>2
  <2> QED BY <1>1, <2>2, <2>3
<1> HIDE DEF t
<1>4. t \in Seq(ToSet(t)) BY <1>3, SeqIs
<1>5. \A i \in 1 .. Len(s) + 1 : ValidSettings(t[i])
  <2> TAKE i \in 1 .. Len(s) + 1
  <2>1. i # Len(s) + 1 => i \in DOMAIN s BY <1>1
  <2> QED BY <1>2, <2>1
<1>6. DOMAIN t = 1 .. Len(s) + 1 BY <1>3
<1> QED BY <1>4, <1>5, <1>6 DEF t

\* Nothing said is said rightly.
LEMMA NothingSaid == ValidSettings(Empty)
<1>1. DOMAIN Empty = {} BY DEF Empty
<1> QED BY <1>1 DEF ValidSettings

\* A preset to be made starts from a rig that is well formed.
LEMMA BuildingInit ==
  ASSUME Init, task.kind # "rebuild"
  PROVE  Building
<1>1. task.kind \in {"make", "compile"} /\ rig \in Recipes /\ IsPreset(task.over)
  <2>1. CASE task \in {Make(r) : r \in Recipes}
    <3>1. PICK r \in Recipes : task = Make(r) BY <2>1
    <3>2. task.kind = "make" /\ task.rig = r /\ task.over = Blank BY <3>1 DEF Make
    <3> QED BY <3>2, BlankAssumption DEF Init, Start
  <2>2. CASE task \in {CompileOver(r, t) : r \in Recipes, t \in Templates}
    <3>1. PICK r \in Recipes, t \in Templates : task = CompileOver(r, t) BY <2>2
    <3>2. task.kind = "compile" /\ task.rig = r /\ task.over = t BY <3>1 DEF CompileOver
    <3> QED BY <3>2, BuildsAssumption DEF Init, Start
  <2>3. CASE task \in {Rebuild(d, t) : d \in Presets, t \in Templates}
    BY <2>3 DEF Rebuild
  <2> QED BY <2>1, <2>2, <2>3 DEF Init, Tasks
<1>2. IsRigFile(rig) BY <1>1, BuildsAssumption
<1>3. pc = "load" BY DEF Init, Start
<1>4. IsPreset(doc) BY <1>1, OpenedIs DEF Init, Start
<1>5. at = 1 /\ blocks = Empty /\ said = Empty BY DEF Init
<1>6. Empty \in Seq(Models) /\ Empty \in Seq(ToSet(Empty)) /\ DOMAIN Empty = {} BY DEF Empty
<1> QED BY <1>1, <1>2, <1>3, <1>4, <1>5, <1>6 DEF Building, Stages, Laying

\* What the resolve stages keep of what they work on.
LEMMA ResolveStep ==
  ASSUME Building, TakeEntry \/ MissCab \/ NoSuchGear \/ ImplyCab \/ FillIn \/ DemandMore
  PROVE  Building'
<1> USE DEF Stages, Laying
<1>1. IsRigFile(rig) /\ IsPreset(doc) /\ at \in Nat \ {0} /\ blocks \in Seq(Models)
      /\ said \in Seq(ToSet(said)) /\ \A i \in DOMAIN said : ValidSettings(said[i])
  BY DEF Building
<1>2. CASE TakeEntry
  <2> DEFINE m == IF Named # NoModel THEN Named ELSE StandIn
  <2>1. pc = "entries" /\ at <= Len(rig.chain) /\ Resolved(m) BY <1>2 DEF TakeEntry
  <2>2. m \in Models \cup {NoModel} BY FindGearIs DEF Named, StandIn
  <2> HIDE DEF m
  <2>3. /\ m # NoModel /\ blocks' = Append(blocks, m)
        /\ said' = Append(said, Entry.settings) /\ at' = at + 1
        /\ pc' = "entries" /\ task' = task /\ rig' = rig /\ doc' = doc
    BY <2>1 DEF Resolved, Goto
  <2>4. blocks' \in Seq(Models) BY <1>1, <2>2, <2>3
  <2>5. Sound(rig) BY <2>1 DEF Building
  <2>6. at \in DOMAIN rig.chain
    <3>1. rig.chain \in Seq(ToSet(rig.chain)) BY <1>1 DEF IsRigFile
    <3> QED BY <1>1, <2>1, <3>1
  <2>7. ValidSettings(Entry.settings) BY <2>5, <2>6 DEF Sound, Entry
  <2>8. said' \in Seq(ToSet(said')) /\ \A i \in DOMAIN said' : ValidSettings(said'[i])
    BY <1>1, <2>3, <2>7, SaidMore
  <2>9. at' \in Nat \ {0} BY <1>1, <2>3
  <2> QED BY <1>1, <2>3, <2>4, <2>5, <2>8, <2>9 DEF Building
<1>3. CASE MissCab
  <2>1. /\ pc = "entries" /\ at' = at + 1 /\ pc' = "entries" /\ task' = task
        /\ UNCHANGED <<rig, blocks, said, chain, doc>>
    BY <1>3 DEF MissCab, Goto
  <2>2. at' \in Nat \ {0} BY <1>1, <2>1
  <2> QED BY <2>1, <2>2 DEF Building
<1>4. CASE NoSuchGear
  BY <1>4 DEF NoSuchGear, Refuse, Goto, build, Building
<1>5. CASE ImplyCab
  <2> DEFINE cab == ImpliedCab(blocks)
  <2>1. cab \in Models \cup {NoModel} BY <1>1, ImpliedCabIs
  <2>2. pc = "entries" BY <1>5 DEF ImplyCab
  <2>3. CASE cab = NoModel /\ missed
    BY <1>5, <2>3 DEF ImplyCab, Refuse, Goto, build, Building
  <2>4. CASE ~ (cab = NoModel /\ missed)
    <3>1. /\ blocks' = IF cab = NoModel THEN blocks ELSE Append(blocks, cab)
          /\ said' = IF cab = NoModel THEN said ELSE Append(said, Empty)
          /\ pc' = "fill" /\ task' = task
          /\ UNCHANGED <<rig, at, chain, doc>>
      BY <1>5, <2>4 DEF ImplyCab, Goto
    <3> HIDE DEF cab
    <3>2. blocks' \in Seq(Models) BY <1>1, <2>1, <3>1
    <3>3. said' \in Seq(ToSet(said')) /\ \A i \in DOMAIN said' : ValidSettings(said'[i])
      BY <1>1, <3>1, SaidMore, NothingSaid
    <3> QED BY <2>2, <3>1, <3>2, <3>3 DEF Building
  <2> QED BY <2>3, <2>4
<1>6. CASE FillIn
  <2>1. /\ pc = "fill" /\ blocks' = Fill(blocks, rig.instrument)
        /\ pc' = "demand" /\ task' = task
        /\ UNCHANGED <<rig, at, said, chain, doc>>
    BY <1>6 DEF FillIn, Goto
  <2>2. blocks' \in Seq(Models) BY <1>1, <2>1, FillIs
  <2> QED BY <2>1, <2>2 DEF Building
<1>7. CASE DemandMore
  <2>1. /\ pc = "demand"
        /\ blocks' = Demand(blocks, rig.terms, rig.technique, rig.instrument)
        /\ pc' = "settle" /\ task' = task
        /\ UNCHANGED <<rig, at, said, chain, doc>>
    BY <1>7 DEF DemandMore, Goto
  <2>2. rig.terms \in Seq(ToSet(rig.terms)) BY <1>1 DEF IsRigFile
  <2>3. blocks' \in Seq(Models) BY <1>1, <2>1, <2>2, DemandIs
  <2> QED BY <2>1, <2>3 DEF Building
<1> QED BY <1>2, <1>3, <1>4, <1>5, <1>6, <1>7

\* What the stages that settle a chain keep of it.
LEMMA SettleStep ==
  ASSUME Building, Settle \/ Say \/ CheckClaims \/ FitChain \/ LowerChain
  PROVE  Building'
<1> USE DEF Stages, Laying
<1>1. IsRigFile(rig) /\ IsPreset(doc) /\ at \in Nat \ {0} /\ blocks \in Seq(Models)
      /\ said \in Seq(ToSet(said)) /\ \A i \in DOMAIN said : ValidSettings(said[i])
  BY DEF Building
<1>2. CASE Settle
  <2>1. /\ pc = "settle" /\ chain' = Move(SpecFor(blocks), rig.terms)
        /\ pc' = "said" /\ task' = task
        /\ UNCHANGED <<rig, at, blocks, said, doc>>
    BY <1>2 DEF Settle, Goto
  <2>2. rig.terms \in Seq(ToSet(rig.terms)) /\ \A heard \in ToSet(rig.terms) : IsHeard(heard)
    BY <1>1 DEF IsRigFile
  <2>3. chain' \in SetChains(Len(blocks)) /\ Len(blocks) \in Nat
    BY <1>1, <2>1, <2>2, SpecForIs, MoveIs
  <2>4. IsChain(chain') BY <2>3, SetChainIs
  <2>5. Known(chain')
    <3>1. DOMAIN chain' = 1 .. Len(blocks) BY <2>3 DEF SetChains
    <3>2. \A i \in 1 .. Len(blocks) :
            \E m \in Models : \E q \in Settable(m) : chain'[i] = AtPlace(m, i, q)
      BY <2>3 DEF SetChains
    <3> QED BY <3>1, <3>2, AtPlaceHas DEF Known
  <2> QED BY <2>1, <2>4, <2>5 DEF Building
<1>3. CASE Say
  <2>1. pc = "said" /\ IsChain(chain) /\ Known(chain) BY <1>3 DEF Say, Building
  <2>2. CASE ~SaidTurns(chain, said)
    BY <1>3, <2>1, <2>2 DEF Say, Refuse, Goto, build, Building
  <2>3. CASE SaidTurns(chain, said)
    <3>1. /\ chain' = SaidKnobs(chain, said) /\ pc' = "claims" /\ task' = task
          /\ UNCHANGED <<rig, at, blocks, said, doc>>
      BY <1>3, <2>3 DEF Say, Goto
    <3>2. IsChain(chain') /\ Known(chain') BY <1>1, <2>1, <3>1, SaidKnobsIs
    <3> QED BY <2>1, <3>1, <3>2 DEF Building
  <2> QED BY <2>2, <2>3
<1>4. CASE CheckClaims
  <2>1. pc = "claims" /\ IsChain(chain) BY <1>4 DEF CheckClaims, Building
  <2>2. CASE ~Check(rig, chain)
    BY <1>4, <2>1, <2>2 DEF CheckClaims, Refuse, Goto, build, Building
  <2>3. CASE Check(rig, chain)
    <3>1. /\ pc' = IF task.kind = "make" THEN "fit" ELSE "restore"
          /\ task' = task /\ UNCHANGED build
      BY <1>4, <2>3 DEF CheckClaims, Goto
    <3> QED BY <2>1, <3>1 DEF Building, build
  <2> QED BY <2>2, <2>3
<1>5. CASE FitChain
  <2>1. /\ pc = "fit" /\ chain' = Fit(chain) /\ rig' = Refit(rig, chain, chain')
        /\ pc' = "validate" /\ task' = task
        /\ UNCHANGED <<at, blocks, said, doc>>
    BY <1>5 DEF FitChain, Goto
  <2>2. IsChain(chain) /\ Known(chain) /\ Sound(rig) BY <2>1 DEF Building
  <2>3. IsChain(chain') /\ DOMAIN chain' = DOMAIN chain BY <2>1, <2>2, FitIs
  <2>4. IsRigFile(rig') /\ Sound(rig')
    <3> DEFINE c == chain'
    <3>1. rig' = Refit(rig, chain, c) /\ IsChain(c) /\ DOMAIN c = DOMAIN chain
      BY <2>1, <2>3
    <3> HIDE DEF c
    <3>2. IsRigFile(Refit(rig, chain, c)) /\ Sound(Refit(rig, chain, c))
      BY <1>1, <2>2, <3>1, RefitIs
    <3> QED BY <3>1, <3>2 DEF IsRigFile, Sound
  <2> QED BY <2>1, <2>3, <2>4 DEF Building
<1>6. CASE LowerChain
  <2>1. pc = "lower" BY <1>6 DEF LowerChain
  <2>2. CASE \E i \in DOMAIN rig.chain : ~Lowers(rig.chain[i], rig.instrument)
    BY <1>6, <2>1, <2>2 DEF LowerChain, Refuse, Goto, build, Building
  <2>3. CASE ~ \E i \in DOMAIN rig.chain : ~Lowers(rig.chain[i], rig.instrument)
    <3>1. /\ chain' = LoweredChain(rig) /\ pc' = "claims" /\ task' = task
          /\ UNCHANGED <<rig, at, blocks, said, doc>>
      BY <1>6, <2>3 DEF LowerChain, Goto
    <3>2. Sound(rig) BY <2>1 DEF Building
    <3>3. /\ rig.chain \in Seq(ToSet(rig.chain))
          /\ \A entry \in ToSet(rig.chain) : IsGear(entry)
      BY <1>1 DEF IsRigFile
    <3>4. \A entry \in ToSet(rig.chain) : IsGear(entry) /\ ValidSettings(entry.settings)
      BY <3>2, <3>3 DEF Sound, ToSet
    <3>5. IsChain(chain') BY <2>3, <3>1, <3>3, <3>4, LoweredChainIs
    <3> QED BY <2>1, <3>1, <3>5 DEF Building
  <2> QED BY <2>2, <2>3
<1> QED BY <1>2, <1>3, <1>4, <1>5, <1>6

\* What the stages that write a document keep of it.
LEMMA WriteStep ==
  ASSUME Building,
         Load \/ Judge \/ RestoreState \/ WriteSections \/ WritePedal \/ Save
  PROVE  Building'
<1> USE DEF Stages, Laying
<1>1. IsRigFile(rig) /\ IsPreset(doc) /\ at \in Nat \ {0} /\ blocks \in Seq(Models)
      /\ said \in Seq(ToSet(said)) /\ \A i \in DOMAIN said : ValidSettings(said[i])
  BY DEF Building
<1>2. CASE Load
  <2>1. pc = "load" BY <1>2 DEF Load
  <2>2. CASE ~ValidRig(rig)
    BY <1>2, <2>1, <2>2 DEF Load, Refuse, Goto, build, Building
  <2>3. CASE ValidRig(rig)
    <3>1. /\ pc' = IF task.kind = "make" THEN "entries" ELSE "lower"
          /\ task' = task /\ UNCHANGED build
      BY <1>2, <2>3 DEF Load, Goto
    <3>2. Sound(rig) BY <2>3 DEF Sound, ValidRig, ValidEntry
    <3>3. Sound(rig)' BY <3>1, <3>2 DEF Sound, build
    <3> QED BY <2>1, <3>1, <3>3 DEF Building, build
  <2> QED BY <2>2, <2>3
<1>3. CASE Judge
  <2>1. pc = "validate" /\ IsChain(chain) BY <1>3 DEF Judge, Building
  <2>2. CASE ~Validate(chain)
    BY <1>3, <2>1, <2>2 DEF Judge, Refuse, Goto, build, Building
  <2>3. CASE Validate(chain)
    <3>1. /\ doc' = SetSpec([Blank EXCEPT !.device = Device], rig.name, chain)
          /\ pc' = "sections" /\ task' = task
          /\ UNCHANGED <<rig, at, blocks, said, chain>>
      BY <1>3, <2>3 DEF Judge, Goto
    <3>2. IsPreset([Blank EXCEPT !.device = Device])
      <4>1. PICK n, v, m, b, r, s, t : Blank = DocOf(n, v, m, b, r, s, t)
        BY BlankAssumption, PresetIs
      <4>2. [Blank EXCEPT !.device = Device] = DocOf(n, Device, m, b, r, s, t)
        BY <4>1 DEF DocOf
      <4> QED BY <4>1, <4>2, BlankAssumption, DocIs
    <3>3. IsPreset(doc') BY <2>1, <3>1, <3>2, SetSpecKeeps
    <3> QED BY <2>1, <3>1, <3>3 DEF Building
  <2> QED BY <2>2, <2>3
<1>4. CASE RestoreState
  <2>1. /\ pc = "restore" /\ doc' = RestoreSnapshots(Restore(doc, rig), rig)
        /\ pc' = "sections" /\ task' = task
        /\ UNCHANGED <<rig, at, blocks, said, chain>>
    BY <1>4 DEF RestoreState, Goto
  <2>2. IsPreset(doc') BY <1>1, <2>1, RestoreKeeps
  <2> QED BY <2>1, <2>2 DEF Building
<1>5. CASE WriteSections
  <2>1. pc = "sections" BY <1>5 DEF WriteSections
  <2>2. CASE ~Buildable(doc, rig, chain)
    BY <1>5, <2>1, <2>2 DEF WriteSections, Refuse, Goto, build, Building
  <2>3. CASE Buildable(doc, rig, chain)
    <3>1. /\ doc' = Sections(doc, rig, chain) /\ pc' = "pedal" /\ task' = task
          /\ UNCHANGED <<rig, at, blocks, said, chain>>
      BY <1>5, <2>3 DEF WriteSections, Goto
    <3>2. IsPreset(doc') BY <1>1, <3>1, SectionsKeep
    <3> QED BY <2>1, <3>1, <3>2 DEF Building
  <2> QED BY <2>2, <2>3
<1>6. CASE WritePedal
  <2> DEFINE c == Controllers(doc, rig, chain)
             a == Footswitches(c, rig)
  <2>1. /\ pc = "pedal"
        /\ doc' = IF task.kind = "make" THEN a ELSE SetSpec(a, NameOf(rig), chain)
        /\ pc' = "save" /\ task' = task
        /\ UNCHANGED <<rig, at, blocks, said, chain>>
    BY <1>6 DEF WritePedal, Goto
  <2>2. IsChain(chain) /\ Sound(rig) BY <2>1 DEF Building
  <2>3. IsPreset(c) BY <1>1, ControllersKeep
  <2> HIDE DEF c
  <2>4. IsPreset(a) BY <1>1, <2>2, <2>3, FootswitchesKeep
  <2> HIDE DEF a
  <2>5. IsPreset(doc') BY <2>1, <2>2, <2>4, SetSpecKeeps
  <2> QED BY <2>1, <2>5 DEF Building
<1>7. CASE Save
  BY <1>7 DEF Save, Goto, Building
<1> QED BY <1>2, <1>3, <1>4, <1>5, <1>6, <1>7

\* A preset made is read back as a rig that starts the way to it.
LEMMA ReadBackStep ==
  ASSUME Building, \E t \in Templates : ReadBack(t)
  PROVE  task'.kind = "rebuild" /\ IsPreset(task'.was) /\ Rebuilding(task.was)'
<1>1. PICK t \in Templates : ReadBack(t) OBVIOUS
<1>2. /\ pc = "written" /\ task' = Rebuild(file, t) /\ rig' = Lift(file)
      /\ doc' = [t EXCEPT !.device = Device, !.name = rig'.name] /\ pc' = "load"
  BY <1>1 DEF ReadBack
<1>3. file = doc /\ IsPreset(file) BY <1>2 DEF Building
<1>4. task'.kind = "rebuild" /\ task'.was = file BY <1>2 DEF Rebuild
<1>5. IsPreset(t) BY BuildsAssumption
<1>6. IsDocument(doc') BY <1>2, <1>5, OpenedIs
<1> QED BY <1>2, <1>3, <1>4, <1>6 DEF Rebuilding, IsDocument

\* A build makes a preset a device could have written, or takes one apart and
\* puts it together again as it was.
Sane ==
  \/ Building
  \/ task.kind = "rebuild" /\ IsPreset(task.was) /\ Rebuilding(task.was)

\* What is to be made, or made again, starts from what it is told.
LEMMA SaneInit == Init => Sane
<1> SUFFICES ASSUME Init PROVE Sane OBVIOUS
<1>1. CASE task.kind # "rebuild" BY <1>1, BuildingInit DEF Sane
<1>2. CASE task.kind = "rebuild"
  <2>1. PICK d \in Presets, t \in Templates : task = Rebuild(d, t)
    BY <1>2 DEF Init, Tasks, Make, CompileOver
  <2>2. task.was = d /\ task.over = t BY <2>1 DEF Rebuild
  <2>3. IsPreset(d) /\ IsPreset(t) BY BuildsAssumption
  <2>4. /\ rig = Lift(d) /\ pc = "load"
        /\ doc = [t EXCEPT !.device = Device, !.name = rig.name]
    BY <1>2, <2>2 DEF Init, Start
  <2>5. IsDocument(doc) BY <2>3, <2>4, OpenedIs
  <2> QED BY <1>2, <2>2, <2>3, <2>4, <2>5 DEF Sane, Rebuilding
<1> QED BY <1>1, <1>2

\* Every step of a build leaves it sane, the last one too: what was made is a
\* preset that can be taken apart.
LEMMA SaneStep == Sane /\ [Next]_vars => Sane'
<1> SUFFICES ASSUME Sane, [Next]_vars PROVE Sane' OBVIOUS
<1>1. CASE Building
  <2>1. CASE UNCHANGED vars
    BY <1>1, <2>1 DEF vars, build, Sane, Building, Sound, IsChain, Known, Laying, Stages
  <2>2. CASE TakeEntry \/ MissCab \/ NoSuchGear \/ ImplyCab \/ FillIn \/ DemandMore
    BY <1>1, <2>2, ResolveStep DEF Sane
  <2>3. CASE Settle \/ Say \/ CheckClaims \/ FitChain \/ LowerChain
    BY <1>1, <2>3, SettleStep DEF Sane
  <2>4. CASE Load \/ Judge \/ RestoreState \/ WriteSections \/ WritePedal \/ Save
    BY <1>1, <2>4, WriteStep DEF Sane
  <2>5. CASE \E t \in Templates : ReadBack(t)
    <3>1. task'.kind = "rebuild" /\ IsPreset(task'.was) /\ Rebuilding(task.was)'
      BY <1>1, <2>5, ReadBackStep
    <3> QED BY <3>1 DEF Sane, IsPreset, Rebuilding
  <2> QED BY <2>1, <2>2, <2>3, <2>4, <2>5 DEF Next
<1>2. CASE task.kind = "rebuild" /\ IsPreset(task.was) /\ Rebuilding(task.was)
  <2>1. Rebuilding(task.was)' /\ task' = task
    <3>1. PICK d : d = task.was OBVIOUS
    <3>2. IsPreset(d) /\ Rebuilding(d) BY <1>2, <3>1
    <3>3. Rebuilding(d)' /\ task' = task BY <1>2, <3>2, RebuildStep
    <3> QED BY <3>1, <3>3 DEF Rebuilding
  <2> QED BY <1>2, <2>1 DEF Sane, IsPreset
<1> QED BY <1>1, <1>2 DEF Sane

\* Whatever was made, or came from a device, can be read into a rig and
\* compiled again over any template, and is then the preset it was: only one
\* without a block is refused (compile.Lift, compile.Lower).
THEOREM RoundTripHolds == Spec => []RoundTrip
<1>1. Sane => RoundTrip
  <2> SUFFICES ASSUME Sane, task.kind = "rebuild"
               PROVE  /\ pc = "refused" => task.was.blocks = Empty
                      /\ Written => file = task.was
    BY DEF RoundTrip
  <2>1. Rebuilding(task.was) BY DEF Sane, Building
  <2> QED BY <2>1 DEF Rebuilding, Written
<1> QED BY <1>1, SaneInit, SaneStep, PTL DEF Spec

-----------------------------------------------------------------------------
(* What names a block of the rig names it in the preset *)

\* The blocks of a chain before it was laid over the processors and after.
Fitted(b, a) ==
  /\ IsChain(b) /\ IsChain(a) /\ DOMAIN a = DOMAIN b
  /\ \A i \in DOMAIN a : a[i].model = b[i].model
  /\ \A i, j \in DOMAIN a : Address(a[i]) = Address(a[j]) => i = j

\* The document's blocks are the chain's, at their places.
TakesIn(d, c) ==
  /\ DOMAIN d.blocks = {Address(c[i]) : i \in DOMAIN c}
  /\ \A a \in DOMAIN d.blocks : d.blocks[a].model = c[LastAt(c, a)].model

\* A snapshot of each section switches the chain as the section asks.
Sectioned(d, sections, c) ==
  \A i \in DOMAIN sections :
    /\ ~Contradicts(sections[i])
    /\ d.snapshots[i].on =
         [a \in {Address(c[j]) : j \in DOMAIN c} |->
            LET j == LastAt(c, a) IN Engaged(sections[i], RolesOf(c)[j], c[j].enabled)]

\* What the rig assigns is in the document, at the places it names.
Wired(d, r, c) ==
  /\ \A i \in DOMAIN r.controllers :
       LET x == r.controllers[i]
           k == BlockAt(c, x.path, x.block)
       IN k # 0 /\ Carries(c[k].model, x.parameter) 
            => <<x.path, x.block, x.parameter>> \in DOMAIN d.tone["controller"]
  /\ \A i \in DOMAIN r.switches :
       LET x == r.switches[i]
       IN x.block # NoBlock => <<x.path, x.block>> \in DOMAIN d.tone["footswitch"]

Unfitted == {"load", "entries", "fill", "demand", "settle", "said", "claims", "fit"}
AfterFit == {"validate", "sections", "pedal", "save", "written"}
Ended == {"save", "written"}

\* The rig is the one that was given, but for where the fit moved what it
\* assigns; and so far as the document is written it says the same.
Following ==
  /\ IsRigFile(task.rig)
  /\ rig.sections = task.rig.sections
  /\ task.kind = "make" /\ pc \in Unfitted => rig = task.rig
  /\ task.kind = "make" /\ pc = "fit" => CheckControllers(rig, chain)
  /\ task.kind = "make" /\ pc \in AfterFit =>
       /\ Fitted(before, chain)
       /\ CheckControllers(task.rig, before)
       /\ rig.controllers = [i \in DOMAIN task.rig.controllers |->
                               Rehomed(task.rig.controllers[i], before, chain)]
       /\ rig.switches = [i \in DOMAIN task.rig.switches |->
                            Rehomed(task.rig.switches[i], before, chain)]
  /\ pc \in Ended \/ (task.kind = "make" /\ pc \in {"sections", "pedal"}) =>
       TakesIn(doc, chain)
  /\ pc \in Ended \cup {"pedal"} => IsChain(chain) /\ Sectioned(doc, rig.sections, chain)
  /\ task.kind = "make" /\ pc \in Ended => Wired(doc, rig, chain)

\* The fit leaves a chain its blocks, each at a place of its own.
LEMMA FittedIs ==
  ASSUME NEW c, IsChain(c), Known(c)
  PROVE  Fitted(c, Fit(c))
<1> DEFINE f == Fit(c)
<1>1. /\ IsChain(f) /\ DOMAIN f = DOMAIN c /\ \A i \in DOMAIN c : f[i].model = c[i].model
      /\ \A i, j \in DOMAIN c : Address(f[i]) = Address(f[j]) => i = j
  BY FitIs
<1> HIDE DEF f
<1>2. Fitted(c, f) BY <1>1 DEF Fitted
<1> QED BY <1>2 DEF f

\* What is written for a rig's sections switches the chain as they ask.
LEMMA SectionedIs ==
  ASSUME NEW d, IsPreset(d), NEW r, IsRigFile(r), NEW c, Buildable(d, r, c)
  PROVE  /\ Sectioned(Sections(d, r, c), r.sections, c)
         /\ Sections(d, r, c).blocks = d.blocks
<1>1. CASE "sections" \notin r.has
  <2>1. DOMAIN r.sections = {} BY <1>1 DEF IsRigFile, Empty
  <2>2. Sections(d, r, c) = d BY <1>1 DEF Sections
  <2> QED BY <2>1, <2>2 DEF Sectioned
<1>2. CASE "sections" \in r.has
  <2> DEFINE s == d.snapshots
             x == [i \in DOMAIN s |->
                     IF i \in DOMAIN r.sections
                     THEN SectionEntry(s[i], r.sections[i], c) ELSE s[i]]
             on(i) == [a \in {Address(c[j]) : j \in DOMAIN c} |->
                         LET j == LastAt(c, a)
                         IN Engaged(r.sections[i], RolesOf(c)[j], c[j].enabled)]
  <2>1. Sections(d, r, c) = [d EXCEPT !.snapshots = x] BY <1>2 DEF Sections
  <2>2. s \in Seq(ToSet(s)) /\ \A i \in DOMAIN s : IsSnapshot(s[i])
    BY DEF IsPreset, ToSet
  <2>3. r.sections \in Seq(ToSet(r.sections)) BY DEF IsRigFile
  <2>4. /\ Len(r.sections) <= Len(s)
        /\ \A i \in DOMAIN r.sections : ~Contradicts(r.sections[i])
    BY <1>2 DEF Buildable
  <2>5. DOMAIN r.sections \subseteq DOMAIN s
    <3>1. DOMAIN s = 1 .. Len(s) /\ Len(s) \in Nat BY <2>2
    <3>2. DOMAIN r.sections = 1 .. Len(r.sections) /\ Len(r.sections) \in Nat BY <2>3
    <3> QED BY <2>4, <3>1, <3>2
  <2>6. \A i \in DOMAIN r.sections : x[i].on = on(i)
    <3> TAKE i \in DOMAIN r.sections
    <3>1. x[i] = SectionEntry(s[i], r.sections[i], c) /\ IsSnapshot(s[i]) BY <2>2, <2>5
    <3>2. SectionEntry(s[i], r.sections[i], c) =
            [s[i] EXCEPT !.name = r.sections[i].name, !.on = on(i), !.rest = SetUp @@ @]
      BY DEF SectionEntry
    <3> DEFINE o == on(i)
    <3> HIDE DEF x
    <3>3. PICK n, p, w, q : s[i] = [name |-> n, on |-> p, wraps |-> w, rest |-> q]
      BY <3>1 DEF IsSnapshot
    <3>4. x[i] = [s[i] EXCEPT !.name = r.sections[i].name, !.on = o, !.rest = SetUp @@ @]
      BY <3>1, <3>2
    <3> HIDE DEF o
    <3>5. x[i].on = o BY <3>3, <3>4
    <3> QED BY <3>5 DEF o
  <2> HIDE DEF x
  <2>7. PICK n, v, m, b, u, p, t : d = DocOf(n, v, m, b, u, p, t) BY PresetIs
  <2>8. Sections(d, r, c) = DocOf(n, v, m, b, u, x, t) BY <2>1, <2>7 DEF DocOf
  <2>9. Sections(d, r, c).snapshots = x /\ Sections(d, r, c).blocks = d.blocks
    BY <2>7, <2>8, DocIs
  <2> QED BY <2>4, <2>6, <2>9 DEF Sectioned
<1> QED BY <1>1, <1>2

\* What is written under another name stands where it stood.
LEMMA WithKeeps ==
  ASSUME NEW tone, NEW x
  PROVE  /\ With(tone, "controller", x)["controller"] = x
         /\ With(tone, "footswitch", x)["footswitch"] = x
         /\ "controller" \in DOMAIN tone =>
              /\ With(tone, "footswitch", x)["controller"] = tone["controller"]
              /\ Without(tone, {"footswitch"})["controller"] = tone["controller"]
              /\ "controller" \in DOMAIN Without(tone, {"footswitch"})
         /\ "controller" \in DOMAIN With(tone, "controller", x)
<1>1. "controller" # "footswitch" OBVIOUS
<1> QED BY <1>1 DEF With, Without

\* What a rig assigns is in the document once it is written.
LEMMA WiredIs ==
  ASSUME NEW d, IsPreset(d), NEW r, IsRigFile(r), NEW c
  PROVE  Wired(Footswitches(Controllers(d, r, c), r), r, c)
<1> DEFINE e == Controllers(d, r, c)
           f == Footswitches(e, r)
           block(x) == BlockAt(c, x.path, x.block)
<1>1. IsPreset(e) BY ControllersKeep
<1>2. "controllers" \in r.has =>
        /\ "controller" \in DOMAIN e.tone
        /\ \A i \in DOMAIN r.controllers :
             LET x == r.controllers[i]
             IN block(x) # 0 /\ Carries(c[block(x)].model, x.parameter) =>
                  <<x.path, x.block, x.parameter>> \in DOMAIN e.tone["controller"]
  <2> HAVE "controllers" \in r.has
  <2> DEFINE key(x) == <<x.path, x.block, x.parameter>>
             written == {i \in DOMAIN r.controllers :
                           LET x == r.controllers[i]
                           IN block(x) # 0 /\ Carries(c[block(x)].model, x.parameter)}
             last(k) == r.controllers[Max({i \in written : key(r.controllers[i]) = k})]
             held == [k \in {key(r.controllers[i]) : i \in written} |->
                        Assignment(last(k), c[block(last(k))].model)]
  <2>1. e = [d EXCEPT !.tone = With(d.tone, "controller", held)] BY DEF Controllers
  <2>2. \A i \in written : key(r.controllers[i]) \in DOMAIN held OBVIOUS
  <2> HIDE DEF held, e
  <2> DEFINE w == With(d.tone, "controller", held)
  <2>3. e.tone = w
    <3>1. e = [d EXCEPT !.tone = w] BY <2>1
    <3> HIDE DEF w
    <3>2. PICK n, v, m, b, u, p, t : d = DocOf(n, v, m, b, u, p, t) BY PresetIs
    <3>3. e = DocOf(n, v, m, b, u, p, w) BY <3>1, <3>2 DEF DocOf
    <3> QED BY <3>3, DocIs
  <2> QED BY <2>2, <2>3, WithKeeps
<1> DEFINE placed == {i \in DOMAIN r.switches : r.switches[i].block # NoBlock}
<1>3. /\ "controller" \in DOMAIN e.tone => f.tone["controller"] = e.tone["controller"]
      /\ "switches" \in r.has =>
           \A i \in placed :
             <<r.switches[i].path, r.switches[i].block>> \in DOMAIN f.tone["footswitch"]
  <2>1. CASE "switches" \notin r.has BY <2>1 DEF Footswitches
  <2>2. CASE "switches" \in r.has
    <3> DEFINE key(x) == <<x.path, x.block>>
               last(k) == r.switches[Max({i \in placed : key(r.switches[i]) = k})]
               held == [k \in {key(r.switches[i]) : i \in placed} |-> FieldsOf(last(k))]
               pruned == Without(e.tone, {"footswitch"})
               w == IF placed = {} THEN pruned ELSE With(pruned, "footswitch", held)
    <3> HIDE DEF e
    <3>1. f = [e EXCEPT !.tone = w] BY <2>2 DEF Footswitches
    <3>2. \A i \in placed : key(r.switches[i]) \in DOMAIN held OBVIOUS
    <3> HIDE DEF held, f
    <3>3. "controller" \in DOMAIN e.tone => w["controller"] = e.tone["controller"]
      BY WithKeeps
    <3>4. placed # {} => w["footswitch"] = held BY WithKeeps
    <3> HIDE DEF w
    <3>5. f.tone = w
      <4>1. PICK n, v, m, b, u, p, t : e = DocOf(n, v, m, b, u, p, t) BY <1>1, PresetIs
      <4>2. f = DocOf(n, v, m, b, u, p, w) BY <3>1, <4>1 DEF DocOf
      <4> QED BY <4>2, DocIs
    <3> QED BY <3>2, <3>3, <3>4, <3>5
  <2> QED BY <2>1, <2>2
<1>4. "controllers" \notin r.has => DOMAIN r.controllers = {} BY DEF IsRigFile, Empty
<1>5. "switches" \notin r.has => DOMAIN r.switches = {} BY DEF IsRigFile, Empty
<1> HIDE DEF e, f
<1>6. Wired(f, r, c) BY <1>2, <1>3, <1>4, <1>5 DEF Wired
<1> QED BY <1>6 DEF e, f

\* A chain that stands in a document in sections switches it as they ask.
LEMMA SectionsHold ==
  ASSUME NEW d, NEW sections, NEW c, IsChain(c), TakesIn(d, c), Sectioned(d, sections, c),
         NEW i \in DOMAIN sections
  PROVE  LET on == d.snapshots[i].on
         IN /\ DOMAIN on = DOMAIN d.blocks
            /\ \A a \in DOMAIN on :
                 LET m == d.blocks[a].model
                 IN m \in Models =>
                      /\ Block(m).category \in sections[i].play => on[a]
                      /\ Block(m).category \in sections[i].bypass => ~on[a]
<1> DEFINE on == d.snapshots[i].on
           A == {Address(c[j]) : j \in DOMAIN c}
<1>1. /\ on = [a \in A |-> LET j == LastAt(c, a)
                           IN Engaged(sections[i], RolesOf(c)[j], c[j].enabled)]
      /\ ~Contradicts(sections[i])
  BY DEF Sectioned
<1>2. DOMAIN d.blocks = A /\ \A a \in A : d.blocks[a].model = c[LastAt(c, a)].model
  BY DEF TakesIn
<1>3. \A a \in A : LastAt(c, a) \in DOMAIN c BY LastAtIs
<1> HIDE DEF on, A
<1>4. ASSUME NEW a \in A, d.blocks[a].model \in Models
      PROVE  LET m == d.blocks[a].model
             IN /\ Block(m).category \in sections[i].play => on[a]
                /\ Block(m).category \in sections[i].bypass => ~on[a]
  <2> DEFINE j == LastAt(c, a)
             m == d.blocks[a].model
  <2>1. c[j].model = m /\ j \in DOMAIN c BY <1>2, <1>3
  <2>2. RolesOf(c)[j] = Block(m).category BY <1>4, <2>1 DEF RolesOf
  <2>3. on[a] = Engaged(sections[i], Block(m).category, c[j].enabled) BY <1>1, <2>2
  <2>4. ~ (Block(m).category \in sections[i].play /\ Block(m).category \in sections[i].bypass)
    BY <1>1 DEF Contradicts
  <2> HIDE DEF j, m
  <2>5. /\ Block(m).category \in sections[i].play => on[a]
        /\ Block(m).category \in sections[i].bypass => ~on[a]
    BY <2>3, <2>4 DEF Engaged
  <2> QED BY <2>5 DEF m
<1>5. DOMAIN on = A BY <1>1
<1> QED BY <1>2, <1>4, <1>5 DEF on

\* Up to the fit the rig is the one that was given, and once its claims are
\* checked what it sweeps is there.
LEMMA FollowingResolved ==
  ASSUME Building, Following, task.kind \in {"make", "compile"},
         \/ Load \/ TakeEntry \/ MissCab \/ NoSuchGear \/ ImplyCab \/ FillIn \/ DemandMore
         \/ Settle \/ Say \/ LowerChain \/ RestoreState \/ CheckClaims
  PROVE  Following'
<1> USE DEF Unfitted, AfterFit, Ended
<1>1. IsRigFile(task.rig) /\ rig.sections = task.rig.sections BY DEF Following
<1>2. CASE Load \/ TakeEntry \/ MissCab \/ NoSuchGear \/ ImplyCab \/ FillIn \/ DemandMore
           \/ Settle \/ Say
  <2>1. /\ task' = task /\ rig' = rig
        /\ pc \in Unfitted
        /\ pc' \in {"entries", "lower", "refused", "fill", "demand", "settle", "said", "claims"}
        /\ pc' = "lower" => task.kind # "make"
    BY <1>2 DEF Load, TakeEntry, MissCab, NoSuchGear, ImplyCab, FillIn, DemandMore,
                Settle, Say, Refuse, Resolved, Goto, build
  <2>2. task.kind = "make" => rig = task.rig BY <2>1 DEF Following
  <2> QED BY <1>1, <2>1, <2>2 DEF Following
<1>3. CASE LowerChain \/ RestoreState
  <2>1. task.kind # "make" BY <1>3 DEF LowerChain, RestoreState, Building
  <2>2. /\ task' = task /\ rig' = rig
        /\ pc' \in {"refused", "claims", "sections"}
    BY <1>3 DEF LowerChain, RestoreState, Refuse, Goto, build
  <2> QED BY <1>1, <2>1, <2>2 DEF Following
<1>4. CASE CheckClaims
  <2>1. /\ task' = task /\ rig' = rig /\ chain' = chain /\ pc = "claims"
        /\ pc' \in {"refused", "fit", "restore"}
        /\ pc' = "fit" => CheckControllers(rig, chain)
    BY <1>4 DEF CheckClaims, Check, Refuse, Goto, build
  <2>2. task.kind = "make" => rig = task.rig BY <2>1 DEF Following
  <2> QED BY <1>1, <2>1, <2>2 DEF Following, CheckControllers
<1> QED BY <1>2, <1>3, <1>4

\* The fit moves what the rig assigns with the blocks it was assigned to.
LEMMA FollowingFitted ==
  ASSUME Building, Following, FitChain
  PROVE  Following'
<1> USE DEF Unfitted, AfterFit, Ended
<1>1. /\ pc = "fit" /\ before' = chain /\ chain' = Fit(chain)
      /\ rig' = Refit(rig, chain, chain') /\ pc' = "validate" /\ task' = task
  BY DEF FitChain, Goto
<1>2. /\ IsChain(chain) /\ Known(chain) /\ IsRigFile(rig) /\ Sound(rig)
      /\ task.kind \in {"make", "compile"}
  BY <1>1 DEF Building, Laying
<1>3. /\ IsRigFile(task.rig) /\ rig.sections = task.rig.sections
      /\ task.kind = "make" => rig = task.rig /\ CheckControllers(rig, chain)
  BY <1>1 DEF Following
<1> DEFINE c == chain'
<1>4. Fitted(chain, c) BY <1>1, <1>2, FittedIs
<1>5. rig' = Refit(rig, chain, c) BY <1>1
<1>6. IsChain(c) /\ DOMAIN c = DOMAIN chain BY <1>4 DEF Fitted
<1> HIDE DEF c
<1>7. /\ rig'.sections = rig.sections
      /\ rig'.controllers = [i \in DOMAIN rig.controllers |->
                               Rehomed(rig.controllers[i], chain, c)]
      /\ rig'.switches = [i \in DOMAIN rig.switches |-> Rehomed(rig.switches[i], chain, c)]
  BY <1>2, <1>5, <1>6, RefitIs
<1>8. c = chain' BY DEF c
<1>9. Fitted(before, chain)' BY <1>1, <1>4, <1>8 DEF Fitted
<1>10. task.kind = "make" => CheckControllers(task.rig, before)'
  BY <1>1, <1>3 DEF CheckControllers
<1>11. task.kind = "make" =>
         /\ rig'.controllers = [i \in DOMAIN task'.rig.controllers |->
                                  Rehomed(task'.rig.controllers[i], before', chain')]
         /\ rig'.switches = [i \in DOMAIN task'.rig.switches |->
                               Rehomed(task'.rig.switches[i], before', chain')]
  BY <1>1, <1>3, <1>7, <1>8
<1> QED BY <1>1, <1>2, <1>3, <1>7, <1>9, <1>10, <1>11 DEF Following

\* A document takes in the chain, its sections and what the rig assigns, and
\* loses none of them after.
LEMMA FollowingWritten ==
  ASSUME Building, Following, Judge \/ WriteSections \/ WritePedal \/ Save
  PROVE  Following'
<1> USE DEF Unfitted, AfterFit, Ended
<1>1. IsRigFile(task.rig) /\ rig.sections = task.rig.sections
  BY DEF Following
<1>0. IsRigFile(rig) /\ IsPreset(doc) BY DEF Building
<1> DEFINE Made1 ==
       /\ Fitted(before, chain)
       /\ CheckControllers(task.rig, before)
       /\ rig.controllers = [i \in DOMAIN task.rig.controllers |->
                               Rehomed(task.rig.controllers[i], before, chain)]
       /\ rig.switches = [i \in DOMAIN task.rig.switches |->
                            Rehomed(task.rig.switches[i], before, chain)]
<1>2. ASSUME UNCHANGED <<task, rig, before, chain>>, Made1 PROVE Made1'
  BY <1>2 DEF CheckControllers, Fitted
<1>3. pc \in AfterFit /\ task.kind = "make" => Made1 BY DEF Following
<1>4. \A t : (task' = task /\ rig' = rig /\ pc' = "refused") => Following'
  BY <1>1 DEF Following
<1>5. CASE Judge
  <2>1. CASE ~Validate(chain) BY <1>4, <1>5, <2>1 DEF Judge, Refuse, Goto, build
  <2>2. CASE Validate(chain)
    <3>1. /\ doc' = SetSpec([Blank EXCEPT !.device = Device], rig.name, chain)
          /\ pc = "validate" /\ pc' = "sections" /\ UNCHANGED <<task, rig, chain, before>>
      BY <1>5, <2>2 DEF Judge, Goto
    <3>2. IsChain(chain) BY <3>1 DEF Building, Laying
    <3>3. IsPreset([Blank EXCEPT !.device = Device])
      <4>1. PICK n, v, m, b, r, s, t : Blank = DocOf(n, v, m, b, r, s, t)
        BY BlankAssumption, PresetIs
      <4>2. [Blank EXCEPT !.device = Device] = DocOf(n, Device, m, b, r, s, t)
        BY <4>1 DEF DocOf
      <4> QED BY <4>1, <4>2, BlankAssumption, DocIs
    <3>4. TakesIn(doc', chain) BY <3>1, <3>2, <3>3, SetSpecKeeps DEF TakesIn
    <3>5. TakesIn(doc, chain)' BY <3>1, <3>4 DEF TakesIn
    <3>6. task.kind = "make" => Made1' BY <1>2, <1>3, <3>1
    <3> QED BY <1>1, <3>1, <3>5, <3>6 DEF Following
  <2> QED BY <2>1, <2>2
<1>6. CASE WriteSections
  <2>1. CASE ~Buildable(doc, rig, chain)
    BY <1>4, <1>6, <2>1 DEF WriteSections, Refuse, Goto, build
  <2>2. CASE Buildable(doc, rig, chain)
    <3>1. /\ doc' = Sections(doc, rig, chain)
          /\ pc = "sections" /\ pc' = "pedal" /\ UNCHANGED <<task, rig, chain, before>>
      BY <1>6, <2>2 DEF WriteSections, Goto
    <3>2. IsChain(chain) BY <3>1 DEF Building, Laying
    <3>3. Sectioned(doc', rig.sections, chain) /\ doc'.blocks = doc.blocks
      BY <1>0, <2>2, <3>1, SectionedIs
    <3>4. Sectioned(doc, rig.sections, chain)' BY <3>1, <3>3 DEF Sectioned
    <3>5. task.kind = "make" => TakesIn(doc, chain) BY <3>1 DEF Following
    <3>6. task.kind = "make" => TakesIn(doc, chain)' BY <3>1, <3>3, <3>5 DEF TakesIn
    <3>7. task.kind = "make" => Made1' BY <1>2, <1>3, <3>1
    <3>8. IsChain(chain)' BY <3>1, <3>2 DEF IsChain
    <3> QED BY <1>1, <3>1, <3>4, <3>6, <3>7, <3>8 DEF Following
  <2> QED BY <2>1, <2>2
<1>7. CASE WritePedal
  <2> DEFINE e == Controllers(doc, rig, chain)
             f == Footswitches(e, rig)
  <2>1. /\ doc' = IF task.kind = "make" THEN f ELSE SetSpec(f, NameOf(rig), chain)
        /\ pc = "pedal" /\ pc' = "save" /\ UNCHANGED <<task, rig, chain, before>>
    BY <1>7 DEF WritePedal, Goto
  <2>2. IsChain(chain) /\ Sound(rig) BY <2>1 DEF Building, Laying
  <2>3. Wired(f, rig, chain) BY <1>0, WiredIs
  <2>4. IsPreset(e) /\ e.blocks = doc.blocks /\ e.snapshots = doc.snapshots
    BY <1>0, ControllersKeep
  <2> HIDE DEF e
  <2>5. IsPreset(f) /\ f.blocks = doc.blocks /\ f.snapshots = doc.snapshots
    BY <1>0, <2>2, <2>4, FootswitchesKeep
  <2> HIDE DEF f
  <2>6. /\ Sectioned(doc, rig.sections, chain)
        /\ task.kind = "make" => TakesIn(doc, chain)
    BY <2>1 DEF Following
  <2>7. TakesIn(doc', chain) /\ doc'.snapshots = doc.snapshots
    <3>1. CASE task.kind = "make" BY <2>1, <2>5, <2>6, <3>1 DEF TakesIn
    <3>2. CASE task.kind # "make"
      BY <2>1, <2>2, <2>5, <3>2, SetSpecKeeps DEF TakesIn
    <3> QED BY <3>1, <3>2
  <2>8. TakesIn(doc, chain)' BY <2>1, <2>7 DEF TakesIn
  <2>9. Sectioned(doc, rig.sections, chain)'
    <3>1. Sectioned(doc', rig.sections, chain) BY <2>6, <2>7 DEF Sectioned
    <3>2. rig' = rig /\ chain' = chain BY <2>1
    <3> QED BY <3>1, <3>2 DEF Sectioned
  <2>10. task.kind = "make" => Wired(doc, rig, chain)' BY <2>1, <2>3 DEF Wired
  <2>11. task.kind = "make" => Made1' BY <1>2, <1>3, <2>1
  <2>12. IsChain(chain)' BY <2>1, <2>2 DEF IsChain
  <2> QED BY <1>1, <2>1, <2>8, <2>9, <2>10, <2>11, <2>12 DEF Following
<1>8. CASE Save
  <2>1. pc = "save" /\ pc' = "written" /\ UNCHANGED <<task, rig, chain, before, doc>>
    BY <1>8 DEF Save, Goto
  <2>2. /\ TakesIn(doc, chain) /\ IsChain(chain) /\ Sectioned(doc, rig.sections, chain)
        /\ task.kind = "make" => Wired(doc, rig, chain)
    BY <2>1 DEF Following
  <2>3. TakesIn(doc, chain)' BY <2>1, <2>2 DEF TakesIn
  <2>4. IsChain(chain)' BY <2>1, <2>2 DEF IsChain
  <2>5. Sectioned(doc, rig.sections, chain)' BY <2>1, <2>2 DEF Sectioned
  <2>6. task.kind = "make" => Wired(doc, rig, chain)' BY <2>1, <2>2 DEF Wired
  <2>7. task.kind = "make" => Made1' BY <1>2, <1>3, <2>1
  <2> QED BY <1>1, <2>1, <2>3, <2>4, <2>5, <2>6, <2>7 DEF Following
<1> QED BY <1>5, <1>6, <1>7, <1>8

\* Whatever is being made follows the rig that was given.
Faithful == Sane /\ (task.kind \in {"make", "compile"} => Following)

\* Before anything is resolved the rig is the one that was given.
LEMMA FaithfulInit == Init => Faithful
<1> SUFFICES ASSUME Init, task.kind \in {"make", "compile"} PROVE Following
  BY SaneInit DEF Faithful
<1>1. rig = task.rig /\ pc = "load" BY DEF Init, Start
<1>2. Building BY BuildingInit
<1>3. IsRigFile(task.rig) BY <1>1, <1>2 DEF Building
<1> QED BY <1>1, <1>3 DEF Following, Unfitted, AfterFit, Ended

\* Every step follows it.
LEMMA FaithfulStep == Faithful /\ [Next]_vars => Faithful'
<1> SUFFICES ASSUME Faithful, [Next]_vars, task'.kind \in {"make", "compile"}
             PROVE  Following'
  BY SaneStep DEF Faithful
<1>1. Sane BY DEF Faithful
<1>2. CASE task.kind \notin {"make", "compile"}
  <2>1. task.kind = "rebuild" /\ IsPreset(task.was) /\ Rebuilding(task.was)
    BY <1>1, <1>2 DEF Sane, Building
  <2>2. PICK d : d = task.was OBVIOUS
  <2>3. task' = task BY <1>2, <2>1, <2>2, RebuildStep
  <2> QED BY <1>2, <2>3
<1>3. CASE task.kind \in {"make", "compile"}
  <2>1. Building /\ Following BY <1>1, <1>3 DEF Faithful, Sane
  <2>2. CASE UNCHANGED vars
    <3>1. UNCHANGED <<task, pc, rig, chain, before, doc>> BY <2>2 DEF vars, build
    <3> QED BY <2>1, <3>1 DEF Following
  <2>3. CASE \/ Load \/ TakeEntry \/ MissCab \/ NoSuchGear \/ ImplyCab \/ FillIn
             \/ DemandMore \/ Settle \/ Say \/ LowerChain \/ RestoreState \/ CheckClaims
    BY <1>3, <2>1, <2>3, FollowingResolved
  <2>4. CASE FitChain BY <2>1, <2>4, FollowingFitted
  <2>5. CASE Judge \/ WriteSections \/ WritePedal \/ Save
    BY <2>1, <2>5, FollowingWritten
  <2>6. CASE \E t \in Templates : ReadBack(t)
    BY <2>6 DEF ReadBack, Rebuild
  <2> QED BY <2>2, <2>3, <2>4, <2>5, <2>6 DEF Next
<1> QED BY <1>2, <1>3

\* A block that went somewhere is the one found there, and no other is.
LEMMA WentIs ==
  ASSUME NEW b, NEW a, Fitted(b, a), NEW k \in DOMAIN b
  PROVE  /\ BlockAt(a, a[k].dsp, a[k].pos) = k /\ LastAt(a, Address(a[k])) = k
         /\ k # 0 /\ a[k].model = b[k].model
         /\ a[k].dsp \in Nat /\ a[k].pos \in Nat
<1>1. /\ IsChain(a) /\ k \in DOMAIN a /\ a[k].model = b[k].model
      /\ \A i, j \in DOMAIN a : Address(a[i]) = Address(a[j]) => i = j
  BY DEF Fitted
<1>2. Address(a[k]) = <<a[k].dsp, a[k].pos>> BY DEF Address
<1> DEFINE j == BlockAt(a, a[k].dsp, a[k].pos)
<1>3. j # 0 /\ j \in DOMAIN a /\ Address(a[j]) = Address(a[k]) BY <1>1, <1>2, BlockAtIs
<1> HIDE DEF j
<1>4. j = k BY <1>1, <1>3
<1> DEFINE l == LastAt(a, Address(a[k]))
<1>5. l \in DOMAIN a /\ Address(a[l]) = Address(a[k]) BY <1>1, LastAtIs
<1> HIDE DEF l
<1>6. l = k BY <1>1, <1>5
<1>7. IsLaid(a[k]) BY <1>1 DEF IsChain
<1> QED BY <1>1, <1>3, <1>4, <1>6, <1>7 DEF j, l, IsLaid

\* What a rig assigns, the chain laid out in between, is in the preset at the
\* block it was assigned to.
LEMMA PedalFollows ==
  ASSUME Building, Following, Made
  PROVE  PedalFollowsFit
<1> DEFINE b == before
           c == chain
           r == task.rig
<1>1. pc = "written" /\ task.kind = "make" BY DEF Made, Written
<1>2. /\ Fitted(b, c) /\ CheckControllers(r, b) /\ IsRigFile(r)
      /\ rig.controllers = [i \in DOMAIN r.controllers |-> Rehomed(r.controllers[i], b, c)]
      /\ rig.switches = [i \in DOMAIN r.switches |-> Rehomed(r.switches[i], b, c)]
      /\ TakesIn(doc, c) /\ Wired(doc, rig, c)
  BY <1>1 DEF Following, AfterFit, Ended
<1>3. file = doc BY <1>1 DEF Building
<1>4. IsChain(b) /\ IsChain(c) /\ DOMAIN c = DOMAIN b BY <1>2 DEF Fitted
<1>5. /\ \A i \in DOMAIN r.controllers : IsController(r.controllers[i])
      /\ \A i \in DOMAIN r.switches : IsFootswitch(r.switches[i])
  BY <1>2 DEF IsRigFile, ToSet
<1> DEFINE k(item) == BlockAt(b, item.path, item.block)
<1>6. \A item : k(item) # 0 => k(item) \in DOMAIN b BY <1>4, BlockAtIs
<1>7. \A n \in DOMAIN b : doc.blocks[Address(c[n])].model = b[n].model
  <2> TAKE n \in DOMAIN b
  <2>1. Address(c[n]) \in DOMAIN doc.blocks BY <1>2, <1>4 DEF TakesIn
  <2>2. doc.blocks[Address(c[n])].model = c[LastAt(c, Address(c[n]))].model
    BY <1>2, <2>1 DEF TakesIn
  <2> QED BY <1>2, <2>2, WentIs
<1> HIDE DEF b, c, r
<1>8. ASSUME NEW i \in DOMAIN r.controllers
      PROVE  LET x == r.controllers[i]
             IN /\ Append(Address(c[k(x)]), x.parameter) \in DOMAIN doc.tone["controller"]
                /\ doc.blocks[Address(c[k(x)])].model = b[k(x)].model
  <2> DEFINE x == r.controllers[i]
             y == rig.controllers[i]
             n == k(x)
  <2>1. IsController(x) BY <1>5
  <2>2. n # 0 /\ Carries(b[n].model, x.parameter) BY <1>2 DEF CheckControllers
  <2>3. n \in DOMAIN b BY <1>6, <2>2
  <2>4. y = Rehomed(x, b, c) /\ i \in DOMAIN rig.controllers BY <1>2
  <2>5. y.path = c[n].dsp /\ y.block = c[n].pos /\ y.parameter = x.parameter
    BY <1>4, <2>1, <2>2, <2>4, RehomedIs
  <2> HIDE DEF x, y, n
  <2>6. /\ BlockAt(c, c[n].dsp, c[n].pos) = n /\ n # 0 /\ c[n].model = b[n].model
        /\ c[n].dsp \in Nat /\ c[n].pos \in Nat
    BY <1>2, <2>3, WentIs
  <2>7. BlockAt(c, y.path, y.block) = n BY <2>5, <2>6
  <2>8. <<y.path, y.block, y.parameter>> \in DOMAIN doc.tone["controller"]
    <3>1. LET l == BlockAt(c, y.path, y.block)
          IN l # 0 /\ Carries(c[l].model, y.parameter)
               => <<y.path, y.block, y.parameter>> \in DOMAIN doc.tone["controller"]
      BY <1>2, <2>4 DEF Wired, y
    <3>2. Carries(c[n].model, y.parameter) BY <2>2, <2>5, <2>6
    <3> QED BY <2>6, <2>7, <3>1, <3>2
  <2>9. Append(Address(c[n]), x.parameter) = <<c[n].dsp, c[n].pos, x.parameter>>
    <3> DEFINE p == c[n].dsp
               q == c[n].pos
               w == x.parameter
    <3>1. Address(c[n]) = <<p, q>> BY DEF Address
    <3> HIDE DEF p, q, w
    <3>2. Append(<<p, q>>, w) = <<p, q, w>> BY PairAndMore
    <3> QED BY <3>1, <3>2 DEF p, q, w
  <2>10. doc.blocks[Address(c[n])].model = b[n].model BY <1>7, <2>3
  <2> QED BY <2>5, <2>8, <2>9, <2>10 DEF x, n
<1>9. ASSUME NEW i \in DOMAIN r.switches, k(r.switches[i]) # 0
      PROVE  LET x == r.switches[i]
             IN /\ Address(c[k(x)]) \in DOMAIN doc.tone["footswitch"]
                /\ doc.blocks[Address(c[k(x)])].model = b[k(x)].model
  <2> DEFINE x == r.switches[i]
             y == rig.switches[i]
             n == k(x)
  <2>1. IsFootswitch(x) BY <1>5
  <2>2. n # 0 BY <1>9
  <2>3. n \in DOMAIN b BY <1>6, <2>2
  <2>4. y = Rehomed(x, b, c) /\ i \in DOMAIN rig.switches BY <1>2
  <2>5. y.path = c[n].dsp /\ y.block = c[n].pos
    BY <1>4, <2>1, <2>2, <2>4, RehomedIs
  <2> HIDE DEF x, y, n
  <2>6. c[n].dsp \in Nat /\ c[n].pos \in Nat BY <1>2, <2>3, WentIs
  <2>7. y.block # NoBlock BY <2>5, <2>6 DEF NoBlock
  <2>8. <<y.path, y.block>> \in DOMAIN doc.tone["footswitch"]
    BY <1>2, <2>4, <2>7 DEF Wired, y
  <2>9. Address(c[n]) = <<y.path, y.block>> BY <2>5 DEF Address
  <2>10. doc.blocks[Address(c[n])].model = b[n].model BY <1>7, <2>3
  <2> QED BY <2>8, <2>9, <2>10 DEF x, n
<1> QED BY <1>3, <1>8, <1>9 DEF PedalFollowsFit, WentTo, NamedBlock, b, c, r

\* Whatever names a block of the rig names that block in the preset: what it
\* sweeps and what it prints follow the fit, and its sections switch the chain
\* that is there (compile.Fit, Refit, Sections, Controllers, Footswitches).
THEOREM NamesFollow == Spec => []NamesFollowTheChain
<1>1. Faithful => NamesFollowTheChain
  <2> SUFFICES ASSUME Faithful PROVE NamesFollowTheChain OBVIOUS
  <2>1. ASSUME task.kind \in {"make", "compile"} PROVE Building /\ Following
    BY <2>1 DEF Faithful, Sane
  <2>2. PedalFollowsFit
    <3>1. CASE ~Made BY <3>1 DEF PedalFollowsFit
    <3>2. CASE Made
      <4>1. task.kind = "make" BY <3>2 DEF Made
      <4> QED BY <2>1, <3>2, <4>1, PedalFollows
    <3> QED BY <3>1, <3>2
  <2>3. SectionsHoldTheChain
    <3> SUFFICES ASSUME Written, task.kind \in {"make", "compile"},
                        NEW i \in DOMAIN task.rig.sections
                 PROVE  LET section == task.rig.sections[i]
                            on == file.snapshots[i].on
                        IN /\ DOMAIN on = DOMAIN file.blocks
                           /\ \A a \in DOMAIN on :
                                LET m == file.blocks[a].model
                                IN m \in Models =>
                                     /\ Block(m).category \in section.play => on[a]
                                     /\ Block(m).category \in section.bypass => ~on[a]
      BY DEF SectionsHoldTheChain
    <3>1. Building /\ Following BY <2>1
    <3>2. /\ file = doc /\ rig.sections = task.rig.sections
          /\ TakesIn(doc, chain) /\ IsChain(chain) /\ Sectioned(doc, rig.sections, chain)
      BY <3>1 DEF Written, Building, Following, Ended
    <3> QED BY <3>2, SectionsHold
  <2> QED BY <2>2, <2>3 DEF NamesFollowTheChain
<1> QED BY <1>1, FaithfulInit, FaithfulStep, PTL DEF Spec

-----------------------------------------------------------------------------
(* What a setlist file holds *)

\* A file opened.
IsOpen(d) == d = [schema |-> d.schema, meta |-> d.meta, setlists |-> d.setlists]

\* A slot written leaves every slot there is, and every other what it was.
LEMMA PutAtIs ==
  ASSUME NEW d, IsOpen(d), NEW a, HasSlot(d, a), NEW p
  PROVE  LET e == PutAt(d, a, p)
         IN /\ IsOpen(e) /\ e.schema = d.schema
            /\ \A b : HasSlot(e, b) <=> HasSlot(d, b)
            /\ \A b : HasSlot(d, b) =>
                 SlotAt(e, b) = IF b[1] = a[1] /\ b[2] = a[2] THEN p ELSE SlotAt(d, b)
<1> DEFINE e == PutAt(d, a, p)
           f == d.setlists
           g == [f EXCEPT ![a[1]] = [f[a[1]] EXCEPT ![a[2]] = p]]
<1>1. e = [schema |-> d.schema, meta |-> d.meta, setlists |-> g]
  <2>1. e = [d EXCEPT !.setlists = g] BY DEF PutAt
  <2> HIDE DEF g, e
  <2>2. PICK s, m, t : d = [schema |-> s, meta |-> m, setlists |-> t] BY DEF IsOpen
  <2> QED BY <2>1, <2>2
<1>2. a[1] \in DOMAIN f /\ a[2] \in DOMAIN f[a[1]] BY DEF HasSlot
<1>3. /\ DOMAIN g = DOMAIN f /\ \A l \in DOMAIN f : DOMAIN g[l] = DOMAIN f[l]
      /\ \A l \in DOMAIN f : \A s \in DOMAIN f[l] :
           g[l][s] = IF l = a[1] /\ s = a[2] THEN p ELSE f[l][s]
  BY <1>2
<1> HIDE DEF f, g, e
<1>4. /\ e.schema = d.schema /\ e.setlists = g /\ IsOpen(e) BY <1>1 DEF IsOpen
<1>5. \A b : HasSlot(e, b) <=> HasSlot(d, b) BY <1>3, <1>4 DEF HasSlot, f
<1>6. \A b : HasSlot(d, b) =>
        SlotAt(e, b) = IF b[1] = a[1] /\ b[2] = a[2] THEN p ELSE SlotAt(d, b)
  BY <1>3, <1>4 DEF HasSlot, SlotAt, f
<1> QED BY <1>4, <1>5, <1>6 DEF e

\* Two addresses asked for are one where they are the same slot of the same
\* setlist.
LEMMA PlacesAreOne ==
  ASSUME NEW a \in Places, NEW b \in Places
  PROVE  a[1] = b[1] /\ a[2] = b[2] <=> a = b
<1>1. a \in Nat \X Nat /\ b \in Nat \X Nat BY SetlistsAssumption
<1> QED BY <1>1

\* What is encoded is read back as it was.
LEMMA EncodedIs ==
  ASSUME NEW d, IsOpen(d)
  PROVE  /\ Opened(EncodeSetlists(d)) = d
         /\ d.schema \in Schemas => Reads(EncodeSetlists(d))
<1> DEFINE p == EncodeSetlists(d)
<1>1. /\ p.schema = d.schema /\ p.meta = d.meta /\ p.payload = d.setlists
      /\ p.sum = Sum(d.setlists)
  BY DEF EncodeSetlists, Packed
<1> HIDE DEF p
<1> QED BY <1>1 DEF Opened, IsOpen, Reads, DecodesPayload, p

\* Fields of an opened file.
LEMMA OpenedHas ==
  ASSUME NEW p
  PROVE  IsOpen(Opened(p)) /\ Opened(p).schema = p.schema
BY DEF IsOpen, Opened

\* An edit of a file: the slot written to is the only one that does not hold
\* what it held.
LeftAlone(was, now, to) ==
  /\ IsOpen(now) /\ now.schema = was.schema
  /\ Addresses(now) = Addresses(was)
  /\ \A a \in Addresses(was) :
       a = to \/ \E b \in Addresses(now) : SlotAt(now, b) = SlotAt(was, a)

\* What is put in a slot, copied from one or exchanged with one, leaves what
\* every other slot held.
LEMMA HeldIs ==
  ASSUME NEW d, IsOpen(d), NEW a \in Places, NEW b \in Places, HasSlot(d, b), NEW p
  PROVE  /\ LeftAlone(d, PutAt(d, b, p), b)
         /\ HasSlot(d, a) => LeftAlone(d, CopySlot(d, a, b), b) /\ LeftAlone(d, SwapSlots(d, a, b), b)
<1>1. ASSUME NEW q PROVE LeftAlone(d, PutAt(d, b, q), b)
  <2> DEFINE e == PutAt(d, b, q)
  <2>1. /\ IsOpen(e) /\ e.schema = d.schema /\ \A c : HasSlot(e, c) <=> HasSlot(d, c)
        /\ \A c : HasSlot(d, c) =>
             SlotAt(e, c) = IF c[1] = b[1] /\ c[2] = b[2] THEN q ELSE SlotAt(d, c)
    BY PutAtIs
  <2> HIDE DEF e
  <2>2. LeftAlone(d, e, b) BY <2>1, PlacesAreOne DEF LeftAlone, Addresses
  <2> QED BY <2>2 DEF e
<1>2. ASSUME HasSlot(d, a) PROVE LeftAlone(d, SwapSlots(d, a, b), b)
  <2> DEFINE e == PutAt(d, a, SlotAt(d, b))
             f == PutAt(e, b, SlotAt(d, a))
  <2>1. /\ IsOpen(e) /\ e.schema = d.schema /\ \A c : HasSlot(e, c) <=> HasSlot(d, c)
        /\ \A c : HasSlot(d, c) =>
             SlotAt(e, c) = IF c[1] = a[1] /\ c[2] = a[2] THEN SlotAt(d, b) ELSE SlotAt(d, c)
    BY <1>2, PutAtIs
  <2> HIDE DEF e
  <2>2. /\ IsOpen(f) /\ f.schema = d.schema /\ \A c : HasSlot(f, c) <=> HasSlot(d, c)
        /\ \A c : HasSlot(d, c) =>
             SlotAt(f, c) = IF c[1] = b[1] /\ c[2] = b[2] THEN SlotAt(d, a) ELSE SlotAt(e, c)
    BY <2>1, PutAtIs
  <2>3. f = SwapSlots(d, a, b) BY DEF SwapSlots, e
  <2> HIDE DEF f
  <2>4. \A c \in Addresses(d) : c = b \/ \E x \in Addresses(f) : SlotAt(f, x) = SlotAt(d, c)
    <3> TAKE c \in Addresses(d)
    <3>1. c \in Places /\ HasSlot(d, c) BY DEF Addresses
    <3>2. CASE c = a
      <4>1. SlotAt(f, b) = SlotAt(d, a) /\ b \in Addresses(f) BY <2>2 DEF Addresses
      <4> QED BY <3>2, <4>1
    <3>3. CASE c # a /\ c # b
      <4>1. SlotAt(f, c) = SlotAt(d, c) BY <2>1, <2>2, <3>1, <3>3, PlacesAreOne
      <4>2. c \in Addresses(f) BY <2>2, <3>1 DEF Addresses
      <4> QED BY <4>1, <4>2
    <3> QED BY <3>2, <3>3
  <2>5. Addresses(f) = Addresses(d) BY <2>2 DEF Addresses
  <2>6. LeftAlone(d, f, b) BY <2>2, <2>4, <2>5 DEF LeftAlone
  <2> QED BY <2>3, <2>6
<1>3. CopySlot(d, a, b) = PutAt(d, b, SlotAt(d, a)) BY DEF CopySlot
<1> QED BY <1>1, <1>2, <1>3

\* Every slot of an edited file holds a preset, where every slot of the file
\* did and what was put in it is one.
AllPresets(d) == \A a \in Places : HasSlot(d, a) => IsPreset(SlotAt(d, a))

\* What is copied, exchanged or put in leaves a file of presets one.
LEMMA PresetsStay ==
  ASSUME NEW d, IsOpen(d), AllPresets(d), NEW a \in Places, NEW b \in Places,
         HasSlot(d, b), NEW p
  PROVE  /\ IsPreset(p) => AllPresets(PutAt(d, b, p))
         /\ HasSlot(d, a) => AllPresets(CopySlot(d, a, b)) /\ AllPresets(SwapSlots(d, a, b))
<1>1. ASSUME NEW c, IsOpen(c), AllPresets(c), NEW x \in Places, HasSlot(c, x),
             NEW q, IsPreset(q)
      PROVE  AllPresets(PutAt(c, x, q)) /\ IsOpen(PutAt(c, x, q))
             /\ \A y : HasSlot(PutAt(c, x, q), y) <=> HasSlot(c, y)
  <2> DEFINE e == PutAt(c, x, q)
  <2>1. /\ IsOpen(e) /\ \A y : HasSlot(e, y) <=> HasSlot(c, y)
        /\ \A y : HasSlot(c, y) =>
             SlotAt(e, y) = IF y[1] = x[1] /\ y[2] = x[2] THEN q ELSE SlotAt(c, y)
    BY <1>1, PutAtIs
  <2> HIDE DEF e
  <2>2. AllPresets(e) BY <1>1, <2>1 DEF AllPresets
  <2> QED BY <2>1, <2>2 DEF e
<1>2. IsPreset(p) => AllPresets(PutAt(d, b, p)) BY <1>1
<1>3. ASSUME HasSlot(d, a)
      PROVE  AllPresets(CopySlot(d, a, b)) /\ AllPresets(SwapSlots(d, a, b))
  <2>1. IsPreset(SlotAt(d, a)) /\ IsPreset(SlotAt(d, b)) BY <1>3 DEF AllPresets
  <2>2. AllPresets(PutAt(d, b, SlotAt(d, a))) BY <1>1, <2>1
  <2> DEFINE e == PutAt(d, a, SlotAt(d, b))
  <2>3. AllPresets(e) /\ IsOpen(e) /\ HasSlot(e, b) BY <1>1, <1>3, <2>1
  <2> HIDE DEF e
  <2>4. AllPresets(PutAt(e, b, SlotAt(d, a))) BY <1>1, <2>1, <2>3
  <2> QED BY <2>2, <2>4 DEF CopySlot, SwapSlots, e
<1> QED BY <1>2, <1>3

\* What an edit leaves is a file that reads back, with every slot it had; what
\* is in none of them any more is what the answer says was replaced.
EditLoses ==
  LET was == Opened(bundle)
      now == Opened(bundle')
  IN /\ Reads(bundle')
     /\ Addresses(now) = Addresses(was)
     /\ \A a \in Addresses(was) :
          \/ StillThere(SlotAt(was, a), now)
          \/ /\ a = answer'.to
             /\ answer'.replaced = Listing(was, a[1])[a[2]].name

\* What is written by an edit that leaves every slot but one alone.
LEMMA EditIs ==
  ASSUME NEW after, NEW to, HasSlot(Here, to), Reads(bundle), LeftAlone(Here, after, to),
         bundle' = EncodeSetlists(after), answer'.to = to,
         answer'.replaced = NameAt(Here, to)
  PROVE  EditLoses
<1>1. IsOpen(Here) /\ Here.schema = bundle.schema BY OpenedHas DEF Here
<1>2. IsOpen(after) /\ after.schema \in Schemas BY <1>1 DEF LeftAlone, Reads
<1>3. Opened(bundle') = after /\ Reads(bundle') BY <1>2, EncodedIs
<1>4. Listing(Here, to[1])[to[2]].name = NameAt(Here, to)
  BY DEF Listing, NameAt, SlotAt, HasSlot
<1>5. \A a \in Addresses(Here) :
        \/ StillThere(SlotAt(Here, a), after)
        \/ a = answer'.to /\ answer'.replaced = Listing(Here, a[1])[a[2]].name
  BY <1>4 DEF LeftAlone, StillThere
<1>6. Addresses(after) = Addresses(Here) BY DEF LeftAlone
<1> QED BY <1>3, <1>5, <1>6 DEF EditLoses, Here

\* Whatever changes the file leaves one like that.
LEMMA EditsKeep ==
  ASSUME [SetlistsNext]_setlists, bundle' # bundle
  PROVE  EditLoses
<1>1. PICK a \in Places, b \in Places :
        Copy(a, b) \/ Swap(a, b) \/ \E d \in Singles \cup {file} : ImportInto(d, a)
  <2>1. \E a, b \in Places : Setlist(a, b)
    BY DEF SetlistsNext, setlists, Unopened
  <2>2. PICK a \in Places, b \in Places : Setlist(a, b) BY <2>1
  <2>3. ~RefuseEdit(a, b) /\ ~ExportPreset(a) /\ ~ExportRig(a)
    BY DEF RefuseEdit, ExportPreset, ExportRig, Wrong
  <2> QED BY <2>2, <2>3 DEF Setlist
<1>2. IsOpen(Here) BY OpenedHas DEF Here
<1>3. CASE Copy(a, b) \/ Swap(a, b)
  <2>1. PICK after \in {CopySlot(Here, a, b), SwapSlots(Here, a, b)} :
          /\ Reads(bundle) /\ HasSlot(Here, a) /\ HasSlot(Here, b)
          /\ bundle' = EncodeSetlists(after)
          /\ \E did : answer' = Replaced(did, b, NameAt(Here, b))
    BY <1>3 DEF Copy, Swap, Edit
  <2>2. answer'.to = b /\ answer'.replaced = NameAt(Here, b) BY <2>1 DEF Replaced
  <2>3. LeftAlone(Here, after, b) BY <1>2, <2>1, HeldIs
  <2> QED BY <2>1, <2>2, <2>3, EditIs
<1>4. CASE \E d \in Singles \cup {file} : ImportInto(d, a)
  <2>1. PICK d \in Singles \cup {file} : ImportInto(d, a) BY <1>4
  <2>2. /\ Reads(bundle) /\ HasSlot(Here, a)
        /\ bundle' = EncodeSetlists(PutAt(Here, a, d))
        /\ answer'.to = a /\ answer'.replaced = NameAt(Here, a)
    BY <2>1 DEF ImportInto
  <2>3. LeftAlone(Here, PutAt(Here, a, d), a) BY <1>2, <2>2, HeldIs
  <2> QED BY <2>2, <2>3, EditIs
<1> QED BY <1>1, <1>3, <1>4

\* A file of presets, and the slot taken out of it as a rig on its way to a
\* preset again.
Stocked ==
  task.kind = "setlist" =>
    /\ Reads(bundle) => AllPresets(Here)
    /\ IsPreset(task.over)
    /\ file = NoFile \/ IsPreset(file)
    /\ \/ pc \in {"bundle", "refused"}
       \/ /\ Reads(bundle) /\ answer.to \in Places /\ HasSlot(Here, answer.to)
          /\ Rebuilding(SlotAt(Here, answer.to))

\* A file comes with presets in its slots, or is not read.
LEMMA StockedInit == SetlistsInit => Stocked
<1> SUFFICES ASSUME SetlistsInit, task.kind = "setlist" PROVE Stocked BY DEF Stocked
<1>1. ~TransferInit
  BY DEF TransferInit, Init, Tasks, Make, CompileOver, Rebuild, TransferTasks, Import,
         Export, Show
<1>2. PICK b \in Bundles, t \in Templates : task = Bundled(b, t) BY <1>1 DEF SetlistsInit
<1>3. task.was = b /\ task.over = t BY <1>2 DEF Bundled
<1>4. bundle = b /\ pc = "bundle" /\ file = NoFile BY <1>1, <1>3 DEF SetlistsInit
<1>5. IsPreset(t) BY BuildsAssumption
<1>6. Reads(b) => AllPresets(Opened(b))
  <2> HAVE Reads(b)
  <2>1. \A l \in DOMAIN b.payload : \A s \in DOMAIN b.payload[l] : IsPreset(b.payload[l][s])
    BY SetlistsAssumption DEF Reads, Schemas
  <2> QED BY <2>1 DEF AllPresets, HasSlot, SlotAt, Opened
<1> QED BY <1>3, <1>4, <1>5, <1>6 DEF Stocked, Here

\* Only what is saved is a file.
LEMMA OnlySaved ==
  ASSUME Next, pc' # "written" \/ ~Save
  PROVE  file' = file
BY DEF Next, Load, TakeEntry, MissCab, NoSuchGear, ImplyCab, FillIn, DemandMore, Settle,
       Say, CheckClaims, FitChain, Judge, LowerChain, RestoreState, WriteSections,
       WritePedal, Save, ReadBack, Refuse, Resolved, Goto, build

\* A build is a slot's, and ends in what the slot holds.
LEMMA StockedBuilds ==
  ASSUME Stocked, task.kind = "setlist", TransferNext, UNCHANGED <<bundle, answer>>
  PROVE  /\ task' = task /\ Stocked'
         /\ pc' = "written" => file' = SlotAt(Here, answer.to)
<1>1. pc \notin {"bundle", "refused"}
  BY DEF TransferNext, Next, Load, TakeEntry, MissCab, NoSuchGear, ImplyCab, FillIn,
         DemandMore, Settle, Say, CheckClaims, FitChain, Judge, LowerChain, RestoreState,
         WriteSections, WritePedal, Save, ReadBack, Unreadable, ReadFile, ReadRig, PutBack,
         PlaceBlocks, Recall, Route, ReadAgain
<1>2. /\ Reads(bundle) => AllPresets(Here)
      /\ IsPreset(task.over)
      /\ file = NoFile \/ IsPreset(file)
      /\ Reads(bundle) /\ answer.to \in Places /\ HasSlot(Here, answer.to)
      /\ Rebuilding(SlotAt(Here, answer.to))
  BY <1>1 DEF Stocked
<1>3. PICK d : d = SlotAt(Here, answer.to) OBVIOUS
<1>4. IsPreset(d) /\ Rebuilding(d) BY <1>2, <1>3 DEF AllPresets
<1>5. Next
  <2>1. pc \notin {"read", "exported", "place", "recall", "route", "imported"}
    BY <1>4 DEF Rebuilding
  <2> QED BY <2>1 DEF TransferNext, Unreadable, ReadFile, ReadRig, PutBack, PlaceBlocks,
                      Recall, Route, ReadAgain
<1>6. Rebuilding(d)' /\ task' = task BY <1>4, <1>5, RebuildStep
<1>7. Here' = Here BY DEF Here
<1>8. pc' = "written" => file' = d BY <1>6 DEF Rebuilding
<1>9. file' = NoFile \/ IsPreset(file')
  <2>1. CASE pc' = "written" BY <1>4, <1>8, <2>1
  <2>2. CASE pc' # "written" BY <1>2, <1>5, <2>2, OnlySaved
  <2> QED BY <2>1, <2>2
<1>10. Rebuilding(SlotAt(Here, answer.to))' BY <1>3, <1>6, <1>7 DEF Rebuilding
<1>11. /\ (Reads(bundle) => AllPresets(Here))' /\ (IsPreset(task.over))'
       /\ (Reads(bundle) /\ answer.to \in Places /\ HasSlot(Here, answer.to))'
  BY <1>2, <1>6, <1>7
<1> QED BY <1>3, <1>6, <1>8, <1>9, <1>10, <1>11 DEF Stocked

\* An edit leaves the file of presets one, and a slot taken out as a rig is
\* the slot the answer names.
LEMMA StockedEdits ==
  ASSUME Stocked, task.kind = "setlist",
         Unopened \/ \E a, b \in Places : Setlist(a, b)
  PROVE  /\ task' = task /\ Stocked'
         /\ pc # "written" => pc' # "written"
<1>1. /\ Reads(bundle) => AllPresets(Here)
      /\ IsPreset(task.over)
      /\ file = NoFile \/ IsPreset(file)
  BY DEF Stocked
<1>2. IsOpen(Here) /\ Here.schema = bundle.schema BY OpenedHas DEF Here
\* What is written by an edit of a file that held presets.
<1>3. ASSUME NEW after, bundle' = EncodeSetlists(after), IsOpen(after), AllPresets(after),
             UNCHANGED task, file' = file \/ file' = NoFile, pc' = "bundle"
      PROVE  Stocked'
  <2>1. Here' = after BY <1>3, EncodedIs DEF Here
  <2>2. AllPresets(Here)' BY <1>3, <2>1 DEF AllPresets, HasSlot, SlotAt
  <2> QED BY <1>1, <1>3, <2>2 DEF Stocked
\* What leaves the file as it is, and starts nothing.
<1>4. ASSUME UNCHANGED <<task, pc, bundle>>, file' = file \/ IsPreset(file'), pc = "bundle"
      PROVE  Stocked'
  <2>1. Here' = Here BY <1>4 DEF Here
  <2>2. (Reads(bundle) => AllPresets(Here))'
    BY <1>1, <1>4, <2>1 DEF AllPresets, HasSlot, SlotAt
  <2> QED BY <1>1, <1>4, <2>2 DEF Stocked
<1>5. CASE Unopened
  <2>1. /\ pc' = "refused" /\ UNCHANGED <<task, file, bundle>>
        /\ ~Reads(bundle)
    BY <1>5 DEF Unopened, Refuse, Goto, build
  <2>2. (~Reads(bundle))' BY <2>1
  <2> QED BY <1>1, <2>1, <2>2 DEF Stocked
<1>6. CASE \E a, b \in Places : Setlist(a, b)
  <2>1. PICK a \in Places, b \in Places : Setlist(a, b) BY <1>6
  <2>2. CASE RefuseEdit(a, b) BY <1>4, <2>2 DEF RefuseEdit, Wrong, Rest, Ready
  <2>3. CASE Copy(a, b) \/ Swap(a, b)
    <3>1. PICK after \in {CopySlot(Here, a, b), SwapSlots(Here, a, b)} :
            /\ Reads(bundle) /\ HasSlot(Here, a) /\ HasSlot(Here, b) /\ pc = "bundle"
            /\ bundle' = EncodeSetlists(after) /\ UNCHANGED <<task, file, pc>>
      BY <2>3 DEF Copy, Swap, Edit, Rest, Ready
    <3>2. AllPresets(after) BY <1>1, <1>2, <3>1, PresetsStay
    <3>3. IsOpen(after) BY <1>2, <3>1, HeldIs DEF LeftAlone
    <3> QED BY <1>3, <3>1, <3>2, <3>3
  <2>4. CASE ExportPreset(a)
    <3>1. /\ Reads(bundle) /\ HasSlot(Here, a) /\ pc = "bundle"
          /\ file' = SlotAt(Here, a) /\ UNCHANGED <<task, pc, bundle>>
      BY <2>4 DEF ExportPreset, Rest, Ready
    <3>2. IsPreset(file') BY <1>1, <3>1 DEF AllPresets
    <3> QED BY <1>4, <3>1, <3>2
  <2>5. CASE ExportRig(a)
    <3>1. Reads(bundle) /\ HasSlot(Here, a) /\ pc = "bundle" BY <2>5 DEF ExportRig, Ready
    <3>2. CASE ~ValidRig(Lift(SlotAt(Here, a)))
      <4>1. UNCHANGED <<task, pc, bundle, file>> BY <2>5, <3>2 DEF ExportRig, Wrong, Rest
      <4> QED BY <1>4, <3>1, <4>1
    <3>3. CASE ValidRig(Lift(SlotAt(Here, a)))
      <4>1. /\ rig' = Lift(SlotAt(Here, a)) /\ pc' = "load"
            /\ doc' = [task.over EXCEPT !.device = Device, !.name = rig'.name]
            /\ answer' = Report("written", a) /\ UNCHANGED <<task, file, bundle>>
        BY <2>5, <3>3 DEF ExportRig, Goto
      <4>2. IsDocument(doc') BY <1>1, <4>1, OpenedIs
      <4>3. Here' = Here /\ answer'.to = a BY <4>1 DEF Here, Report
      <4>4. PICK d : d = SlotAt(Here, a) OBVIOUS
      <4>5. Rebuilding(d)' BY <4>1, <4>2, <4>4 DEF Rebuilding, IsDocument
      <4>6. Rebuilding(SlotAt(Here, answer.to))'
        <5>1. d = SlotAt(Here, answer.to)' BY <4>3, <4>4
        <5> QED BY <4>5, <5>1 DEF Rebuilding
      <4>7. (Reads(bundle) /\ answer.to \in Places /\ HasSlot(Here, answer.to))'
        BY <3>1, <4>1, <4>3
      <4>8. (Reads(bundle) => AllPresets(Here))'
        BY <1>1, <3>1, <4>3 DEF AllPresets, HasSlot, SlotAt
      <4> QED BY <1>1, <4>1, <4>6, <4>7, <4>8 DEF Stocked
    <3> QED BY <3>2, <3>3
  <2>6. CASE \E d \in Singles \cup {file} : ImportInto(d, a)
    <3>1. PICK d \in Singles \cup {file} : ImportInto(d, a) BY <2>6
    <3>2. /\ Reads(bundle) /\ HasSlot(Here, a) /\ d # NoFile
          /\ bundle' = EncodeSetlists(PutAt(Here, a, d)) /\ pc' = "bundle"
          /\ file' = NoFile /\ UNCHANGED task
      BY <3>1 DEF ImportInto, Forgotten
    <3>3. IsPreset(d) BY <1>1, <3>2, SetlistsAssumption
    <3>4. AllPresets(PutAt(Here, a, d)) BY <1>1, <1>2, <3>2, <3>3, PresetsStay
    <3>5. IsOpen(PutAt(Here, a, d)) BY <1>2, <3>2, PutAtIs
    <3> QED BY <1>3, <3>2, <3>4, <3>5
  <2> QED BY <2>1, <2>2, <2>3, <2>4, <2>5, <2>6 DEF Setlist
<1>7. task' = task
  BY DEF Unopened, Refuse, Goto, Setlist, RefuseEdit, Wrong, Rest, Copy, Swap, Edit,
         ExportPreset, ExportRig, ImportInto, Forgotten
<1>8. pc # "written" => pc' # "written"
  BY DEF Unopened, Refuse, Goto, Setlist, RefuseEdit, Wrong, Rest, Copy, Swap, Edit,
         ExportPreset, ExportRig, ImportInto, Forgotten, Ready
<1> QED BY <1>5, <1>6, <1>7, <1>8

\* Nothing else becomes a setlist's.
LEMMA StaysElse ==
  ASSUME SetlistsNext, task.kind # "setlist"
  PROVE  task'.kind # "setlist"
<1>1. CASE TransferNext
  <2>1. CASE \E t \in Templates : ReadBack(t)
    <3>1. PICK t \in Templates : ReadBack(t) BY <2>1
    <3>2. task' = Rebuild(file, t) BY <3>1 DEF ReadBack
    <3> QED BY <3>2 DEF Rebuild
  <2>2. CASE Unreadable \/ ReadFile \/ ReadRig
    BY <2>2 DEF Unreadable, ReadFile, ReadRig, Refuse, Goto
  <2>3. CASE PutBack \/ PlaceBlocks \/ Recall
    BY <2>3 DEF PutBack, PlaceBlocks, Recall, Refuse, Goto
  <2>4. CASE Route \/ ReadAgain
    BY <2>4 DEF Route, ReadAgain, Refuse, Goto
  <2>5. CASE Load \/ TakeEntry \/ MissCab \/ NoSuchGear \/ ImplyCab
    BY <2>5 DEF Load, TakeEntry, MissCab, NoSuchGear, ImplyCab, Resolved, Refuse, Goto
  <2>6. CASE FillIn \/ DemandMore \/ Settle \/ Say \/ CheckClaims
    BY <2>6 DEF FillIn, DemandMore, Settle, Say, CheckClaims, Refuse, Goto
  <2>7. CASE FitChain \/ Judge \/ LowerChain \/ RestoreState
    BY <2>7 DEF FitChain, Judge, LowerChain, RestoreState, Refuse, Goto
  <2>8. CASE WriteSections \/ WritePedal \/ Save
    BY <2>8 DEF WriteSections, WritePedal, Save, Refuse, Goto
  <2> QED BY <1>1, <2>1, <2>2, <2>3, <2>4, <2>5, <2>6, <2>7, <2>8 DEF TransferNext, Next
<1>2. CASE Unopened \/ \E a, b \in Places : Setlist(a, b)
  BY <1>2 DEF Unopened, Refuse, Goto, Setlist, RefuseEdit, Wrong, Rest, Copy, Swap, Edit,
         ExportPreset, ExportRig, ImportInto, Forgotten
<1> QED BY <1>1, <1>2 DEF SetlistsNext

\* What the file's slots are taken out as comes back as what they hold.
LEMMA StockedStep ==
  ASSUME Stocked, [SetlistsNext]_setlists
  PROVE  /\ Stocked'
         /\ task.kind = "setlist" /\ pc # "written" /\ pc' = "written" =>
              file' = SlotAt(Here, answer.to)
<1>1. CASE UNCHANGED setlists
  BY <1>1 DEF setlists, transfer, vars, build, Stocked, Here, Rebuilding, AllPresets, HasSlot, SlotAt
<1>2. CASE SetlistsNext /\ task.kind # "setlist"
  BY <1>2, StaysElse DEF Stocked
<1>3. CASE SetlistsNext /\ task.kind = "setlist"
  <2>1. CASE TransferNext /\ UNCHANGED <<bundle, answer>>
    BY <1>3, <2>1, StockedBuilds
  <2>2. CASE Unopened \/ \E a, b \in Places : Setlist(a, b)
    BY <1>3, <2>2, StockedEdits
  <2> QED BY <1>3, <2>1, <2>2 DEF SetlistsNext
<1> QED BY <1>1, <1>2, <1>3

\* An edit of a setlist file loses no preset but the one it says it replaced,
\* and a slot taken out as a rig and compiled is the preset the slot holds
\* (setlist.Write, Copy, Swap, fileslots.edit, Import, Export).
THEOREM EditsLoseNothing == SetlistsSpec => NothingLost
<1>1. Stocked /\ [SetlistsNext]_setlists =>
        [/\ bundle' # bundle =>
              LET was == Opened(bundle)
                  now == Opened(bundle')
              IN /\ Reads(bundle')
                 /\ Addresses(now) = Addresses(was)
                 /\ \A a \in Addresses(was) :
                      \/ StillThere(SlotAt(was, a), now)
                      \/ /\ a = answer'.to
                         /\ answer'.replaced = Listing(was, a[1])[a[2]].name
         /\ task.kind = "setlist" /\ pc # "written" /\ pc' = "written" =>
              file' = SlotAt(Here, answer.to)]_setlists
  BY EditsKeep, StockedStep DEF EditLoses
<1>2. Stocked /\ [SetlistsNext]_setlists => Stocked' BY StockedStep
<1> QED BY <1>1, <1>2, StockedInit, PTL DEF SetlistsSpec, NothingLost

-----------------------------------------------------------------------------
(* Words that cancel *)

\* What is heard of a rig's words is the ones that count, in their order: as
\* many of the first so many words are heard as count among them.
LEMMA HeardIs ==
  ASSUME NEW terms, terms \in Seq(ToSet(terms))
  PROVE  /\ Heard(terms) \in Seq(ToSet(terms))
         /\ \E c : /\ c[0] = 0 /\ c[Len(terms)] = Len(Heard(terms))
                   /\ \A n \in 0 .. Len(terms) : c[n] \in 0 .. Len(Heard(terms))
                   /\ \A n \in 1 .. Len(terms) :
                        IF Counts(terms, terms[n])
                        THEN c[n] = c[n - 1] + 1 /\ Heard(terms)[c[n]] = terms[n]
                        ELSE c[n] = c[n - 1]
<1> DEFINE N == Len(terms)
           S == ToSet(terms)
           D == Seq(S)
           More(s, n) == IF Counts(terms, terms[n]) THEN Append(s, terms[n]) ELSE s
           step == [n \in 1 .. N |-> [s \in D |-> More(s, n)]]
           heard == CHOOSE f : f = [n \in 0 .. N |-> IF n = 0 THEN Empty
                       ELSE IF Counts(terms, terms[n]) THEN Append(f[n - 1], terms[n])
                       ELSE f[n - 1]]
<1>0. Heard(terms) = heard[N] BY DEF Heard
<1>1. N \in Nat /\ \A n \in 1 .. N : terms[n] \in S BY DEF ToSet
<1> HIDE DEF heard, N, S
<1>2. Empty \in D BY DEF Empty
<1>3. \A n \in 1 .. N : \A s \in D : More(s, n) \in D BY <1>1
<1>4. Steps(step, N, D)
  <2>1. \A n \in 1 .. N : [s \in D |-> More(s, n)] \in [D -> D] BY <1>3
  <2> HIDE DEF D, More
  <2> QED BY <2>1 DEF Steps
<1>5. PICK f : IsRun(f, Empty, step, N, D)
  <2> HIDE DEF D, step
  <2> QED BY <1>1, <1>2, <1>4, RunExists
<1>6. f = [n \in 0 .. N |-> IF n = 0 THEN Empty
                       ELSE IF Counts(terms, terms[n]) THEN Append(f[n - 1], terms[n])
                       ELSE f[n - 1]]
  <2>0. f \in [0 .. N -> D] /\ f[0] = Empty /\ \A n \in 1 .. N : f[n] = step[n][f[n - 1]]
    BY <1>5 DEF IsRun
  <2>1. \A n \in 1 .. N : step[n][f[n - 1]] = More(f[n - 1], n)
    <3> HIDE DEF D, More
    <3>1. \A n \in 1 .. N : n - 1 \in 0 .. N BY <1>1
    <3> QED BY <2>0, <3>1
  <2> HIDE DEF step, D
  <2>2. \A n \in 0 .. N : n = 0 \/ n \in 1 .. N BY <1>1
  <2> QED BY <2>0, <2>1, <2>2
<1> HIDE DEF step
<1>7. heard = [n \in 0 .. N |-> IF n = 0 THEN Empty
                       ELSE IF Counts(terms, terms[n]) THEN Append(heard[n - 1], terms[n])
                       ELSE heard[n - 1]]
  BY <1>6 DEF heard
<1>8. heard[0] = Empty /\ \A n \in 1 .. N : heard[n] = More(heard[n - 1], n)
  <2>1. 0 \in 0 .. N /\ \A n \in 1 .. N : n \in 0 .. N /\ n # 0 BY <1>1
  <2>2. heard[0] = Empty BY <1>7, <2>1
  <2>3. \A n \in 1 .. N :
          heard[n] = IF Counts(terms, terms[n]) THEN Append(heard[n - 1], terms[n])
                     ELSE heard[n - 1]
    BY <1>7, <2>1
  <2> QED BY <2>2, <2>3
<1>9. \A n \in 0 .. N : heard[n] \in D
  <2>1. heard[0] \in D /\ \A n \in 1 .. N : heard[n - 1] \in D => heard[n] \in D
    BY <1>2, <1>3, <1>8
  <2> HIDE DEF D
  <2> QED BY <1>1, <2>1, Throughout
<1> DEFINE Starts(s, t) == Len(s) <= Len(t) /\ \A i \in 1 .. Len(s) : s[i] = t[i]
           H == heard[N]
           back == [k \in 0 .. N |-> heard[N - k]]
           P == {s \in D : Starts(s, H)}
<1>10. \A s \in D : \A n \in 1 .. N : More(s, n) \in P => s \in P
  <2> SUFFICES ASSUME NEW s \in D, NEW n \in 1 .. N, More(s, n) \in P PROVE s \in P
    OBVIOUS
  <2>1. CASE ~Counts(terms, terms[n]) BY <2>1
  <2>2. CASE Counts(terms, terms[n])
    <3> DEFINE t == Append(s, terms[n])
    <3>1. /\ Len(t) = Len(s) + 1 /\ \A i \in 1 .. Len(s) : t[i] = s[i]
      BY <1>1, AppendIs
    <3>2. More(s, n) = t BY <2>2
    <3>3. Starts(t, H) /\ Len(s) \in Nat
      <4>1. Len(s) \in Nat OBVIOUS
      <4> HIDE DEF t, More, Starts, D, H
      <4>2. t \in P BY <3>2
      <4> QED BY <4>1, <4>2
    <3> HIDE DEF t, H
    <3>4. Starts(s, H)
      <4>1. H \in D /\ Len(H) \in Nat BY <1>1, <1>9 DEF H
      <4> HIDE DEF D
      <4>2. Len(s) <= Len(H) BY <3>1, <3>3, <4>1
      <4>3. \A i \in 1 .. Len(s) : i \in 1 .. Len(t) /\ s[i] = H[i] BY <3>1, <3>3
      <4> QED BY <4>2, <4>3
    <3> QED BY <3>4
  <2> QED BY <2>1, <2>2
<1>11. \A n \in 0 .. N : heard[n] \in P
  <2>1. back[0] = H /\ H \in P BY <1>1, <1>9
  <2>2. \A k \in 1 .. N : back[k - 1] \in P => back[k] \in P
    <3> SUFFICES ASSUME NEW k \in 1 .. N, back[k - 1] \in P PROVE back[k] \in P OBVIOUS
    <3>1. /\ N - k \in 0 .. N /\ N - k + 1 \in 1 .. N /\ N - (k - 1) = N - k + 1
          /\ N - k + 1 - 1 = N - k /\ k - 1 \in 0 .. N
      BY <1>1
    <3>2. back[k] = heard[N - k] /\ back[k - 1] = heard[N - k + 1] BY <3>1
    <3>3. heard[N - k + 1] = More(heard[N - k], N - k + 1) BY <1>8, <3>1
    <3>4. heard[N - k] \in D BY <1>9, <3>1
    <3> HIDE DEF back, P, D, More
    <3> QED BY <1>10, <3>1, <3>2, <3>3, <3>4
  <2>3. \A k \in 0 .. N : back[k] \in P
    <3> HIDE DEF back, P
    <3> QED BY <1>1, <2>1, <2>2, Throughout
  <2> TAKE n \in 0 .. N
  <2>4. N - n \in 0 .. N /\ N - (N - n) = n BY <1>1
  <2>5. back[N - n] = heard[n] BY <2>4
  <2> HIDE DEF back, P
  <2> QED BY <2>3, <2>4, <2>5
<1> DEFINE c == [n \in 0 .. N |-> Len(heard[n])]
<1>12. H \in D /\ Len(H) \in Nat BY <1>1, <1>9
<1>13. c[0] = 0 /\ c[N] = Len(H) BY <1>1, <1>8 DEF Empty
<1>14. \A n \in 0 .. N : c[n] \in 0 .. Len(H)
  <2> TAKE n \in 0 .. N
  <2>1. heard[n] \in D /\ Starts(heard[n], H) BY <1>11
  <2>2. Len(heard[n]) \in Nat BY <2>1
  <2> HIDE DEF H
  <2> QED BY <1>12, <2>1, <2>2
<1>15. ASSUME NEW n \in 1 .. N
       PROVE  IF Counts(terms, terms[n])
              THEN c[n] = c[n - 1] + 1 /\ H[c[n]] = terms[n]
              ELSE c[n] = c[n - 1]
  <2>1. n \in 0 .. N /\ n - 1 \in 0 .. N BY <1>1
  <2>2. heard[n] = More(heard[n - 1], n) /\ heard[n - 1] \in D BY <1>8, <1>9, <2>1
  <2>3. c[n] = Len(heard[n]) /\ c[n - 1] = Len(heard[n - 1]) BY <2>1
  <2>4. CASE ~Counts(terms, terms[n]) BY <2>2, <2>3, <2>4
  <2>5. CASE Counts(terms, terms[n])
    <3> DEFINE s == heard[n - 1]
               t == Append(s, terms[n])
    <3>1. Len(t) = Len(s) + 1 /\ t[Len(s) + 1] = terms[n] /\ Len(s) \in Nat
      BY <1>1, <2>2, AppendIs
    <3>2. heard[n] = t BY <2>2, <2>5
    <3>3. Starts(heard[n], H) BY <1>11, <2>1
    <3> HIDE DEF t, s, c, H
    <3>4. t[Len(s) + 1] = H[Len(s) + 1] BY <3>1, <3>2, <3>3
    <3> QED BY <2>3, <2>5, <3>1, <3>2, <3>4 DEF s
  <2> QED BY <2>4, <2>5
<1> HIDE DEF c
<1> QED BY <1>0, <1>12, <1>13, <1>14, <1>15 DEF N, S, D

\* Every word heard is one of the rig's, each a different one: an axis that
\* two of them contest, two of the rig's do.
LEMMA ContestedOf ==
  ASSUME NEW terms, terms \in Seq(ToSet(terms))
  PROVE  Contested(Heard(terms)) \subseteq Contested(terms)
<1> DEFINE N == Len(terms)
           H == Heard(terms)
           M == Len(H)
<1>1. PICK c : /\ c[0] = 0 /\ c[N] = M
               /\ \A n \in 0 .. N : c[n] \in 0 .. M
               /\ \A n \in 1 .. N : IF Counts(terms, terms[n])
                                    THEN c[n] = c[n - 1] + 1 /\ H[c[n]] = terms[n]
                                    ELSE c[n] = c[n - 1]
  BY HeardIs
<1>2. N \in Nat /\ M \in Nat /\ DOMAIN terms = 1 .. N /\ DOMAIN H = 1 .. M BY HeardIs
<1> HIDE DEF N, H, M
<1>3. ASSUME NEW i \in 1 .. M PROVE \E n \in 1 .. N : c[n] = i /\ H[i] = terms[n]
  <2> DEFINE T == {n \in 0 .. N : c[n] >= i}
  <2>1. T \subseteq Nat /\ N \in T BY <1>1, <1>2
  <2>2. PICK n \in T : \A m \in T : n <= m
    <3> HIDE DEF T
    <3> QED BY <2>1, Least
  <2>3. n \in 0 .. N /\ c[n] >= i /\ n # 0 BY <1>1, <1>2
  <2>4. n \in 1 .. N /\ n - 1 \in 0 .. N /\ ~ (n <= n - 1) BY <1>2, <2>3
  <2>5. ~ (c[n - 1] >= i) BY <2>2, <2>4
  <2>6. c[n] \in 0 .. M /\ c[n - 1] \in 0 .. M BY <1>1, <2>3, <2>4
  <2>7. Counts(terms, terms[n]) /\ c[n] = c[n - 1] + 1 /\ H[c[n]] = terms[n]
    BY <1>1, <1>2, <2>3, <2>4, <2>5, <2>6
  <2>8. c[n] = i BY <1>2, <2>3, <2>5, <2>6, <2>7
  <2> QED BY <2>4, <2>7, <2>8
<1>4. ASSUME NEW axis \in DOMAIN Axes
      PROVE  LET A == {i \in DOMAIN H : OnAxis(H[i].term, axis)}
                 B == {i \in DOMAIN terms : OnAxis(terms[i].term, axis)}
             IN /\ IsFiniteSet(A) /\ IsFiniteSet(B)
                /\ Cardinality(A) <= Cardinality(B)
  <2> DEFINE A == {i \in DOMAIN H : OnAxis(H[i].term, axis)}
             B == {i \in DOMAIN terms : OnAxis(terms[i].term, axis)}
             f == [i \in A |-> CHOOSE n \in 1 .. N : c[n] = i /\ H[i] = terms[n]]
  <2>1. IsFiniteSet(B)
    <3>1. IsFiniteSet(1 .. N) BY <1>2, FS_Interval
    <3>2. B \subseteq 1 .. N BY <1>2
    <3> HIDE DEF B
    <3> QED BY <3>1, <3>2, FS_Subset
  <2>2. \A i \in A : f[i] \in 1 .. N /\ c[f[i]] = i /\ H[i] = terms[f[i]] BY <1>2, <1>3
  <2>3. \A i \in A : f[i] \in B BY <1>2, <2>2
  <2>4. f \in [A -> B] BY <2>3
  <2>5. \A i, j \in A : f[i] = f[j] => i = j BY <2>2
  <2>6. f \in Injection(A, B) BY <2>4, <2>5 DEF Injection, IsInjective
  <2> HIDE DEF A, B, f
  <2>7. IsFiniteSet(A) /\ Cardinality(A) <= Cardinality(B) BY <2>1, <2>6, FS_Injection
  <2> QED BY <2>1, <2>7 DEF A, B
<1>5. ASSUME NEW axis \in Contested(H) PROVE axis \in Contested(terms)
  <2> DEFINE A == {i \in DOMAIN H : OnAxis(H[i].term, axis)}
             B == {i \in DOMAIN terms : OnAxis(terms[i].term, axis)}
  <2>1. axis \in DOMAIN Axes /\ Cardinality(A) > 1 BY DEF Contested
  <2>2. IsFiniteSet(A) /\ IsFiniteSet(B) /\ Cardinality(A) <= Cardinality(B) BY <1>4, <2>1
  <2>3. Cardinality(A) \in Nat /\ Cardinality(B) \in Nat
    <3> HIDE DEF A, B
    <3> QED BY <2>2, FS_CardinalityType
  <2>4. Cardinality(B) > 1
    <3> HIDE DEF A, B
    <3> QED BY <2>1, <2>2, <2>3
  <2> QED BY <2>1, <2>4 DEF Contested
<1> QED BY <1>5 DEF H

\* No word that asks for a presence turns a knob.
LEMMA NeedsTurnNothing ==
  \A claim \in DOMAIN Needs : claim \notin DOMAIN Turns
<1>1. DOMAIN Needs = {"envelope-swept", "slap"} BY DEF Needs
<1>2. DOMAIN Turns = {row[1] : row \in Turning} BY DEF Turns
<1>3. \A row \in Turning : row[1] \notin {"envelope-swept", "slap"} BY DEF Turning
<1> QED BY <1>1, <1>2, <1>3

\* A word that does not count seats nothing and turns nothing; one that counts
\* does as much where only what counts is heard.
LEMMA CountsIs ==
  ASSUME NEW terms, terms \in Seq(ToSet(terms)), NEW h, NEW b, NEW c, NEW instrument
  PROVE  /\ ~Counts(terms, h) =>
              /\ Claim(b, h.term, instrument) = b
              /\ Land(b, terms, h, instrument) = b
              /\ Moved(c, terms, h) = c
         /\ Counts(terms, h) =>
              /\ Land(b, Heard(terms), h, instrument) = Land(b, terms, h, instrument)
              /\ Moved(c, Heard(terms), h) = Moved(c, terms, h)
<1>1. ASSUME ~Counts(terms, h)
      PROVE  /\ Claim(b, h.term, instrument) = b
             /\ Land(b, terms, h, instrument) = b
             /\ Moved(c, terms, h) = c
  <2>1. Cancelled(terms, h.term) /\ h.term \notin DOMAIN Needs BY <1>1 DEF Counts
  <2>2. Presence(b, h.term, instrument) = NoModel BY <2>1 DEF Presence
  <2>3. Landing(b, terms, h.term, instrument) = NoModel BY <2>1 DEF Landing
  <2> QED BY <2>1, <2>2, <2>3 DEF Claim, Land, SeatAny, Moved
<1>2. ASSUME Counts(terms, h)
      PROVE  /\ Land(b, Heard(terms), h, instrument) = Land(b, terms, h, instrument)
             /\ Moved(c, Heard(terms), h) = Moved(c, terms, h)
  <2>1. CASE h.term \notin DOMAIN Turns
    BY <2>1 DEF Land, Landing, Moved
  <2>2. CASE h.term \in DOMAIN Turns
    <3>1. ~Cancelled(terms, h.term) BY <1>2, <2>2, NeedsTurnNothing DEF Counts
    <3>2. ~Cancelled(Heard(terms), h.term) BY <3>1, ContestedOf DEF Cancelled
    <3> QED BY <3>1, <3>2 DEF Land, Landing, Moved
  <2> QED BY <2>1, <2>2
<1> QED BY <1>1, <1>2

\* What is worked out over every word, and over those that count, comes to the
\* same where a word that does not count changes nothing.
Along(N, M, p, q, c) ==
  /\ p[0] = q[0] /\ c[0] = 0
  /\ \A n \in 0 .. N : c[n] \in 0 .. M
  /\ \A n \in 1 .. N :
       \/ c[n] = c[n - 1] /\ p[n] = p[n - 1]
       \/ /\ c[n] = c[n - 1] + 1
          /\ c[n] \in 1 .. M /\ p[n - 1] = q[c[n] - 1] => p[n] = q[c[n]]

\* Then both come to the same at the end.
LEMMA AlongIs ==
  ASSUME NEW N \in Nat, NEW M \in Nat, NEW p, NEW q, NEW c, Along(N, M, p, q, c)
  PROVE  p[N] = q[c[N]]
<1> DEFINE D == {0}
           g == [n \in 0 .. N |-> IF p[n] = q[c[n]] THEN 0 ELSE 1]
<1>1. g[0] \in D BY DEF Along
<1>2. \A n \in 1 .. N : g[n - 1] \in D => g[n] \in D
  <2> TAKE n \in 1 .. N
  <2>1. n \in 0 .. N /\ n - 1 \in 0 .. N OBVIOUS
  <2>2. c[n] \in 0 .. M /\ c[n - 1] \in 0 .. M BY <2>1 DEF Along
  <2>3. p[n - 1] = q[c[n - 1]] => p[n] = q[c[n]]
    <3>1. CASE c[n] = c[n - 1] /\ p[n] = p[n - 1] BY <3>1
    <3>2. CASE /\ c[n] = c[n - 1] + 1
               /\ c[n] \in 1 .. M /\ p[n - 1] = q[c[n] - 1] => p[n] = q[c[n]]
      <4>1. c[n] \in 1 .. M /\ c[n] - 1 = c[n - 1] BY <2>2, <3>2
      <4> QED BY <3>2, <4>1
    <3> QED BY <3>1, <3>2 DEF Along
  <2> QED BY <2>1, <2>3
<1>3. g[N] \in D
  <2>1. N \in 0 .. N OBVIOUS
  <2> HIDE DEF g, D
  <2>2. \A n \in 0 .. N : g[n] \in D BY <1>1, <1>2, Throughout
  <2> QED BY <2>1, <2>2
<1> QED BY <1>3

\* What the claims and words that count ask for is what all of them do
\* (compile.demand).
LEMMA DemandHeard ==
  ASSUME NEW b \in Seq(Models), NEW instrument, NEW terms, terms \in Seq(ToSet(terms)),
         NEW technique
  PROVE  Demand(b, Heard(terms), technique, instrument) = Demand(b, terms, technique, instrument)
<1> DEFINE N == Len(terms)
           H == Heard(terms)
           M == Len(H)
<1>1. PICK c : /\ c[0] = 0 /\ c[N] = M
               /\ \A n \in 0 .. N : c[n] \in 0 .. M
               /\ \A n \in 1 .. N : IF Counts(terms, terms[n])
                                    THEN c[n] = c[n - 1] + 1 /\ H[c[n]] = terms[n]
                                    ELSE c[n] = c[n - 1]
  BY HeardIs
<1>2. N \in Nat /\ M \in Nat BY HeardIs
<1>3. H \in Seq(ToSet(H)) BY HeardIs, SeqIs
<1>4. CASE ~Measured(instrument) BY <1>4 DEF Demand
<1>5. CASE Measured(instrument)
  <2>1. PICK f : /\ f[0] = Present(b, Claims(terms, technique), instrument)
                 /\ Demand(b, terms, technique, instrument) = f[N]
                 /\ \A n \in 1 .. N : f[n] = Land(f[n - 1], terms, terms[n], instrument)
    BY <1>5, DemandIs
  <2>2. PICK g : /\ g[0] = Present(b, Claims(H, technique), instrument)
                 /\ Demand(b, H, technique, instrument) = g[M]
                 /\ \A n \in 1 .. M : g[n] = Land(g[n - 1], H, H[n], instrument)
    <3> HIDE DEF H
    <3> QED BY <1>3, <1>5, DemandIs
  <2> DEFINE all == Claims(terms, technique)
             some == Claims(H, technique)
  <2>3. /\ Len(all) = N + 1 /\ all[N + 1] = technique
        /\ \A n \in 1 .. N : all[n] = terms[n].term
    BY <1>2 DEF Claims
  <2>4. /\ Len(some) = M + 1 /\ some[M + 1] = technique
        /\ \A n \in 1 .. M : some[n] = H[n].term
    BY <1>2 DEF Claims
  <2> HIDE DEF all, some, N, M, H
  <2>5. PICK k \in Nat, l \in Nat : k = N + 1 /\ l = M + 1 BY <1>2
  <2>6. Len(all) = k /\ Len(some) = l BY <2>3, <2>4, <2>5
  <2>7. PICK p : Seated(p, b, all, instrument) BY <1>5, <2>5, <2>6, PresentIs
  <2>8. /\ p[0] = b /\ Present(b, all, instrument) = p[k]
        /\ \A n \in 1 .. k : p[n] = Claim(p[n - 1], all[n], instrument)
    BY <2>6, <2>7 DEF Seated
  <2>9. PICK q : Seated(q, b, some, instrument) BY <1>5, <2>5, <2>6, PresentIs
  <2>10. /\ q[0] = b /\ Present(b, some, instrument) = q[l]
         /\ \A n \in 1 .. l : q[n] = Claim(q[n - 1], some[n], instrument)
    BY <2>6, <2>9 DEF Seated
  <2>11. /\ \A n \in 1 .. N : p[n] = Claim(p[n - 1], terms[n].term, instrument)
         /\ \A n \in 1 .. M : q[n] = Claim(q[n - 1], H[n].term, instrument)
         /\ p[k] = Claim(p[N], technique, instrument)
         /\ q[l] = Claim(q[M], technique, instrument)
    <3>1. /\ k \in 1 .. k /\ k - 1 = N /\ \A n \in 1 .. N : n \in 1 .. k
          /\ l \in 1 .. l /\ l - 1 = M /\ \A n \in 1 .. M : n \in 1 .. l
      BY <1>2, <2>5
    <3>2. all[k] = technique /\ some[l] = technique BY <2>3, <2>4, <2>5
    <3> QED BY <2>3, <2>4, <2>8, <2>10, <3>1, <3>2
  <2>12. p[N] = q[c[N]]
    <3>1. ASSUME NEW n \in 1 .. N
          PROVE  \/ c[n] = c[n - 1] /\ p[n] = p[n - 1]
                 \/ /\ c[n] = c[n - 1] + 1
                    /\ c[n] \in 1 .. M /\ p[n - 1] = q[c[n] - 1] => p[n] = q[c[n]]
      <4>1. CASE ~Counts(terms, terms[n])
        <5>1. \A x : Claim(x, terms[n].term, instrument) = x BY <4>1, CountsIs
        <5>2. p[n] = p[n - 1] BY <2>11, <5>1
        <5> QED BY <1>1, <4>1, <5>2
      <4>2. CASE Counts(terms, terms[n])
        <5>1. c[n] = c[n - 1] + 1 /\ H[c[n]] = terms[n] BY <1>1, <4>2
        <5> QED BY <2>11, <5>1
      <4> QED BY <4>1, <4>2
    <3>2. p[0] = q[0] BY <2>8, <2>10
    <3>3. Along(N, M, p, q, c) BY <1>1, <3>1, <3>2 DEF Along
    <3> QED BY <1>2, <3>3, AlongIs
  <2>13. f[0] = g[0]
    <3>1. f[0] = p[k] BY <2>1, <2>8 DEF all
    <3>2. g[0] = q[l] BY <2>2, <2>10 DEF some
    <3>3. p[N] = q[M] BY <1>1, <2>12
    <3> QED BY <2>11, <3>1, <3>2, <3>3
  <2>14. ASSUME NEW n \in 1 .. N
         PROVE  \/ c[n] = c[n - 1] /\ f[n] = f[n - 1]
                \/ /\ c[n] = c[n - 1] + 1
                   /\ c[n] \in 1 .. M /\ f[n - 1] = g[c[n] - 1] => f[n] = g[c[n]]
    <3>1. CASE ~Counts(terms, terms[n])
      <4>1. f[n] = f[n - 1] BY <2>1, <3>1, CountsIs
      <4> QED BY <1>1, <3>1, <4>1
    <3>2. CASE Counts(terms, terms[n])
      <4>1. c[n] = c[n - 1] + 1 /\ H[c[n]] = terms[n] BY <1>1, <3>2
      <4>2. \A x : Land(x, H, terms[n], instrument) = Land(x, terms, terms[n], instrument)
        BY <3>2, CountsIs DEF H
      <4> QED BY <2>1, <2>2, <4>1, <4>2
    <3> QED BY <3>1, <3>2
  <2>15. f[N] = g[c[N]]
    <3>1. Along(N, M, f, g, c) BY <1>1, <2>13, <2>14 DEF Along
    <3> QED BY <1>2, <3>1, AlongIs
  <2> QED BY <1>1, <2>1, <2>2, <2>15 DEF H
<1> QED BY <1>4, <1>5

\* What the words that count move is what all of them do (compile.move).
LEMMA MoveHeard ==
  ASSUME NEW k \in Nat, NEW x \in SetChains(k), NEW terms, terms \in Seq(ToSet(terms)),
         \A heard \in ToSet(terms) : IsHeard(heard)
  PROVE  Move(x, Heard(terms)) = Move(x, terms)
<1> DEFINE N == Len(terms)
           H == Heard(terms)
           M == Len(H)
<1>1. PICK c : /\ c[0] = 0 /\ c[N] = M
               /\ \A n \in 0 .. N : c[n] \in 0 .. M
               /\ \A n \in 1 .. N : IF Counts(terms, terms[n])
                                    THEN c[n] = c[n - 1] + 1 /\ H[c[n]] = terms[n]
                                    ELSE c[n] = c[n - 1]
  BY HeardIs
<1>2. N \in Nat /\ M \in Nat BY HeardIs
<1>3. H \in Seq(ToSet(H)) BY HeardIs, SeqIs
<1>4. \A heard \in ToSet(H) : IsHeard(heard)
  <2>1. H \in Seq(ToSet(terms)) BY HeardIs
  <2>2. ToSet(H) \subseteq ToSet(terms)
    <3> HIDE DEF H
    <3> QED BY <2>1 DEF ToSet
  <2> QED BY <2>2
<1> HIDE DEF N, M, H
<1>5. PICK f : /\ f[0] = x /\ Move(x, terms) = f[N]
               /\ \A n \in 1 .. N : f[n] = Moved(f[n - 1], terms, terms[n])
  BY MoveIs DEF N
<1>6. PICK g : /\ g[0] = x /\ Move(x, H) = g[M]
               /\ \A n \in 1 .. M : g[n] = Moved(g[n - 1], H, H[n])
  BY <1>3, <1>4, MoveIs DEF M
<1>7. ASSUME NEW n \in 1 .. N
      PROVE  \/ c[n] = c[n - 1] /\ f[n] = f[n - 1]
             \/ /\ c[n] = c[n - 1] + 1
                /\ c[n] \in 1 .. M /\ f[n - 1] = g[c[n] - 1] => f[n] = g[c[n]]
  <2>1. CASE ~Counts(terms, terms[n])
    <3>1. f[n] = f[n - 1] BY <1>5, <2>1, CountsIs
    <3> QED BY <1>1, <2>1, <3>1
  <2>2. CASE Counts(terms, terms[n])
    <3>1. c[n] = c[n - 1] + 1 /\ H[c[n]] = terms[n] BY <1>1, <2>2
    <3>2. \A y : Moved(y, H, terms[n]) = Moved(y, terms, terms[n])
      BY <2>2, CountsIs DEF H
    <3> QED BY <1>5, <1>6, <3>1, <3>2
  <2> QED BY <2>1, <2>2
<1>8. f[0] = g[0] BY <1>5, <1>6
<1>9. f[N] = g[c[N]]
  <2>1. Along(N, M, f, g, c) BY <1>1, <1>7, <1>8 DEF Along
  <2>2. N \in Nat BY <1>2
  <2>3. M \in Nat BY <1>2
  <2> HIDE DEF Along
  <2> QED BY <2>1, <2>2, <2>3, AlongIs
<1> QED BY <1>1, <1>5, <1>6, <1>9 DEF H

\* The rest of the rig is built as though neither of two words that cancel was
\* said.
LEMMA HeardStep ==
  ASSUME Sane, [Next]_vars
  PROVE  [/\ pc = "demand" =>
                blocks' = Demand(blocks, Heard(rig.terms), rig.technique, rig.instrument)
          /\ pc = "settle" =>
                chain' = Move(SpecFor(blocks), Heard(rig.terms))]_vars
<1> SUFFICES ASSUME Next, pc \in {"demand", "settle"}
             PROVE  /\ pc = "demand" =>
                         blocks' = Demand(blocks, Heard(rig.terms), rig.technique, rig.instrument)
                    /\ pc = "settle" => chain' = Move(SpecFor(blocks), Heard(rig.terms))
  OBVIOUS
<1>1. Building BY DEF Sane, Rebuilding
<1>2. blocks \in Seq(Models) /\ IsRigFile(rig) BY <1>1 DEF Building
<1>3. rig.terms \in Seq(ToSet(rig.terms)) /\ \A heard \in ToSet(rig.terms) : IsHeard(heard)
  BY <1>2 DEF IsRigFile
<1>4. CASE pc = "demand"
  <2>1. DemandMore
    BY <1>4 DEF Next, Load, TakeEntry, MissCab, NoSuchGear, ImplyCab, FillIn, Settle,
       Say, CheckClaims, FitChain, Judge, LowerChain, RestoreState, WriteSections,
       WritePedal, Save, ReadBack
  <2> QED BY <1>2, <1>3, <1>4, <2>1, DemandHeard DEF DemandMore
<1>5. CASE pc = "settle"
  <2>1. Settle
    BY <1>5 DEF Next, Load, TakeEntry, MissCab, NoSuchGear, ImplyCab, FillIn, DemandMore,
       Say, CheckClaims, FitChain, Judge, LowerChain, RestoreState, WriteSections,
       WritePedal, Save, ReadBack
  <2>2. \E k \in Nat : SpecFor(blocks) \in SetChains(k) BY <1>2, SpecForIs
  <2> QED BY <1>3, <1>5, <2>1, <2>2, MoveHeard DEF Settle
<1> QED BY <1>4, <1>5

\* Two words of one axis cancel: the chain is what it would be had neither
\* been said (compile.demand, compile.move, resolve's contested).
THEOREM ContestedUnsaid == Spec => ContestedSaysNothing
<1>1. Sane /\ [Next]_vars =>
        [/\ pc = "demand" =>
              blocks' = Demand(blocks, Heard(rig.terms), rig.technique, rig.instrument)
         /\ pc = "settle" =>
              chain' = Move(SpecFor(blocks), Heard(rig.terms))]_vars
  BY HeardStep
<1> QED BY <1>1, SaneInit, SaneStep, PTL DEF Spec, ContestedSaysNothing

-----------------------------------------------------------------------------
(* A list some members of which are picked, and lists laid end to end *)

\* Numbers are listed in their own order, once each.
LEMMA AscendingIs ==
  ASSUME NEW S, S \subseteq Nat, IsFiniteSet(S)
  PROVE  /\ Cardinality(S) \in Nat
         /\ Ascending(S) \in [1 .. Cardinality(S) -> S]
         /\ \A a \in S : \E i \in DOMAIN Ascending(S) : Ascending(S)[i] = a
<1> DEFINE R == {p \in S \X S : p[1] < p[2]}
<1>1. \A a, b \in S : <<a, b>> \in R <=> a < b OBVIOUS
<1>2. \A a \in S : a \in Nat OBVIOUS
<1>3. Ascending(S) = Ordered(S, R) BY DEF Ascending
<1> HIDE DEF R
<1>4. TotalOn(S, R) BY <1>1, <1>2 DEF TotalOn
<1> QED BY <1>3, <1>4, OrderedIs

\* What is picked out of a list is a list of what was picked.
LEMMA ThoseAre ==
  ASSUME NEW D, NEW list, list \in Seq(D), NEW places, places \subseteq DOMAIN list
  PROVE  Those(list, places) \in Seq({list[i] : i \in places})
<1> DEFINE order == Ascending(places)
           n == Cardinality(places)
<1>1. DOMAIN list = 1 .. Len(list) /\ Len(list) \in Nat OBVIOUS
<1>2. places \subseteq Nat /\ IsFiniteSet(places)
  <2>1. IsFiniteSet(1 .. Len(list)) BY <1>1, FS_Interval
  <2> QED BY <1>1, <2>1, FS_Subset
<1>3. n \in Nat /\ order \in [1 .. n -> places] BY <1>2, AscendingIs
<1>4. Those(list, places) = [i \in DOMAIN order |-> list[order[i]]] BY DEF Those
<1> HIDE DEF order, n
<1>5. Those(list, places) = [i \in 1 .. n |-> list[order[i]]] BY <1>3, <1>4
<1>6. \A i \in 1 .. n : list[order[i]] \in {list[j] : j \in places} BY <1>3
<1> QED BY <1>3, <1>5, <1>6

\* Lists laid end to end are a list of what is in them.
LEMMA FlattenIs ==
  ASSUME NEW D, NEW seqs, seqs \in Seq(Seq(D))
  PROVE  FlattenSeq(seqs) \in Seq(D)
<1> DEFINE N == Len(seqs)
           step == [n \in 1 .. N |-> [s \in Seq(D) |-> s \o seqs[n]]]
           body(f) == [i \in 1 .. N |-> IF i = 1 THEN seqs[i] ELSE f[i - 1] \o seqs[i]]
           flatten == CHOOSE f : f = body(f)
<1>1. N \in Nat /\ DOMAIN seqs = 1 .. N /\ \A n \in 1 .. N : seqs[n] \in Seq(D) OBVIOUS
<1>2. CASE N = 0
  <2>1. FlattenSeq(seqs) = seqs BY <1>2 DEF FlattenSeq
  <2>2. seqs = <<>> BY <1>2
  <2> QED BY <2>1, <2>2
<1>3. CASE N # 0
  <2>1. FlattenSeq(seqs) = flatten[N] BY <1>3 DEF FlattenSeq
  <2>2. Steps(step, N, Seq(D)) /\ <<>> \in Seq(D) BY <1>1 DEF Steps
  <2>3. PICK g : IsRun(g, <<>>, step, N, Seq(D))
    <3> HIDE DEF N, step
    <3> QED BY <1>1, <2>2, RunExists
  <2> DEFINE f == [i \in 1 .. N |-> g[i]]
  <2>4. f = body(f)
    <3>1. \A i \in 1 .. N : f[i] = IF i = 1 THEN seqs[i] ELSE f[i - 1] \o seqs[i]
      <4> TAKE i \in 1 .. N
      <4>1. g[i - 1] \in Seq(D) /\ g[i] = g[i - 1] \o seqs[i]
        <5>1. i - 1 \in 0 .. N BY <1>1
        <5>2. g[i - 1] \in Seq(D) /\ g[i] = step[i][g[i - 1]]
          <6> HIDE DEF step, N
          <6> QED BY <2>3, <5>1 DEF IsRun
        <5>3. step[i] = [s \in Seq(D) |-> s \o seqs[i]] OBVIOUS
        <5> HIDE DEF step
        <5> QED BY <5>2, <5>3
      <4>2. CASE i = 1
        <5>1. g[0] = <<>> BY <2>3 DEF IsRun
        <5>2. g[1] = <<>> \o seqs[1]
          <6> HIDE DEF N, step
          <6>1. i - 1 = 0 BY <4>2
          <6> QED BY <4>1, <4>2, <5>1, <6>1
        <5>3. <<>> \o seqs[1] = seqs[1] BY <1>1, <4>2
        <5> QED BY <4>2, <5>2, <5>3
      <4>3. CASE i # 1
        <5>1. i - 1 \in 1 .. N BY <1>1, <4>3
        <5> QED BY <4>1, <4>3, <5>1
      <4> QED BY <4>2, <4>3
    <3> HIDE DEF N
    <3> QED BY <3>1
  <2> HIDE DEF f
  <2>5. flatten = body(flatten)
    <3> HIDE DEF body
    <3> QED BY <2>4
  <2> HIDE DEF flatten, N
  <2>6. \A i \in 1 .. N : flatten[i] = IF i = 1 THEN seqs[i] ELSE flatten[i - 1] \o seqs[i]
    BY <2>5
  <2> DEFINE h == [i \in 0 .. N |-> IF i = 0 THEN <<>> ELSE flatten[i]]
  <2>7. h[0] \in Seq(D) BY <1>1
  <2>8. \A n \in 1 .. N : h[n - 1] \in Seq(D) => h[n] \in Seq(D)
    <3> TAKE n \in 1 .. N
    <3>1. h[n] = flatten[n] BY <1>1
    <3>2. CASE n = 1 BY <1>1, <2>6, <3>1, <3>2
    <3>3. CASE n # 1
      <4>1. n - 1 \in 0 .. N /\ n - 1 # 0 BY <1>1, <3>3
      <4>2. h[n - 1] = flatten[n - 1] BY <4>1
      <4>3. h[n] = h[n - 1] \o seqs[n] BY <2>6, <3>1, <3>3, <4>2
      <4>4. seqs[n] \in Seq(D) BY <1>1
      <4> HIDE DEF h
      <4> QED BY <4>3, <4>4
    <3> QED BY <3>2, <3>3
  <2>9. h[N] = flatten[N] BY <1>1, <1>3
  <2> HIDE DEF h
  <2>10. \A n \in 0 .. N : h[n] \in Seq(D) BY <1>1, <2>7, <2>8, Throughout
  <2> QED BY <1>1, <2>1, <2>9, <2>10
<1> QED BY <1>2, <1>3

-----------------------------------------------------------------------------
(* A slot read as a file *)

\* The blocks read off a grid are those on it, none of them at its first place.
LEMMA BlocksAre ==
  ASSUME NEW p, IsKept(p)
  PROVE  \E n \in Nat : \E place \in [1 .. n -> Grid \ {0}] :
           /\ DOMAIN BlocksOf(p) = 1 .. n
           /\ \A i \in 1 .. n :
                LET b == BlocksOf(p)[i]
                    body == p.grid[place[i]].body
                IN /\ p.grid[place[i]].kind = "block"
                   /\ b.index = place[i] /\ b.model = body.model
                   /\ b.values = body.values /\ b.enabled = body.enabled
<1> DEFINE S == {i \in Grid : p.grid[i].kind = "block"}
           order == Ascending(S)
           n == Cardinality(S)
<1>1. S \subseteq Nat /\ IsFiniteSet(S)
  <2>1. GridSize - 1 \in Int BY GridAssumption
  <2>2. IsFiniteSet(Grid) BY <2>1, FS_Interval DEF Grid
  <2>3. S \subseteq Grid /\ Grid \subseteq Nat BY <2>1 DEF Grid
  <2> HIDE DEF S
  <2> QED BY <2>2, <2>3, FS_Subset
<1>2. 0 \notin S BY DEF IsKept
<1>3. n \in Nat /\ order \in [1 .. n -> S]
  <2> HIDE DEF S
  <2> QED BY <1>1, AscendingIs
<1>4. order \in [1 .. n -> Grid \ {0}]
  <2>1. S \subseteq Grid \ {0} BY <1>2
  <2> HIDE DEF S, order, n
  <2> QED BY <1>3, <2>1
<1>5. \A i \in 1 .. n : p.grid[order[i]].kind = "block"
  <2> TAKE i \in 1 .. n
  <2>1. order[i] \in S
    <3> HIDE DEF S, order, n
    <3> QED BY <1>3
  <2> HIDE DEF order
  <2> QED BY <2>1
<1>6. BlocksOf(p) =
        [i \in DOMAIN order |->
           LET body == p.grid[order[i]].body
           IN [index |-> order[i], model |-> body.model, values |-> body.values,
               enabled |-> body.enabled, cab |-> body.cab,
               cabNamed |-> IF body.cab = Empty THEN 0 ELSE body.cabNamed]]
  BY DEF BlocksOf
<1> HIDE DEF order, n
<1>7. DOMAIN BlocksOf(p) = 1 .. n BY <1>3, <1>6
<1>8. \A i \in 1 .. n :
        LET b == BlocksOf(p)[i]
            body == p.grid[order[i]].body
        IN /\ p.grid[order[i]].kind = "block"
           /\ b.index = order[i] /\ b.model = body.model
           /\ b.values = body.values /\ b.enabled = body.enabled
  <2> TAKE i \in 1 .. n
  <2>1. i \in DOMAIN order BY <1>3
  <2> DEFINE body == p.grid[order[i]].body
  <2>2. BlocksOf(p)[i] =
          [index |-> order[i], model |-> body.model, values |-> body.values,
           enabled |-> body.enabled, cab |-> body.cab,
           cabNamed |-> IF body.cab = Empty THEN 0 ELSE body.cabNamed]
    BY <1>6, <2>1
  <2> HIDE DEF body
  <2>3. /\ BlocksOf(p)[i].index = order[i] /\ BlocksOf(p)[i].model = body.model
        /\ BlocksOf(p)[i].values = body.values /\ BlocksOf(p)[i].enabled = body.enabled
    BY <2>2
  <2> QED BY <1>5, <2>3 DEF body
<1> QED BY <1>3, <1>4, <1>7, <1>8

\* A chain read off the pedal is a chain, with as much in it as was read.
LEMMA ReadChainIs ==
  ASSUME NEW p, IsKept(p), Names(DecodePreset(p))
  PROVE  LET got == DecodePreset(p)
         IN IsChain(Chain(got)) /\ DOMAIN Chain(got) = DOMAIN got.blocks
<1> DEFINE got == DecodePreset(p)
           c == Chain(got)
<1>0. got.blocks = BlocksOf(p) BY DEF DecodePreset
<1> DEFINE Read(n, place) ==
             /\ DOMAIN BlocksOf(p) = 1 .. n
             /\ \A i \in 1 .. n :
                  LET b == BlocksOf(p)[i]
                      body == p.grid[place[i]].body
                  IN /\ p.grid[place[i]].kind = "block"
                     /\ b.index = place[i] /\ b.model = body.model
                     /\ b.values = body.values /\ b.enabled = body.enabled
<1>a. PICK n \in Nat : \E place \in [1 .. n -> Grid \ {0}] : Read(n, place)
  BY BlocksAre
<1>1. PICK place \in [1 .. n -> Grid \ {0}] : Read(n, place)
  BY <1>a
<1> HIDE DEF got
<1>2. \A i \in 1 .. n : InTable(got.blocks[i].model) BY <1>0, <1>1 DEF Names, got
<1>3. DOMAIN c = 1 .. n BY <1>0, <1>1 DEF Chain
<1>4. \A i \in 1 .. n : IsLaid(c[i])
  <2> TAKE i \in 1 .. n
  <2> DEFINE b == got.blocks[i]
             s == Symbol(b.model)
             q == ParamsOf(s.params, b.values)
  <2>1. /\ c[i].model = ModelOf(s) /\ c[i].params = q /\ c[i].dsp = 0
        /\ c[i].pos = b.index - GridOffset /\ c[i].position = NoPosition
        /\ c[i] = BlockOf(c[i].model, c[i].params, c[i].dsp, c[i].pos, c[i].enabled,
                          c[i].attrs, c[i].position)
    BY <1>0, <1>1 DEF Chain, BlockOf
  <2>2. c[i].pos \in Nat
    <3>1. place[i] \in Nat /\ place[i] # 0 BY GridAssumption DEF Grid
    <3>2. b.index = place[i] BY <1>0, <1>1
    <3> HIDE DEF b, c
    <3> QED BY <2>1, <3>1, <3>2 DEF GridOffset
  <2>3. ModelOf(s) # NoModel
    <3>1. b.model + 1 \in DOMAIN Symbols BY <1>2 DEF InTable
    <3>2. s.id # NoModel /\ s.base # NoModel BY <3>1, SymbolsAssumption DEF Symbol
    <3> HIDE DEF s
    <3> QED BY <3>2 DEF ModelOf
  <2>4. IsWhole(ModelOf(s), q)
    <3>1. place[i] \in Grid /\ p.grid[place[i]].kind = "block" BY <1>1
    <3>2. LET held == p.grid[place[i]].body
          IN b.model = held.model /\ b.values = held.values
      BY <1>0, <1>1
    <3>3. InTable(b.model) BY <1>2
    <3>4. LET held == p.grid[place[i]].body
              t == Symbol(held.model)
          IN InTable(held.model) => IsWhole(ModelOf(t), ParamsOf(t.params, held.values))
      BY <3>1 DEF IsKept
    <3> HIDE DEF b
    <3> QED BY <3>2, <3>3, <3>4
  <2> HIDE DEF c, q, s
  <2>5. 0 \in Nat OBVIOUS
  <2> QED BY <2>1, <2>2, <2>3, <2>4, <2>5 DEF IsLaid
<1>5. c = [i \in 1 .. n |-> c[i]] BY <1>3 DEF Chain
<1> HIDE DEF c
<1>6. IsChain(c) BY <1>4, <1>5, ChainIs
<1> QED BY <1>0, <1>1, <1>3, <1>6 DEF c, got

\* The file a slot is exported as.
Exported(p) == DocumentRead(SlotName, DecodePreset(p))
Routes(p) == RoutingRead(DecodePreset(p))

\* A slot that can be read is exported as a preset, which holds what the slot
\* holds under the slot's name.
LEMMA ExportedIs ==
  ASSUME NEW p, IsKept(p), Names(DecodePreset(p)), DecodePreset(p).blocks # Empty
  PROVE  LET e == Exported(p)
         IN /\ IsPreset(e) /\ e.blocks # Empty
            /\ e.routing = Over(Routes(p), Blank.routing)
<1> DEFINE got == DecodePreset(p)
           c == Chain(got)
           b == SetSpec([Blank EXCEPT !.device = Device], SlotName, c)
           e == Exported(p)
<1>0. got.snapshots = SnapshotsOf(p) BY DEF DecodePreset
<1>1. IsChain(c) /\ DOMAIN c = DOMAIN got.blocks BY ReadChainIs
<1>2. PICK n0, v0, m0, k0, r0, s0, t0 : Blank = DocOf(n0, v0, m0, k0, r0, s0, t0)
  BY BlankAssumption, PresetIs
<1>3. [Blank EXCEPT !.device = Device] = DocOf(n0, Device, m0, k0, r0, s0, t0)
  BY <1>2 DEF DocOf
<1>4. IsPreset([Blank EXCEPT !.device = Device])
  BY <1>2, <1>3, BlankAssumption, DocIs
<1> DEFINE x == [Blank EXCEPT !.device = Device]
<1> HIDE DEF x, c
<1>5. /\ IsPreset(b) /\ b.snapshots = x.snapshots /\ b.tone = x.tone
      /\ DOMAIN b.blocks = {Address(c[i]) : i \in DOMAIN c}
  BY <1>1, <1>4, SetSpecKeeps DEF x
<1>6. b.routing = Blank.routing
  <2>1. PICK y : b = [x EXCEPT !.name = SlotName, !.blocks = y] BY DEF SetSpec, x
  <2>2. b = DocOf(SlotName, Device, m0, y, r0, s0, t0)
    BY <1>3, <2>1 DEF DocOf, x
  <2> HIDE DEF b
  <2> QED BY <1>2, <2>2, DocIs
<1>7. b.blocks # Empty
  <2>1. DOMAIN got.blocks # {}
    <3>1. PICK n \in Nat : DOMAIN BlocksOf(p) = 1 .. n BY BlocksAre
    <3>2. got.blocks = BlocksOf(p) BY DEF DecodePreset
    <3>3. BlocksOf(p) = [i \in DOMAIN BlocksOf(p) |-> BlocksOf(p)[i]] BY DEF BlocksOf
    <3>4. SUFFICES ASSUME DOMAIN got.blocks = {} PROVE got.blocks = Empty OBVIOUS
    <3>5. BlocksOf(p) = [i \in {} |-> BlocksOf(p)[i]] BY <3>2, <3>3, <3>4
    <3> QED BY <3>2, <3>5 DEF Empty
  <2>2. DOMAIN b.blocks # {} BY <1>1, <1>5, <2>1
  <2> HIDE DEF b
  <2> QED BY <2>2, NothingIn
<1> HIDE DEF b, got
<1>8. PICK n, v, m, k, r, s, t : b = DocOf(n, v, m, k, r, s, t) BY <1>5, PresetIs
<1> DEFINE route == Over(Routes(p), r)
           y == [b EXCEPT !.routing = Over(RoutingRead(got), @)]
<1>9. y = DocOf(n, v, m, k, route, s, t) BY <1>8 DEF DocOf, Routes, got
<1>10. e = SnapshotsInto(y, got) BY DEF Exported, DocumentRead, b, c, x, got
<1> HIDE DEF e, y, route
<1>11. /\ m # Empty /\ IsAddressed(k) /\ (\A a \in DOMAIN k : IsStored(k[a]))
       /\ s \in Seq(ToSet(s)) /\ (\A w \in ToSet(s) : IsSnapshot(w)) /\ IsTone(t)
       /\ k # Empty /\ r = Blank.routing /\ y.snapshots = s
  BY <1>5, <1>6, <1>7, <1>8, <1>9, DocIs
<1>12. \E z : /\ e = DocOf(n, v, m, k, route, z, t)
              /\ z \in Seq(ToSet(z)) /\ \A w \in ToSet(z) : IsSnapshot(w)
  <2> DEFINE D == 1 .. Len(s) \cup DOMAIN got.snapshots
  <2>1. \E f : /\ e = [y EXCEPT !.snapshots = [i \in D |-> IF i \in DOMAIN got.snapshots
                                                          THEN f[i] ELSE s[i]]]
               /\ \A i \in DOMAIN got.snapshots : IsSnapshot(f[i])
    <3> DEFINE on(w, was) ==
                 LET switched == {got.blocks[i].index : i \in DOMAIN got.blocks} \cap DOMAIN w.on
                 IN IF switched = {} THEN was
                    ELSE [a \in {<<0, i - GridOffset>> : i \in switched} |->
                            w.on[a[2] + GridOffset]]
               told(w) == [tempo |-> w.tempo, led |-> w.led, valid |-> w.valid]
               held(i) == IF i \in DOMAIN y.snapshots THEN y.snapshots[i]
                          ELSE [name |-> "", on |-> Empty, wraps |-> Empty, rest |-> Empty]
               wraps(w, was) ==
                 LET switched == {got.blocks[i].index : i \in DOMAIN got.blocks} \cap DOMAIN w.on
                 IN IF switched = {} THEN was ELSE Empty
               into(i) == LET w == got.snapshots[i]
                          IN [name |-> w.name, on |-> on(w, held(i).on),
                              wraps |-> wraps(w, held(i).wraps),
                              rest |-> told(w) @@ held(i).rest]
               f == [i \in DOMAIN got.snapshots |-> into(i)]
    <3>1. e = [y EXCEPT !.snapshots = [i \in 1 .. Len(@) \cup DOMAIN got.snapshots |->
                 IF i \in DOMAIN got.snapshots THEN into(i) ELSE @[i]]]
      BY <1>10 DEF SnapshotsInto
    <3>2. \A i \in DOMAIN got.snapshots : f[i] = into(i) /\ IsSnapshot(f[i])
      BY DEF IsSnapshot
    <3> HIDE DEF into, f
    <3>3. e = [y EXCEPT !.snapshots = [i \in D |->
                 IF i \in DOMAIN got.snapshots THEN into(i) ELSE s[i]]]
      BY <1>11, <3>1
    <3>4. [i \in D |-> IF i \in DOMAIN got.snapshots THEN into(i) ELSE s[i]] =
          [i \in D |-> IF i \in DOMAIN got.snapshots THEN f[i] ELSE s[i]]
      BY <3>2
    <3> QED BY <3>2, <3>3, <3>4
  <2>2. PICK f : /\ e = [y EXCEPT !.snapshots = [i \in D |-> IF i \in DOMAIN got.snapshots
                                                          THEN f[i] ELSE s[i]]]
                 /\ \A i \in DOMAIN got.snapshots : IsSnapshot(f[i])
    BY <2>1
  <2> DEFINE z == [i \in D |-> IF i \in DOMAIN got.snapshots THEN f[i] ELSE s[i]]
  <2>3. PICK j \in Nat : D = 1 .. j
    <3>1. DOMAIN got.snapshots = DOMAIN p.snapshots BY <1>0 DEF SnapshotsOf, got
    <3>2. DOMAIN p.snapshots = 1 .. Len(p.snapshots) /\ Len(p.snapshots) \in Nat
      BY DEF IsKept, IsList
    <3>3. Len(s) \in Nat BY <1>11
    <3> DEFINE j == IF Len(s) >= Len(p.snapshots) THEN Len(s) ELSE Len(p.snapshots)
    <3>4. j \in Nat /\ D = 1 .. j BY <3>1, <3>2, <3>3
    <3> QED BY <3>4
  <2>4. DOMAIN z = 1 .. j /\ z = [i \in 1 .. j |-> z[i]] BY <2>3
  <2>5. \A i \in 1 .. j : IsSnapshot(z[i])
    <3> TAKE i \in 1 .. j
    <3>1. i \in D BY <2>3
    <3>2. CASE i \in DOMAIN got.snapshots BY <2>2, <3>1, <3>2
    <3>3. CASE i \notin DOMAIN got.snapshots
      <4>1. i \in 1 .. Len(s) BY <3>1, <3>3
      <4>2. i \in DOMAIN s BY <1>11, <4>1
      <4>3. IsSnapshot(s[i]) BY <1>11, <4>2 DEF ToSet
      <4> QED BY <3>1, <3>3, <4>3
    <3> QED BY <3>2, <3>3
  <2>6. e = [y EXCEPT !.snapshots = z] BY <2>2
  <2> HIDE DEF z, D
  <2>7. z \in Seq(ToSet(z)) BY <2>4, SeqIs
  <2>8. \A w \in ToSet(z) : IsSnapshot(w) BY <2>4, <2>5 DEF ToSet
  <2>9. e = DocOf(n, v, m, k, route, z, t) BY <1>9, <2>6 DEF DocOf
  <2> QED BY <2>7, <2>8, <2>9
<1>13. PICK z : /\ e = DocOf(n, v, m, k, route, z, t)
                /\ z \in Seq(ToSet(z)) /\ \A w \in ToSet(z) : IsSnapshot(w)
  BY <1>12
<1>14. IsPreset(e) /\ e.blocks = k /\ e.routing = route BY <1>11, <1>13, DocIs
<1> QED BY <1>11, <1>14 DEF e, route

-----------------------------------------------------------------------------
(* A slot read as a rig *)

\* What lists laid end to end hold is in one of them.
LEMMA FlattenHolds ==
  ASSUME NEW N \in Nat, NEW rows, rows = [n \in 1 .. N |-> rows[n]],
         \A n \in 1 .. N : rows[n] \in Seq(ToSet(rows[n]))
  PROVE  LET s == FlattenSeq(rows)
         IN /\ Len(s) \in Nat /\ DOMAIN s = 1 .. Len(s) /\ s \in Seq(ToSet(s))
            /\ \A i \in DOMAIN s : \E n \in 1 .. N : s[i] \in ToSet(rows[n])
<1> DEFINE D == UNION {ToSet(rows[n]) : n \in 1 .. N}
<1>1. \A n \in 1 .. N : rows[n] \in Seq(D)
  <2> TAKE n \in 1 .. N
  <2>1. ToSet(rows[n]) \subseteq D OBVIOUS
  <2>2. rows[n] \in Seq(ToSet(rows[n])) OBVIOUS
  <2> DEFINE T == ToSet(rows[n])
             w == rows[n]
  <2> HIDE DEF D, T, w
  <2>3. w \in Seq(T) /\ T \subseteq D BY <2>1, <2>2 DEF T, w
  <2>4. w \in Seq(D) BY <2>3
  <2> QED BY <2>4 DEF w
<1>2. rows \in Seq(Seq(D))
  <2> HIDE DEF D
  <2> QED BY <1>1
<1>3. FlattenSeq(rows) \in Seq(D)
  <2> HIDE DEF D
  <2> QED BY <1>2, FlattenIs
<1> DEFINE s == FlattenSeq(rows)
<1> HIDE DEF s
<1>4. Len(s) \in Nat /\ DOMAIN s = 1 .. Len(s) /\ \A i \in DOMAIN s : s[i] \in D
  <2>1. s \in Seq(D) BY <1>3 DEF s
  <2> HIDE DEF D
  <2>2. Len(s) \in Nat /\ DOMAIN s = 1 .. Len(s) BY <2>1, LenProperties
  <2>3. \A i \in 1 .. Len(s) : s[i] \in D BY <2>1, ElementOfSeq
  <2> QED BY <2>2, <2>3
<1>5. s = [i \in 1 .. Len(s) |-> s[i]]
  <2>1. s \in Seq(D) BY <1>3 DEF s
  <2> HIDE DEF D
  <2>2. s \in [1 .. Len(s) -> D] BY <2>1, LenProperties
  <2> QED BY <2>2
<1>6. s \in Seq(ToSet(s)) BY <1>4, <1>5, SeqIs
<1> QED BY <1>4, <1>6 DEF s

\* What is printed is under a switch, and what is swept is by a controller.
LEMMA AssignedAre ==
  ASSUME NEW p, IsKept(p)
  PROVE  /\ \A i \in DOMAIN SwitchesOf(p) : SwitchesOf(p)[i].switch >= 1
         /\ LET swept == ControllersOf(p)
            IN /\ swept \in Seq(ToSet(swept)) /\ DOMAIN swept = 1 .. Len(swept)
               /\ \A i \in DOMAIN swept : swept[i].number >= 0
<1>1. \A i \in DOMAIN SwitchesOf(p) : SwitchesOf(p)[i].switch >= 1
  <2> DEFINE N == Len(p.switches)
             named(n) == Those(p.switches[n],
                               {i \in DOMAIN p.switches[n] : p.switches[n][i].gear # ""})
             row(n) == [i \in DOMAIN named(n) |->
                          [switch |-> n, label |-> LabelOf(named(n)[i]),
                           block |-> named(n)[i].block, led |-> named(n)[i].led]]
             rows == [n \in DOMAIN p.switches |-> row(n)]
  <2>1. N \in Nat /\ DOMAIN p.switches = 1 .. N BY DEF IsKept, IsList
  <2>2. SwitchesOf(p) = FlattenSeq(rows) BY DEF SwitchesOf
  <2>3. \A n \in 1 .. N : \E k \in Nat : DOMAIN named(n) = 1 .. k
    <3> TAKE n \in 1 .. N
    <3> DEFINE list == p.switches[n]
               places == {i \in DOMAIN list : list[i].gear # ""}
    <3>1. list \in Seq(ToSet(list)) /\ places \subseteq DOMAIN list
      BY <2>1 DEF IsKept, IsList
    <3> HIDE DEF list, places
    <3> DEFINE S == {list[i] : i \in places}
               t == Those(list, places)
    <3>2. t \in Seq(S) BY <3>1, ThoseAre
    <3> HIDE DEF S, t
    <3>3. Len(t) \in Nat /\ DOMAIN t = 1 .. Len(t) BY <3>2
    <3> QED BY <3>3 DEF t, list, places
  <2> HIDE DEF named
  <2>4. \A n \in 1 .. N : row(n) \in Seq(ToSet(row(n)))
    <3> TAKE n \in 1 .. N
    <3>1. PICK k \in Nat : DOMAIN named(n) = 1 .. k BY <2>3
    <3> DEFINE w == row(n)
    <3>2. w = [i \in 1 .. k |-> w[i]] BY <3>1
    <3> HIDE DEF w
    <3> QED BY <3>2, SeqIs DEF w
  <2>5. \A n \in 1 .. N : \A x \in ToSet(row(n)) : x.switch = n
    BY DEF ToSet
  <2> HIDE DEF row, N
  <2>6. rows = [n \in 1 .. N |-> rows[n]] /\ \A n \in 1 .. N : rows[n] = row(n) BY <2>1
  <2> HIDE DEF rows
  <2>9. \A n \in 1 .. N : rows[n] \in Seq(ToSet(rows[n])) BY <2>4, <2>6
  <2>7. \A i \in DOMAIN SwitchesOf(p) : \E n \in 1 .. N : SwitchesOf(p)[i] \in ToSet(rows[n])
    BY <2>1, <2>2, <2>6, <2>9, FlattenHolds
  <2>8. \A n \in 1 .. N : n >= 1 BY <2>1
  <2> QED BY <2>5, <2>6, <2>7, <2>8
<1>2. LET swept == ControllersOf(p)
      IN /\ swept \in Seq(ToSet(swept)) /\ DOMAIN swept = 1 .. Len(swept)
         /\ \A i \in DOMAIN swept : swept[i].number >= 0
  <2> DEFINE N == Len(p.controllers)
             made(n) == p.controllers[n]
             row(n) == [i \in DOMAIN made(n) |->
                          [number |-> n - 1, block |-> made(n)[i].block,
                           param |-> made(n)[i].param,
                           min |-> made(n)[i].min, max |-> made(n)[i].max]]
             rows == [n \in DOMAIN p.controllers |-> row(n)]
  <2>1. N \in Nat /\ DOMAIN p.controllers = 1 .. N BY DEF IsKept, IsList
  <2>2. ControllersOf(p) = FlattenSeq(rows) BY DEF ControllersOf
  <2>3. \A n \in 1 .. N : \E k \in Nat : DOMAIN made(n) = 1 .. k
    <3> TAKE n \in 1 .. N
    <3>1. made(n) \in Seq(ToSet(made(n))) BY <2>1 DEF IsKept, IsList
    <3> HIDE DEF made
    <3>2. Len(made(n)) \in Nat /\ DOMAIN made(n) = 1 .. Len(made(n)) BY <3>1
    <3> QED BY <3>2
  <2> HIDE DEF made
  <2>4. \A n \in 1 .. N : row(n) \in Seq(ToSet(row(n)))
    <3> TAKE n \in 1 .. N
    <3>1. PICK k \in Nat : DOMAIN made(n) = 1 .. k BY <2>3
    <3> DEFINE w == row(n)
    <3>2. w = [i \in 1 .. k |-> w[i]] BY <3>1
    <3> HIDE DEF w
    <3> QED BY <3>2, SeqIs DEF w
  <2>5. \A n \in 1 .. N : \A x \in ToSet(row(n)) : x.number = n - 1
    BY DEF ToSet
  <2> HIDE DEF row, N
  <2>6. rows = [n \in 1 .. N |-> rows[n]] /\ \A n \in 1 .. N : rows[n] = row(n) BY <2>1
  <2> HIDE DEF rows
  <2>9. \A n \in 1 .. N : rows[n] \in Seq(ToSet(rows[n])) BY <2>4, <2>6
  <2>7. /\ ControllersOf(p) \in Seq(ToSet(ControllersOf(p)))
        /\ DOMAIN ControllersOf(p) = 1 .. Len(ControllersOf(p))
        /\ \A i \in DOMAIN ControllersOf(p) :
             \E n \in 1 .. N : ControllersOf(p)[i] \in ToSet(rows[n])
    BY <2>1, <2>2, <2>6, <2>9, FlattenHolds
  <2>8. \A n \in 1 .. N : n - 1 >= 0 BY <2>1
  <2> QED BY <2>5, <2>6, <2>7, <2>8
<1> QED BY <1>1, <1>2

\* The rig a slot is shown as.
ShownAs(p) == RigOf(SlotName, DecodePreset(p))

\* It is the rig its file lifts to, but for what only the pedal says.
LEMMA ShownHas ==
  ASSUME NEW p
  PROVE  LET got == DecodePreset(p)
             lifted == Lift(Exported(p))
             r == ShownAs(p)
         IN /\ r.name = lifted.name /\ r.instrument = lifted.instrument
            /\ r.chain = lifted.chain /\ r.terms = lifted.terms
            /\ r.technique = lifted.technique /\ r.sections = lifted.sections
            /\ r.controllers = RigControllers(got) /\ r.switches = RigFootswitches(got)
            /\ r.device = [id |-> Device, routing |-> Routes(p)]
            /\ "device" \in r.has <=> Routes(p) # Empty
            /\ "sections" \notin r.has
<1> DEFINE got == DecodePreset(p)
           l == Lift(Exported(p))
           dev == [id |-> Device, routing |-> Routes(p)]
           snaps == RigSnapshots(got)
           sw == RigFootswitches(got)
           ctl == RigControllers(got)
           has == (IF Routes(p) # Empty THEN {"device"} ELSE {})
                    \cup (IF got.snapshots # Empty THEN {"snapshots"} ELSE {})
                    \cup (IF sw # Empty THEN {"switches"} ELSE {})
                    \cup (IF ctl # Empty THEN {"controllers"} ELSE {})
           r == ShownAs(p)
<1>1. r = [l EXCEPT !.device = dev, !.snapshots = snaps, !.switches = sw,
                    !.controllers = ctl, !.has = has]
  BY DEF ShownAs, RigOf, Exported, Routes
<1>2. l = [name |-> l.name, instrument |-> l.instrument, chain |-> l.chain,
           target |-> l.target, terms |-> l.terms, technique |-> l.technique,
           controllers |-> l.controllers, sections |-> l.sections,
           switches |-> l.switches, snapshots |-> l.snapshots, device |-> l.device,
           has |-> l.has]
  BY DEF Lift
<1>3. "device" \in has <=> Routes(p) # Empty OBVIOUS
<1>4. "sections" \notin has OBVIOUS
<1> HIDE DEF l, dev, snaps, sw, ctl, has, r
<1>5. /\ r.name = l.name /\ r.instrument = l.instrument /\ r.chain = l.chain
      /\ r.terms = l.terms /\ r.technique = l.technique /\ r.sections = l.sections
      /\ r.controllers = ctl /\ r.switches = sw /\ r.device = dev /\ r.has = has
  BY <1>1, <1>2
<1> QED BY <1>3, <1>4, <1>5 DEF l, dev, sw, ctl, r

\* A rig read off the pedal can be read again.
LEMMA ShownIsValid ==
  ASSUME NEW p, IsKept(p), Names(DecodePreset(p)), DecodePreset(p).blocks # Empty
  PROVE  ValidRig(ShownAs(p))
<1> DEFINE got == DecodePreset(p)
           l == Lift(Exported(p))
           r == ShownAs(p)
<1>1. ValidRig(l) BY ExportedIs, LiftIsValid
<1>2. /\ r.name = l.name /\ r.instrument = l.instrument /\ r.chain = l.chain
      /\ r.terms = l.terms /\ r.technique = l.technique /\ r.sections = l.sections
      /\ r.controllers = RigControllers(got) /\ r.switches = RigFootswitches(got)
  BY ShownHas
<1>3. \A i \in DOMAIN r.switches : ValidFootswitch(r.switches[i])
  <2>1. got.switches = SwitchesOf(p) BY DEF DecodePreset
  <2> HIDE DEF r, got
  <2>2. /\ DOMAIN r.switches = DOMAIN got.switches
        /\ \A i \in DOMAIN r.switches : r.switches[i].switch = got.switches[i].switch
    BY <1>2 DEF RigFootswitches
  <2> QED BY <2>1, <2>2, AssignedAre DEF ValidFootswitch
<1>4. \A i \in DOMAIN r.controllers : ValidController(r.controllers[i])
  <2>1. got.controllers = ControllersOf(p) BY DEF DecodePreset
  <2> HIDE DEF r, got
  <2> DEFINE swept == got.controllers
             places == {i \in DOMAIN swept : ParamNameOf(got, swept[i]) # "none"}
             named == Those(swept, places)
             S == {swept[i] : i \in places}
  <2>2. /\ swept \in Seq(ToSet(swept)) /\ DOMAIN swept = 1 .. Len(swept)
        /\ \A i \in DOMAIN swept : swept[i].number >= 0
    BY <2>1, AssignedAre
  <2>4. named \in Seq(S)
    <3>1. swept \in Seq(ToSet(swept)) BY <2>2
    <3>2. places \subseteq DOMAIN swept OBVIOUS
    <3> HIDE DEF swept, places
    <3> QED BY <3>1, <3>2, ThoseAre
  <2>5. \A x \in S : x.number >= 0 BY <2>2
  <2>6. r.controllers =
          [n \in DOMAIN named |->
             LET c == named[n]
             IN [number |-> c.number, path |-> 0, block |-> c.block - GridOffset,
                 parameter |-> ParamNameOf(got, c),
                 min |-> <<c.min>>, max |-> <<c.max>>]]
    BY <1>2 DEF RigControllers
  <2> HIDE DEF named, S
  <2>7. \A i \in DOMAIN named : named[i] \in S BY <2>4
  <2>8. /\ DOMAIN r.controllers = DOMAIN named
        /\ \A i \in DOMAIN named : r.controllers[i].number = named[i].number
    BY <2>6
  <2> QED BY <2>5, <2>7, <2>8 DEF ValidController
<1> HIDE DEF l, r, got
<1>5. /\ Says(l.name) /\ l.instrument \in Instruments /\ l.chain # <<>>
      /\ \A i \in DOMAIN l.chain : ValidEntry(l.chain[i])
      /\ \A i \in DOMAIN l.terms : ValidTerm(l.terms[i])
      /\ ValidTechnique(l.technique)
      /\ \A i \in DOMAIN l.sections : ValidSection(l.sections[i])
  BY <1>1 DEF ValidRig
<1>6. ValidRig(r) BY <1>2, <1>3, <1>4, <1>5 DEF ValidRig
<1> QED BY <1>6 DEF r

-----------------------------------------------------------------------------
(* A slot shown *)

\* A document of its fields.
LEMMA DocumentIs ==
  ASSUME NEW x, IsDocument(x)
  PROVE  \E n, v, m, b, r, s, t : x = DocOf(n, v, m, b, r, s, t)
BY DEF IsDocument, DocOf

\* A document a shown rig is restored into takes the routing the pedal said, if
\* it said any.
LEMMA ShownRestored ==
  ASSUME NEW p, NEW x, IsDocument(x)
  PROVE  LET y == RestoreSnapshots(Restore(x, ShownAs(p)), ShownAs(p))
         IN IsDocument(y) /\ (Routes(p) # Empty => y.routing = Routes(p))
<1> DEFINE r == ShownAs(p)
           u == Restore(x, r)
           y == RestoreSnapshots(u, r)
<1>1. r.device = [id |-> Device, routing |-> Routes(p)] /\ ("device" \in r.has <=> Routes(p) # Empty)
  BY ShownHas
<1> HIDE DEF r
<1>2. PICK n, v, m, b, w, s, t : x = DocOf(n, v, m, b, w, s, t) BY DocumentIs
<1>3. IsDocument(u) /\ (Routes(p) # Empty => u.routing = Routes(p))
  <2>1. CASE "device" \notin r.has BY <1>1, <2>1 DEF Restore
  <2>2. CASE "device" \in r.has
    <3>1. DOMAIN r.device = {"id", "routing"} BY <1>1
    <3>2. Carried(r.device, "routing", Empty) = Routes(p) BY <1>1, <3>1 DEF Carried
    <3>3. u = DocOf(Carried(r.device, "name", n), Carried(r.device, "id", v),
                    Carried(r.device, "meta", m), b, Carried(r.device, "routing", Empty),
                    Empty, Carried(r.device, "tone", Empty))
      BY <1>2, <2>2 DEF Restore, DocOf
    <3> HIDE DEF u
    <3> QED BY <3>2, <3>3, DocIs DEF IsDocument, DocOf
  <2> QED BY <2>1, <2>2
<1> HIDE DEF u
<1>4. IsDocument(y) /\ y.routing = u.routing
  <2>1. CASE "snapshots" \notin r.has BY <1>3, <2>1 DEF RestoreSnapshots
  <2>2. CASE "snapshots" \in r.has
    <3>1. PICK n1, v1, m1, b1, w1, s1, t1 : u = DocOf(n1, v1, m1, b1, w1, s1, t1)
      BY <1>3, DocumentIs
    <3>2. y = DocOf(n1, v1, m1, b1, w1, r.snapshots, t1)
      BY <2>2, <3>1 DEF RestoreSnapshots, DocOf
    <3> HIDE DEF y
    <3> QED BY <3>1, <3>2, DocIs DEF IsDocument, DocOf
  <2> QED BY <2>1, <2>2
<1> QED BY <1>3, <1>4 DEF r, u

\* What is swept and printed changes nothing else, and a preset's own chain
\* puts its own blocks in a document.
LEMMA ShownWritten ==
  ASSUME NEW e, IsPreset(e), NEW y, IsDocument(y), NEW r, NEW c, NEW name
  PROVE  LET z == SetSpec(Footswitches(Controllers(y, r, c), r), name, ChainOf(e))
         IN z.blocks = e.blocks /\ z.name = name /\ z.routing = y.routing
<1> DEFINE u == Controllers(y, r, c)
           w == Footswitches(u, r)
<1>1. PICK n, v, m, b, q, s, t : y = DocOf(n, v, m, b, q, s, t) BY DocumentIs
<1>2. \E t1 : u = DocOf(n, v, m, b, q, s, t1)
  <2>1. CASE "controllers" \notin r.has BY <1>1, <2>1 DEF Controllers
  <2>2. CASE "controllers" \in r.has
    <3>1. PICK x : u = [y EXCEPT !.tone = x] BY <2>2 DEF Controllers
    <3>2. u = DocOf(n, v, m, b, q, s, x) BY <1>1, <3>1 DEF DocOf
    <3> QED BY <3>2
  <2> QED BY <2>1, <2>2
<1>3. PICK t1 : u = DocOf(n, v, m, b, q, s, t1) BY <1>2
<1> HIDE DEF u
<1>4. \E t2 : w = DocOf(n, v, m, b, q, s, t2)
  <2>1. CASE "switches" \notin r.has BY <1>3, <2>1 DEF Footswitches
  <2>2. CASE "switches" \in r.has
    <3>1. PICK x : w = [u EXCEPT !.tone = x] BY <2>2 DEF Footswitches
    <3>2. w = DocOf(n, v, m, b, q, s, x) BY <1>3, <3>1 DEF DocOf
    <3> QED BY <3>2
  <2> QED BY <2>1, <2>2
<1>5. PICK t2 : w = DocOf(n, v, m, b, q, s, t2) BY <1>4
<1> HIDE DEF w
<1> DEFINE z == SetSpec(w, name, ChainOf(e))
<1>6. z = [w EXCEPT !.name = name, !.blocks = e.blocks] BY SetSpecIs
<1>7. z = DocOf(name, v, m, e.blocks, q, s, t2) BY <1>5, <1>6 DEF DocOf
<1> HIDE DEF z
<1>8. z.blocks = e.blocks /\ z.name = name /\ z.routing = q /\ y.routing = q
  BY <1>1, <1>7, DocIs
<1> QED BY <1>8 DEF z, w, u

\* The file a shown rig is to become: the slot's own blocks, name and routing.
IsShown(p, d) ==
  /\ d.blocks = Exported(p).blocks /\ d.name = SubjectName(Exported(p))
  /\ Routes(p) # Empty => d.routing = Routes(p)

Compiling == {"load", "lower", "claims", "restore", "sections", "pedal"}

Showing(p) ==
  /\ pc \in Compiling \cup {"read", "save", "written", "refused"}
  /\ pc = "read" => slot = p
  /\ pc \in Compiling \cup {"save", "written"} =>
       Names(DecodePreset(p)) /\ DecodePreset(p).blocks # Empty
  /\ pc \in Compiling => rig = ShownAs(p) /\ IsDocument(doc)
  /\ pc \in {"claims", "restore", "sections", "pedal"} => chain = ChainOf(Exported(p))
  /\ pc \in {"sections", "pedal"} /\ Routes(p) # Empty => doc.routing = Routes(p)
  /\ pc = "save" => IsShown(p, doc)
  /\ pc = "written" => IsShown(p, file)

\* A slot shown is a rig, and each stage that compiles it leaves it the slot's
\* own (deviceslots.deviceReading, compile.Lower).
LEMMA ShowStep ==
  ASSUME NEW p, IsKept(p), Showing(p), [TransferNext]_transfer, task.kind = "show",
         IsPreset(task.over)
  PROVE  Showing(p)' /\ task' = task
<1> DEFINE r == ShownAs(p)
           e == Exported(p)
           readable == Names(DecodePreset(p)) /\ DecodePreset(p).blocks # Empty
<1>0. /\ readable => IsPreset(e) /\ ValidRig(r)
      /\ r.chain = Lift(e).chain /\ r.instrument = Lift(e).instrument
      /\ r.name = SubjectName(e) /\ r.device = [id |-> Device, routing |-> Routes(p)]
      /\ "sections" \notin r.has
  BY ExportedIs, ShownIsValid, ShownHas, LiftHas DEF Lift
<1>1. CASE UNCHANGED transfer
  BY <1>1 DEF Showing, transfer, vars, build, IsDocument, IsShown
<1>2. CASE Unreadable
  <2>1. pc' = "refused" /\ task' = task BY <1>2 DEF Unreadable, Refuse, Goto
  <2> QED BY <2>1 DEF Showing, Compiling
<1>3. CASE ReadRig
  <2>1. pc = "read" /\ slot = p BY <1>3 DEF ReadRig, Showing
  <2>2. /\ pc' = "load" /\ task' = task /\ rig' = r /\ readable
        /\ doc' = [task.over EXCEPT !.device = Device, !.name = rig'.name]
    BY <1>3, <2>1 DEF ReadRig, Goto, Got, ShownAs
  <2>3. IsDocument(doc)'
    <3>1. \A n : IsDocument([task.over EXCEPT !.device = Device, !.name = n]) BY OpenedIs
    <3> QED BY <2>2, <3>1 DEF IsDocument
  <2> QED BY <2>2, <2>3 DEF Showing, Compiling
<1>4. CASE Next /\ UNCHANGED slot
  <2>1. CASE Load
    <3>1. pc = "load" /\ rig = r /\ readable /\ IsDocument(doc)
      BY <2>1 DEF Load, Showing, Compiling
    <3>2. ValidRig(rig) BY <1>0, <3>1
    <3>3. pc' = "lower" /\ task' = task /\ UNCHANGED build
      BY <2>1, <3>2 DEF Load, Goto
    <3> QED BY <3>1, <3>3 DEF Showing, Compiling, build, IsDocument
  <2>2. CASE LowerChain
    <3>1. pc = "lower" /\ rig = r /\ readable /\ IsDocument(doc)
      BY <2>2 DEF LowerChain, Showing, Compiling
    <3>2. LoweredChain(r) = ChainOf(e)
      <4>1. LoweredChain(r) = LoweredChain(Lift(e))
        <5> HIDE DEF r, e
        <5> QED BY <1>0 DEF LoweredChain
      <4>2. LoweredChain(Lift(e)) = ChainOf(e)
        <5>1. IsPreset(e) BY <1>0, <3>1
        <5> HIDE DEF e
        <5> QED BY <5>1, LoweredIs
      <4> QED BY <4>1, <4>2
    <3>3. CASE \E i \in DOMAIN rig.chain : ~Lowers(rig.chain[i], rig.instrument)
      <4>1. pc' = "refused" /\ task' = task BY <2>2, <3>3 DEF LowerChain, Refuse, Goto
      <4> QED BY <4>1 DEF Showing, Compiling
    <3>4. CASE ~\E i \in DOMAIN rig.chain : ~Lowers(rig.chain[i], rig.instrument)
      <4>1. /\ pc' = "claims" /\ task' = task /\ chain' = LoweredChain(rig)
            /\ UNCHANGED <<rig, doc>>
        BY <2>2, <3>4 DEF LowerChain, Goto
      <4> QED BY <3>1, <3>2, <4>1 DEF Showing, Compiling, IsDocument
    <3> QED BY <3>3, <3>4
  <2>3. CASE CheckClaims
    <3>1. pc = "claims" /\ rig = r /\ readable /\ IsDocument(doc) /\ chain = ChainOf(e)
      BY <2>3 DEF CheckClaims, Showing, Compiling
    <3>2. pc' \in {"refused", "restore"} /\ task' = task /\ UNCHANGED build
      BY <2>3 DEF CheckClaims, Refuse, Goto
    <3> QED BY <3>1, <3>2 DEF Showing, Compiling, build, IsDocument
  <2>4. CASE RestoreState
    <3>1. pc = "restore" /\ rig = r /\ readable /\ IsDocument(doc) /\ chain = ChainOf(e)
      BY <2>4 DEF RestoreState, Showing, Compiling
    <3>2. pc' = "sections" /\ task' = task /\ UNCHANGED <<rig, chain>>
          /\ doc' = RestoreSnapshots(Restore(doc, r), r)
      BY <2>4, <3>1 DEF RestoreState, Goto
    <3> DEFINE y == RestoreSnapshots(Restore(doc, r), r)
    <3>3. IsDocument(y) /\ (Routes(p) # Empty => y.routing = Routes(p))
      BY <3>1, ShownRestored
    <3> HIDE DEF y, r, e
    <3>4. doc' = y BY <3>2 DEF y
    <3>5. IsDocument(doc)' /\ (Routes(p) # Empty => doc'.routing = Routes(p))
      BY <3>3, <3>4 DEF IsDocument
    <3> QED BY <3>1, <3>2, <3>5 DEF Showing, Compiling, r, e
  <2>5. CASE WriteSections
    <3>1. /\ pc = "sections" /\ rig = r /\ readable /\ IsDocument(doc)
          /\ chain = ChainOf(e) /\ (Routes(p) # Empty => doc.routing = Routes(p))
      BY <2>5 DEF WriteSections, Showing, Compiling
    <3>2. Buildable(doc, rig, chain) /\ Sections(doc, rig, chain) = doc
      BY <1>0, <3>1 DEF Buildable, Sections
    <3>3. pc' = "pedal" /\ task' = task /\ doc' = doc /\ UNCHANGED <<rig, chain>>
      BY <2>5, <3>2 DEF WriteSections, Goto
    <3> QED BY <3>1, <3>3 DEF Showing, Compiling, IsDocument
  <2>6. CASE WritePedal
    <3>1. /\ pc = "pedal" /\ rig = r /\ readable /\ IsDocument(doc)
          /\ chain = ChainOf(e) /\ (Routes(p) # Empty => doc.routing = Routes(p))
      BY <2>6 DEF WritePedal, Showing, Compiling
    <3>2. NameOf(r) = SubjectName(e)
      <4>1. "name" \notin DOMAIN r.device BY <1>0
      <4> HIDE DEF r, e
      <4> QED BY <1>0, <4>1 DEF NameOf, Carried
    <3> DEFINE z == SetSpec(Footswitches(Controllers(doc, r, chain), r), NameOf(r), ChainOf(e))
    <3>3. pc' = "save" /\ task' = task /\ doc' = z
      BY <2>6, <3>1 DEF WritePedal, Goto
    <3>4. z.blocks = e.blocks /\ z.name = NameOf(r) /\ z.routing = doc.routing
      BY <1>0, <3>1, ShownWritten
    <3> HIDE DEF z
    <3>5. IsShown(p, doc)' BY <3>1, <3>2, <3>3, <3>4 DEF IsShown
    <3> QED BY <3>1, <3>3, <3>5 DEF Showing, Compiling
  <2>7. CASE Save
    <3>1. pc' = "written" /\ task' = task /\ file' = doc /\ IsShown(p, doc) /\ readable
      BY <2>7 DEF Save, Goto, Showing
    <3> QED BY <3>1 DEF Showing, Compiling, IsShown
  <2>8. CASE \E t \in Templates : ReadBack(t)
    BY <2>8 DEF ReadBack
  <2>9. CASE TakeEntry \/ MissCab \/ NoSuchGear \/ ImplyCab \/ FillIn \/ DemandMore
             \/ Settle \/ Say \/ FitChain \/ Judge
    BY <2>9 DEF Showing, Compiling, TakeEntry, MissCab, NoSuchGear, ImplyCab, FillIn,
                DemandMore, Settle, Say, FitChain, Judge
  <2> QED BY <1>4, <2>1, <2>2, <2>3, <2>4, <2>5, <2>6, <2>7, <2>8, <2>9 DEF Next
<1>5. CASE ReadFile \/ PutBack \/ PlaceBlocks \/ Recall \/ Route \/ ReadAgain
  BY <1>5 DEF Showing, Compiling, ReadFile, PutBack, PlaceBlocks, Recall, Route, ReadAgain
<1> QED BY <1>1, <1>2, <1>3, <1>4, <1>5 DEF TransferNext

\* Nothing becomes the showing of a slot that was not.
LEMMA StaysNoShow ==
  ASSUME [TransferNext]_transfer, task.kind # "show"
  PROVE  task'.kind # "show"
<1>1. ASSUME NEW t, ReadBack(t) PROVE task'.kind = "rebuild"
  BY <1>1 DEF ReadBack, Rebuild
<1>2. task' = task \/ \E t : ReadBack(t)
  BY DEF TransferNext, transfer, vars, Next, Load, TakeEntry, MissCab, NoSuchGear,
         ImplyCab, FillIn, DemandMore, Settle, Say, CheckClaims, FitChain, Judge,
         LowerChain, RestoreState, WriteSections, WritePedal, Save, Refuse, Resolved,
         Goto, Unreadable, ReadFile, ReadRig, PutBack, PlaceBlocks, Recall, Route, ReadAgain
<1> QED BY <1>1, <1>2

\* A slot shown and compiled is the slot's export, and the rig it is shown as
\* can be read again (deviceslots.deviceReading, compile.Lower).
THEOREM ShownHolds == TransferSpec => []ShownIsExported
<1> DEFINE Inv == task.kind = "show" =>
                    task.was \in Slots /\ IsPreset(task.over) /\ Showing(task.was)
<1>1. TransferInit => Inv
  <2> SUFFICES ASSUME TransferInit, task.kind = "show"
               PROVE  task.was \in Slots /\ IsPreset(task.over) /\ Showing(task.was)
    OBVIOUS
  <2>1. ~Init BY DEF Init, Tasks, Make, CompileOver, Rebuild
  <2>2. task \in TransferTasks /\ pc = "read" /\ slot = task.was
    BY <2>1 DEF TransferInit
  <2>3. PICK p \in Slots, t \in Templates : task = Show(p, t)
    BY <2>2 DEF TransferTasks, Import, Export
  <2>4. task.was = p /\ task.over = t /\ IsPreset(t) BY <2>3, BuildsAssumption DEF Show
  <2> QED BY <2>2, <2>4 DEF Showing, Compiling
<1>2. Inv /\ [TransferNext]_transfer => Inv'
  <2> SUFFICES ASSUME Inv, [TransferNext]_transfer PROVE Inv' OBVIOUS
  <2>1. CASE task.kind # "show" BY <2>1, StaysNoShow
  <2>2. CASE task.kind = "show"
    <3>1. PICK p : p = task.was OBVIOUS
    <3>2. p \in Slots /\ IsPreset(task.over) /\ Showing(p) /\ IsKept(p)
      BY <2>2, <3>1, TransferAssumption
    <3>3. Showing(p)' /\ task' = task BY <2>2, <3>2, ShowStep
    <3>4. Showing(task.was)' BY <3>1, <3>3 DEF Showing
    <3>5. IsPreset(task.over)' BY <3>2, <3>3 DEF IsPreset
    <3> QED BY <3>1, <3>2, <3>3, <3>4, <3>5
  <2> QED BY <2>1, <2>2
<1>3. Inv => ShownIsExported
  <2> SUFFICES ASSUME Inv, task.kind = "show" PROVE ShownIsExported
    BY DEF ShownIsExported
  <2> DEFINE p == task.was
  <2>1. IsKept(p) /\ Showing(p) BY TransferAssumption
  <2> HIDE DEF p
  <2>2. pc = "load" => ValidRig(rig)
    <3> HAVE pc = "load"
    <3>1. rig = ShownAs(p) /\ Names(DecodePreset(p)) /\ DecodePreset(p).blocks # Empty
      BY <2>1 DEF Showing, Compiling
    <3> QED BY <2>1, <3>1, ShownIsValid
  <2>3. Written => LET exported == DocumentRead(SlotName, DecodePreset(p))
                   IN /\ file.blocks = exported.blocks
                      /\ RoutingRead(DecodePreset(p)) # Empty =>
                           \A k \in DOMAIN file.routing : file.routing[k] = exported.routing[k]
                      /\ file.name = SubjectName(exported)
    <3> HAVE Written
    <3>1. /\ IsShown(p, file)
          /\ Names(DecodePreset(p)) /\ DecodePreset(p).blocks # Empty
      BY <2>1 DEF Showing, Written
    <3> DEFINE e == Exported(p)
    <3>2. e.routing = Over(Routes(p), Blank.routing) BY <2>1, <3>1, ExportedIs
    <3>3. \A k \in DOMAIN Routes(p) : e.routing[k] = Routes(p)[k]
      <4>1. \A k \in DOMAIN Routes(p) : Over(Routes(p), Blank.routing)[k] = Routes(p)[k]
        BY DEF Over
      <4> HIDE DEF e
      <4> QED BY <3>2, <4>1
    <3> HIDE DEF e
    <3>4. Routes(p) # Empty => \A k \in DOMAIN file.routing : file.routing[k] = e.routing[k]
      BY <3>1, <3>3 DEF IsShown
    <3>5. file.blocks = e.blocks /\ file.name = SubjectName(e) BY <3>1 DEF IsShown, e
    <3> QED BY <3>4, <3>5 DEF e, Exported, Routes
  <2> QED BY <2>2, <2>3 DEF ShownIsExported, p
<1> QED BY <1>1, <1>2, <1>3, PTL DEF TransferSpec
=============================================================================
