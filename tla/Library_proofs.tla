--------------------------- MODULE Library_proofs ---------------------------
(***************************************************************************)
(* Proofs about Library, for any shelves of rigs and any names that can be *)
(* put in order.                                                           *)
(*                                                                         *)
(* FilesOnly is the inductive invariant: whatever is copied or scaffolded, *)
(* every file on either shelf is one a shelf can hold, its names in lower  *)
(* case and its aliases a list.  A lookup is a choice of the earliest rig  *)
(* that answers; Least, the least-number principle, gives there being one, *)
(* and so FirstOfIs, on which what a lookup finds rests (PickedIs).        *)
(***************************************************************************)
EXTENDS Library, TLAPS, WellFoundedInduction, SequenceTheorems

-----------------------------------------------------------------------------
(* The first of what may be none *)

\* A set of numbers with anything in it has a least one.
LEMMA Least ==
  ASSUME NEW S, S \subseteq Nat, S # {}
  PROVE  \E n \in S : \A m \in S : n <= m
<1> DEFINE R == OpToRel(<, Nat)
<1>1. IsWellFoundedOn(R, Nat) BY NatLessThanWellFounded
<1>2. PICK n \in S : \A m \in S : <<m, n>> \notin R
  <2> HIDE DEF R
  <2> QED BY <1>1, WFMin
<1>3. ASSUME NEW m \in S, m < n PROVE FALSE
  <2>1. <<m, n>> \in R BY <1>3 DEF OpToRel
  <2> QED BY <2>1, <1>2
<1> QED BY <1>3

\* The least of a set of numbers is one of them.
LEMMA MinIsIn ==
  ASSUME NEW S, S \subseteq Nat, S # {}
  PROVE  Min(S) \in S
BY Least DEF Min

\* Every name in lower case has a place in the order.
LEMMA RankIs ==
  ASSUME NEW n \in Lower
  PROVE  Rank(n) \in Nat /\ Alphabet[Rank(n)] = n
<1>1. \E i \in DOMAIN Alphabet : Alphabet[i] = n BY DEF Lower, ToSet
<1>2. DOMAIN Alphabet \subseteq Nat BY NamesAssumption
<1> QED BY <1>1, <1>2 DEF Rank

\* Every member of a shelf is a file it can hold.
AllFiles(shelf) == \A f \in shelf : IsFile(f)

\* There is an earliest rig of any there are, by identifier and then by file
\* (sortEntries).
LEMMA FirstOfIs ==
  ASSUME NEW rigs, AllFiles(rigs), rigs # {}
  PROVE  FirstOf(rigs) \in rigs
<1>1. PICK n \in {Rank(f.id) : f \in rigs} :
        \A m \in {Rank(f.id) : f \in rigs} : n <= m
  <2>1. {Rank(f.id) : f \in rigs} \subseteq Nat BY RankIs DEF AllFiles, IsFile
  <2>2. {Rank(f.id) : f \in rigs} # {} OBVIOUS
  <2> QED BY <2>1, <2>2, Least
<1> DEFINE alike == {f \in rigs : Rank(f.id) = n}
<1>2. PICK s \in {Rank(f.stem) : f \in alike} :
        \A m \in {Rank(f.stem) : f \in alike} : s <= m
  <2>1. {Rank(f.stem) : f \in alike} \subseteq Nat BY RankIs DEF AllFiles, IsFile
  <2>2. {Rank(f.stem) : f \in alike} # {} BY <1>1
  <2> QED BY <2>1, <2>2, Least
<1>3. PICK f \in alike : Rank(f.stem) = s BY <1>2
<1>4. ASSUME NEW g \in rigs, Before(g, f) PROVE FALSE
  <2>1. /\ Rank(f.id) \in Nat /\ Rank(g.id) \in Nat
        /\ Rank(f.stem) \in Nat /\ Rank(g.stem) \in Nat
    <3>1. /\ f.id \in Lower /\ f.stem \in Lower
          /\ g.id \in Lower /\ g.stem \in Lower
      BY DEF AllFiles, IsFile
    <3> QED BY <3>1, RankIs
  <2>2. CASE Rank(g.id) < Rank(f.id)
    <3>1. Rank(f.id) = n BY <1>3
    <3>2. n <= Rank(g.id) BY <1>1
    <3> QED BY <2>1, <2>2, <3>1, <3>2
  <2>3. CASE g.id = f.id /\ Rank(g.stem) < Rank(f.stem)
    <3>1. g \in alike BY <2>3, <1>3
    <3> QED BY <2>1, <2>3, <3>1, <1>2, <1>3
  <2> QED BY <1>4, <2>2, <2>3 DEF Before
<1> QED BY <1>3, <1>4 DEF FirstOf

\* No file is the answer that there is none.
LEMMA NotNoRecipe ==
  ASSUME NEW f, IsFile(f)
  PROVE  f # NoRecipe
<1>1. "id" \in DOMAIN f BY DEF IsFile
<1>2. "id" \notin DOMAIN NoRecipe BY DEF NoRecipe
<1> QED BY <1>1, <1>2

\* A layer asked for a rig gives one that answers, and nothing only where none
\* does (recipes.first).
LEMMA FirstIs ==
  ASSUME NEW shelf, AllFiles(shelf), NEW asked
  PROVE  /\ Answering(shelf, asked) = {} => First(shelf, asked) = NoRecipe
         /\ Answering(shelf, asked) # {} =>
              First(shelf, asked) \in Answering(shelf, asked)
         /\ First(shelf, asked) = NoRecipe <=> Answering(shelf, asked) = {}
<1>1. AllFiles(Answering(shelf, asked)) BY DEF AllFiles, Answering, Entries
<1>2. Answering(shelf, asked) # {} =>
        First(shelf, asked) \in Answering(shelf, asked)
  BY <1>1, FirstOfIs DEF First
<1>3. Answering(shelf, asked) = {} => First(shelf, asked) = NoRecipe
  BY DEF First, FirstOf
<1> QED BY <1>1, <1>2, <1>3, NotNoRecipe DEF AllFiles

-----------------------------------------------------------------------------
(* Names *)

\* A name asked for is folded to lower case, and lower case is left alone.
LEMMA FoldIs ==
  /\ \A asked \in Asked : Fold(asked) \in Lower
  /\ \A n \in Lower : Fold(n) = n
BY NamesAssumption DEF Fold, Asked

\* All a rig's names, and the lower case of each.
LEMMA NamesAre ==
  ASSUME NEW f, IsFile(f)
  PROVE  /\ NamesOf(f) \in Seq(Lower)
         /\ DOMAIN NamesOf(f) \subseteq Nat
         /\ ToSet(NamesOf(f)) =
              {f.id} \cup {Fold(f.aliases[i]) : i \in DOMAIN f.aliases}
         /\ ToSet(NamesOf(f)) \subseteq Lower
<1> DEFINE rest == [i \in DOMAIN f.aliases |-> Fold(f.aliases[i])]
           n == Len(f.aliases)
<1>1. f.aliases \in Seq(Asked) /\ n \in Nat /\ DOMAIN f.aliases = 1 .. n
  BY DEF IsFile
<1>2. \A i \in 1 .. n : Fold(f.aliases[i]) \in Lower
  BY <1>1, FoldIs
<1>3. rest \in Seq(Lower) /\ Len(rest) = n /\ DOMAIN rest = 1 .. n
  BY <1>1, <1>2, IsASeq, LenProperties
<1>4. f.id \in Lower BY DEF IsFile
<1>5. <<f.id>> \in Seq(Lower) /\ Len(<<f.id>>) = 1 /\ <<f.id>>[1] = f.id BY <1>4
<1>6. NamesOf(f) = <<f.id>> \o rest BY DEF NamesOf
<1> HIDE DEF rest
<1>7. /\ NamesOf(f) \in Seq(Lower) /\ Len(NamesOf(f)) = n + 1
      /\ NamesOf(f)[1] = f.id
      /\ \A i \in 1 .. n : NamesOf(f)[i + 1] = rest[i]
  BY <1>1, <1>3, <1>5, <1>6, ConcatProperties
<1>8. DOMAIN NamesOf(f) = 1 .. n + 1 BY <1>1, <1>7, LenProperties
<1>9. ASSUME NEW x \in ToSet(NamesOf(f))
      PROVE  x \in {f.id} \cup {Fold(f.aliases[i]) : i \in DOMAIN f.aliases}
  <2>1. PICK j \in 1 .. n + 1 : NamesOf(f)[j] = x BY <1>8, <1>9 DEF ToSet
  <2>2. CASE j = 1 BY <2>1, <2>2, <1>7
  <2>3. CASE j # 1
    <3>1. j - 1 \in 1 .. n /\ (j - 1) + 1 = j BY <1>1, <2>1, <2>3
    <3>2. x = rest[j - 1] BY <3>1, <2>1, <1>7
    <3> QED BY <3>1, <3>2, <1>1 DEF rest
  <2> QED BY <2>2, <2>3
<1>10. f.id \in ToSet(NamesOf(f))
  <2>1. 1 \in DOMAIN NamesOf(f) BY <1>1, <1>8
  <2> QED BY <2>1, <1>7 DEF ToSet
<1>11. ASSUME NEW i \in DOMAIN f.aliases
       PROVE  Fold(f.aliases[i]) \in ToSet(NamesOf(f))
  <2>1. i + 1 \in DOMAIN NamesOf(f) BY <1>1, <1>8
  <2>2. NamesOf(f)[i + 1] = Fold(f.aliases[i]) BY <1>1, <1>7 DEF rest
  <2> QED BY <2>1, <2>2 DEF ToSet
<1>12. ToSet(NamesOf(f)) \subseteq Lower
  BY <1>1, <1>2, <1>4, <1>9
<1> QED BY <1>1, <1>7, <1>8, <1>9, <1>10, <1>11, <1>12

-----------------------------------------------------------------------------
(* What a lookup finds *)

\* What answers is a rig, by one of its names.
LEMMA AnsweringIs ==
  ASSUME NEW shelf, NEW asked, NEW f
  PROVE  f \in Answering(shelf, asked) <=>
           f \in shelf /\ IsRig(f) /\ Fold(asked) \in ToSet(NamesOf(f))
BY DEF Answering, Entries, Broken, Answers

\* A rig beneath is replaced by one of theirs, and left standing only where
\* none of theirs answers to any of its names (recipes.replacement).
LEMMA ReplacementIs ==
  ASSUME NEW own, AllFiles(own), NEW beneath, IsFile(beneath)
  PROVE  /\ Replacement(own, beneath) # NoRecipe =>
              Replacement(own, beneath) \in Entries(own)
         /\ Replacement(own, beneath) = NoRecipe <=>
              \A n \in ToSet(NamesOf(beneath)) : Answering(own, n) = {}
<1> DEFINE names == NamesOf(beneath)
           taken == {i \in DOMAIN names : First(own, names[i]) # NoRecipe}
<1>1. taken \subseteq Nat BY NamesAre
<1>2. Replacement(own, beneath) =
        IF taken = {} THEN NoRecipe ELSE First(own, names[Min(taken)])
  BY DEF Replacement
<1>3. taken = {} <=> \A n \in ToSet(names) : Answering(own, n) = {}
  BY FirstIs DEF ToSet
<1>4. ASSUME taken # {}
      PROVE  /\ Replacement(own, beneath) # NoRecipe
             /\ Replacement(own, beneath) \in Entries(own)
  <2>1. Min(taken) \in taken BY <1>1, <1>4, MinIsIn
  <2>2. First(own, names[Min(taken)]) # NoRecipe BY <2>1
  <2>3. First(own, names[Min(taken)]) \in Answering(own, names[Min(taken)])
    BY <2>2, FirstIs
  <2> QED BY <1>2, <1>4, <2>2, <2>3 DEF Answering
<1> QED BY <1>2, <1>3, <1>4

\* Two layers that give one answer to every name of a rig give it one
\* replacement.
LEMMA SameReplacement ==
  ASSUME NEW own, NEW other, NEW beneath, IsFile(beneath),
         \A n \in ToSet(NamesOf(beneath)) : Answering(own, n) = Answering(other, n)
  PROVE  Replacement(own, beneath) = Replacement(other, beneath)
<1> DEFINE names == NamesOf(beneath)
           taken(layer) == {i \in DOMAIN names : First(layer, names[i]) # NoRecipe}
<1>1. \A i \in DOMAIN names : names[i] \in ToSet(names) BY DEF ToSet
<1>2. \A i \in DOMAIN names : First(own, names[i]) = First(other, names[i])
  BY <1>1 DEF First
<1>3. taken(own) = taken(other) BY <1>2
<1>4. CASE taken(own) = {} BY <1>3, <1>4 DEF Replacement
<1>5. CASE taken(own) # {}
  <2>1. taken(own) \subseteq Nat BY NamesAre
  <2>2. Min(taken(own)) \in DOMAIN names BY <1>5, <2>1, MinIsIn
  <2>3. Replacement(own, beneath) = First(own, names[Min(taken(own))])
    BY <1>5 DEF Replacement
  <2>4. Replacement(other, beneath) = First(other, names[Min(taken(other))])
    BY <1>3, <1>5 DEF Replacement
  <2> QED BY <1>2, <1>3, <2>2, <2>3, <2>4
<1> QED BY <1>4, <1>5

\* One of theirs that answers comes first; beneath it, the first that answers
\* or what stands in for it (recipes.find).
LEMMA PickedIs ==
  ASSUME NEW own, AllFiles(own), NEW base, AllFiles(base), NEW asked
  PROVE  /\ Answering(own, asked) # {} =>
              /\ Picked(own, base, asked) = First(own, asked)
              /\ First(own, asked) \in Answering(own, asked)
         /\ Answering(own, asked) = {} /\ Answering(base, asked) = {} =>
              Picked(own, base, asked) = NoRecipe
         /\ Answering(own, asked) = {} /\ Answering(base, asked) # {} =>
              /\ First(base, asked) \in Answering(base, asked)
              /\ IsFile(First(base, asked))
              /\ Picked(own, base, asked) =
                   IF Replacement(own, First(base, asked)) = NoRecipe
                   THEN First(base, asked)
                   ELSE Replacement(own, First(base, asked))
<1>1. CASE Answering(own, asked) # {}
  BY <1>1, FirstIs DEF Picked
<1>2. CASE Answering(own, asked) = {} /\ Answering(base, asked) = {}
  BY <1>2, FirstIs DEF Picked
<1>3. CASE Answering(own, asked) = {} /\ Answering(base, asked) # {}
  <2>1. First(base, asked) \in Answering(base, asked) BY <1>3, FirstIs
  <2>2. IsFile(First(base, asked)) BY <2>1 DEF AllFiles, Answering, Entries
  <2>3. First(own, asked) = NoRecipe /\ First(base, asked) # NoRecipe
    BY <1>3, <2>2, FirstIs, NotNoRecipe
  <2>4. Picked(own, base, asked) =
          IF Replacement(own, First(base, asked)) = NoRecipe
          THEN First(base, asked)
          ELSE Replacement(own, First(base, asked))
    BY <2>3 DEF Picked
  <2> QED BY <1>3, <2>1, <2>2, <2>4
<1> QED BY <1>1, <1>2, <1>3

\* Whatever a lookup picks is in the merged listing.
LEMMA PickedIsListed ==
  ASSUME NEW own, AllFiles(own), NEW base, AllFiles(base), NEW asked,
         Picked(own, base, asked) # NoRecipe
  PROVE  Picked(own, base, asked) \in Merged(own, base)
<1>1. CASE Answering(own, asked) # {}
  BY <1>1, PickedIs DEF Merged, Answering
<1>2. CASE Answering(own, asked) = {}
  <2> DEFINE b == First(base, asked)
  <2>1. Answering(base, asked) # {} BY <1>2, PickedIs
  <2>2. b \in Answering(base, asked) /\ IsFile(b) BY <1>2, <2>1, PickedIs
  <2>3. CASE Replacement(own, b) = NoRecipe
    <3>1. Picked(own, base, asked) = b BY <1>2, <2>1, <2>3, PickedIs
    <3> QED BY <2>2, <2>3, <3>1 DEF Merged, Answering
  <2>4. CASE Replacement(own, b) # NoRecipe
    <3>1. Picked(own, base, asked) = Replacement(own, b)
      BY <1>2, <2>1, <2>4, PickedIs
    <3> QED BY <2>2, <2>4, <3>1, ReplacementIs DEF Merged
  <2> QED BY <2>3, <2>4
<1> QED BY <1>1, <1>2

\* Whether a file that is not a rig keeps a lookup from answering.
Stopped(own, base, asked) ==
  \/ Broken(base) # {}
  \/ \E f \in Broken(own) : Stops(f, asked, Picked(own, base, asked))

\* A lookup answers with what it picks, where nothing stops it.
LEMMA FindIs ==
  ASSUME NEW own, NEW base, NEW asked
  PROVE  Find(own, base, asked) =
           IF Stopped(own, base, asked) THEN NoRecipe ELSE Picked(own, base, asked)
BY DEF Find, Stopped

\* What is found is a rig of one of the layers, and is listed.
LEMMA FoundIsFile ==
  ASSUME NEW own, AllFiles(own), NEW base, AllFiles(base), NEW asked,
         Find(own, base, asked) # NoRecipe
  PROVE  /\ Find(own, base, asked) = Picked(own, base, asked)
         /\ ~Stopped(own, base, asked)
         /\ Find(own, base, asked) \in Merged(own, base)
         /\ Find(own, base, asked) \in own \cup base
         /\ IsRig(Find(own, base, asked))
         /\ IsFile(Find(own, base, asked))
<1>1. /\ Find(own, base, asked) = Picked(own, base, asked)
      /\ ~Stopped(own, base, asked)
  BY FindIs
<1>2. Find(own, base, asked) \in Merged(own, base) BY <1>1, PickedIsListed
<1> QED BY <1>1, <1>2 DEF Merged, Entries, Broken, AllFiles

-----------------------------------------------------------------------------
(* A lookup finds what a listing shows *)

\* A rig that is listed is found by each name no other rig of its layer has,
\* where no file that is not a rig claims one of its names.
LEMMA ListedIsFound ==
  ASSUME NEW own, AllFiles(own), NEW base, AllFiles(base), Broken(base) = {},
         NEW f \in Merged(own, base), NEW name \in ToSet(NamesOf(f)),
         NEW layer, layer = IF f \in own THEN own ELSE base,
         \A g \in layer \ {f} : IsRig(g) => ~Answers(g, name),
         \A g \in Broken(own) : Claimed(g) \cap ToSet(NamesOf(f)) = {}
  PROVE  Find(own, base, name) = f
<1>1. /\ IsFile(f) /\ IsRig(f) /\ f \in own \cup base
      /\ f \in own \/ Replacement(own, f) = NoRecipe
  BY DEF Merged, Entries, Broken, AllFiles
<1>2. Fold(name) = name BY <1>1, NamesAre, FoldIs
<1>3. Picked(own, base, name) = f
  <2>1. CASE f \in own
    <3>1. Answering(own, name) = {f}
      BY <1>1, <1>2, <2>1, AnsweringIs DEF Answers
    <3> QED BY <3>1, PickedIs
  <2>2. CASE f \notin own
    <3>1. Replacement(own, f) = NoRecipe BY <1>1, <2>2
    <3>2. Answering(own, name) = {} BY <1>1, <3>1, ReplacementIs
    <3>3. Answering(base, name) = {f}
      BY <1>1, <1>2, <2>2, AnsweringIs DEF Answers
    <3> QED BY <3>1, <3>2, <3>3, PickedIs
  <2> QED BY <2>1, <2>2
<1>4. ~Stopped(own, base, name)
  BY <1>1, <1>2, <1>3 DEF Stopped, Stops
<1> QED BY <1>3, <1>4, FindIs

\* A file that is not a rig, had it been one, answers to no name it does not
\* claim.
LEMMA MendedIs ==
  ASSUME NEW f, IsFile(f)
  PROVE  /\ IsFile(Mended(f)) /\ IsRig(Mended(f))
         /\ ToSet(NamesOf(Mended(f))) \subseteq Claimed(f)
<1> DEFINE m == Mended(f)
<1>1. /\ DOMAIN m = DOMAIN f /\ m.stem = f.stem /\ m.sound = "rig" /\ m.rig = f.rig
      /\ m.oneLine = f.oneLine
      /\ m.id = IF f.sound = "unread" THEN f.stem ELSE f.id
      /\ m.aliases = IF f.sound = "unread" THEN <<>> ELSE Append(f.aliases, f.stem)
  BY DEF Mended, IsFile
<1>2. f.aliases \in Seq(Asked) /\ f.stem \in Lower /\ f.stem \in Asked
  BY DEF IsFile, Asked
<1>3. m.aliases \in Seq(Asked) BY <1>1, <1>2
<1>4. IsFile(m) BY <1>1, <1>3 DEF IsFile
<1>5. IsRig(m) BY <1>1 DEF IsRig
<1> HIDE DEF m
<1>6. ToSet(NamesOf(m)) = {m.id} \cup {Fold(m.aliases[i]) : i \in DOMAIN m.aliases}
  BY <1>4, NamesAre
<1>7. CASE f.sound = "unread"
  <2>1. m.id = f.stem /\ m.aliases = <<>> BY <1>1, <1>7
  <2>2. ToSet(NamesOf(m)) = {f.stem} BY <1>6, <2>1
  <2> QED BY <1>4, <1>5, <1>7, <2>2 DEF Claimed, m
<1>8. CASE f.sound # "unread"
  <2>1. m.id = f.id /\ m.aliases = Append(f.aliases, f.stem) BY <1>1, <1>8
  <2>2. Claimed(f) = {f.stem} \cup ({f.id} \cup {Fold(f.aliases[i]) : i \in DOMAIN f.aliases})
    BY <1>8, NamesAre DEF Claimed
  <2>3. ASSUME NEW i \in DOMAIN m.aliases PROVE Fold(m.aliases[i]) \in Claimed(f)
    <3>1. i \in 1 .. Len(f.aliases) + 1 BY <1>2, <2>1, <2>3
    <3>2. CASE i = Len(f.aliases) + 1
      <4>1. m.aliases[i] = f.stem BY <1>2, <2>1, <3>2
      <4> QED BY <1>2, <2>2, <4>1, FoldIs
    <3>3. CASE i # Len(f.aliases) + 1
      <4>1. i \in DOMAIN f.aliases /\ m.aliases[i] = f.aliases[i]
        BY <1>2, <2>1, <3>1, <3>3
      <4> QED BY <2>2, <4>1
    <3> QED BY <3>2, <3>3
  <2>4. ToSet(NamesOf(m)) \subseteq Claimed(f) BY <1>6, <2>1, <2>2, <2>3
  <2> QED BY <1>4, <1>5, <2>4 DEF m
<1> QED BY <1>7, <1>8

\* What is found beneath is the first there that answers, and nothing of
\* theirs answers to the name asked for or stands in for it.
LEMMA NotReplaced ==
  ASSUME NEW own, AllFiles(own), NEW base, AllFiles(base), NEW asked,
         Find(own, base, asked) # NoRecipe, Find(own, base, asked) \notin own
  PROVE  /\ Answering(own, asked) = {} /\ Answering(base, asked) # {}
         /\ First(base, asked) = Find(own, base, asked)
         /\ Replacement(own, Find(own, base, asked)) = NoRecipe
<1> DEFINE found == Find(own, base, asked)
           b == First(base, asked)
<1>1. found = Picked(own, base, asked) BY FoundIsFile
<1>2. Answering(own, asked) = {}
  <2> SUFFICES ASSUME Answering(own, asked) # {} PROVE FALSE OBVIOUS
  <2>1. found \in Answering(own, asked) BY <1>1, PickedIs
  <2> QED BY <2>1, AnsweringIs
<1>3. Answering(base, asked) # {} BY <1>1, <1>2, PickedIs
<1>4. IsFile(b) /\ found = IF Replacement(own, b) = NoRecipe THEN b ELSE Replacement(own, b)
  BY <1>1, <1>2, <1>3, PickedIs
<1>5. Replacement(own, b) = NoRecipe
  <2> SUFFICES ASSUME Replacement(own, b) # NoRecipe PROVE FALSE OBVIOUS
  <2>1. found \in Entries(own) BY <1>4, ReplacementIs
  <2> QED BY <2>1 DEF Entries
<1> QED BY <1>2, <1>3, <1>4, <1>5

\* A rig found beneath is found still, had a file of theirs that did not stop
\* the lookup been a rig.
LEMMA MendedStaysOut ==
  ASSUME NEW own, AllFiles(own), NEW base, AllFiles(base), NEW asked \in Asked,
         Find(own, base, asked) # NoRecipe, Find(own, base, asked) \notin own,
         NEW f \in Broken(own)
  PROVE  Find((own \ {f}) \cup {Mended(f)}, base, asked) = Find(own, base, asked)
<1> DEFINE found == Find(own, base, asked)
           mended == (own \ {f}) \cup {Mended(f)}
<1>1. /\ f \in own /\ IsFile(f) /\ ~IsRig(f)
      /\ IsFile(Mended(f)) /\ IsRig(Mended(f))
      /\ ToSet(NamesOf(Mended(f))) \subseteq Claimed(f)
  BY MendedIs DEF Broken, AllFiles
<1>2. /\ found = Picked(own, base, asked) /\ IsFile(found)
      /\ ~Stopped(own, base, asked)
  BY FoundIsFile
<1>3. /\ Fold(asked) \notin Claimed(f)
      /\ Claimed(f) \cap ToSet(NamesOf(found)) = {}
  BY <1>2 DEF Stopped, Stops
<1>4. AllFiles(mended) BY <1>1 DEF AllFiles
<1>5. ASSUME NEW n, Fold(n) \notin Claimed(f)
      PROVE  Answering(mended, n) = Answering(own, n)
  <2>1. ASSUME NEW g
        PROVE  g \in Answering(mended, n) <=> g \in Answering(own, n)
    <3>1. Fold(n) \notin ToSet(NamesOf(Mended(f))) BY <1>1, <1>5
    <3>2. g = Mended(f) => g \notin Answering(mended, n) BY <3>1, AnsweringIs
    <3>3. g = Mended(f) => g \notin Answering(own, n) BY <3>1, AnsweringIs
    <3>4. g = f => g \notin Answering(own, n) BY <1>1, AnsweringIs
    <3>5. g = f => g \notin Answering(mended, n) BY <1>1, AnsweringIs
    <3>6. g # f /\ g # Mended(f) => (g \in mended <=> g \in own) OBVIOUS
    <3> HIDE DEF mended
    <3>7. g # f /\ g # Mended(f) =>
            (g \in Answering(mended, n) <=> g \in Answering(own, n))
      BY <3>6, AnsweringIs
    <3> QED BY <3>2, <3>3, <3>4, <3>5, <3>7
  <2> HIDE DEF mended
  <2> QED BY <2>1
<1>6. /\ Answering(own, asked) = {} /\ Answering(base, asked) # {}
      /\ First(base, asked) = found /\ Replacement(own, found) = NoRecipe
  BY NotReplaced
<1>7. Answering(mended, asked) = {} BY <1>3, <1>5, <1>6
<1>8. Replacement(mended, found) = NoRecipe
  <2>1. \A n \in ToSet(NamesOf(found)) : Fold(n) \notin Claimed(f)
    BY <1>2, <1>3, NamesAre, FoldIs
  <2>2. \A n \in ToSet(NamesOf(found)) : Answering(own, n) = Answering(mended, n)
    BY <2>1, <1>5
  <2> QED BY <1>2, <1>6, <2>2, SameReplacement
<1>9. Picked(mended, base, asked) = found
  BY <1>4, <1>6, <1>7, <1>8, PickedIs
<1>10. Broken(mended) \subseteq Broken(own) BY <1>1 DEF Broken
<1>11. ~Stopped(mended, base, asked)
  BY <1>2, <1>9, <1>10 DEF Stopped
<1> QED BY <1>9, <1>11, FindIs

-----------------------------------------------------------------------------
(* A rig of somebody's own *)

\* A rig claims every name it answers to.
LEMMA NamesAreClaimed ==
  ASSUME NEW f, IsFile(f), IsRig(f)
  PROVE  /\ ToSet(NamesOf(f)) \subseteq Claimed(f)
         /\ f.id \in Claimed(f)
BY NamesAre DEF Claimed, IsRig

\* What a copy has of its parent.
Copies(f, parent, id) ==
  /\ f.id = id /\ f.stem = id /\ f.sound = parent.sound
  /\ f.rig.chain = parent.rig.chain
  /\ parent.extends = "" => f.extends = parent.id
  /\ parent.oneLine => ToSet(NamesOf(f)) = {id}
  /\ ToSet(NamesOf(f)) \subseteq {id} \cup ToSet(NamesOf(parent))

\* A copy is its parent's gear under its own identifier, and takes none of its
\* parent's names where those are on one line (recipes.asCopy).
LEMMA CopyIs ==
  ASSUME NEW parent, IsFile(parent), NEW id \in Lower, NEW name,
         NEW f, f = CopyOf(parent, id, name)
  PROVE  IsFile(f) /\ Copies(f, parent, id)
<1> DEFINE g == AsCopy(parent, id)
<1>1. /\ DOMAIN g = DOMAIN parent /\ g.stem = id /\ g.id = id
      /\ g.sound = parent.sound /\ g.oneLine = parent.oneLine /\ g.rig = parent.rig
      /\ parent.extends = "" => g.extends = parent.id
      /\ parent.oneLine => g.aliases = <<>>
      /\ ~parent.oneLine => g.aliases = parent.aliases
  BY DEF AsCopy, IsFile
<1> HIDE DEF g
<1>2. /\ DOMAIN f = DOMAIN g /\ f.stem = g.stem /\ f.id = g.id
      /\ f.sound = g.sound /\ f.oneLine = g.oneLine /\ f.aliases = g.aliases
      /\ f.extends = g.extends
      /\ f.rig.chain = g.rig.chain /\ "chain" \in DOMAIN f.rig
  <2>1. f = Renamed(g, name) BY DEF CopyOf, g
  <2>2. CASE name = "" BY <1>1, <2>1, <2>2 DEF Renamed, IsFile
  <2>3. CASE name # ""
    <3>1. f = [g EXCEPT !.rig.name = name] BY <2>1, <2>3 DEF Renamed
    <3> QED BY <1>1, <3>1 DEF IsFile
  <2> QED BY <2>2, <2>3
<1>3. f.aliases = g.aliases BY <1>2
<1>4. parent.oneLine => f.aliases = <<>> BY <1>1, <1>3, Zenon
<1>5. ~parent.oneLine => f.aliases = parent.aliases BY <1>1, <1>3, Zenon
<1>6. f.aliases = <<>> \/ f.aliases = parent.aliases BY <1>4, <1>5, Zenon
<1>7. <<>> \in Seq(Asked) /\ parent.aliases \in Seq(Asked) BY DEF IsFile
<1>8. f.aliases \in Seq(Asked) BY <1>6, <1>7
<1>9. IsFile(f) BY <1>1, <1>2, <1>8 DEF IsFile
<1>10. ToSet(NamesOf(f)) = {id} \cup {Fold(f.aliases[i]) : i \in DOMAIN f.aliases}
  <2>1. f.id = id BY <1>1, <1>2
  <2>2. ToSet(NamesOf(f)) = {f.id} \cup {Fold(f.aliases[i]) : i \in DOMAIN f.aliases}
    BY <1>9, NamesAre
  <2> QED BY <2>1, <2>2
<1>11. f.aliases = <<>> => ToSet(NamesOf(f)) = {id} BY <1>10
<1>12. parent.oneLine => ToSet(NamesOf(f)) = {id} BY <1>4, <1>11, Zenon
<1>13. ToSet(NamesOf(f)) \subseteq {id} \cup ToSet(NamesOf(parent))
  <2>1. CASE f.aliases = <<>> BY <1>10, <2>1
  <2>2. CASE f.aliases = parent.aliases BY <1>10, <2>2, NamesAre
  <2> QED BY <1>6, <2>1, <2>2
<1> QED BY <1>1, <1>2, <1>9, <1>12, <1>13 DEF Copies

\* A scaffolded file answers to its identifier and to nothing else.
LEMMA RenderIs ==
  ASSUME NEW order, NEW id \in Lower
  PROVE  LET f == Render(order, id)
         IN /\ IsFile(f) /\ f.id = id /\ f.stem = id
            /\ ToSet(NamesOf(f)) = {id}
<1> DEFINE f == Render(order, id)
<1>1. /\ DOMAIN f = {"stem", "id", "aliases", "oneLine", "extends", "sound", "rig"}
      /\ f.stem = id /\ f.id = id /\ f.aliases = <<>> /\ f.oneLine = TRUE
      /\ "chain" \in DOMAIN f.rig
  BY DEF Render
<1> HIDE DEF f
<1>2. <<>> \in Seq(Asked) OBVIOUS
<1>3. IsFile(f) BY <1>1, <1>2 DEF IsFile
<1>4. ToSet(NamesOf(f)) = {id} BY <1>1, <1>3, NamesAre
<1> QED BY <1>1, <1>3, <1>4 DEF f

\* A rig put on the shelf under an identifier nobody claims is found by it.
LEMMA NewIsFound ==
  ASSUME NEW own, AllFiles(own), NEW base, AllFiles(base), Broken(base) = {},
         NEW f, IsFile(f), IsRig(f),
         \A g \in own \cup base : f.id \notin Claimed(g),
         \A g \in Broken(own) : Claimed(g) \cap ToSet(NamesOf(f)) = {}
  PROVE  Find(own \cup {f}, base, f.id) = f
<1> DEFINE more == own \cup {f}
<1>1. AllFiles(more) BY DEF AllFiles
<1>2. f \in Merged(more, base) BY DEF Merged, Entries, Broken
<1>3. f.id \in ToSet(NamesOf(f)) /\ Fold(f.id) = f.id
  BY NamesAre, FoldIs DEF IsFile
<1>4. \A g \in more \ {f} : IsRig(g) => ~Answers(g, f.id)
  BY <1>3, NamesAreClaimed DEF Answers, AllFiles
<1>5. Broken(more) = Broken(own) BY DEF Broken
<1>6. more = IF f \in more THEN more ELSE base OBVIOUS
<1> HIDE DEF more
<1>7. \A g \in Broken(more) : Claimed(g) \cap ToSet(NamesOf(f)) = {}
  BY <1>5
<1>8. Find(more, base, f.id) = f
  BY <1>1, <1>2, <1>3, <1>4, <1>6, <1>7, ListedIsFound
<1> QED BY <1>8 DEF more

\* A file that answers to its identifier alone, and that nobody claimed,
\* changes no other lookup.
LEMMA OthersAsBefore ==
  ASSUME NEW own, AllFiles(own), NEW base, AllFiles(base), Broken(base) = {},
         NEW f, IsFile(f), f.stem = f.id, ToSet(NamesOf(f)) = {f.id},
         \A g \in own \cup base : f.id \notin Claimed(g),
         NEW asked \in Asked, Fold(asked) # f.id
  PROVE  Find(own \cup {f}, base, asked) = Find(own, base, asked)
<1> DEFINE more == own \cup {f}
<1>1. AllFiles(more) BY DEF AllFiles
<1>2. ASSUME NEW n, Fold(n) # f.id
      PROVE  Answering(more, n) = Answering(own, n)
  <2>1. ASSUME NEW g
        PROVE  g \in Answering(more, n) <=> g \in Answering(own, n)
    BY <1>2, AnsweringIs
  <2> HIDE DEF more
  <2> QED BY <2>1
<1>3. First(more, asked) = First(own, asked) BY <1>2 DEF First
<1>4. ASSUME First(base, asked) # NoRecipe
      PROVE  Replacement(more, First(base, asked)) = Replacement(own, First(base, asked))
  <2> DEFINE b == First(base, asked)
  <2>1. b \in Answering(base, asked) BY <1>4, FirstIs
  <2>2. b \in base /\ IsRig(b) /\ IsFile(b) BY <2>1, AnsweringIs DEF AllFiles
  <2>3. f.id \notin ToSet(NamesOf(b)) BY <2>2, NamesAreClaimed
  <2>4. \A n \in ToSet(NamesOf(b)) : Fold(n) # f.id
    BY <2>2, <2>3, NamesAre, FoldIs
  <2>5. \A n \in ToSet(NamesOf(b)) : Answering(more, n) = Answering(own, n)
    BY <1>2, <2>4
  <2> HIDE DEF more
  <2> QED BY <2>2, <2>5, SameReplacement
<1>5. Picked(more, base, asked) = Picked(own, base, asked)
  <2> HIDE DEF more
  <2> QED BY <1>3, <1>4 DEF Picked
<1> DEFINE found == Picked(own, base, asked)
<1>6. ~Stops(f, asked, found)
  <2>1. Claimed(f) \subseteq {f.id} BY DEF Claimed
  <2>2. ASSUME found # NoRecipe PROVE f.id \notin ToSet(NamesOf(found))
    <3>1. found \in Merged(own, base) BY <2>2, PickedIsListed
    <3>2. found \in own \cup base /\ IsRig(found) /\ IsFile(found)
      BY <3>1 DEF Merged, Entries, Broken, AllFiles
    <3> QED BY <3>2, NamesAreClaimed
  <2> QED BY <2>1, <2>2 DEF Stops
<1>7. Broken(own) \subseteq Broken(more) /\ Broken(more) \subseteq Broken(own) \cup {f}
  BY DEF Broken
<1>8. Stopped(more, base, asked) <=> Stopped(own, base, asked)
  BY <1>5, <1>6, <1>7 DEF Stopped
<1> QED BY <1>5, <1>8, FindIs

-----------------------------------------------------------------------------
(* Files stay files *)

\* Only files a shelf can hold are on either shelf.
FilesOnly == AllFiles(user) /\ AllFiles(under)

\* A step that puts a file on the shelf puts one there, of which this is known.
Added(f) ==
  /\ user' = user \cup {f} /\ UNCHANGED under
  /\ IsFile(f) /\ f.stem = f.id
  /\ \/ /\ answer'.did = "scaffolded"
        /\ ToSet(NamesOf(f)) = {f.id}
     \/ \E asked \in Asked, name \in {"", "another"} :
          LET parent == Find(user, under, asked)
          IN /\ answer'.did = "copied" /\ answer'.from = parent
             /\ parent # NoRecipe
             /\ f = CopyOf(parent, f.id, name) /\ f.id \in Lower

\* A step leaves both shelves alone or puts one file on theirs.
LEMMA StepAdds ==
  ASSUME FilesOnly, [LibraryNext]_library
  PROVE  UNCHANGED <<user, under>> \/ \E f : Added(f)
<1>1. CASE UNCHANGED library BY <1>1 DEF library
<1>2. CASE SetlistsNext /\ UNCHANGED shelves BY <1>2 DEF shelves
<1>3. CASE List BY <1>3 DEF List, shelves
<1>4. ASSUME NEW asked \in Asked, ShowRecipe(asked)
      PROVE  UNCHANGED <<user, under>>
  BY <1>4 DEF ShowRecipe, shelves
<1>5. ASSUME NEW asked \in Asked, Build(asked)
      PROVE  UNCHANGED <<user, under>>
  BY <1>5 DEF Build, shelves
<1>6. ASSUME NEW id \in NewIds, BadId(id)
      PROVE  UNCHANGED <<user, under>>
  BY <1>6 DEF BadId, shelves
<1>7. ASSUME NEW id \in NewIds, NEW asked \in Asked, NEW name \in {"", "another"},
             Extend(asked, id, name)
      PROVE  UNCHANGED <<user, under>> \/ \E f : Added(f)
  <2>1. PICK parent : parent = Find(user, under, asked) OBVIOUS
  <2>2. PICK f : f = CopyOf(parent, id, name) OBVIOUS
  <2>3. PICK report : report = [did |-> "copied", from |-> parent, id |-> id] OBVIOUS
  <2>4. id \in Lower BY <1>7 DEF Extend, IsId
  <2>5. CASE parent = NoRecipe BY <1>7, <2>1, <2>5 DEF Extend, shelves
  <2>6. CASE parent # NoRecipe
    <3>1. Shelve(f, report) BY <1>7, <2>1, <2>2, <2>3, <2>6 DEF Extend
    <3>2. IsFile(parent) BY <2>1, <2>6, FoundIsFile DEF FilesOnly
    <3>3. IsFile(f) /\ Copies(f, parent, id) BY <2>2, <2>4, <3>2, CopyIs
    <3>4. f.id = id /\ f.stem = id BY <3>3 DEF Copies
    <3>5. report.did = "copied" /\ report.from = parent BY <2>3
    <3>6. \/ UNCHANGED <<user, under>>
          \/ answer' = report /\ user' = user \cup {f} /\ UNCHANGED under
      BY <3>1 DEF Shelve, Told
    <3>7. answer' = report /\ user' = user \cup {f} /\ UNCHANGED under => Added(f)
      BY <2>1, <2>2, <2>4, <2>6, <3>3, <3>4, <3>5 DEF Added
    <3> QED BY <3>6, <3>7
  <2> QED BY <2>5, <2>6
<1>8. ASSUME NEW id \in NewIds, NEW order \in Orders, Scaffold(order, id)
      PROVE  UNCHANGED <<user, under>> \/ \E f : Added(f)
  <2> DEFINE f == Render(order, id)
             report == [did |-> "scaffolded", id |-> id]
  <2>1. id \in Lower BY <1>8 DEF Scaffold, IsId
  <2>2. CASE ~CheckGear(order) BY <1>8, <2>2 DEF Scaffold, shelves
  <2>3. CASE CheckGear(order)
    <3>1. Shelve(f, report) BY <1>8, <2>3 DEF Scaffold
    <3>2. /\ IsFile(f) /\ f.id = id /\ f.stem = id /\ ToSet(NamesOf(f)) = {id}
      BY <2>1, RenderIs
    <3>3. report.did = "scaffolded" OBVIOUS
    <3> HIDE DEF f, report
    <3>4. UNCHANGED <<user, under>>
          \/ (answer' = report /\ user' = user \cup {f} /\ UNCHANGED under)
      BY <3>1 DEF Shelve, Told
    <3>5. answer' = report /\ user' = user \cup {f} /\ UNCHANGED under => Added(f)
      BY <3>2, <3>3 DEF Added
    <3> QED BY <3>4, <3>5
  <2> QED BY <2>2, <2>3
<1> QED
  BY <1>1, <1>2, <1>3, <1>4, <1>5, <1>6, <1>7, <1>8 DEF LibraryNext

-----------------------------------------------------------------------------
(* The theorems *)

\* No step puts anything but a file on a shelf.
LEMMA FilesStay ==
  ASSUME FilesOnly, [LibraryNext]_library
  PROVE  FilesOnly'
<1>1. CASE UNCHANGED <<user, under>> BY <1>1 DEF FilesOnly, AllFiles
<1>2. ASSUME NEW f, Added(f) PROVE FilesOnly'
  BY <1>2 DEF Added, FilesOnly, AllFiles
<1> QED BY <1>1, <1>2, StepAdds

\* Whatever is copied, scaffolded, listed, looked up or built, both shelves
\* hold well-formed files only (recipes.New, asCopy, render).
THEOREM FilesOnlyHolds == LibrarySpec => []FilesOnly
<1>1. LibraryInit => FilesOnly
  BY ShelvesAssumption DEF LibraryInit, FilesOnly, AllFiles
<1> QED BY <1>1, FilesStay, PTL DEF LibrarySpec

\* A lookup agrees with a listing, over any two shelves of files.
LEMMA LookupAgrees == FilesOnly => FoundIsListed
<1> SUFFICES ASSUME FilesOnly, Broken(under) = {} PROVE
      /\ \A f \in Merged(user, under) : \A name \in ToSet(NamesOf(f)) :
           \/ ~OnlyOf(f, name)
           \/ \E g \in Broken(user) : Claimed(g) \cap ToSet(NamesOf(f)) # {}
           \/ Find(user, under, name) = f
      /\ \A asked \in Asked :
           \A found \in {Find(user, under, asked)} \ {NoRecipe} :
                /\ found \in Merged(user, under)
                /\ found \in under \ user => \A f \in Broken(user) :
                     Find((user \ {f}) \cup {Mended(f)}, under, asked) = found
  BY DEF FoundIsListed
<1>1. ASSUME NEW f \in Merged(user, under), NEW name \in ToSet(NamesOf(f)),
             OnlyOf(f, name),
             \A g \in Broken(user) : Claimed(g) \cap ToSet(NamesOf(f)) = {}
      PROVE  Find(user, under, name) = f
  BY <1>1, ListedIsFound DEF FilesOnly, OnlyOf, Layer
<1>2. ASSUME NEW asked \in Asked, Find(user, under, asked) # NoRecipe
      PROVE  Find(user, under, asked) \in Merged(user, under)
  BY <1>2, FoundIsFile DEF FilesOnly
<1>3. ASSUME NEW asked \in Asked, Find(user, under, asked) # NoRecipe,
             Find(user, under, asked) \notin user, NEW f \in Broken(user)
      PROVE  Find((user \ {f}) \cup {Mended(f)}, under, asked) = Find(user, under, asked)
  BY <1>3, MendedStaysOut DEF FilesOnly
<1> QED BY <1>1, <1>2, <1>3

\* A lookup finds what a listing shows: what is listed is found by each of its
\* names, what is found is listed, and a file of theirs that is not a rig
\* never lets a rig through that it would have replaced (recipes.find, merged).
THEOREM FoundIsListedHolds == LibrarySpec => []FoundIsListed
BY FilesOnlyHolds, LookupAgrees, PTL

\* A rig a step adds, under an identifier nobody claims, stands apart.
LEMMA NewRigStandsApart ==
  ASSUME FilesOnly, [LibraryNext]_library, Broken(under) = {},
         NEW f \in user' \ user, Unused(f.id)
  PROVE  StandsApart(f)
<1>1. Added(f)
  <2>1. PICK h : Added(h) BY StepAdds
  <2> QED BY <2>1 DEF Added
<1>2. /\ user' = user \cup {f} /\ IsFile(f) /\ f.stem = f.id
      /\ AllFiles(user) /\ AllFiles(under)
      /\ \A g \in user \cup under : f.id \notin Claimed(g)
  BY <1>1 DEF Added, FilesOnly, Unused
<1>3. ASSUME ToSet(NamesOf(f)) = {f.id}, NEW asked \in Asked, Fold(asked) # f.id
      PROVE  Find(user', under, asked) = Find(user, under, asked)
  BY <1>2, <1>3, OthersAsBefore
<1>4. CASE answer'.did = "scaffolded" /\ ToSet(NamesOf(f)) = {f.id}
  <2>1. \A g \in Broken(user) : Claimed(g) \cap ToSet(NamesOf(f)) = {}
    BY <1>2, <1>4 DEF Broken
  <2>2. IsRig(f) => Find(user', under, f.id) = f BY <1>2, <2>1, NewIsFound
  <2> QED BY <1>3, <1>4, <2>2 DEF StandsApart
<1>5. ASSUME NEW asked \in Asked, NEW name \in {"", "another"}, NEW parent,
             parent = Find(user, under, asked), parent # NoRecipe,
             answer'.did = "copied", answer'.from = parent,
             f = CopyOf(parent, f.id, name), f.id \in Lower
      PROVE  StandsApart(f)
  <2>1. /\ IsFile(parent) /\ IsRig(parent) /\ parent \in user \cup under
        /\ ~Stopped(user, under, asked) /\ parent = Picked(user, under, asked)
    <3>1. Find(user, under, asked) # NoRecipe BY <1>5
    <3>2. LET found == Find(user, under, asked)
          IN /\ IsFile(found) /\ IsRig(found) /\ found \in user \cup under
             /\ ~Stopped(user, under, asked) /\ found = Picked(user, under, asked)
      BY <1>2, <3>1, FoundIsFile
    <3> QED BY <1>5, <3>2
  <2>2. /\ f.sound = parent.sound /\ f.rig.chain = parent.rig.chain
        /\ parent.extends = "" => f.extends = parent.id
        /\ parent.oneLine => ToSet(NamesOf(f)) = {f.id}
        /\ ToSet(NamesOf(f)) \subseteq {f.id} \cup ToSet(NamesOf(parent))
    <3>1. Copies(f, parent, f.id) BY <1>5, <2>1, CopyIs
    <3> QED BY <3>1 DEF Copies
  <2>3. \A g \in Broken(user) : Claimed(g) \cap ToSet(NamesOf(parent)) = {}
    <3>1. \A g \in Broken(user) : ~Stops(g, asked, parent) BY <2>1 DEF Stopped
    <3> QED BY <1>5, <3>1 DEF Stops
  <2>4. \A g \in Broken(user) : Claimed(g) \cap ToSet(NamesOf(f)) = {}
    <3>1. ToSet(NamesOf(f)) \subseteq {f.id} \cup ToSet(NamesOf(parent)) BY <2>2
    <3>2. \A g \in Broken(user) : f.id \notin Claimed(g) BY <1>2 DEF Broken
    <3> QED BY <2>3, <3>1, <3>2
  <2>5. IsRig(f) BY <2>1, <2>2 DEF IsRig
  <2>6. Find(user', under, f.id) = f BY <1>2, <2>4, <2>5, NewIsFound
  <2>7. ASSUME parent.extends = "" PROVE f \in Departures(Merged(user', under), parent)
    <3>1. f.id # parent.id BY <1>2, <2>1, NamesAreClaimed
    <3>2. f \in Merged(user', under) BY <1>2, <2>5 DEF Merged, Entries, Broken
    <3> QED BY <2>2, <2>7, <3>1, <3>2 DEF Departures
  <2>8. ASSUME parent.oneLine, NEW other \in Asked, Fold(other) # f.id
        PROVE  Find(user', under, other) = Find(user, under, other)
    <3>1. ToSet(NamesOf(f)) = {f.id} BY <2>2, <2>8
    <3> QED BY <1>3, <2>8, <3>1
  <2>9. answer'.did # "scaffolded" BY <1>5
  <2> QED BY <1>5, <2>2, <2>6, <2>7, <2>8, <2>9 DEF StandsApart
<1> QED BY <1>1, <1>4, <1>5 DEF Added

\* A rig somebody copies or scaffolds is found by its identifier, is listed as
\* a departure from the rig it came from, and changes what nothing else asked
\* for finds (recipes.New, asCopy).
THEOREM NewStandsApartHolds == LibrarySpec => NewStandsApart
<1>1. FilesOnly /\ [LibraryNext]_library =>
        [Broken(under) = {} =>
           \A f \in user' \ user : Unused(f.id) => StandsApart(f)]_library
  BY NewRigStandsApart
<1> QED BY <1>1, FilesOnlyHolds, PTL DEF LibrarySpec, NewStandsApart

=============================================================================
