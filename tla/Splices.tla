------------------------------ MODULE Splices ------------------------------
(***************************************************************************)
(* Writing into a section of a preset without reading the rest of it.  A   *)
(* section is MessagePack: each value is a header, and a map or an array   *)
(* is its header and what it holds.  A path is followed over the headers,  *)
(* the value found is cut out, and its replacement is written the way the  *)
(* pedal wrote the old one, where that holds it.                           *)
(*                                                                         *)
(* A header is its code and a number: how many it holds, the integer, or   *)
(* how long the string is.                                                 *)
(***************************************************************************)
EXTENDS Library

CONSTANTS
  Numbers,   \* the integer codes, narrowest first, and what each carries
  Strings,   \* the string codes, narrowest first, and how long each may be
  Bodies,    \* sections as the pedal sent them, whole or cut short
  Paths,     \* where values are written
  Values,    \* what is written there
  GridPaths, \* where a chain's positions are
  Entered    \* what a chain writes at one

VARIABLES
  body, \* the section
  tail  \* what of it never arrived

splices == <<library, body, tail>>

-----------------------------------------------------------------------------
(* Reading over it *)

Past == 0
NoSpan == <<Past, Past>>

Holding(header) ==
  CASE header.code = "map" -> 2 * header.n
    [] header.code = "array" -> header.n
    [] OTHER -> 0

RECURSIVE SkipOver(_, _, _)

\* Where n values that start at i end; past the section there is none.
SkipOver(b, i, n) ==
  IF n = 0 THEN i
  ELSE IF i \notin DOMAIN b THEN Past
  ELSE SkipOver(b, SkipOver(b, i + 1, Holding(b[i])), n - 1)

Skip(b, i) == SkipOver(b, i, 1)

\* A key is an integer of four bytes or fewer.
KeyCodes == {Numbers[k].code : k \in DOMAIN Numbers} \ {"uint64", "int64"}
IsKey(header) == header.code \in KeyCodes

RECURSIVE Walk(_, _, _), IntoMap(_, _, _, _), IntoMapFlat(_, _, _, _)

\* Mutant: the value of a key that does not match is taken for one header.
IntoMapFlat(b, i, n, rest) ==
  IF n = 0 \/ i \notin DOMAIN b \/ ~IsKey(b[i]) THEN NoSpan
  ELSE IF b[i].n = Head(rest) THEN Walk(b, i + 1, Tail(rest))
  ELSE IntoMapFlat(b, i + 2, n - 1, rest)

\* The first key that matches is taken, and what comes before it stepped over.
IntoMap(b, i, n, rest) ==
  IF n = 0 \/ i \notin DOMAIN b \/ ~IsKey(b[i]) THEN NoSpan
  ELSE IF b[i].n = Head(rest) THEN Walk(b, i + 1, Tail(rest))
  ELSE IntoMap(b, Skip(b, i + 1), n - 1, rest)

IntoArray(b, i, n, rest) ==
  IF Head(rest) \notin 0 .. n - 1 THEN NoSpan
  ELSE Walk(b, SkipOver(b, i, Head(rest)), Tail(rest))

Walk(b, i, rest) ==
  IF i \notin DOMAIN b THEN NoSpan
  ELSE IF rest = <<>> THEN (IF Skip(b, i) = Past THEN NoSpan ELSE <<i, Skip(b, i)>>)
  ELSE CASE b[i].code = "map" -> IntoMap(b, i + 1, b[i].n, rest)
         [] b[i].code = "array" -> IntoArray(b, i + 1, b[i].n, rest)
         [] OTHER -> NoSpan

\* Where the value at a path starts, and where what follows it does.
Locate(b, path) == Walk(b, 1, path)

-----------------------------------------------------------------------------
(* Writing one value *)

Narrowest(codes, n) ==
  codes[SelectInSeq(codes, LAMBDA c : c.least <= n /\ n <= c.most)].code

\* Mutant: the old width is kept whatever the number is.
EncodeIntAsWas(n, like) ==
  IF \E k \in DOMAIN Numbers : Numbers[k].code = like THEN like ELSE Narrowest(Numbers, n)

\* The old width where it holds the number, the narrowest otherwise.
EncodeInt(n, like) ==
  IF \E k \in DOMAIN Numbers :
       Numbers[k].code = like /\ Numbers[k].least <= n /\ n <= Numbers[k].most
  THEN like ELSE Narrowest(Numbers, n)

EncodeString(n, like) ==
  IF \E k \in DOMAIN Strings :
       Strings[k].code = like /\ like \in {"str8", "str16"} /\ n <= Strings[k].most
  THEN like ELSE Narrowest(Strings, n)

EncodeFloat(like) == IF like = "float64" THEN like ELSE "float32"

EncodeLike(v, like) ==
  [n |-> v.n,
   code |-> CASE v.kind = "int" -> EncodeInt(v.n, like)
              [] v.kind = "text" -> EncodeString(v.n, like)
              [] v.kind = "float" -> EncodeFloat(like)
              [] OTHER -> v.kind]

ReplaceSpan(b, span, raw) ==
  SubSeq(b, 1, span[1] - 1) \o raw \o SubSeq(b, span[2], Len(b))

-----------------------------------------------------------------------------
(* The operations *)

Spliced == [kind |-> "section", over |-> Blank]
InSection == pc = "section"

SplicesInit ==
  \/ LibraryInit /\ body = <<>> /\ tail = <<>>
  \/ /\ task = Spliced /\ pc = "section"
     /\ \E s \in Bodies : body = s.body /\ tail = s.tail
     /\ under = {} /\ user = {} /\ home = FALSE
     /\ bundle = NoBundle /\ answer = NoAnswer
     /\ rig = Empty /\ doc = Blank /\ slot = NoSlot
     /\ at = 1 /\ blocks = Empty /\ said = Empty /\ missed = FALSE
     /\ chain = Empty /\ before = Empty /\ file = NoFile

Write(path, raw) ==
  /\ body' = ReplaceSpan(body, Locate(body, path), raw)
  /\ answer' = [did |-> "spliced", path |-> path, raw |-> raw]
  /\ Idle /\ UNCHANGED <<shelves, tail>>

LeftAlone(path, raw) ==
  /\ answer' = [did |-> "left", path |-> path, raw |-> raw]
  /\ Idle /\ UNCHANGED <<shelves, body, tail>>

\* A path the section does not carry is left alone.
SetAt(path, v) ==
  /\ InSection
  /\ LET span == Locate(body, path)
     IN IF span = NoSpan THEN LeftAlone(path, <<EncodeLike(v, "nil")>>)
        ELSE Write(path, <<EncodeLike(v, body[span[1]].code)>>)

KindKey == 19
BlockKind == 6
EmptyKind == 8

\* A position says itself whether a block may take it.
Takes(entry) ==
  LET kind == Locate(entry, <<KindKey>>)
  IN /\ kind # NoSpan /\ IsKey(entry[kind[1]])
     /\ entry[kind[1]].n \in {BlockKind, EmptyKind}

PlaceEntry(path, raw) ==
  /\ InSection
  /\ LET span == Locate(body, path)
     IN IF span # NoSpan /\ Takes(SubSeq(body, span[1], span[2] - 1))
        THEN Write(path, raw) ELSE LeftAlone(path, raw)

SplicesNext ==
  \/ LibraryNext /\ UNCHANGED <<body, tail>>
  \/ \E path \in Paths, v \in Values : SetAt(path, v)
  \/ \E path \in GridPaths, raw \in Entered : PlaceEntry(path, raw)

SplicesSpec == SplicesInit /\ [][SplicesNext]_splices
-----------------------------------------------------------------------------
(* Properties *)

\* What a section means, as any reader of MessagePack would have it.
RECURSIVE Reading(_, _), Readings(_, _, _), Headers(_)
Headers(tree) == 1 + FoldLeft(LAMBDA sum, kid : sum + Headers(kid), 0, tree.kids)
Readings(b, i, n) ==
  IF n = 0 THEN <<>>
  ELSE LET one == Reading(b, i) IN <<one>> \o Readings(b, i + Headers(one), n - 1)
Reading(b, i) == [head |-> b[i], kids |-> Readings(b, i + 1, Holding(b[i]))]

\* Which of its values a step leads to, and nought where it leads nowhere.
StepIn(tree, step) ==
  CASE tree.head.code = "map" ->
         LET n == SelectInSeq([k \in 1 .. tree.head.n |-> tree.kids[2 * k - 1].head],
                              LAMBDA key : ~IsKey(key) \/ key.n = step)
         IN IF n = 0 \/ ~IsKey(tree.kids[2 * n - 1].head) THEN 0 ELSE 2 * n
    [] tree.head.code = "array" ->
         IF step \in 0 .. tree.head.n - 1 THEN step + 1 ELSE 0
    [] OTHER -> 0

RECURSIVE Stands(_, _), Substituted(_, _, _)
Stands(tree, path) ==
  \/ path = <<>>
  \/ LET n == StepIn(tree, Head(path))
     IN n # 0 /\ Stands(tree.kids[n], Tail(path))
Substituted(tree, path, new) ==
  IF path = <<>> THEN new
  ELSE LET n == StepIn(tree, Head(path))
       IN [tree EXCEPT !.kids[n] = Substituted(@, Tail(path), new)]

Fits(header) ==
  \A codes \in {Numbers, Strings} : \A k \in DOMAIN codes :
    codes[k].code = header.code => codes[k].least <= header.n /\ header.n <= codes[k].most

\* A write changes the one value its path names, to what was written, and
\* whatever else the section says it goes on saying, however wide any of it
\* is; a value that is there is written, and one that never arrived whole is
\* not (wire.setAt, place, locate, replaceSpan, encodeLike).
SpliceSwapsOneValue ==
  [][pc = "section" =>
       LET meant == Reading(body \o tail, 1)
       IN /\ answer'.did = "spliced" =>
               /\ Stands(meant, answer'.path)
               /\ Reading(body' \o tail, 1)
                    = Substituted(meant, answer'.path, Reading(answer'.raw, 1))
               /\ \A i \in DOMAIN body' : Fits(body'[i])
          /\ answer'.did = "left" /\ answer'.path \in Paths /\ tail = <<>> =>
               ~Stands(meant, answer'.path)]_splices
=============================================================================
