------------------------------ MODULE Library ------------------------------
(***************************************************************************)
(* Recipes on disk: the rigs that ship, or a directory read instead of     *)
(* them, with somebody's own laid over.  A rig is asked for by its         *)
(* identifier or an alias, in any case; one of theirs takes the place of   *)
(* each rig beneath it shares a name with.  New rigs are copied from a rig *)
(* there is or scaffolded from gear, and a rig found is built.             *)
(***************************************************************************)
EXTENDS Setlists

CONSTANTS
  Alphabet,  \* what rigs are asked by, in lower case and in order
  Folded,    \* other ways to write those names, and what they are folded to
  Bases,     \* directories of rigs a lookup sits on
  Shelves,   \* directories somebody may have of their own
  NewIds,    \* identifiers new rigs are given
  Orders     \* gear new rigs are scaffolded from

Lower == ToSet(Alphabet)
Asked == Lower \cup DOMAIN Folded

ASSUME NamesAssumption ==
  /\ Alphabet \in Seq(Lower)
  /\ DOMAIN Folded \cap Lower = {}
  /\ \A written \in DOMAIN Folded : Folded[written] \in Lower

\* A file by its stem, what it states, and whether it is a rig, states one
\* that is not valid, or cannot be read at all.
IsFile(f) ==
  /\ DOMAIN f = {"stem", "id", "aliases", "oneLine", "extends", "sound", "rig"}
  /\ f.stem \in Lower /\ f.id \in Lower /\ f.aliases \in Seq(Asked)
  /\ f.oneLine \in BOOLEAN
  /\ "chain" \in DOMAIN f.rig

ASSUME ShelvesAssumption == \A shelf \in Bases \cup Shelves : \A f \in shelf : IsFile(f)

VARIABLES
  under, \* the rigs beneath, by file
  user,  \* somebody's own
  home   \* whether there is a directory for their own

library == <<setlists, under, user, home>>
shelves == <<under, user, home>>

NoRecipe == [stem |-> "no recipe"]

-----------------------------------------------------------------------------
(* Asking for a rig *)

Fold(name) == IF name \in DOMAIN Folded THEN Folded[name] ELSE name
Rank(name) == CHOOSE i \in DOMAIN Alphabet : Alphabet[i] = name

\* Every way a rig can be asked for, its identifier first.
NamesOf(f) == <<f.id>> \o [i \in DOMAIN f.aliases |-> Fold(f.aliases[i])]

Answers(f, asked) == Fold(asked) \in ToSet(NamesOf(f))

IsRig(f) == f.sound = "rig"
Broken(shelf) == {f \in shelf : ~IsRig(f)}

\* Mutant: only where the file is, not what it states.
ClaimedByStem(f) == {f.stem}

\* What a file that is not a rig may have been meant to answer to.
Claimed(f) ==
  {f.stem} \cup (IF f.sound = "unread" THEN {} ELSE ToSet(NamesOf(f)))

Entries(shelf) == shelf \ Broken(shelf)

\* In identifier order, and by file where two state one identifier.
Before(f, g) ==
  \/ Rank(f.id) < Rank(g.id)
  \/ f.id = g.id /\ Rank(f.stem) < Rank(g.stem)

Answering(shelf, asked) == {f \in Entries(shelf) : Answers(f, asked)}

\* The first there is of what may be none.
FirstOf(rigs) ==
  IF rigs = {} THEN NoRecipe
  ELSE CHOOSE f \in rigs : \A g \in rigs : ~Before(g, f)

First(shelf, asked) == FirstOf(Answering(shelf, asked))

\* Mutant: only the identifier is looked for among theirs.
ReplacementById(own, beneath) == First(own, beneath.id)

\* The rig of theirs standing in for one beneath: the first of its names
\* that one of theirs answers to.
Replacement(own, beneath) ==
  LET names == NamesOf(beneath)
      taken == {i \in DOMAIN names : First(own, names[i]) # NoRecipe}
  IN IF taken = {} THEN NoRecipe ELSE First(own, names[Min(taken)])

Merged(own, base) ==
  Entries(own) \cup {f \in Entries(base) : Replacement(own, f) = NoRecipe}

\* Before any file of theirs that is not a rig is looked at.
Picked(own, base, asked) ==
  LET theirs == First(own, asked)
      beneath == First(base, asked)
      standing == Replacement(own, beneath)
  IN IF theirs # NoRecipe THEN theirs
     ELSE IF beneath = NoRecipe \/ standing = NoRecipe THEN beneath
     ELSE standing

\* It stops a lookup only where it may be the rig asked for.
Stops(f, asked, found) ==
  \/ Fold(asked) \in Claimed(f)
  \/ found # NoRecipe /\ Claimed(f) \cap ToSet(NamesOf(found)) # {}

\* One file beneath that is not a rig stops every lookup.
Find(own, base, asked) ==
  LET found == Picked(own, base, asked)
  IN IF Broken(base) # {} \/ \E f \in Broken(own) : Stops(f, asked, found)
     THEN NoRecipe ELSE found

\* The rigs that are a small change on this one.
Departures(all, f) == {g \in all : g.extends = f.id /\ g.id # f.id}

-----------------------------------------------------------------------------
(* A rig of somebody's own *)

IsId(id) == id \in Lower

\* Mutant: a copy keeps the names its parent is asked by.
AsCopyAliased(parent, id) ==
  [parent EXCEPT !.stem = id, !.id = id,
                 !.extends = IF parent.extends = "" THEN parent.id ELSE @]

\* The parent's text, line by line: the identifier is the copy's and says
\* where it came from, a link of the parent's further down is read in its
\* place, and aliases are dropped where they are one line.
AsCopy(parent, id) ==
  [parent EXCEPT !.stem = id, !.id = id,
                 !.extends = IF parent.extends = "" THEN parent.id ELSE @,
                 !.aliases = IF parent.oneLine THEN <<>> ELSE @]

\* The subject is renamed where a name was given, and nothing else moves.
Renamed(f, name) == IF name = "" THEN f ELSE [f EXCEPT !.rig.name = name]

CopyOf(found, id, name) == Renamed(AsCopy(found, id), name)

Modelled(gear) == gear = "" \/ \E m \in Models : gear \in Block(m).gear

CheckGear(order) ==
  /\ Modelled(order.amp) /\ Modelled(order.cab)
  /\ \A i \in DOMAIN order.pedals : Modelled(order.pedals[i])

Piece(role, gear) ==
  [role |-> role, gear |-> gear, sub |-> "none", settings |-> Empty,
   model |-> NoModel, path |-> 0, pos |-> NoPosition, enabled |-> TRUE,
   exact |-> FALSE, params |-> Empty, attrs |-> Empty, position |-> NoPosition]

\* Nobody can say what a pedal does by its name, so each is a drive, ahead of
\* the amplifier.  The name is written as it was typed, and is a file nothing
\* reads where that is not plain text.
Render(order, id) ==
  [stem |-> id, id |-> id, aliases |-> <<>>, oneLine |-> TRUE, extends |-> "",
   sound |-> IF order.plain THEN "rig" ELSE "unread",
   rig |-> [name |-> order.name, instrument |-> order.instrument,
            chain |-> [i \in DOMAIN order.pedals |-> Piece("drive", order.pedals[i])]
                        \o <<Piece("amp", order.amp)>>
                        \o (IF order.cab = "" THEN <<>> ELSE <<Piece("cab", order.cab)>>),
            target |-> "any", terms |-> Empty, technique |-> "none",
            controllers |-> Empty, sections |-> Empty, switches |-> Empty,
            snapshots |-> Empty, device |-> Empty, has |-> {}]]

-----------------------------------------------------------------------------
(* The operations *)

Shelved == [kind |-> "library", over |-> Blank]

LibraryInit ==
  \/ SetlistsInit /\ under = {} /\ user = {} /\ home = FALSE
  \/ /\ task = Shelved /\ pc = "library"
     /\ under \in Bases
     /\ \/ user \in Shelves /\ home = TRUE
        \/ user = {} /\ home = FALSE
     /\ bundle = NoBundle /\ answer = NoAnswer
     /\ rig = Empty /\ doc = Blank /\ slot = NoSlot
     /\ at = 1 /\ blocks = Empty /\ said = Empty /\ missed = FALSE
     /\ chain = Empty /\ before = Empty /\ file = NoFile

InLibrary == pc = "library"
Idle == UNCHANGED <<task, pc, build, slot, bundle>>

Told(report) == answer' = report /\ Idle

\* Every file of theirs that is not a rig is reported, and nothing else is.
List ==
  /\ InLibrary
  /\ Told(IF Broken(under) \cup Broken(user) # {} THEN [did |-> "refused"]
          ELSE [did |-> "listed", rigs |-> Merged(user, under)])
  /\ UNCHANGED shelves

ShowRecipe(asked) ==
  /\ InLibrary
  /\ \E found \in {Find(user, under, asked)} :
      Told(IF found = NoRecipe THEN [did |-> "refused"]
           ELSE [did |-> "shown", rig |-> found,
                 variants |-> Departures(Merged(user, under), found)])
  /\ UNCHANGED shelves

\* A file is written where none is, and never over one.
Shelve(f, report) ==
  /\ UNCHANGED <<under, home>>
  /\ IF ~home \/ \E g \in user : g.stem = f.stem
     THEN Told([did |-> "refused"]) /\ UNCHANGED user
     ELSE Told(report) /\ user' = user \cup {f}

BadId(id) ==
  /\ InLibrary /\ ~IsId(id)
  /\ Told([did |-> "refused"])
  /\ UNCHANGED shelves

Extend(asked, id, name) ==
  /\ InLibrary /\ IsId(id)
  /\ \E found \in {Find(user, under, asked)} :
      IF found = NoRecipe
      THEN Told([did |-> "refused"]) /\ UNCHANGED shelves
      ELSE Shelve(CopyOf(found, id, name),
                  [did |-> "copied", from |-> found, id |-> id])

Scaffold(order, id) ==
  /\ InLibrary /\ IsId(id)
  /\ IF ~CheckGear(order)
     THEN Told([did |-> "refused"]) /\ UNCHANGED shelves
     ELSE Shelve(Render(order, id), [did |-> "scaffolded", id |-> id])

\* The rig found is built like any other.
Build(asked) ==
  /\ InLibrary
  /\ \E found \in {Find(user, under, asked)} \ {NoRecipe} :
      /\ task' = Make(found.rig)
      /\ rig' = found.rig
      /\ doc' = [Blank EXCEPT !.device = Device, !.name = found.rig.name]
      /\ pc' = "load"
      /\ answer' = NoAnswer
      /\ UNCHANGED <<at, blocks, said, missed, chain, before, file, slot, bundle>>
  /\ UNCHANGED shelves

LibraryNext ==
  \/ SetlistsNext /\ UNCHANGED shelves
  \/ List
  \/ \E asked \in Asked : ShowRecipe(asked) \/ Build(asked)
  \/ \E id \in NewIds :
       \/ BadId(id)
       \/ \E asked \in Asked, name \in {"", "another"} : Extend(asked, id, name)
       \/ \E order \in Orders : Scaffold(order, id)

LibrarySpec == LibraryInit /\ [][LibraryNext]_library
-----------------------------------------------------------------------------
(* Properties *)

\* A lookup finds what a listing shows.  A rig that is listed is found by
\* every name it has, where no other rig of its own layer has that name too
\* and no file of theirs that is not a rig claims it; what is found is listed;
\* and a rig found beneath is not one that a file of theirs would have stood
\* in for, had it been a rig (recipes.find, merged, replacement, claimed).
Layer(f) == IF f \in user THEN user ELSE under
OnlyOf(f, name) == \A g \in Layer(f) \ {f} : IsRig(g) => ~Answers(g, name)
Mended(f) ==
  [f EXCEPT !.sound = "rig",
            !.id = IF f.sound = "unread" THEN f.stem ELSE @,
            !.aliases = IF f.sound = "unread" THEN <<>> ELSE Append(@, f.stem)]
FoundIsListed ==
  InLibrary /\ Broken(under) = {} =>
    /\ \A f \in Merged(user, under) : \A name \in ToSet(NamesOf(f)) :
         \/ ~OnlyOf(f, name)
         \/ \E g \in Broken(user) : Claimed(g) \cap ToSet(NamesOf(f)) # {}
         \/ Find(user, under, name) = f
    /\ \A asked \in Asked :
         \A found \in {Find(user, under, asked)} \ {NoRecipe} :
              /\ found \in Merged(user, under)
              /\ found \in under \ user => \A f \in Broken(user) :
                   Find((user \ {f}) \cup {Mended(f)}, under, asked) = found

\* A rig somebody adds is found by its identifier, and everything else is
\* asked for as before: one copied stands apart from the rig it came from,
\* takes none of its names, is the same gear, and is listed with it where that
\* rig departs from no other.  For an identifier that is no name of any rig,
\* and a parent whose aliases are on one line (recipes.New, asCopy).
Unused(id) == \A f \in user \cup under : id \notin Claimed(f)
StandsApart(f) ==
  /\ IsRig(f) => Find(user', under, f.id) = f
  /\ answer'.did = "copied" =>
       LET parent == answer'.from
       IN /\ f.rig.chain = parent.rig.chain
          /\ parent.extends = "" => f \in Departures(Merged(user', under), parent)
  /\ answer'.did = "scaffolded" \/ answer'.from.oneLine =>
       \A asked \in Asked :
         Fold(asked) # f.id => Find(user', under, asked) = Find(user, under, asked)
NewStandsApart ==
  [][Broken(under) = {} =>
       \A f \in user' \ user : Unused(f.id) => StandsApart(f)]_library
=============================================================================
