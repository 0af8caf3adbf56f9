--------------------------- MODULE SlotOps_proofs ---------------------------
(***************************************************************************)
(* Proofs about SlotOps, for any slots, presets, names, edits and faults.  *)
(*                                                                         *)
(* Course is what holds of an edit under way, in terms of what the slots   *)
(* held when it began: what it has read, what is still to be kept, and     *)
(* what the writes so far have made of the slots.  Promises are the safety *)
(* properties; an edit under way keeps them by Course, and one that ends   *)
(* keeps them because wherever it ends the slots are Excused and Moved.    *)
(***************************************************************************)
EXTENDS SlotOps, TLAPS

USE DEF Kinds, Places

LEMMA AskedType ==
  ASSUME NEW kind \in Kinds, NEW from \in Addresses, NEW to \in Addresses,
         NEW writer \in BOOLEAN, NEW file \in Files
  PROVE  Asked(kind, from, to, writer, file) \in Ops
BY SlotsAssumption DEF Asked, Ops, Held, Kept

LEMMA UntoldType == Untold \in Files
BY DEF Untold, Files

LEMMA HeldType ==
  ASSUME NEW at \in Addresses, NEW name \in Names, NEW body \in Bodies
  PROVE  HeldAt(at, name, body) \in Held
BY DEF HeldAt, Held

LEMMA BackupType ==
  ASSUME NEW h \in Held, h.body # Junk, ~Worthless(h)
  PROVE  Backup(h) \in Kept
BY DEF Held, Worthless, Backup, Kept, Files, Bodies

LEMMA StepsType ==
  ASSUME NEW o \in Ops
  PROVE  StepsOf(o) \in Seq(Held)
<1> o.source \in Bodies /\ o.dest \in Bodies /\ None \in Bodies
  BY DEF Ops, Bodies
<1> o.from \in Addresses /\ o.to \in Addresses /\ o.fromName \in Names /\ o.toName \in Names
  BY DEF Ops
<1>1. HeldAt(o.to, o.fromName, o.source) \in Held
  BY HeldType
<1>2. Imported(o) \in Held
  <2>1. o.file \in Files
    BY DEF Ops
  <2>2. o.file.body \in Bodies /\ (o.file.name # NoName => o.file.name \in Names)
    BY <2>1 DEF Files, Bodies
  <2> QED BY <2>2, HeldType DEF Imported
<1>3. Exchange(o) \in Seq(Held)
  <2>1. /\ HeldAt(o.from, o.toName, o.dest) \in Held
        /\ HeldAt(o.to, o.fromName, None) \in Held
    BY HeldType
  <2> QED BY <1>1, <2>1 DEF Exchange
<1> QED BY <1>1, <1>2, <1>3 DEF StepsOf

LEMMA PutType ==
  ASSUME slots \in [Addresses -> Slots], NEW s \in Held, Put(s)
  PROVE  slots' \in [Addresses -> Slots]
BY SlotsAssumption DEF Put, Landed, Held, Slots, Bodies
-----------------------------------------------------------------------------
\* The inductive invariant: what an edit knows, is about to do and has done,
\* all in terms of what the slots held when it began.

PresetOf(s) == IF s.body \in Presets THEN s.body ELSE None

InFlight == pc # "idle"

\* Places belong to kinds; an import has one slot, the others two.
Shape ==
  InFlight =>
    /\ said = Unsaid
    /\ IF op.kind = "import" THEN op.from = op.to ELSE op.from # op.to
    /\ pc = "source" => op.kind # "import"
    /\ pc = "dest" => op.kind = "swap"
    /\ pc = "holds" => op.kind # "swap"

\* No slot has changed before the writing.
Same == InFlight /\ pc # "write" => slots = past.slots

\* Every backup made since the beginning is this edit's.
KeptByEdit ==
  InFlight =>
    /\ kept = past.kept \cup op.kept
    /\ pc # "keep" /\ pc # "write" => op.kept = {}

\* What has been read is what was there.
NamesKnown ==
  \/ pc \in {"source", "dest", "holds", "keep", "write"}
  \/ pc = "writer" /\ op.kind # "import"
  => /\ op.fromName = past.slots[op.from].name
     /\ op.toName = past.slots[op.to].name

SourceKnown ==
  pc \in {"dest", "writer", "holds", "keep", "write"} /\ op.kind # "import" =>
    /\ past.slots[op.from].body # Junk
    /\ op.source = PresetOf(past.slots[op.from])
    /\ op.kind = "copy" => op.source # None

DestKnown ==
  pc \in {"writer", "keep", "write"} /\ op.kind = "swap" =>
    /\ past.slots[op.to].body # Junk
    /\ op.dest = PresetOf(past.slots[op.to])
    /\ op.source # None \/ op.dest # None

Targets == IF op.kind = "swap" THEN {op.from, op.to} ELSE {op.to}

\* This edit has made a backup of what the slot held, if that is owed one.
Safe(a) ==
  Somebodys(past.slots[a]) /\ ~SwapWaives(past.slots[a])
    => InBackup(op.kept, a, past.slots[a])

\* What is still to be kept is what was there.
Faithful(h) ==
  /\ h.at \in Targets
  /\ h.name = past.slots[h.at].name
  /\ IF op.kind = "swap" THEN h.body = PresetOf(past.slots[h.at])
                         ELSE h.body = past.slots[h.at].body

Keeping ==
  pc = "keep" =>
    /\ \A i \in 1..Len(op.toKeep) : Faithful(op.toKeep[i])
    /\ \A a \in Targets : Safe(a) \/ \E i \in 1..Len(op.toKeep) : op.toKeep[i].at = a
    /\ op.kind # "swap" =>
         Len(op.toKeep) <= 1 /\ (op.toKeep # <<>> => op.kept = {})

\* The writes land in the order planned, after everything is kept.
Writing ==
  pc = "write" =>
    /\ \A a \in Targets : Safe(a)
    /\ \/ op.steps = StepsOf(op) /\ slots = past.slots
       \/ /\ op.kind = "swap"
          /\ op.steps = <<Exchange(op)[2]>>
          /\ slots = Landed(past.slots, Exchange(op)[1])
       \/ /\ op.kind = "swap"
          /\ op.steps = <<>>
          /\ slots = Landed(Landed(past.slots, Exchange(op)[1]), Exchange(op)[2])
       \/ /\ op.kind # "swap"
          /\ op.steps = <<>>
          /\ slots = Landed(past.slots, StepsOf(op)[1])

Course ==
  /\ Shape /\ Same /\ KeptByEdit
  /\ NamesKnown /\ SourceKnown /\ DestKnown
  /\ Keeping /\ Writing
-----------------------------------------------------------------------------
\* Types.

\* An edit under way keeps its type when one of its fields is filled in.
LEMMA OpFields ==
  ASSUME op \in Ops
  PROVE  /\ \A m, n \in Names : [op EXCEPT !.fromName = m, !.toName = n] \in Ops
         /\ \A b \in Presets \cup {None} : [op EXCEPT !.source = b] \in Ops
         /\ \A b \in Presets \cup {None} : [op EXCEPT !.dest = b] \in Ops
         /\ \A q \in Seq(Held) : [op EXCEPT !.toKeep = q] \in Ops
         /\ \A q \in Seq(Held) : [op EXCEPT !.steps = q] \in Ops
         /\ \A q \in Seq(Held), k \in SUBSET Kept :
              [op EXCEPT !.toKeep = q, !.kept = k] \in Ops
BY DEF Ops

\* Each step of each edit keeps the types.
LEMMA StepType == TypeOK /\ [Next]_vars => TypeOK'
<1> SUFFICES ASSUME TypeOK, [Next]_vars PROVE TypeOK'
  OBVIOUS
<1> USE SlotsAssumption DEF TypeOK
<1>a. /\ op.kind \in Kinds /\ op.from \in Addresses /\ op.to \in Addresses
      /\ op.file \in Files /\ op.fromName \in Names /\ op.toName \in Names
      /\ op.source \in Presets \cup {None} /\ op.dest \in Presets \cup {None}
      /\ op.toKeep \in Seq(Held) /\ op.steps \in Seq(Held)
      /\ op.kept \in SUBSET Kept
  BY DEF Ops
<1>b. \A a \in Addresses : slots[a].name \in Names /\ slots[a].body \in Bodies
  BY DEF Slots
<1>c. op.source \in Bodies /\ op.dest \in Bodies
  BY <1>a DEF Bodies
<1>r. \A a \in Addresses : Read(a) \in Presets \cup {None}
  BY DEF Read
<1>s. ASSUME NEW o \in Ops, NEW place \in Places, Start(o, place),
             said' \in [end : {"none", "done", "failed", "died"}, kept : SUBSET Kept]
      PROVE  TypeOK'
  <2>1. past' \in [slots : [Addresses -> Slots], kept : SUBSET Kept]
    BY <1>s DEF Start
  <2>2. edits' \in 0..MaxEdits /\ faults' \in 0..MaxFaults
    BY <1>s DEF Start
  <2> QED BY <1>s, <2>1, <2>2 DEF Start
<1>f. ASSUME NEW named \in SUBSET Kept, Fail(named), Fault \/ Sound,
             slots' \in [Addresses -> Slots], UNCHANGED kept
      PROVE  TypeOK'
  <2>1. said' \in [end : {"none", "done", "failed", "died"}, kept : SUBSET Kept]
    BY <1>f DEF Fail, End
  <2>2. faults' \in 0..MaxFaults
    BY <1>f DEF Fault, Sound
  <2>3. faulty' \in BOOLEAN
    BY <1>f, Zenon DEF Fault, Sound
  <2> QED BY <1>f, <2>1, <2>2, <2>3 DEF Fail, End
<1>p. ASSUME NEW o \in Ops, NEW place \in Places, Proceed(place, o),
             slots' \in [Addresses -> Slots], kept' \in SUBSET Kept
      PROVE  TypeOK'
  BY <1>p DEF Proceed, counts
<1>w. op.steps # <<>> => Head(op.steps) \in Held /\ Tail(op.steps) \in Seq(Held)
  BY <1>a
<1>k. op.toKeep # <<>> => Head(op.toKeep) \in Held /\ Tail(op.toKeep) \in Seq(Held)
  BY <1>a
<1>1. CASE UNCHANGED vars
  BY <1>1 DEF vars, counts
<1>2. CASE Asking
  <2>1. ASSUME NEW k \in {"copy", "swap"}, NEW a \in Addresses, NEW b \in Addresses,
               NEW w \in BOOLEAN, BeginEdit(k, a, b, w)
        PROVE  TypeOK'
    BY <1>s, <2>1, AskedType, UntoldType DEF BeginEdit, Unsaid
  <2>2. ASSUME NEW k \in {"copy", "swap"}, NEW a \in Addresses, RefuseSame(k, a)
        PROVE  TypeOK'
    BY <1>s, <2>2, AskedType, UntoldType DEF RefuseSame
  <2>3. ASSUME NEW f \in Files, NEW a \in Addresses, NEW w \in BOOLEAN,
               BeginImport(f, a, w)
        PROVE  TypeOK'
    BY <1>s, <2>3, AskedType DEF BeginImport, Unsaid
  <2>4. ASSUME NEW a \in Addresses, RefuseFile(a) PROVE TypeOK'
    BY <1>s, <2>4, AskedType, UntoldType DEF RefuseFile
  <2> QED BY <1>2, <2>1, <2>2, <2>3, <2>4 DEF Asking
<1>3. CASE ListNames
  BY <1>3, <1>a, <1>b, <1>p, OpFields DEF ListNames
<1>4. CASE ReadSource
  BY <1>4, <1>a, <1>r, <1>p, OpFields DEF ReadSource
<1>5. CASE ReadDest
  BY <1>5, <1>a, <1>r, <1>p, OpFields DEF ReadDest
<1>6. CASE RefuseSource \/ RefuseDest \/ RefuseWriter
  BY <1>6, <1>f DEF RefuseSource, RefuseDest, RefuseWriter, Refuse
<1>7. CASE FindWriter
  <2>1. <<HeldAt(op.to, op.toName, op.dest), HeldAt(op.from, op.fromName, op.source)>>
          \in Seq(Held)
    BY <1>a, <1>c, HeldType
  <2> QED BY <1>7, <2>1, <1>p, OpFields DEF FindWriter
<1>8. CASE ReadHeld
  <2>1. <<HeldAt(op.to, op.toName, slots[op.to].body)>> \in Seq(Held)
    BY <1>a, <1>b, HeldType
  <2> QED BY <1>8, <2>1, <1>p, OpFields DEF ReadHeld
<1>9. CASE ReadFails
  BY <1>9, <1>f DEF ReadFails
<1>10. CASE KeepOne
  <2> DEFINE h == Head(op.toKeep)
             new == IF Worthless(h) THEN {} ELSE {Backup(h)}
  <2>1. new \in SUBSET Kept
    BY <1>10, <1>k, BackupType DEF KeepOne
  <2>2. /\ kept' = kept \cup new /\ UNCHANGED slots
        /\ Proceed("keep", [op EXCEPT !.toKeep = Tail(op.toKeep),
                                      !.kept = op.kept \cup new])
    BY <1>10 DEF KeepOne
  <2> HIDE DEF new
  <2>3. [op EXCEPT !.toKeep = Tail(op.toKeep), !.kept = op.kept \cup new] \in Ops
    BY <1>10, <1>a, <1>k, <2>1, OpFields DEF KeepOne
  <2> QED BY <2>1, <2>2, <2>3, <1>p
<1>11. CASE KeepRefuses
  BY <1>11, <1>a, <1>f DEF KeepRefuses
<1>12. CASE KeepFails
  BY <1>12, <1>a, <1>f DEF KeepFails
<1>13. CASE Plan
  BY <1>13, <1>p, StepsType, OpFields DEF Plan
<1>14. CASE Write
  BY <1>14, <1>w, <1>p, PutType, OpFields DEF Write
<1>15. CASE WriteStopped
  BY <1>15, <1>a, <1>f DEF WriteStopped
<1>16. CASE WriteFails
  BY <1>16, <1>a, <1>w, <1>f, PutType DEF WriteFails
<1>17. CASE Done
  BY <1>17, <1>a DEF Done, End, counts
<1>18. CASE GiveUp
  BY <1>18 DEF GiveUp, counts
<1>19. CASE Die
  BY <1>19, <1>w, PutType DEF Die, End, counts
<1> QED BY <1>1, <1>2, <1>3, <1>4, <1>5, <1>6, <1>7, <1>8, <1>9, <1>10, <1>11,
           <1>12, <1>13, <1>14, <1>15, <1>16, <1>17, <1>18, <1>19
        DEF Next, Working

LEMMA InitType == Init => TypeOK
<1> SUFFICES ASSUME Init PROVE TypeOK
  OBVIOUS
<1>1. op \in Ops
  BY AskedType, UntoldType DEF Init
<1>2. slots \in [Addresses -> Slots]
  BY DEF Init
<1>3. said \in [end : {"none", "done", "failed", "died"}, kept : SUBSET Kept]
  BY DEF Init, Unsaid
<1>4. past \in [slots : [Addresses -> Slots], kept : SUBSET Kept]
  BY <1>2 DEF Init
<1>5. cancelled \in BOOLEAN /\ faulty \in BOOLEAN
  BY Zenon DEF Init
<1>6. kept \subseteq Kept /\ pc \in Places
  BY DEF Init
<1>7. edits \in 0..MaxEdits /\ faults \in 0..MaxFaults
  BY SlotsAssumption DEF Init
<1> QED BY <1>1, <1>2, <1>3, <1>4, <1>5, <1>6, <1>7 DEF TypeOK

\* What an edit has read, holds and writes is of its type, whatever fails.
THEOREM TypeCorrect == Spec => []TypeOK
BY InitType, StepType, PTL DEF Spec
-----------------------------------------------------------------------------
\* The course of an edit.

USE DEF InFlight

\* A slot faithfully held is owed nothing once its backup is made or waived.
LEMMA KeptIsSafe ==
  ASSUME TypeOK, NEW h \in Held, Faithful(h), h.body # Junk,
         past.slots[h.at].body # Junk
  PROVE  LET s == past.slots[h.at] IN
           Somebodys(s) /\ ~SwapWaives(s) =>
             /\ ~Worthless(h)
             /\ InBackup({Backup(h)}, h.at, s)
<1> DEFINE s == past.slots[h.at]
<1>1. h.at \in Addresses /\ s \in Slots
  BY DEF Held, TypeOK
<1>2. s.body \in Presets \cup {None, Blank, Junk}
  BY <1>1 DEF Slots, Bodies
<1> SUFFICES ASSUME Somebodys(s), ~SwapWaives(s)
             PROVE  ~Worthless(h) /\ InBackup({Backup(h)}, h.at, s)
  OBVIOUS
<1>3. h.body = s.body /\ h.name = s.name
  BY <1>2, SlotsAssumption DEF Faithful, PresetOf, Somebodys, SwapWaives
<1> QED BY <1>2, <1>3, SlotsAssumption DEF Worthless, InBackup, Backup, Somebodys

\* An edit that has ended, or begun, is on course.
LEMMA EndedCourse == pc' = "idle" => Course'
BY DEF Course, Shape, Same, KeptByEdit, NamesKnown, SourceKnown, DestKnown, Keeping, Writing

LEMMA StartedCourse ==
  ASSUME NEW o, Start(o, "names") \/ (Start(o, "writer") /\ o.kind = "import"),
         o.kept = {}, said' = Unsaid, o.kind \in Kinds,
         IF o.kind = "import" THEN o.from = o.to ELSE o.from # o.to
  PROVE  Course'
<1>1. pc' \in {"names", "writer"} /\ op' = o /\ (pc' = "writer" => o.kind = "import")
  BY DEF Start
<1>2. slots' = past'.slots /\ kept' = past'.kept \cup op'.kept
  BY <1>1 DEF Start
<1>3. Shape'
  BY <1>1 DEF Shape
<1>4. Same' /\ KeptByEdit'
  BY <1>1, <1>2 DEF Same, KeptByEdit
<1>5. NamesKnown' /\ SourceKnown' /\ DestKnown' /\ Keeping' /\ Writing'
  BY <1>1 DEF NamesKnown, SourceKnown, DestKnown, Keeping, Writing
<1> QED BY <1>3, <1>4, <1>5 DEF Course
\* While it reads and keeps, an edit learns what was there and keeps what it owes.
LEMMA StepCourse == TypeOK /\ Course /\ [Next]_vars => Course'
<1> SUFFICES ASSUME TypeOK, Course, [Next]_vars PROVE Course'
  OBVIOUS
<1> USE SlotsAssumption
<1>a. /\ op.kind \in Kinds /\ op.from \in Addresses /\ op.to \in Addresses
      /\ op.file \in Files /\ op.fromName \in Names /\ op.toName \in Names
      /\ op.source \in Presets \cup {None} /\ op.dest \in Presets \cup {None}
      /\ op.toKeep \in Seq(Held) /\ op.steps \in Seq(Held)
  BY DEF TypeOK, Ops
<1>b. op \in Ops
  BY DEF TypeOK
<1>1. CASE pc' = "idle"
  BY <1>1, EndedCourse
<1>2. CASE UNCHANGED vars \/ GiveUp
  <2>1. UNCHANGED <<slots, kept, pc, op, said, past>>
    BY <1>2 DEF vars, GiveUp
  <2> QED BY <2>1
          DEF Course, Shape, Same, KeptByEdit, NamesKnown, SourceKnown, DestKnown,
              Keeping, Faithful, Targets, Safe, SwapWaives, Writing
<1>3. CASE Asking
  <2>1. ASSUME NEW k \in {"copy", "swap"}, NEW x \in Addresses, NEW y \in Addresses,
               NEW w \in BOOLEAN, BeginEdit(k, x, y, w)
        PROVE  Course'
    BY <2>1, StartedCourse DEF BeginEdit, Asked
  <2>2. ASSUME NEW f \in Files, NEW x \in Addresses, NEW w \in BOOLEAN,
               BeginImport(f, x, w)
        PROVE  Course'
    BY <2>2, StartedCourse DEF BeginImport, Asked
  <2>3. ASSUME NEW k \in {"copy", "swap"}, NEW x \in Addresses,
               RefuseSame(k, x) \/ RefuseFile(x)
        PROVE  Course'
    BY <2>3, EndedCourse DEF RefuseSame, RefuseFile, Start
  <2> QED BY <1>3, <2>1, <2>2, <2>3 DEF Asking
<1> USE DEF Proceed
<1>4. CASE ListNames
  <2>1. /\ slots = past.slots /\ op.kept = {}
        /\ UNCHANGED <<slots, kept, said, past>>
    BY <1>4 DEF ListNames, Course, Same, KeptByEdit
  <2>2. /\ op'.kind = op.kind /\ op'.from = op.from /\ op'.to = op.to
        /\ op'.kept = op.kept
        /\ op'.fromName = slots[op.from].name /\ op'.toName = slots[op.to].name
        /\ pc' = IF op.kind = "import" THEN "holds" ELSE "source"
    BY <1>4, <1>b DEF ListNames, Ops
  <2>3. Shape' /\ Same' /\ KeptByEdit'
    BY <1>4, <2>1, <2>2 DEF ListNames, Course, Shape, Same, KeptByEdit
  <2>4. NamesKnown'
    BY <2>1, <2>2 DEF NamesKnown
  <2>5. SourceKnown' /\ DestKnown' /\ Keeping' /\ Writing'
    BY <2>2 DEF SourceKnown, DestKnown, Keeping, Writing
  <2> QED BY <2>3, <2>4, <2>5 DEF Course
<1>5. CASE ReadSource
  <2>1. /\ slots = past.slots /\ op.kept = {} /\ op.kind # "import"
        /\ UNCHANGED <<slots, kept, said, past>>
    BY <1>5 DEF ReadSource, Course, Shape, Same, KeptByEdit
  <2>2. /\ op'.kind = op.kind /\ op'.from = op.from /\ op'.to = op.to
        /\ op'.kept = op.kept
        /\ op'.fromName = op.fromName /\ op'.toName = op.toName
        /\ op'.source = PresetOf(past.slots[op.from])
        /\ op.kind = "copy" => op'.source # None
        /\ past.slots[op.from].body # Junk
        /\ pc' = IF op.kind = "copy" THEN "writer" ELSE "dest"
    BY <1>5, <1>b, <2>1 DEF ReadSource, Ops, Read, PresetOf
  <2>3. Shape' /\ Same' /\ KeptByEdit'
    BY <1>5, <1>a, <2>1, <2>2 DEF ReadSource, Course, Shape, Same, KeptByEdit
  <2>4. NamesKnown' /\ SourceKnown'
    BY <1>5, <2>1, <2>2 DEF ReadSource, Course, NamesKnown, SourceKnown
  <2>5. DestKnown' /\ Keeping' /\ Writing'
    BY <2>2 DEF DestKnown, Keeping, Writing
  <2> QED BY <2>3, <2>4, <2>5 DEF Course
<1>6. CASE ReadDest
  <2>1. /\ slots = past.slots /\ op.kept = {} /\ op.kind = "swap"
        /\ UNCHANGED <<slots, kept, said, past>>
    BY <1>6 DEF ReadDest, Course, Shape, Same, KeptByEdit
  <2>2. /\ op'.kind = op.kind /\ op'.from = op.from /\ op'.to = op.to
        /\ op'.kept = op.kept
        /\ op'.fromName = op.fromName /\ op'.toName = op.toName
        /\ op'.source = op.source
        /\ op'.dest = PresetOf(past.slots[op.to])
        /\ op.source # None \/ op'.dest # None
        /\ past.slots[op.to].body # Junk
        /\ pc' = "writer"
    BY <1>6, <1>b, <2>1 DEF ReadDest, Ops, Read, PresetOf
  <2>3. Shape' /\ Same' /\ KeptByEdit'
    BY <1>6, <2>1, <2>2 DEF ReadDest, Course, Shape, Same, KeptByEdit
  <2>4. NamesKnown' /\ SourceKnown' /\ DestKnown'
    BY <1>6, <2>1, <2>2 DEF ReadDest, Course, NamesKnown, SourceKnown, DestKnown
  <2>5. Keeping' /\ Writing'
    BY <2>2 DEF Keeping, Writing
  <2> QED BY <2>3, <2>4, <2>5 DEF Course
<1>7. CASE FindWriter /\ op.kind # "swap"
  <2>1. /\ UNCHANGED <<slots, kept, said, past, op>>
        /\ pc = "writer" /\ pc' = IF op.kind = "copy" THEN "holds" ELSE "names"
    BY <1>7, <1>a DEF FindWriter
  <2>2. Shape' /\ Same' /\ KeptByEdit'
    BY <1>a, <1>7, <2>1 DEF Course, Shape, Same, KeptByEdit
  <2>3. NamesKnown' /\ SourceKnown' /\ DestKnown'
    BY <1>a, <1>7, <2>1 DEF Course, NamesKnown, SourceKnown, DestKnown
  <2>4. Keeping' /\ Writing'
    BY <2>1 DEF Keeping, Writing
  <2> QED BY <2>2, <2>3, <2>4 DEF Course
<1>8. CASE FindWriter /\ op.kind = "swap"
  <2> DEFINE h1 == HeldAt(op.to, op.toName, op.dest)
             h2 == HeldAt(op.from, op.fromName, op.source)
  <2>1. /\ UNCHANGED <<slots, kept, said, past>>
        /\ pc = "writer" /\ pc' = "keep"
        /\ op' = [op EXCEPT !.toKeep = <<h1, h2>>]
    BY <1>8 DEF FindWriter
  <2>2. /\ op'.kind = "swap" /\ op'.from = op.from /\ op'.to = op.to
        /\ op'.kept = op.kept /\ op'.fromName = op.fromName /\ op'.toName = op.toName
        /\ op'.source = op.source /\ op'.dest = op.dest
        /\ op'.toKeep = <<h1, h2>>
    BY <1>8, <1>b, <2>1 DEF Ops
  <2>3. Shape' /\ Same' /\ KeptByEdit'
    BY <1>8, <2>1, <2>2 DEF Course, Shape, Same, KeptByEdit
  <2>4. NamesKnown' /\ SourceKnown' /\ DestKnown'
    BY <1>8, <2>1, <2>2 DEF Course, NamesKnown, SourceKnown, DestKnown
  <2>5. Faithful(h1)' /\ Faithful(h2)'
    BY <1>8, <2>1, <2>2
       DEF Course, NamesKnown, SourceKnown, DestKnown, Faithful, Targets, HeldAt
  <2>6. Keeping'
    BY <2>1, <2>2, <2>5 DEF Keeping, Targets, HeldAt
  <2>7. Writing'
    BY <2>1 DEF Writing
  <2> QED BY <2>3, <2>4, <2>6, <2>7 DEF Course
<1>9. CASE ReadHeld
  <2> DEFINE h1 == HeldAt(op.to, op.toName, slots[op.to].body)
  <2>1. /\ UNCHANGED <<slots, kept, said, past>> /\ slots = past.slots
        /\ pc = "holds" /\ pc' = "keep" /\ op.kind # "swap" /\ op.kept = {}
        /\ op' = [op EXCEPT !.toKeep = <<h1>>]
    BY <1>9 DEF ReadHeld, Course, Same, Shape, KeptByEdit
  <2>2. /\ op'.kind = op.kind /\ op'.from = op.from /\ op'.to = op.to
        /\ op'.kept = op.kept /\ op'.fromName = op.fromName /\ op'.toName = op.toName
        /\ op'.source = op.source /\ op'.dest = op.dest
        /\ op'.toKeep = <<h1>>
    BY <1>b, <2>1 DEF Ops
  <2>3. Shape' /\ Same' /\ KeptByEdit'
    BY <2>1, <2>2 DEF Course, Shape, Same, KeptByEdit
  <2>4. NamesKnown' /\ SourceKnown' /\ DestKnown'
    BY <2>1, <2>2 DEF Course, NamesKnown, SourceKnown, DestKnown
  <2>5. Faithful(h1)'
    BY <2>1, <2>2 DEF Course, NamesKnown, Faithful, Targets, HeldAt
  <2>6. Keeping'
    BY <2>1, <2>2, <2>5 DEF Keeping, Targets, HeldAt
  <2>7. Writing'
    BY <2>1 DEF Writing
  <2> QED BY <2>3, <2>4, <2>6, <2>7 DEF Course
<1>10. CASE KeepOne
  <2> DEFINE h == Head(op.toKeep)
             new == IF Worthless(h) THEN {} ELSE {Backup(h)}
             rest == Tail(op.toKeep)
  <2>1. /\ UNCHANGED <<slots, said, past>> /\ slots = past.slots
        /\ pc = "keep" /\ pc' = "keep" /\ op.toKeep # <<>> /\ h.body # Junk
        /\ kept' = kept \cup new /\ kept = past.kept \cup op.kept
        /\ op' = [op EXCEPT !.toKeep = rest, !.kept = op.kept \cup new]
    BY <1>10 DEF KeepOne, Course, Same, KeptByEdit
  <2>2. /\ op'.kind = op.kind /\ op'.from = op.from /\ op'.to = op.to
        /\ op'.fromName = op.fromName /\ op'.toName = op.toName
        /\ op'.source = op.source /\ op'.dest = op.dest
        /\ op'.toKeep = rest /\ op'.kept = op.kept \cup new
    BY <1>b, <2>1 DEF Ops
  <2>3. Shape' /\ Same' /\ KeptByEdit'
    BY <2>1, <2>2 DEF Course, Shape, Same, KeptByEdit
  <2>4. NamesKnown' /\ SourceKnown' /\ DestKnown'
    BY <2>1, <2>2 DEF Course, NamesKnown, SourceKnown, DestKnown
  <2>5. /\ h = op.toKeep[1] /\ h \in Held
        /\ Len(op.toKeep) \in Nat /\ Len(op.toKeep) >= 1
        /\ rest \in Seq(Held) /\ Len(rest) = Len(op.toKeep) - 1
        /\ \A i \in 1..Len(rest) : rest[i] = op.toKeep[i + 1]
    BY <1>a, <2>1
  <2>6. Faithful(h)
    BY <2>1, <2>5 DEF Course, Keeping
  <2>7. past.slots[h.at].body # Junk
    BY <2>1, <2>6
       DEF Course, SourceKnown, DestKnown, Faithful, Targets
  <2>8. \A x : x = h.at => Safe(x)'
    <3>1. Somebodys(past.slots[h.at]) /\ ~SwapWaives(past.slots[h.at])
            => ~Worthless(h) /\ InBackup({Backup(h)}, h.at, past.slots[h.at])
      BY <2>1, <2>5, <2>6, <2>7, KeptIsSafe
    <3>2. ~Worthless(h) => Backup(h) \in op'.kept
      BY <2>2
    <3> HIDE DEF h, new
    <3> QED BY <2>1, <2>2, <3>1, <3>2 DEF Safe, SwapWaives, InBackup
  <2>9. \A x : Safe(x) => Safe(x)'
    BY <2>1, <2>2 DEF Safe, SwapWaives, InBackup
  <2>10. Targets' = Targets
    BY <2>2 DEF Targets
  <2>11. \A g : Faithful(g) => Faithful(g)'
    BY <2>1, <2>2, <2>10 DEF Faithful
  <2>12. \A i \in 1..Len(op'.toKeep) :
           i + 1 \in 1..Len(op.toKeep) /\ op'.toKeep[i] = op.toKeep[i + 1]
    BY <2>2, <2>5
  <2>13. \A i \in 1..Len(op'.toKeep) : Faithful(op.toKeep[i])'
    BY <2>1, <2>11, <2>12 DEF Course, Keeping
  <2>14. ASSUME NEW x \in Targets
         PROVE  Safe(x)' \/ \E i \in 1..Len(op'.toKeep) : op'.toKeep[i].at = x
    <3>1. CASE Safe(x)
      BY <3>1, <2>9
    <3>2. CASE x = h.at
      BY <3>2, <2>8
    <3>3. ASSUME NEW j \in 1..Len(op.toKeep), op.toKeep[j].at = x, x # h.at
          PROVE  \E i \in 1..Len(op'.toKeep) : op'.toKeep[i].at = x
      <4>1. j # 1
        BY <2>5, <3>3
      <4>2. j - 1 \in 1..Len(op'.toKeep) /\ op'.toKeep[j - 1] = op.toKeep[j]
        BY <2>2, <2>5, <4>1
      <4> QED BY <3>3, <4>2
    <3> QED BY <2>1, <3>1, <3>2, <3>3 DEF Course, Keeping
  <2>15. op.kind # "swap" => Len(op'.toKeep) <= 1 /\ op'.toKeep = <<>>
    BY <2>1, <2>2, <2>5 DEF Course, Keeping
  <2>16. Keeping'
    <3> HIDE DEF h, new, rest
    <3> QED BY <2>1, <2>2, <2>10, <2>13, <2>14, <2>15 DEF Keeping
  <2>17. Writing'
    BY <2>1 DEF Writing
  <2> QED BY <2>3, <2>4, <2>16, <2>17 DEF Course
<1>11. CASE Plan
  <2>1. /\ UNCHANGED <<slots, kept, said, past>> /\ slots = past.slots
        /\ pc = "keep" /\ pc' = "write" /\ op.toKeep = <<>>
        /\ op' = [op EXCEPT !.steps = StepsOf(op)]
    BY <1>11 DEF Plan, Course, Same
  <2>2. /\ op'.kind = op.kind /\ op'.from = op.from /\ op'.to = op.to
        /\ op'.fromName = op.fromName /\ op'.toName = op.toName
        /\ op'.source = op.source /\ op'.dest = op.dest /\ op'.file = op.file
        /\ op'.kept = op.kept /\ op'.steps = StepsOf(op)
    BY <1>b, <2>1 DEF Ops
  <2>3. Shape' /\ Same' /\ KeptByEdit'
    BY <2>1, <2>2 DEF Course, Shape, Same, KeptByEdit
  <2>4. NamesKnown' /\ SourceKnown' /\ DestKnown'
    BY <2>1, <2>2 DEF Course, NamesKnown, SourceKnown, DestKnown
  <2>5. \A x \in Targets : Safe(x)
    BY <2>1 DEF Course, Keeping
  <2>6. Targets' = Targets /\ (\A x : Safe(x) => Safe(x)')
    BY <2>1, <2>2 DEF Targets, Safe, SwapWaives
  <2>7. StepsOf(op)' = StepsOf(op)
    BY <2>2 DEF StepsOf, Exchange, Imported
  <2>8. Writing'
    BY <2>1, <2>2, <2>5, <2>6, <2>7 DEF Writing
  <2>9. Keeping'
    BY <2>1 DEF Keeping
  <2> QED BY <2>3, <2>4, <2>8, <2>9 DEF Course
<1>12. CASE Write
  <2>1. /\ UNCHANGED <<kept, said, past>>
        /\ pc = "write" /\ pc' = "write" /\ op.steps # <<>>
        /\ slots' = Landed(slots, Head(op.steps))
        /\ op' = [op EXCEPT !.steps = Tail(op.steps)]
    BY <1>12 DEF Write, Put
  <2>2. /\ op'.kind = op.kind /\ op'.from = op.from /\ op'.to = op.to
        /\ op'.fromName = op.fromName /\ op'.toName = op.toName
        /\ op'.source = op.source /\ op'.dest = op.dest /\ op'.file = op.file
        /\ op'.kept = op.kept /\ op'.steps = Tail(op.steps)
    BY <1>b, <2>1 DEF Ops
  <2>3. Shape' /\ Same' /\ KeptByEdit'
    BY <2>1, <2>2 DEF Course, Shape, Same, KeptByEdit
  <2>4. NamesKnown' /\ SourceKnown' /\ DestKnown'
    BY <2>1, <2>2 DEF Course, NamesKnown, SourceKnown, DestKnown
  <2>5. Targets' = Targets /\ (\A x : Safe(x) => Safe(x)')
    BY <2>1, <2>2 DEF Targets, Safe, SwapWaives
  <2>6. StepsOf(op)' = StepsOf(op) /\ Exchange(op)' = Exchange(op)
    BY <2>2 DEF StepsOf, Exchange, Imported
  <2>7. \A x \in Targets' : Safe(x)'
    BY <2>1, <2>5 DEF Course, Writing
  <2>8. op.kind = "swap" /\ op.steps = StepsOf(op) /\ slots = past.slots => Writing'
    <3> SUFFICES ASSUME op.kind = "swap", op.steps = StepsOf(op), slots = past.slots
                 PROVE  Writing'
      OBVIOUS
    <3>1. PICK x, y : Exchange(op) = <<x, y>>
      BY DEF Exchange
    <3>2. op.steps = <<x, y>>
      BY <3>1 DEF StepsOf
    <3>3. op'.steps = <<y>> /\ slots' = Landed(past.slots, x)
      BY <2>1, <2>2, <3>2
    <3>4. Exchange(op)[1] = x /\ Exchange(op)[2] = y
      BY <3>1
    <3> QED BY <2>1, <2>2, <2>6, <2>7, <3>3, <3>4 DEF Writing
  <2>9. op.kind = "swap" /\ op.steps = <<Exchange(op)[2]>>
          /\ slots = Landed(past.slots, Exchange(op)[1]) => Writing'
    <3> SUFFICES ASSUME op.kind = "swap", op.steps = <<Exchange(op)[2]>>,
                        slots = Landed(past.slots, Exchange(op)[1])
                 PROVE  Writing'
      OBVIOUS
    <3>1. /\ op'.steps = <<>>
          /\ slots' = Landed(Landed(past.slots, Exchange(op)[1]), Exchange(op)[2])
      BY <2>1, <2>2
    <3> QED BY <2>1, <2>2, <2>6, <2>7, <3>1 DEF Writing
  <2>10. op.kind # "swap" /\ op.steps = StepsOf(op) /\ slots = past.slots => Writing'
    <3> SUFFICES ASSUME op.kind # "swap", op.steps = StepsOf(op), slots = past.slots
                 PROVE  Writing'
      OBVIOUS
    <3>1. PICK x : StepsOf(op) = <<x>>
      BY DEF StepsOf
    <3>2. op'.steps = <<>> /\ slots' = Landed(past.slots, x) /\ StepsOf(op)[1] = x
      BY <2>1, <2>2, <3>1
    <3> QED BY <2>1, <2>2, <2>6, <2>7, <3>2 DEF Writing
  <2>11. Writing'
    BY <2>1, <2>8, <2>9, <2>10 DEF Course, Writing
  <2>12. Keeping'
    BY <2>1 DEF Keeping
  <2> QED BY <2>3, <2>4, <2>11, <2>12 DEF Course
<1>13. CASE RefuseSource \/ RefuseDest \/ RefuseWriter \/ ReadFails \/ KeepRefuses
             \/ KeepFails \/ WriteStopped \/ WriteFails \/ Done \/ Die
  BY <1>1, <1>13
     DEF RefuseSource, RefuseDest, RefuseWriter, Refuse, ReadFails, KeepRefuses,
         KeepFails, WriteStopped, WriteFails, Done, Die, Fail, End
<1> QED BY <1>2, <1>3, <1>4, <1>5, <1>6, <1>7, <1>8, <1>9, <1>10, <1>11, <1>12, <1>13
        DEF Next, Working

LEMMA InitCourse == Init => Course
BY DEF Init, Course, Shape, Same, KeptByEdit, NamesKnown, SourceKnown, DestKnown,
       Keeping, Writing

\* An edit is on course wherever it fails, is given up or dies.
LEMMA OnCourse == Spec => [](TypeOK /\ Course)
BY InitType, StepType, InitCourse, StepCourse, PTL DEF Spec

\* The two halves of a swap are at its two slots.
LEMMA ExchangeAt ==
  /\ Exchange(op)[1].at \in {op.from, op.to} /\ Exchange(op)[2].at \in {op.from, op.to}
  /\ op.from # op.to => Exchange(op)[1].at # Exchange(op)[2].at
BY DEF Exchange, HeldAt

\* The slot about to be written holds what it held, and that is kept.
LEMMA NextIsSafe ==
  ASSUME TypeOK, Course, pc = "write", op.steps # <<>>
  PROVE  /\ Head(op.steps).at \in Targets
         /\ slots[Head(op.steps).at] = past.slots[Head(op.steps).at]
<1> USE DEF Course, Writing
<1>1. CASE op.steps = StepsOf(op) /\ slots = past.slots
  <2>1. CASE op.kind = "swap"
    <3>1. PICK x, y : Exchange(op) = <<x, y>>
      BY DEF Exchange
    <3>2. Head(op.steps) = x /\ x = Exchange(op)[1]
      BY <1>1, <2>1, <3>1 DEF StepsOf
    <3> QED BY <1>1, <2>1, <3>2, ExchangeAt DEF Targets
  <2>2. CASE op.kind # "swap"
    BY <1>1, <2>2 DEF StepsOf, Imported, HeldAt, Targets
  <2> QED BY <2>1, <2>2
<1>2. CASE /\ op.kind = "swap" /\ op.steps = <<Exchange(op)[2]>>
           /\ slots = Landed(past.slots, Exchange(op)[1])
  <2>1. Head(op.steps) = Exchange(op)[2] /\ op.from # op.to
    BY <1>2 DEF Shape
  <2>2. Exchange(op)[1].at # Exchange(op)[2].at
    BY <2>1, ExchangeAt
  <2>3. past.slots \in [Addresses -> Slots] /\ op.from \in Addresses /\ op.to \in Addresses
    BY DEF TypeOK, Ops
  <2>4. Exchange(op)[2].at \in Addresses
    BY <2>3, ExchangeAt
  <2>5. slots[Exchange(op)[2].at] = past.slots[Exchange(op)[2].at]
    BY <1>2, <2>2, <2>3, <2>4 DEF Landed
  <2> QED BY <1>2, <2>1, <2>5, ExchangeAt DEF Targets
<1> QED BY <1>1, <1>2

\* Only a slot whose content is kept, or owed nothing, changes.
LEMMA PutKeeps ==
  ASSUME TypeOK, Course, pc = "write", op.steps # <<>>, Put(Head(op.steps)),
         NEW a \in Addresses, slots'[a] # slots[a],
         Somebodys(slots[a]), ~SwapWaives(slots[a])
  PROVE  InBackup(kept, a, slots[a])
<1>1. a = Head(op.steps).at
  BY DEF Put, Landed, TypeOK
<1>2. slots[a] = past.slots[a] /\ Safe(a)
  BY <1>1, NextIsSafe DEF Course, Writing
<1> QED BY <1>2 DEF Safe, SwapWaives, InBackup, Course, KeptByEdit

\* A step overwrites only what has been kept.
LEMMA StepKeptFirst ==
  TypeOK /\ Course /\ [Next]_vars =>
    [\A a \in Addresses :
       slots'[a] # slots[a] /\ Somebodys(slots[a]) /\ ~SwapWaives(slots[a])
         => InBackup(kept, a, slots[a])]_vars
<1> SUFFICES ASSUME TypeOK, Course, [Next]_vars, NEW a \in Addresses,
                    slots'[a] # slots[a], Somebodys(slots[a]), ~SwapWaives(slots[a])
             PROVE  InBackup(kept, a, slots[a])
  OBVIOUS
<1>1. CASE Put(Head(op.steps)) /\ pc = "write" /\ op.steps # <<>>
  BY <1>1, PutKeeps
<1>2. CASE UNCHANGED slots
  BY <1>2
<1>3. CASE UNCHANGED vars \/ GiveUp \/ Asking
  BY <1>2, <1>3
     DEF vars, GiveUp, Asking, BeginEdit, RefuseSame, BeginImport, RefuseFile, Start
<1>4. CASE Working
  BY <1>1, <1>2, <1>4
     DEF Working, ListNames, ReadSource, RefuseSource, ReadDest, RefuseDest, FindWriter,
         RefuseWriter, Refuse, ReadHeld, ReadFails, KeepOne, KeepRefuses, KeepFails,
         Plan, Write, WriteStopped, WriteFails, Done
<1>5. CASE Die
  BY <1>1, <1>2, <1>5 DEF Die
<1> QED BY <1>3, <1>4, <1>5 DEF Next

\* Nothing of anybody's is overwritten before a backup of it is on disk, however
\* many edits fail, are given up or die, for any slots, presets and names.
THEOREM KeptFirstHolds == Spec => KeptFirst
<1>1. Spec => [](TypeOK /\ Course)
  BY OnCourse
<1>2. TypeOK /\ Course /\ [Next]_vars =>
        [\A a \in Addresses :
           slots'[a] # slots[a] /\ Somebodys(slots[a]) /\ ~SwapWaives(slots[a])
             => InBackup(kept, a, slots[a])]_vars
  BY StepKeptFirst
<1> QED BY <1>1, <1>2, PTL DEF Spec, KeptFirst

-----------------------------------------------------------------------------
\* What an edit has promised when it ends.

\* Where a failure may leave the slots: as they were, or changed where kept.
Excused(held) ==
  \A a \in Addresses : held[a] = past.slots[a] \/ (a \in Targets /\ Safe(a))

\* A swap with one preset has it in one of the two slots.
Moved(held) ==
  LET from == past.slots[op.from].body
      to   == past.slots[op.to].body
      now  == {held[op.from].body, held[op.to].body}
  IN op.kind = "swap" =>
       /\ from \in Presets /\ to \in {None, Blank} => from \in now
       /\ to \in Presets /\ from \in {None, Blank} => to \in now

\* At every moment of the writing, whether or not the next write has landed,
\* a move is on the pedal and every change is excused.
LEMMA WritingIsSound ==
  ASSUME TypeOK, Course, pc = "write", NEW held,
         held = slots \/ (op.steps # <<>> /\ held = Landed(slots, Head(op.steps)))
  PROVE  Excused(held) /\ Moved(held)
<1>t. /\ past.slots \in [Addresses -> Slots] /\ slots \in [Addresses -> Slots]
      /\ op.from \in Addresses /\ op.to \in Addresses /\ op.kind \in Kinds
  BY DEF TypeOK, Ops
<1>s. \A a \in Targets : Safe(a)
  BY DEF Course, Writing
<1>1. CASE op.kind = "swap"
  <2>1. PICK x, y : Exchange(op) = <<x, y>>
    BY DEF Exchange
  <2>2. /\ Exchange(op)[1] = x /\ Exchange(op)[2] = y /\ Head(<<x, y>>) = x
        /\ Head(<<y>>) = y /\ <<x, y>> # <<>> /\ <<y>> # <<>>
    BY <2>1
  <2>3. \/ held = past.slots
        \/ held = Landed(past.slots, x)
        \/ held = Landed(Landed(past.slots, x), y)
    BY <1>1, <2>1, <2>2 DEF Course, Writing, StepsOf
  <2>4. /\ op.from # op.to /\ op.source = PresetOf(past.slots[op.from])
        /\ op.dest = PresetOf(past.slots[op.to])
    BY <1>1 DEF Course, Shape, SourceKnown, DestKnown
  <2>5. IF op.source = None
        THEN /\ x.at = op.from /\ x.body = op.dest
             /\ y.at = op.to /\ y.body = None
        ELSE /\ x.at = op.to /\ x.body = op.source
             /\ y.at = op.from /\ y.body = op.dest
    BY <2>1, <2>2 DEF Exchange, HeldAt
  <2>6. \A a \in Addresses : a \notin Targets => held[a] = past.slots[a]
    BY <1>t, <1>1, <2>3, <2>5 DEF Landed, Targets
  <2>7. Excused(held)
    BY <1>s, <2>6 DEF Excused
  <2>8. Moved(held)
    BY <1>t, <2>3, <2>4, <2>5, SlotsAssumption DEF Landed, Moved, PresetOf
  <2> QED BY <2>7, <2>8
<1>2. CASE op.kind # "swap"
  <2>1. PICK x : StepsOf(op) = <<x>> /\ x.at = op.to
    BY <1>2 DEF StepsOf, Imported, HeldAt
  <2>2. StepsOf(op)[1] = x /\ Head(<<x>>) = x /\ <<x>> # <<>>
    BY <2>1
  <2>3. held = past.slots \/ held = Landed(past.slots, x)
    BY <1>2, <2>1, <2>2 DEF Course, Writing
  <2>4. \A a \in Addresses : a \notin Targets => held[a] = past.slots[a]
    BY <1>t, <1>2, <2>1, <2>3 DEF Landed, Targets
  <2> QED BY <1>s, <1>2, <2>4 DEF Excused, Moved
<1> QED BY <1>1, <1>2

\* Before the writing nothing has moved.
LEMMA ReadingIsSound ==
  ASSUME TypeOK, slots = past.slots
  PROVE  Excused(slots) /\ Moved(slots)
BY DEF Excused, Moved

Promises ==
  ReportNamesBackups /\ MoveStaysOnPedal /\ RefusalChangesNothing /\ DoneIsExact

\* An edit under way has said nothing yet, and a move is on the pedal.
LEMMA UnderWay == TypeOK /\ Course /\ InFlight => Promises
<1> SUFFICES ASSUME TypeOK, Course, InFlight PROVE Promises
  OBVIOUS
<1>1. ReportNamesBackups /\ RefusalChangesNothing /\ DoneIsExact
  BY DEF Course, Shape, Unsaid, ReportNamesBackups, RefusalChangesNothing, DoneIsExact
<1>2. Moved(slots)
  BY WritingIsSound, ReadingIsSound DEF Course, Same
<1> QED BY <1>1, <1>2 DEF Promises, Moved, MoveStaysOnPedal

\* An edit that ends with its backups named has promised nothing false, where
\* the slots are excused.
LEMMA EndReports ==
  ASSUME TypeOK, Course, InFlight, UNCHANGED <<op, past, kept>>, Excused(slots'),
         said'.kept = op.kept \/ said'.end = "died"
  PROVE  ReportNamesBackups'
<1>1. kept' = past'.kept \cup op.kept
  BY DEF Course, KeptByEdit
<1>2. \A a \in Addresses :
        \/ slots'[a] = past.slots[a]
        \/ ~Somebodys(past.slots[a]) \/ SwapWaives(past.slots[a])
        \/ InBackup(op.kept, a, past.slots[a])
  BY DEF Excused, Safe
<1> QED BY <1>1, <1>2 DEF ReportNamesBackups, SwapWaives

LEMMA EndMoves ==
  ASSUME UNCHANGED <<op, past>>, Moved(slots') PROVE MoveStaysOnPedal'
BY DEF Moved, MoveStaysOnPedal

\* What each kind of edit has written when it is done.
LEMMA DoneWrites ==
  ASSUME TypeOK, Course, pc = "write", op.steps = <<>>,
         UNCHANGED <<slots, op, past>>
  PROVE  DoneIsExact'
<1>t. /\ past.slots \in [Addresses -> Slots] /\ op.kind \in Kinds
      /\ op.from \in Addresses /\ op.to \in Addresses
      /\ op.fromName = past.slots[op.from].name /\ op.toName = past.slots[op.to].name
  BY DEF TypeOK, Ops, Course, NamesKnown
<1>u. \A a \in Addresses :
        /\ past.slots[a] = [name |-> past.slots[a].name, body |-> past.slots[a].body]
        /\ past.slots[a].body \in Presets \cup {None, Blank, Junk}
  BY <1>t DEF Slots, Bodies
<1>1. CASE op.kind = "swap"
  <2>1. PICK x, y : Exchange(op) = <<x, y>>
    BY DEF Exchange
  <2>2. /\ Exchange(op)[1] = x /\ Exchange(op)[2] = y
        /\ <<x, y>> # <<>> /\ <<y>> # <<>>
    BY <2>1
  <2>3. slots = Landed(Landed(past.slots, x), y)
    BY <1>1, <2>1, <2>2 DEF Course, Writing, StepsOf
  <2>4. /\ op.from # op.to /\ op.source = PresetOf(past.slots[op.from])
        /\ op.dest = PresetOf(past.slots[op.to])
        /\ op.source # None \/ op.dest # None
    BY <1>1 DEF Course, Shape, SourceKnown, DestKnown
  <2>5. IF op.source = None
        THEN x = HeldAt(op.from, op.toName, op.dest) /\ y = HeldAt(op.to, op.fromName, None)
        ELSE x = HeldAt(op.to, op.fromName, op.source)
             /\ y = HeldAt(op.from, op.toName, op.dest)
    BY <2>1, <2>2 DEF Exchange
  <2>6. /\ slots[op.to] = Swapped(past.slots[op.from])
        /\ slots[op.from] = Swapped(past.slots[op.to])
        /\ slots \in [Addresses -> Slots]
        /\ \A a \in Addresses \ {op.from, op.to} : slots[a] = past.slots[a]
    <3>1. slots \in [Addresses -> Slots]
      BY DEF TypeOK
    <3>2. \A a \in Addresses \ {op.from, op.to} : slots[a] = past.slots[a]
      BY <1>t, <2>3, <2>5 DEF Landed, HeldAt
    <3>0. past.slots[op.to] = [name |-> op.toName, body |-> past.slots[op.to].body]
      BY <1>t, <1>u
    <3>3. CASE op.source = None
      <4>1. /\ slots[op.from] = [name |-> op.toName, body |-> op.dest]
            /\ slots[op.to] = [name |-> Untouched, body |-> None]
        BY <1>t, <2>3, <2>4, <2>5, <3>3 DEF Landed, HeldAt
      <4>2. past.slots[op.from].body \notin Presets /\ op.dest = past.slots[op.to].body
        BY <1>t, <1>u, <2>4, <3>3, SlotsAssumption DEF PresetOf
      <4>3. past.slots[op.to].body \in Presets
        BY <2>4, <3>3 DEF PresetOf
      <4>4. slots[op.from] = past.slots[op.to]
        BY <3>0, <4>1, <4>2
      <4>5. slots[op.to] = Swapped(past.slots[op.from])
        BY <4>1, <4>2 DEF Swapped
      <4> QED BY <3>1, <3>2, <4>3, <4>4, <4>5 DEF Swapped
    <3>4. CASE op.source # None
      <4>1. /\ slots[op.to] = [name |-> op.fromName, body |-> op.source]
            /\ slots[op.from] = IF op.dest = None THEN [name |-> Untouched, body |-> None]
                                ELSE [name |-> op.toName, body |-> op.dest]
        BY <1>t, <2>3, <2>4, <2>5, <3>4 DEF Landed, HeldAt
      <4>2. past.slots[op.from].body \in Presets /\ op.source = past.slots[op.from].body
        BY <2>4, <3>4 DEF PresetOf
      <4>3. IF op.dest = None THEN past.slots[op.to].body \notin Presets
            ELSE past.slots[op.to].body \in Presets /\ op.dest = past.slots[op.to].body
        BY <2>4, SlotsAssumption DEF PresetOf
      <4>4. slots[op.to] = Swapped(past.slots[op.from])
        BY <1>t, <1>u, <4>1, <4>2 DEF Swapped
      <4>5. slots[op.from] = Swapped(past.slots[op.to])
        BY <3>0, <4>1, <4>3, SlotsAssumption DEF Swapped
      <4> QED BY <3>1, <3>2, <4>4, <4>5
    <3> QED BY <3>3, <3>4
  <2>7. slots = [past.slots EXCEPT ![op.to] = Swapped(past.slots[op.from]),
                                   ![op.from] = Swapped(past.slots[op.to])]
    BY <1>t, <2>4, <2>6
  <2> QED BY <1>1, <2>7 DEF DoneIsExact
<1>2. CASE op.kind = "copy"
  <2>1. slots = Landed(past.slots, HeldAt(op.to, op.fromName, op.source))
    BY <1>2 DEF Course, Writing, StepsOf
  <2>2. op.source = past.slots[op.from].body /\ op.source # None
    BY <1>2 DEF Course, SourceKnown, PresetOf
  <2>3. slots = [past.slots EXCEPT ![op.to] = past.slots[op.from]]
    BY <1>t, <1>u, <2>1, <2>2 DEF Landed, HeldAt
  <2> QED BY <1>2, <2>3 DEF DoneIsExact
<1>3. CASE op.kind = "import"
  <2>1. slots = Landed(past.slots, Imported(op))
    BY <1>3 DEF Course, Writing, StepsOf
  <2>2. op.file.body # None
    BY SlotsAssumption DEF TypeOK, Ops, Files
  <2>3. slots = [past.slots EXCEPT ![op.to] =
                   [name |-> IF op.file.name = NoName THEN op.toName ELSE op.file.name,
                    body |-> op.file.body]]
    BY <1>t, <2>1, <2>2 DEF Landed, Imported, HeldAt
  <2> QED BY <1>3, <1>t, <2>3 DEF DoneIsExact
<1> QED BY <1>t, <1>1, <1>2, <1>3

\* An edit that has ended keeps what it promised until the next begins.
Ended == pc = "idle" => Promises

LEMMA StepEnded ==
  TypeOK /\ Course /\ TypeOK' /\ Course' /\ Ended /\ [Next]_vars => Ended'
<1> SUFFICES ASSUME TypeOK, Course, TypeOK', Course', Ended, [Next]_vars, pc' = "idle"
             PROVE  Promises'
  BY DEF Ended
<1> USE DEF Promises
<1>1. CASE UNCHANGED vars
  BY <1>1
     DEF vars, counts, Ended, ReportNamesBackups, MoveStaysOnPedal,
         RefusalChangesNothing, DoneIsExact, SwapWaives
<1>2. CASE Asking
  <2>1. PICK x \in Addresses : (\E k \in {"copy", "swap"} : RefuseSame(k, x)) \/ RefuseFile(x)
    BY <1>2 DEF Asking, BeginEdit, BeginImport, Start
  <2>2. /\ slots' = past'.slots /\ kept' = past'.kept
        /\ said' = [end |-> "failed", kept |-> {}]
        /\ op'.from = op'.to
    BY <2>1 DEF RefuseSame, RefuseFile, Start, Asked
  <2>3. ReportNamesBackups' /\ RefusalChangesNothing' /\ DoneIsExact'
    BY <2>2 DEF ReportNamesBackups, RefusalChangesNothing, DoneIsExact
  <2>4. MoveStaysOnPedal'
    BY <2>2 DEF MoveStaysOnPedal
  <2> QED BY <2>3, <2>4
<1>3. CASE RefuseSource \/ RefuseDest \/ RefuseWriter \/ ReadFails
  <2>1. /\ UNCHANGED <<slots, kept, op, past>>
        /\ said' = [end |-> "failed", kept |-> {}]
        /\ pc \in {"names", "source", "dest", "writer", "holds"}
    BY <1>3
       DEF RefuseSource, RefuseDest, RefuseWriter, Refuse, ReadFails, Fail, End
  <2>2. slots = past.slots /\ op.kept = {} /\ kept = past.kept
    BY <2>1 DEF Course, Same, KeptByEdit
  <2>3. Excused(slots') /\ Moved(slots')
    BY <2>1, <2>2, ReadingIsSound
  <2>4. ReportNamesBackups' /\ MoveStaysOnPedal'
    BY <2>1, <2>2, <2>3, EndReports, EndMoves
  <2>5. RefusalChangesNothing' /\ DoneIsExact'
    BY <2>1, <2>2 DEF RefusalChangesNothing, DoneIsExact
  <2> QED BY <2>4, <2>5
<1>4. CASE KeepRefuses \/ KeepFails
  <2>1. /\ UNCHANGED <<slots, kept, op, past, cancelled>> /\ pc = "keep"
        /\ said' = [end |-> "failed", kept |-> op.kept]
    BY <1>4 DEF KeepRefuses, KeepFails, Fail, End
  <2>2. slots = past.slots /\ kept = past.kept \cup op.kept
    BY <2>1 DEF Course, Same, KeptByEdit
  <2>3. Excused(slots') /\ Moved(slots')
    BY <2>1, <2>2, ReadingIsSound
  <2>4. ReportNamesBackups' /\ MoveStaysOnPedal'
    BY <2>1, <2>3, EndReports, EndMoves
  <2>5. faulty' \/ cancelled' \/ op.kept = {}
    <3>1. CASE KeepFails
      BY <3>1, <2>1, Zenon DEF KeepFails, Fault
    <3>2. CASE KeepRefuses
      <4>1. op.toKeep # <<>> /\ op.toKeep \in Seq(Held) /\ Head(op.toKeep).body = Junk
        BY <3>2 DEF KeepRefuses, TypeOK, Ops
      <4>2. Len(op.toKeep) >= 1 /\ Head(op.toKeep) = op.toKeep[1] /\ Len(op.toKeep) \in Nat
        BY <4>1
      <4>3. Faithful(Head(op.toKeep))
        BY <2>1, <4>2 DEF Course, Keeping
      <4>4. op.kind # "swap"
        BY <4>1, <4>3, SlotsAssumption DEF Faithful, PresetOf
      <4> QED BY <2>1, <4>1, <4>4 DEF Course, Keeping
    <3> QED BY <1>4, <3>1, <3>2
  <2>6. RefusalChangesNothing' /\ DoneIsExact'
    BY <2>1, <2>2, <2>5 DEF RefusalChangesNothing, DoneIsExact
  <2> QED BY <2>4, <2>6
<1>5. CASE WriteStopped
  <2>1. /\ UNCHANGED <<slots, kept, op, past, cancelled>> /\ pc = "write"
        /\ said' = [end |-> "failed", kept |-> op.kept]
        /\ op.steps # <<>> /\ Stoppable /\ cancelled
    BY <1>5 DEF WriteStopped, Fail, End
  <2>2. Excused(slots') /\ Moved(slots')
    BY <2>1, WritingIsSound
  <2>3. ReportNamesBackups' /\ MoveStaysOnPedal'
    BY <2>1, <2>2, EndReports, EndMoves
  <2>4. slots = past.slots
    BY <2>1 DEF Course, Writing, Stoppable
  <2>5. RefusalChangesNothing' /\ DoneIsExact'
    BY <2>1, <2>4 DEF RefusalChangesNothing, DoneIsExact
  <2> QED BY <2>3, <2>5
<1>6. CASE WriteFails
  <2>1. /\ UNCHANGED <<kept, op, past>> /\ pc = "write" /\ op.steps # <<>>
        /\ slots' = slots \/ slots' = Landed(slots, Head(op.steps))
        /\ said' = [end |-> "failed", kept |-> op.kept]
    BY <1>6 DEF WriteFails, Put, Fail, End
  <2>2. Excused(slots') /\ Moved(slots')
    BY <2>1, WritingIsSound
  <2>3. ReportNamesBackups' /\ MoveStaysOnPedal'
    BY <2>1, <2>2, EndReports, EndMoves
  <2>4. faulty'
    BY <1>6, Zenon DEF WriteFails, Fault
  <2>5. RefusalChangesNothing' /\ DoneIsExact'
    BY <2>1, <2>4 DEF RefusalChangesNothing, DoneIsExact
  <2> QED BY <2>3, <2>5
<1>7. CASE Done
  <2>1. /\ UNCHANGED <<slots, kept, op, past>> /\ pc = "write" /\ op.steps = <<>>
        /\ said' = [end |-> "done", kept |-> op.kept]
    BY <1>7 DEF Done, End
  <2>2. Excused(slots') /\ Moved(slots')
    BY <2>1, WritingIsSound
  <2>3. ReportNamesBackups' /\ MoveStaysOnPedal' /\ DoneIsExact'
    BY <2>1, <2>2, EndReports, EndMoves, DoneWrites
  <2>4. RefusalChangesNothing'
    BY <2>1 DEF RefusalChangesNothing
  <2> QED BY <2>3, <2>4
<1>8. CASE Die
  <2>1. /\ UNCHANGED <<kept, op, past>> /\ pc # "idle"
        /\ \/ slots' = slots
           \/ pc = "write" /\ op.steps # <<>> /\ slots' = Landed(slots, Head(op.steps))
        /\ said' = [end |-> "died", kept |-> {}]
    BY <1>8 DEF Die, Put, End
  <2>2. Excused(slots') /\ Moved(slots')
    <3>1. CASE pc = "write"
      BY <2>1, <3>1, WritingIsSound
    <3>2. CASE pc # "write"
      BY <2>1, <3>2, ReadingIsSound DEF Course, Same
    <3> QED BY <3>1, <3>2
  <2>3. ReportNamesBackups' /\ MoveStaysOnPedal'
    BY <2>1, <2>2, EndReports, EndMoves
  <2>4. RefusalChangesNothing' /\ DoneIsExact'
    BY <2>1 DEF RefusalChangesNothing, DoneIsExact
  <2> QED BY <2>3, <2>4
<1>9. CASE GiveUp \/ ListNames \/ ReadSource \/ ReadDest \/ FindWriter \/ ReadHeld
            \/ KeepOne \/ Plan \/ Write
  BY <1>9
     DEF GiveUp, ListNames, ReadSource, ReadDest, FindWriter, ReadHeld, KeepOne, Plan,
         Write, Proceed
<1> QED BY <1>1, <1>2, <1>3, <1>4, <1>5, <1>6, <1>7, <1>8, <1>9 DEF Next, Working

LEMMA InitEnded == Init => Ended
<1> SUFFICES ASSUME Init PROVE Promises
  BY DEF Ended
<1>1. /\ said.end = "none" /\ slots = past.slots /\ op.from = op.to
  BY DEF Init, Unsaid, Asked
<1> QED BY <1>1
        DEF Promises, ReportNamesBackups, MoveStaysOnPedal, RefusalChangesNothing,
            DoneIsExact

\* Every edit keeps its promises, at every moment and however it ends.
LEMMA PromisesKept == Spec => []Promises
<1>1. Init => TypeOK /\ Course /\ Ended
  BY InitType, InitCourse, InitEnded
<1>2. TypeOK /\ Course /\ Ended /\ [Next]_vars => (TypeOK /\ Course /\ Ended)'
  BY StepType, StepCourse, StepEnded
<1>3. TypeOK /\ Course /\ Ended => Promises
  BY UnderWay DEF Ended
<1> QED BY <1>1, <1>2, <1>3, PTL DEF Spec

\* The error of an edit names the backup of every slot it may have changed, and
\* whatever an edit reports names every backup it made.
THEOREM ReportNamesBackupsHolds == Spec => []ReportNamesBackups
BY PromisesKept, PTL DEF Promises

\* A preset moved to an empty slot is on the pedal at every moment, also when
\* the second half of the move fails or is never sent.
THEOREM MoveStaysOnPedalHolds == Spec => []MoveStaysOnPedal
BY PromisesKept, PTL DEF Promises

\* Giving up never leaves a swap half done, and a refusal changes nothing.
THEOREM RefusalChangesNothingHolds == Spec => []RefusalChangesNothing
BY PromisesKept, PTL DEF Promises

\* An edit that says it is done has changed the slots exactly as asked.
THEOREM DoneIsExactHolds == Spec => []DoneIsExact
BY PromisesKept, PTL DEF Promises
=============================================================================
