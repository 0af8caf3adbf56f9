-------------------------- MODULE AtomicFile_proofs --------------------------
(***************************************************************************)
(* Proofs about AtomicFile, for any writers, other programs, failed system *)
(* calls and crashes.                                                      *)
(*                                                                         *)
(* IInv says, place by place, what a writer can rely on: which call it is  *)
(* and whether it has failed (Stages); that a name only ever points at     *)
(* synced bytes, the file create makes in place excepted (TempWhole,       *)
(* TheirsWhole, PlaceWhole); which of its files the disk may name, and     *)
(* what it looks for before it removes one (OursNamed); and what it leaves *)
(* (TempsGo, FailedGone).  Lasting is what makes a write durable: from its *)
(* rename or link on, the path names its file or a later one, and never an *)
(* earlier WriteNew's, so the only removal that could take it away is one  *)
(* whose look came before it.                                              *)
(***************************************************************************)
EXTENDS AtomicFile, TLAPS

\* Before a writer has put anything at the path.
NotYet == {"begin", "temp", "fill", "flush", "rename", "link", "create"}

\* Which of the two calls, and with what error, is where.
Stages ==
    \A w \in Writers :
        /\ pc[w] = "rename" => how[w] = "write"
        /\ pc[w] \in {"link", "create", "fillPlace", "flushPlace", "look", "unlink"}
             => how[w] = "new"
        /\ pc[w] \in (NotYet \ {"flush"}) \cup {"fillPlace", "syncDir"}
             => err[w] = "none"
        /\ pc[w] \in {"look", "unlink"} => err[w] # "none"
        /\ pc[w] = "dead" => crashes > 0

\* A temporary file is whole and synced before the path may name it.
TempWhole ==
    \A w \in Writers :
        /\ pc[w] = "flush" /\ err[w] = "none" => body[Temp(w)] = "whole"
        /\ pc[w] \in {"rename", "link"} \/ Temp(w) \in onDisk
             => Temp(w) \in flushed /\ body[Temp(w)] = "whole"

\* So is another program's.
TheirsWhole ==
    \A n \in 0 .. MaxTheirs :
        Theirs(n) \in flushed /\ body[Theirs(n)] = "whole"

\* One made in place is, once its call has found no error in it.
PlaceWhole ==
    \A w \in Writers : Place(w) \in onDisk =>
        /\ how[w] = "new"
        /\ pc[w] = "flushPlace" /\ err[w] = "none" => body[Place(w)] = "whole"
        /\ pc[w] \in {"syncDir", "clean", "done"} /\ err[w] = "none"
             => Place(w) \in flushed /\ body[Place(w)] = "whole"

\* A writer that is about to look knows its file by what Stat said of it.
OursNamed ==
    /\ entry \in onDisk
    /\ \A w \in Writers :
        /\ pc[w] \in NotYet =>
             Temp(w) \notin onDisk /\ Place(w) \notin onDisk /\ later[w] = {}
        /\ pc[w] = "fillPlace" => Temp(w) \notin onDisk
        /\ pc[w] \in {"flushPlace", "syncDir", "look"} /\ "file" \notin stuck[w]
             => /\ Temp(w) \in onDisk => ours[w] = Temp(w)
                /\ Place(w) \in onDisk => ours[w] = Place(w)
        /\ ours[w] \in {Temp(w), Place(w), None}
        /\ pc[w] = "unlink" /\ ~lost[w] => entry \in {ours[w], None}
        /\ lost[w] => pc[w] \in {"unlink", "clean", "done", "dead"}

\* A temporary name is there from CreateTemp to its removal.
TempsGo ==
    \A w \in Writers : w \in temps =>
        /\ pc[w] \notin {"begin", "temp"}
        /\ pc[w] = "done" => "temp" \in stuck[w]

\* A WriteNew that failed has taken its file away.
FailedGone ==
    \A w \in Writers :
        /\ crashes = 0 /\ pc[w] \in {"clean", "done"}
        /\ how[w] = "new" /\ err[w] # "none" /\ "file" \notin stuck[w]
        => entry # Temp(w) /\ entry # Place(w)

\* From the rename, link or create on, unless it fails.
Holding(w) ==
    err[w] = "none" /\ pc[w] \in {"fillPlace", "flushPlace", "syncDir", "clean", "done"}

\* What was put there last.
Lasting ==
    dirSyncs /\ ~Overtaken =>
        \A w \in Writers : Holding(w) =>
            /\ entry \in later[w]
            /\ \A v \in Writers \ {w} :
                  how[v] = "new" \/ pc[v] = "begin" =>
                    Temp(v) \notin later[w] /\ Place(v) \notin later[w]
            /\ pc[w] \in {"clean", "done"} => onDisk \subseteq later[w]

IInv == /\ TypeOK /\ Stages /\ TempWhole /\ TheirsWhole /\ PlaceWhole
        /\ OursNamed /\ TempsGo /\ FailedGone /\ Lasting

-----------------------------------------------------------------------------
\* The files are told apart: the writers', the other programs' and none.
Apart ==
  /\ \A w \in Writers : Temp(w) \in Files /\ Place(w) \in Files
  /\ \A n \in 0 .. MaxTheirs : Theirs(n) \in Files
  /\ \A f \in Files : \/ \E w \in Writers : f = Temp(w) \/ f = Place(w)
                      \/ \E n \in 0 .. MaxTheirs : f = Theirs(n)
  /\ None \notin Files
  /\ \A w, v \in Writers :
       /\ Temp(w) # Place(v)
       /\ Temp(w) = Temp(v) => w = v
       /\ Place(w) = Place(v) => w = v
  /\ \A w \in Writers, n \in 0 .. MaxTheirs :
       Theirs(n) # Temp(w) /\ Theirs(n) # Place(w)
  /\ \A w : Own(w) = {Temp(w), Place(w)}

\* What each was made as.
Made ==
  /\ \A w : /\ Temp(w).made = "temp" /\ Place(w).made = "place"
            /\ Temp(w).by = w /\ Place(w).by = w
  /\ \A n : Theirs(n).made = "theirs"
  /\ None.made = "none"

\* The names say who made a file, and how.
LEMMA FilesMade == Made
BY DEF Made, Temp, Place, Theirs, None

\* No two names are of one file.
LEMMA FilesApart == Apart
<1>1. \A w : Own(w) = {Temp(w), Place(w)}
  BY DEF Own
<1>2. /\ \A w \in Writers : Temp(w) \in Files /\ Place(w) \in Files
      /\ \A n \in 0 .. MaxTheirs : Theirs(n) \in Files
      /\ \A f \in Files : \/ \E w \in Writers : f = Temp(w) \/ f = Place(w)
                          \/ \E n \in 0 .. MaxTheirs : f = Theirs(n)
  <2>1. \A f : f \in Files <=> \/ \E w \in Writers : f \in Own(w)
                               \/ \E n \in 0 .. MaxTheirs : f = Theirs(n)
    BY Zenon DEF Files
  <2> QED
    BY <1>1, <2>1
<1>3. None \notin Files
  <2>1. \A f \in Files : f.made # "none"
    BY <1>2, FilesMade DEF Made
  <2> QED
    BY <2>1, FilesMade DEF Made
<1>4. \A w, v \in Writers :
        /\ Temp(w) # Place(v)
        /\ Temp(w) = Temp(v) => w = v
        /\ Place(w) = Place(v) => w = v
  BY FilesMade DEF Made
<1>5. \A w \in Writers, n \in 0 .. MaxTheirs :
        Theirs(n) # Temp(w) /\ Theirs(n) # Place(w)
  BY FilesMade DEF Made
<1> QED
  BY <1>1, <1>2, <1>3, <1>4, <1>5 DEF Apart

-----------------------------------------------------------------------------
\* The invariant holds before the first write.
LEMMA InitInv == Init => IInv
<1> SUFFICES ASSUME Init PROVE IInv
  OBVIOUS
<1> USE BoundsAssumption, FilesApart, FilesMade DEF Init, Apart, Made
<1>1. TypeOK
  BY DEF TypeOK, Bodies, Places, Errors
<1>2. Stages /\ TempsGo /\ FailedGone
  BY DEF Stages, TempsGo, FailedGone, NotYet
<1>3. TempWhole /\ TheirsWhole /\ PlaceWhole
  BY DEF TempWhole, TheirsWhole, PlaceWhole
<1>4. OursNamed /\ Lasting
  BY DEF OursNamed, Lasting, NotYet, Holding
<1> QED
  BY <1>1, <1>2, <1>3, <1>4 DEF IInv

\* Putting a file at the path names it now, and on disk before or after a crash.
LEMMA PutDoes ==
  ASSUME TypeOK, NEW f \in Files, Put(f)
  PROVE  /\ entry' = f /\ onDisk' = onDisk \cup {f}
         /\ onDisk' \subseteq Files \cup {None}
         /\ later' \in [Writers -> SUBSET Files]
         /\ lost' \in [Writers -> BOOLEAN]
BY DEF TypeOK, Put

\* It is later than every write before it, and spoils every look under way.
LEMMA PutKeeps ==
  ASSUME TypeOK, NEW f \in Files, Put(f), NEW w \in Writers
  PROVE  /\ later'[w] = IF f \in Own(w) \/ later[w] # {}
                          THEN later[w] \cup {f} ELSE {}
         /\ lost'[w] => lost[w] \/ pc[w] = "unlink"
         /\ pc[w] = "unlink" => lost'[w]
BY DEF TypeOK, Put

\* Every system call, every other program's rename and every crash keeps it.
LEMMA StepInv == IInv /\ [Next]_vars => IInv'
<1> SUFFICES ASSUME IInv, [Next]_vars PROVE IInv'
  OBVIOUS
<1> USE BoundsAssumption, FilesApart
    DEF Apart, IInv, TypeOK, Bodies, Places, Errors, Stages, NotYet, TempWhole, TheirsWhole,
        PlaceWhole, OursNamed, TempsGo, FailedGone, Lasting, Holding, Overtaken,
        Goto, Fail, Fault, Works, Rest, NoHistory, Leave,
        writer, disk, system, history, bounds
<1>1. CASE UNCHANGED vars
  BY <1>1 DEF vars
<1>2. ASSUME NEW w \in Writers, Begin(w) PROVE IInv'
  <2>1. TypeOK'
    BY <1>2 DEF Begin
  <2>2. Stages'
    BY <1>2 DEF Begin
  <2>3. TempWhole'
    BY <1>2 DEF Begin
  <2>4. TheirsWhole'
    BY <1>2 DEF Begin
  <2>5. PlaceWhole'
    BY <1>2 DEF Begin
  <2>6. OursNamed'
    BY <1>2 DEF Begin
  <2>7. TempsGo'
    BY <1>2 DEF Begin
  <2>8. FailedGone'
    BY <1>2 DEF Begin
  <2>9. Lasting'
    BY <1>2 DEF Begin
  <2> QED
    BY <2>1, <2>2, <2>3, <2>4, <2>5, <2>6, <2>7, <2>8, <2>9
<1>3. ASSUME NEW w \in Writers, MakeTemp(w) PROVE IInv'
  <2>1. TypeOK'
    BY <1>3 DEF MakeTemp
  <2>2. Stages'
    BY <1>3 DEF MakeTemp
  <2>3. TempWhole'
    BY <1>3 DEF MakeTemp
  <2>4. TheirsWhole'
    BY <1>3 DEF MakeTemp
  <2>5. PlaceWhole'
    BY <1>3 DEF MakeTemp
  <2>6. OursNamed'
    BY <1>3 DEF MakeTemp
  <2>7. TempsGo'
    BY <1>3 DEF MakeTemp
  <2>8. FailedGone'
    BY <1>3 DEF MakeTemp
  <2>9. Lasting'
    BY <1>3 DEF MakeTemp
  <2> QED
    BY <2>1, <2>2, <2>3, <2>4, <2>5, <2>6, <2>7, <2>8, <2>9
<1>4. ASSUME NEW w \in Writers, FillTemp(w) PROVE IInv'
  <2>1. TypeOK'
    BY <1>4 DEF FillTemp, Fill
  <2>2. Stages'
    BY <1>4 DEF FillTemp, Fill
  <2>3. TempWhole'
    BY <1>4 DEF FillTemp, Fill
  <2>4. TheirsWhole'
    BY <1>4 DEF FillTemp, Fill
  <2>5. PlaceWhole'
    BY <1>4 DEF FillTemp, Fill
  <2>6. OursNamed'
    BY <1>4 DEF FillTemp, Fill
  <2>7. TempsGo'
    BY <1>4 DEF FillTemp, Fill
  <2>8. FailedGone'
    BY <1>4 DEF FillTemp, Fill
  <2>9. Lasting'
    BY <1>4 DEF FillTemp, Fill
  <2> QED
    BY <2>1, <2>2, <2>3, <2>4, <2>5, <2>6, <2>7, <2>8, <2>9
<1>5. ASSUME NEW w \in Writers, FlushTemp(w) PROVE IInv'
  <2>1. TypeOK'
    BY <1>5 DEF FlushTemp
  <2>2. Stages'
    BY <1>5 DEF FlushTemp
  <2>3. TempWhole'
    BY <1>5 DEF FlushTemp
  <2>4. TheirsWhole'
    BY <1>5 DEF FlushTemp
  <2>5. PlaceWhole'
    BY <1>5 DEF FlushTemp
  <2>6. OursNamed'
    BY <1>5 DEF FlushTemp
  <2>7. TempsGo'
    BY <1>5 DEF FlushTemp
  <2>8. FailedGone'
    BY <1>5 DEF FlushTemp
  <2>9. Lasting'
    BY <1>5 DEF FlushTemp
  <2> QED
    BY <2>1, <2>2, <2>3, <2>4, <2>5, <2>6, <2>7, <2>8, <2>9
<1>6. ASSUME NEW w \in Writers, Rename(w) PROVE IInv'
  <2>1. TypeOK'
    <3>1. CASE Put(Temp(w))
      <4>1. /\ entry' = Temp(w) /\ onDisk' \subseteq Files \cup {None}
            /\ later' \in [Writers -> SUBSET Files]
            /\ lost' \in [Writers -> BOOLEAN]
        BY <3>1, PutDoes
      <4> QED
        BY <1>6, <4>1 DEF Rename
    <3>2. CASE UNCHANGED <<entry, onDisk, history>>
      BY <1>6, <3>2 DEF Rename
    <3> QED
      BY <1>6, <3>1, <3>2 DEF Rename
  <2>2. Stages'
    BY <1>6 DEF Rename, Put
  <2>3. TempWhole'
    BY <1>6 DEF Rename, Put
  <2>4. TheirsWhole'
    BY <1>6 DEF Rename, Put
  <2>5. PlaceWhole'
    BY <1>6 DEF Rename, Put
  <2>6. OursNamed'
    <3>1. CASE Put(Temp(w))
      <4>1. entry' = Temp(w) /\ onDisk' = onDisk \cup {Temp(w)}
        BY <3>1 DEF Put
      <4>2. \A v \in Writers : Temp(w) \in Own(v) => v = w
        OBVIOUS
      <4>3. \A v \in Writers : later[v] = {} /\ v # w => later'[v] = {}
        BY <3>1, <4>2, PutKeeps
      <4>4. \A v \in Writers : lost'[v] => lost[v] \/ pc[v] = "unlink"
        BY <3>1, PutKeeps
      <4>5. \A v \in Writers : pc[v] = "unlink" => lost'[v]
        BY <3>1, PutKeeps
      <4> QED
        BY <1>6, <4>1, <4>3, <4>4, <4>5 DEF Rename
    <3>2. CASE UNCHANGED <<entry, onDisk, history>>
      BY <1>6, <3>2 DEF Rename
    <3> QED
      BY <1>6, <3>1, <3>2 DEF Rename
  <2>7. TempsGo'
    BY <1>6 DEF Rename, Put
  <2>8. FailedGone'
    BY <1>6 DEF Rename, Put
  <2>9. Lasting'
    <3>1. CASE Put(Temp(w))
      BY <1>6, <3>1 DEF Rename, Put
    <3>2. CASE /\ Fail(w, "failed") /\ Goto(w, "clean")
               /\ UNCHANGED <<entry, onDisk, history>>
      <4>1. /\ err'[w] # "none"
            /\ \A v \in Writers : v # w => err'[v] = err[v] /\ pc'[v] = pc[v]
            /\ pc'[w] = "clean"
        BY ONLY TypeOK, <3>2 DEF TypeOK, Fail, Goto
      <4>2. UNCHANGED <<dirSyncs, theirs, how, entry, onDisk, later, lost>>
        BY <1>6, <3>2 DEF Rename
      <4>3. \A v \in Writers : Holding(v)' => Holding(v) /\ v # w /\ pc'[v] = pc[v]
        BY <4>1
      <4>4. \A v \in Writers : pc'[v] = "begin" => pc[v] = "begin"
        BY <4>1
      <4> QED
        BY <4>2, <4>3, <4>4
    <3> QED
      BY <1>6, <3>1, <3>2 DEF Rename
  <2> QED
    BY <2>1, <2>2, <2>3, <2>4, <2>5, <2>6, <2>7, <2>8, <2>9
<1>7. ASSUME NEW w \in Writers, Link(w) PROVE IInv'
  <2>1. TypeOK'
    <3>1. pc' \in [Writers -> Places] /\ err' \in [Writers -> Errors]
      BY <1>7 DEF Link
    <3>2. ours' \in [Writers -> Files \cup {None}] /\ faults' \in Nat
      BY <1>7 DEF Link
    <3>3. UNCHANGED <<linkable, dirSyncs, body, flushed, temps, how, stuck,
                      theirs, crashes>>
      BY <1>7 DEF Link
    <3>4. Put(Temp(w)) \/ UNCHANGED <<entry, onDisk, later, lost>>
      BY <1>7 DEF Link
    <3>5. /\ entry' \in Files \cup {None} /\ onDisk' \subseteq Files \cup {None}
          /\ later' \in [Writers -> SUBSET Files] /\ lost' \in [Writers -> BOOLEAN]
      BY <3>4, PutDoes
    <3> QED
      BY ONLY TypeOK, <3>1, <3>2, <3>3, <3>5 DEF TypeOK
  <2>2. Stages'
    BY <1>7 DEF Link, Put
  <2>3. TempWhole'
    BY <1>7 DEF Link, Put
  <2>4. TheirsWhole'
    BY <1>7 DEF Link, Put
  <2>5. PlaceWhole'
    BY <1>7 DEF Link, Put
  <2>6. OursNamed'
    <3>1. CASE Put(Temp(w))
      <4>1. entry' = Temp(w) /\ onDisk' = onDisk \cup {Temp(w)}
        BY <3>1 DEF Put
      <4>2. \A v \in Writers : Temp(w) \in Own(v) => v = w
        OBVIOUS
      <4>3. \A v \in Writers : later[v] = {} /\ v # w => later'[v] = {}
        BY <3>1, <4>2, PutKeeps
      <4>4. \A v \in Writers : lost'[v] => lost[v] \/ pc[v] = "unlink"
        BY <3>1, PutKeeps
      <4>5. \A v \in Writers : pc[v] = "unlink" => lost'[v]
        BY <3>1, PutKeeps
      <4> QED
        BY <1>7, <4>1, <4>3, <4>4, <4>5 DEF Link
    <3>2. CASE UNCHANGED <<entry, onDisk, history>>
      BY <1>7, <3>2 DEF Link
    <3> QED
      BY <1>7, <3>1, <3>2 DEF Link
  <2>7. TempsGo'
    BY <1>7 DEF Link, Put
  <2>8. FailedGone'
    BY <1>7 DEF Link, Put
  <2>9. Lasting'
    BY <1>7 DEF Link, Put
  <2> QED
    BY <2>1, <2>2, <2>3, <2>4, <2>5, <2>6, <2>7, <2>8, <2>9
<1>8. ASSUME NEW w \in Writers, Create(w) PROVE IInv'
  <2>1. TypeOK'
    <3>1. pc' \in [Writers -> Places] /\ err' \in [Writers -> Errors]
      BY <1>8 DEF Create
    <3>2. ours' \in [Writers -> Files \cup {None}] /\ faults' \in Nat
      BY <1>8 DEF Create
    <3>3. UNCHANGED <<linkable, dirSyncs, body, flushed, temps, how, stuck,
                      theirs, crashes>>
      BY <1>8 DEF Create
    <3>4. Put(Place(w)) \/ UNCHANGED <<entry, onDisk, later, lost>>
      BY <1>8 DEF Create
    <3>5. /\ entry' \in Files \cup {None} /\ onDisk' \subseteq Files \cup {None}
          /\ later' \in [Writers -> SUBSET Files] /\ lost' \in [Writers -> BOOLEAN]
      BY <3>4, PutDoes
    <3> QED
      BY ONLY TypeOK, <3>1, <3>2, <3>3, <3>5 DEF TypeOK
  <2>2. Stages'
    BY <1>8 DEF Create, Put
  <2>3. TempWhole'
    BY <1>8 DEF Create, Put
  <2>4. TheirsWhole'
    BY <1>8 DEF Create, Put
  <2>5. PlaceWhole'
    BY <1>8 DEF Create, Put
  <2>6. OursNamed'
    <3>1. CASE Put(Place(w))
      <4>1. entry' = Place(w) /\ onDisk' = onDisk \cup {Place(w)}
        BY <3>1 DEF Put
      <4>2. \A v \in Writers : Place(w) \in Own(v) => v = w
        OBVIOUS
      <4>3. \A v \in Writers : later[v] = {} /\ v # w => later'[v] = {}
        BY <3>1, <4>2, PutKeeps
      <4>4. \A v \in Writers : lost'[v] => lost[v] \/ pc[v] = "unlink"
        BY <3>1, PutKeeps
      <4>5. \A v \in Writers : pc[v] = "unlink" => lost'[v]
        BY <3>1, PutKeeps
      <4> QED
        BY <1>8, <4>1, <4>3, <4>4, <4>5 DEF Create
    <3>2. CASE UNCHANGED <<entry, onDisk, history>>
      BY <1>8, <3>2 DEF Create
    <3> QED
      BY <1>8, <3>1, <3>2 DEF Create
  <2>7. TempsGo'
    BY <1>8 DEF Create, Put
  <2>8. FailedGone'
    BY <1>8 DEF Create, Put
  <2>9. Lasting'
    BY <1>8 DEF Create, Put
  <2> QED
    BY <2>1, <2>2, <2>3, <2>4, <2>5, <2>6, <2>7, <2>8, <2>9
<1>9. ASSUME NEW w \in Writers, FillPlace(w) PROVE IInv'
  <2>1. TypeOK'
    <3>1. pc' \in [Writers -> Places] /\ err' \in [Writers -> Errors]
      BY ONLY TypeOK, <1>9 DEF FillPlace, Fill
    <3>2. body' \in [Files -> Bodies] /\ faults' \in Nat
      BY ONLY BoundsAssumption, TypeOK, <1>9 DEF FillPlace, Fill
    <3>3. ours' \in [Writers -> Files \cup {None}]
      BY ONLY FilesApart, TypeOK, <1>9 DEF FillPlace
    <3>4. stuck' \in [Writers -> SUBSET {"file", "temp"}]
      BY ONLY TypeOK, <1>9 DEF FillPlace
    <3>5. UNCHANGED <<linkable, dirSyncs, entry, onDisk, flushed, temps, how,
                      theirs, crashes, later, lost>>
      BY <1>9 DEF FillPlace, Fill
    <3> QED
      BY ONLY TypeOK, <3>1, <3>2, <3>3, <3>4, <3>5 DEF TypeOK
  <2>2. Stages'
    BY <1>9 DEF FillPlace, Fill
  <2>3. TempWhole'
    BY <1>9 DEF FillPlace, Fill
  <2>4. TheirsWhole'
    BY <1>9 DEF FillPlace, Fill
  <2>5. PlaceWhole'
    BY <1>9 DEF FillPlace, Fill
  <2>6. OursNamed'
    BY <1>9 DEF FillPlace, Fill
  <2>7. TempsGo'
    BY <1>9 DEF FillPlace, Fill
  <2>8. FailedGone'
    BY <1>9 DEF FillPlace, Fill
  <2>9. Lasting'
    BY <1>9 DEF FillPlace, Fill
  <2> QED
    BY <2>1, <2>2, <2>3, <2>4, <2>5, <2>6, <2>7, <2>8, <2>9
<1>10. ASSUME NEW w \in Writers, FlushPlace(w) PROVE IInv'
  <2>1. TypeOK'
    <3>1. pc' \in [Writers -> Places] /\ err' \in [Writers -> Errors]
      BY ONLY TypeOK, <1>10 DEF FlushPlace
    <3>2. flushed' \subseteq Files /\ faults' \in Nat
      BY ONLY BoundsAssumption, FilesApart, TypeOK, <1>10 DEF FlushPlace
    <3>3. UNCHANGED <<linkable, dirSyncs, entry, onDisk, body, temps, how, ours,
                      theirs, crashes, later, lost, stuck>>
      BY <1>10 DEF FlushPlace
    <3> QED
      BY ONLY TypeOK, <3>1, <3>2, <3>3 DEF TypeOK
  <2>2. Stages'
    BY <1>10 DEF FlushPlace
  <2>3. TempWhole'
    BY <1>10 DEF FlushPlace
  <2>4. TheirsWhole'
    BY <1>10 DEF FlushPlace
  <2>5. PlaceWhole'
    BY <1>10 DEF FlushPlace
  <2>6. OursNamed'
    BY <1>10 DEF FlushPlace
  <2>7. TempsGo'
    BY <1>10 DEF FlushPlace
  <2>8. FailedGone'
    BY <1>10 DEF FlushPlace
  <2>9. Lasting'
    BY <1>10 DEF FlushPlace
  <2> QED
    BY <2>1, <2>2, <2>3, <2>4, <2>5, <2>6, <2>7, <2>8, <2>9
<1>11. ASSUME NEW w \in Writers, SyncDir(w) PROVE IInv'
  <2>1. TypeOK'
    BY ONLY TypeOK, <1>11 DEF SyncDir
  <2>2. Stages'
    BY <1>11 DEF SyncDir
  <2>3. TempWhole'
    BY <1>11 DEF SyncDir
  <2>4. TheirsWhole'
    BY <1>11 DEF SyncDir
  <2>5. PlaceWhole'
    BY <1>11 DEF SyncDir
  <2>6. OursNamed'
    BY <1>11 DEF SyncDir
  <2>7. TempsGo'
    BY <1>11 DEF SyncDir
  <2>8. FailedGone'
    BY <1>11 DEF SyncDir
  <2>9. Lasting'
    BY <1>11 DEF SyncDir
  <2> QED
    BY <2>1, <2>2, <2>3, <2>4, <2>5, <2>6, <2>7, <2>8, <2>9
<1>12. ASSUME NEW w \in Writers, Look(w) PROVE IInv'
  <2>1. TypeOK'
    <3>1. lost' \in [Writers -> BOOLEAN]
      BY <1>12 DEF Look
    <3>2. stuck' \in [Writers -> SUBSET {"file", "temp"}]
      BY <1>12 DEF Look
    <3> QED
      BY <1>12, <3>1, <3>2 DEF Look
  <2>2. Stages'
    BY <1>12 DEF Look, IsOurs
  <2>3. TempWhole'
    BY <1>12 DEF Look, IsOurs
  <2>4. TheirsWhole'
    BY <1>12 DEF Look, IsOurs
  <2>5. PlaceWhole'
    BY <1>12 DEF Look, IsOurs
  <2>6. OursNamed'
    BY <1>12 DEF Look, IsOurs
  <2>7. TempsGo'
    BY <1>12 DEF Look, IsOurs
  <2>8. FailedGone'
    BY <1>12 DEF Look, IsOurs
  <2>9. Lasting'
    BY <1>12 DEF Look, IsOurs
  <2> QED
    BY <2>1, <2>2, <2>3, <2>4, <2>5, <2>6, <2>7, <2>8, <2>9
<1>13. ASSUME NEW w \in Writers, Unlink(w) PROVE IInv'
  BY <1>13 DEF Unlink
<1>14. ASSUME NEW w \in Writers, Clean(w) PROVE IInv'
  BY <1>14 DEF Clean
<1>15. CASE OthersReplace
  <2>1. TypeOK'
    BY <1>15 DEF OthersReplace, Put
  <2>2. Stages'
    BY <1>15 DEF OthersReplace, Put
  <2>3. TempWhole'
    BY <1>15 DEF OthersReplace, Put
  <2>4. TheirsWhole'
    BY <1>15 DEF OthersReplace, Put
  <2>5. PlaceWhole'
    BY <1>15 DEF OthersReplace, Put
  <2>6. OursNamed'
    <3>1. Put(Theirs(theirs')) /\ theirs' \in 0 .. MaxTheirs
      BY <1>15 DEF OthersReplace
    <3>2. entry' = Theirs(theirs') /\ onDisk' = onDisk \cup {Theirs(theirs')}
      BY <3>1 DEF Put
    <3>3. \A v \in Writers : Theirs(theirs') \notin Own(v)
      BY <3>1
    <3>4. \A v \in Writers : later[v] = {} => later'[v] = {}
      BY <3>1, <3>3, PutKeeps
    <3>5. \A v \in Writers : lost'[v] => lost[v] \/ pc[v] = "unlink"
      BY <3>1, PutKeeps
    <3>6. \A v \in Writers : pc[v] = "unlink" => lost'[v]
      BY <3>1, PutKeeps
    <3>7. UNCHANGED <<pc, ours, stuck>>
      BY <1>15 DEF OthersReplace
    <3> QED
      BY <3>1, <3>2, <3>4, <3>5, <3>6, <3>7
  <2>7. TempsGo'
    BY <1>15 DEF OthersReplace, Put
  <2>8. FailedGone'
    BY <1>15 DEF OthersReplace, Put
  <2>9. Lasting'
    BY <1>15 DEF OthersReplace, Put
  <2> QED
    BY <2>1, <2>2, <2>3, <2>4, <2>5, <2>6, <2>7, <2>8, <2>9
<1>16. CASE Crash
  BY <1>16 DEF Crash, Running
<1> QED
  BY <1>1, <1>2, <1>3, <1>4, <1>5, <1>6, <1>7, <1>8, <1>9, <1>10, <1>11,
     <1>12, <1>13, <1>14, <1>15, <1>16
     DEF Next, Call, Put1

-----------------------------------------------------------------------------
\* Every reachable state satisfies the invariant.
LEMMA Invariance == Spec => []IInv
BY InitInv, StepInv, PTL DEF Spec

\* Every variable of the files keeps its type.
THEOREM TypeCorrect == Spec => []TypeOK
BY Invariance, PTL DEF IInv

\* A path is the old file or the new one, whole, at any moment and after any
\* crash, and the new one once Write returned (atomicfile.go).
THEOREM OldOrNewHolds == Spec => []OldOrNew
<1>1. IInv => WholeOrNothing
  <2> SUFFICES ASSUME IInv PROVE WholeOrNothing
    OBVIOUS
  <2> USE FilesApart, FilesMade DEF Apart, Made, IInv, TypeOK
  <2>1. ASSUME NEW f \in onDisk \cup {entry}, f.made \in {"temp", "theirs"}
        PROVE  f \in flushed /\ body[f] = "whole"
    <3>1. f \in Files /\ f \in onDisk
      BY <2>1 DEF OursNamed
    <3>2. ASSUME NEW w \in Writers, f = Temp(w)
          PROVE  f \in flushed /\ body[f] = "whole"
      BY <3>1, <3>2 DEF TempWhole
    <3>3. ASSUME NEW n \in 0 .. MaxTheirs, f = Theirs(n)
          PROVE  f \in flushed /\ body[f] = "whole"
      BY <3>3 DEF TheirsWhole
    <3>4. ASSUME NEW w \in Writers, f = Place(w) PROVE FALSE
      BY <2>1, <3>4
    <3> QED
      BY <3>1, <3>2, <3>3, <3>4
  <2>2. ASSUME entry.made = "place"
        PROVE  body[entry] = "whole" \/ Partial(entry.by)
    <3>1. PICK w \in Writers : entry = Place(w)
      BY <2>2
    <3>2. Place(w) \in onDisk /\ entry.by = w
      BY <3>1 DEF OursNamed
    <3>3. \/ BeingMade(w) \/ pc[w] = "dead"
          \/ pc[w] \in {"syncDir", "clean", "done"}
      BY <3>2 DEF OursNamed, NotYet, BeingMade, Places
    <3>4. CASE pc[w] = "dead"
      BY <3>2, <3>4 DEF Stages, Partial, Succeeded
    <3>5. CASE pc[w] \in {"syncDir", "clean", "done"} /\ err[w] = "none"
      BY <3>1, <3>2, <3>5 DEF PlaceWhole
    <3>6. CASE pc[w] \in {"clean", "done"} /\ err[w] # "none"
      <4>1. how[w] = "new"
        BY <3>2 DEF PlaceWhole
      <4>2. crashes = 0 => "file" \in stuck[w]
        BY <3>1, <3>6, <4>1 DEF FailedGone
      <4> QED
        BY <3>2, <3>6, <4>2 DEF Partial, Succeeded
    <3>7. pc[w] = "syncDir" => err[w] = "none"
      BY DEF Stages
    <3> QED
      BY <3>2, <3>3, <3>4, <3>5, <3>6, <3>7 DEF Partial
  <2> QED
    BY <2>1, <2>2 DEF WholeOrNothing
<1>2. IInv => DoneIsDurable
  BY DEF IInv, Lasting, DoneIsDurable, Holding, Succeeded
<1> QED
  BY <1>1, <1>2, Invariance, PTL DEF OldOrNew

\* A call that returned leaves no temporary file, and a WriteNew that failed no
\* file of its own, unless a removal failed (unlink, atomicfile.go).
THEOREM LeavesNothingHolds == Spec => []LeavesNothing
<1>1. IInv => LeavesNothing
  BY FilesApart DEF IInv, FailedGone, TempsGo, LeavesNothing, Apart
<1> QED
  BY <1>1, Invariance, PTL

\* The step KeptExisting allows.
Kept ==
  /\ crashes' = crashes
  /\ entry # None
  /\ entry' # entry
  => \/ theirs' # theirs
     \/ \E w \in Writers : pc[w] # pc'[w] /\ how[w] = "write"
     \/ \E w \in Writers :
           /\ pc[w] = "unlink" /\ pc'[w] # "unlink"
           /\ entry \in Own(w) \/ lost[w]

\* A WriteNew never takes away a file another program put at the path.
THEOREM KeptExistingHolds == Spec => KeptExisting
<1>1. IInv /\ [Next]_vars => Kept
  <2> SUFFICES ASSUME IInv, [Next]_vars, crashes' = crashes, entry # None,
                      entry' # entry
               PROVE  Kept
    BY DEF Kept
  <2> USE FilesApart DEF Apart, IInv, TypeOK, Kept
  <2>1. CASE OthersReplace
    BY <2>1 DEF OthersReplace
  <2>2. ASSUME NEW w \in Writers, Rename(w) PROVE Kept
    BY <2>2 DEF Rename, Stages, Goto
  <2>3. ASSUME NEW w \in Writers, Unlink(w) PROVE Kept
    BY <2>3 DEF Unlink, OursNamed, Goto
  <2>4. ~ Crash
    BY DEF Crash
  <2>5. ASSUME NEW w \in Writers, Link(w) \/ Create(w) PROVE FALSE
    BY <2>5 DEF Link, Create
  <2>6. ASSUME NEW w \in Writers,
               \/ Begin(w) \/ MakeTemp(w) \/ FillTemp(w) \/ FlushTemp(w)
               \/ FillPlace(w) \/ FlushPlace(w) \/ SyncDir(w) \/ Look(w) \/ Clean(w)
        PROVE  FALSE
    BY <2>6 DEF Begin, MakeTemp, FillTemp, FlushTemp, FillPlace, FlushPlace,
                SyncDir, Look, Clean, Fill, disk
  <2>7. vars' # vars
    BY DEF vars, disk
  <2> QED
    BY <2>1, <2>2, <2>3, <2>4, <2>5, <2>6, <2>7 DEF Next, Call, Put1
<1> QED
  BY <1>1, Invariance, PTL DEF Spec, KeptExisting, Kept
=============================================================================
