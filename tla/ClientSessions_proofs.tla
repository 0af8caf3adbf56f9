------------------------ MODULE ClientSessions_proofs ------------------------
(***************************************************************************)
(* Proofs about ClientSessions, for any number of goroutines and sessions. *)
(*                                                                         *)
(* IInv strengthens the safety properties until a step preserves it.  What *)
(* it adds: the claim is held on behalf of one thing at a time, a session  *)
(* being opened, open, or closed but not yet given back (OneClaim); a call *)
(* is only ever on a session Open returned (OnReturned); whoever is inside *)
(* a session is the one its lock names (LockNames); and each place in the  *)
(* code finds the device and the closed flag as it expects them (Stage).   *)
(***************************************************************************)
EXTENDS ClientSessions, TLAPS

Busy == {"lock", "running", "closeLock", "closing", "unclaim"}

OneClaim ==
  /\ OneEditor
  /\ ClaimNotLeaked
  /\ \A p, q \in Procs :
       pc[p] \in {"handshake", "unclaim"} /\ pc[q] \in {"handshake", "unclaim"}
         => p = q
  /\ \A p \in Procs, s \in Sessions :
       editor[s] = "open" =>
         /\ pc[p] # "unclaim"
         /\ pc[p] = "handshake" => on[p] = s

OnReturned ==
  \A p \in Procs :
    pc[p] \in Busy =>
      /\ editor[on[p]] # "none"
      /\ \A q \in Procs : pc[q] = "handshake" => on[q] # on[p]

LockNames == \A p \in Procs : pc[p] \in InSession => op[on[p]] = p

Stage ==
  /\ \A p \in Procs :
       /\ pc[p] = "handshake" =>
            editor[on[p]] \in {"none", "open"} /\ ~closed[on[p]]
       /\ pc[p] = "running" => editor[on[p]] = "open" /\ ~closed[on[p]]
       /\ pc[p] = "closing" => editor[on[p]] = "open" /\ closed[on[p]]
       /\ pc[p] = "unclaim" => editor[on[p]] = "closed"
  /\ \A s \in Sessions :
       /\ editor[s] = "closed" => closed[s]
       /\ editor[s] = "none" => ~closed[s]

IInv == TypeOK /\ OneClaim /\ OnReturned /\ LockNames /\ Stage

\* The invariant holds before the first call.
LEMMA InitInv == Init => IInv
BY ClientAssumption
   DEF Init, IInv, TypeOK, OneClaim, OneEditor, ClaimNotLeaked, Claimed,
       OnReturned, Busy, LockNames, InSession, Stage, Places

\* Every step of every goroutine preserves the invariant.
LEMMA StepInv == IInv /\ [Next]_vars => IInv'
<1> SUFFICES ASSUME IInv, [Next]_vars PROVE IInv'
  OBVIOUS
<1> USE ClientAssumption
    DEF IInv, TypeOK, OneClaim, OneEditor, ClaimNotLeaked, Claimed, OnReturned,
        Busy, LockNames, InSession, Stage, Places, Go, Return, Returned
<1>1. CASE UNCHANGED vars
  BY <1>1 DEF vars
<1>2. ASSUME NEW p \in Procs, OpenCall(p) PROVE IInv'
  BY <1>2 DEF OpenCall
<1>3. ASSUME NEW p \in Procs, NEW s \in Sessions, TakeClaim(p, s) PROVE IInv'
  BY <1>3 DEF TakeClaim
<1>4. ASSUME NEW p \in Procs, Handshake(p) PROVE IInv'
  BY <1>4 DEF Handshake
<1>5. ASSUME NEW p \in Procs, Opened(p) PROVE IInv'
  BY <1>5 DEF Opened
<1>6. ASSUME NEW p \in Procs, OpenFails(p) PROVE IInv'
  <2> USE <1>6 DEF OpenFails
  <2>1. /\ \A s \in Sessions : editor'[s] # "open"
        /\ \A q \in Procs : pc'[q] \notin {"handshake", "unclaim"}
    OBVIOUS
  <2>2. TypeOK' /\ LockNames'
    OBVIOUS
  <2>3. OneClaim'
    BY <2>1
  <2>4. OnReturned'
    BY <2>1
  <2>5. Stage'
    <3>1. ~closed[on[p]]
      OBVIOUS
    <3>2. \A q \in Procs : pc'[q] \in Busy => pc'[q] = pc[q] /\ on'[q] = on[q] /\ on[q] # on[p]
      OBVIOUS
    <3> QED
      BY <2>1, <3>1, <3>2
  <2> QED
    BY <2>2, <2>3, <2>4, <2>5
<1>7. ASSUME NEW p \in Procs, GiveUp(p) PROVE IInv'
  BY <1>7 DEF GiveUp
<1>8. ASSUME NEW p \in Procs, NEW s \in Sessions, OperationCall(p, s) PROVE IInv'
  BY <1>8 DEF OperationCall
<1>9. ASSUME NEW p \in Procs, Lock(p) PROVE IInv'
  BY <1>9 DEF Lock
<1>10. ASSUME NEW p \in Procs, LockClosed(p) PROVE IInv'
  BY <1>10 DEF LockClosed
<1>11. ASSUME NEW p \in Procs, Unlock(p) PROVE IInv'
  BY <1>11 DEF Unlock
<1>12. ASSUME NEW p \in Procs, NEW s \in Sessions, CloseCall(p, s) PROVE IInv'
  BY <1>12 DEF CloseCall
<1>13. ASSUME NEW p \in Procs, LockClose(p) PROVE IInv'
  BY <1>13 DEF LockClose
<1>14. ASSUME NEW p \in Procs, CloseAgain(p) PROVE IInv'
  BY <1>14 DEF CloseAgain
<1>15. ASSUME NEW p \in Procs, CloseEditor(p) PROVE IInv'
  BY <1>15 DEF CloseEditor
<1>16. ASSUME NEW p \in Procs, GiveClaimBack(p) PROVE IInv'
  <2> USE <1>16 DEF GiveClaimBack
  <2>1. /\ \A s \in Sessions : editor[s] # "open"
        /\ \A q \in Procs : q # p => pc[q] \notin {"handshake", "unclaim"}
        /\ \A q \in Procs : pc[q] \in InSession /\ on[q] = on[p] => q = p
    OBVIOUS
  <2>2. /\ pc'[p] = "idle" /\ \A q \in Procs : q # p => pc'[q] = pc[q]
        /\ on'[p] = NoSession /\ \A q \in Procs : q # p => on'[q] = on[q]
    OBVIOUS
  <2>3. TypeOK'
    OBVIOUS
  <2>4. OneClaim'
    BY <2>1, <2>2
  <2>5. OnReturned' /\ Stage'
    BY <2>2
  <2>6. LockNames'
    BY <2>1, <2>2
  <2> QED
    BY <2>3, <2>4, <2>5, <2>6
<1> QED
  BY <1>1, <1>2, <1>3, <1>4, <1>5, <1>6, <1>7, <1>8, <1>9, <1>10, <1>11,
     <1>12, <1>13, <1>14, <1>15, <1>16
     DEF Next, Open, Operate, Close

\* Every reachable state satisfies the invariant.
LEMMA Invariance == Spec => []IInv
BY InitInv, StepInv, PTL DEF Spec

\* Every variable of a client keeps its type.
THEOREM TypeCorrect == Spec => []TypeOK
BY Invariance, PTL DEF IInv

\* However many goroutines open and close sessions at once, at most one of a
\* client's sessions has the editor interface (Open, session.go).
THEOREM OneEditorHolds == Spec => []OneEditor
BY Invariance, PTL DEF IInv, OneClaim

\* Whoever is inside an operation or inside Close is alone on its session
\* (lock, session.go).
THEOREM AloneHolds == Spec => []Alone
<1>1. IInv => Alone
  BY DEF IInv, LockNames, Alone
<1> QED
  BY <1>1, Invariance, PTL

\* No operation runs on a device that Close has let go of, or is letting go of.
THEOREM RunsOnOpenEditorHolds == Spec => []RunsOnOpenEditor
<1>1. IInv => RunsOnOpenEditor
  BY DEF IInv, Stage, RunsOnOpenEditor
<1> QED
  BY <1>1, Invariance, PTL

\* The claim is held exactly while something needs it: no failed open leaks
\* it, and no Close gives it back twice (Open and Close, session.go).
THEOREM ClaimNotLeakedHolds == Spec => []ClaimNotLeaked
BY Invariance, PTL DEF IInv, OneClaim

-----------------------------------------------------------------------------
\* The refinement.

\* The open session is the holder, and with none open there is no holder.
HolderIsOpen ==
  /\ \A s \in Sessions : editor[s] = "open" => Holder = s
  /\ (\A s \in Sessions : editor[s] # "open") => Holder = NoSession

LEMMA HolderIs == OneEditor => HolderIsOpen
<1> SUFFICES ASSUME OneEditor PROVE HolderIsOpen
  OBVIOUS
<1>1. ASSUME NEW s \in Sessions, editor[s] = "open" PROVE Holder = s
  <2>1. s \in HoldingNow /\ \A t \in HoldingNow : t = s
    BY <1>1 DEF OneEditor, HoldingNow
  <2> QED
    BY <2>1 DEF Holder
<1>2. ASSUME \A s \in Sessions : editor[s] # "open" PROVE Holder = NoSession
  BY <1>2 DEF Holder, HoldingNow
<1> QED
  BY <1>1, <1>2 DEF HolderIsOpen

\* A step that opens or closes no device leaves the holder alone.
LEMMA SameHolder == editor' = editor => Holder' = Holder
BY DEF Holder, HoldingNow

\* Every step of a client is a step of Claim, or none that Claim can see.
LEMMA StepRefines == IInv /\ IInv' /\ [Next]_vars => [Pedal!Next]_(Pedal!claimVars)
<1> SUFFICES ASSUME IInv, IInv', [Next]_vars
             PROVE  [Pedal!Next]_(Pedal!claimVars)
  OBVIOUS
<1> USE ClientAssumption
    DEF IInv, TypeOK, Places, Go, Return, Returned
<1>1. HolderIsOpen
  BY HolderIs DEF OneClaim
<1>2. HolderIsOpen'
  <2>1. OneEditor'
    BY DEF OneClaim
  <2>2. OneEditor' => HolderIsOpen'
    BY HolderIs, PTL
  <2> QED
    BY <2>1, <2>2
<1>3. CASE UNCHANGED vars
  <2>1. Holder' = Holder /\ Using' = Using
    BY <1>3, SameHolder DEF vars, Using
  <2> QED
    BY <2>1 DEF Pedal!claimVars
<1>4. ASSUME NEW p \in Procs,
             \/ OpenCall(p) \/ Opened(p) \/ GiveUp(p) \/ LockClosed(p)
             \/ LockClose(p) \/ CloseAgain(p) \/ GiveClaimBack(p)
      PROVE  Holder' = Holder /\ Using' = Using
  <2>1. editor' = editor
    BY <1>4 DEF OpenCall, Opened, GiveUp, LockClosed, LockClose, CloseAgain,
                GiveClaimBack
  <2>2. \A q \in Procs : pc'[q] = "running" <=> pc[q] = "running"
    BY <1>4 DEF OpenCall, Opened, GiveUp, LockClosed, LockClose, CloseAgain,
                GiveClaimBack
  <2> QED
    BY <2>1, <2>2, SameHolder DEF Using
<1>5. ASSUME NEW p \in Procs, Handshake(p)
      PROVE  \E s \in Sessions : Pedal!Take(s)
  <2>1. on[p] \in Sessions /\ editor[on[p]] = "none" /\ editor'[on[p]] = "open"
    BY <1>5 DEF Handshake
  <2>2. \A s \in Sessions : editor[s] # "open"
    BY <1>5, <2>1 DEF Handshake, OneClaim
  <2>3. Holder = NoSession /\ Holder' = on[p]
    BY <1>1, <1>2, <2>1, <2>2 DEF HolderIsOpen
  <2>4. UNCHANGED Using
    BY <1>5 DEF Handshake, Using
  <2> QED
    BY <2>1, <2>3, <2>4 DEF Pedal!Take
<1>6. ASSUME NEW p \in Procs, OpenFails(p)
      PROVE  Pedal!Drop \/ (Holder' = Holder /\ Using' = Using)
  <2>1. \A s \in Sessions : s # on[p] => editor[s] # "open" /\ editor'[s] # "open"
    BY <1>6 DEF OpenFails, OneClaim
  <2>2. on[p] \in Sessions /\ editor'[on[p]] = "none"
    BY <1>6 DEF OpenFails
  <2>3. Holder' = NoSession
    BY <1>2, <2>1, <2>2 DEF HolderIsOpen
  <2>4. ~Using /\ ~Using'
    BY <1>6, <2>1 DEF OpenFails, Using, Stage, OnReturned, Busy
  <2>5. Holder = NoSession \/ Holder # NoSession
    OBVIOUS
  <2> QED
    BY <2>3, <2>4, <2>5 DEF Pedal!Drop, Using
<1>7. ASSUME NEW p \in Procs, NEW s \in Sessions,
             TakeClaim(p, s) \/ OperationCall(p, s) \/ CloseCall(p, s)
      PROVE  Holder' = Holder /\ Using' = Using
  <2>1. editor' = editor
    BY <1>7 DEF TakeClaim, OperationCall, CloseCall
  <2>2. \A q \in Procs : pc'[q] = "running" <=> pc[q] = "running"
    BY <1>7 DEF TakeClaim, OperationCall, CloseCall
  <2> QED
    BY <2>1, <2>2, SameHolder DEF Using
<1>8. ASSUME NEW p \in Procs, Lock(p) PROVE Pedal!Use
  <2>1. on[p] \in Sessions /\ editor[on[p]] = "open"
    BY <1>8 DEF Lock, OnReturned, Busy, Stage
  <2>2. Holder # NoSession
    BY <1>1, <2>1 DEF HolderIsOpen
  <2>3. ~Using
    <3> SUFFICES ASSUME NEW q \in Procs, pc[q] = "running" PROVE FALSE
      BY DEF Using
    <3>1. on[q] \in Sessions /\ editor[on[q]] = "open" /\ op[on[q]] = q
      BY DEF Stage, LockNames, InSession
    <3>2. on[q] = on[p]
      BY <2>1, <3>1 DEF OneClaim, OneEditor
    <3> QED
      BY <1>8, <3>1, <3>2 DEF Lock
  <2>4. Using' /\ Holder' = Holder
    BY <1>8, SameHolder DEF Lock, Using
  <2> QED
    BY <2>2, <2>3, <2>4 DEF Pedal!Use, Using
<1>9. ASSUME NEW p \in Procs, Unlock(p) PROVE Pedal!Rest
  <2>1. \A q \in Procs : pc[q] = "running" => q = p
    <3> SUFFICES ASSUME NEW q \in Procs, pc[q] = "running" PROVE q = p
      OBVIOUS
    <3>1. /\ on[q] \in Sessions /\ editor[on[q]] = "open" /\ op[on[q]] = q
          /\ on[p] \in Sessions /\ editor[on[p]] = "open" /\ op[on[p]] = p
      BY <1>9 DEF Unlock, Stage, LockNames, InSession
    <3> QED
      BY <3>1 DEF OneClaim, OneEditor
  <2>2. \A q \in Procs : pc'[q] # "running"
    BY <1>9, <2>1 DEF Unlock
  <2>3. Using /\ ~Using'
    BY <1>9, <2>2 DEF Unlock, Using
  <2>4. Holder' = Holder
    BY <1>9, SameHolder DEF Unlock
  <2> QED
    BY <2>3, <2>4 DEF Pedal!Rest, Using
<1>10. ASSUME NEW p \in Procs, CloseEditor(p) PROVE Pedal!Drop
  <2>1. on[p] \in Sessions /\ editor[on[p]] = "open" /\ op[on[p]] = p
    BY <1>10 DEF CloseEditor, Stage, LockNames, InSession
  <2>2. \A s \in Sessions : editor'[s] # "open"
    BY <1>10, <2>1 DEF CloseEditor, OneClaim, OneEditor
  <2>3. Holder # NoSession /\ Holder' = NoSession
    BY <1>1, <1>2, <2>1, <2>2 DEF HolderIsOpen
  <2>4. \A q \in Procs : pc[q] # "running"
    <3> SUFFICES ASSUME NEW q \in Procs, pc[q] = "running" PROVE FALSE
      OBVIOUS
    <3>1. on[q] \in Sessions /\ editor[on[q]] = "open" /\ op[on[q]] = q
      BY DEF Stage, LockNames, InSession
    <3>2. q = p
      BY <2>1, <3>1 DEF OneClaim, OneEditor
    <3> QED
      BY <1>10, <3>2 DEF CloseEditor
  <2>5. ~Using /\ ~Using'
    BY <1>10, <2>4 DEF CloseEditor, Using
  <2> QED
    BY <2>3, <2>5 DEF Pedal!Drop, Using
<1>11. CASE Next
  <2>1. Pedal!Next \/ (Holder' = Holder /\ Using' = Using)
    <3> USE DEF Pedal!Next
    <3>1. ASSUME NEW p \in Procs, Open(p) \/ Operate(p) \/ Close(p) \/ GiveUp(p)
          PROVE  Pedal!Next \/ (Holder' = Holder /\ Using' = Using)
      BY <3>1, <1>4, <1>5, <1>6, <1>8, <1>9, <1>10 DEF Open, Operate, Close
    <3> QED
      BY <1>11, <1>7, <3>1 DEF Next
  <2> QED
    BY <2>1 DEF Pedal!claimVars
<1> QED
  BY <1>3, <1>11

\* A client of the SDK implements Claim: whatever it does, the pedal sees one
\* session at a time, one operation at a time on it, and is let go only
\* between operations (Session, session.go).
THEOREM Refinement == Spec => PedalSpec
<1>1. Init => Pedal!Init
  BY DEF Init, Pedal!Init, Holder, HoldingNow, Using
<1>2. IInv /\ IInv' /\ [Next]_vars => [Pedal!Next]_(Pedal!claimVars)
  BY StepRefines
<1> QED
  BY <1>1, <1>2, Invariance, PTL DEF Spec, PedalSpec, Pedal!Spec
=============================================================================
