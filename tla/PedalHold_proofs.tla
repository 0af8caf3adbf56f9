-------------------------- MODULE PedalHold_proofs --------------------------
(***************************************************************************)
(* Proofs about PedalHold, for any handlers, sessions and number of calls. *)
(*                                                                         *)
(* NothingLeftHeld says what must not be left behind; it is not inductive, *)
(* for it does not say who may act.  IInv adds that: the lock belongs to   *)
(* whoever is between taking and giving it back (LockNames); the session   *)
(* held is the only one the bus has open, and every place in a call finds  *)
(* it there or not as it expects (OneHeld, LetGoForGood, HeldCounts); a    *)
(* broken session is held only by the call that is about to release it     *)
(* (NoneBroken, PanicCloses); and an idle close still to come carries the  *)
(* present count only if no call came after it (LateTimers).  Bounded      *)
(* counts what the bound on calls allows, so it needs finitely many        *)
(* handlers.                                                               *)
(***************************************************************************)
EXTENDS PedalHold, FiniteSetTheorems, TLAPS

Inside == {"listing", "opening", "disarm", "calling", "release",
           "releaseToCrash", "arm", "armToCrash"}

\* The lock's holder is the one inside, and nothing is left to act after a
\* crash.
LockNames ==
  /\ \A p \in Callers : lock = p <=> pc[p] \in Inside
  /\ lock = Server <=> server = "closing"
  /\ closed => lock \in {Nobody, Timer}
  /\ server = "dead" =>
       /\ lock = Nobody /\ timer = NoTimer /\ fired = {}
       /\ \A p \in Callers : pc[p] = "dead"

\* What is open on the bus is what is held.
OneHeld ==
  /\ \A s \in Sessions : bus[s] \in {"open", "dead"} <=> s = session
  /\ \A p \in Callers :
       /\ pc[p] = "opening" => session = NoSession
       /\ pc[p] \in {"disarm", "calling", "release", "releaseToCrash"} =>
            session # NoSession

\* Once the server has let the pedal go, nothing is held.
LetGoForGood ==
  /\ closed => session = NoSession /\ server \in {"stopped", "dead"}
  /\ server = "stopped" => closed

\* Held counts the session being opened or held.
HeldCounts ==
  server # "dead" =>
    held = IF session # NoSession \/ \E p \in Callers : pc[p] = "opening"
             THEN 1 ELSE 0

\* A failed session is held only on its way to be released.
NoneBroken ==
  /\ \A s \in failed : bus[s] # "none"
  /\ session \in failed /\ server # "dead" =>
       \E p \in Callers : pc[p] \in {"release", "releaseToCrash"}

\* A panic's session is closed before the panic carries on.
PanicCloses ==
  \A p \in Callers :
    /\ pc[p] = "releaseToCrash" => hit[p] = session
    /\ pc[p] \in {"armToCrash", "crash"} =>
         hit[p] \in Sessions /\ bus[hit[p]] = "closed"

\* An idle close of the present count was armed by the last call.
LateTimers ==
  /\ calls <= armed
  /\ \A t \in fired \cup {timer, expiring} :
       t.n <= armed /\ t.call <= calls /\ (t.n = armed => t.call = calls)

\* TypeOK with no bound on the counters.
Kinds ==
  /\ lock \in Callers \cup {Timer, Server, Nobody}
  /\ session \in Sessions \cup {NoSession}
  /\ timer \in [n : Nat, call : Nat] /\ fired \subseteq [n : Nat, call : Nat]
  /\ expiring \in [n : Nat, call : Nat]
  /\ armed \in Nat /\ calls \in Nat
  /\ closed \in BOOLEAN
  /\ held \in 0..1
  /\ bus \in [Sessions -> {"none", "open", "dead", "closed"}]
  /\ failed \subseteq Sessions
  /\ hit \in [Callers -> Sessions \cup {NoSession}]
  /\ pc \in [Callers -> Places]
  /\ server \in {"serving", "stopping", "closing", "stopped", "dead"}

HInv == /\ Kinds /\ LockNames /\ OneHeld /\ LetGoForGood /\ HeldCounts
        /\ NoneBroken /\ PanicCloses /\ LateTimers

\* The pedal starts let go.
LEMMA InitHInv == Init => HInv
<1> SUFFICES ASSUME Init PROVE HInv
  OBVIOUS
<1> USE HoldAssumption DEF Init, NoTimer
<1>1. Kinds
  <2>1. timer \in [n : Nat, call : Nat] /\ expiring \in [n : Nat, call : Nat]
    OBVIOUS
  <2>2. /\ bus \in [Sessions -> {"none", "open", "dead", "closed"}]
        /\ hit \in [Callers -> Sessions \cup {NoSession}]
    OBVIOUS
  <2>3. pc \in [Callers -> Places]
    BY DEF Places
  <2>4. fired \subseteq [n : Nat, call : Nat] /\ failed \subseteq Sessions
    OBVIOUS
  <2>5. /\ lock \in Callers \cup {Timer, Server, Nobody}
        /\ session \in Sessions \cup {NoSession}
        /\ server \in {"serving", "stopping", "closing", "stopped", "dead"}
    OBVIOUS
  <2>6. armed \in Nat /\ calls \in Nat /\ held \in 0..1
    OBVIOUS
  <2>7. closed \in BOOLEAN
    OBVIOUS
  <2> QED
    BY <2>1, <2>2, <2>3, <2>4, <2>5, <2>6, <2>7 DEF Kinds
<1>2. LockNames
  BY DEF LockNames, Inside
<1>3. OneHeld /\ LetGoForGood /\ HeldCounts
  BY DEF OneHeld, LetGoForGood, HeldCounts
<1>4. NoneBroken /\ PanicCloses /\ LateTimers
  BY DEF NoneBroken, PanicCloses, LateTimers
<1> QED
  BY <1>1, <1>2, <1>3, <1>4 DEF HInv

\* Every step of a call, an idle close or the server preserves it.
LEMMA StepHInv == HInv /\ [Next]_vars => HInv'
<1> SUFFICES ASSUME HInv, [Next]_vars PROVE HInv'
  OBVIOUS
<1> USE HoldAssumption
    DEF HInv, Kinds, LockNames, Inside, OneHeld, LetGoForGood, HeldCounts,
        NoneBroken, PanicCloses, LateTimers, NoTimer, Places, Go, Give, Take,
        Release, Disarm, timers, hold
<1>1. CASE UNCHANGED vars
  BY <1>1 DEF vars
<1>2. ASSUME NEW p \in Callers, Arrive(p) PROVE HInv'
  BY <1>2 DEF Arrive
<1>3. ASSUME NEW p \in Callers, GiveUp(p) PROVE HInv'
  BY <1>3 DEF GiveUp
<1>4. ASSUME NEW p \in Callers, Refused(p) PROVE HInv'
  BY <1>4 DEF Refused
<1>5. ASSUME NEW p \in Callers, TakeToList(p) PROVE HInv'
  BY <1>5 DEF TakeToList
<1>6. ASSUME NEW p \in Callers, Listed(p) PROVE HInv'
  BY <1>6 DEF Listed
<1>7. ASSUME NEW p \in Callers, TakeToCall(p) PROVE HInv'
  BY <1>7 DEF TakeToCall
<1>8. ASSUME NEW p \in Callers, TakeToOpen(p) PROVE HInv'
  BY <1>8 DEF TakeToOpen
<1>9. ASSUME NEW p \in Callers, NEW s \in Sessions, Opened(p, s) PROVE HInv'
  BY <1>9 DEF Opened
<1>10. ASSUME NEW p \in Callers, OpenFails(p) PROVE HInv'
  BY <1>10 DEF OpenFails
<1>11. ASSUME NEW p \in Callers, StartCall(p) PROVE HInv'
  BY <1>11 DEF StartCall
<1>12. ASSUME NEW p \in Callers, Returns(p) PROVE HInv'
  BY <1>12 DEF Returns
<1>13. ASSUME NEW p \in Callers, ReturnsErrBus(p) PROVE HInv'
  BY <1>13 DEF ReturnsErrBus
<1>14. ASSUME NEW p \in Callers, Panics(p) PROVE HInv'
  BY <1>14 DEF Panics
<1>15. ASSUME NEW p \in Callers, ReleaseAfterCall(p) PROVE HInv'
  BY <1>15 DEF ReleaseAfterCall
<1>16. ASSUME NEW p \in Callers, EndCall(p) PROVE HInv'
  BY <1>16 DEF EndCall, Arm
<1>17. ASSUME NEW p \in Callers, Crash(p) PROVE HInv'
  BY <1>17 DEF Crash
<1>18. CASE Fire
  BY <1>18 DEF Fire
<1>19. ASSUME NEW t \in fired, ExpireTakes(t) PROVE HInv'
  BY <1>19 DEF ExpireTakes
<1>20. CASE Expire
  BY <1>20 DEF Expire
<1>21. CASE Stop
  BY <1>21 DEF Stop
<1>22. CASE CloseTakes
  BY <1>22 DEF CloseTakes
<1>23. CASE ClosePedal
  BY <1>23 DEF ClosePedal
<1>24. ASSUME NEW s \in Sessions, BusFails(s), server # "dead" PROVE HInv'
  BY <1>24 DEF BusFails
<1> QED
  BY <1>1, <1>2, <1>3, <1>4, <1>5, <1>6, <1>7, <1>8, <1>9, <1>10, <1>11,
     <1>12, <1>13, <1>14, <1>15, <1>16, <1>17, <1>18, <1>19, <1>20, <1>21,
     <1>22, <1>23, <1>24
     DEF Next, Call, Idle, Close
-----------------------------------------------------------------------------
\* The counters: a call disarms once and arms at most once, the server's stop
\* disarms once.
Disarmed == {"calling", "release", "releaseToCrash", "arm", "armToCrash"}

Bounded ==
  /\ calls + Cardinality(Coming) <= MaxCalls
  /\ armed <= 2 * calls + 1
  /\ ~closed => armed <= 2 * calls
  /\ \A p \in Callers : pc[p] \in Disarmed => armed < 2 * calls

\* The calls that will reach the session can be counted.
LEMMA ComingCounted ==
  IsFiniteSet(Callers) =>
    IsFiniteSet(Coming) /\ Cardinality(Coming) \in Nat
<1>1. Coming \subseteq Callers
  BY DEF Coming
<1> QED
  BY <1>1, FS_Subset, FS_CardinalityType

\* A device call that arrives is one more.
LEMMA ComingGrows ==
  ASSUME HInv, NEW p \in Callers, pc[p] = "idle",
         pc' = [pc EXCEPT ![p] = "device"]
  PROVE  Cardinality(Coming') = Cardinality(Coming) + 1
<1>1. Coming' = Coming \cup {p} /\ p \notin Coming
  BY DEF Coming, HInv, Kinds
<1> QED
  BY <1>1, ComingCounted, HoldAssumption, FS_AddElement

\* One that gives up, fails to open or starts its call is one less.
LEMMA ComingShrinks ==
  ASSUME HInv, NEW p \in Callers, p \in Coming, NEW to \in Places,
         to \notin {"device", "opening", "disarm"},
         pc' = [pc EXCEPT ![p] = to]
  PROVE  Cardinality(Coming') = Cardinality(Coming) - 1
<1>1. Coming' = Coming \ {p}
  BY DEF Coming, HInv, Kinds
<1> QED
  BY <1>1, ComingCounted, HoldAssumption, FS_RemoveElement

\* Any other step of a caller leaves the count alone.
LEMMA ComingStays ==
  ASSUME HInv, NEW p \in Callers, NEW to \in Places,
         p \in Coming <=> to \in {"device", "opening", "disarm"},
         pc' = [pc EXCEPT ![p] = to]
  PROVE  Coming' = Coming
BY DEF Coming, HInv, Kinds

\* Nothing has been counted at the start.
LEMMA InitBounded == Init => Bounded
<1> SUFFICES ASSUME Init PROVE Bounded
  OBVIOUS
<1>1. Coming = {}
  BY DEF Init, Coming
<1>2. Cardinality(Coming) = 0
  BY <1>1, FS_EmptySet
<1> QED
  BY <1>2, HoldAssumption DEF Init, Bounded, Disarmed

\* Every step keeps the counters within the bound.
LEMMA StepBounded == HInv /\ Bounded /\ [Next]_vars => Bounded'
<1> SUFFICES ASSUME HInv, Bounded, [Next]_vars PROVE Bounded'
  OBVIOUS
<1>0. IsFiniteSet(Coming) /\ Cardinality(Coming) \in Nat
  BY ComingCounted, HoldAssumption
<1>a. pc \in [Callers -> Places] /\ armed \in Nat /\ calls \in Nat /\ MaxCalls \in Nat
  BY HoldAssumption DEF HInv, Kinds
<1> USE <1>0, <1>a DEF Bounded, Disarmed, Places, Go, timers, hold
<1>1. CASE UNCHANGED <<pc, armed, calls, closed>>
  BY <1>1 DEF Coming
<1>2. ASSUME NEW p \in Callers, Arrive(p) PROVE Bounded'
  <2>1. CASE Go(p, "idle", "device") /\ calls + Cardinality(Coming) < MaxCalls
    <3>1. Cardinality(Coming') = Cardinality(Coming) + 1
      BY <2>1, ComingGrows
    <3> QED
      BY <1>2, <2>1, <3>1 DEF Arrive
  <2>2. CASE Go(p, "idle", "list")
    <3>1. Coming' = Coming
      BY <2>2, ComingStays DEF Coming
    <3> QED
      BY <1>2, <2>2, <3>1 DEF Arrive
  <2> QED
    BY <1>2, <2>1, <2>2 DEF Arrive
<1>3. ASSUME NEW p \in Callers, GiveUp(p) \/ Refused(p) PROVE Bounded'
  <2>1. UNCHANGED <<armed, calls, closed>> /\ pc' = [pc EXCEPT ![p] = "idle"]
    BY <1>3 DEF GiveUp, Refused
  <2>2. CASE pc[p] = "device"
    <3>1. Cardinality(Coming') = Cardinality(Coming) - 1
      BY <2>1, <2>2, ComingShrinks DEF Coming
    <3> QED
      BY <2>1, <3>1
  <2>3. CASE pc[p] = "list"
    <3>1. Coming' = Coming
      BY <2>1, <2>3, ComingStays DEF Coming
    <3> QED
      BY <2>1, <3>1
  <2> QED
    BY <1>3, <2>2, <2>3 DEF GiveUp, Refused
<1>4. ASSUME NEW p \in Callers,
             TakeToList(p) \/ Listed(p) \/ TakeToCall(p) \/ TakeToOpen(p)
               \/ Returns(p) \/ ReturnsErrBus(p) \/ Panics(p) \/ ReleaseAfterCall(p)
      PROVE  Bounded'
  <2>1. PICK to \in Places :
          /\ pc' = [pc EXCEPT ![p] = to]
          /\ p \in Coming <=> to \in {"device", "opening", "disarm"}
          /\ to \in Disarmed => pc[p] \in Disarmed
    BY <1>4 DEF TakeToList, Listed, TakeToCall, TakeToOpen, Returns,
       ReturnsErrBus, Panics, ReleaseAfterCall, Coming
  <2>2. Coming' = Coming
    BY <2>1, ComingStays
  <2>3. UNCHANGED <<armed, calls, closed>>
    BY <1>4 DEF TakeToList, Listed, TakeToCall, TakeToOpen, Returns,
       ReturnsErrBus, Panics, ReleaseAfterCall
  <2> QED
    BY <2>1, <2>2, <2>3
<1>5. ASSUME NEW p \in Callers, NEW s \in Sessions, Opened(p, s) PROVE Bounded'
  <2>1. Coming' = Coming
    BY <1>5, ComingStays DEF Opened, Coming
  <2> QED
    BY <1>5, <2>1 DEF Opened
<1>6. ASSUME NEW p \in Callers, OpenFails(p) PROVE Bounded'
  <2>1. Cardinality(Coming') = Cardinality(Coming) - 1
    BY <1>6, ComingShrinks DEF OpenFails, Coming
  <2> QED
    BY <1>6, <2>1 DEF OpenFails
<1>7. ASSUME NEW p \in Callers, StartCall(p) PROVE Bounded'
  <2>1. Cardinality(Coming') = Cardinality(Coming) - 1
    BY <1>7, ComingShrinks DEF StartCall, Coming
  <2>2. ~closed /\ \A q \in Callers : pc[q] \notin Disarmed
    BY <1>7, HoldAssumption DEF StartCall, HInv, Kinds, LockNames, Inside
  <2> QED
    BY <1>7, <2>1, <2>2 DEF StartCall, Disarm
<1>8. ASSUME NEW p \in Callers, EndCall(p) PROVE Bounded'
  <2>1. Coming' = Coming
    BY <1>8, ComingStays DEF EndCall, Coming
  <2>2. \A q \in Callers : pc[q] \in Disarmed => q = p
    BY <1>8, HoldAssumption DEF EndCall, HInv, Kinds, LockNames, Inside
  <2> QED
    BY <1>8, <2>1, <2>2 DEF EndCall, Arm
<1>9. ASSUME NEW p \in Callers, Crash(p) PROVE Bounded'
  <2>1. Coming' = {}
    BY <1>9 DEF Crash, Coming
  <2>2. Cardinality(Coming') = 0
    BY <2>1, FS_EmptySet
  <2> QED
    BY <1>9, <2>2 DEF Crash
<1>10. CASE ClosePedal
  <2>1. Coming' = Coming
    BY <1>10 DEF ClosePedal, Coming
  <2>2. ~closed /\ \A q \in Callers : pc[q] \notin Disarmed
    BY <1>10, HoldAssumption
       DEF ClosePedal, HInv, Kinds, LockNames, Inside, LetGoForGood
  <2> QED
    BY <1>10, <2>1, <2>2 DEF ClosePedal, Disarm
<1>11. CASE Idle \/ Stop \/ CloseTakes \/ (\E s \in Sessions : BusFails(s))
            \/ UNCHANGED vars
  BY <1>1, <1>11
     DEF Idle, Fire, Expire, ExpireTakes, Stop, CloseTakes, BusFails, vars
<1> QED
  BY <1>2, <1>3, <1>4, <1>5, <1>6, <1>7, <1>8, <1>9, <1>10, <1>11
     DEF Next, Call, Close
-----------------------------------------------------------------------------
IInv == HInv /\ Bounded

\* Every reachable state satisfies the invariant.
LEMMA Invariance == Spec => []IInv
<1>1. Init => IInv
  BY InitHInv, InitBounded DEF IInv
<1>2. IInv /\ [Next]_vars => IInv'
  BY StepHInv, StepBounded DEF IInv
<1> QED
  BY <1>1, <1>2, PTL DEF Spec

\* Every variable of the hold keeps its type, the counters their bounds.
THEOREM TypeCorrect == Spec => []TypeOK
<1>1. IInv => TypeOK
  <2> SUFFICES ASSUME IInv PROVE TypeOK
    OBVIOUS
  <2>1. Cardinality(Coming) \in Nat
    BY ComingCounted, HoldAssumption
  <2>2. armed \in Counts /\ calls \in 0..MaxCalls
    BY <2>1, HoldAssumption DEF IInv, HInv, Kinds, Bounded, Counts
  <2>3. \A t \in fired \cup {timer, expiring} :
          t \in [n : Nat, call : Nat] /\ t.n <= armed /\ t.call <= calls
    BY DEF IInv, HInv, Kinds, LateTimers
  <2>4. \A t \in fired \cup {timer, expiring} : t \in Timers
    BY <2>2, <2>3, HoldAssumption DEF Timers, Counts
  <2> QED
    BY <2>2, <2>4 DEF IInv, HInv, Kinds, TypeOK
<1> QED
  BY <1>1, Invariance, PTL

\* However calls, idle closes, bus failures, panics and the server's stop fall,
\* nothing is left holding the pedal and nothing broken is held (onPedal,
\* release and Close, pedal.go; held.go).
THEOREM NothingLeftHeldHolds == Spec => []NothingLeftHeld
<1>1. IInv => NothingLeftHeld
  <2> SUFFICES ASSUME IInv PROVE NothingLeftHeld
    OBVIOUS
  <2> USE HoldAssumption DEF IInv, HInv, Kinds, LockNames, Inside, OneHeld
  <2>1. Claimed = IF session = NoSession THEN {} ELSE {session}
    BY DEF Claimed
  <2>2. Cardinality(Claimed) = IF session = NoSession THEN 0 ELSE 1
    <3>1. CASE session = NoSession
      BY ONLY <2>1, <3>1, FS_EmptySet
    <3>2. CASE session # NoSession
      BY ONLY <2>1, <3>2, FS_Singleton
    <3> QED
      BY <3>1, <3>2
  <2>3. OpeningNow = {} \/ \E p \in Callers : OpeningNow = {p}
    BY DEF OpeningNow
  <2>4. Cardinality(OpeningNow) = IF OpeningNow = {} THEN 0 ELSE 1
    BY ONLY <2>3, FS_EmptySet, FS_Singleton
  <2>5. OpeningNow # {} <=> \E p \in Callers : pc[p] = "opening"
    BY DEF OpeningNow
  <2>6. server # "dead" => held = Cardinality(Claimed) + Cardinality(OpeningNow)
    BY <2>2, <2>4, <2>5 DEF HeldCounts
  <2>7. server = "stopped" => Claimed = {} /\ held = 0
    BY <2>1 DEF LetGoForGood, HeldCounts
  <2>8. \A p \in Callers : pc[p] = "calling" => session \notin failed
    BY DEF NoneBroken
  <2>9. \A p \in Callers : pc[p] = "crash" => bus[hit[p]] = "closed"
    BY DEF PanicCloses
  <2> QED
    BY <2>1, <2>6, <2>7, <2>8, <2>9 DEF NothingLeftHeld
<1> QED
  BY <1>1, Invariance, PTL

\* However late an idle close fires, it closes a session only if no call used it
\* since the close was armed (armed, pedal.go).
THEOREM IdleCloseOnlyWhenIdleHolds == Spec => IdleCloseOnlyWhenIdle
<1>1. IInv /\ [Next]_vars =>
        \A s \in Sessions :
          lock = Timer /\ bus[s] # "closed" /\ bus'[s] = "closed" =>
            expiring.call = calls
  <2> SUFFICES ASSUME IInv, [Next]_vars, NEW s \in Sessions, lock = Timer,
                      bus[s] # "closed", bus'[s] = "closed"
               PROVE  expiring.call = calls
    OBVIOUS
  <2> USE HoldAssumption DEF IInv, HInv, Kinds
  <2>1. CASE Expire
    BY <2>1 DEF Expire, LateTimers, hold
  <2>2. ~ Close
    BY DEF Close, CloseTakes, ClosePedal, LockNames
  <2>3. \A p \in Callers : ~ ReleaseAfterCall(p)
    BY DEF ReleaseAfterCall, Go, LockNames, Inside
  <2>4. CASE UNCHANGED bus
    BY <2>4
  <2>5. ASSUME NEW t \in Sessions,
               bus' \in {[bus EXCEPT ![t] = "open"], [bus EXCEPT ![t] = "dead"]}
        PROVE FALSE
    BY <2>5
  <2> QED
    BY <2>1, <2>2, <2>3, <2>4, <2>5
       DEF Next, Call, Idle, Arrive, GiveUp, Refused, TakeToList, Listed,
           TakeToCall, TakeToOpen, Opened, OpenFails, StartCall, Returns,
           ReturnsErrBus, Panics, EndCall, Crash, Fire, ExpireTakes, Stop,
           BusFails, hold, vars
<1> QED
  BY <1>1, Invariance, PTL DEF Spec, IdleCloseOnlyWhenIdle

-----------------------------------------------------------------------------
\* Opening is Take, a call's beginning Use and its end Rest, a release Drop;
\* every other step is a stutter of Claim.
LEMMA StepRefines == IInv /\ IInv' /\ [Next]_vars => [Pedal!Next]_(Pedal!claimVars)
<1> SUFFICES ASSUME IInv, IInv', [Next]_vars
             PROVE  Pedal!Next \/ UNCHANGED <<Holder, Using>>
  BY DEF Pedal!claimVars
<1>1. Holder = session /\ Holder' = session'
  BY HoldAssumption DEF IInv, HInv, Kinds, OneHeld, Holder, Claimed
<1> USE HoldAssumption
    DEF IInv, HInv, Kinds, LockNames, Inside, OneHeld, Places, Using, Go, Give,
        Take, timers, hold
<1>2. ASSUME NEW p \in Callers, NEW s \in Sessions, Opened(p, s)
      PROVE  Pedal!Take(s)
  BY <1>1, <1>2 DEF Opened, Pedal!Take
<1>3. ASSUME NEW p \in Callers, StartCall(p) PROVE Pedal!Use
  BY <1>1, <1>3 DEF StartCall, Pedal!Use
<1>4. ASSUME NEW p \in Callers, Returns(p) \/ ReturnsErrBus(p) \/ Panics(p)
      PROVE  Pedal!Rest
  BY <1>1, <1>4 DEF Returns, ReturnsErrBus, Panics, Pedal!Rest
<1>5. ASSUME NEW p \in Callers, ReleaseAfterCall(p)
      PROVE  Pedal!Drop \/ UNCHANGED <<Holder, Using>>
  BY <1>1, <1>5 DEF ReleaseAfterCall, Release, Pedal!Drop
<1>6. ASSUME NEW p \in Callers, Crash(p)
      PROVE  Pedal!Rest \/ UNCHANGED <<Holder, Using>>
  BY <1>1, <1>6 DEF Crash, Pedal!Rest
<1>7. CASE Expire
  BY <1>1, <1>7 DEF Expire, Release, Pedal!Drop, Pedal!Next
<1>8. CASE ClosePedal
  BY <1>1, <1>8 DEF ClosePedal, Release, Pedal!Drop, Pedal!Next
<1>9. ASSUME NEW p \in Callers,
             \/ Arrive(p) \/ GiveUp(p) \/ Refused(p) \/ TakeToList(p) \/ Listed(p)
             \/ TakeToCall(p) \/ TakeToOpen(p) \/ OpenFails(p) \/ EndCall(p)
      PROVE  UNCHANGED <<Holder, Using>>
  BY <1>1, <1>9 DEF Arrive, GiveUp, Refused, TakeToList, Listed, TakeToCall,
                    TakeToOpen, OpenFails, EndCall
<1>10. CASE \/ Fire \/ Stop \/ CloseTakes \/ UNCHANGED vars
            \/ \E t \in fired : ExpireTakes(t)
            \/ \E s \in Sessions : BusFails(s)
  BY <1>1, <1>10 DEF Fire, Stop, CloseTakes, ExpireTakes, BusFails, vars
<1> QED
  BY <1>2, <1>3, <1>4, <1>5, <1>6, <1>7, <1>8, <1>9, <1>10
     DEF Next, Call, Idle, Close, Pedal!Next

\* The server's calls and idle closes do to the pedal only what Claim allows.
THEOREM Refinement == Spec => PedalSpec
<1>1. Init => Pedal!Init
  BY HoldAssumption DEF Init, Pedal!Init, Holder, Claimed, Using
<1> QED
  BY <1>1, StepRefines, Invariance, PTL DEF Spec, PedalSpec, Pedal!Spec
=============================================================================
