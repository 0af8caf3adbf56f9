----------------------------- MODULE PedalHold -----------------------------
(***************************************************************************)
(* The MCP server's hold on the pedal (pkg/mcp/internal/tools/pedal.go,    *)
(* pkg/mcp/held.go): tool calls share one Session, kept between calls      *)
(* until an idle timer, a bus error, a panic or the server's stop lets it  *)
(* go.  Everything but the timers' firing runs under a one-slot lock.  A   *)
(* timer that has fired is a goroutine waiting for that lock; stopping the *)
(* timer no longer stops it.                                               *)
(***************************************************************************)
EXTENDS Naturals, FiniteSets

CONSTANTS
  Callers,   \* handlers running tool calls
  Sessions,  \* sessions that may come to be opened
  NoSession,
  Timer, Server, Nobody, \* who else may hold the lock
  MaxCalls   \* bound: device calls made that reach the session

ASSUME HoldAssumption ==
  /\ IsFiniteSet(Callers)
  /\ NoSession \notin Sessions
  /\ Callers \cap {Timer, Server, Nobody} = {}
  /\ Timer # Server /\ Timer # Nobody /\ Server # Nobody
  /\ MaxCalls \in Nat

VARIABLES
  lock,     \* who holds the pedal
  session,  \* the session held between calls
  timer,    \* the idle close running, if any
  fired,    \* idle closes that fired and wait for the lock
  expiring, \* the one that has the lock
  armed,    \* every arming and disarming, counted
  closed,   \* the server has let the pedal go for good
  held,     \* sessions counted open, for Held
  bus,      \* each session: none, open, dead (its loop ended) or closed
  failed,   \* sessions whose call panicked or reported the bus
  hit,      \* the session each caller's panic was in
  pc,       \* where each caller is
  server,   \* where the server is
  calls     \* device calls that have reached the session

vars == <<lock, session, timer, fired, expiring, armed, closed, held, bus,
          failed, hit, pc, server, calls>>

timers == <<timer, fired, expiring, armed>>
hold   == <<session, held, bus>>

\* An idle close: the count it was armed at, and the call that armed it.
NoTimer == [n |-> 0, call |-> 0]

Init ==
  /\ lock = Nobody
  /\ session = NoSession
  /\ timer = NoTimer /\ fired = {} /\ expiring = NoTimer
  /\ armed = 0
  /\ closed = FALSE
  /\ held = 0
  /\ bus = [s \in Sessions |-> "none"] /\ failed = {}
  /\ hit = [p \in Callers |-> NoSession]
  /\ pc = [p \in Callers |-> "idle"]
  /\ server = "serving"
  /\ calls = 0

Go(p, from, to) == pc[p] = from /\ pc' = [pc EXCEPT ![p] = to]

Give == lock' = Nobody

-----------------------------------------------------------------------------
\* Taking the pedal for a call.

\* A tool call arrives: one on the session, or one that lists the bus.
Coming == {p \in Callers : pc[p] \in {"device", "opening", "disarm"}}

Arrive(p) ==
  /\ \/ Go(p, "idle", "device") /\ calls + Cardinality(Coming) < MaxCalls
     \/ Go(p, "idle", "list")
  /\ UNCHANGED <<lock, timers, closed, hold, failed, hit, server, calls>>

\* Its context ends first.
GiveUp(p) ==
  /\ Go(p, "device", "idle") \/ Go(p, "list", "idle")
  /\ UNCHANGED <<lock, timers, closed, hold, failed, hit, server, calls>>

\* Mutant: the lock is not looked at.
TakeUnlocked(p) == ~closed /\ lock' = p

Take(p) == lock = Nobody /\ ~closed /\ lock' = p

\* The server has stopped: the lock is given straight back.
Refused(p) ==
  /\ lock = Nobody /\ closed
  /\ Go(p, "device", "idle") \/ Go(p, "list", "idle")
  /\ UNCHANGED <<lock, timers, closed, hold, failed, hit, server, calls>>

TakeToList(p) ==
  /\ Take(p) /\ Go(p, "list", "listing")
  /\ UNCHANGED <<timers, closed, hold, failed, hit, server, calls>>

Listed(p) ==
  /\ Go(p, "listing", "idle") /\ Give
  /\ UNCHANGED <<timers, closed, hold, failed, hit, server, calls>>

TakeToCall(p) ==
  /\ Take(p) /\ session # NoSession
  /\ Go(p, "device", "disarm")
  /\ UNCHANGED <<timers, closed, hold, failed, hit, server, calls>>

\* None is held: one is opened, counted from before the claim.
TakeToOpen(p) ==
  /\ Take(p) /\ session = NoSession
  /\ Go(p, "device", "opening")
  /\ held' = held + 1
  /\ UNCHANGED <<timers, closed, session, bus, failed, hit, server, calls>>

Opened(p, s) ==
  /\ Go(p, "opening", "disarm")
  /\ bus[s] = "none" /\ bus' = [bus EXCEPT ![s] = "open"]
  /\ session' = s
  /\ UNCHANGED <<lock, timers, closed, held, failed, hit, server, calls>>

OpenFails(p) ==
  /\ Go(p, "opening", "idle") /\ Give
  /\ held' = held - 1
  /\ UNCHANGED <<timers, closed, session, bus, failed, hit, server, calls>>

-----------------------------------------------------------------------------
\* The call, between disarming the idle close and arming the next.

\* Stopping a timer that has fired stops nothing; counting does.
Disarm == armed' = armed + 1 /\ timer' = NoTimer /\ UNCHANGED fired

StartCall(p) ==
  /\ Go(p, "disarm", "calling")
  /\ calls' = calls + 1
  /\ Disarm /\ UNCHANGED expiring
  /\ UNCHANGED <<lock, closed, hold, failed, hit, server>>

\* The read loop of an open session ends, in a call or between calls.
BusFails(s) ==
  /\ bus[s] = "open" /\ bus' = [bus EXCEPT ![s] = "dead"]
  /\ UNCHANGED <<lock, timers, closed, session, held, failed, hit, pc, server, calls>>

\* It succeeds or fails otherwise: a session that has ended fails only the
\* calls that reach the bus.
Returns(p) ==
  /\ Go(p, "calling", "arm")
  /\ UNCHANGED <<lock, timers, closed, hold, failed, hit, server, calls>>

\* A read or a write the bus refused, whether or not the loop ended with it.
ReturnsErrBus(p) ==
  /\ Go(p, "calling", "release")
  /\ failed' = failed \cup {session}
  /\ UNCHANGED <<lock, timers, closed, hold, hit, server, calls>>

\* Mutant: the handler's panic is not recovered to let go.
PanicsThrough(p) ==
  /\ Go(p, "calling", "armToCrash")
  /\ failed' = failed \cup {session} /\ hit' = [hit EXCEPT ![p] = session]
  /\ UNCHANGED <<lock, timers, closed, hold, server, calls>>

Panics(p) ==
  /\ Go(p, "calling", "releaseToCrash")
  /\ failed' = failed \cup {session} /\ hit' = [hit EXCEPT ![p] = session]
  /\ UNCHANGED <<lock, timers, closed, hold, server, calls>>

\* Close the held session, if there is one: no longer counted, no longer held.
Release ==
  /\ session' = NoSession
  /\ IF session = NoSession THEN UNCHANGED <<held, bus>>
     ELSE held' = held - 1 /\ bus' = [bus EXCEPT ![session] = "closed"]

ReleaseAfterCall(p) ==
  /\ Go(p, "release", "arm") \/ Go(p, "releaseToCrash", "armToCrash")
  /\ Release
  /\ UNCHANGED <<lock, timers, closed, failed, hit, server, calls>>

\* Mutant: a call that failed leaves no idle close behind.
ArmAfterSuccess ==
  IF session = NoSession \/ bus[session] = "dead" THEN UNCHANGED <<timer, armed>>
  ELSE /\ armed' = armed + 1
       /\ timer' = [n |-> armed + 1, call |-> calls]

\* Nothing held, nothing to arm.
Arm ==
  IF session = NoSession THEN UNCHANGED <<timer, armed>>
  ELSE /\ armed' = armed + 1
       /\ timer' = [n |-> armed + 1, call |-> calls]

EndCall(p) ==
  /\ Go(p, "arm", "idle") \/ Go(p, "armToCrash", "crash")
  /\ Arm /\ Give
  /\ UNCHANGED <<fired, expiring, closed, hold, failed, hit, server, calls>>

\* The panic carries on once the deferred calls have run, the lock's among
\* them, and the process dies.
Crash(p) ==
  /\ pc[p] = "crash"
  /\ pc' = [q \in Callers |-> "dead"]
  /\ server' = "dead"
  /\ timer' = NoTimer /\ fired' = {} /\ expiring' = NoTimer
  /\ Give
  /\ UNCHANGED <<armed, closed, hold, failed, hit, calls>>

-----------------------------------------------------------------------------
\* The idle close.

Fire ==
  /\ timer # NoTimer
  /\ fired' = fired \cup {timer} /\ timer' = NoTimer
  /\ UNCHANGED <<lock, expiring, armed, closed, hold, failed, hit, pc, server, calls>>

\* One that fired gets the lock, late or not.
ExpireTakes(t) ==
  /\ lock = Nobody /\ t \in fired
  /\ lock' = Timer
  /\ fired' = fired \ {t} /\ expiring' = t
  /\ UNCHANGED <<timer, armed, closed, hold, failed, hit, pc, server, calls>>

\* Mutant: a timer that fired always lets go.
ExpireAnyway ==
  /\ lock = Timer
  /\ Release /\ Give
  /\ expiring' = NoTimer
  /\ UNCHANGED <<timer, fired, armed, closed, failed, hit, pc, server, calls>>

\* It lets go only if nothing was armed or disarmed since.
Expire ==
  /\ lock = Timer
  /\ IF expiring.n = armed THEN Release ELSE UNCHANGED hold
  /\ expiring' = NoTimer /\ Give
  /\ UNCHANGED <<timer, fired, armed, closed, failed, hit, pc, server, calls>>

-----------------------------------------------------------------------------
\* The server stops: its pedal is closed for good.

Stop ==
  /\ server = "serving" /\ server' = "stopping"
  /\ UNCHANGED <<lock, timers, closed, hold, failed, hit, pc, calls>>

CloseTakes ==
  /\ server = "stopping" /\ lock = Nobody
  /\ lock' = Server
  /\ server' = "closing"
  /\ UNCHANGED <<timers, closed, hold, failed, hit, pc, calls>>

\* Mutant: the lock is not given back.
ClosePedalKeeps ==
  /\ server = "closing" /\ server' = "stopped"
  /\ closed' = TRUE
  /\ Disarm /\ Release
  /\ UNCHANGED <<lock, expiring, failed, hit, pc, calls>>

ClosePedal ==
  /\ server = "closing" /\ server' = "stopped"
  /\ closed' = TRUE
  /\ Disarm /\ Release /\ Give
  /\ UNCHANGED <<expiring, failed, hit, pc, calls>>

-----------------------------------------------------------------------------
Call(p) ==
  \/ Refused(p) \/ TakeToList(p) \/ Listed(p) \/ TakeToCall(p) \/ TakeToOpen(p)
  \/ OpenFails(p) \/ StartCall(p) \/ Returns(p) \/ ReturnsErrBus(p) \/ Panics(p)
  \/ ReleaseAfterCall(p) \/ EndCall(p) \/ Crash(p)
  \/ \E s \in Sessions : Opened(p, s)

Idle == Fire \/ Expire \/ \E t \in fired : ExpireTakes(t)

Close == CloseTakes \/ ClosePedal

Next ==
  \/ \E p \in Callers : Arrive(p) \/ GiveUp(p) \/ Call(p)
  \/ Idle
  \/ Stop \/ Close
  \/ server # "dead" /\ \E s \in Sessions : BusFails(s)

Spec == Init /\ [][Next]_vars

\* Every exchange with the device is bounded, so a call under way ends; timers
\* fire; a channel serves those waiting on it in order.  No call need come.
Fairness ==
  /\ \A p \in Callers :
       /\ WF_vars(Call(p) /\ lock = p) /\ WF_vars(Crash(p))
       /\ SF_vars(TakeToList(p) \/ TakeToCall(p) \/ TakeToOpen(p) \/ Refused(p))
  /\ WF_vars(Fire) /\ WF_vars(Expire)
  /\ \A n \in 1..(2 * MaxCalls) : SF_vars(\E t \in fired : t.n = n /\ ExpireTakes(t))
  /\ SF_vars(CloseTakes) /\ WF_vars(ClosePedal)

FairSpec == Spec /\ Fairness

-----------------------------------------------------------------------------
Counts == 0..(2 * MaxCalls + 1)
Timers == [n : Counts, call : 0..MaxCalls]

Places == {"idle", "device", "list", "listing", "opening", "disarm", "calling",
           "release", "releaseToCrash", "arm", "armToCrash", "crash", "dead"}

\* Every variable holds a value of its type.
TypeOK ==
  /\ lock \in Callers \cup {Timer, Server, Nobody}
  /\ session \in Sessions \cup {NoSession}
  /\ timer \in Timers /\ fired \subseteq Timers /\ expiring \in Timers
  /\ armed \in Counts
  /\ closed \in BOOLEAN
  /\ held \in 0..1
  /\ bus \in [Sessions -> {"none", "open", "dead", "closed"}]
  /\ failed \subseteq Sessions
  /\ hit \in [Callers -> Sessions \cup {NoSession}]
  /\ pc \in [Callers -> Places]
  /\ server \in {"serving", "stopping", "closing", "stopped", "dead"}
  /\ calls \in 0..MaxCalls

Claimed == {s \in Sessions : bus[s] \in {"open", "dead"}}

\* Nothing is left holding the pedal, and nothing broken is held.  A session
\* is opened only once the one before is closed, as Client.Open would wait for
\* itself, and none stays open that is not held; no call is handed a session
\* whose last call reported the bus or panicked, partway through an exchange;
\* once the server has let the pedal go nothing holds it or opens it again,
\* whatever calls and idle closes were waiting (Close, locked); a handler's
\* panic has closed the session it was in before it carries on to kill the
\* process, whoever else gets the pedal on the way (onPedal); and Held, which
\* an interrupt waits on, counts a session exactly while it is open or being
\* opened (held.go).
OpeningNow == {p \in Callers : pc[p] = "opening"}
NothingLeftHeld ==
  /\ Claimed \subseteq {session}
  /\ \A p \in Callers : pc[p] = "opening" => Claimed = {}
  /\ \A p \in Callers : pc[p] = "calling" => session \notin failed
  /\ server = "stopped" => Claimed = {} /\ held = 0
  /\ \A p \in Callers : pc[p] = "crash" => bus[hit[p]] = "closed"
  /\ server # "dead" => held = Cardinality(Claimed) + Cardinality(OpeningNow)

\* An idle close that fired late leaves alone a session that a later call has
\* used (armed's comment), and never lands inside a call.
IdleCloseOnlyWhenIdle ==
  [][\A s \in Sessions :
       lock = Timer /\ bus[s] # "closed" /\ bus'[s] = "closed" =>
         expiring.call = calls]_vars

\* Once calls stop coming, the pedal is let go without anyone asking.
LetGoWhenIdle == session # NoSession ~> (session = NoSession \/ server = "dead")

\* Nobody waits for the pedal for ever: the server's stop is never stuck behind
\* a call or an idle close, and a call waiting for the pedal is answered.
NobodyStuck ==
  /\ server \in {"stopping", "closing"} ~> server \in {"stopped", "dead"}
  /\ \A p \in Callers : pc[p] \in {"device", "list"} ~> pc[p] \in {"idle", "dead"}

-----------------------------------------------------------------------------
\* What the server does to the pedal is what Claim allows.
Holder == IF Claimed = {} THEN NoSession ELSE session
Using == \E p \in Callers : pc[p] = "calling"

Pedal == INSTANCE Claim WITH holder <- Holder, using <- Using

PedalSpec == Pedal!Spec
=============================================================================
