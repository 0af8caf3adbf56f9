--------------------------- MODULE ClientSessions ---------------------------
(***************************************************************************)
(* A Client and the Sessions it opens (pkg/sdk): any number of goroutines  *)
(* open sessions, run operations on them and close them.  A one-slot       *)
(* channel, claim, is held from before a session's device is opened until  *)
(* after it is closed; each session has a one-slot channel, the operation  *)
(* lock.  A caller waiting for either gives up when its context ends, save *)
(* Close, which has none.                                                  *)
(***************************************************************************)
EXTENDS Naturals, FiniteSets

CONSTANTS
  Procs,     \* goroutines using the client
  Sessions,  \* sessions it may come to open
  NoProc, NoSession

ASSUME ClientAssumption == NoProc \notin Procs /\ NoSession \notin Sessions

VARIABLES
  claim,   \* how many have the claim's one slot
  editor,  \* the device below each session
  op,      \* who holds each session's operation lock
  closed,  \* each session's closed flag
  pc, on   \* where each goroutine is, and on which session

vars == <<claim, editor, op, closed, pc, on>>

Places == {"idle", "claim", "handshake", "lock", "running",
           "closeLock", "closing", "unclaim"}

Init ==
  /\ claim = 0
  /\ editor = [s \in Sessions |-> "none"]
  /\ op = [s \in Sessions |-> NoProc]
  /\ closed = [s \in Sessions |-> FALSE]
  /\ pc = [p \in Procs |-> "idle"]
  /\ on = [p \in Procs |-> NoSession]

Go(p, to) == pc' = [pc EXCEPT ![p] = to]

\* The call returns.
Return(p) == Go(p, "idle") /\ on' = [on EXCEPT ![p] = NoSession]

-----------------------------------------------------------------------------
\* Open: wait for the claim, then claim and handshake.

OpenCall(p) ==
  /\ pc[p] = "idle"
  /\ Go(p, "claim")
  /\ UNCHANGED <<claim, editor, op, closed, on>>

\* Mutant: the claim is not waited for.
TakeUnclaimed(p, s) ==
  /\ pc[p] = "claim" /\ editor[s] = "none"
  /\ claim' = 1
  /\ Go(p, "handshake") /\ on' = [on EXCEPT ![p] = s]
  /\ UNCHANGED <<editor, op, closed>>

\* s is the session this will return, if the device opens.
TakeClaim(p, s) ==
  /\ pc[p] = "claim" /\ claim = 0
  /\ editor[s] = "none"
  /\ claim' = 1
  /\ Go(p, "handshake") /\ on' = [on EXCEPT ![p] = s]
  /\ UNCHANGED <<editor, op, closed>>

\* The device below has the interface before its handshake is over.
Handshake(p) ==
  /\ pc[p] = "handshake" /\ editor[on[p]] = "none"
  /\ editor' = [editor EXCEPT ![on[p]] = "open"]
  /\ UNCHANGED <<claim, op, closed, pc, on>>

Opened(p) ==
  /\ pc[p] = "handshake" /\ editor[on[p]] = "open"
  /\ Return(p)
  /\ UNCHANGED <<claim, editor, op, closed>>

\* Mutant: a failed open keeps the claim.
OpenFailsClaimed(p) ==
  /\ pc[p] = "handshake"
  /\ editor' = [editor EXCEPT ![on[p]] = "none"]
  /\ Return(p)
  /\ UNCHANGED <<claim, op, closed>>

\* Opening failed: the device gave back what it took, and so does the client.
OpenFails(p) ==
  /\ pc[p] = "handshake"
  /\ editor' = [editor EXCEPT ![on[p]] = "none"]
  /\ claim' = 0
  /\ Return(p)
  /\ UNCHANGED <<op, closed>>

\* Waiting for a slot, the caller's context ends.
GiveUp(p) ==
  /\ pc[p] \in {"claim", "lock"}
  /\ Return(p)
  /\ UNCHANGED <<claim, editor, op, closed>>

-----------------------------------------------------------------------------
\* An operation on a session Open returned, closed since or not.

Returned(s) ==
  /\ editor[s] # "none"
  /\ \A p \in Procs : ~(pc[p] = "handshake" /\ on[p] = s)

OperationCall(p, s) ==
  /\ pc[p] = "idle" /\ Returned(s)
  /\ Go(p, "lock") /\ on' = [on EXCEPT ![p] = s]
  /\ UNCHANGED <<claim, editor, op, closed>>

\* Mutant: closed is looked at before the wait, not under the lock.
LockUnlooked(p) ==
  /\ pc[p] = "lock" /\ op[on[p]] = NoProc
  /\ op' = [op EXCEPT ![on[p]] = p]
  /\ Go(p, "running")
  /\ UNCHANGED <<claim, editor, closed, on>>

Lock(p) ==
  /\ pc[p] = "lock" /\ op[on[p]] = NoProc /\ ~closed[on[p]]
  /\ op' = [op EXCEPT ![on[p]] = p]
  /\ Go(p, "running")
  /\ UNCHANGED <<claim, editor, closed, on>>

\* A closed session's lock is taken, looked under and given straight back.
LockClosed(p) ==
  /\ pc[p] = "lock" /\ op[on[p]] = NoProc /\ closed[on[p]]
  /\ Return(p)
  /\ UNCHANGED <<claim, editor, op, closed>>

\* The operation returns or panics: the unlock is deferred.
Unlock(p) ==
  /\ pc[p] = "running"
  /\ op' = [op EXCEPT ![on[p]] = NoProc]
  /\ Return(p)
  /\ UNCHANGED <<claim, editor, closed>>

-----------------------------------------------------------------------------
\* Close: take the lock with no budget, close the device, give the claim back.

CloseCall(p, s) ==
  /\ pc[p] = "idle" /\ Returned(s)
  /\ Go(p, "closeLock") /\ on' = [on EXCEPT ![p] = s]
  /\ UNCHANGED <<claim, editor, op, closed>>

\* Mutant: closed is looked at before the lock is taken, by whoever comes.
CloseUnlocked(p) ==
  /\ pc[p] = "closeLock" /\ ~closed[on[p]]
  /\ op' = [op EXCEPT ![on[p]] = p]
  /\ closed' = [closed EXCEPT ![on[p]] = TRUE]
  /\ Go(p, "closing")
  /\ UNCHANGED <<claim, editor, on>>

LockClose(p) ==
  /\ pc[p] = "closeLock" /\ op[on[p]] = NoProc /\ ~closed[on[p]]
  /\ op' = [op EXCEPT ![on[p]] = p]
  /\ closed' = [closed EXCEPT ![on[p]] = TRUE]
  /\ Go(p, "closing")
  /\ UNCHANGED <<claim, editor, on>>

CloseAgain(p) ==
  /\ pc[p] = "closeLock" /\ op[on[p]] = NoProc /\ closed[on[p]]
  /\ Return(p)
  /\ UNCHANGED <<claim, editor, op, closed>>

CloseEditor(p) ==
  /\ pc[p] = "closing"
  /\ editor' = [editor EXCEPT ![on[p]] = "closed"]
  /\ Go(p, "unclaim")
  /\ UNCHANGED <<claim, op, closed, on>>

\* Mutant: the lock of a closed session is not given back.
GiveClaimOnly(p) ==
  /\ pc[p] = "unclaim"
  /\ claim' = 0
  /\ Return(p)
  /\ UNCHANGED <<editor, op, closed>>

GiveClaimBack(p) ==
  /\ pc[p] = "unclaim"
  /\ claim' = 0
  /\ op' = [op EXCEPT ![on[p]] = NoProc]
  /\ Return(p)
  /\ UNCHANGED <<editor, closed>>

-----------------------------------------------------------------------------
Open(p) == OpenCall(p) \/ Handshake(p) \/ Opened(p) \/ OpenFails(p)

Operate(p) == Lock(p) \/ LockClosed(p) \/ Unlock(p)

Close(p) ==
  LockClose(p) \/ CloseAgain(p) \/ CloseEditor(p) \/ GiveClaimBack(p)

Next ==
  \E p \in Procs :
    \/ Open(p) \/ Operate(p) \/ Close(p) \/ GiveUp(p)
    \/ \E s \in Sessions :
         TakeClaim(p, s) \/ OperationCall(p, s) \/ CloseCall(p, s)

Spec == Init /\ [][Next]_vars

\* Every exchange with the device is bounded, so what holds a lock lets it go;
\* a channel serves those waiting on it in the order they came.  Nobody has to
\* call anything.
Fairness ==
  \A p \in Procs :
    /\ WF_vars(Handshake(p) \/ Opened(p)) /\ WF_vars(Unlock(p))
    /\ WF_vars(CloseEditor(p) \/ GiveClaimBack(p))
    /\ SF_vars(Lock(p) \/ LockClosed(p)) /\ SF_vars(LockClose(p) \/ CloseAgain(p))

FairSpec == Spec /\ Fairness

-----------------------------------------------------------------------------
\* Every variable holds a value of its type.
TypeOK ==
  /\ claim \in 0..1
  /\ editor \in [Sessions -> {"none", "open", "closed"}]
  /\ op \in [Sessions -> Procs \cup {NoProc}]
  /\ closed \in [Sessions -> BOOLEAN]
  /\ pc \in [Procs -> Places]
  /\ on \in [Procs -> Sessions \cup {NoSession}]
  /\ \A p \in Procs : on[p] = NoSession <=> pc[p] \in {"idle", "claim"}

\* Two claims of one editor interface are what leaves a pedal needing a power
\* cycle: whatever goroutines open and close at once, at most one session of a
\* client has the interface (Open's comment).
OneEditor ==
  \A s, t \in Sessions : editor[s] = "open" /\ editor[t] = "open" => s = t

\* Nothing lands between the exchanges of an operation: whoever is inside one,
\* or inside Close, is alone on that session (Session's comment).
InSession == {"running", "closing", "unclaim"}
Alone ==
  \A p, q \in Procs :
    pc[p] \in InSession /\ pc[q] \in InSession /\ on[p] = on[q] => p = q

\* An operation never runs on a device that has been let go, nor on one that
\* is going: Close waited for it.
RunsOnOpenEditor ==
  \A p \in Procs :
    pc[p] = "running" => editor[on[p]] = "open" /\ ~closed[on[p]]

\* The claim is held exactly while a device is open, opening or closing: it is
\* neither leaked by a failed open nor given back twice.
Claimed ==
  \/ \E s \in Sessions : editor[s] = "open"
  \/ \E p \in Procs : pc[p] \in {"handshake", "unclaim"}
ClaimNotLeaked == claim = 1 <=> Claimed

\* Close always comes to an end, whoever else is waiting for the session.
CloseReturns ==
  \A p \in Procs : pc[p] \in {"closeLock", "closing", "unclaim"} ~> pc[p] = "idle"

-----------------------------------------------------------------------------
\* The pedal sees one claim at a time.
HoldingNow == {s \in Sessions : editor[s] = "open"}
Holder == IF HoldingNow = {} THEN NoSession ELSE CHOOSE s \in HoldingNow : TRUE
Using == \E p \in Procs : pc[p] = "running"

Pedal == INSTANCE Claim WITH holder <- Holder, using <- Using

\* What a client does to the pedal is what Claim allows.
PedalSpec == Pedal!Spec
=============================================================================
