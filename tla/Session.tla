------------------------------ MODULE Session ------------------------------
(***************************************************************************)
(* One open conversation with a pedal (pkg/sdk/internal/device), from the  *)
(* end of the handshake until Close has let the USB interface go.          *)
(*                                                                         *)
(* Three goroutines share the session: the read loop, the acknowledger     *)
(* and whoever runs an operation (Call, a slot write or Close, one at a    *)
(* time).  They meet at two locks.  A step that only runs under the        *)
(* receive lock is one action; the send lock is held across two steps by   *)
(* the acknowledger alone, so it is held exactly when ack.pc = "decided".  *)
(*                                                                         *)
(* Stream bytes are counted in frames: every frame's payload weighs 1, and *)
(* the counters wrap at CtrMod where the code's wrap at 2^16 and 2^32.     *)
(* The pedal is external: it is modelled from what the code relies on.     *)
(***************************************************************************)
EXTENDS Naturals, Sequences, FiniteSets

CONSTANTS
  ChannelOrder,   \* the open channels, in the order they were opened
  Chunks,         \* frames one slot write is streamed in
  ReplyFrames,    \* frames one reply is split across
  Window,         \* stream frames the pedal sends unacknowledged
  DrainQuietRuns, \* quiet reads in a row that end a drain
  CtrMod,         \* where the frame counters wrap
  Faults,         \* what may go wrong, a subset of FaultKinds
  MaxFaults,      \* bound: how many times something goes wrong
  MaxOps,         \* bound: calls and writes begun
  MaxNotices      \* bound: frames the pedal sends unasked

Channels == {ChannelOrder[i] : i \in DOMAIN ChannelOrder}

\* cancel: the caller's context ends. expire: a budget runs out.
\* readfail, sendfail, midfail: the bus fails a read, a frame, or a chunk
\* with part of its message already gone.  startfail: it reports the first
\* chunk of a message as failed, and the chunk has landed.
FaultKinds == {"cancel", "expire", "readfail", "sendfail", "midfail", "startfail"}

ASSUME SessionAssumption ==
  /\ ChannelOrder \in Seq({"control", "events", "data"})
  /\ "data" \in Channels
  /\ Chunks \in Nat \ {0}
  /\ ReplyFrames \in Nat \ {0}
  /\ Window \in Nat \ {0}
  /\ CtrMod \in Nat /\ CtrMod > Window
  /\ DrainQuietRuns \in Nat \ {0}
  /\ Faults \subseteq FaultKinds
  /\ MaxFaults \in Nat /\ MaxOps \in Nat /\ MaxNotices \in Nat

VARIABLES
  seq, txn, rxBytes, ackSent, lastAck, buf, arrived, \* per channel
  inflight, closing, dead, stopped, released,
  quiet,     \* reads in a row, since a drain began, that brought nothing
  op,        \* the operation under way, and where its goroutine is
  cancelled, \* the context of the operation under way has ended
  loop,      \* the read loop: "reading" or "gone"
  ack,       \* the acknowledger: where it is, and at which channel
  toDev, toHost,                                     \* the two endpoints
  devSeq, taken, devAck, hostAck, sent, pend, half,  \* the pedal
  garbled,   \* the pedal was fed a request in the middle of a message
  abandoned, \* an exchange was given up before its answer was read
  ops, faults, notices

counters == <<ops, faults, notices>>
pedal    == <<devSeq, taken, devAck, hostAck, sent, pend, half, garbled>>
receive  == <<rxBytes, lastAck, buf, arrived>>
flags    == <<closing, dead, stopped, released>>
outgoing == <<seq, ackSent, toDev>>
vars     == <<counters, pedal, receive, quiet, flags, outgoing, txn, inflight, op,
              cancelled, loop, ack, toHost, abandoned>>

NoAck  == CtrMod   \* not a counter value: no acknowledgement yet
Notice == 0        \* the transaction a notification answers: none
NoTxn  == 0

Inc(n) == (n + 1) % CtrMod
Capped(n) == IF n < DrainQuietRuns THEN n + 1 ELSE DrainQuietRuns

Idle == [kind |-> "none", pc |-> "idle", ch |-> "data", txn |-> NoTxn,
         left |-> 0, moved |-> FALSE, owed |-> FALSE, at |-> 0]

Pieces(t, n) == [i \in 1..n |-> [txn |-> t, part |-> i, last |-> i = n]]

Init ==
  /\ seq     = [c \in Channels |-> 0]
  /\ txn     = [c \in Channels |-> 1]
  /\ rxBytes = [c \in Channels |-> 0]
  /\ ackSent = [c \in Channels |-> 0]
  /\ lastAck = [c \in Channels |-> NoAck]
  /\ buf     = [c \in Channels |-> <<>>]
  /\ arrived = [c \in Channels |-> FALSE]
  /\ inflight = 0
  /\ closing = FALSE /\ dead = FALSE /\ stopped = FALSE /\ released = FALSE
  /\ quiet = 0
  /\ op = Idle /\ cancelled = FALSE
  /\ loop = "reading"
  /\ ack = [pc |-> "select", ch |-> "data"]
  /\ toDev = <<>> /\ toHost = <<>>
  /\ devSeq  = [c \in Channels |-> 0]
  /\ taken   = [c \in Channels |-> 0]
  /\ devAck  = [c \in Channels |-> NoAck]
  /\ hostAck = [c \in Channels |-> 0]
  /\ sent    = [c \in Channels |-> 0]
  /\ pend    = [c \in Channels |-> <<>>]
  /\ half    = [c \in Channels |-> NoTxn]
  /\ garbled = FALSE /\ abandoned = FALSE
  /\ ops = 0 /\ faults = 0 /\ notices = 0

-----------------------------------------------------------------------------
\* Sending a frame, and what can go wrong.

SendMuFree == ack.pc # "decided"

\* A frame leaves: it carries the next number and acknowledges every stream
\* frame routed by now.
Leaves(c, kind, t, last, failed) ==
  toDev' = Append(toDev, [ch |-> c, kind |-> kind, seq |-> seq[c],
                          ack |-> rxBytes[c], txn |-> t, last |-> last,
                          failed |-> failed])

Send(c, kind, t, last) ==
  /\ Leaves(c, kind, t, last, FALSE)
  /\ ackSent' = [ackSent EXCEPT ![c] = rxBytes[c]]
  /\ seq' = [seq EXCEPT ![c] = Inc(@)]

\* Mutant: the number of a frame that never left is spent.
SendFailsCounted(c, kind, t, last) ==
  /\ seq' = [seq EXCEPT ![c] = Inc(@)]
  /\ UNCHANGED <<ackSent, toDev>>

\* The bus reports a frame as failed, which changes nothing here; one that was
\* not taken in time may have landed all the same.
SendFails(c, kind, t, last) ==
  /\ UNCHANGED <<seq, ackSent>>
  /\ UNCHANGED toDev \/ Leaves(c, kind, t, last, TRUE)

Landed == toDev' # toDev

Fault(kind) ==
  /\ kind \in Faults
  /\ faults < MaxFaults
  /\ faults' = faults + 1
  /\ UNCHANGED <<ops, notices>>

-----------------------------------------------------------------------------
\* Envelopes in a channel's buffer.

\* Where the complete envelopes of b end: all after it is a partial one.
WholeEnd(b) ==
  LET ends == {i \in DOMAIN b : b[i].last}
  IN IF ends = {} THEN 0 ELSE CHOOSE i \in ends : \A j \in ends : j <= i

\* Where the first complete envelope answering t ends, 0 if none does.
AnswerEnd(b, t) ==
  LET ends == {i \in DOMAIN b : b[i].last /\ b[i].txn = t}
  IN IF ends = {} THEN 0 ELSE CHOOSE i \in ends : \A j \in ends : i <= j

\* Mutant: a partial envelope is dropped with the whole ones.
DropEverything(b) == <<>>

DropMessages(b) == SubSeq(b, WholeEnd(b) + 1, Len(b))

Owed(c) == rxBytes[c] # ackSent[c]

-----------------------------------------------------------------------------
\* The read loop.

Draining == op.pc \in {"drain", "drainAgain"}
Streaming == op.pc \in {"chunk", "pace"}

\* A read finished.  A drain counts the quiet ones since it began: its two
\* tests, on the quiet run and on the reads since it began, come to that.
Tick(carried) ==
  quiet' = IF carried \/ ~Draining THEN 0 ELSE Capped(quiet)

\* An acknowledgement of the pedal's own that moved since the last one: the
\* values are only ever compared for change.
Moves(f) == f.ack # NoAck /\ f.ack # lastAck[f.ch]

\* Mutant: any frame from the pedal releases the next chunk.
PacesOnAnything(f) == Streaming

\* What a chunk's pace waits for.
Paces(f) == Moves(f) /\ f.ch = "data" /\ Streaming

\* One read that brought a frame: deliver routes it, then tick counts it.
ReadFrame ==
  /\ loop = "reading" /\ toHost # <<>>
  /\ LET f == Head(toHost)
         c == f.ch
         carried == f.data # <<>>
     IN /\ toHost' = Tail(toHost)
        /\ lastAck' = [lastAck EXCEPT ![c] = IF Moves(f) THEN f.ack ELSE @]
        /\ op' = [op EXCEPT !.moved = @ \/ Paces(f)]
        /\ rxBytes' = [rxBytes EXCEPT ![c] = IF carried THEN Inc(@) ELSE @]
        /\ buf' = [buf EXCEPT ![c] = IF c = "events" THEN @ ELSE @ \o f.data]
        /\ arrived' = [arrived EXCEPT ![c] = @ \/ carried]
        /\ Tick(carried)
  /\ UNCHANGED <<counters, pedal, flags, outgoing, txn, inflight, cancelled,
                 loop, ack, abandoned>>

\* A read that timed out with nothing: quiet, not a failure.
ReadNothing ==
  /\ loop = "reading" /\ toHost = <<>>
  /\ Tick(FALSE)
  /\ UNCHANGED <<counters, pedal, flags, outgoing, receive, txn, inflight, op,
                 cancelled, loop, ack, toHost, abandoned>>

\* Any other read error, or a panic, is the bus: the session ends.
ReadFails ==
  /\ loop = "reading" /\ ~stopped
  /\ Fault("readfail")
  /\ loop' = "gone" /\ dead' = TRUE
  /\ UNCHANGED <<pedal, closing, stopped, released, outgoing, receive, txn,
                 inflight, op, cancelled, ack, toHost, abandoned, quiet>>

\* The loop leaves once Close has stopped it; pace may have ended the session
\* without stopping it.
LoopStops ==
  /\ loop = "reading" /\ stopped
  /\ loop' = "gone"
  /\ UNCHANGED <<counters, pedal, flags, outgoing, receive, txn, inflight, op,
                 cancelled, ack, toHost, abandoned, quiet>>

-----------------------------------------------------------------------------
\* The acknowledger.  Every finished read pokes it into a round over the open
\* channels, and reads never stop finishing: at any moment it may look at any
\* channel, and one it finds not due it leaves alone.

\* Mutants: an exchange under way is not looked at; only what is buffered is
\* owed, and the events channel buffers nothing.
IdleDueBusy(c) == ~closing /\ Owed(c)
IdleDueBuffered(c) == ~closing /\ inflight = 0 /\ Owed(c) /\ buf[c] # <<>>

\* Whether long enough has passed since bytes arrived is left open: any
\* channel that owes may be due.
IdleDue(c) == ~closing /\ inflight = 0 /\ Owed(c)

\* Mutant: Close stops the loop and leaves the acknowledger selecting.
AckLeavesDead ==
  /\ ack.pc = "select" /\ dead
  /\ ack' = [ack EXCEPT !.pc = "gone"]
  /\ UNCHANGED <<counters, pedal, flags, outgoing, receive, txn, inflight, op,
                 cancelled, loop, toHost, abandoned, quiet>>

AckLeaves ==
  /\ ack.pc = "select" /\ (stopped \/ dead)
  /\ ack' = [ack EXCEPT !.pc = "gone"]
  /\ UNCHANGED <<counters, pedal, flags, outgoing, receive, txn, inflight, op,
                 cancelled, loop, toHost, abandoned, quiet>>

\* The send lock is taken, the channel found due, and what nobody asked for
\* dropped; the frame itself is a later step, with the lock still held.
AckDecides(c) ==
  /\ ack.pc = "select" /\ IdleDue(c)
  /\ buf' = [buf EXCEPT ![c] = DropMessages(@)]
  /\ ack' = [pc |-> "decided", ch |-> c]
  /\ UNCHANGED <<counters, pedal, flags, outgoing, rxBytes, lastAck, arrived,
                 txn, inflight, op, cancelled, loop, toHost, abandoned, quiet>>

AckSends ==
  /\ ack.pc = "decided"
  /\ \/ Send(ack.ch, "ack", NoTxn, TRUE) /\ UNCHANGED counters
     \/ Fault("sendfail") /\ SendFails(ack.ch, "ack", NoTxn, TRUE)
  /\ ack' = [pc |-> "select", ch |-> "data"]
  /\ UNCHANGED <<pedal, flags, receive, txn, inflight, op, cancelled, loop,
                 toHost, abandoned, quiet>>

-----------------------------------------------------------------------------
\* An operation.  It is over when it is back at Idle, no longer in flight.

Finish ==
  /\ op' = Idle
  /\ inflight' = inflight - 1
  /\ cancelled' = FALSE

\* A call or a write starts, unless the session has ended.  A write looks at
\* its context first and never again.
Begin(kind, c) ==
  /\ op.pc = "idle" /\ ~closing /\ ~dead
  /\ ops < MaxOps
  /\ ops' = ops + 1
  /\ inflight' = inflight + 1
  /\ op' = [Idle EXCEPT !.kind = kind, !.ch = c, !.txn = txn[c],
                        !.left = Chunks,
                        !.pc = IF kind = "write" THEN "mark" ELSE "request"]
  /\ txn' = [txn EXCEPT ![c] = @ + 1]
  /\ UNCHANGED <<faults, notices, pedal, flags, outgoing, receive, cancelled,
                 loop, ack, toHost, abandoned, quiet>>

BeginCall == \E c \in Channels \ {"events"} : Begin("call", c)
BeginWrite == Begin("write", "data")

\* The caller stops waiting.
Cancel ==
  /\ op.kind = "call" /\ ~cancelled
  /\ Fault("cancel")
  /\ cancelled' = TRUE
  /\ UNCHANGED <<pedal, flags, outgoing, receive, txn, inflight, op, loop, ack,
                 toHost, abandoned, quiet>>

SendRequest ==
  /\ op.pc = "request" /\ SendMuFree
  /\ \/ /\ Send(op.ch, "data", op.txn, TRUE)
        /\ op' = [op EXCEPT !.pc = "look"]
        /\ UNCHANGED <<counters, inflight, cancelled, abandoned>>
     \/ /\ Fault("sendfail") /\ SendFails(op.ch, "data", op.txn, TRUE) /\ Finish
        /\ abandoned' = (abandoned \/ Landed)
  /\ UNCHANGED <<pedal, flags, receive, txn, loop, ack, toHost, quiet>>

-----------------------------------------------------------------------------
\* A write's stream: mark, send a chunk, wait for the pedal's own
\* acknowledgement on the data channel to move past the mark.

MarkChunk ==
  /\ op.pc = "mark"
  /\ op' = [op EXCEPT !.pc = "chunk", !.moved = FALSE]
  /\ UNCHANGED <<counters, pedal, flags, outgoing, receive, txn, inflight, cancelled, loop, ack, toHost,
                 abandoned, quiet>>

\* Between chunks the stream paces; after the last one it waits for the answer.
SendChunk ==
  /\ op.pc = "chunk" /\ SendMuFree
  /\ \/ /\ Send("data", "data", op.txn, op.left = 1)
        /\ op' = [op EXCEPT !.left = @ - 1,
                            !.pc = IF op.left = 1 THEN "look" ELSE "pace"]
        /\ UNCHANGED <<counters, inflight, cancelled, abandoned>>
     \/ /\ SendFails("data", "data", op.txn, op.left = 1) /\ Finish
        /\ Fault(IF op.left < Chunks THEN "midfail"
                 ELSE IF Landed THEN "startfail" ELSE "sendfail")
        /\ abandoned' = (abandoned \/ Landed)
  /\ UNCHANGED <<pedal, flags, receive, txn, loop, ack, toHost, quiet>>

PaceAcked ==
  /\ op.pc = "pace" /\ ~dead /\ op.moved
  /\ op' = [op EXCEPT !.pc = "mark"]
  /\ UNCHANGED <<counters, pedal, flags, outgoing, receive, txn, inflight,
                 cancelled, loop, ack, toHost, abandoned, quiet>>

PaceDead ==
  /\ op.pc = "pace" /\ dead
  /\ Finish
  /\ UNCHANGED <<counters, pedal, flags, outgoing, receive, txn, loop, ack,
                 toHost, abandoned, quiet>>

\* Mutant: only this write fails, as a call that timed out would.
PaceExpiresOnly ==
  /\ op.pc = "pace" /\ Fault("expire")
  /\ Finish
  /\ UNCHANGED <<pedal, flags, outgoing, receive, txn, loop, ack, toHost,
                 abandoned, quiet>>

\* The budget runs out with half a message sent: the session ends here.
PaceExpires ==
  /\ op.pc = "pace" /\ Fault("expire")
  /\ dead' = TRUE
  /\ Finish
  /\ UNCHANGED <<pedal, closing, stopped, released, outgoing, receive, txn,
                 loop, ack, toHost, abandoned, quiet>>

-----------------------------------------------------------------------------
\* Waiting for the reply to op.txn.

\* A call whose context has ended is told so before the buffer is looked at.
StopLooking ==
  /\ op.pc = "look" /\ cancelled
  /\ abandoned' = TRUE
  /\ Finish
  /\ UNCHANGED <<counters, pedal, flags, outgoing, receive, txn, loop, ack,
                 toHost, quiet>>

\* The buffer is taken up to the answer.  A write that landed still owes the
\* flash pause; one the pedal refused, and any call, is over.
FindAnswer ==
  /\ op.pc = "look" /\ ~cancelled
  /\ LET n == AnswerEnd(buf[op.ch], op.txn)
     IN /\ n > 0
        /\ buf' = [buf EXCEPT ![op.ch] = SubSeq(@, n + 1, Len(@))]
  /\ \/ /\ op.kind = "write"
        /\ op' = [op EXCEPT !.pc = "flash"]
        /\ UNCHANGED <<inflight, cancelled>>
     \/ Finish
  /\ UNCHANGED <<counters, pedal, flags, outgoing, rxBytes, lastAck, arrived, txn, loop, ack, toHost, abandoned, quiet>>

\* Mutant: nothing is acknowledged before the answer is whole.
FindNothingUnowed ==
  /\ op.pc = "look" /\ ~cancelled
  /\ AnswerEnd(buf[op.ch], op.txn) = 0
  /\ buf' = [buf EXCEPT ![op.ch] = DropMessages(@)]
  /\ op' = [op EXCEPT !.pc = "unanswered", !.owed = FALSE]
  /\ UNCHANGED <<counters, pedal, flags, outgoing, rxBytes, lastAck, arrived,
                 txn, inflight, cancelled, loop, ack, toHost, abandoned, quiet>>

\* No answer yet: whole envelopes are somebody else's, or nobody's.
FindNothing ==
  /\ op.pc = "look" /\ ~cancelled
  /\ AnswerEnd(buf[op.ch], op.txn) = 0
  /\ buf' = [buf EXCEPT ![op.ch] = DropMessages(@)]
  /\ op' = [op EXCEPT !.pc = "unanswered", !.owed = Owed(op.ch)]
  /\ UNCHANGED <<counters, pedal, flags, outgoing, rxBytes, lastAck, arrived, txn, inflight, cancelled, loop, ack, toHost, abandoned, quiet>>

\* A session that has ended answers nothing more.
GiveUpDead ==
  /\ op.pc = "unanswered" /\ dead
  /\ abandoned' = TRUE
  /\ Finish
  /\ UNCHANGED <<counters, pedal, flags, outgoing, receive, txn, loop, ack,
                 toHost, quiet>>

\* Mutant: a stale signal is cleared on the way to sleep, after the look.
NothingOwedDrains ==
  /\ op.pc = "unanswered" /\ ~dead /\ ~op.owed
  /\ op' = [op EXCEPT !.pc = "wait"]
  /\ arrived' = [arrived EXCEPT ![op.ch] = FALSE]
  /\ UNCHANGED <<counters, pedal, flags, outgoing, rxBytes, lastAck, buf, txn,
                 inflight, cancelled, loop, ack, toHost, abandoned, quiet>>

NothingOwed ==
  /\ op.pc = "unanswered" /\ ~dead /\ ~op.owed
  /\ op' = [op EXCEPT !.pc = "wait"]
  /\ UNCHANGED <<counters, pedal, flags, outgoing, receive, txn, inflight,
                 cancelled, loop, ack, toHost, abandoned, quiet>>

\* Bytes looked through are acknowledged, or the pedal stops feeding.
AckOwed ==
  /\ op.pc = "unanswered" /\ ~dead /\ op.owed /\ SendMuFree
  /\ \/ /\ Send(op.ch, "ack", NoTxn, TRUE)
        /\ op' = [op EXCEPT !.pc = "wait", !.owed = FALSE]
        /\ UNCHANGED <<counters, inflight, cancelled, abandoned>>
     \/ /\ Fault("sendfail") /\ SendFails(op.ch, "ack", NoTxn, TRUE) /\ Finish
        /\ abandoned' = TRUE
  /\ UNCHANGED <<pedal, flags, receive, txn, loop, ack, toHost, quiet>>

\* The select: bytes arrived, the session ended or the context did.
Wake ==
  /\ op.pc = "wait"
  /\ \/ arrived[op.ch] /\ arrived' = [arrived EXCEPT ![op.ch] = FALSE]
     \/ (dead \/ cancelled) /\ UNCHANGED arrived
  /\ op' = [op EXCEPT !.pc = "look"]
  /\ UNCHANGED <<counters, pedal, flags, outgoing, rxBytes, lastAck, buf,
                 txn, inflight, cancelled, loop, ack, toHost, abandoned, quiet>>

\* The reply or commit budget runs out.
WaitExpires ==
  /\ op.pc = "wait" /\ Fault("expire")
  /\ abandoned' = TRUE
  /\ Finish
  /\ UNCHANGED <<pedal, flags, outgoing, receive, txn, loop, ack, toHost, quiet>>

\* The flash pause is over.
Settled ==
  /\ op.pc = "flash"
  /\ Finish
  /\ UNCHANGED <<counters, pedal, flags, outgoing, receive, txn, loop, ack,
                 toHost, abandoned, quiet>>

-----------------------------------------------------------------------------
\* Close.  The SDK runs it as an operation, so none other is under way.

Closing(pc) == op.kind = "close" /\ op.pc = pc
At(pc) == [Idle EXCEPT !.kind = "close", !.pc = pc, !.at = 1]

\* farewell keeps the idle acknowledgement out, then drains.
BeginClose ==
  /\ op.pc = "idle" /\ ~closing
  /\ closing' = TRUE
  /\ op' = At("drain")
  /\ UNCHANGED <<counters, pedal, dead, stopped, released, outgoing, receive,
                 txn, inflight, cancelled, loop, ack, toHost, abandoned>>
  /\ quiet' = 0

\* The pedal has nothing left, the session ended, or the budget is spent.
DrainEnds(budget) ==
  /\ quiet = DrainQuietRuns \/ dead \/ budget
  /\ buf' = [c \in Channels |-> <<>>]
  /\ UNCHANGED <<counters, pedal, outgoing, rxBytes, lastAck, arrived, txn,
                 inflight, cancelled, loop, ack, toHost, abandoned>>
  /\ quiet' = 0

DrainFirst ==
  /\ Closing("drain")
  /\ DrainEnds("expire" \in Faults)
  /\ op' = At("ack")
  /\ UNCHANGED flags

\* The goodbye: an acknowledgement on every channel, then a hello on every
\* channel.  A frame that fails does not stop the rest.
Farewell(kind, next) ==
  /\ Closing(kind) /\ SendMuFree
  /\ \/ Send(ChannelOrder[op.at], kind, NoTxn, TRUE) /\ UNCHANGED counters
     \/ Fault("sendfail") /\ SendFails(ChannelOrder[op.at], kind, NoTxn, TRUE)
  /\ op' = IF op.at = Len(ChannelOrder) THEN At(next)
           ELSE [op EXCEPT !.at = @ + 1]
  /\ UNCHANGED <<pedal, flags, receive, txn, inflight, cancelled, loop, ack,
                 toHost, abandoned, quiet>>

FarewellAck == Farewell("ack", "hello")
FarewellHello == Farewell("hello", "drainAgain")

\* The second drain, and then both goroutines are told to stop.
DrainAgain ==
  /\ Closing("drainAgain")
  /\ DrainEnds("expire" \in Faults)
  /\ op' = At("stopping")
  /\ stopped' = TRUE
  /\ UNCHANGED <<closing, dead, released>>

\* Mutant: the read in flight is not waited for.
ReleaseEarly ==
  /\ Closing("stopping")
  /\ ack.pc = "gone"
  /\ released' = TRUE
  /\ op' = At("released")
  /\ UNCHANGED <<counters, pedal, closing, dead, stopped, outgoing, receive,
                 txn, inflight, cancelled, loop, ack, toHost, abandoned, quiet>>

\* Only once both have returned is the interface let go.
Release ==
  /\ Closing("stopping")
  /\ loop = "gone" /\ ack.pc = "gone"
  /\ released' = TRUE
  /\ op' = At("released")
  /\ UNCHANGED <<counters, pedal, closing, dead, stopped, outgoing, receive,
                 txn, inflight, cancelled, loop, ack, toHost, abandoned, quiet>>

-----------------------------------------------------------------------------
\* The pedal.

Outstanding(c) == (sent[c] + CtrMod - hostAck[c]) % CtrMod

\* The number of the frame after one that was sent: the next, and its own once
\* more after one that landed though the bus reported it as failed.
Following(f) == IF f.failed THEN f.seq ELSE Inc(f.seq)

\* It takes one frame.  A data frame it takes is acknowledged as it is taken,
\* cumulatively; a frame that completes a message may go unacknowledged, its
\* answer being on the way.  A whole message is answered.
DevTakes(acked) ==
  /\ toDev # <<>>
  /\ LET f == Head(toDev)
         c == f.ch
         data == f.kind = "data"
         n == Inc(taken[c])
     IN /\ acked \/ f.last
        /\ acked => data
        /\ toDev' = Tail(toDev)
        /\ devSeq' = [devSeq EXCEPT ![c] = Following(f)]
        /\ hostAck' = [hostAck EXCEPT ![c] = f.ack]
        /\ taken' = [taken EXCEPT ![c] = IF data THEN n ELSE @]
        /\ devAck' = [devAck EXCEPT ![c] = IF acked THEN n ELSE @]
        /\ toHost' = IF acked
                     THEN Append(toHost, [ch |-> c, ack |-> n, data |-> <<>>])
                     ELSE toHost
        /\ half' = [half EXCEPT ![c] = IF ~data THEN @
                                       ELSE IF f.last THEN NoTxn ELSE f.txn]
        /\ garbled' = (garbled \/ (data /\ half[c] \notin {NoTxn, f.txn}))
        /\ pend' = [pend EXCEPT ![c] =
                      IF data /\ f.last THEN @ \o Pieces(f.txn, ReplyFrames)
                      ELSE @]
  /\ UNCHANGED <<counters, sent, flags, receive, seq, ackSent, txn, inflight,
                 op, cancelled, loop, ack, abandoned, quiet>>

DevAcks == DevTakes(TRUE)
DevKeepsQuiet == DevTakes(FALSE)

\* It feeds what it has to say while its window is open.
DevFeeds(c) ==
  /\ pend[c] # <<>> /\ Outstanding(c) < Window
  /\ toHost' = Append(toHost, [ch |-> c, ack |-> NoAck,
                               data |-> <<Head(pend[c])>>])
  /\ pend' = [pend EXCEPT ![c] = Tail(@)]
  /\ sent' = [sent EXCEPT ![c] = Inc(@)]
  /\ UNCHANGED <<counters, devSeq, taken, devAck, hostAck, half, garbled, flags,
                 outgoing, receive, txn, inflight, op, cancelled, loop, ack,
                 abandoned, quiet>>

\* It says something nobody asked for: a notification, or an acknowledgement
\* it has sent before.
DevNotifies(c) ==
  /\ notices < MaxNotices
  /\ notices' = notices + 1
  /\ pend' = [pend EXCEPT ![c] = @ \o Pieces(Notice, 1)]
  /\ UNCHANGED <<ops, faults, devSeq, taken, devAck, hostAck, sent, half,
                 garbled, flags, outgoing, receive, txn, inflight, op,
                 cancelled, loop, ack, toHost, abandoned, quiet>>

DevRepeats(c) ==
  /\ notices < MaxNotices /\ devAck[c] # NoAck
  /\ notices' = notices + 1
  /\ toHost' = Append(toHost, [ch |-> c, ack |-> devAck[c], data |-> <<>>])
  /\ UNCHANGED <<ops, faults, pedal, flags, outgoing, receive, txn, inflight,
                 op, cancelled, loop, ack, abandoned, quiet>>

-----------------------------------------------------------------------------
Loop == ReadFrame \/ ReadNothing \/ ReadFails \/ LoopStops

Acknowledger == 
  AckLeaves \/ AckSends \/ \E c \in Channels : AckDecides(c)

Stream == MarkChunk \/ SendChunk \/ PaceAcked \/ PaceDead \/ PaceExpires

Await ==
  \/ StopLooking \/ FindAnswer \/ FindNothing \/ GiveUpDead
  \/ NothingOwed \/ AckOwed \/ Wake \/ WaitExpires

Close ==
  \/ DrainFirst \/ FarewellAck \/ FarewellHello \/ DrainAgain \/ Release

Operation == SendRequest \/ Stream \/ Await \/ Settled \/ Close

\* What the pedal does once the session is over is not followed.
Device ==
  /\ ~released
  /\ \/ DevAcks \/ DevKeepsQuiet
     \/ \E c \in Channels : DevFeeds(c) \/ DevNotifies(c) \/ DevRepeats(c)

Next ==
  \/ BeginCall \/ BeginWrite \/ BeginClose \/ Cancel
  \/ Loop \/ Acknowledger \/ Operation \/ Device

Spec == Init /\ [][Next]_vars

\* The goroutines are scheduled, the locks are fair and reads keep finishing,
\* so a round of the acknowledger recurs and one day finds the channel quiet.
\* The pedal takes what it is sent and feeds what it has.  No caller has to
\* begin anything, and nothing has to fail.
Fairness ==
  /\ WF_vars(ReadFrame \/ ReadNothing) /\ WF_vars(LoopStops)
  /\ WF_vars(Acknowledger)
  /\ \A c \in Channels : WF_vars(AckDecides(c))
  /\ WF_vars(Operation)
  /\ WF_vars(DevAcks \/ DevKeepsQuiet)
  /\ \A c \in Channels : WF_vars(DevFeeds(c))

FairSpec == Spec /\ Fairness

-----------------------------------------------------------------------------
Txns == 0..(MaxOps + 1)
Counter == 0..CtrMod - 1
Piece == [txn : Txns, part : 1..ReplyFrames, last : BOOLEAN]
Frame == [ch : Channels, kind : {"data", "ack", "hello"}, seq : Counter,
          ack : Counter, txn : Txns, last : BOOLEAN, failed : BOOLEAN]
Reply == [ch : Channels, ack : 0..CtrMod, data : Seq(Piece)]

Calling == {"request", "look", "unanswered", "wait"}
Writing == {"mark", "chunk", "pace", "look", "unanswered", "wait", "flash"}
Leaving == {"drain", "ack", "hello", "drainAgain", "stopping", "released"}

OpPlaces == {"idle"} \cup Calling \cup Writing \cup Leaving

Op == [kind : {"none", "call", "write", "close"},
       pc : OpPlaces,
       ch : Channels, txn : Txns, left : 0..Chunks,
       moved : BOOLEAN, owed : BOOLEAN, at : 0..Len(ChannelOrder)]

SendOK ==
  /\ seq \in [Channels -> Counter]
  /\ ackSent \in [Channels -> Counter]
  /\ toDev \in Seq(Frame)

ReceiveOK ==
  /\ rxBytes \in [Channels -> Counter]
  /\ lastAck \in [Channels -> 0..CtrMod]
  /\ buf \in [Channels -> Seq(Piece)]
  /\ arrived \in [Channels -> BOOLEAN]

FlagsOK ==
  /\ closing \in BOOLEAN /\ dead \in BOOLEAN
  /\ stopped \in BOOLEAN /\ released \in BOOLEAN

PedalOK ==
  /\ devSeq \in [Channels -> Counter]
  /\ taken \in [Channels -> Counter]
  /\ devAck \in [Channels -> 0..CtrMod]
  /\ hostAck \in [Channels -> Counter]
  /\ sent \in [Channels -> Counter]
  /\ pend \in [Channels -> Seq(Piece)]
  /\ half \in [Channels -> Txns]
  /\ garbled \in BOOLEAN

CountsOK == ops \in 0..MaxOps /\ faults \in 0..MaxFaults /\ notices \in 0..MaxNotices

\* Every variable holds a value of its type.
TypeOK ==
  /\ SendOK /\ ReceiveOK /\ FlagsOK /\ PedalOK /\ CountsOK
  /\ txn \in [Channels -> 1..(MaxOps + 1)]
  /\ inflight \in 0..1
  /\ quiet \in 0..DrainQuietRuns
  /\ op \in Op
  /\ cancelled \in BOOLEAN /\ abandoned \in BOOLEAN
  /\ loop \in {"reading", "gone"}
  /\ ack \in [pc : {"select", "decided", "gone"}, ch : Channels]
  /\ toHost \in Seq(Reply)

\* The idle acknowledgement never leaves inside an exchange, a write or the
\* goodbye: while the acknowledger holds the send lock to send one, nothing of
\* the operation under way has been sent (idleDue, idleAck; the window a
\* pedal punishes runs from the first chunk through the flash pause).
NothingSentYet ==
  \/ op.pc \in {"idle", "request"}
  \/ op.pc \in {"mark", "chunk"} /\ op.left = Chunks
  \/ Closing("drain")
  \/ Closing("ack") /\ op.at = 1

IdleAckStaysOut == ack.pc = "decided" => NothingSentYet

\* A channel's buffer always starts at the head of an envelope, so no later
\* answer is read out of step: idle drops, abandoned calls and late replies
\* leave a partial envelope whole.  Close throws everything away.
BufferFramed ==
  closing \/ \A c \in Channels : buf[c] # <<>> => Head(buf[c]).part = 1

\* The frames on their way to the pedal carry, on each channel, the numbers
\* it expects next, with no gap, whichever goroutine sent them and whichever
\* sends failed, and with no repeat but of a frame that landed though its
\* write was reported as failed.
Before(i) == {j \in 1..(i - 1) : toDev[j].ch = toDev[i].ch}
SeqContiguous ==
  \A i \in DOMAIN toDev :
    \/ Before(i) = {} /\ toDev[i].seq = devSeq[toDev[i].ch]
    \/ \E j \in Before(i) :
         (\A k \in Before(i) : k <= j) /\ toDev[i].seq = Following(toDev[j])

\* While every exchange was seen through to its answer, at most one data
\* frame is with the pedal and not yet taken: no chunk goes out unpaced.
DataFramesOut ==
  {i \in DOMAIN toDev : toDev[i].ch = "data" /\ toDev[i].kind = "data"}
OneChunkOut == abandoned \/ Cardinality(DataFramesOut) <= 1

\* docs/protocol.md:166: "No chunk of a write goes out without the device's
\* acknowledgement of the one before it."  A chunk is acknowledged once taken.
ChunkWaitsForItsAck ==
  op.kind = "write" =>
    Cardinality({i \in DataFramesOut : toDev[i].txn = op.txn}) <= 1

\* docs/protocol.md:169-171: the session ends "rather than leave the data
\* channel holding half a message for a later call to feed a fresh request
\* into".
NoRequestIntoHalfMessage == ~garbled

\* A message is sent on the data channel a chunk at a time and to its end, or
\* the session is over: what the pedal takes next is its next chunk, or a new
\* message once it had all of the last (stream, write.go; pace, loop.go).
WritesStayWhole == OneChunkOut /\ NoRequestIntoHalfMessage

\* Once the interface is let go, no goroutine reads from it or writes to it.
NothingAfterRelease ==
  [][released => UNCHANGED <<seq, ackSent, receive, quiet>>]_vars

\* Every call and write ends without any timer: with the pedal's window no
\* wider than a reply, only acknowledging what arrived keeps the answer
\* coming, and a loop that dies wakes whoever waits.
EveryExchangeEnds == op.kind \in {"call", "write"} ~> op.kind = "none"

\* Bytes nobody asked for are acknowledged in the end, so no debt is carried
\* to a later write, unless the session ends first.
DebtIsSettled ==
  \A c \in Channels : Owed(c) ~> (~Owed(c) \/ dead \/ closing)

\* Close always comes to let the interface go.
CloseReleases == closing ~> released
=============================================================================
