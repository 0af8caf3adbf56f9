--------------------------- MODULE Session_proofs ---------------------------
(***************************************************************************)
(* What holds of a session for every number of channels, chunks, reply     *)
(* frames and quiet runs, every window and every set of faults.            *)
(*                                                                         *)
(* The inductive invariant IInv adds to the types where the operation can  *)
(* be for its kind (OpShape), what the two flags the acknowledger tests    *)
(* say of it (FlagsAgree), and a bound on the transactions handed out.     *)
(* The acknowledger reads only the flags and then holds the send lock, so  *)
(* FlagsAgree is what ties its decision to where the operation is.         *)
(***************************************************************************)
EXTENDS Session, FiniteSetTheorems, SequenceTheorems, WellFoundedInduction, TLAPS

\* A counter stays below CtrMod.
LEMMA CounterStep ==
  /\ \A n \in Counter : Inc(n) \in Counter
  /\ Counter \subseteq 0..CtrMod /\ NoAck \in 0..CtrMod /\ 0 \in Counter
BY SessionAssumption DEF Inc, Counter, NoAck

\* A set of positions in a sequence that is not empty has a last one.
LEMMA LastPosition ==
  ASSUME NEW n \in Nat, NEW T, T \subseteq 1..n, T # {}
  PROVE  \E i \in T : \A j \in T : j <= i
<1> DEFINE U == {n - i : i \in T}
           R == OpToRel(<, Nat)
<1>0. \A i \in T : i \in Nat /\ i <= n /\ n - i \in Nat
  OBVIOUS
<1>1. U \subseteq Nat /\ U # {}
  BY <1>0
<1>2. PICK x \in U : \A y \in U : ~ (<<y, x>> \in R)
  <2> HIDE DEF U, R
  <2>1. IsWellFoundedOn(R, Nat)
    BY NatLessThanWellFounded DEF R
  <2> QED
    BY <1>1, <2>1, WFMin
<1>3. \A y \in U : ~ (y < x)
  BY <1>1, <1>2 DEF OpToRel
<1>4. PICK i \in T : x = n - i
  OBVIOUS
<1>5. ASSUME NEW j \in T PROVE j <= i
  <2>1. ~ (n - j < n - i)
    BY <1>3, <1>4
  <2>2. j \in Nat /\ i \in Nat
    BY <1>0
  <2> HIDE DEF U, R
  <2> QED
    BY <2>1, <2>2
<1> QED
  BY <1>5

\* And a first one.
LEMMA FirstPosition ==
  ASSUME NEW n \in Nat, NEW T, T \subseteq 1..n, T # {}
  PROVE  \E i \in T : \A j \in T : i <= j
<1> DEFINE R == OpToRel(<, Nat)
<1>1. T \subseteq Nat
  OBVIOUS
<1>2. PICK x \in T : \A y \in T : ~ (<<y, x>> \in R)
  <2> HIDE DEF R
  <2>1. IsWellFoundedOn(R, Nat)
    BY NatLessThanWellFounded DEF R
  <2> QED
    BY <1>1, <2>1, WFMin
<1>3. \A y \in T : ~ (y < x)
  BY <1>1, <1>2 DEF OpToRel
<1> QED
  BY <1>1, <1>3

\* What is left of a buffer after a cut is a buffer.
LEMMA CutKeepsType ==
  ASSUME NEW b \in Seq(Piece), NEW n \in 0..Len(b)
  PROVE  SubSeq(b, n + 1, Len(b)) \in Seq(Piece)
<1>1. Len(b) \in Nat /\ \A i \in 1..Len(b) : b[i] \in Piece
  BY LenProperties, ElementOfSeq
<1>2. \A i \in (n + 1)..Len(b) : b[i] \in Piece
  BY <1>1
<1> QED
  BY <1>1, <1>2, SubSeqProperties

\* The complete envelopes of a buffer end inside it, and dropping them leaves
\* a buffer (dropMessages, loop.go).
LEMMA DropKeepsType ==
  \A b \in Seq(Piece) : WholeEnd(b) \in 0..Len(b) /\ DropMessages(b) \in Seq(Piece)
<1> SUFFICES ASSUME NEW b \in Seq(Piece)
             PROVE  WholeEnd(b) \in 0..Len(b) /\ DropMessages(b) \in Seq(Piece)
  OBVIOUS
<1> DEFINE ends == {i \in DOMAIN b : b[i].last}
<1>1. Len(b) \in Nat /\ ends \subseteq 1..Len(b)
  BY LenProperties
<1>2. WholeEnd(b) \in 0..Len(b)
  <2>1. CASE ends = {}
    BY <1>1, <2>1 DEF WholeEnd
  <2>2. CASE ends # {}
    <3>1. \E i \in ends : \A j \in ends : j <= i
      BY <1>1, <2>2, LastPosition
    <3>2. WholeEnd(b) \in ends
      BY <2>2, <3>1 DEF WholeEnd
    <3> QED
      BY <1>1, <3>2
  <2> QED
    BY <2>1, <2>2
<1> QED
  BY <1>2, CutKeepsType DEF DropMessages

\* An answer ends inside its buffer, and taking it leaves a buffer (reply,
\* handshake.go).
LEMMA AnswerKeepsType ==
  \A b \in Seq(Piece), t \in Txns :
    /\ AnswerEnd(b, t) \in 0..Len(b)
    /\ SubSeq(b, AnswerEnd(b, t) + 1, Len(b)) \in Seq(Piece)
<1> SUFFICES ASSUME NEW b \in Seq(Piece), NEW t \in Txns
             PROVE  /\ AnswerEnd(b, t) \in 0..Len(b)
                    /\ SubSeq(b, AnswerEnd(b, t) + 1, Len(b)) \in Seq(Piece)
  OBVIOUS
<1> DEFINE ends == {i \in DOMAIN b : b[i].last /\ b[i].txn = t}
<1>1. Len(b) \in Nat /\ ends \subseteq 1..Len(b)
  BY LenProperties
<1>2. AnswerEnd(b, t) \in 0..Len(b)
  <2>1. CASE ends = {}
    BY <1>1, <2>1 DEF AnswerEnd
  <2>2. CASE ends # {}
    <3>1. \E i \in ends : \A j \in ends : i <= j
      BY <1>1, <2>2, FirstPosition
    <3>2. AnswerEnd(b, t) \in ends
      BY <2>2, <3>1 DEF AnswerEnd
    <3> QED
      BY <1>1, <3>2
  <2> QED
    BY <2>1, <2>2
<1> QED
  BY <1>2, CutKeepsType

\* The envelope of one message, in frames.
LEMMA PiecesType ==
  \A t \in Txns, n \in 1..ReplyFrames : Pieces(t, n) \in Seq(Piece)
<1> SUFFICES ASSUME NEW t \in Txns, NEW n \in 1..ReplyFrames
             PROVE  Pieces(t, n) \in Seq(Piece)
  OBVIOUS
<1>1. n \in Nat /\ ReplyFrames \in Nat
  BY SessionAssumption
<1>2. \A i \in 1..n : [txn |-> t, part |-> i, last |-> i = n] \in Piece
  BY <1>1 DEF Piece
<1>3. Pieces(t, n) \in [1..n -> Piece]
  BY <1>2 DEF Pieces
<1> QED
  BY <1>1, <1>3, SeqDef

-----------------------------------------------------------------------------
\* Where the operation under way can be, for its kind.
OpShape ==
  /\ op.kind = "none"  <=> op.pc = "idle"
  /\ op.kind = "call"  => op.pc \in Calling
  /\ op.kind = "write" => op.pc \in Writing
  /\ op.kind = "close" => op.pc \in Leaving /\ op.at # 0
  /\ op.pc \in {"mark", "chunk", "pace"} => op.left # 0

\* What the flags the acknowledger looks at say of the operation.
FlagsAgree ==
  /\ inflight = IF op.kind \in {"call", "write"} THEN 1 ELSE 0
  /\ closing <=> op.kind = "close"

\* A channel hands out transactions one per operation.
TxnsBounded == \A c \in Channels : txn[c] <= ops + 1

Consistent == OpShape /\ FlagsAgree /\ TxnsBounded /\ IdleAckStaysOut

IInv == TypeOK /\ Consistent

\* No transaction is a transaction, and a reply has a frame.
LEMMA SmallValues ==
  /\ NoTxn \in Txns /\ Notice \in Txns
  /\ 1 \in 1..ReplyFrames /\ ReplyFrames \in 1..ReplyFrames
BY SessionAssumption DEF NoTxn, Notice, Txns

\* The steps that leave a group of variables alone keep its type.
LEMMA Kept ==
  /\ SendOK /\ UNCHANGED outgoing => SendOK'
  /\ ReceiveOK /\ UNCHANGED receive => ReceiveOK'
  /\ FlagsOK /\ UNCHANGED flags => FlagsOK'
  /\ PedalOK /\ UNCHANGED pedal => PedalOK'
  /\ CountsOK /\ UNCHANGED counters => CountsOK'
<1>1. SendOK /\ UNCHANGED outgoing => SendOK'
  BY DEF SendOK, outgoing
<1>2. ReceiveOK /\ UNCHANGED receive => ReceiveOK'
  BY DEF ReceiveOK, receive
<1>3. FlagsOK /\ UNCHANGED flags => FlagsOK'
  BY DEF FlagsOK, flags
<1>4. PedalOK /\ UNCHANGED pedal => PedalOK'
  BY DEF PedalOK, pedal
<1>5. CountsOK /\ UNCHANGED counters => CountsOK'
  BY DEF CountsOK, counters
<1> QED
  BY <1>1, <1>2, <1>3, <1>4, <1>5

\* What leaves is a frame, numbered and acknowledged in range (sendLocked).
LEMMA LeavesKeeps ==
  ASSUME SendOK, ReceiveOK, NEW c \in Channels, NEW t \in Txns,
         NEW kind \in {"data", "ack", "hello"}, NEW last \in BOOLEAN,
         NEW failed \in BOOLEAN, Leaves(c, kind, t, last, failed)
  PROVE  toDev' \in Seq(Frame)
<1> DEFINE f == [ch |-> c, kind |-> kind, seq |-> seq[c], ack |-> rxBytes[c],
                 txn |-> t, last |-> last, failed |-> failed]
<1>1. seq[c] \in Counter /\ rxBytes[c] \in Counter
  BY DEF SendOK, ReceiveOK
<1>2. f \in Frame
  BY <1>1 DEF Frame
<1>3. toDev' = Append(toDev, f)
  BY DEF Leaves
<1> QED
  BY <1>2, <1>3, AppendProperties DEF SendOK

\* So is what a goroutine sends, and the counters stay in range.
LEMMA SendKeeps ==
  ASSUME SendOK, ReceiveOK, NEW c \in Channels, NEW t \in Txns,
         NEW kind \in {"data", "ack", "hello"}, NEW last \in BOOLEAN,
         Send(c, kind, t, last)
  PROVE  SendOK'
<1>1. rxBytes[c] \in Counter
  BY DEF ReceiveOK
<1>2. toDev' \in Seq(Frame)
  BY LeavesKeeps DEF Send
<1>3. seq' \in [Channels -> Counter] /\ ackSent' \in [Channels -> Counter]
  BY <1>1, CounterStep DEF Send, SendOK
<1> QED
  BY <1>2, <1>3 DEF SendOK

\* A write reported as failed leaves the counters, and a frame at most.
LEMMA FailKeeps ==
  ASSUME SendOK, ReceiveOK, NEW c \in Channels, NEW t \in Txns,
         NEW kind \in {"data", "ack", "hello"}, NEW last \in BOOLEAN,
         SendFails(c, kind, t, last)
  PROVE  SendOK'
<1>1. toDev' \in Seq(Frame)
  BY LeavesKeeps DEF SendFails, SendOK
<1> QED
  BY <1>1 DEF SendFails, SendOK

\* An operation that is over leaves everything idle (finish).
LEMMA FinishKeeps ==
  ASSUME FlagsAgree, op.kind \in {"call", "write"}, UNCHANGED closing, Finish
  PROVE  /\ op' \in Op /\ op'.pc = "idle" /\ inflight' = 0 /\ cancelled' = FALSE
         /\ OpShape' /\ FlagsAgree'
<1>1. Idle \in Op
  BY SessionAssumption DEF Idle, Op, OpPlaces, Txns, NoTxn
<1>2. op'.kind = "none" /\ op'.pc = "idle"
  BY DEF Finish, Idle
<1>3. inflight' = 0
  BY DEF Finish, FlagsAgree
<1> QED
  BY <1>1, <1>2, <1>3 DEF Finish, OpShape, FlagsAgree

\* Something going wrong counts as one fault and no more.
LEMMA FaultKeeps ==
  ASSUME CountsOK, NEW kind, Fault(kind)
  PROVE  CountsOK' /\ UNCHANGED ops
BY SessionAssumption DEF CountsOK, Fault

-----------------------------------------------------------------------------
\* The invariant holds when the handshake is over.
LEMMA InitInv == Init => IInv
<1> SUFFICES ASSUME Init PROVE IInv
  OBVIOUS
<1>0. /\ <<>> \in Seq(Frame) /\ <<>> \in Seq(Piece) /\ <<>> \in Seq(Reply)
      /\ NoTxn \in Txns /\ 1 \in 1..(MaxOps + 1) /\ 0 \in 0..DrainQuietRuns
  BY EmptySeq, SessionAssumption DEF NoTxn, Txns
<1>1. op \in Op /\ op.kind = "none" /\ op.pc = "idle"
  BY SessionAssumption DEF Init, Idle, Op, OpPlaces, Txns, NoTxn
<1>2. SendOK /\ ReceiveOK
  BY <1>0, CounterStep DEF Init, SendOK, ReceiveOK
<1>3. FlagsOK
  BY DEF Init, FlagsOK
<1>4. CountsOK
  BY SessionAssumption DEF Init, CountsOK
<1>5. ack \in [pc : {"select", "decided", "gone"}, ch : Channels] /\ ack.pc = "select"
  BY SessionAssumption DEF Init
<1>6. TypeOK
  <2>1. PedalOK
    BY <1>0, CounterStep DEF Init, PedalOK
  <2>2. txn \in [Channels -> 1..(MaxOps + 1)] /\ quiet \in 0..DrainQuietRuns
    BY <1>0 DEF Init
  <2>3. cancelled \in BOOLEAN /\ abandoned \in BOOLEAN
    BY DEF Init
  <2>4. inflight \in 0..1 /\ loop \in {"reading", "gone"} /\ toHost \in Seq(Reply)
    BY <1>0 DEF Init
  <2> QED
    BY <1>1, <1>2, <1>3, <1>4, <1>5, <2>1, <2>2, <2>3, <2>4 DEF TypeOK
<1>7. OpShape /\ FlagsAgree /\ TxnsBounded /\ IdleAckStaysOut
  BY <1>1, <1>5, SessionAssumption
     DEF Init, OpShape, FlagsAgree, TxnsBounded, IdleAckStaysOut
<1> QED
  BY <1>6, <1>7 DEF IInv, Consistent
-----------------------------------------------------------------------------
\* A step that leaves the operation where it is keeps what is known of it.
LEMMA ConsistentKept ==
  ASSUME TypeOK, Consistent,
         op'.kind = op.kind, op'.pc = op.pc, op'.left = op.left, op'.at = op.at,
         ack'.pc = ack.pc, UNCHANGED <<inflight, closing, ops, txn>>
  PROVE  Consistent'
BY DEF Consistent, OpShape, FlagsAgree, TxnsBounded, IdleAckStaysOut,
       NothingSentYet, Closing

\* The read loop keeps the invariant.
LEMMA LoopInv == IInv /\ Loop => IInv'
<1> SUFFICES ASSUME IInv, Loop PROVE IInv'
  OBVIOUS
<1> USE DEF IInv
<1>0. \A carried \in BOOLEAN : Tick(carried) => quiet' \in 0..DrainQuietRuns
  BY SessionAssumption DEF Tick, Capped, TypeOK
<1>1. CASE ReadFrame
  <2> DEFINE f == Head(toHost)
             c == f.ch
             carried == f.data # <<>>
  <2>1. f \in Reply /\ toHost' \in Seq(Reply)
    BY <1>1, HeadTailProperties DEF ReadFrame, TypeOK
  <2>2. c \in Channels /\ f.ack \in 0..CtrMod /\ f.data \in Seq(Piece)
        /\ carried \in BOOLEAN
    BY <2>1 DEF Reply
  <2>3. ReceiveOK'
    <3> HIDE DEF f
    <3>1. /\ lastAck' = [lastAck EXCEPT ![c] = IF Moves(f) THEN f.ack ELSE @]
          /\ rxBytes' = [rxBytes EXCEPT ![c] = IF carried THEN Inc(@) ELSE @]
          /\ buf' = [buf EXCEPT ![c] = IF c = "events" THEN @ ELSE @ \o f.data]
          /\ arrived' = [arrived EXCEPT ![c] = @ \/ carried]
      BY <1>1 DEF ReadFrame, f
    <3>2. lastAck' \in [Channels -> 0..CtrMod] /\ rxBytes' \in [Channels -> Counter]
      BY <2>2, <3>1, CounterStep DEF TypeOK, ReceiveOK
    <3>3. buf' \in [Channels -> Seq(Piece)]
      <4>1. buf[c] \in Seq(Piece)
        BY <2>2 DEF TypeOK, ReceiveOK
      <4>2. buf[c] \o f.data \in Seq(Piece)
        BY <2>2, <4>1, ConcatProperties
      <4> QED
        BY <2>2, <3>1, <4>1, <4>2 DEF TypeOK, ReceiveOK
    <3>4. arrived' \in [Channels -> BOOLEAN]
      <4>1. (arrived[c] \/ carried) \in BOOLEAN
        OBVIOUS
      <4> QED
        BY <2>2, <3>1, <4>1 DEF TypeOK, ReceiveOK
    <3> QED
      BY <3>2, <3>3, <3>4 DEF ReceiveOK
  <2>4. op' = [op EXCEPT !.moved = @ \/ Paces(f)]
    BY <1>1 DEF ReadFrame
  <2>5. op' \in Op
    <3>1. (op.moved \/ Paces(f)) \in BOOLEAN
      OBVIOUS
    <3> QED
      BY <2>4, <3>1 DEF TypeOK, Op
  <2>6. /\ op'.kind = op.kind /\ op'.pc = op.pc /\ op'.left = op.left
        /\ op'.at = op.at
    BY <2>4 DEF TypeOK, Op
  <2>7. TypeOK'
    BY <1>0, <1>1, <2>1, <2>2, <2>3, <2>5, Kept DEF ReadFrame, TypeOK
  <2>8. Consistent'
    BY <1>1, <2>6, ConsistentKept DEF ReadFrame, counters, flags
  <2> QED
    BY <2>7, <2>8
<1>2. CASE ReadNothing
  <2>1. TypeOK'
    BY <1>0, <1>2, Kept DEF ReadNothing, TypeOK
  <2>2. Consistent'
    BY <1>2, ConsistentKept DEF ReadNothing, counters, flags
  <2> QED
    BY <2>1, <2>2
<1>3. CASE ReadFails
  <2>1. CountsOK' /\ UNCHANGED ops
    BY <1>3, FaultKeeps DEF ReadFails, TypeOK
  <2>2. FlagsOK'
    BY <1>3 DEF ReadFails, TypeOK, FlagsOK
  <2>3. TypeOK'
    BY <1>3, <2>1, <2>2, Kept DEF ReadFails, TypeOK
  <2>4. Consistent'
    BY <1>3, <2>1, ConsistentKept DEF ReadFails
  <2> QED
    BY <2>3, <2>4
<1>4. CASE LoopStops
  <2>1. TypeOK'
    BY <1>4, Kept DEF LoopStops, TypeOK
  <2>2. Consistent'
    BY <1>4, ConsistentKept DEF LoopStops, counters, flags
  <2> QED
    BY <2>1, <2>2
<1> QED
  BY <1>1, <1>2, <1>3, <1>4 DEF Loop
-----------------------------------------------------------------------------
AckPlaces == [pc : {"select", "decided", "gone"}, ch : Channels]

\* The acknowledger keeps the invariant: it decides only when nothing is in
\* flight and no goodbye has begun.
LEMMA AcknowledgerInv == IInv /\ Acknowledger => IInv'
<1> SUFFICES ASSUME IInv, Acknowledger PROVE IInv'
  OBVIOUS
<1> USE DEF IInv
<1>1. CASE AckLeaves
  <2>1. ack' \in AckPlaces /\ ack'.pc = "gone"
    BY <1>1 DEF AckLeaves, TypeOK, AckPlaces
  <2>2. TypeOK'
    BY <1>1, <2>1, Kept DEF AckLeaves, TypeOK, AckPlaces
  <2>3. Consistent'
    BY <1>1, <2>1
       DEF AckLeaves, Consistent, OpShape, FlagsAgree, TxnsBounded,
           IdleAckStaysOut, counters, flags
  <2> QED
    BY <2>2, <2>3
<1>2. ASSUME NEW c \in Channels, AckDecides(c) PROVE IInv'
  <2>1. ack' \in AckPlaces /\ ack'.pc = "decided"
    BY <1>2 DEF AckDecides, AckPlaces
  <2>2. ReceiveOK'
    <3>1. DropMessages(buf[c]) \in Seq(Piece)
      BY DropKeepsType DEF TypeOK, ReceiveOK
    <3> QED
      BY <1>2, <3>1 DEF AckDecides, TypeOK, ReceiveOK
  <2>3. TypeOK'
    BY <1>2, <2>1, <2>2, Kept DEF AckDecides, TypeOK, AckPlaces
  <2>4. op.pc = "idle"
    <3>1. inflight = 0 /\ ~closing
      BY <1>2 DEF AckDecides, IdleDue
    <3>2. op.kind = "none"
      BY <3>1 DEF Consistent, FlagsAgree, TypeOK, Op
    <3> QED
      BY <3>2 DEF Consistent, OpShape
  <2>5. Consistent'
    BY <1>2, <2>4
       DEF AckDecides, Consistent, OpShape, FlagsAgree, TxnsBounded,
           IdleAckStaysOut, NothingSentYet, counters, flags
  <2> QED
    BY <2>3, <2>5
<1>3. CASE AckSends
  <2>1. SendOK' /\ CountsOK' /\ UNCHANGED ops
    <3>1. CASE Send(ack.ch, "ack", NoTxn, TRUE) /\ UNCHANGED counters
      <4>1. ack.ch \in Channels /\ NoTxn \in Txns
        BY SmallValues DEF TypeOK
      <4>2. SendOK'
        BY <3>1, <4>1, SendKeeps DEF TypeOK
      <4> QED
        BY <3>1, <4>2, Kept DEF TypeOK, counters
    <3>2. CASE Fault("sendfail") /\ SendFails(ack.ch, "ack", NoTxn, TRUE)
      <4>1. ack.ch \in Channels /\ NoTxn \in Txns
        BY SmallValues DEF TypeOK
      <4>2. SendOK'
        BY <3>2, <4>1, FailKeeps DEF TypeOK
      <4> QED
        BY <3>2, <4>2, FaultKeeps DEF TypeOK
    <3> QED
      BY <1>3, <3>1, <3>2 DEF AckSends
  <2>2. ack' \in AckPlaces /\ ack'.pc = "select"
    BY <1>3, SessionAssumption DEF AckSends, AckPlaces
  <2>3. TypeOK'
    BY <1>3, <2>1, <2>2, Kept DEF AckSends, TypeOK, AckPlaces
  <2>4. Consistent'
    BY <1>3, <2>1, <2>2
       DEF AckSends, Consistent, OpShape, FlagsAgree, TxnsBounded,
           IdleAckStaysOut, flags
  <2> QED
    BY <2>3, <2>4
<1> QED
  BY <1>1, <1>2, <1>3 DEF Acknowledger

-----------------------------------------------------------------------------
\* The pedal's steps keep the invariant.
LEMMA DeviceInv == IInv /\ Device => IInv'
<1> SUFFICES ASSUME IInv, Device PROVE IInv'
  OBVIOUS
<1> USE DEF IInv
<1>1. ASSUME NEW acked \in BOOLEAN, DevTakes(acked) PROVE IInv'
  <2> DEFINE f == Head(toDev)
             c == f.ch
  <2>1. f \in Frame /\ toDev' \in Seq(Frame)
    BY <1>1, HeadTailProperties DEF DevTakes, TypeOK, SendOK
  <2>2. c \in Channels /\ f.seq \in Counter /\ f.ack \in Counter /\ f.txn \in Txns
    BY <2>1 DEF Frame
  <2>3. Inc(taken[c]) \in Counter /\ Inc(f.seq) \in Counter /\ NoTxn \in Txns
    BY <2>2, CounterStep, SmallValues DEF TypeOK, PedalOK
  <2> HIDE DEF f
  <2>4. SendOK'
    BY <1>1, <2>1 DEF DevTakes, TypeOK, SendOK
  <2>5. PedalOK'
    <3>1. /\ devSeq' \in [Channels -> Counter] /\ hostAck' \in [Channels -> Counter]
          /\ taken' \in [Channels -> Counter] /\ devAck' \in [Channels -> 0..CtrMod]
          /\ sent' \in [Channels -> Counter]
      <4>1. Following(f) \in Counter
        BY <2>2, <2>3 DEF Following
      <4>2. devSeq' = [devSeq EXCEPT ![c] = Following(f)]
        BY <1>1 DEF DevTakes, f
      <4>3. devSeq' \in [Channels -> Counter]
        BY <2>2, <4>1, <4>2 DEF TypeOK, PedalOK
      <4> QED
        BY <1>1, <2>2, <2>3, <4>3, CounterStep DEF DevTakes, TypeOK, PedalOK, f
    <3>2. half' \in [Channels -> Txns]
      BY <1>1, <2>2, <2>3 DEF DevTakes, TypeOK, PedalOK, f
    <3>3. pend' \in [Channels -> Seq(Piece)]
      <4>1. pend[c] \in Seq(Piece) /\ Pieces(f.txn, ReplyFrames) \in Seq(Piece)
        BY <2>2, PiecesType, SmallValues DEF TypeOK, PedalOK
      <4>2. pend[c] \o Pieces(f.txn, ReplyFrames) \in Seq(Piece)
        BY <4>1, ConcatProperties
      <4>3. pend' = [pend EXCEPT ![c] = IF f.kind = "data" /\ f.last
                                        THEN @ \o Pieces(f.txn, ReplyFrames)
                                        ELSE @]
        BY <1>1 DEF DevTakes, f
      <4> QED
        BY <2>2, <4>1, <4>2, <4>3 DEF TypeOK, PedalOK
    <3>4. garbled' \in BOOLEAN
      BY <1>1 DEF DevTakes
    <3> QED
      BY <3>1, <3>2, <3>3, <3>4 DEF PedalOK
  <2>6. toHost' \in Seq(Reply)
    <3> DEFINE r == [ch |-> c, ack |-> Inc(taken[c]), data |-> <<>>]
    <3>1. r \in Reply
      BY <2>2, <2>3, CounterStep, EmptySeq DEF Reply
    <3>2. Append(toHost, r) \in Seq(Reply)
      BY <3>1, AppendProperties DEF TypeOK
    <3> QED
      BY <1>1, <3>2 DEF DevTakes, TypeOK, f
  <2>7. TypeOK'
    BY <1>1, <2>4, <2>5, <2>6, Kept DEF DevTakes, TypeOK
  <2>8. Consistent'
    BY <1>1, ConsistentKept DEF DevTakes, counters, flags
  <2> QED
    BY <2>7, <2>8
<1>2. ASSUME NEW c \in Channels, DevFeeds(c) PROVE IInv'
  <2>1. pend[c] \in Seq(Piece) /\ pend[c] # <<>>
    BY <1>2 DEF DevFeeds, TypeOK, PedalOK
  <2>2. Head(pend[c]) \in Piece /\ Tail(pend[c]) \in Seq(Piece)
    BY <2>1, HeadTailProperties
  <2>3. PedalOK'
    <3>1. pend' \in [Channels -> Seq(Piece)] /\ sent' \in [Channels -> Counter]
      BY <1>2, <2>2, CounterStep DEF DevFeeds, TypeOK, PedalOK
    <3> QED
      BY <1>2, <3>1 DEF DevFeeds, TypeOK, PedalOK
  <2>4. toHost' \in Seq(Reply)
    <3> DEFINE r == [ch |-> c, ack |-> NoAck, data |-> <<Head(pend[c])>>]
    <3>1. <<Head(pend[c])>> \in Seq(Piece)
      BY <2>2
    <3>2. r \in Reply
      BY <3>1, CounterStep DEF Reply
    <3>3. Append(toHost, r) \in Seq(Reply)
      BY <3>2, AppendProperties DEF TypeOK
    <3> QED
      BY <1>2, <3>3 DEF DevFeeds
  <2>5. TypeOK'
    BY <1>2, <2>3, <2>4, Kept DEF DevFeeds, TypeOK
  <2>6. Consistent'
    BY <1>2, ConsistentKept DEF DevFeeds, counters, flags
  <2> QED
    BY <2>5, <2>6
<1>3. ASSUME NEW c \in Channels, DevNotifies(c) PROVE IInv'
  <2>1. CountsOK' /\ UNCHANGED ops
    BY <1>3, SessionAssumption DEF DevNotifies, TypeOK, CountsOK
  <2>2. PedalOK'
    <3>1. Pieces(Notice, 1) \in Seq(Piece)
      BY PiecesType, SmallValues
    <3>2. pend[c] \o Pieces(Notice, 1) \in Seq(Piece)
      BY <3>1, ConcatProperties DEF TypeOK, PedalOK
    <3> QED
      BY <1>3, <3>2 DEF DevNotifies, TypeOK, PedalOK
  <2>3. TypeOK'
    BY <1>3, <2>1, <2>2, Kept DEF DevNotifies, TypeOK
  <2>4. Consistent'
    BY <1>3, <2>1, ConsistentKept DEF DevNotifies, flags
  <2> QED
    BY <2>3, <2>4
<1>4. ASSUME NEW c \in Channels, DevRepeats(c) PROVE IInv'
  <2>1. CountsOK' /\ UNCHANGED ops
    BY <1>4, SessionAssumption DEF DevRepeats, TypeOK, CountsOK
  <2>2. toHost' \in Seq(Reply)
    <3> DEFINE r == [ch |-> c, ack |-> devAck[c], data |-> <<>>]
    <3>1. r \in Reply
      BY EmptySeq DEF Reply, TypeOK, PedalOK
    <3>2. Append(toHost, r) \in Seq(Reply)
      BY <3>1, AppendProperties DEF TypeOK
    <3> QED
      BY <1>4, <3>2 DEF DevRepeats
  <2>3. TypeOK'
    BY <1>4, <2>1, <2>2, Kept DEF DevRepeats, TypeOK
  <2>4. Consistent'
    BY <1>4, <2>1, ConsistentKept DEF DevRepeats, flags
  <2> QED
    BY <2>3, <2>4
<1> QED
  BY <1>1, <1>2, <1>3, <1>4 DEF Device, DevAcks, DevKeepsQuiet
-----------------------------------------------------------------------------
\* Where an operation is tells which kind it is.
LEMMA KindAt ==
  ASSUME TypeOK, OpShape
  PROVE  /\ op.pc \in Calling \cup Writing => op.kind \in {"call", "write"}
         /\ op.pc \in {"mark", "chunk", "pace", "flash"} => op.kind = "write"
         /\ op.pc \in Leaving => op.kind = "close"
         /\ op.pc = "idle" => op.kind = "none"
BY DEF TypeOK, OpShape, Op, Calling, Writing, Leaving

\* A call or a write that ends leaves the session consistent.
LEMMA EndsConsistent ==
  ASSUME IInv, op.pc \in Calling \cup Writing, Finish,
         UNCHANGED <<closing, txn, ops, ack>>
  PROVE  /\ Consistent' /\ op' \in Op /\ inflight' \in 0..1
         /\ cancelled' \in BOOLEAN
<1>1. op.kind \in {"call", "write"}
  BY KindAt DEF IInv, Consistent
<1>2. /\ op' \in Op /\ op'.pc = "idle" /\ inflight' = 0 /\ cancelled' = FALSE
      /\ OpShape' /\ FlagsAgree'
  BY <1>1, FinishKeeps DEF IInv, Consistent
<1>3. TxnsBounded' /\ IdleAckStaysOut'
  BY <1>2 DEF IInv, Consistent, TxnsBounded, IdleAckStaysOut, NothingSentYet
<1>4. inflight' \in 0..1
  BY <1>2
<1>5. cancelled' \in BOOLEAN
  BY <1>2
<1>6. Consistent'
  BY <1>2, <1>3 DEF Consistent
<1> QED
  BY <1>2, <1>4, <1>5, <1>6

\* A call or a write that moves on to a place where nothing has been sent is
\* consistent; so is one that moves on with the send lock free.
LEMMA MovesConsistent ==
  ASSUME IInv, op' \in Op,
         op.kind \in {"call", "write"}, op'.kind = op.kind,
         op'.pc \in IF op.kind = "call" THEN Calling ELSE Writing,
         op'.pc \in {"mark", "chunk", "pace"} => op'.left # 0,
         SendMuFree \/ ~NothingSentYet \/ NothingSentYet',
         UNCHANGED <<inflight, closing, txn, ops, ack>>
  PROVE  Consistent'
<1>1. op'.pc # "idle"
  BY DEF Calling, Writing
<1>2. OpShape'
  BY <1>1 DEF OpShape
<1>3. FlagsAgree' /\ TxnsBounded'
  BY DEF IInv, Consistent, FlagsAgree, TxnsBounded
<1>4. IdleAckStaysOut'
  BY DEF IInv, Consistent, IdleAckStaysOut, SendMuFree
<1> QED
  BY <1>2, <1>3, <1>4 DEF Consistent

\* A call or a write that begins keeps the invariant.
LEMMA BeginInv ==
  ASSUME IInv, NEW kind \in {"call", "write"}, NEW c \in Channels, Begin(kind, c)
  PROVE  IInv'
<1> USE DEF IInv
<1>1. op.kind = "none" /\ inflight = 0 /\ closing = FALSE
  BY KindAt DEF Begin, Consistent, FlagsAgree, TypeOK, FlagsOK
<1>2. txn[c] \in Nat /\ txn[c] <= ops + 1 /\ ops \in Nat /\ ops < MaxOps
  BY DEF Begin, TypeOK, Consistent, TxnsBounded, CountsOK
<1>3. txn' = [txn EXCEPT ![c] = @ + 1] /\ ops' = ops + 1
  BY DEF Begin
<1>4. txn' \in [Channels -> 1..(MaxOps + 1)] /\ CountsOK'
  <2>1. txn[c] + 1 \in 1..(MaxOps + 1) /\ ops + 1 \in 0..MaxOps
    BY <1>2, SessionAssumption
  <2> QED
    BY <1>3, <2>1 DEF Begin, TypeOK, CountsOK
<1>5. txn[c] \in Txns /\ Chunks \in 0..Chunks /\ Chunks # 0 /\ 0 \in 0..Len(ChannelOrder)
  BY <1>2, SessionAssumption, LenProperties DEF Txns
<1> DEFINE place == IF kind = "write" THEN "mark" ELSE "request"
<1>6. op' = [kind |-> kind, pc |-> place, ch |-> c, txn |-> txn[c],
             left |-> Chunks, moved |-> FALSE, owed |-> FALSE, at |-> 0]
  BY DEF Begin, Idle
<1>7. op' \in Op
  BY <1>5, <1>6 DEF Op, OpPlaces, Calling, Writing
<1>8. inflight' = 1
  BY <1>1 DEF Begin
<1>9. TypeOK'
  BY <1>4, <1>7, <1>8, Kept DEF Begin, TypeOK
<1>10. OpShape'
  BY <1>5, <1>6 DEF OpShape, Calling, Writing
<1>11. FlagsAgree'
  BY <1>1, <1>6, <1>8 DEF Begin, FlagsAgree, flags
<1>12. TxnsBounded'
  <2> SUFFICES ASSUME NEW d \in Channels PROVE txn'[d] <= ops' + 1
    BY DEF TxnsBounded
  <2>1. txn[d] \in Nat /\ txn[d] <= ops + 1
    BY DEF TypeOK, Consistent, TxnsBounded
  <2> QED
    BY <1>2, <1>3, <2>1 DEF TypeOK
<1>13. IdleAckStaysOut'
  BY <1>6 DEF IdleAckStaysOut, NothingSentYet
<1> QED
  BY <1>9, <1>10, <1>11, <1>12, <1>13 DEF Consistent

\* A call's request, and its caller's giving up, keep the invariant.
LEMMA RequestInv ==
  IInv /\ (BeginCall \/ BeginWrite \/ Cancel \/ SendRequest) => IInv'
<1> SUFFICES ASSUME IInv, BeginCall \/ BeginWrite \/ Cancel \/ SendRequest
             PROVE  IInv'
  OBVIOUS
<1> USE DEF IInv
<1>1. CASE BeginCall
  BY <1>1, BeginInv DEF BeginCall
<1>2. CASE BeginWrite
  BY <1>2, BeginInv, SessionAssumption DEF BeginWrite
<1>3. CASE Cancel
  <2>1. CountsOK' /\ UNCHANGED ops
    BY <1>3, FaultKeeps DEF Cancel, TypeOK
  <2>2. TypeOK'
    BY <1>3, <2>1, Kept DEF Cancel, TypeOK
  <2>3. Consistent'
    BY <1>3, <2>1, ConsistentKept DEF Cancel, flags
  <2> QED
    BY <2>2, <2>3
<1>4. CASE SendRequest
  <2>1. op.pc = "request" /\ SendMuFree
    BY <1>4 DEF SendRequest
  <2>2. op.kind = "call"
    BY <2>1 DEF Consistent, OpShape, Writing, Leaving, TypeOK, Op
  <2>3. CASE /\ Send(op.ch, "data", op.txn, TRUE)
             /\ op' = [op EXCEPT !.pc = "look"]
             /\ UNCHANGED <<counters, inflight, cancelled, abandoned>>
    <3>1. SendOK'
      BY <2>3, SendKeeps DEF TypeOK, Op
    <3>2. op' \in Op /\ op'.pc = "look" /\ op'.kind = op.kind
      <4>1. "look" \in OpPlaces
        BY DEF OpPlaces, Calling
      <4> QED
        BY <2>3, <4>1 DEF TypeOK, Op
    <3>3. TypeOK'
      BY <1>4, <2>3, <3>1, <3>2, Kept DEF SendRequest, TypeOK
    <3>4. Consistent'
      BY <1>4, <2>1, <2>2, <2>3, <3>2, MovesConsistent
         DEF SendRequest, Calling, counters, flags
    <3> QED
      BY <3>3, <3>4
  <2>4. CASE /\ Fault("sendfail") /\ SendFails(op.ch, "data", op.txn, TRUE)
             /\ Finish /\ abandoned' = (abandoned \/ Landed)
    <3>1. CountsOK' /\ UNCHANGED ops
      BY <2>4, FaultKeeps DEF TypeOK
    <3>2. /\ Consistent' /\ op' \in Op /\ inflight' \in 0..1
          /\ cancelled' \in BOOLEAN
      BY <1>4, <2>1, <2>4, <3>1, EndsConsistent DEF SendRequest, Calling, flags
    <3>3. SendOK' /\ abandoned' \in BOOLEAN
      BY <2>4, FailKeeps DEF TypeOK, Op, Landed
    <3>4. TypeOK'
      BY <1>4, <2>4, <3>1, <3>2, <3>3, Kept DEF SendRequest, TypeOK
    <3> QED
      BY <3>2, <3>4
  <2> QED
    BY <1>4, <2>3, <2>4 DEF SendRequest
<1> QED
  BY <1>1, <1>2, <1>3, <1>4
-----------------------------------------------------------------------------
\* An operation that only moves to another place is an operation.
LEMMA OpMoves ==
  ASSUME op \in Op, NEW p \in OpPlaces, op' = [op EXCEPT !.pc = p]
  PROVE  /\ op' \in Op /\ op'.pc = p /\ op'.kind = op.kind
         /\ op'.left = op.left /\ op'.at = op.at
BY DEF Op

\* A call or a write that ends and fails only itself keeps the invariant.
LEMMA FinishInv ==
  ASSUME IInv, op.pc \in Calling \cup Writing, Finish,
         CountsOK', UNCHANGED ops, SendOK', FlagsOK', ReceiveOK',
         abandoned' \in BOOLEAN,
         UNCHANGED <<pedal, closing, txn, loop, ack, toHost, quiet>>
  PROVE  IInv'
<1>1. /\ Consistent' /\ op' \in Op /\ inflight' \in 0..1
      /\ cancelled' \in BOOLEAN
  BY EndsConsistent
<1>2. PedalOK'
  BY Kept DEF IInv, TypeOK
<1>3. TypeOK'
  BY <1>1, <1>2 DEF IInv, TypeOK
<1> QED
  BY <1>1, <1>3 DEF IInv

\* The steps of a write's stream keep the invariant.
LEMMA StreamInv == IInv /\ Stream => IInv'
<1> SUFFICES ASSUME IInv, Stream PROVE IInv'
  OBVIOUS
<1>0. /\ TypeOK /\ Consistent /\ op \in Op
      /\ SendOK /\ ReceiveOK /\ FlagsOK /\ CountsOK
  BY DEF IInv, TypeOK
<1>1. /\ \A p \in {"mark", "chunk", "pace"} : p \in OpPlaces /\ p \in Writing
      /\ "look" \in OpPlaces /\ "look" \in Writing
  BY DEF OpPlaces, Writing
<1>2. op.pc \in {"mark", "chunk", "pace"} => op.kind = "write" /\ op.left # 0
  BY <1>0, KindAt DEF Consistent, OpShape
<1>3. CASE MarkChunk
  <2>1. op.kind = "write" /\ op.left # 0 /\ op.pc = "mark"
    BY <1>2, <1>3 DEF MarkChunk
  <2>2. op' = [op EXCEPT !.pc = "chunk", !.moved = FALSE]
    BY <1>3 DEF MarkChunk
  <2>3. /\ op'.pc = "chunk" /\ op'.kind = "write" /\ op'.left = op.left
        /\ op'.kind = op.kind
    BY <1>0, <2>1, <2>2 DEF Op
  <2>4. op' \in Op
    <3>1. "chunk" \in OpPlaces /\ FALSE \in BOOLEAN
      BY <1>1
    <3> QED
      BY Zenon, <1>0, <2>2, <3>1 DEF Op
  <2>5. ~NothingSentYet \/ NothingSentYet'
    BY <2>1, <2>3 DEF NothingSentYet, Closing
  <2>6. Consistent'
    BY <1>1, <1>3, <2>1, <2>3, <2>4, <2>5, MovesConsistent
       DEF MarkChunk, counters, flags
  <2>7. TypeOK'
    BY <1>0, <1>3, <2>4, Kept DEF MarkChunk, TypeOK
  <2> QED
    BY <2>6, <2>7 DEF IInv
<1>4. CASE SendChunk
  <2>1. op.kind = "write" /\ op.left # 0 /\ op.pc = "chunk" /\ SendMuFree
    BY <1>2, <1>4 DEF SendChunk
  <2>2. CASE /\ Send("data", "data", op.txn, op.left = 1)
             /\ op' = [op EXCEPT !.left = @ - 1,
                                 !.pc = IF op.left = 1 THEN "look" ELSE "pace"]
             /\ UNCHANGED <<counters, inflight, cancelled, abandoned>>
    <3> DEFINE place == IF op.left = 1 THEN "look" ELSE "pace"
    <3>1. SendOK'
      <4>1. op.txn \in Txns /\ "data" \in Channels /\ (op.left = 1) \in BOOLEAN
        BY <1>0, SessionAssumption DEF Op
      <4> QED
        BY <1>0, <2>2, <4>1, SendKeeps
    <3>2. op.left - 1 \in 0..Chunks /\ place \in OpPlaces /\ place \in Writing
      BY <1>0, <1>1, <2>1, SessionAssumption DEF Op
    <3>3. op' = [op EXCEPT !.left = op.left - 1, !.pc = place]
      BY <2>2
    <3>4. op'.kind = op.kind /\ op'.pc = place /\ op'.left = op.left - 1
      BY <1>0, <3>3 DEF Op
    <3>5. op' \in Op
      <4> HIDE DEF place
      <4> QED
        BY Zenon, <1>0, <3>2, <3>3 DEF Op
    <3>6. op'.pc \in {"mark", "chunk", "pace"} => op'.left # 0
      BY <1>0, <2>1, <3>4, SessionAssumption DEF Op
    <3>7. Consistent'
      BY <1>1, <1>4, <2>1, <2>2, <3>2, <3>4, <3>5, <3>6, MovesConsistent
         DEF SendChunk, counters, flags
    <3>8. TypeOK'
      BY <1>0, <1>4, <2>2, <3>1, <3>5, Kept DEF SendChunk, TypeOK
    <3> QED
      BY <3>7, <3>8 DEF IInv
  <2>3. CASE /\ SendFails("data", "data", op.txn, op.left = 1) /\ Finish
             /\ Fault(IF op.left < Chunks THEN "midfail"
                      ELSE IF Landed THEN "startfail" ELSE "sendfail")
             /\ abandoned' = (abandoned \/ Landed)
    <3>1. CountsOK' /\ UNCHANGED ops
      BY <1>0, <2>3, FaultKeeps
    <3>2. SendOK' /\ FlagsOK' /\ ReceiveOK' /\ abandoned' \in BOOLEAN
      <4>1. op.txn \in Txns /\ "data" \in Channels /\ (op.left = 1) \in BOOLEAN
        BY <1>0, SessionAssumption DEF Op
      <4>2. SendOK'
        BY <1>0, <2>3, <4>1, FailKeeps
      <4> QED
        BY <1>0, <1>4, <2>3, <4>2, Kept DEF SendChunk, Landed, TypeOK
    <3> QED
      BY <1>0, <1>1, <1>4, <2>1, <2>3, <3>1, <3>2, FinishInv
         DEF SendChunk, flags, TypeOK
  <2> QED
    BY <1>4, <2>2, <2>3 DEF SendChunk
<1>5. CASE PaceAcked
  <2>1. op.kind = "write" /\ op.left # 0 /\ op.pc = "pace"
    BY <1>2, <1>5 DEF PaceAcked
  <2>2. /\ op' \in Op /\ op'.pc = "mark" /\ op'.kind = op.kind
        /\ op'.left = op.left
    BY <1>0, <1>1, <1>5, OpMoves DEF PaceAcked
  <2>3. ~NothingSentYet
    BY <2>1 DEF NothingSentYet, Closing
  <2>4. Consistent'
    BY <1>1, <1>5, <2>1, <2>2, <2>3, MovesConsistent
       DEF PaceAcked, counters, flags
  <2>5. TypeOK'
    BY <1>0, <1>5, <2>2, Kept DEF PaceAcked, TypeOK
  <2> QED
    BY <2>4, <2>5 DEF IInv
<1>6. CASE PaceDead
  <2>1. op.pc \in Calling \cup Writing
    BY <1>1, <1>6 DEF PaceDead
  <2>2. CountsOK' /\ UNCHANGED ops /\ SendOK' /\ FlagsOK' /\ ReceiveOK'
    BY <1>0, <1>6, Kept DEF PaceDead, counters
  <2> QED
    BY <1>0, <1>6, <2>1, <2>2, FinishInv DEF PaceDead, flags, TypeOK
<1>7. CASE PaceExpires
  <2>1. op.pc \in Calling \cup Writing
    BY <1>1, <1>7 DEF PaceExpires
  <2>2. CountsOK' /\ UNCHANGED ops
    BY <1>0, <1>7, FaultKeeps DEF PaceExpires
  <2>3. SendOK' /\ ReceiveOK'
    BY <1>0, <1>7, Kept DEF PaceExpires
  <2>4. FlagsOK'
    BY <1>0, <1>7 DEF PaceExpires, FlagsOK
  <2> QED
    BY <1>0, <1>7, <2>1, <2>2, <2>3, <2>4, FinishInv DEF PaceExpires, TypeOK
<1> QED
  BY <1>3, <1>4, <1>5, <1>6, <1>7 DEF Stream
-----------------------------------------------------------------------------
\* What is sent inside a call or a write leaves the idle acknowledgement out
\* once the operation is past its first frame.
LEMMA PastFirstFrame ==
  op.pc \in {"look", "unanswered", "wait", "flash"} => ~NothingSentYet
BY DEF NothingSentYet, Closing

\* A call or a write whose goroutine moves between looking, acknowledging and
\* sleeping keeps the invariant.
LEMMA AwaitMoves ==
  ASSUME IInv, op.pc \in {"look", "unanswered", "wait"}, op' \in Op,
         op'.kind = op.kind, op'.pc \in {"look", "unanswered", "wait"},
         SendOK', ReceiveOK', CountsOK', UNCHANGED ops,
         UNCHANGED <<pedal, flags, txn, inflight, cancelled, loop, ack, toHost,
                     abandoned, quiet>>
  PROVE  IInv'
<1>1. op.kind \in {"call", "write"}
  BY KindAt DEF IInv, Consistent, Calling
<1>2. op'.pc \in IF op.kind = "call" THEN Calling ELSE Writing
  BY DEF Calling, Writing
<1>3. ~NothingSentYet
  BY PastFirstFrame
<1>4. Consistent'
  BY <1>1, <1>2, <1>3, MovesConsistent DEF flags
<1>5. PedalOK' /\ FlagsOK'
  BY Kept DEF IInv, TypeOK
<1>6. TypeOK'
  BY <1>5 DEF IInv, TypeOK
<1> QED
  BY <1>4, <1>6 DEF IInv

\* Waiting for the reply, and the flash pause, keep the invariant.
LEMMA AwaitInv == IInv /\ (Await \/ Settled) => IInv'
<1> SUFFICES ASSUME IInv, Await \/ Settled PROVE IInv'
  OBVIOUS
<1>0. /\ TypeOK /\ Consistent /\ op \in Op /\ abandoned \in BOOLEAN
      /\ SendOK /\ ReceiveOK /\ FlagsOK /\ CountsOK
      /\ op.ch \in Channels /\ op.txn \in Txns
  BY DEF IInv, TypeOK, Op
<1>1. \A p \in {"look", "unanswered", "wait", "flash"} :
        p \in OpPlaces /\ p \in Calling \cup Writing
  BY DEF OpPlaces, Calling, Writing
<1>2. buf[op.ch] \in Seq(Piece)
  BY <1>0 DEF ReceiveOK
<1>3. UNCHANGED counters => CountsOK' /\ UNCHANGED ops
  BY <1>0, Kept DEF counters
<1>4. UNCHANGED flags => FlagsOK' /\ UNCHANGED closing
  BY <1>0, Kept DEF flags
<1>5. CASE StopLooking
  BY <1>0, <1>1, <1>3, <1>4, <1>5, Kept, FinishInv DEF StopLooking
<1>6. CASE FindAnswer
  <2>1. op.pc = "look"
    BY <1>6 DEF FindAnswer
  <2> DEFINE n == AnswerEnd(buf[op.ch], op.txn)
  <2>2. ReceiveOK'
    <3>1. SubSeq(buf[op.ch], n + 1, Len(buf[op.ch])) \in Seq(Piece)
      BY <1>0, <1>2, AnswerKeepsType
    <3>2. buf' = [buf EXCEPT ![op.ch] = SubSeq(@, n + 1, Len(@))]
      BY <1>6 DEF FindAnswer
    <3> HIDE DEF n
    <3> QED
      BY <1>0, <1>6, <3>1, <3>2 DEF FindAnswer, ReceiveOK
  <2>3. SendOK'
    BY <1>0, <1>6, Kept DEF FindAnswer
  <2>4. CASE /\ op.kind = "write"
             /\ op' = [op EXCEPT !.pc = "flash"]
             /\ UNCHANGED <<inflight, cancelled>>
    <3>1. op' \in Op /\ op'.pc = "flash" /\ op'.kind = op.kind
      BY <1>0, <1>1, <2>4, OpMoves
    <3>2. Consistent'
      BY <1>6, <2>1, <2>4, <3>1, PastFirstFrame, MovesConsistent
         DEF FindAnswer, Writing, counters, flags
    <3>3. PedalOK'
      BY <1>0, <1>6, Kept DEF FindAnswer, TypeOK
    <3>4. TypeOK'
      BY <1>0, <1>3, <1>4, <1>6, <2>2, <2>3, <2>4, <3>1, <3>3
         DEF FindAnswer, TypeOK
    <3> QED
      BY <3>2, <3>4 DEF IInv
  <2>5. CASE Finish
    BY <1>0, <1>1, <1>3, <1>4, <1>6, <2>1, <2>2, <2>3, <2>5, FinishInv
       DEF FindAnswer
  <2> QED
    BY <1>6, <2>4, <2>5 DEF FindAnswer
<1>7. CASE FindNothing
  <2>1. op' = [op EXCEPT !.pc = "unanswered", !.owed = Owed(op.ch)]
    BY <1>7 DEF FindNothing
  <2>2. op'.pc = "unanswered" /\ op'.kind = op.kind
    BY <1>0, <2>1 DEF Op
  <2>3. op' \in Op
    <3>1. "unanswered" \in OpPlaces /\ Owed(op.ch) \in BOOLEAN
      BY <1>1 DEF Owed
    <3> QED
      BY Zenon, <1>0, <2>1, <3>1 DEF Op
  <2>4. ReceiveOK'
    <3>1. DropMessages(buf[op.ch]) \in Seq(Piece)
      BY <1>2, DropKeepsType
    <3> QED
      BY <1>0, <1>7, <3>1 DEF FindNothing, ReceiveOK
  <2>5. SendOK'
    BY <1>0, <1>7, Kept DEF FindNothing
  <2> QED
    BY <1>3, <1>7, <2>2, <2>3, <2>4, <2>5, AwaitMoves DEF FindNothing
<1>8. CASE GiveUpDead
  BY <1>0, <1>1, <1>3, <1>4, <1>8, Kept, FinishInv DEF GiveUpDead
<1>9. CASE NothingOwed
  <2>1. op' \in Op /\ op'.pc = "wait" /\ op'.kind = op.kind
    BY <1>0, <1>1, <1>9, OpMoves DEF NothingOwed
  <2> QED
    BY <1>0, <1>3, <1>9, <2>1, Kept, AwaitMoves DEF NothingOwed
<1>10. CASE AckOwed
  <2>1. CASE /\ Send(op.ch, "ack", NoTxn, TRUE)
             /\ op' = [op EXCEPT !.pc = "wait", !.owed = FALSE]
             /\ UNCHANGED <<counters, inflight, cancelled, abandoned>>
    <3>1. op'.pc = "wait" /\ op'.kind = op.kind
      BY <1>0, <2>1 DEF Op
    <3>2. op' \in Op
      <4>1. "wait" \in OpPlaces /\ FALSE \in BOOLEAN
        BY <1>1
      <4>2. op' = [op EXCEPT !.pc = "wait", !.owed = FALSE]
        BY <2>1
      <4> QED
        BY Zenon, <1>0, <4>1, <4>2 DEF Op
    <3>3. SendOK'
      BY <1>0, <2>1, SmallValues, SendKeeps
    <3>4. ReceiveOK'
      BY <1>0, <1>10, Kept DEF AckOwed
    <3> QED
      BY <1>3, <1>10, <2>1, <3>1, <3>2, <3>3, <3>4, AwaitMoves DEF AckOwed
  <2>2. CASE /\ Fault("sendfail") /\ SendFails(op.ch, "ack", NoTxn, TRUE)
             /\ Finish /\ abandoned' = TRUE
    <3>1. CountsOK' /\ UNCHANGED ops
      BY <1>0, <2>2, FaultKeeps
    <3>2. SendOK' /\ ReceiveOK'
      BY <1>0, <1>10, <2>2, SmallValues, FailKeeps, Kept DEF AckOwed
    <3> QED
      BY <1>0, <1>1, <1>4, <1>10, <2>2, <3>1, <3>2, FinishInv DEF AckOwed
  <2> QED
    BY <1>10, <2>1, <2>2 DEF AckOwed
<1>11. CASE Wake
  <2>1. op' \in Op /\ op'.pc = "look" /\ op'.kind = op.kind
    BY <1>0, <1>1, <1>11, OpMoves DEF Wake
  <2>2. ReceiveOK'
    <3>1. arrived' \in [Channels -> BOOLEAN]
      BY <1>0, <1>11 DEF Wake, ReceiveOK
    <3> QED
      BY <1>0, <1>11, <3>1 DEF Wake, ReceiveOK
  <2>3. SendOK'
    BY <1>0, <1>11, Kept DEF Wake
  <2> QED
    BY <1>3, <1>11, <2>1, <2>2, <2>3, AwaitMoves DEF Wake
<1>12. CASE WaitExpires
  <2>1. CountsOK' /\ UNCHANGED ops
    BY <1>0, <1>12, FaultKeeps DEF WaitExpires
  <2> QED
    BY <1>0, <1>1, <1>4, <1>12, <2>1, Kept, FinishInv DEF WaitExpires
<1>13. CASE Settled
  BY <1>0, <1>1, <1>3, <1>4, <1>13, Kept, FinishInv DEF Settled
<1> QED
  BY <1>5, <1>6, <1>7, <1>8, <1>9, <1>10, <1>11, <1>12, <1>13 DEF Await
-----------------------------------------------------------------------------
\* A goodbye starts each of its rounds at the first channel.
LEMMA RoundStarts ==
  ASSUME NEW p \in Leaving
  PROVE  /\ At(p) \in Op /\ At(p).kind = "close" /\ At(p).pc = p
         /\ At(p).at = 1 /\ 1 \in 1..Len(ChannelOrder)
<1>1. Len(ChannelOrder) \in Nat /\ 1 \in 1..Len(ChannelOrder)
  BY SessionAssumption, LenProperties DEF Channels
<1>2. p \in OpPlaces /\ "data" \in Channels /\ NoTxn \in Txns
  BY SessionAssumption, SmallValues DEF OpPlaces
<1>3. At(p) = [kind |-> "close", pc |-> p, ch |-> "data", txn |-> NoTxn,
               left |-> 0, moved |-> FALSE, owed |-> FALSE, at |-> 1]
  <2>1. At(p) = [Idle EXCEPT !.kind = "close", !.pc = p, !.at = 1]
    BY Zenon DEF At
  <2> QED
    BY <2>1 DEF Idle
<1>4. 0 \in 0..Chunks /\ 1 \in 0..Len(ChannelOrder)
  BY <1>1, SessionAssumption
<1> QED
  BY <1>1, <1>2, <1>3, <1>4 DEF Op

\* A step of the goodbye stays consistent when it has sent nothing by then or
\* the acknowledger is not holding the send lock.
LEMMA LeavesConsistent ==
  ASSUME IInv, op' \in Op, op'.kind = "close", op'.pc \in Leaving, op'.at # 0,
         inflight = 0, inflight' = 0, closing' = TRUE,
         SendMuFree \/ ~NothingSentYet \/ NothingSentYet',
         UNCHANGED <<txn, ops, ack>>
  PROVE  Consistent'
<1>1. OpShape'
  BY DEF OpShape, Leaving
<1>2. FlagsAgree' /\ TxnsBounded'
  BY DEF IInv, Consistent, FlagsAgree, TxnsBounded
<1>3. IdleAckStaysOut'
  BY DEF IInv, Consistent, IdleAckStaysOut, SendMuFree
<1> QED
  BY <1>1, <1>2, <1>3 DEF Consistent

\* A round of the goodbye, over the channels in the order they were opened.
LEMMA FarewellInv ==
  ASSUME IInv, NEW kind \in {"ack", "hello"}, NEW next \in Leaving,
         Farewell(kind, next)
  PROVE  IInv'
<1>0. /\ TypeOK /\ Consistent /\ op \in Op
      /\ SendOK /\ ReceiveOK /\ FlagsOK /\ CountsOK
  BY DEF IInv, TypeOK
<1>1. /\ op.kind = "close" /\ op.pc = kind /\ op.at # 0
      /\ op.at \in 1..Len(ChannelOrder) /\ SendMuFree
      /\ closing = TRUE /\ inflight = 0
  <2>1. op.kind = "close" /\ op.pc = kind /\ op.at # 0 /\ SendMuFree
    BY <1>0 DEF Farewell, Closing, Consistent, OpShape
  <2>2. Len(ChannelOrder) \in Nat /\ op.at \in 0..Len(ChannelOrder)
    BY <1>0, SessionAssumption, LenProperties DEF Op
  <2>3. op.at \in 1..Len(ChannelOrder)
    BY <2>1, <2>2
  <2>4. closing = TRUE /\ inflight = 0
    BY <1>0, <2>1 DEF Consistent, FlagsAgree, FlagsOK
  <2> QED
    BY <2>1, <2>3, <2>4
<1>2. SendOK' /\ CountsOK' /\ UNCHANGED ops
  <2>1. CASE /\ Send(ChannelOrder[op.at], kind, NoTxn, TRUE)
             /\ UNCHANGED counters
    <3>1. ChannelOrder[op.at] \in Channels
      BY <1>1, SessionAssumption, LenProperties DEF Channels
    <3>2. SendOK'
      BY <1>0, <2>1, <3>1, SmallValues, SendKeeps
    <3> QED
      BY <1>0, <2>1, <3>2, Kept DEF counters
  <2>2. CASE /\ Fault("sendfail")
             /\ SendFails(ChannelOrder[op.at], kind, NoTxn, TRUE)
    <3>1. ChannelOrder[op.at] \in Channels
      BY <1>1, SessionAssumption, LenProperties DEF Channels
    <3> QED
      BY <1>0, <2>2, <3>1, SmallValues, FailKeeps, FaultKeeps
  <2> QED
    BY <2>1, <2>2 DEF Farewell
<1>3. op' \in Op /\ op'.kind = "close" /\ op'.pc \in Leaving /\ op'.at # 0
  <2>1. CASE op.at = Len(ChannelOrder)
    BY <2>1, RoundStarts DEF Farewell
  <2>2. CASE op.at # Len(ChannelOrder)
    <3>1. op' = [op EXCEPT !.at = op.at + 1]
      BY <2>2 DEF Farewell
    <3>2. op.at + 1 \in 0..Len(ChannelOrder) /\ op.at + 1 # 0
      BY <1>1, <2>2, SessionAssumption, LenProperties
    <3> QED
      BY <1>0, <1>1, <3>1, <3>2 DEF Op, Leaving
  <2> QED
    BY <2>1, <2>2
<1>4. Consistent'
  BY <1>1, <1>2, <1>3, LeavesConsistent DEF Farewell, flags
<1>5. TypeOK'
  BY <1>0, <1>2, <1>3, Kept DEF Farewell, TypeOK
<1> QED
  BY <1>4, <1>5 DEF IInv

\* The end of a drain throws the buffers away and leaves the rest alone.
LEMMA DrainKeeps ==
  ASSUME TypeOK, NEW budget, DrainEnds(budget)
  PROVE  /\ SendOK' /\ ReceiveOK' /\ PedalOK' /\ CountsOK' /\ UNCHANGED ops
         /\ quiet' \in 0..DrainQuietRuns
<1>1. ReceiveOK'
  <2>1. <<>> \in Seq(Piece)
    BY EmptySeq
  <2> QED
    BY <2>1 DEF DrainEnds, TypeOK, ReceiveOK
<1>2. quiet' \in 0..DrainQuietRuns
  BY SessionAssumption DEF DrainEnds
<1> QED
  BY <1>1, <1>2, Kept DEF DrainEnds, TypeOK, counters

\* Close keeps the invariant, from its first step to letting the interface go.
LEMMA CloseInv == IInv /\ (BeginClose \/ Close) => IInv'
<1> SUFFICES ASSUME IInv, BeginClose \/ Close PROVE IInv'
  OBVIOUS
<1>0. /\ TypeOK /\ Consistent /\ op \in Op
      /\ SendOK /\ ReceiveOK /\ FlagsOK /\ CountsOK /\ PedalOK
  BY DEF IInv, TypeOK
<1>1. /\ "drain" \in Leaving /\ "ack" \in Leaving /\ "hello" \in Leaving
      /\ "drainAgain" \in Leaving /\ "stopping" \in Leaving
      /\ "released" \in Leaving
  BY DEF Leaving
<1>2. op.kind = "close" => closing = TRUE /\ inflight = 0
  BY <1>0 DEF Consistent, FlagsAgree, FlagsOK
<1>3. CASE BeginClose
  <2>1. op.kind = "none" /\ inflight = 0
    BY <1>0, <1>3, KindAt DEF BeginClose, Consistent, FlagsAgree
  <2>2. op' = At("drain") /\ closing' = TRUE
    BY <1>3 DEF BeginClose
  <2>3. NothingSentYet'
    BY <1>1, <2>2, RoundStarts DEF NothingSentYet, Closing
  <2>4. Consistent'
    BY <1>1, <1>3, <2>1, <2>2, <2>3, RoundStarts, LeavesConsistent
       DEF BeginClose, counters
  <2>5. FlagsOK'
    BY <1>0, <1>3 DEF BeginClose, FlagsOK
  <2>6. quiet' \in 0..DrainQuietRuns
    BY <1>3, SessionAssumption DEF BeginClose
  <2>7. TypeOK'
    BY <1>0, <1>1, <1>3, <2>2, <2>5, <2>6, Kept, RoundStarts
       DEF BeginClose, TypeOK
  <2> QED
    BY <2>4, <2>7 DEF IInv
<1>4. CASE DrainFirst
  <2>1. op.kind = "close" /\ op' = At("ack") /\ UNCHANGED flags
    BY <1>4 DEF DrainFirst, Closing
  <2>2. NothingSentYet'
    BY <1>1, <2>1, RoundStarts DEF NothingSentYet, Closing
  <2>3. Consistent'
    BY <1>1, <1>2, <1>4, <2>1, <2>2, RoundStarts, LeavesConsistent
       DEF DrainFirst, DrainEnds, counters, flags
  <2>4. TypeOK'
    BY <1>0, <1>1, <1>4, <2>1, DrainKeeps, Kept, RoundStarts
       DEF DrainFirst, DrainEnds, TypeOK
  <2> QED
    BY <2>3, <2>4 DEF IInv
<1>5. CASE FarewellAck
  BY <1>1, <1>5, FarewellInv DEF FarewellAck
<1>6. CASE FarewellHello
  BY <1>1, <1>6, FarewellInv DEF FarewellHello
<1>7. CASE DrainAgain
  <2>1. /\ op.kind = "close" /\ op.pc = "drainAgain" /\ op' = At("stopping")
        /\ UNCHANGED closing
    BY <1>7 DEF DrainAgain, Closing
  <2>2. ~NothingSentYet
    BY <2>1 DEF NothingSentYet, Closing
  <2>3. Consistent'
    BY <1>1, <1>2, <1>7, <2>1, <2>2, RoundStarts, LeavesConsistent
       DEF DrainAgain, DrainEnds, counters
  <2>4. FlagsOK'
    BY <1>0, <1>7 DEF DrainAgain, FlagsOK
  <2>5. TypeOK'
    BY <1>0, <1>1, <1>7, <2>1, <2>4, DrainKeeps, RoundStarts
       DEF DrainAgain, DrainEnds, TypeOK
  <2> QED
    BY <2>3, <2>5 DEF IInv
<1>8. CASE Release
  <2>1. /\ op.kind = "close" /\ op.pc = "stopping" /\ op' = At("released")
        /\ UNCHANGED closing
    BY <1>8 DEF Release, Closing
  <2>2. ~NothingSentYet
    BY <2>1 DEF NothingSentYet, Closing
  <2>3. Consistent'
    BY <1>1, <1>2, <1>8, <2>1, <2>2, RoundStarts, LeavesConsistent
       DEF Release, counters
  <2>4. FlagsOK'
    BY <1>0, <1>8 DEF Release, FlagsOK
  <2>5. TypeOK'
    BY <1>0, <1>1, <1>8, <2>1, <2>4, Kept, RoundStarts DEF Release, TypeOK
  <2> QED
    BY <2>3, <2>5 DEF IInv
<1> QED
  BY <1>3, <1>4, <1>5, <1>6, <1>7, <1>8 DEF Close
-----------------------------------------------------------------------------
\* Every step keeps the invariant, and so does a stutter.
LEMMA StepInv == IInv /\ [Next]_vars => IInv'
<1> SUFFICES ASSUME IInv, [Next]_vars PROVE IInv'
  OBVIOUS
<1>1. CASE Next
  <2>1. CASE BeginCall \/ BeginWrite \/ Cancel \/ SendRequest
    BY <2>1, RequestInv
  <2>2. CASE BeginClose \/ Close
    BY <2>2, CloseInv
  <2>3. CASE Loop
    BY <2>3, LoopInv
  <2>4. CASE Acknowledger
    BY <2>4, AcknowledgerInv
  <2>5. CASE Stream
    BY <2>5, StreamInv
  <2>6. CASE Await \/ Settled
    BY <2>6, AwaitInv
  <2>7. CASE Device
    BY <2>7, DeviceInv
  <2> QED
    BY <1>1, <2>1, <2>2, <2>3, <2>4, <2>5, <2>6, <2>7 DEF Next, Operation
<1>2. CASE UNCHANGED vars
  <2>1. TypeOK'
    BY <1>2, Kept DEF IInv, TypeOK, vars
  <2>2. Consistent'
    BY <1>2, ConsistentKept DEF IInv, vars, counters, flags
  <2> QED
    BY <2>1, <2>2 DEF IInv
<1> QED
  BY <1>1, <1>2

\* The invariant holds throughout.
LEMMA Invariance == Spec => []IInv
BY InitInv, StepInv, PTL DEF Spec

\* Every variable keeps to its type, for any number of chunks, reply frames
\* and window, and any faults (the session struct, conversation.go).
THEOREM TypeCorrect == Spec => []TypeOK
<1>1. IInv => TypeOK
  BY DEF IInv
<1> QED
  BY <1>1, Invariance, PTL

\* Whatever the interleaving and whatever fails, the acknowledger never sends
\* an idle acknowledgement into an exchange, between the chunks of a write, in
\* the flash pause or inside the goodbye (idleAck and idleDue, loop.go).
THEOREM IdleAckStaysOutHolds == Spec => []IdleAckStaysOut
<1>1. IInv => IdleAckStaysOut
  BY DEF IInv, Consistent
<1> QED
  BY <1>1, Invariance, PTL
-----------------------------------------------------------------------------
\* Once the interface is let go, every goroutine of the session is at rest.
AtRest == released => op.pc = "released" /\ loop = "gone" /\ ack.pc = "gone"

\* No step but Release lets the interface go, and it does so at rest.
LEMMA OnlyRelease ==
  ASSUME IInv, ~released, Next, released'
  PROVE  op'.pc = "released" /\ loop' = "gone" /\ ack'.pc = "gone"
<1>1. CASE Release
  <2>1. op' = At("released") /\ loop = "gone" /\ ack.pc = "gone"
        /\ UNCHANGED <<loop, ack>>
    BY <1>1 DEF Release
  <2> QED
    BY <2>1, RoundStarts DEF Leaving
<1>2. CASE DrainFirst \/ FarewellAck \/ FarewellHello \/ DrainAgain \/ BeginClose
  BY <1>2 DEF DrainFirst, FarewellAck, FarewellHello, Farewell, DrainAgain,
              BeginClose, flags
<1>3. CASE BeginCall \/ BeginWrite \/ Cancel \/ SendRequest
  BY <1>3 DEF BeginCall, BeginWrite, Begin, Cancel, SendRequest, flags
<1>4. CASE Loop
  BY <1>4 DEF Loop, ReadFrame, ReadNothing, ReadFails, LoopStops, flags
<1>5. CASE Acknowledger
  BY <1>5 DEF Acknowledger, AckLeaves, AckSends, AckDecides, flags
<1>6. CASE Stream
  BY <1>6 DEF Stream, MarkChunk, SendChunk, PaceAcked, PaceDead, PaceExpires,
              flags
<1>7. CASE Await \/ Settled
  BY <1>7 DEF Await, StopLooking, FindAnswer, FindNothing, GiveUpDead,
              NothingOwed, AckOwed, Wake, WaitExpires, Settled, flags
<1>8. CASE Device
  BY <1>8 DEF Device, DevAcks, DevKeepsQuiet, DevTakes, DevFeeds, DevNotifies,
              DevRepeats, flags
<1> QED
  BY <1>1, <1>2, <1>3, <1>4, <1>5, <1>6, <1>7, <1>8 DEF Next, Operation, Close

\* A session at rest takes no step: only a caller's context can still end, and
\* no call is under way for it to end.
LEMMA RestIsFinal ==
  ASSUME IInv, AtRest, released
  PROVE  ~Next
<1>1. op.pc = "released" /\ loop = "gone" /\ ack.pc = "gone" /\ op.kind = "close"
  BY KindAt DEF AtRest, IInv, Consistent, Leaving
<1>2. ~Loop
  BY <1>1 DEF Loop, ReadFrame, ReadNothing, ReadFails, LoopStops
<1>3. ~Acknowledger
  BY <1>1 DEF Acknowledger, AckLeaves, AckSends, AckDecides
<1>4. ~(BeginCall \/ BeginWrite \/ BeginClose \/ Cancel \/ SendRequest)
  BY <1>1 DEF BeginCall, BeginWrite, Begin, BeginClose, Cancel, SendRequest
<1>5. ~Stream
  BY <1>1 DEF Stream, MarkChunk, SendChunk, PaceAcked, PaceDead, PaceExpires
<1>6. ~(Await \/ Settled)
  BY <1>1 DEF Await, StopLooking, FindAnswer, FindNothing, GiveUpDead,
              NothingOwed, AckOwed, Wake, WaitExpires, Settled
<1>7. ~Close
  BY <1>1 DEF Close, DrainFirst, FarewellAck, FarewellHello, Farewell,
              DrainAgain, Release, Closing
<1>8. ~Device
  BY DEF Device
<1> QED
  BY <1>2, <1>3, <1>4, <1>5, <1>6, <1>7, <1>8 DEF Next, Operation

\* Once Close has let the interface go no goroutine reads from it or writes to
\* it (close and Close, conversation.go).
THEOREM NothingAfterReleaseHolds == Spec => NothingAfterRelease
<1>1. Init => AtRest
  BY DEF Init, AtRest
<1>2. IInv /\ AtRest /\ [Next]_vars => AtRest'
  <2> SUFFICES ASSUME IInv, AtRest, [Next]_vars PROVE AtRest'
    OBVIOUS
  <2>1. CASE UNCHANGED vars
    BY <2>1 DEF AtRest, vars, flags
  <2>2. CASE Next /\ released
    BY <2>2, RestIsFinal
  <2>3. CASE Next /\ ~released
    BY <2>3, OnlyRelease DEF AtRest
  <2> QED
    BY <2>1, <2>2, <2>3
<1>3. IInv /\ AtRest /\ [Next]_vars
        => [released => UNCHANGED <<seq, ackSent, receive, quiet>>]_vars
  BY RestIsFinal DEF vars, outgoing
<1> QED
  BY <1>1, <1>2, <1>3, Invariance, PTL DEF Spec, NothingAfterRelease

-----------------------------------------------------------------------------
(***************************************************************************)
(* What holds of the streams between a session and its pedal, for every    *)
(* number of channels, chunks, reply frames and notices, every window and  *)
(* counter modulus.                                                        *)
(*                                                                         *)
(* What is buffered or on its way is a sequence read at one end and        *)
(* written at the other.  Each invariant says how one end leads to the     *)
(* other through what lies between, and so has a witness v: v[i] is what   *)
(* the i-th frame or reply on its way finds.                               *)
(*                                                                         *)
(*   SeqContiguous   Numbered: the numbers run from the pedal's next to    *)
(*                   the session's next, on each channel                   *)
(*   BufferFramed    Framed: the pieces run from the head of the buffer to *)
(*                   the end of what the pedal has to say                  *)
(*   WritesStayWhole Unbroken: a message goes on from what the pedal has   *)
(*                   of it to what its write has still to send; and        *)
(*                   Paced: what is on its way is unanswered, or the news  *)
(*                   that it was taken come before its answer              *)
(*                                                                         *)
(* WritesStayWhole needs that no chunk fails with part of its message      *)
(* sent: with "midfail" or "startfail" among Faults it does not hold.      *)
(***************************************************************************)

\* A frame that leaves goes behind those on their way.
LEMMA FrameLeaves ==
  ASSUME SendOK, NEW d, NEW kind, NEW t, NEW last, NEW failed,
         Leaves(d, kind, t, last, failed)
  PROVE  /\ Len(toDev) \in Nat /\ Len(toDev') = Len(toDev) + 1
         /\ \A i \in 1 .. Len(toDev) : toDev'[i] = toDev[i]
         /\ toDev'[Len(toDev) + 1] = [ch |-> d, kind |-> kind, seq |-> seq[d],
                                      ack |-> rxBytes[d], txn |-> t, last |-> last,
                                      failed |-> failed]
<1> DEFINE f == [ch |-> d, kind |-> kind, seq |-> seq[d], ack |-> rxBytes[d],
                 txn |-> t, last |-> last, failed |-> failed]
<1>1. toDev' = Append(toDev, f)
  BY DEF Leaves
<1> HIDE DEF f
<1>2. toDev \in Seq(Frame) /\ Len(toDev) \in Nat
  BY LenProperties DEF SendOK
<1>3. /\ Len(toDev') = Len(toDev) + 1 /\ toDev'[Len(toDev) + 1] = f
      /\ \A i \in 1 .. Len(toDev) : toDev'[i] = toDev[i]
  BY <1>1, <1>2
<1> QED
  BY <1>2, <1>3 DEF f

\* A frame leaves, reported as sent or as failed.
Departs(d, kind, t, last) == \E failed \in BOOLEAN : Leaves(d, kind, t, last, failed)

\* It is behind those on their way, and is what was to leave.
LEMMA FrameSent ==
  ASSUME SendOK, NEW d, NEW kind, NEW t, NEW last, Departs(d, kind, t, last)
  PROVE  \E f : /\ Len(toDev) \in Nat /\ Len(toDev') = Len(toDev) + 1
                /\ \A i \in 1 .. Len(toDev) : toDev'[i] = toDev[i]
                /\ toDev'[Len(toDev) + 1] = f /\ toDev' = Append(toDev, f)
                /\ f.ch = d /\ f.kind = kind /\ f.txn = t /\ f.last = last
<1>1. PICK failed \in BOOLEAN : Leaves(d, kind, t, last, failed)
  BY DEF Departs
<1> DEFINE f == [ch |-> d, kind |-> kind, seq |-> seq[d], ack |-> rxBytes[d],
                 txn |-> t, last |-> last, failed |-> failed]
<1>2. toDev' = Append(toDev, f)
  BY <1>1 DEF Leaves
<1>3. /\ Len(toDev) \in Nat /\ Len(toDev') = Len(toDev) + 1
      /\ \A i \in 1 .. Len(toDev) : toDev'[i] = toDev[i]
      /\ toDev'[Len(toDev) + 1] = f
  BY <1>1, FrameLeaves
<1>4. f.ch = d /\ f.kind = kind /\ f.txn = t /\ f.last = last
  OBVIOUS
<1> HIDE DEF f
<1> QED
  BY <1>2, <1>3, <1>4

\* What a write does to the frames on their way.
LEMMA WriteDeparts ==
  ASSUME NEW d, NEW kind, NEW t, NEW last
  PROVE  /\ Send(d, kind, t, last) => Departs(d, kind, t, last)
         /\ SendFails(d, kind, t, last) => UNCHANGED toDev \/ Departs(d, kind, t, last)
BY DEF Send, SendFails, Departs

\* The pedal takes the first.
LEMMA FrameTaken ==
  ASSUME SendOK, NEW acked, DevTakes(acked)
  PROVE  /\ Len(toDev) \in Nat /\ Len(toDev) >= 1 /\ Len(toDev') = Len(toDev) - 1
         /\ \A i \in 1 .. Len(toDev') : toDev'[i] = toDev[i + 1]
         /\ Head(toDev) = toDev[1] /\ toDev[1] \in Frame
<1>1. toDev \in Seq(Frame) /\ toDev # <<>> /\ toDev' = Tail(toDev)
  BY DEF SendOK, DevTakes
<1>2. Len(toDev) \in Nat /\ Len(toDev) >= 1
  BY <1>1, LenProperties, EmptySeq
<1> QED
  BY <1>1, <1>2

-----------------------------------------------------------------------------
\* The numbers of the frames on their way, on one channel: the i-th frame
\* finds the channel at v[i].
Numbered(c) ==
  \E v \in [1 .. Len(toDev) + 1 -> Counter] :
    /\ v[1] = devSeq[c] /\ v[Len(toDev) + 1] = seq[c]
    /\ \A i \in 1 .. Len(toDev) :
         IF toDev[i].ch = c THEN toDev[i].seq = v[i] /\ v[i + 1] = Following(toDev[i])
                            ELSE v[i + 1] = v[i]

\* A frame that leaves bears the next one, which is the next one's too when the
\* bus reports it as failed.
LEMMA LeavesNumbered ==
  ASSUME SendOK, NEW d \in Channels, NEW kind, NEW t, NEW last,
         NEW failed \in BOOLEAN, Leaves(d, kind, t, last, failed),
         seq' = IF failed THEN seq ELSE [seq EXCEPT ![d] = Inc(@)],
         UNCHANGED devSeq, NEW c \in Channels, Numbered(c)
  PROVE  Numbered(c)'
<1> DEFINE n == Len(toDev)
<1>1. /\ n \in Nat /\ Len(toDev') = n + 1
      /\ \A i \in 1 .. n : toDev'[i] = toDev[i]
      /\ toDev'[n + 1].ch = d /\ toDev'[n + 1].seq = seq[d]
      /\ toDev'[n + 1].failed = failed
  <2>1. toDev'[n + 1] = [ch |-> d, kind |-> kind, seq |-> seq[d],
                         ack |-> rxBytes[d], txn |-> t, last |-> last,
                         failed |-> failed]
    BY FrameLeaves
  <2> QED
    BY <2>1, FrameLeaves
<1>2. PICK v \in [1 .. n + 1 -> Counter] :
        /\ v[1] = devSeq[c] /\ v[n + 1] = seq[c]
        /\ \A i \in 1 .. n :
             IF toDev[i].ch = c THEN toDev[i].seq = v[i] /\ v[i + 1] = Following(toDev[i])
                                ELSE v[i + 1] = v[i]
  BY DEF Numbered
<1> DEFINE next == IF d = c /\ ~failed THEN Inc(seq[c]) ELSE seq[c]
           w == [i \in 1 .. n + 2 |-> IF i = n + 2 THEN next ELSE v[i]]
<1>3. seq'[c] = next /\ next \in Counter
  BY CounterStep DEF SendOK
<1> HIDE DEF n, next
<1>4. w \in [1 .. n + 2 -> Counter] /\ w[n + 2] = next /\ \A i \in 1 .. n + 1 : w[i] = v[i]
  BY <1>1, <1>2, <1>3
<1> HIDE DEF w
<1>5. w[1] = devSeq'[c]
  BY <1>1, <1>2, <1>4
<1>6. ASSUME NEW i \in 1 .. n + 1
      PROVE  IF toDev'[i].ch = c THEN toDev'[i].seq = w[i] /\ w[i + 1] = Following(toDev'[i])
                                 ELSE w[i + 1] = w[i]
  <2>1. CASE i = n + 1
    <3>1. /\ w[i] = seq[c] /\ w[i + 1] = next /\ toDev'[i].ch = d
          /\ toDev'[i].seq = seq[d] /\ toDev'[i].failed = failed
      BY <1>1, <1>2, <1>4, <2>1
    <3> QED
      BY <3>1 DEF next, Following
  <2>2. CASE i \in 1 .. n
    BY <1>1, <1>2, <1>4, <2>2
  <2> QED
    BY <1>1, <2>1, <2>2
<1>7. Len(toDev') + 1 = n + 2 /\ 1 .. Len(toDev') = 1 .. n + 1
  BY <1>1
<1> QED
  BY <1>3, <1>4, <1>5, <1>6, <1>7 DEF Numbered

\* So does one that is sent, and one that may have landed though it failed.
LEMMA SendNumbered ==
  ASSUME SendOK, NEW d \in Channels, NEW kind, NEW t, NEW last,
         Send(d, kind, t, last) \/ SendFails(d, kind, t, last),
         UNCHANGED devSeq, NEW c \in Channels, Numbered(c)
  PROVE  Numbered(c)'
<1>1. CASE Send(d, kind, t, last)
  BY <1>1, LeavesNumbered DEF Send
<1>2. CASE UNCHANGED <<toDev, seq>>
  BY <1>2 DEF Numbered
<1>3. CASE Leaves(d, kind, t, last, TRUE) /\ UNCHANGED seq
  BY <1>3, LeavesNumbered
<1> QED
  BY <1>1, <1>2, <1>3 DEF SendFails

\* The frame the pedal takes bears the number it expects.
LEMMA TakeNumbered ==
  ASSUME SendOK, NEW acked, DevTakes(acked), PedalOK, NEW c \in Channels, Numbered(c)
  PROVE  Numbered(c)'
<1> DEFINE n == Len(toDev)
<1>1. /\ n \in Nat /\ n >= 1 /\ Len(toDev') = n - 1
      /\ \A i \in 1 .. n - 1 : toDev'[i] = toDev[i + 1]
      /\ Head(toDev) = toDev[1]
  BY FrameTaken
<1>2. PICK v \in [1 .. n + 1 -> Counter] :
        /\ v[1] = devSeq[c] /\ v[n + 1] = seq[c]
        /\ \A i \in 1 .. n :
             IF toDev[i].ch = c THEN toDev[i].seq = v[i] /\ v[i + 1] = Following(toDev[i])
                                ELSE v[i + 1] = v[i]
  BY DEF Numbered
<1> DEFINE w == [i \in 1 .. n |-> v[i + 1]]
<1>3. seq' = seq /\ devSeq' = [devSeq EXCEPT ![toDev[1].ch] = Following(toDev[1])]
  BY <1>1 DEF DevTakes
<1>4. devSeq'[c] = IF toDev[1].ch = c THEN Following(toDev[1]) ELSE devSeq[c]
  BY <1>3 DEF PedalOK
<1> HIDE DEF n
<1>5. v[2] = devSeq'[c]
  BY <1>1, <1>2, <1>4
<1>6. w \in [1 .. n -> Counter] /\ w[1] = v[2] /\ w[n] = v[n + 1]
      /\ \A i \in 1 .. n - 1 : w[i] = v[i + 1] /\ w[i + 1] = v[i + 2]
  BY <1>1, <1>2
<1> HIDE DEF w
<1>7. ASSUME NEW i \in 1 .. n - 1
      PROVE  IF toDev'[i].ch = c THEN toDev'[i].seq = w[i] /\ w[i + 1] = Following(toDev'[i])
                                 ELSE w[i + 1] = w[i]
  <2>1. i + 1 \in 1 .. n /\ (i + 1) + 1 = i + 2 /\ toDev'[i] = toDev[i + 1]
    BY <1>1
  <2> QED
    BY <1>2, <1>6, <2>1
<1>8. Len(toDev') + 1 = n /\ 1 .. Len(toDev') = 1 .. n - 1
  BY <1>1
<1> QED
  BY <1>2, <1>3, <1>5, <1>6, <1>7, <1>8 DEF Numbered

\* A step sends one frame, is the pedal taking one, or touches neither.
LEMMA StepNumbered ==
  ASSUME IInv, [Next]_vars, \A c \in Channels : Numbered(c)
  PROVE  \A c \in Channels : Numbered(c)'
<1>0. SendOK /\ ReceiveOK /\ PedalOK /\ op \in Op
      /\ ack \in [pc : {"select", "decided", "gone"}, ch : Channels]
  BY DEF IInv, TypeOK
<1>1. op.ch \in Channels /\ ack.ch \in Channels /\ "data" \in Channels
  BY <1>0, SessionAssumption DEF Op
<1>2. op.at \in 1 .. Len(ChannelOrder) => ChannelOrder[op.at] \in Channels
  BY DEF Channels
<1>3. op.kind = "close" => op.at \in 1 .. Len(ChannelOrder)
  BY <1>0, LenProperties, SessionAssumption DEF IInv, Consistent, OpShape, Op
<1>s. ASSUME NEW d \in Channels, NEW kind, NEW t, NEW last,
             Send(d, kind, t, last) \/ SendFails(d, kind, t, last),
             UNCHANGED devSeq
      PROVE  \A c \in Channels : Numbered(c)'
  BY <1>0, <1>s, SendNumbered
<1>u. ASSUME UNCHANGED <<toDev, seq, devSeq>>
      PROVE  \A c \in Channels : Numbered(c)'
  BY <1>u DEF Numbered
<1>4. CASE UNCHANGED vars
  BY <1>4, <1>u DEF vars, outgoing, pedal
<1>5. CASE BeginCall \/ BeginWrite \/ BeginClose \/ Cancel \/ Loop
  BY <1>5, <1>u DEF BeginCall, BeginWrite, Begin, BeginClose, Cancel, Loop, ReadFrame,
                    ReadNothing, ReadFails, LoopStops, outgoing, pedal
<1>6. CASE Acknowledger
  <2>1. CASE AckLeaves \/ \E c \in Channels : AckDecides(c)
    BY <1>u, <2>1 DEF AckLeaves, AckDecides, outgoing, pedal
  <2>2. CASE AckSends
    BY <1>1, <1>s, <1>u, <2>2 DEF AckSends, pedal
  <2> QED
    BY <1>6, <2>1, <2>2 DEF Acknowledger
<1>7. CASE Operation
  <2>1. CASE SendRequest
    BY <1>1, <1>s, <1>u, <2>1 DEF SendRequest, pedal
  <2>2. CASE SendChunk
    BY <1>1, <1>s, <1>u, <2>2 DEF SendChunk, pedal
  <2>3. CASE AckOwed
    BY <1>1, <1>s, <1>u, <2>3 DEF AckOwed, pedal
  <2>4. ASSUME NEW kind, NEW next, Farewell(kind, next)
        PROVE  \A c \in Channels : Numbered(c)'
    <3>1. ChannelOrder[op.at] \in Channels
      BY <1>2, <1>3, <2>4 DEF Farewell, Closing
    <3> QED
      BY <1>s, <1>u, <2>4, <3>1 DEF Farewell, pedal
  <2>5. CASE MarkChunk \/ PaceAcked \/ PaceDead \/ PaceExpires \/ Settled
    BY <1>u, <2>5 DEF MarkChunk, PaceAcked, PaceDead, PaceExpires, Settled, outgoing, pedal
  <2>6. CASE StopLooking \/ FindAnswer \/ FindNothing \/ GiveUpDead
             \/ NothingOwed \/ Wake \/ WaitExpires
    BY <1>u, <2>6 DEF StopLooking, FindAnswer, FindNothing, GiveUpDead, NothingOwed,
                      Wake, WaitExpires, outgoing, pedal
  <2>7. CASE DrainFirst \/ DrainAgain \/ Release
    BY <1>u, <2>7 DEF DrainFirst, DrainAgain, DrainEnds, Release, outgoing, pedal
  <2> QED
    BY <1>7, <2>1, <2>2, <2>3, <2>4, <2>5, <2>6, <2>7
       DEF Operation, Stream, Await, Close, FarewellAck, FarewellHello
<1>8. CASE Device
  <2>1. ASSUME NEW acked, DevTakes(acked) PROVE \A c \in Channels : Numbered(c)'
    BY <1>0, <2>1, TakeNumbered
  <2>2. ASSUME NEW c \in Channels, DevFeeds(c) \/ DevNotifies(c) \/ DevRepeats(c)
        PROVE  \A d \in Channels : Numbered(d)'
    BY <1>u, <2>2 DEF DevFeeds, DevNotifies, DevRepeats, outgoing, pedal
  <2> QED
    BY <1>8, <2>1, <2>2 DEF Device, DevAcks, DevKeepsQuiet
<1> QED
  BY <1>4, <1>5, <1>6, <1>7, <1>8 DEF Next

\* The frames on their way to the pedal carry, on each channel, the numbers it
\* expects next, whichever goroutine sent them and whichever sends failed,
\* with no repeat but of a frame that landed though it was reported as failed
\* (sendLocked, transport.go).
THEOREM SeqContiguousHolds == Spec => []SeqContiguous
<1>1. Init => \A c \in Channels : Numbered(c)
  <2> SUFFICES ASSUME Init, NEW c \in Channels PROVE Numbered(c)
    OBVIOUS
  <2> DEFINE v == [i \in {1} |-> 0]
  <2>1. Len(toDev) = 0 /\ devSeq[c] = 0 /\ seq[c] = 0
    BY DEF Init
  <2>2. v \in [1 .. 1 -> Counter] /\ v[1] = 0
    BY CounterStep
  <2> HIDE DEF v
  <2> QED
    BY <2>1, <2>2 DEF Numbered
<1>2. IInv /\ (\A c \in Channels : Numbered(c)) => SeqContiguous
  <2> SUFFICES ASSUME IInv, \A c \in Channels : Numbered(c), NEW i \in 1 .. Len(toDev)
               PROVE  \/ Before(i) = {} /\ toDev[i].seq = devSeq[toDev[i].ch]
                      \/ \E j \in Before(i) : /\ \A k \in Before(i) : k <= j
                                              /\ toDev[i].seq = Following(toDev[j])
    BY LenProperties DEF SeqContiguous, IInv, TypeOK, SendOK
  <2>0. toDev \in Seq(Frame) /\ toDev[i] \in Frame
    BY ElementOfSeq DEF IInv, TypeOK, SendOK
  <2>1. PICK n \in Nat, c \in Channels : n = Len(toDev) /\ c = toDev[i].ch
    BY <2>0, LenProperties DEF Frame
  <2>2. PICK v : /\ v[1] = devSeq[c]
                 /\ \A k \in 1 .. n :
                      IF toDev[k].ch = c THEN toDev[k].seq = v[k] /\ v[k + 1] = Following(toDev[k])
                                         ELSE v[k + 1] = v[k]
    <3>1. PICK v \in [1 .. Len(toDev) + 1 -> Counter] :
            /\ v[1] = devSeq[c] /\ v[Len(toDev) + 1] = seq[c]
            /\ \A k \in 1 .. Len(toDev) :
                 IF toDev[k].ch = c THEN toDev[k].seq = v[k] /\ v[k + 1] = Following(toDev[k])
                                    ELSE v[k + 1] = v[k]
      BY Zenon DEF Numbered
    <3> QED
      BY <2>1, <3>1, Zenon
  <2>s. \A k \in 1 .. n : toDev[k].ch # c => v[k + 1] = v[k]
    BY <2>2
  <2>t. \A j \in 1 .. n + 1 : \A k \in j .. n + 1 :
          (\A l \in j .. k - 1 : toDev[l].ch # c) => v[k] = v[j]
    <3> SUFFICES ASSUME NEW j \in 1 .. n + 1, NEW k \in j .. n + 1,
                        \A l \in j .. k - 1 : toDev[l].ch # c,
                        v[k] # v[j]
                 PROVE  FALSE
      OBVIOUS
    <3> DEFINE T == {l \in j .. k : v[l] # v[j]}
    <3>1. T # {} /\ T \subseteq 1 .. n + 1 /\ n + 1 \in Nat
      BY <2>1
    <3>2. PICK m \in T : \A l \in T : m <= l
      BY <3>1, FirstPosition
    <3>3. m - 1 \in j .. k - 1 /\ m - 1 \notin T /\ m - 1 \in 1 .. n
      BY <2>1, <3>2
    <3>4. v[(m - 1) + 1] = v[m - 1] /\ (m - 1) + 1 = m
      BY <2>s, <3>3
    <3> QED
      BY <3>2, <3>3, <3>4
  <2>3. Before(i) \subseteq 1 .. i - 1 /\ \A k \in 1 .. i - 1 : toDev[k].ch = c => k \in Before(i)
    BY <2>1 DEF Before
  <2>4. CASE Before(i) = {}
    <3>1. v[i] = v[1]
      <4>1. 1 \in 1 .. n + 1 /\ i \in 1 .. n + 1
        BY <2>1
      <4> QED
        BY <2>1, <2>3, <2>4, <2>t, <4>1
    <3> QED
      BY <2>1, <2>2, <2>4, <3>1
  <2>5. CASE Before(i) # {}
    <3>1. PICK j \in Before(i) : \A k \in Before(i) : k <= j
      BY <2>1, <2>3, <2>5, LastPosition
    <3>2. j \in 1 .. i - 1 /\ toDev[j].ch = c /\ i \in 1 .. n
      BY <2>1, <2>3 DEF Before
    <3>3. v[i] = v[j + 1]
      <4>1. j + 1 \in 1 .. n + 1 /\ i \in j + 1 .. n + 1
        BY <2>1, <3>2
      <4>2. \A k \in j + 1 .. i - 1 : toDev[k].ch # c
        BY <2>1, <2>3, <3>1, <3>2
      <4> QED
        BY <2>1, <2>t, <4>1, <4>2
    <3>4. toDev[i].seq = v[i] /\ v[j + 1] = Following(toDev[j])
      BY <2>1, <2>2, <3>2
    <3> QED
      BY <3>1, <3>3, <3>4
  <2> QED
    BY <2>4, <2>5
<1>3. Spec => [](\A c \in Channels : Numbered(c))
  <2>1. IInv /\ (\A c \in Channels : Numbered(c)) /\ [Next]_vars
        => (\A c \in Channels : Numbered(c))'
    BY StepNumbered
  <2> QED
    BY <1>1, <2>1, Invariance, PTL DEF Spec
<1> QED
  BY <1>2, <1>3, Invariance, PTL

-----------------------------------------------------------------------------
\* The part of an envelope that comes after p.
NextPart(p) == IF p.last THEN 1 ELSE p.part + 1

\* The pieces of s follow one another, from part x.
Leads(s, x) ==
  /\ Len(s) # 0 => s[1].part = x
  /\ \A i \in 1 .. Len(s) - 1 : s[i + 1].part = NextPart(s[i])

\* The part that comes after them.
After(s, x) == IF Len(s) = 0 THEN x ELSE NextPart(s[Len(s)])

\* What is left after whole envelopes are cut off still begins with one.
LEMMA CutLeads ==
  ASSUME NEW b \in Seq(Piece), NEW n \in 0 .. Len(b), n # 0 => b[n].last, Leads(b, 1)
  PROVE  LET cut == SubSeq(b, n + 1, Len(b)) IN Leads(cut, 1) /\ After(cut, 1) = After(b, 1)
<1> DEFINE cut == SubSeq(b, n + 1, Len(b))
<1>1. /\ Len(b) \in Nat /\ Len(cut) = Len(b) - n
      /\ \A i \in 1 .. Len(b) - n : cut[i] = b[n + i]
  BY LenProperties
<1> HIDE DEF cut
<1>2. Len(cut) # 0 => cut[1].part = 1
  <2> SUFFICES ASSUME Len(cut) # 0 PROVE cut[1].part = 1
    OBVIOUS
  <2>1. cut[1] = b[n + 1]
    BY <1>1
  <2>2. CASE n = 0
    BY <1>1, <2>1, <2>2 DEF Leads
  <2>3. CASE n # 0
    BY <1>1, <2>1, <2>3 DEF Leads, NextPart
  <2> QED
    BY <2>2, <2>3
<1>3. ASSUME NEW i \in 1 .. Len(cut) - 1 PROVE cut[i + 1].part = NextPart(cut[i])
  <2>1. n + i \in 1 .. Len(b) - 1 /\ n + (i + 1) = (n + i) + 1
        /\ i \in 1 .. Len(b) - n /\ i + 1 \in 1 .. Len(b) - n
    BY <1>1
  <2>2. cut[i + 1] = b[(n + i) + 1] /\ cut[i] = b[n + i]
    BY <1>1, <2>1
  <2> QED
    BY <2>1, <2>2 DEF Leads
<1>4. After(cut, 1) = After(b, 1)
  <2>1. CASE Len(cut) = 0
    BY <1>1, <2>1 DEF After, NextPart
  <2>2. CASE Len(cut) # 0
    BY <1>1, <2>2 DEF After
  <2> QED
    BY <2>1, <2>2
<1> QED
  BY <1>2, <1>3, <1>4 DEF Leads, cut

\* A piece that is due goes well at the end.
LEMMA PieceLeads ==
  ASSUME NEW b \in Seq(Piece), NEW p \in Piece, Leads(b, 1), p.part = After(b, 1)
  PROVE  Leads(b \o <<p>>, 1) /\ After(b \o <<p>>, 1) = NextPart(p)
<1> DEFINE s == b \o <<p>>
<1>1. /\ Len(b) \in Nat /\ Len(s) = Len(b) + 1 /\ s[Len(b) + 1] = p
      /\ \A i \in 1 .. Len(b) : s[i] = b[i]
  BY LenProperties
<1> HIDE DEF s
<1>2. Len(s) # 0 => s[1].part = 1
  BY <1>1 DEF Leads, After
<1>3. ASSUME NEW i \in 1 .. Len(s) - 1 PROVE s[i + 1].part = NextPart(s[i])
  <2>1. CASE i = Len(b)
    BY <1>1, <2>1 DEF After
  <2>2. CASE i # Len(b)
    BY <1>1, <2>2 DEF Leads
  <2> QED
    BY <2>1, <2>2
<1>4. After(s, 1) = NextPart(p)
  BY <1>1 DEF After
<1> QED
  BY <1>2, <1>3, <1>4 DEF Leads, s

\* The first piece is the one due, the rest go on from it.
LEMMA TailLeads ==
  ASSUME NEW s \in Seq(Piece), s # <<>>, NEW x, Leads(s, x)
  PROVE  /\ Head(s).part = x
         /\ Leads(Tail(s), NextPart(Head(s)))
         /\ After(Tail(s), NextPart(Head(s))) = After(s, x)
<1> DEFINE u == Tail(s)
<1>1. /\ Len(s) \in Nat /\ Len(s) >= 1 /\ Len(u) = Len(s) - 1 /\ Head(s) = s[1]
      /\ \A i \in 1 .. Len(s) - 1 : u[i] = s[i + 1]
  BY LenProperties, EmptySeq
<1> HIDE DEF u
<1>2. Head(s).part = x
  BY <1>1 DEF Leads
<1>3. Leads(u, NextPart(Head(s)))
  <2>1. Len(u) # 0 => u[1].part = NextPart(s[1])
    BY <1>1 DEF Leads
  <2>2. ASSUME NEW i \in 1 .. Len(u) - 1 PROVE u[i + 1].part = NextPart(u[i])
    <3>1. u[i + 1] = s[(i + 1) + 1] /\ u[i] = s[i + 1] /\ i + 1 \in 1 .. Len(s) - 1
      BY <1>1
    <3> QED
      BY <3>1 DEF Leads
  <2> QED
    BY <1>1, <2>1, <2>2 DEF Leads
<1>4. After(u, NextPart(Head(s))) = After(s, x)
  BY <1>1 DEF After
<1> QED
  BY <1>2, <1>3, <1>4 DEF u

\* A whole envelope goes well where one is due, and leaves one due.
LEMMA EnvelopeLeads ==
  ASSUME NEW s \in Seq(Piece), NEW x, Leads(s, x), After(s, x) = 1,
         NEW t \in Txns, NEW n \in 1 .. ReplyFrames
  PROVE  Leads(s \o Pieces(t, n), x) /\ After(s \o Pieces(t, n), x) = 1
<1> DEFINE e == Pieces(t, n)
           r == s \o e
<1>1. e \in Seq(Piece) /\ n \in Nat /\ n >= 1
  BY PiecesType, SessionAssumption
<1>2. Len(e) = n /\ \A i \in 1 .. n : e[i] = [txn |-> t, part |-> i, last |-> i = n]
  BY <1>1 DEF Pieces
<1>e. \A i \in 1 .. n : /\ e[i].part = i
                        /\ i = n => e[i].last = TRUE
                        /\ i # n => e[i].last = FALSE
  <2> SUFFICES ASSUME NEW i \in 1 .. n
               PROVE  /\ e[i].part = i
                      /\ i = n => e[i].last = TRUE
                      /\ i # n => e[i].last = FALSE
    OBVIOUS
  <2> DEFINE ends == i = n
  <2>1. e[i] = [txn |-> t, part |-> i, last |-> ends]
    BY <1>2
  <2>2. (i = n => ends = TRUE) /\ (i # n => ends = FALSE)
    OBVIOUS
  <2> HIDE DEF e, ends
  <2>3. e[i].part = i /\ e[i].last = ends
    BY <2>1
  <2> QED
    BY <2>2, <2>3
<1> HIDE DEF e
<1>3. /\ Len(s) \in Nat /\ Len(r) = Len(s) + n
      /\ \A i \in 1 .. Len(s) : r[i] = s[i]
      /\ \A i \in 1 .. n : r[Len(s) + i] = e[i]
  <2>1. Len(s) \in Nat /\ Len(r) = Len(s) + n
    <3>1. e \in Seq(Piece) /\ Len(e) = n
      BY <1>1, <1>2
    <3>2. Len(s) \in Nat
      BY LenProperties
    <3>3. Len(s \o e) = Len(s) + Len(e)
      BY <3>1, ConcatProperties
    <3> QED
      BY <3>1, <3>2, <3>3
  <2>3. ASSUME NEW i \in 1 .. Len(s) PROVE r[i] = s[i]
    <3>1. i \in 1 .. Len(s) + Len(e) /\ i <= Len(s)
      BY <1>1, <1>2, <2>1
    <3> QED
      BY <1>1, <3>1, ConcatProperties
  <2>2. ASSUME NEW i \in 1 .. n PROVE r[Len(s) + i] = e[i]
    <3>1. Len(s) + i \in 1 .. Len(s) + n /\ Len(s) + i > Len(s) /\ (Len(s) + i) - Len(s) = i
      BY <1>1, <2>1
    <3> QED
      BY <1>1, <1>2, <3>1, ConcatProperties
  <2> QED
    BY <2>1, <2>2, <2>3
<1> HIDE DEF r
<1>4. Len(r) # 0 => r[1].part = x
  <2>1. CASE Len(s) = 0
    BY <1>1, <1>2, <1>3, <2>1 DEF After
  <2>2. CASE Len(s) # 0
    BY <1>1, <1>2, <1>3, <2>2 DEF Leads
  <2> QED
    BY <2>1, <2>2
<1>5. ASSUME NEW i \in 1 .. Len(r) - 1 PROVE r[i + 1].part = NextPart(r[i])
  <2>1. CASE i < Len(s)
    <3>1. i \in 1 .. Len(s) - 1 /\ i \in 1 .. Len(s) /\ i + 1 \in 1 .. Len(s)
      BY <1>1, <1>3, <2>1
    <3>2. r[i] = s[i] /\ r[i + 1] = s[i + 1]
      BY <1>3, <3>1
    <3>3. s[i + 1].part = NextPart(s[i])
      BY <3>1 DEF Leads
    <3> QED
      BY <3>2, <3>3
  <2>2. CASE i = Len(s)
    <3>1. r[i + 1] = e[1] /\ r[i] = s[Len(s)]
      BY <1>1, <1>3, <2>2
    <3> QED
      BY <1>1, <1>2, <2>2, <3>1 DEF After
  <2>3. CASE i > Len(s)
    <3>1. PICK j \in 1 .. n - 1 : i = Len(s) + j
      <4>1. i - Len(s) \in 1 .. n - 1 /\ i = Len(s) + (i - Len(s))
        BY <1>1, <1>3, <2>3
      <4> QED
        BY <4>1
    <3>2. r[i + 1] = e[j + 1] /\ r[i] = e[j]
      BY <1>1, <1>3, <3>1
    <3>3. e[j + 1].part = j + 1 /\ e[j].part = j /\ e[j].last = FALSE
      BY <1>1, <1>e, <3>1
    <3> QED
      BY <3>2, <3>3 DEF NextPart
  <2> QED
    BY <1>3, <2>1, <2>2, <2>3
<1>6. After(r, x) = 1
  <2>1. r[Len(r)] = e[n] /\ Len(r) # 0
    BY <1>1, <1>3
  <2>2. e[n].last = TRUE
    BY <1>1, <1>e
  <2> QED
    BY <2>1, <2>2 DEF After, NextPart
<1> QED
  BY <1>4, <1>5, <1>6 DEF Leads, r, e

-----------------------------------------------------------------------------
\* The i-th reply on its way carries a piece on channel c.
Carries(i, c) == toHost[i].ch = c /\ toHost[i].data # <<>>

\* The pieces on their way on channel c go on from the buffer's, and part x
\* comes after them: the i-th reply finds part v[i] due.
Arriving(c, x) ==
  \E v \in [1 .. Len(toHost) + 1 -> Nat] :
    /\ v[1] = After(buf[c], 1) /\ v[Len(toHost) + 1] = x
    /\ \A i \in 1 .. Len(toHost) :
         IF Carries(i, c) THEN /\ toHost[i].data[1].part = v[i]
                               /\ v[i + 1] = NextPart(toHost[i].data[1])
                          ELSE v[i + 1] = v[i]

\* A reply that goes out goes behind those on their way.
LEMMA ReplySent ==
  ASSUME toHost \in Seq(Reply), NEW r, toHost' = Append(toHost, r)
  PROVE  /\ Len(toHost) \in Nat /\ Len(toHost') = Len(toHost) + 1
         /\ \A i \in 1 .. Len(toHost) : toHost'[i] = toHost[i]
         /\ toHost'[Len(toHost) + 1] = r
BY LenProperties

\* The loop reads the first.
LEMMA ReplyRead ==
  ASSUME toHost \in Seq(Reply), toHost # <<>>, toHost' = Tail(toHost)
  PROVE  /\ Len(toHost) \in Nat /\ Len(toHost) >= 1 /\ Len(toHost') = Len(toHost) - 1
         /\ \A i \in 1 .. Len(toHost') : toHost'[i] = toHost[i + 1]
         /\ Head(toHost) = toHost[1] /\ toHost[1] \in Reply
<1>1. Len(toHost) \in Nat /\ Len(toHost) >= 1
  BY LenProperties, EmptySeq
<1> QED
  BY <1>1

\* A piece's successor.
LEMMA NextPartType == \A p \in Piece : NextPart(p) \in Nat /\ p.part \in Nat
BY SessionAssumption DEF NextPart, Piece

\* A reply that carries nothing on c leaves what is due on c.
LEMMA OthersArrive ==
  ASSUME toHost \in Seq(Reply), NEW r, toHost' = Append(toHost, r), NEW c,
         r.ch # c \/ r.data = <<>>, UNCHANGED buf, NEW x, Arriving(c, x)
  PROVE  Arriving(c, x)'
<1>1. PICK n \in Nat : n = Len(toHost) /\ Len(toHost') = n + 1
                       /\ (\A i \in 1 .. n : toHost'[i] = toHost[i]) /\ toHost'[n + 1] = r
  BY ReplySent
<1>2. PICK v \in [1 .. n + 1 -> Nat] :
        /\ v[1] = After(buf[c], 1) /\ v[n + 1] = x
        /\ \A i \in 1 .. n :
             IF Carries(i, c) THEN /\ toHost[i].data[1].part = v[i]
                                   /\ v[i + 1] = NextPart(toHost[i].data[1])
                              ELSE v[i + 1] = v[i]
  BY <1>1 DEF Arriving
<1> DEFINE w == [i \in 1 .. n + 2 |-> IF i = n + 2 THEN x ELSE v[i]]
<1>3. x \in Nat
  BY <1>2
<1>4. w \in [1 .. n + 2 -> Nat] /\ w[n + 2] = x /\ \A i \in 1 .. n + 1 : w[i] = v[i]
  BY <1>2, <1>3
<1> HIDE DEF w
<1>5. ASSUME NEW i \in 1 .. n + 1
      PROVE  IF Carries(i, c)' THEN /\ toHost'[i].data[1].part = w[i]
                                    /\ w[i + 1] = NextPart(toHost'[i].data[1])
                               ELSE w[i + 1] = w[i]
  <2>1. CASE i = n + 1
    <3>1. w[i] = x /\ w[i + 1] = x
      BY <1>2, <1>4, <2>1
    <3>2. ~Carries(i, c)'
      BY <1>1, <2>1 DEF Carries
    <3> QED
      BY <3>1, <3>2
  <2>2. CASE i \in 1 .. n
    <3>1. w[i] = v[i] /\ w[i + 1] = v[i + 1] /\ toHost'[i] = toHost[i]
      BY <1>1, <1>4, <2>2
    <3>2. Carries(i, c)' = Carries(i, c)
      BY <3>1 DEF Carries
    <3> QED
      BY <1>2, <2>2, <3>1, <3>2
  <2> QED
    BY <1>1, <2>1, <2>2
<1>6. w[1] = After(buf'[c], 1)
  <2>1. 1 \in 1 .. n + 1
    BY <1>1
  <2>2. w[1] = v[1]
    BY <1>4, <2>1
  <2> QED
    BY <1>2, <2>2
<1>7. Len(toHost') = n + 1 /\ (n + 1) + 1 = n + 2
  BY <1>1
<1>8. /\ w \in [1 .. Len(toHost') + 1 -> Nat]
      /\ w[1] = After(buf'[c], 1) /\ w[Len(toHost') + 1] = x
      /\ \A i \in 1 .. Len(toHost') :
           IF Carries(i, c)' THEN /\ toHost'[i].data[1].part = w[i]
                                  /\ w[i + 1] = NextPart(toHost'[i].data[1])
                             ELSE w[i + 1] = w[i]
  BY <1>4, <1>5, <1>6, <1>7
<1> QED
  BY <1>8 DEF Arriving

\* A piece that is due makes the one after it due.
LEMMA PieceArrives ==
  ASSUME toHost \in Seq(Reply), NEW r, toHost' = Append(toHost, r), NEW c,
         NEW p \in Piece, r.ch = c, r.data = <<p>>, UNCHANGED buf, Arriving(c, p.part)
  PROVE  Arriving(c, NextPart(p))'
<1> DEFINE x == p.part
           y == NextPart(p)
<1>1. PICK n \in Nat : n = Len(toHost) /\ Len(toHost') = n + 1
                       /\ (\A i \in 1 .. n : toHost'[i] = toHost[i]) /\ toHost'[n + 1] = r
  BY ReplySent
<1>2. PICK v \in [1 .. n + 1 -> Nat] :
        /\ v[1] = After(buf[c], 1) /\ v[n + 1] = x
        /\ \A i \in 1 .. n :
             IF Carries(i, c) THEN /\ toHost[i].data[1].part = v[i]
                                   /\ v[i + 1] = NextPart(toHost[i].data[1])
                              ELSE v[i + 1] = v[i]
  BY <1>1 DEF Arriving
<1>3. y \in Nat
  BY NextPartType
<1> DEFINE w == [i \in 1 .. n + 2 |-> IF i = n + 2 THEN y ELSE v[i]]
<1> HIDE DEF x, y
<1>4. w \in [1 .. n + 2 -> Nat] /\ w[n + 2] = y /\ \A i \in 1 .. n + 1 : w[i] = v[i]
  BY <1>2, <1>3
<1> HIDE DEF w
<1>5. ASSUME NEW i \in 1 .. n + 1
      PROVE  IF Carries(i, c)' THEN /\ toHost'[i].data[1].part = w[i]
                                    /\ w[i + 1] = NextPart(toHost'[i].data[1])
                               ELSE w[i + 1] = w[i]
  <2>1. CASE i = n + 1
    <3>1. w[i] = x /\ w[i + 1] = y
      BY <1>2, <1>4, <2>1
    <3>2. toHost'[i].data[1] = p /\ Carries(i, c)'
      <4>1. toHost'[i] = r
        BY <1>1, <2>1
      <4>2. r.data[1] = p /\ r.data # <<>>
        OBVIOUS
      <4> QED
        BY <4>1, <4>2 DEF Carries
    <3> QED
      BY <3>1, <3>2 DEF x, y
  <2>2. CASE i \in 1 .. n
    <3>1. w[i] = v[i] /\ w[i + 1] = v[i + 1] /\ toHost'[i] = toHost[i]
      BY <1>1, <1>4, <2>2
    <3>2. Carries(i, c)' = Carries(i, c)
      BY <3>1 DEF Carries
    <3> QED
      BY <1>2, <2>2, <3>1, <3>2
  <2> QED
    BY <1>1, <2>1, <2>2
<1>6. w[1] = After(buf'[c], 1)
  BY <1>2, <1>4
<1>7. Len(toHost') = n + 1 /\ (n + 1) + 1 = n + 2
  BY <1>1
<1>8. /\ w \in [1 .. Len(toHost') + 1 -> Nat]
      /\ w[1] = After(buf'[c], 1) /\ w[Len(toHost') + 1] = y
      /\ \A i \in 1 .. Len(toHost') :
           IF Carries(i, c)' THEN /\ toHost'[i].data[1].part = w[i]
                                  /\ w[i + 1] = NextPart(toHost'[i].data[1])
                             ELSE w[i + 1] = w[i]
  BY <1>4, <1>5, <1>6, <1>7
<1> QED
  BY <1>8 DEF Arriving, y

\* Reading takes the first reply off, and its piece, if it carries one on c, is
\* the one due there.
LEMMA ReadArrives ==
  ASSUME toHost \in Seq(Reply), toHost # <<>>, toHost' = Tail(toHost),
         NEW c, NEW x, Arriving(c, x),
         After(buf'[c], 1) = IF Carries(1, c) THEN NextPart(toHost[1].data[1])
                                              ELSE After(buf[c], 1)
  PROVE  Arriving(c, x)'
<1>1. PICK n \in Nat : /\ n = Len(toHost) /\ n >= 1 /\ Len(toHost') = n - 1
                       /\ \A i \in 1 .. n - 1 : toHost'[i] = toHost[i + 1]
  BY ReplyRead
<1>2. PICK v \in [1 .. n + 1 -> Nat] :
        /\ v[1] = After(buf[c], 1) /\ v[n + 1] = x
        /\ \A i \in 1 .. n :
             IF Carries(i, c) THEN /\ toHost[i].data[1].part = v[i]
                                   /\ v[i + 1] = NextPart(toHost[i].data[1])
                              ELSE v[i + 1] = v[i]
  BY <1>1 DEF Arriving
<1> DEFINE w == [i \in 1 .. n |-> v[i + 1]]
<1>4. w \in [1 .. n -> Nat] /\ w[n] = x /\ w[1] = v[2]
      /\ \A i \in 1 .. n - 1 : w[i] = v[i + 1] /\ w[i + 1] = v[(i + 1) + 1]
  BY <1>1, <1>2
<1> HIDE DEF w
<1>5. ASSUME NEW i \in 1 .. n - 1
      PROVE  IF Carries(i, c)' THEN /\ toHost'[i].data[1].part = w[i]
                                    /\ w[i + 1] = NextPart(toHost'[i].data[1])
                               ELSE w[i + 1] = w[i]
  <2>0. i + 1 \in 1 .. n /\ toHost'[i] = toHost[i + 1]
    BY <1>1
  <2>1. w[i] = v[i + 1] /\ w[i + 1] = v[(i + 1) + 1]
    BY <1>4
  <2>2. Carries(i, c)' = Carries(i + 1, c)
    BY <2>0 DEF Carries
  <2> QED
    BY <1>2, <2>0, <2>1, <2>2
<1>6. w[1] = After(buf'[c], 1)
  BY <1>1, <1>2, <1>4
<1>7. Len(toHost') + 1 = n /\ 1 .. Len(toHost') = 1 .. n - 1
  BY <1>1
<1>8. /\ w \in [1 .. Len(toHost') + 1 -> Nat]
      /\ w[1] = After(buf'[c], 1) /\ w[Len(toHost') + 1] = x
      /\ \A i \in 1 .. Len(toHost') :
           IF Carries(i, c)' THEN /\ toHost'[i].data[1].part = w[i]
                                  /\ w[i + 1] = NextPart(toHost'[i].data[1])
                             ELSE w[i + 1] = w[i]
  BY <1>4, <1>5, <1>6, <1>7
<1> QED
  BY <1>8 DEF Arriving

\* All a channel's pieces, buffered, on their way and still with the pedal,
\* follow one another from the head of an envelope to the end of one.
Framed(c) ==
  /\ Leads(buf[c], 1)
  /\ \E x \in Nat : Arriving(c, x) /\ Leads(pend[c], x) /\ After(pend[c], x) = 1

\* A reply carries one piece or none, and the events channel buffers none.
Carried ==
  /\ \A i \in 1 .. Len(toHost) :
       toHost[i].data # <<>> => \E p \in Piece : toHost[i].data = <<p>>
  /\ \A c \in Channels : c = "events" => buf[c] = <<>>

\* Until Close drains, every channel's pieces are framed.
Envelopes ==
  /\ Carried
  /\ closing \/ \A c \in Channels : c # "events" => Framed(c)

\* Cutting whole envelopes off a buffer keeps the pieces framed (dropMessages, reply).
LEMMA CutFramed ==
  ASSUME IInv, Envelopes, NEW d \in Channels, NEW n \in 0 .. Len(buf[d]),
         n # 0 => buf[d][n].last,
         buf' = [buf EXCEPT ![d] = SubSeq(@, n + 1, Len(@))],
         UNCHANGED <<toHost, pend, closing>>
  PROVE  Envelopes'
<1> DEFINE cut == SubSeq(buf[d], n + 1, Len(buf[d]))
<1>1. buf \in [Channels -> Seq(Piece)] /\ buf[d] \in Seq(Piece)
  BY DEF IInv, TypeOK, ReceiveOK
<1>2. \A c \in Channels : buf'[c] = IF c = d THEN cut ELSE buf[c]
  BY <1>1
<1>3. Leads(buf[d], 1) => Leads(cut, 1) /\ After(cut, 1) = After(buf[d], 1)
  BY <1>1, CutLeads
<1>4. buf[d] = <<>> => cut = <<>>
  <2> SUFFICES ASSUME buf[d] = <<>> PROVE cut = <<>>
    OBVIOUS
  <2>1. Len(buf[d]) = 0 /\ n = 0
    OBVIOUS
  <2>2. cut \in Seq(Piece) /\ Len(cut) = 0
    BY <1>1, <2>1
  <2> QED
    BY <2>2, EmptySeq
<1> HIDE DEF cut
<1>5. Carried'
  BY <1>2, <1>4 DEF Envelopes, Carried
<1>6. ASSUME NEW c \in Channels, Framed(c) PROVE Framed(c)'
  <2>1. Leads(buf'[c], 1) /\ After(buf'[c], 1) = After(buf[c], 1)
    BY <1>2, <1>3, <1>6 DEF Framed
  <2>2. ASSUME NEW x \in Nat, Arriving(c, x) PROVE Arriving(c, x)'
    BY <2>1, <2>2 DEF Arriving, Carries
  <2> QED
    BY <1>6, <2>1, <2>2 DEF Framed
<1> QED
  BY <1>5, <1>6 DEF Envelopes

\* Where the envelopes cut off a buffer end.
LEMMA CutsEnd ==
  ASSUME NEW b \in Seq(Piece)
  PROVE  /\ WholeEnd(b) # 0 => b[WholeEnd(b)].last
         /\ \A t \in Txns : AnswerEnd(b, t) # 0 =>
              /\ AnswerEnd(b, t) \in 1 .. Len(b)
              /\ b[AnswerEnd(b, t)].last /\ b[AnswerEnd(b, t)].txn = t
<1>1. Len(b) \in Nat /\ DOMAIN b = 1 .. Len(b)
  BY LenProperties
<1>2. WholeEnd(b) # 0 => b[WholeEnd(b)].last
  <2> DEFINE ends == {i \in DOMAIN b : b[i].last}
  <2> SUFFICES ASSUME ends # {} PROVE WholeEnd(b) \in ends
    BY DEF WholeEnd
  <2>1. \E i \in ends : \A j \in ends : j <= i
    BY <1>1, LastPosition
  <2> QED
    BY <2>1 DEF WholeEnd
<1>3. ASSUME NEW t \in Txns, AnswerEnd(b, t) # 0
      PROVE  /\ AnswerEnd(b, t) \in 1 .. Len(b)
             /\ b[AnswerEnd(b, t)].last /\ b[AnswerEnd(b, t)].txn = t
  <2> DEFINE ends == {i \in DOMAIN b : b[i].last /\ b[i].txn = t}
  <2>1. ends # {}
    BY <1>3 DEF AnswerEnd
  <2>2. \E i \in ends : \A j \in ends : i <= j
    BY <1>1, <2>1, FirstPosition
  <2>3. AnswerEnd(b, t) \in ends
    BY <2>1, <2>2 DEF AnswerEnd
  <2> QED
    BY <1>1, <2>3
<1> QED
  BY <1>2, <1>3

\* Reading a reply keeps the pieces framed: its piece is the one due.
LEMMA ReadFramed == IInv /\ Envelopes /\ ReadFrame => Envelopes'
<1> SUFFICES ASSUME IInv, Envelopes, ReadFrame PROVE Envelopes'
  OBVIOUS
<1> DEFINE f == toHost[1]
<1>1. /\ toHost \in Seq(Reply) /\ toHost # <<>> /\ toHost' = Tail(toHost)
      /\ buf \in [Channels -> Seq(Piece)]
  BY DEF IInv, TypeOK, ReceiveOK, ReadFrame
<1>2. /\ Len(toHost) \in Nat /\ Len(toHost) >= 1 /\ Len(toHost') = Len(toHost) - 1
      /\ \A i \in 1 .. Len(toHost') : toHost'[i] = toHost[i + 1]
      /\ Head(toHost) = f /\ f \in Reply
  BY <1>1, ReplyRead
<1>3. f.ch \in Channels /\ f.data \in Seq(Piece)
  BY <1>2 DEF Reply
<1>4. \A c \in Channels :
        buf'[c] = IF f.ch = c /\ c # "events" THEN buf[c] \o f.data ELSE buf[c]
  BY <1>1, <1>2, <1>3 DEF ReadFrame
<1>5. UNCHANGED <<pend, closing>>
  BY DEF ReadFrame, pedal, flags
<1>6. f.data # <<>> => \E p \in Piece : f.data = <<p>>
  BY <1>2 DEF Envelopes, Carried
<1> HIDE DEF f
<1>7. Carried'
  <2>1. \A c \in Channels : c = "events" => buf'[c] = <<>>
    BY <1>4 DEF Envelopes, Carried
  <2>2. ASSUME NEW i \in 1 .. Len(toHost'), toHost'[i].data # <<>>
        PROVE  \E p \in Piece : toHost'[i].data = <<p>>
    <3>1. i + 1 \in 1 .. Len(toHost) /\ toHost'[i] = toHost[i + 1]
      BY <1>2
    <3> QED
      BY <2>2, <3>1 DEF Envelopes, Carried
  <2> QED
    BY <2>1, <2>2 DEF Carried
<1>8. ASSUME NEW c \in Channels, c # "events", Framed(c) PROVE Framed(c)'
  <2>1. PICK x \in Nat : Arriving(c, x) /\ Leads(pend[c], x) /\ After(pend[c], x) = 1
    BY <1>8 DEF Framed
  <2>2. buf[c] \in Seq(Piece) /\ Leads(buf[c], 1)
    BY <1>1, <1>8 DEF Framed
  <2>3. CASE Carries(1, c)
    <3>1. PICK p \in Piece : f.data = <<p>>
      BY <1>6, <2>3 DEF Carries, f
    <3>2. toHost[1].data[1] = p /\ buf'[c] = buf[c] \o <<p>>
      <4>1. toHost[1] = f /\ f.ch = c
        BY <2>3 DEF Carries, f
      <4>2. <<p>>[1] = p
        OBVIOUS
      <4> QED
        BY <1>4, <1>8, <3>1, <4>1, <4>2
    <3>3. p.part = After(buf[c], 1)
      BY <1>2, <2>1, <2>3, <3>2 DEF Arriving
    <3>4. Leads(buf'[c], 1) /\ After(buf'[c], 1) = NextPart(p)
      BY <2>2, <3>2, <3>3, PieceLeads
    <3>5. Arriving(c, x)'
      BY <1>1, <2>1, <2>3, <3>2, <3>4, ReadArrives
    <3> QED
      BY <1>5, <2>1, <3>4, <3>5 DEF Framed
  <2>4. CASE ~Carries(1, c)
    <3>1. buf'[c] = buf[c]
      BY <1>3, <1>4, <1>8, <2>2, <2>4, ConcatEmptySeq DEF Carries, f
    <3>2. Arriving(c, x)'
      BY <1>1, <2>1, <2>4, <3>1, ReadArrives
    <3> QED
      BY <1>5, <2>1, <2>2, <3>1, <3>2 DEF Framed
  <2> QED
    BY <2>3, <2>4
<1> QED
  BY <1>5, <1>7, <1>8 DEF Envelopes

\* What the pedal sends goes on from what it sent, an envelope at a time.
LEMMA DeviceFramed == IInv /\ Envelopes /\ Device => Envelopes'
<1> SUFFICES ASSUME IInv, Envelopes, Device PROVE Envelopes'
  OBVIOUS
<1>1. toHost \in Seq(Reply) /\ pend \in [Channels -> Seq(Piece)] /\ SendOK
  BY DEF IInv, TypeOK, PedalOK
<1>2. ASSUME NEW r, toHost' = Append(toHost, r), UNCHANGED buf,
             r.data # <<>> => \E p \in Piece : r.data = <<p>>
      PROVE  Carried'
  <2>1. /\ Len(toHost) \in Nat /\ Len(toHost') = Len(toHost) + 1
        /\ \A i \in 1 .. Len(toHost) : toHost'[i] = toHost[i]
        /\ toHost'[Len(toHost) + 1] = r
    BY <1>1, <1>2, ReplySent
  <2>2. ASSUME NEW i \in 1 .. Len(toHost'), toHost'[i].data # <<>>
        PROVE  \E p \in Piece : toHost'[i].data = <<p>>
    <3>1. CASE i = Len(toHost) + 1
      BY <1>2, <2>1, <2>2, <3>1
    <3>2. CASE i \in 1 .. Len(toHost)
      BY <2>1, <2>2, <3>2 DEF Envelopes, Carried
    <3> QED
      BY <2>1, <3>1, <3>2
  <2> QED
    BY <1>2, <2>2 DEF Envelopes, Carried
<1>3. ASSUME NEW c, Framed(c), UNCHANGED buf,
             \/ UNCHANGED toHost
             \/ \E r : toHost' = Append(toHost, r) /\ (r.ch # c \/ r.data = <<>>),
             \/ pend'[c] = pend[c]
             \/ \E t \in Txns, n \in 1 .. ReplyFrames :
                  c \in Channels /\ pend'[c] = pend[c] \o Pieces(t, n)
      PROVE  Framed(c)'
  <2>1. PICK x \in Nat : Arriving(c, x) /\ Leads(pend[c], x) /\ After(pend[c], x) = 1
    BY <1>3 DEF Framed
  <2>2. Arriving(c, x)'
    <3>1. CASE UNCHANGED toHost
      BY <1>3, <2>1, <3>1 DEF Arriving, Carries
    <3>2. CASE \E r : toHost' = Append(toHost, r) /\ (r.ch # c \/ r.data = <<>>)
      BY <1>1, <1>3, <2>1, <3>2, OthersArrive
    <3> QED
      BY <1>3, <3>1, <3>2
  <2>3. Leads(pend'[c], x) /\ After(pend'[c], x) = 1
    <3>1. CASE pend'[c] = pend[c]
      BY <2>1, <3>1
    <3>2. CASE \E t \in Txns, n \in 1 .. ReplyFrames :
                 c \in Channels /\ pend'[c] = pend[c] \o Pieces(t, n)
      BY <1>1, <2>1, <3>2, EnvelopeLeads
    <3> QED
      BY <1>3, <3>1, <3>2
  <2> QED
    BY <1>3, <2>1, <2>2, <2>3 DEF Framed
<1>4. ASSUME NEW acked \in BOOLEAN, DevTakes(acked) PROVE Envelopes'
  <2> DEFINE f == toDev[1]
             r == [ch |-> f.ch, ack |-> Inc(taken[f.ch]), data |-> <<>>]
  <2>1. Head(toDev) = f /\ f \in Frame
    BY <1>1, <1>4, FrameTaken
  <2>2. f.ch \in Channels /\ f.txn \in Txns /\ ReplyFrames \in 1 .. ReplyFrames
    BY <2>1, SmallValues DEF Frame
  <2>3. UNCHANGED <<buf, closing>>
    BY <1>4 DEF DevTakes, receive, flags
  <2>4. toHost' = toHost \/ toHost' = Append(toHost, r)
    BY <1>4, <2>1 DEF DevTakes
  <2>5. r.data = <<>>
    OBVIOUS
  <2>6. \A c \in Channels : pend'[c] = pend[c] \/ pend'[c] = pend[c] \o Pieces(f.txn, ReplyFrames)
    BY <1>1, <1>4, <2>1 DEF DevTakes
  <2> HIDE DEF r, f
  <2>7. Carried'
    BY <1>2, <2>3, <2>4, <2>5 DEF Envelopes, Carried
  <2>8. ASSUME NEW c \in Channels, Framed(c) PROVE Framed(c)'
    BY <1>3, <2>2, <2>3, <2>4, <2>5, <2>6, <2>8
  <2> QED
    BY <2>3, <2>7, <2>8 DEF Envelopes
<1>5. ASSUME NEW d \in Channels, DevFeeds(d) PROVE Envelopes'
  <2>0. PICK p \in Piece : p = Head(pend[d])
    BY <1>1, <1>5, HeadTailProperties DEF DevFeeds
  <2> DEFINE r == [ch |-> d, ack |-> NoAck, data |-> <<p>>]
  <2>1. pend[d] \in Seq(Piece) /\ pend[d] # <<>> /\ p = Head(pend[d])
    BY <1>1, <1>5, <2>0 DEF DevFeeds
  <2>2. UNCHANGED <<buf, closing>> /\ toHost' = Append(toHost, r)
    BY <1>5, <2>0 DEF DevFeeds, receive, flags
  <2>3. pend' = [pend EXCEPT ![d] = Tail(@)]
    BY <1>5 DEF DevFeeds
  <2>4. r.ch = d /\ r.data = <<p>>
    OBVIOUS
  <2> HIDE DEF r
  <2>5. Carried'
    BY <1>2, <2>1, <2>2, <2>4
  <2>6. ASSUME NEW c \in Channels, Framed(c) PROVE Framed(c)'
    <3>1. CASE c # d
      <4>1. pend'[c] = pend[c]
        BY <1>1, <2>3, <3>1
      <4> QED
        BY <1>3, <2>2, <2>4, <2>6, <3>1, <4>1
    <3>2. CASE c = d
      <4>1. PICK x \in Nat : Arriving(d, x) /\ Leads(pend[d], x) /\ After(pend[d], x) = 1
        BY <2>6, <3>2 DEF Framed
      <4>2. /\ p.part = x /\ pend'[d] = Tail(pend[d])
            /\ Leads(Tail(pend[d]), NextPart(p)) /\ After(Tail(pend[d]), NextPart(p)) = 1
        BY <1>1, <2>1, <2>3, <4>1, TailLeads
      <4>3. Arriving(d, NextPart(p))'
        BY <1>1, <2>1, <2>2, <2>4, <4>1, <4>2, PieceArrives
      <4>4. NextPart(p) \in Nat
        BY <2>1, NextPartType
      <4> QED
        BY <2>2, <2>6, <3>2, <4>2, <4>3, <4>4 DEF Framed
    <3> QED
      BY <3>1, <3>2
  <2> QED
    BY <2>2, <2>5, <2>6 DEF Envelopes
<1>6. ASSUME NEW d \in Channels, DevNotifies(d) PROVE Envelopes'
  <2>1. UNCHANGED <<buf, closing, toHost>>
    BY <1>6 DEF DevNotifies, receive, flags
  <2>2. \A c \in Channels : pend'[c] = pend[c] \/ pend'[c] = pend[c] \o Pieces(Notice, 1)
    BY <1>1, <1>6 DEF DevNotifies
  <2>3. ASSUME NEW c \in Channels, Framed(c) PROVE Framed(c)'
    BY <1>3, <2>1, <2>2, <2>3, SmallValues
  <2> QED
    BY <2>1, <2>3 DEF Envelopes, Carried
<1>7. ASSUME NEW d \in Channels, DevRepeats(d) PROVE Envelopes'
  <2> DEFINE r == [ch |-> d, ack |-> devAck[d], data |-> <<>>]
  <2>1. UNCHANGED <<buf, closing, pend>> /\ toHost' = Append(toHost, r) /\ r.data = <<>>
    BY <1>7 DEF DevRepeats, receive, flags, pedal
  <2> HIDE DEF r
  <2>2. ASSUME NEW c \in Channels, Framed(c) PROVE Framed(c)'
    BY <1>3, <2>1, <2>2
  <2> QED
    BY <1>2, <2>1, <2>2 DEF Envelopes
<1> QED
  BY <1>4, <1>5, <1>6, <1>7 DEF Device, DevAcks, DevKeepsQuiet

\* One step keeps the pieces framed.
LEMMA StepFramed == IInv /\ Envelopes /\ [Next]_vars => Envelopes'
<1> SUFFICES ASSUME IInv, Envelopes, [Next]_vars PROVE Envelopes'
  OBVIOUS
<1>u. ASSUME UNCHANGED <<toHost, buf, pend, closing>> PROVE Envelopes'
  <2>1. Carried'
    BY <1>u DEF Envelopes, Carried
  <2>2. ASSUME NEW c, NEW x, Arriving(c, x) PROVE Arriving(c, x)'
    BY <1>u, <2>2 DEF Arriving, Carries
  <2>3. ASSUME NEW c, Framed(c) PROVE Framed(c)'
    BY <1>u, <2>2, <2>3 DEF Framed
  <2> QED
    BY <1>u, <2>1, <2>3 DEF Envelopes
<1>c. ASSUME closing', Carried' PROVE Envelopes'
  BY <1>c DEF Envelopes
<1>b. /\ buf \in [Channels -> Seq(Piece)] /\ op.ch \in Channels /\ op.txn \in Txns
      /\ op.kind = "close" => closing
  BY DEF IInv, TypeOK, ReceiveOK, Op, Consistent, FlagsAgree
<1>e. \A c \in Channels : /\ WholeEnd(buf[c]) \in 0 .. Len(buf[c])
                          /\ WholeEnd(buf[c]) # 0 => buf[c][WholeEnd(buf[c])].last
  BY <1>b, DropKeepsType, CutsEnd
<1>1. CASE UNCHANGED vars
  BY <1>1, <1>u DEF vars, receive, pedal, flags
<1>2. CASE BeginCall \/ BeginWrite \/ Cancel
  BY <1>2, <1>u DEF BeginCall, BeginWrite, Begin, Cancel, receive, pedal, flags
<1>3. CASE BeginClose
  BY <1>3, <1>c DEF BeginClose, receive, pedal, Envelopes, Carried
<1>4. CASE Loop
  BY <1>4, <1>u, ReadFramed
     DEF Loop, ReadNothing, ReadFails, LoopStops, receive, pedal, flags
<1>5. CASE Acknowledger
  <2>1. CASE AckLeaves \/ AckSends
    BY <1>u, <2>1 DEF AckLeaves, AckSends, receive, pedal, flags
  <2>2. ASSUME NEW c \in Channels, AckDecides(c) PROVE Envelopes'
    BY <1>e, <2>2, CutFramed DEF AckDecides, DropMessages, pedal, flags
  <2> QED
    BY <1>5, <2>1, <2>2 DEF Acknowledger
<1>6. CASE Operation
  <2>1. CASE SendRequest \/ Stream
    BY <1>u, <2>1 DEF SendRequest, Stream, MarkChunk, SendChunk, PaceAcked, PaceDead,
                      PaceExpires, receive, pedal, flags
  <2>2. CASE FindNothing
    BY <1>b, <1>e, <2>2, CutFramed DEF FindNothing, DropMessages, pedal, flags
  <2>3. CASE FindAnswer
    <3>1. PICK n : /\ n = AnswerEnd(buf[op.ch], op.txn) /\ n > 0
                   /\ buf' = [buf EXCEPT ![op.ch] = SubSeq(@, n + 1, Len(@))]
      BY <2>3 DEF FindAnswer
    <3>2. n \in 0 .. Len(buf[op.ch]) /\ buf[op.ch][n].last
      BY <1>b, <3>1, AnswerKeepsType, CutsEnd
    <3> QED
      BY <1>b, <2>3, <3>1, <3>2, CutFramed DEF FindAnswer, pedal, flags
  <2>4. CASE StopLooking \/ GiveUpDead \/ NothingOwed \/ AckOwed \/ Wake \/ WaitExpires
             \/ Settled
    BY <1>u, <2>4 DEF StopLooking, GiveUpDead, NothingOwed, AckOwed, Wake, WaitExpires,
                      Settled, receive, pedal, flags
  <2>5. CASE DrainFirst \/ DrainAgain
    <3>1. /\ op.kind = "close" /\ UNCHANGED <<closing, toHost>>
          /\ buf' = [c \in Channels |-> <<>>]
      BY <2>5 DEF DrainFirst, DrainAgain, DrainEnds, Closing, flags
    <3> QED
      BY <1>b, <1>c, <3>1 DEF Envelopes, Carried
  <2>6. CASE FarewellAck \/ FarewellHello \/ Release
    BY <1>u, <2>6 DEF FarewellAck, FarewellHello, Farewell, Release, receive, pedal, flags
  <2> QED
    BY <1>6, <2>1, <2>2, <2>3, <2>4, <2>5, <2>6 DEF Operation, Await, Close
<1> QED
  BY <1>1, <1>2, <1>3, <1>4, <1>5, <1>6, DeviceFramed DEF Next

\* Every reachable state has its pieces framed.
LEMMA AlwaysFramed == Spec => []Envelopes
<1>1. Init => Envelopes
  <2> SUFFICES ASSUME Init PROVE Envelopes
    OBVIOUS
  <2>1. Len(toHost) = 0 /\ \A c \in Channels : Len(buf[c]) = 0 /\ Len(pend[c]) = 0
    BY DEF Init
  <2>2. ASSUME NEW c \in Channels PROVE Framed(c)
    <3> DEFINE v == [i \in {1} |-> 1]
    <3>1. v \in [1 .. 1 -> Nat] /\ v[1] = 1
      OBVIOUS
    <3>2. After(buf[c], 1) = 1 /\ After(pend[c], 1) = 1 /\ Leads(buf[c], 1) /\ Leads(pend[c], 1)
      BY <2>1 DEF After, Leads
    <3> HIDE DEF v
    <3>3. Arriving(c, 1)
      BY <2>1, <3>1, <3>2 DEF Arriving
    <3> QED
      BY <3>2, <3>3 DEF Framed
  <2>3. Carried
    BY <2>1 DEF Init, Carried
  <2> QED
    BY <2>2, <2>3 DEF Envelopes
<1> QED
  BY <1>1, StepFramed, Invariance, PTL DEF Spec

\* A channel's buffer starts at the head of an envelope, whatever was dropped,
\* given up or late, until Close throws everything away (dropMessages, loop.go;
\* reply, handshake.go).
THEOREM BufferFramedHolds == Spec => []BufferFramed
<1>1. IInv /\ Envelopes => BufferFramed
  <2> SUFFICES ASSUME IInv, Envelopes, ~closing, NEW c \in Channels, buf[c] # <<>>
               PROVE  Head(buf[c]).part = 1
    BY DEF BufferFramed
  <2>1. Leads(buf[c], 1)
    BY DEF Envelopes, Carried, Framed
  <2>2. buf[c] \in Seq(Piece)
    BY DEF IInv, TypeOK, ReceiveOK
  <2> QED
    BY <2>1, <2>2, TailLeads
<1> QED
  BY <1>1, AlwaysFramed, Invariance, PTL

-----------------------------------------------------------------------------
\* The i-th frame on its way is part of a message on channel c.
Data(i, c) == toDev[i].ch = c /\ toDev[i].kind = "data"

\* The message that is unfinished after a frame of one.
Unfinished(f) == IF f.last THEN NoTxn ELSE f.txn

\* No frame on its way on c is fed into the middle of another message, the pedal
\* being in the middle of half[c]; after them x is unfinished.
Flowing(c, x) ==
  \E v \in [1 .. Len(toDev) + 1 -> Txns] :
    /\ v[1] = half[c] /\ v[Len(toDev) + 1] = x
    /\ \A i \in 1 .. Len(toDev) :
         IF Data(i, c) THEN /\ v[i] \in {NoTxn, toDev[i].txn}
                            /\ v[i + 1] = Unfinished(toDev[i])
                       ELSE v[i + 1] = v[i]

\* A frame that leaves on c goes into the message that is unfinished, or starts one.
LEMMA SendFlows ==
  ASSUME SendOK, NEW d, NEW kind, NEW t, NEW last, Departs(d, kind, t, last),
         UNCHANGED half, NEW c, NEW x, Flowing(c, x), NEW y \in Txns,
         IF d = c /\ kind = "data" THEN x \in {NoTxn, t} /\ y = IF last THEN NoTxn ELSE t
                                   ELSE y = x
  PROVE  Flowing(c, y)'
<1>0. PICK r : /\ Len(toDev) \in Nat /\ Len(toDev') = Len(toDev) + 1
               /\ \A i \in 1 .. Len(toDev) : toDev'[i] = toDev[i]
               /\ toDev'[Len(toDev) + 1] = r
               /\ r.ch = d /\ r.kind = kind /\ r.txn = t /\ r.last = last
  BY FrameSent
<1>1. PICK n \in Nat : n = Len(toDev) /\ Len(toDev') = n + 1
                       /\ (\A i \in 1 .. n : toDev'[i] = toDev[i]) /\ toDev'[n + 1] = r
  BY <1>0
<1>2. PICK v \in [1 .. n + 1 -> Txns] :
        /\ v[1] = half[c] /\ v[n + 1] = x
        /\ \A i \in 1 .. n :
             IF Data(i, c) THEN /\ v[i] \in {NoTxn, toDev[i].txn}
                                /\ v[i + 1] = Unfinished(toDev[i])
                           ELSE v[i + 1] = v[i]
  BY <1>1 DEF Flowing
<1>3. r.ch = d /\ r.kind = kind /\ r.txn = t /\ Unfinished(r) = IF last THEN NoTxn ELSE t
  BY <1>0 DEF Unfinished
<1> DEFINE w == [i \in 1 .. n + 2 |-> IF i = n + 2 THEN y ELSE v[i]]
<1>4. w \in [1 .. n + 2 -> Txns] /\ w[n + 2] = y /\ \A i \in 1 .. n + 1 : w[i] = v[i]
  BY <1>2
<1> HIDE DEF w
<1>5. ASSUME NEW i \in 1 .. n + 1
      PROVE  IF Data(i, c)' THEN /\ w[i] \in {NoTxn, toDev'[i].txn}
                                 /\ w[i + 1] = Unfinished(toDev'[i])
                            ELSE w[i + 1] = w[i]
  <2>1. CASE i = n + 1
    <3>1. w[i] = x /\ w[i + 1] = y /\ toDev'[i] = r
      BY <1>1, <1>2, <1>4, <2>1
    <3>2. Data(i, c)' <=> d = c /\ kind = "data"
      BY <1>3, <3>1 DEF Data
    <3> QED
      BY <1>3, <3>1, <3>2
  <2>2. CASE i \in 1 .. n
    <3>1. w[i] = v[i] /\ w[i + 1] = v[i + 1] /\ toDev'[i] = toDev[i]
      BY <1>1, <1>4, <2>2
    <3>2. Data(i, c)' = Data(i, c)
      BY <3>1 DEF Data
    <3> QED
      BY <1>2, <2>2, <3>1, <3>2
  <2> QED
    BY <1>1, <2>1, <2>2
<1>6. w[1] = half'[c]
  BY <1>2, <1>4
<1>7. Len(toDev') = n + 1 /\ (n + 1) + 1 = n + 2
  BY <1>1
<1>8. /\ w \in [1 .. Len(toDev') + 1 -> Txns]
      /\ w[1] = half'[c] /\ w[Len(toDev') + 1] = y
      /\ \A i \in 1 .. Len(toDev') :
           IF Data(i, c)' THEN /\ w[i] \in {NoTxn, toDev'[i].txn}
                               /\ w[i + 1] = Unfinished(toDev'[i])
                          ELSE w[i + 1] = w[i]
  BY <1>4, <1>5, <1>6, <1>7
<1> QED
  BY <1>8 DEF Flowing

\* What the pedal takes goes into the message it is in the middle of, or starts one.
LEMMA TakeFlows ==
  ASSUME SendOK, PedalOK, NEW acked, DevTakes(acked), NEW c \in Channels, NEW x, Flowing(c, x)
  PROVE  Flowing(c, x)' /\ (toDev[1].ch = c /\ ~garbled => ~garbled')
<1>1. PICK n \in Nat : /\ n = Len(toDev) /\ n >= 1 /\ Len(toDev') = n - 1
                       /\ \A i \in 1 .. n - 1 : toDev'[i] = toDev[i + 1]
                       /\ Head(toDev) = toDev[1]
  BY FrameTaken
<1>2. PICK v \in [1 .. n + 1 -> Txns] :
        /\ v[1] = half[c] /\ v[n + 1] = x
        /\ \A i \in 1 .. n :
             IF Data(i, c) THEN /\ v[i] \in {NoTxn, toDev[i].txn}
                                /\ v[i + 1] = Unfinished(toDev[i])
                           ELSE v[i + 1] = v[i]
  BY <1>1 DEF Flowing
<1> DEFINE f == toDev[1]
<1>3. half'[c] = IF Data(1, c) THEN Unfinished(f) ELSE half[c]
  <2>1. half' = [half EXCEPT ![f.ch] = IF f.kind # "data" THEN @
                                       ELSE IF f.last THEN NoTxn ELSE f.txn]
    BY <1>1 DEF DevTakes
  <2> QED
    BY <2>1 DEF Data, Unfinished, PedalOK
<1>4. f.ch = c /\ ~garbled => ~garbled'
  <2>1. garbled' = (garbled \/ (f.kind = "data" /\ half[f.ch] \notin {NoTxn, f.txn}))
    BY <1>1 DEF DevTakes
  <2>2. f.ch = c /\ f.kind = "data" => half[f.ch] \in {NoTxn, f.txn}
    BY <1>1, <1>2 DEF Data
  <2> QED
    BY <2>1, <2>2
<1> DEFINE w == [i \in 1 .. n |-> v[i + 1]]
<1>5. w \in [1 .. n -> Txns] /\ w[n] = x /\ w[1] = v[2]
      /\ \A i \in 1 .. n - 1 : w[i] = v[i + 1] /\ w[i + 1] = v[(i + 1) + 1]
  BY <1>1, <1>2
<1> HIDE DEF w
<1>6. ASSUME NEW i \in 1 .. n - 1
      PROVE  IF Data(i, c)' THEN /\ w[i] \in {NoTxn, toDev'[i].txn}
                                 /\ w[i + 1] = Unfinished(toDev'[i])
                            ELSE w[i + 1] = w[i]
  <2>0. i \in 1 .. n - 1 /\ i + 1 \in 1 .. n
    BY <1>1
  <2>1. w[i] = v[i + 1] /\ w[i + 1] = v[(i + 1) + 1] /\ toDev'[i] = toDev[i + 1]
    BY <1>1, <1>5, <2>0
  <2>2. Data(i, c)' = Data(i + 1, c)
    BY <2>1 DEF Data
  <2> QED
    BY <1>2, <2>0, <2>1, <2>2
<1>7. w[1] = half'[c]
  <2>1. 1 \in 1 .. n /\ 1 + 1 = 2
    BY <1>1
  <2>2. v[2] = IF Data(1, c) THEN Unfinished(f) ELSE v[1]
    BY <1>2, <2>1
  <2> QED
    BY <1>2, <1>3, <1>5, <2>2
<1>8. Len(toDev') = n - 1 /\ (n - 1) + 1 = n
  BY <1>1
<1>9. /\ w \in [1 .. Len(toDev') + 1 -> Txns]
      /\ w[1] = half'[c] /\ w[Len(toDev') + 1] = x
      /\ \A i \in 1 .. Len(toDev') :
           IF Data(i, c)' THEN /\ w[i] \in {NoTxn, toDev'[i].txn}
                               /\ w[i + 1] = Unfinished(toDev'[i])
                          ELSE w[i + 1] = w[i]
  BY <1>5, <1>6, <1>7, <1>8
<1> QED
  BY <1>4, <1>9 DEF Flowing

\* The places of a write that is not yet all sent.
Sending == {"mark", "chunk", "pace"}

\* A message stays unfinished only on the data channel, while its write is being
\* sent, and after it if the session is dead.
Owned(c, x) ==
  x # NoTxn =>
    /\ c = "data"
    /\ \/ op.pc \in Sending /\ op.txn = x /\ op.left < Chunks
       \/ dead /\ op.pc \notin Sending \cup {"request"}

\* No message is broken into, at the pedal or on the way to it.
Unbroken ==
  /\ ~garbled
  /\ \A c \in Channels : \E x \in Txns : Flowing(c, x) /\ Owned(c, x)

\* No step breaks into a message, if no chunk fails with part of one sent.
LEMMA StepUnbroken ==
  ASSUME IInv, Unbroken, "midfail" \notin Faults, "startfail" \notin Faults,
         [Next]_vars
  PROVE  Unbroken'
<1>b. /\ SendOK /\ PedalOK /\ op \in Op /\ op.ch \in Channels /\ op.txn \in Txns
      /\ op.left \in 0 .. Chunks /\ Chunks \in Nat
      /\ (op.kind = "none" <=> op.pc = "idle") /\ (op.pc \in Sending => op.left # 0)
      /\ op.kind = "close" => op.pc \in Leaving
      /\ NoTxn \in Txns
  BY SessionAssumption, SmallValues DEF IInv, TypeOK, Consistent, OpShape, Op, Sending
<1>f. ASSUME garbled' = garbled,
             \A c \in Channels, x \in Txns : Flowing(c, x) => Flowing(c, x)',
             \A c \in Channels, x \in Txns : Owned(c, x) => Owned(c, x)'
      PROVE  Unbroken'
  BY <1>f DEF Unbroken
<1>u. UNCHANGED <<toDev, half>> => \A c, x : Flowing(c, x) => Flowing(c, x)'
  BY DEF Flowing, Data
<1>s. ASSUME NEW d, NEW kind, NEW t, NEW last, Departs(d, kind, t, last), kind # "data",
             UNCHANGED half
      PROVE  \A c \in Channels, x \in Txns : Flowing(c, x) => Flowing(c, x)'
  BY <1>b, <1>s, SendFlows
\* An operation that stays where it is, or goes from one of a write's places
\* to another.
<1>1. ASSUME op'.pc = op.pc \/ (op.pc \in Sending /\ op'.pc \in Sending),
             op'.txn = op.txn, op'.left = op.left, dead => dead'
      PROVE  \A c \in Channels, x \in Txns : Owned(c, x) => Owned(c, x)'
  BY <1>1 DEF Owned, Sending
\* One that goes anywhere else leaves a message unfinished only in a session
\* that is dead.
<1>2. ASSUME op'.pc \notin Sending \cup {"request"}, dead => dead',
             op.pc \in Sending => dead' \/ op.left = Chunks
      PROVE  \A c \in Channels, x \in Txns : Owned(c, x) => Owned(c, x)'
  BY <1>2, <1>b DEF Owned, Sending
\* None is unfinished where one begins.
<1>3. ASSUME op.pc = "idle", ~dead
      PROVE  \A c \in Channels, x \in Txns : Owned(c, x) => Owned(c, x)'
  BY <1>3 DEF Owned, Sending
<1>i. Idle.pc = "idle"
  BY DEF Idle
<1>4. CASE UNCHANGED vars
  BY <1>1, <1>4, <1>f, <1>u DEF vars, pedal, outgoing, flags
<1>5. CASE BeginCall \/ BeginWrite
  BY <1>3, <1>5, <1>f, <1>u DEF BeginCall, BeginWrite, Begin, pedal, outgoing
<1>6. CASE BeginClose
  <2>1. op.pc = "idle" /\ op'.pc = "drain" /\ UNCHANGED <<dead, toDev, half, garbled>>
    BY <1>6 DEF BeginClose, At, Idle, outgoing, pedal
  <2> QED
    BY <1>2, <1>f, <1>u, <2>1 DEF Sending
<1>7. CASE Cancel
  BY <1>1, <1>7, <1>f, <1>u DEF Cancel, pedal, outgoing, flags
<1>8. CASE Loop
  <2>1. op'.pc = op.pc /\ op'.txn = op.txn /\ op'.left = op.left /\ (dead => dead')
        /\ UNCHANGED <<toDev, half, garbled>>
    <3>1. CASE ReadFrame
      <4>1. op' = [op EXCEPT !.moved = @ \/ Paces(Head(toHost))]
        BY <3>1 DEF ReadFrame
      <4> QED
        BY <1>b, <3>1, <4>1 DEF ReadFrame, pedal, outgoing, flags, Op
    <3>2. CASE ReadNothing \/ LoopStops
      <4>1. UNCHANGED <<op, dead, toDev, half, garbled>>
        BY <3>2 DEF ReadNothing, LoopStops, pedal, outgoing, flags
      <4> QED
        BY <4>1
    <3>3. CASE ReadFails
      BY <3>3 DEF ReadFails, pedal, outgoing
    <3> QED
      BY <1>8, <3>1, <3>2, <3>3 DEF Loop
  <2> QED
    BY <1>1, <1>f, <1>u, <2>1
<1>9. CASE Acknowledger
  <2>1. CASE AckLeaves \/ \E c \in Channels : AckDecides(c)
    BY <1>1, <1>f, <1>u, <2>1 DEF AckLeaves, AckDecides, pedal, outgoing, flags
  <2>2. CASE AckSends
    <3>1. UNCHANGED <<op, dead, half, garbled>>
      BY <2>2 DEF AckSends, pedal, flags
    <3>2. PICK d : d = ack.ch
      OBVIOUS
    <3>3. Departs(d, "ack", NoTxn, TRUE) \/ UNCHANGED toDev
      BY <2>2, <3>2, WriteDeparts DEF AckSends
    <3> QED
      BY <1>1, <1>f, <1>s, <1>u, <3>1, <3>3
  <2> QED
    BY <1>9, <2>1, <2>2 DEF Acknowledger
<1>10. CASE SendRequest
  <2>1. op.pc = "request" /\ UNCHANGED <<dead, half, garbled>>
    BY <1>10 DEF SendRequest, pedal, flags
  <2>2. CASE UNCHANGED toDev /\ Finish
    BY <1>2, <1>f, <1>i, <1>u, <2>1, <2>2 DEF Finish, Sending
  <2>3. CASE /\ Departs(op.ch, "data", op.txn, TRUE)
             /\ op' = [op EXCEPT !.pc = "look"] \/ Finish
    <3>1. PICK d, t : d = op.ch /\ t = op.txn
      OBVIOUS
    <3>2. op'.pc \in {"look", "idle"}
      BY <1>b, <1>i, <2>3 DEF Op, Finish
    <3>3. ASSUME NEW c \in Channels, NEW x \in Txns, Flowing(c, x), Owned(c, x)
          PROVE  Flowing(c, NoTxn)' \/ Flowing(c, x)'
      <4>1. x = NoTxn
        BY <2>1, <3>3 DEF Owned, Sending
      <4> QED
        BY <1>b, <2>1, <2>3, <3>1, <3>3, <4>1, SendFlows
    <3>4. \A c \in Channels, x \in Txns : Owned(c, x) => Owned(c, x)' /\ Owned(c, NoTxn)'
      BY <1>2, <2>1, <3>2 DEF Owned, Sending
    <3> QED
      BY <1>b, <2>1, <3>3, <3>4 DEF Unbroken
  <2> QED
    BY <1>10, <2>2, <2>3, WriteDeparts DEF SendRequest
<1>11. CASE SendChunk
  <2>1. op.pc = "chunk" /\ UNCHANGED <<dead, half, garbled>>
    BY <1>11 DEF SendChunk, pedal, flags
  <2>2. CASE UNCHANGED toDev /\ Finish /\ op.left = Chunks
    BY <1>2, <1>f, <1>i, <1>u, <2>1, <2>2 DEF Finish, Sending
  <2>3. CASE /\ Departs("data", "data", op.txn, op.left = 1)
             /\ op' = [op EXCEPT !.left = @ - 1, !.pc = IF op.left = 1 THEN "look" ELSE "pace"]
    <3>1. PICK t, last : t = op.txn /\ last = (op.left = 1)
      OBVIOUS
    <3>2. PICK y \in Txns : y = IF last THEN NoTxn ELSE t
      BY <1>b, <3>1
    <3>3. op'.pc = (IF op.left = 1 THEN "look" ELSE "pace") /\ op'.txn = t
          /\ op'.left = op.left - 1
      BY <1>b, <2>3, <3>1 DEF Op
    <3>4. ASSUME NEW c \in Channels, NEW x \in Txns, Flowing(c, x), Owned(c, x)
          PROVE  IF c = "data" THEN Flowing(c, y)' ELSE Flowing(c, NoTxn)'
      <4>1. c = "data" => x \in {NoTxn, t}
        BY <2>1, <3>1, <3>4 DEF Owned, Sending
      <4>2. c # "data" => x = NoTxn
        BY <3>4 DEF Owned
      <4>3. Departs("data", "data", t, last)
        BY <2>3, <3>1
      <4> QED
        BY <1>b, <2>1, <3>2, <3>4, <4>1, <4>2, <4>3, SendFlows
    <3>5. Owned("data", y)' /\ \A c \in Channels : Owned(c, NoTxn)'
      <4>1. CASE op.left = 1
        BY <3>1, <3>2, <4>1 DEF Owned
      <4>2. CASE op.left # 1
        <5>1. op'.pc = "pace" /\ op'.left < Chunks /\ op'.txn = t
          BY <1>b, <3>3, <4>2
        <5>2. y = t
          BY <3>1, <3>2, <4>2
        <5> QED
          BY <5>1, <5>2 DEF Owned, Sending
      <4> QED
        BY <4>1, <4>2
    <3> QED
      BY <1>b, <2>1, <3>4, <3>5 DEF Unbroken
  <2> QED
    <3>1. CASE /\ Send("data", "data", op.txn, op.left = 1)
               /\ op' = [op EXCEPT !.left = @ - 1,
                                   !.pc = IF op.left = 1 THEN "look" ELSE "pace"]
      BY <2>3, <3>1, WriteDeparts
    <3>2. CASE /\ Finish
               /\ Fault(IF op.left < Chunks THEN "midfail"
                        ELSE IF Landed THEN "startfail" ELSE "sendfail")
      <4>1. ~(op.left < Chunks) /\ ~Landed
        BY <3>2 DEF Fault
      <4> QED
        BY <1>b, <2>2, <3>2, <4>1 DEF Landed
    <3> QED
      BY <1>11, <3>1, <3>2 DEF SendChunk
<1>12. CASE MarkChunk \/ PaceAcked
  <2>1. op.pc \in Sending /\ op'.pc \in Sending /\ op'.txn = op.txn /\ op'.left = op.left
        /\ UNCHANGED <<dead, toDev, half, garbled>>
    BY <1>12, <1>b DEF MarkChunk, PaceAcked, Sending, Op, pedal, flags, outgoing
  <2> QED
    BY <1>1, <1>f, <1>u, <2>1
<1>13. CASE PaceDead \/ PaceExpires \/ StopLooking \/ GiveUpDead \/ WaitExpires \/ Settled
  <2>1. op'.pc = "idle" /\ (dead => dead') /\ (op.pc \in Sending => dead')
        /\ UNCHANGED <<toDev, half, garbled>>
    BY <1>13, <1>i DEF PaceDead, PaceExpires, StopLooking, GiveUpDead, WaitExpires, Settled,
                       Finish, Sending, pedal, flags, outgoing
  <2> QED
    BY <1>2, <1>f, <1>u, <2>1 DEF Sending
<1>14. CASE FindAnswer \/ FindNothing \/ NothingOwed \/ Wake
  <2>1. op'.pc \in {"idle", "flash", "unanswered", "wait", "look"} /\ op.pc \notin Sending
        /\ UNCHANGED <<dead, toDev, half, garbled>>
    BY <1>14, <1>b, <1>i DEF FindAnswer, FindNothing, NothingOwed, Wake, Finish, Sending, Op,
                       pedal, flags, outgoing
  <2> QED
    BY <1>2, <1>f, <1>u, <2>1 DEF Sending
<1>15. CASE AckOwed
  <2>1. op'.pc \in {"idle", "wait"} /\ op.pc \notin Sending /\ UNCHANGED <<dead, half, garbled>>
    BY <1>15, <1>b, <1>i DEF AckOwed, Finish, Sending, Op, pedal, flags
  <2>2. PICK d : d = op.ch
    OBVIOUS
  <2>3. Departs(d, "ack", NoTxn, TRUE) \/ UNCHANGED toDev
    BY <1>15, <2>2, WriteDeparts DEF AckOwed
  <2> QED
    BY <1>2, <1>f, <1>s, <1>u, <2>1, <2>3 DEF Sending
<1>16. CASE Close
  <2>1. /\ op.kind = "close" /\ UNCHANGED <<dead, half, garbled>>
        /\ op'.pc \in Leaving
    BY <1>16, <1>b DEF Close, DrainFirst, FarewellAck, FarewellHello, Farewell, DrainAgain,
                       DrainEnds, Release, Closing, At, Idle, Leaving, Op, pedal, flags
  <2>2. UNCHANGED toDev \/ \E d : \E kind \in {"ack", "hello"} : Departs(d, kind, NoTxn, TRUE)
    BY <1>16, WriteDeparts DEF Close, DrainFirst, FarewellAck, FarewellHello, Farewell,
                 DrainAgain, DrainEnds, Release, outgoing
  <2> QED
    BY <1>2, <1>b, <1>f, <1>s, <1>u, <2>1, <2>2 DEF Sending, Leaving
<1>17. CASE Device
  <2>1. UNCHANGED <<op, dead>>
    BY <1>17 DEF Device, DevAcks, DevKeepsQuiet, DevTakes, DevFeeds, DevNotifies, DevRepeats, flags
  <2>2. ASSUME NEW acked \in BOOLEAN, DevTakes(acked) PROVE Unbroken'
    <3>1. toDev[1].ch \in Channels
      BY <1>b, <2>2, FrameTaken DEF Frame
    <3>2. \A c \in Channels, x \in Txns : Flowing(c, x) => Flowing(c, x)'
      BY <1>b, <2>2, TakeFlows
    <3>3. ~garbled'
      BY <1>b, <2>2, <3>1, TakeFlows DEF Unbroken
    <3> QED
      BY <1>1, <2>1, <3>2, <3>3 DEF Unbroken
  <2>3. ASSUME NEW c \in Channels, DevFeeds(c) \/ DevNotifies(c) \/ DevRepeats(c)
        PROVE  Unbroken'
    BY <1>1, <1>f, <1>u, <2>1, <2>3 DEF DevFeeds, DevNotifies, DevRepeats, pedal, outgoing
  <2> QED
    BY <1>17, <2>2, <2>3 DEF Device, DevAcks, DevKeepsQuiet
<1> QED
  BY <1>4, <1>5, <1>6, <1>7, <1>8, <1>9, <1>10, <1>11, <1>12, <1>13, <1>14, <1>15, <1>16,
     <1>17 DEF Next, Operation, Stream, Await

-----------------------------------------------------------------------------
\* No two chunks or requests are on their way on the data channel.
AtMostOne == \A i, j \in DataFramesOut : i = j

\* Nor is what is on its way the end of a message.
Partial == \A i \in DataFramesOut : ~toDev[i].last

\* The pedal's acknowledgements on their way on the data channel.
Acks == {i \in 1 .. Len(toHost) : toHost[i].ch = "data" /\ toHost[i].ack # NoAck}

\* They are news from the k-th on; none are if k is 0.
NewsAt(k) ==
  /\ \A i \in Acks : i < k => toHost[i].ack = lastAck["data"]
  /\ \A i \in Acks : i >= k => toHost[i].ack = devAck["data"]
  /\ k = 0 => lastAck["data"] = devAck["data"]
  /\ k # 0 => k \in Acks

\* Where a piece of the answer to t is: on its way, or in a sequence of pieces.
Said(i, t) == Carries(i, "data") /\ toHost[i].data[1].txn = t
Says(s, t) == \E i \in 1 .. Len(s) : s[i].txn = t

\* Nothing of it is anywhere.
Silent(t) ==
  /\ ~Says(buf["data"], t) /\ ~Says(pend["data"], t)
  /\ \A i \in 1 .. Len(toHost) : ~Said(i, t)

\* The data channel is at rest: all is taken, and nothing on its way is news.
Quiet == DataFramesOut = {} /\ NewsAt(0)

\* It is in use for t: what is on its way is unanswered and the news of the last
\* frame were read, or they are k-th, before any piece of the answer.
Hears(t, k) ==
  /\ NewsAt(k)
  /\ DataFramesOut # {} => k = 0 /\ Silent(t)
  /\ \A i \in 1 .. Len(toHost) : Said(i, t) => k < i
  /\ Says(buf["data"], t) => k = 0

\* What a frame that leaves adds to the frames on their way.
LEMMA SendCounts ==
  ASSUME SendOK, NEW d, NEW kind, NEW t, NEW last, Departs(d, kind, t, last)
  PROVE  /\ DataFramesOut' = IF d = "data" /\ kind = "data"
                             THEN DataFramesOut \cup {Len(toDev) + 1} ELSE DataFramesOut
         /\ \A i \in DataFramesOut : toDev'[i] = toDev[i]
         /\ toDev'[Len(toDev) + 1].last = last /\ toDev'[Len(toDev) + 1].txn = t
<1>0. PICK r : /\ Len(toDev) \in Nat /\ Len(toDev') = Len(toDev) + 1
               /\ \A i \in 1 .. Len(toDev) : toDev'[i] = toDev[i]
               /\ toDev'[Len(toDev) + 1] = r /\ toDev' = Append(toDev, r)
               /\ r.ch = d /\ r.kind = kind /\ r.txn = t /\ r.last = last
  BY FrameSent
<1>2. r.ch = d /\ r.kind = kind /\ r.txn = t /\ r.last = last
  BY <1>0
<1>1. PICK n \in Nat : n = Len(toDev) /\ Len(toDev') = n + 1
                       /\ (\A i \in 1 .. n : toDev'[i] = toDev[i]) /\ toDev'[n + 1] = r
  BY <1>0
<1>3. DOMAIN toDev = 1 .. n /\ DOMAIN toDev' = 1 .. n + 1
  <2>1. toDev \in Seq(Frame) /\ toDev' = Append(toDev, r)
    BY <1>0 DEF SendOK
  <2> QED
    BY <1>1, <2>1
<1>4. DataFramesOut \subseteq 1 .. n
  BY <1>3 DEF DataFramesOut
<1>5. ASSUME NEW i
      PROVE  i \in DataFramesOut' <=>
               \/ i \in DataFramesOut
               \/ i = n + 1 /\ d = "data" /\ kind = "data"
  <2>1. CASE i \in 1 .. n
    BY <1>1, <1>3, <2>1 DEF DataFramesOut
  <2>2. CASE i = n + 1
    BY <1>1, <1>2, <1>3, <2>2 DEF DataFramesOut
  <2>3. CASE i \notin 1 .. n + 1
    BY <1>1, <1>3, <2>3 DEF DataFramesOut
  <2> QED
    BY <1>1, <2>1, <2>2, <2>3
<1> QED
  BY <1>1, <1>2, <1>4, <1>5

\* The pedal takes the first frame off them.
LEMMA TakeCounts ==
  ASSUME SendOK, NEW acked, DevTakes(acked)
  PROVE  /\ \A i \in DataFramesOut' : /\ i \in Nat /\ i >= 1 /\ i + 1 \in DataFramesOut
                                      /\ toDev'[i] = toDev[i + 1]
         /\ 1 \in DataFramesOut <=> Data(1, "data")
<1>1. PICK n \in Nat : /\ n = Len(toDev) /\ n >= 1 /\ Len(toDev') = n - 1
                       /\ \A i \in 1 .. n - 1 : toDev'[i] = toDev[i + 1]
  BY FrameTaken
<1>2. DOMAIN toDev = 1 .. n /\ DOMAIN toDev' = 1 .. n - 1
  <2>1. toDev \in Seq(Frame) /\ toDev # <<>> /\ toDev' = Tail(toDev)
    BY DEF SendOK, DevTakes
  <2> QED
    BY <1>1, <2>1
<1>3. ASSUME NEW i \in DataFramesOut'
      PROVE  i \in Nat /\ i >= 1 /\ i + 1 \in DataFramesOut /\ toDev'[i] = toDev[i + 1]
  <2>1. i \in 1 .. n - 1 /\ toDev'[i].ch = "data" /\ toDev'[i].kind = "data"
    BY <1>2 DEF DataFramesOut
  <2>2. i + 1 \in 1 .. n /\ toDev'[i] = toDev[i + 1]
    BY <1>1, <2>1
  <2> QED
    BY <1>2, <2>1, <2>2 DEF DataFramesOut
<1> QED
  BY <1>1, <1>2, <1>3 DEF DataFramesOut, Data

\* Steps that leave the data channel's frames and acknowledgements alone, and
\* take from its buffer at most.
Undisturbed ==
  /\ DataFramesOut' = DataFramesOut
  /\ \A i \in DataFramesOut : toDev'[i] = toDev[i]
  /\ toHost' = toHost /\ pend'["data"] = pend["data"]
  /\ lastAck'["data"] = lastAck["data"] /\ devAck'["data"] = devAck["data"]
  /\ \A t : Says(buf'["data"], t) => Says(buf["data"], t)

\* They keep all that is said of it.
LEMMA UndisturbedKeeps ==
  ASSUME Undisturbed
  PROVE  /\ AtMostOne => AtMostOne'
         /\ Partial => Partial'
         /\ Quiet => Quiet'
         /\ \A t : Silent(t) => Silent(t)'
         /\ \A t, k : Hears(t, k) => Hears(t, k)'
<1> USE DEF Undisturbed
<1>1. \A k : NewsAt(k) => NewsAt(k)'
  BY DEF NewsAt, Acks
<1>2. \A t : Silent(t) => Silent(t)'
  BY DEF Silent, Said, Carries
<1>3. (AtMostOne => AtMostOne') /\ (Quiet => Quiet')
  BY <1>1 DEF AtMostOne, Quiet
<1>4. Partial => Partial'
  BY DEF Partial
<1>5. ASSUME NEW t, NEW k, Hears(t, k) PROVE Hears(t, k)'
  <2>1. NewsAt(k)'
    BY <1>1, <1>5 DEF Hears
  <2>2. (DataFramesOut # {})' => k = 0 /\ Silent(t)'
    BY <1>2, <1>5 DEF Hears
  <2>3. \A i \in 1 .. Len(toHost') : Said(i, t)' => k < i
    BY <1>5 DEF Hears, Said, Carries
  <2>4. Says(buf'["data"], t) => k = 0
    BY <1>5 DEF Hears
  <2> QED
    BY <2>1, <2>2, <2>3, <2>4 DEF Hears
<1> QED
  BY <1>2, <1>3, <1>4, <1>5

\* A cut leaves no piece that was not there.
LEMMA CutSays ==
  ASSUME NEW b \in Seq(Piece), NEW n \in 0 .. Len(b), NEW t, Says(SubSeq(b, n + 1, Len(b)), t)
  PROVE  Says(b, t)
<1> DEFINE cut == SubSeq(b, n + 1, Len(b))
<1>1. /\ Len(b) \in Nat /\ Len(cut) = Len(b) - n
      /\ \A i \in 1 .. Len(b) - n : cut[i] = b[n + i]
  BY LenProperties
<1> HIDE DEF cut
<1>2. PICK i \in 1 .. Len(cut) : cut[i].txn = t
  BY DEF Says, cut
<1>3. n + i \in 1 .. Len(b) /\ cut[i] = b[n + i]
  BY <1>1
<1> QED
  BY <1>2, <1>3 DEF Says

\* What a read that brings a reply does to the data channel.
LEMMA ReadMoves ==
  ASSUME IInv, Carried, ReadFrame
  PROVE  /\ \A i : i \in Acks' => i \in Nat /\ i >= 1 /\ i + 1 \in Acks
                                  /\ toHost'[i] = toHost[i + 1]
         /\ \A i \in Nat : i >= 1 /\ i + 1 \in Acks => i \in Acks'
         /\ lastAck'["data"] = IF 1 \in Acks THEN toHost[1].ack ELSE lastAck["data"]
         /\ \A t : \A i \in 1 .. Len(toHost') : Said(i, t)' =>
              i \in Nat /\ i + 1 \in 1 .. Len(toHost) /\ Said(i + 1, t)
         /\ \A t : Says(buf'["data"], t) => \/ Says(buf["data"], t)
                                            \/ 1 \in 1 .. Len(toHost) /\ Said(1, t)
         /\ Head(toHost) = toHost[1]
<1>1. /\ toHost \in Seq(Reply) /\ toHost # <<>> /\ toHost' = Tail(toHost)
      /\ buf \in [Channels -> Seq(Piece)] /\ lastAck \in [Channels -> 0 .. CtrMod]
  BY DEF IInv, TypeOK, ReceiveOK, ReadFrame
<1>2. PICK n \in Nat : /\ n = Len(toHost) /\ n >= 1 /\ Len(toHost') = n - 1
                       /\ \A i \in 1 .. n - 1 : toHost'[i] = toHost[i + 1]
                       /\ Head(toHost) = toHost[1] /\ toHost[1] \in Reply
  BY <1>1, ReplyRead
<1> DEFINE f == toHost[1]
<1>3. f.ch \in Channels /\ "data" \in Channels
  BY <1>2, SessionAssumption DEF Reply
<1>4. ASSUME NEW i, i \in Acks'
      PROVE  i \in Nat /\ i >= 1 /\ i + 1 \in Acks /\ toHost'[i] = toHost[i + 1]
  <2>1. i \in 1 .. n - 1 /\ toHost'[i].ch = "data" /\ toHost'[i].ack # NoAck
    BY <1>2, <1>4 DEF Acks
  <2>2. i + 1 \in 1 .. n /\ toHost'[i] = toHost[i + 1]
    BY <1>2, <2>1
  <2> QED
    BY <1>2, <2>1, <2>2 DEF Acks
<1>5. ASSUME NEW i \in Nat, i >= 1, i + 1 \in Acks
      PROVE  i \in Acks'
  <2>1. i + 1 \in 1 .. n /\ toHost[i + 1].ch = "data" /\ toHost[i + 1].ack # NoAck
    BY <1>2, <1>5 DEF Acks
  <2>2. i \in 1 .. n - 1 /\ toHost'[i] = toHost[i + 1]
    BY <1>2, <1>5, <2>1
  <2> QED
    BY <1>2, <2>1, <2>2 DEF Acks
<1>6. lastAck'["data"] = IF 1 \in Acks THEN f.ack ELSE lastAck["data"]
  <2>1. lastAck' = [lastAck EXCEPT ![f.ch] = IF Moves(f) THEN f.ack ELSE @]
    BY <1>2 DEF ReadFrame
  <2>2. 1 \in Acks <=> f.ch = "data" /\ f.ack # NoAck
    BY <1>2 DEF Acks
  <2>3. Moves(f) <=> f.ack # NoAck /\ f.ack # lastAck[f.ch]
    BY DEF Moves
  <2> HIDE DEF f
  <2>4. CASE f.ch # "data"
    BY <1>1, <1>3, <2>1, <2>2, <2>4
  <2>5. CASE f.ch = "data" /\ Moves(f)
    BY <1>1, <1>3, <2>1, <2>2, <2>3, <2>5
  <2>6. CASE f.ch = "data" /\ ~Moves(f)
    BY <1>1, <1>3, <2>1, <2>2, <2>3, <2>6
  <2> QED
    BY <2>4, <2>5, <2>6
<1>7. ASSUME NEW i \in 1 .. Len(toHost'), NEW t, Said(i, t)'
      PROVE  i \in Nat /\ i + 1 \in 1 .. Len(toHost) /\ Said(i + 1, t)
  <2>1. i \in Nat /\ i + 1 \in 1 .. Len(toHost) /\ toHost'[i] = toHost[i + 1]
    BY <1>2
  <2> QED
    BY <1>7, <2>1 DEF Said, Carries
<1>8. ASSUME NEW t, Says(buf'["data"], t)
      PROVE  Says(buf["data"], t) \/ (1 \in 1 .. Len(toHost) /\ Said(1, t))
  <2>1. buf'["data"] = IF f.ch = "data" THEN buf["data"] \o f.data ELSE buf["data"]
    BY <1>1, <1>2, <1>3 DEF ReadFrame
  <2>2. CASE f.ch # "data" \/ f.data = <<>>
    <3>1. buf["data"] \in Seq(Piece)
      BY <1>1, <1>3
    <3>2. buf["data"] \o <<>> = buf["data"]
      BY <3>1, ConcatEmptySeq
    <3>3. buf'["data"] = buf["data"]
      BY <2>1, <2>2, <3>2
    <3> QED
      BY <1>8, <3>3 DEF Says
  <2>3. CASE f.ch = "data" /\ f.data # <<>>
    <3>1. PICK p \in Piece : f.data = <<p>>
      BY <1>2, <2>3 DEF Carried
    <3>2. toHost[1].data[1] = p
      BY <3>1
    <3>3. PICK b : b = buf["data"] /\ b \in Seq(Piece)
      BY <1>1, <1>3
    <3>4. /\ Len(b) \in Nat /\ Len(b \o <<p>>) = Len(b) + 1 /\ (b \o <<p>>)[Len(b) + 1] = p
          /\ \A i \in 1 .. Len(b) : (b \o <<p>>)[i] = b[i]
      BY <3>3
    <3>5. PICK i \in 1 .. Len(b \o <<p>>) : (b \o <<p>>)[i].txn = t
      BY <1>8, <2>1, <2>3, <3>1, <3>3 DEF Says
    <3>6. CASE i = Len(b) + 1
      BY <1>2, <2>3, <3>2, <3>4, <3>5, <3>6 DEF Said, Carries
    <3>7. CASE i \in 1 .. Len(b)
      <4>1. i \in 1 .. Len(b) /\ b[i].txn = t
        BY <3>4, <3>5, <3>7
      <4>2. Says(b, t)
        BY <4>1 DEF Says
      <4> QED
        BY <3>3, <4>2, Zenon
    <3> QED
      BY <3>4, <3>5, <3>6, <3>7
  <2> QED
    BY <2>2, <2>3
<1> QED
  BY <1>2, <1>4, <1>5, <1>6, <1>7, <1>8

\* A read takes a reply off: what was news is read once it comes first, and no
\* acknowledgement moves that was not news.
LEMMA ReadHears ==
  ASSUME IInv, Carried, ReadFrame
  PROVE  /\ AtMostOne => AtMostOne'
         /\ Partial => Partial'
         /\ DataFramesOut' = DataFramesOut
         /\ Quiet => Quiet'
         /\ \A t : Silent(t) => Silent(t)'
         /\ \A t : \A k \in Nat : Hears(t, k) =>
              \E m \in Nat : /\ Hears(t, m)'
                             /\ k = 0 => m = 0
                             /\ Moves(Head(toHost)) /\ Head(toHost).ch = "data"
                                => m = 0 /\ DataFramesOut' = {}
         /\ Quiet => ~(Moves(Head(toHost)) /\ Head(toHost).ch = "data")
<1>1. /\ UNCHANGED <<toDev, pend, devAck>>
  BY DEF ReadFrame, pedal, outgoing
<1>2. DataFramesOut' = DataFramesOut /\ (AtMostOne => AtMostOne') /\ (Partial => Partial')
  BY <1>1 DEF DataFramesOut, AtMostOne, Partial
<1> DEFINE f == toHost[1]
<1>3. Moves(Head(toHost)) /\ Head(toHost).ch = "data"
        => 1 \in Acks /\ f.ack # lastAck["data"]
  <2>1. Len(toHost) \in Nat /\ Len(toHost) >= 1 /\ Head(toHost) = f
    BY ReplyRead DEF IInv, TypeOK, ReadFrame
  <2> QED
    BY <2>1 DEF Moves, Acks
<1>4. ASSUME NEW k \in Nat, NewsAt(k)
      PROVE  /\ NewsAt(IF k = 0 THEN 0 ELSE k - 1)'
             /\ 1 \in Acks /\ f.ack # lastAck["data"] => k = 1
  <2>1. CASE k = 0
    BY <1>1, <1>4, <2>1, ReadMoves DEF NewsAt
  <2>2. CASE k = 1
    BY <1>1, <1>4, <2>2, ReadMoves DEF NewsAt
  <2>3. CASE k > 1
    <3>1. k - 1 \in Acks' /\ k - 1 \in Nat /\ k - 1 # 0
      <4>1. k - 1 \in Nat /\ k - 1 >= 1 /\ (k - 1) + 1 = k /\ k \in Acks
        BY <1>4, <2>3 DEF NewsAt
      <4> QED
        BY <4>1, ReadMoves
    <3>2. lastAck'["data"] = lastAck["data"]
      BY <1>4, <2>3, ReadMoves DEF NewsAt
    <3>3. ASSUME NEW i \in Acks'
          PROVE  /\ i < k - 1 => toHost'[i].ack = lastAck["data"]
                 /\ i >= k - 1 => toHost'[i].ack = devAck["data"]
      <4>1. i \in Nat /\ i + 1 \in Acks /\ toHost'[i] = toHost[i + 1]
        BY ReadMoves
      <4>2. (i < k - 1 => i + 1 < k) /\ (i >= k - 1 => i + 1 >= k)
        BY <2>3, <4>1
      <4> QED
        BY <1>4, <4>1, <4>2 DEF NewsAt
    <3>4. 1 \in Acks => f.ack = lastAck["data"]
      BY <1>4, <2>3 DEF NewsAt
    <3>5. NewsAt(k - 1)'
      BY <1>1, <3>1, <3>2, <3>3 DEF NewsAt
    <3> QED
      BY <2>3, <3>4, <3>5
  <2> QED
    BY <2>1, <2>2, <2>3
<1>5. Quiet => Quiet'
  BY <1>2, <1>4 DEF Quiet
<1>6. Quiet => ~(Moves(Head(toHost)) /\ Head(toHost).ch = "data")
  BY <1>3, <1>4 DEF Quiet
<1>7. ASSUME NEW t, Silent(t) PROVE Silent(t)'
  <2>1. pend' = pend
    BY <1>1
  <2>2. ~Says(buf'["data"], t)
    BY <1>7, ReadMoves DEF Silent
  <2>3. \A i \in 1 .. Len(toHost') : ~Said(i, t)'
    BY <1>7, ReadMoves DEF Silent
  <2> QED
    BY <1>7, <2>1, <2>2, <2>3 DEF Silent
<1>8. ASSUME NEW t, NEW k \in Nat, Hears(t, k)
      PROVE  \E m \in Nat : /\ Hears(t, m)'
                            /\ k = 0 => m = 0
                            /\ Moves(Head(toHost)) /\ Head(toHost).ch = "data"
                               => m = 0 /\ DataFramesOut' = {}
  <2>1. PICK m \in Nat : m = IF k = 0 THEN 0 ELSE k - 1
    OBVIOUS
  <2>2. NewsAt(m)' /\ (1 \in Acks /\ f.ack # lastAck["data"] => k = 1)
    BY <1>4, <1>8, <2>1 DEF Hears
  <2>3. (DataFramesOut # {})' => m = 0 /\ Silent(t)'
    BY <1>2, <1>7, <1>8, <2>1 DEF Hears
  <2>4. ASSUME NEW i \in 1 .. Len(toHost'), Said(i, t)' PROVE m < i
    <3>1. i \in Nat /\ i + 1 \in 1 .. Len(toHost) /\ Said(i + 1, t) /\ i >= 1
      BY <2>4, ReadMoves
    <3>2. k < i + 1
      BY <1>8, <3>1 DEF Hears
    <3> QED
      BY <2>1, <3>1, <3>2
  <2>5. Says(buf'["data"], t) => m = 0
    <3>1. Says(buf["data"], t) => k = 0
      BY <1>8 DEF Hears
    <3>2. 1 \in 1 .. Len(toHost) /\ Said(1, t) => k < 1
      BY <1>8 DEF Hears
    <3> QED
      BY <2>1, <3>1, <3>2, ReadMoves
  <2>6. Hears(t, m)'
    BY <2>2, <2>3, <2>4, <2>5 DEF Hears
  <2>7. Moves(Head(toHost)) /\ Head(toHost).ch = "data" => m = 0 /\ DataFramesOut' = {}
    BY <1>2, <1>3, <1>8, <2>1, <2>2 DEF Hears
  <2> QED
    BY <2>1, <2>6, <2>7
<1> QED
  BY <1>2, <1>5, <1>6, <1>7, <1>8

\* What the pedal adds to what is on its way is a repeat of its last
\* acknowledgement, or what it had to say.
LEMMA DeviceAdds ==
  ASSUME toHost \in Seq(Reply), NEW t,
         UNCHANGED <<lastAck, buf>>, devAck'["data"] = devAck["data"],
         DataFramesOut = {} => DataFramesOut' = {},
         \/ toHost' = toHost
         \/ \E r : /\ toHost' = Append(toHost, r)
                   /\ r.ch = "data" =>
                        /\ r.ack # NoAck => r.ack = devAck["data"]
                        /\ r.data # <<>> /\ r.data[1].txn = t => Says(pend["data"], t),
         Says(pend'["data"], t) => Says(pend["data"], t)
  PROVE  /\ Silent(t) => Silent(t)'
         /\ Quiet => Quiet'
         /\ \A k \in Nat : Hears(t, k) => Hears(t, k)'
<1>1. CASE toHost' = toHost
  <2>1. \A k : NewsAt(k) => NewsAt(k)'
    BY <1>1 DEF NewsAt, Acks
  <2>2. Quiet => Quiet'
    BY <2>1 DEF Quiet
  <2>3. Silent(t) => Silent(t)'
    BY <1>1 DEF Silent, Said, Carries
  <2>4. ASSUME NEW k \in Nat, Hears(t, k) PROVE Hears(t, k)'
    <3>1. \A i \in 1 .. Len(toHost') : Said(i, t)' => k < i
      BY <1>1, <2>4 DEF Hears, Said, Carries
    <3>2. (DataFramesOut # {})' => k = 0 /\ Silent(t)'
      BY <2>3, <2>4 DEF Hears
    <3> QED
      BY <2>1, <2>4, <3>1, <3>2 DEF Hears
  <2> QED
    BY <2>2, <2>3, <2>4
<1>2. CASE \E r : /\ toHost' = Append(toHost, r)
                  /\ r.ch = "data" =>
                       /\ r.ack # NoAck => r.ack = devAck["data"]
                       /\ r.data # <<>> /\ r.data[1].txn = t => Says(pend["data"], t)
  <2>1. PICK r : /\ toHost' = Append(toHost, r)
                 /\ r.ch = "data" =>
                      /\ r.ack # NoAck => r.ack = devAck["data"]
                      /\ r.data # <<>> /\ r.data[1].txn = t => Says(pend["data"], t)
    BY <1>2
  <2>2. PICK n \in Nat : n = Len(toHost) /\ Len(toHost') = n + 1
                         /\ (\A i \in 1 .. n : toHost'[i] = toHost[i]) /\ toHost'[n + 1] = r
    BY <2>1, ReplySent
  <2>3. ASSUME NEW i \in Acks'
        PROVE  \/ i \in Acks /\ toHost'[i] = toHost[i]
               \/ i = n + 1 /\ toHost'[i].ack = devAck["data"]
    <3>1. i \in 1 .. n + 1 /\ toHost'[i].ch = "data" /\ toHost'[i].ack # NoAck
      BY <2>2 DEF Acks
    <3>2. CASE i = n + 1
      BY <2>1, <2>2, <3>1, <3>2
    <3>3. CASE i \in 1 .. n
      BY <2>2, <3>1, <3>3 DEF Acks
    <3> QED
      BY <2>2, <3>1, <3>2, <3>3
  <2>4. Acks \subseteq Acks' /\ Acks \subseteq 1 .. n
    BY <2>2 DEF Acks
  <2>5. ASSUME NEW k \in Nat, NewsAt(k) PROVE NewsAt(k)' /\ k <= n
    <3>1. k <= n /\ (k # 0 => k \in Acks')
      BY <2>2, <2>4, <2>5 DEF NewsAt
    <3>2. ASSUME NEW i \in Acks'
          PROVE  /\ i < k => toHost'[i].ack = lastAck["data"]
                 /\ i >= k => toHost'[i].ack = devAck["data"]
      BY <2>2, <2>3, <2>5, <3>1 DEF NewsAt
    <3> QED
      BY <2>5, <3>1, <3>2 DEF NewsAt
  <2>6. Quiet => Quiet'
    BY <2>5 DEF Quiet
  <2>7. ASSUME NEW i \in 1 .. Len(toHost'), Said(i, t)'
        PROVE  \/ i \in 1 .. n /\ Said(i, t)
               \/ i = n + 1 /\ Says(pend["data"], t)
    <3>1. CASE i = n + 1
      BY <2>1, <2>2, <2>7, <3>1 DEF Said, Carries
    <3>2. CASE i \in 1 .. n
      BY <2>2, <2>7, <3>2 DEF Said, Carries
    <3> QED
      BY <2>2, <3>1, <3>2
  <2>8. Silent(t) => Silent(t)'
    BY <2>2, <2>7 DEF Silent
  <2>9. ASSUME NEW k \in Nat, Hears(t, k) PROVE Hears(t, k)'
    <3>1. NewsAt(k)' /\ k <= n
      BY <2>5, <2>9 DEF Hears
    <3>2. \A i \in 1 .. Len(toHost') : Said(i, t)' => k < i
      BY <2>2, <2>7, <2>9, <3>1 DEF Hears
    <3>3. (DataFramesOut # {})' => k = 0 /\ Silent(t)'
      BY <2>8, <2>9 DEF Hears
    <3> QED
      BY <2>9, <3>1, <3>2, <3>3 DEF Hears
  <2> QED
    BY <2>6, <2>8, <2>9
<1> QED
  BY <1>1, <1>2

\* Pieces taken off are gone; an envelope put behind brings its own transaction.
LEMMA PendSays ==
  ASSUME NEW s \in Seq(Piece)
  PROVE  /\ \A t : s # <<>> /\ Says(Tail(s), t) => Says(s, t)
         /\ \A t : s # <<>> /\ Head(s).txn = t => Says(s, t)
         /\ \A t, u \in Txns : \A n \in 1 .. ReplyFrames :
              Says(s \o Pieces(u, n), t) => Says(s, t) \/ t = u
<1>1. ASSUME s # <<>>, NEW t
      PROVE  (Says(Tail(s), t) => Says(s, t)) /\ (Head(s).txn = t => Says(s, t))
  <2>1. /\ Len(s) \in Nat /\ Len(s) >= 1 /\ Len(Tail(s)) = Len(s) - 1 /\ Head(s) = s[1]
        /\ \A i \in 1 .. Len(s) - 1 : Tail(s)[i] = s[i + 1]
    BY <1>1, LenProperties, EmptySeq
  <2>2. ASSUME NEW i \in 1 .. Len(Tail(s)), Tail(s)[i].txn = t PROVE Says(s, t)
    <3>1. i + 1 \in 1 .. Len(s) /\ s[i + 1].txn = t
      BY <2>1, <2>2
    <3> QED
      BY <3>1 DEF Says
  <2> QED
    BY <2>1, <2>2 DEF Says
<1>2. ASSUME NEW t, NEW u \in Txns, NEW n \in 1 .. ReplyFrames, Says(s \o Pieces(u, n), t)
      PROVE  Says(s, t) \/ t = u
  <2> DEFINE e == Pieces(u, n)
  <2>1. e \in Seq(Piece) /\ n \in Nat
    BY PiecesType, SessionAssumption
  <2>2. Len(e) = n /\ \A i \in 1 .. n : e[i].txn = u
    BY <2>1 DEF Pieces
  <2> HIDE DEF e
  <2>3. Len(s) \in Nat /\ Len(s \o e) = Len(s) + Len(e)
    BY <2>1, LenProperties, ConcatProperties
  <2>4. PICK i \in 1 .. Len(s \o e) : (s \o e)[i].txn = t
    BY <1>2 DEF Says, e
  <2>5. (s \o e)[i] = IF i <= Len(s) THEN s[i] ELSE e[i - Len(s)]
    BY <2>1, <2>3, <2>4, ConcatProperties
  <2>6. CASE i <= Len(s)
    BY <2>3, <2>4, <2>5, <2>6 DEF Says
  <2>7. CASE ~(i <= Len(s))
    <3>1. i - Len(s) \in 1 .. n
      BY <2>1, <2>2, <2>3, <2>4, <2>7
    <3> QED
      BY <2>2, <2>4, <2>5, <2>7, <3>1
  <2> QED
    BY <2>6, <2>7
<1> QED
  BY <1>1, <1>2

\* What the pedal does keeps the data channel at rest, or in use for t: a frame it
\* takes is news, and its answer comes after it.
LEMMA DeviceHears ==
  ASSUME IInv, Carried, Device, AtMostOne, NEW t \in Txns, t # Notice
  PROVE  /\ AtMostOne'
         /\ Quiet => Quiet'
         /\ \A i \in DataFramesOut' : \E j \in DataFramesOut : toDev'[i] = toDev[j]
         /\ Silent(t) /\ (\A i \in DataFramesOut : toDev[i].last => toDev[i].txn # t)
            => Silent(t)'
         /\ \A k \in Nat : Hears(t, k) =>
              \E m \in Nat : /\ Hears(t, m)'
                             /\ k = 0 /\ DataFramesOut = {} => m = 0 /\ DataFramesOut' = {}
<1> DEFINE Held ==
      /\ AtMostOne'
      /\ Quiet => Quiet'
      /\ \A i \in DataFramesOut' : \E j \in DataFramesOut : toDev'[i] = toDev[j]
      /\ Silent(t) /\ (\A i \in DataFramesOut : toDev[i].last => toDev[i].txn # t)
         => Silent(t)'
      /\ \A k \in Nat : Hears(t, k) =>
           \E m \in Nat : /\ Hears(t, m)'
                          /\ k = 0 /\ DataFramesOut = {} => m = 0 /\ DataFramesOut' = {}
<1>1. /\ toHost \in Seq(Reply) /\ pend \in [Channels -> Seq(Piece)] /\ SendOK
      /\ devAck \in [Channels -> 0 .. CtrMod] /\ taken \in [Channels -> Counter]
      /\ "data" \in Channels /\ pend["data"] \in Seq(Piece)
  BY SessionAssumption DEF IInv, TypeOK, PedalOK
\* A step after which nothing but what DeviceAdds says is added.
<1>a. ASSUME UNCHANGED <<lastAck, buf, toDev>>, devAck'["data"] = devAck["data"],
             \/ toHost' = toHost
             \/ \E r : /\ toHost' = Append(toHost, r)
                       /\ r.ch = "data" =>
                            /\ r.ack # NoAck => r.ack = devAck["data"]
                            /\ r.data # <<>> /\ r.data[1].txn = t => Says(pend["data"], t),
             Says(pend'["data"], t) => Says(pend["data"], t)
      PROVE  Held
  <2>1. DataFramesOut' = DataFramesOut /\ AtMostOne' /\ toDev' = toDev
    BY <1>a DEF DataFramesOut, AtMostOne
  <2>2. /\ Silent(t) => Silent(t)'
        /\ Quiet => Quiet'
        /\ \A k \in Nat : Hears(t, k) => Hears(t, k)'
    BY <1>1, <1>a, <2>1, DeviceAdds
  <2> QED
    BY <2>1, <2>2
<1>2. ASSUME NEW d \in Channels, DevFeeds(d)
      PROVE  Held
  <2> DEFINE p == Head(pend[d])
             r == [ch |-> d, ack |-> NoAck, data |-> <<p>>]
  <2>1. UNCHANGED <<lastAck, buf, toDev, devAck>> /\ toHost' = Append(toHost, r)
        /\ pend' = [pend EXCEPT ![d] = Tail(@)] /\ pend[d] # <<>>
    BY <1>2 DEF DevFeeds, receive, outgoing
  <2>2. r.ch = d /\ r.ack = NoAck /\ r.data[1] = p
    OBVIOUS
  <2> HIDE DEF r
  <2>3. Says(pend'["data"], t) => Says(pend["data"], t)
    <3>1. CASE d = "data"
      BY <1>1, <2>1, <3>1, PendSays
    <3>2. CASE d # "data"
      <4>1. pend'["data"] = pend["data"]
        BY <1>1, <2>1, <3>2
      <4> QED
        BY <4>1 DEF Says
    <3> QED
      BY <3>1, <3>2
  <2>4. d = "data" /\ p.txn = t => Says(pend["data"], t)
    BY <1>1, <2>1, PendSays
  <2> HIDE DEF p
  <2> QED
    BY <1>a, <2>1, <2>2, <2>3, <2>4
<1>3. ASSUME NEW d \in Channels, DevNotifies(d)
      PROVE  Held
  <2>1. UNCHANGED <<lastAck, buf, toDev, devAck, toHost>>
        /\ pend' = [pend EXCEPT ![d] = @ \o Pieces(Notice, 1)]
    BY <1>3 DEF DevNotifies, receive, outgoing
  <2>2. Says(pend'["data"], t) => Says(pend["data"], t)
    <3>1. CASE d = "data"
      <4>1. pend'["data"] = pend["data"] \o Pieces(Notice, 1)
        BY <1>1, <2>1, <3>1
      <4>2. Says(pend["data"] \o Pieces(Notice, 1), t) => Says(pend["data"], t) \/ t = Notice
        BY <1>1, PendSays, SmallValues
      <4> QED
        BY <4>1, <4>2
    <3>2. CASE d # "data"
      <4>1. pend'["data"] = pend["data"]
        BY <1>1, <2>1, <3>2
      <4> QED
        BY <4>1 DEF Says
    <3> QED
      BY <3>1, <3>2
  <2> QED
    BY <1>a, <2>1, <2>2
<1>4. ASSUME NEW d \in Channels, DevRepeats(d)
      PROVE  Held
  <2> DEFINE r == [ch |-> d, ack |-> devAck[d], data |-> <<>>]
  <2>1. UNCHANGED <<lastAck, buf, toDev, devAck, pend>> /\ toHost' = Append(toHost, r)
    BY <1>4 DEF DevRepeats, receive, outgoing, pedal
  <2>2. r.ch = d /\ r.ack = devAck[d] /\ r.data = <<>>
    OBVIOUS
  <2> HIDE DEF r
  <2> QED
    BY <1>a, <2>1, <2>2
<1>5. ASSUME NEW acked \in BOOLEAN, DevTakes(acked)
      PROVE  Held
  <2> DEFINE f == toDev[1]
             r == [ch |-> f.ch, ack |-> Inc(taken[f.ch]), data |-> <<>>]
  <2>1. Head(toDev) = f /\ f \in Frame /\ f.ch \in Channels /\ f.txn \in Txns
    BY <1>1, <1>5, FrameTaken DEF Frame
  <2>2. /\ UNCHANGED <<lastAck, buf>>
        /\ acked => f.kind = "data"
        /\ acked \/ f.last
        /\ toHost' = IF acked THEN Append(toHost, r) ELSE toHost
        /\ devAck' = [devAck EXCEPT ![f.ch] = IF acked THEN Inc(taken[f.ch]) ELSE @]
        /\ pend' = [pend EXCEPT ![f.ch] = IF f.kind = "data" /\ f.last
                                          THEN @ \o Pieces(f.txn, ReplyFrames) ELSE @]
    BY <1>5, <2>1 DEF DevTakes, receive
  <2>3. r.ch = f.ch /\ r.ack = Inc(taken[f.ch]) /\ r.data = <<>>
    OBVIOUS
  <2> HIDE DEF r
  <2>4. /\ \A i \in DataFramesOut' : /\ i \in Nat /\ i >= 1 /\ i + 1 \in DataFramesOut
                                     /\ toDev'[i] = toDev[i + 1]
        /\ 1 \in DataFramesOut <=> f.ch = "data" /\ f.kind = "data"
    BY <1>1, <1>5, TakeCounts DEF Data
  <2> HIDE DEF f
  <2>5. /\ AtMostOne' /\ (DataFramesOut = {} => DataFramesOut' = {})
        /\ \A i \in DataFramesOut' : \E j \in DataFramesOut : toDev'[i] = toDev[j]
    <3>1. AtMostOne'
      <4> SUFFICES ASSUME NEW i \in DataFramesOut', NEW j \in DataFramesOut' PROVE i = j
        BY DEF AtMostOne
      <4>1. i + 1 = j + 1 /\ i \in Nat /\ j \in Nat
        BY <2>4 DEF AtMostOne
      <4> QED
        BY <4>1
    <3> QED
      BY <2>4, <3>1
  <2>6. CASE f.ch = "data" /\ f.kind = "data"
    <3>1. DataFramesOut # {} /\ DataFramesOut' = {}
      <4>1. 1 \in DataFramesOut
        BY <2>4, <2>6
      <4>2. ASSUME NEW i \in DataFramesOut' PROVE FALSE
        <5>1. i + 1 = 1 /\ i \in Nat /\ i >= 1
          BY <2>4, <4>1 DEF AtMostOne
        <5> QED
          BY <5>1
      <4> QED
        BY <4>1, <4>2
    <3>2. ASSUME Silent(t), \A i \in DataFramesOut : toDev[i].last => toDev[i].txn # t
          PROVE  Silent(t)'
      <4>1. f.last => f.txn # t
        BY <2>4, <2>6, <3>2 DEF f
      <4>2. ~Says(pend'["data"], t)
        <5>1. CASE f.last
          <6>1. pend'["data"] = pend["data"] \o Pieces(f.txn, ReplyFrames)
            BY <1>1, <2>2, <2>6, <5>1
          <6>2. Says(pend["data"] \o Pieces(f.txn, ReplyFrames), t)
                  => Says(pend["data"], t) \/ t = f.txn
            BY <1>1, <2>1, PendSays, SmallValues
          <6> QED
            BY <3>2, <4>1, <5>1, <6>1, <6>2 DEF Silent
        <5>2. CASE ~f.last
          <6>1. pend'["data"] = pend["data"]
            BY <1>1, <2>2, <2>6, <5>2
          <6> QED
            BY <3>2, <6>1 DEF Silent, Says
        <5> QED
          BY <5>1, <5>2
      <4>3. ~Says(buf'["data"], t)
        BY <2>2, <3>2 DEF Silent, Says
      <4>4. ASSUME NEW i \in 1 .. Len(toHost'), Said(i, t)' PROVE FALSE
        <5>1. CASE ~acked
          BY <2>2, <3>2, <4>4, <5>1 DEF Silent, Said, Carries
        <5>2. CASE acked
          <6>1. PICK n \in Nat : /\ n = Len(toHost) /\ Len(toHost') = n + 1
                                 /\ (\A j \in 1 .. n : toHost'[j] = toHost[j])
                                 /\ toHost'[n + 1] = r
            BY <1>1, <2>2, <5>2, ReplySent
          <6>2. CASE i = n + 1
            BY <2>3, <4>4, <6>1, <6>2 DEF Said, Carries
          <6>3. CASE i \in 1 .. n
            BY <3>2, <4>4, <6>1, <6>3 DEF Silent, Said, Carries
          <6> QED
            BY <6>1, <6>2, <6>3
        <5> QED
          BY <5>1, <5>2
      <4> QED
        BY <4>2, <4>3, <4>4 DEF Silent
    <3>3. ASSUME NEW k \in Nat, Hears(t, k) PROVE \E m \in Nat : Hears(t, m)'
      <4>1. k = 0 /\ Silent(t) /\ NewsAt(0) /\ ~Says(buf'["data"], t)
        BY <2>2, <3>1, <3>3 DEF Hears, Silent
      <4>2. CASE acked
        <5>1. PICK n \in Nat : /\ n = Len(toHost) /\ Len(toHost') = n + 1
                               /\ (\A j \in 1 .. n : toHost'[j] = toHost[j])
                               /\ toHost'[n + 1] = r
          BY <1>1, <2>2, <4>2, ReplySent
        <5>2. devAck'["data"] = r.ack /\ r.ack # NoAck /\ r.ch = "data"
          <6>1. Inc(taken["data"]) \in Counter
            BY <1>1, CounterStep
          <6>2. NoAck \notin Counter
            BY SessionAssumption DEF NoAck, Counter
          <6> QED
            BY <1>1, <2>2, <2>3, <2>6, <4>2, <6>1, <6>2
        <5>3. n + 1 \in Acks'
          BY <5>1, <5>2 DEF Acks
        <5>4. ASSUME NEW i \in Acks'
              PROVE  /\ i < n + 1 => toHost'[i].ack = lastAck'["data"]
                     /\ i >= n + 1 => toHost'[i].ack = devAck'["data"]
          <6>1. i \in 1 .. n + 1
            BY <5>1 DEF Acks
          <6>2. CASE i = n + 1
            BY <5>1, <5>2, <6>2
          <6>3. CASE i \in 1 .. n
            <7>1. i \in Acks /\ toHost'[i] = toHost[i] /\ i >= 0
              BY <5>1, <6>3 DEF Acks
            <7>2. n \in Nat /\ i \in Nat /\ ~(i >= n + 1) /\ ~(i < 0)
              BY <5>1, <6>3
            <7>3. toHost[i].ack = devAck["data"] /\ lastAck["data"] = devAck["data"]
              BY <4>1, <7>1 DEF NewsAt
            <7>4. toHost'[i].ack = lastAck'["data"]
              BY <2>2, <7>1, <7>3
            <7> QED
              BY <7>2, <7>4
          <6> QED
            BY <6>1, <6>2, <6>3
        <5>5. NewsAt(n + 1)'
          BY <5>3, <5>4 DEF NewsAt
        <5>6. ASSUME NEW i \in 1 .. Len(toHost'), Said(i, t)' PROVE FALSE
          <6>1. CASE i = n + 1
            BY <2>3, <5>1, <5>6, <6>1 DEF Said, Carries
          <6>2. CASE i \in 1 .. n
            BY <4>1, <5>1, <5>6, <6>2 DEF Silent, Said, Carries
          <6> QED
            BY <5>1, <6>1, <6>2
        <5>7. Hears(t, n + 1)'
          BY <3>1, <4>1, <5>5, <5>6 DEF Hears
        <5> QED
          BY <5>7
      <4>3. CASE ~acked
        <5>1. toHost' = toHost /\ devAck'["data"] = devAck["data"]
          BY <1>1, <2>2, <2>6, <4>3
        <5>2. NewsAt(0)'
          BY <2>2, <4>1, <5>1 DEF NewsAt, Acks
        <5>3. \A i \in 1 .. Len(toHost') : ~Said(i, t)'
          BY <4>1, <5>1 DEF Silent, Said, Carries
        <5> QED
          BY <3>1, <4>1, <5>2, <5>3 DEF Hears
      <4> QED
        BY <4>2, <4>3
    <3> QED
      BY <2>5, <3>1, <3>2, <3>3 DEF Quiet
  <2>7. CASE ~(f.ch = "data" /\ f.kind = "data")
    <3>1. devAck'["data"] = devAck["data"] /\ pend'["data"] = pend["data"]
      BY <1>1, <2>1, <2>2, <2>7
    <3>2. acked => r.ch # "data"
      BY <2>2, <2>3, <2>7
    <3>3. /\ Silent(t) => Silent(t)'
          /\ Quiet => Quiet'
          /\ \A k \in Nat : Hears(t, k) => Hears(t, k)'
      <4>1. Says(pend'["data"], t) => Says(pend["data"], t)
        BY <3>1 DEF Says
      <4> QED
        BY <1>1, <2>2, <2>5, <3>1, <3>2, <4>1, DeviceAdds
    <3> QED
      BY <2>5, <3>3
  <2> QED
    BY <2>6, <2>7
<1> QED
  BY <1>2, <1>3, <1>4, <1>5 DEF Device, DevAcks, DevKeepsQuiet

-----------------------------------------------------------------------------
\* The transaction of the operation under way is one its channel has handed out.
OpFresh ==
  /\ op.kind = "write" => op.ch = "data"
  /\ op.kind \in {"call", "write"} => op.txn # NoTxn /\ op.txn < txn[op.ch]

\* An operation keeps its channel and its transaction until it is over.
LEMMA StepOpFresh ==
  ASSUME IInv, OpFresh, [Next]_vars
  PROVE  OpFresh'
<1>b. /\ op \in Op /\ txn \in [Channels -> 1 .. MaxOps + 1] /\ "data" \in Channels
      /\ MaxOps \in Nat
      /\ op.kind \in {"none", "call", "write", "close"}
      /\ (op.kind = "close" => op.pc \in Leaving)
  BY SessionAssumption DEF IInv, TypeOK, Consistent, OpShape, Op
<1>1. ASSUME op'.kind = op.kind, op'.ch = op.ch, op'.txn = op.txn, txn' = txn
      PROVE  OpFresh'
  <2>1. PICK d, t, n : d = op.ch /\ t = op.txn /\ n = txn[d]
    OBVIOUS
  <2>2. op'.ch = d /\ op'.txn = t /\ txn'[d] = n
    BY <1>1, <2>1
  <2> QED
    BY <1>1, <2>1, <2>2 DEF OpFresh
<1>2. ASSUME op'.kind \notin {"call", "write"}
      PROVE  OpFresh'
  BY <1>2 DEF OpFresh
<1>i. Idle.kind = "none" /\ \A pc : At(pc).kind = "close"
  BY DEF Idle, At
<1>3. CASE UNCHANGED vars
  BY <1>1, <1>3 DEF vars
<1>4. ASSUME NEW kind \in {"call", "write"}, NEW c \in Channels,
             kind = "write" => c = "data", Begin(kind, c)
      PROVE  OpFresh'
  <2>1. op'.kind = kind /\ op'.ch = c /\ op'.txn = txn[c] /\ txn' = [txn EXCEPT ![c] = @ + 1]
    BY <1>4 DEF Begin, Idle
  <2>2. txn[c] \in Nat /\ txn[c] # 0 /\ txn'[c] = txn[c] + 1
    BY <1>b, <2>1
  <2>3. PICK n : n = txn[c]
    OBVIOUS
  <2> QED
    BY <1>4, <2>1, <2>2, <2>3 DEF OpFresh, NoTxn
<1>5. CASE BeginCall \/ BeginWrite
  BY <1>b, <1>4, <1>5 DEF BeginCall, BeginWrite
<1>6. CASE BeginClose \/ Close
  BY <1>2, <1>6, <1>i, <1>b DEF BeginClose, Close, DrainFirst, FarewellAck, FarewellHello,
     Farewell, DrainAgain, Release, Closing, Op
<1>7. CASE Loop
  <2>1. CASE ReadFrame
    <3>1. op' = [op EXCEPT !.moved = @ \/ Paces(Head(toHost))]
      BY <2>1 DEF ReadFrame
    <3> QED
      BY <1>1, <1>b, <2>1, <3>1 DEF ReadFrame, Op
  <2>2. CASE ReadNothing \/ ReadFails \/ LoopStops
    BY <1>1, <2>2 DEF ReadNothing, ReadFails, LoopStops
  <2> QED
    BY <1>7, <2>1, <2>2 DEF Loop
<1>8. CASE Cancel \/ Acknowledger
  BY <1>1, <1>8 DEF Cancel, Acknowledger, AckLeaves, AckSends, AckDecides
<1>9. CASE SendRequest \/ Stream \/ Await \/ Settled
  <2>1. CASE Finish
    BY <1>2, <1>i, <2>1 DEF Finish
  <2>2. CASE ~Finish
    <3>1. op'.kind = op.kind /\ op'.ch = op.ch /\ op'.txn = op.txn
      BY <1>9, <1>b, <2>2 DEF SendRequest, Stream, MarkChunk, SendChunk, PaceAcked, PaceDead,
         PaceExpires, Await, StopLooking, FindAnswer, FindNothing, GiveUpDead, NothingOwed,
         AckOwed, Wake, WaitExpires, Settled, Op
    <3>2. txn' = txn
      BY <1>9 DEF SendRequest, Stream, MarkChunk, SendChunk, PaceAcked, PaceDead,
         PaceExpires, Await, StopLooking, FindAnswer, FindNothing, GiveUpDead, NothingOwed,
         AckOwed, Wake, WaitExpires, Settled
    <3> QED
      BY <1>1, <3>1, <3>2
  <2> QED
    BY <2>1, <2>2
<1>10. CASE Device
  BY <1>1, <1>10 DEF Device, DevAcks, DevKeepsQuiet, DevTakes, DevFeeds, DevNotifies, DevRepeats
<1> QED
  BY <1>3, <1>5, <1>6, <1>7, <1>8, <1>9, <1>10 DEF Next, Operation

\* Nothing is said of a transaction the data channel has not handed out.
NewsFresh ==
  \A t \in Txns : t >= txn["data"] =>
    Silent(t) /\ \A i \in DataFramesOut : toDev[i].txn # t

\* Nothing the operation under way sent on the data channel is unanswered, or
\* there is none and the session goes on.
Resting ==
  \/ op.pc \in {"request", "mark", "chunk", "flash"}
  \/ op.kind = "none" /\ ~dead
  \/ op.kind = "call" /\ op.ch # "data"

\* What it does on the data channel: it has not sent the end of its message, or
\* it waits for the pedal.
Unsent == op.pc \in {"request", "mark", "chunk", "pace"} /\ op.ch = "data"
Awaiting == op.pc \in {"pace", "look", "unanswered", "wait"} /\ op.ch = "data"

\* So nothing is said of its transaction t, or what is said comes after the news
\* that its last frame was taken; a chunk's pace is over once they are read.
PacedFor(t) ==
  /\ Unsent => Silent(t)
  /\ Awaiting => \E k \in Nat :
       /\ Hears(t, k)
       /\ op.pc = "pace" /\ op.moved => k = 0 /\ DataFramesOut = {}

\* While no exchange was given up.
Paced ==
  /\ AtMostOne
  /\ Resting => Quiet
  /\ \A t \in Txns : op.txn = t => PacedFor(t)
  /\ op.pc = "pace" => Partial
  /\ op.pc = "chunk" => ~op.moved

\* Steps that leave the operation where the same is said of the data channel.
LEMMA UndisturbedPaced ==
  ASSUME Undisturbed, Paced, op'.txn = op.txn, Resting' => Resting, Unsent' => Unsent,
         Awaiting' => Awaiting,
         op'.pc = "pace" => op.pc = "pace" /\ (op'.moved => op.moved),
         op'.pc = "chunk" => op.pc = "chunk" /\ (op'.moved => op.moved)
  PROVE  Paced'
<1>1. ASSUME NEW t \in Txns, op'.txn = t PROVE PacedFor(t)'
  <2>1. PacedFor(t)
    BY <1>1 DEF Paced
  <2>2. Unsent' => Silent(t)'
    BY <2>1, UndisturbedKeeps DEF PacedFor
  <2>3. ASSUME Awaiting'
        PROVE  \E k \in Nat :
                 /\ Hears(t, k)'
                 /\ op'.pc = "pace" /\ op'.moved => k = 0 /\ DataFramesOut' = {}
    <3>1. PICK k \in Nat : /\ Hears(t, k)
                           /\ op.pc = "pace" /\ op.moved => k = 0 /\ DataFramesOut = {}
      BY <2>1, <2>3 DEF PacedFor
    <3>2. Hears(t, k)'
      BY <3>1, UndisturbedKeeps
    <3>3. op'.pc = "pace" /\ op'.moved => k = 0 /\ DataFramesOut' = {}
      BY <3>1 DEF Undisturbed
    <3> QED
      BY <3>2, <3>3
  <2> QED
    BY <2>2, <2>3 DEF PacedFor
<1> QED
  BY <1>1, UndisturbedKeeps DEF Paced

\* At rest the data channel is in use for whatever is silent.
LEMMA RestHears == ASSUME NEW t, Quiet, Silent(t) PROVE Hears(t, 0)
BY DEF Quiet, Silent, Hears

\* A request or chunk sent from rest is alone on its way, and nothing answers it.
LEMMA RestSends ==
  ASSUME SendOK, Quiet, NEW t, NEW last, Silent(t), Departs("data", "data", t, last),
         UNCHANGED <<toHost, pend, lastAck, devAck, buf>>
  PROVE  /\ AtMostOne' /\ Hears(t, 0)' /\ Silent(t)'
         /\ ~last => Partial'
         /\ \A i \in DataFramesOut' : toDev'[i].txn = t
<1>1. PICK n : n = Len(toDev) + 1
  OBVIOUS
<1>2. DataFramesOut' = {n} /\ toDev'[n].last = last /\ toDev'[n].txn = t
  BY <1>1, SendCounts DEF Quiet
<1>3. AtMostOne' /\ (~last => Partial') /\ \A i \in DataFramesOut' : toDev'[i].txn = t
  BY <1>2 DEF AtMostOne, Partial
<1>4. Silent(t)'
  BY DEF Silent, Said, Carries
<1>5. NewsAt(0)'
  BY DEF Quiet, NewsAt, Acks
<1>6. ~Says(buf'["data"], t)
  BY DEF Silent
<1>7. \A i \in 1 .. Len(toHost') : ~Said(i, t)'
  BY DEF Silent, Said, Carries
<1>8. Hears(t, 0)'
  BY <1>4, <1>5, <1>6, <1>7 DEF Hears
<1> QED
  BY <1>3, <1>4, <1>8

\* The answer to the operation under way is found once its last frame was taken
\* and the news of that were read.
LEMMA AnswerRests ==
  ASSUME NEW t, NEW k \in Nat, Hears(t, k), Says(buf["data"], t)
  PROVE  Quiet
BY DEF Hears, Silent, Quiet

\* While no exchange is given up, every step keeps the data channel paced, and says
\* nothing of a transaction it has not handed out.
LEMMA StepPaced ==
  ASSUME IInv, Carried, OpFresh, NewsFresh, Paced, [Next]_vars
  PROVE  abandoned' \/ (NewsFresh' /\ Paced')
<1>b. /\ SendOK /\ op \in Op /\ op.ch \in Channels /\ op.txn \in Txns /\ TypeOK /\ OpShape
      /\ buf \in [Channels -> Seq(Piece)] /\ "data" \in Channels
      /\ txn \in [Channels -> 1 .. MaxOps + 1]
      /\ op.moved \in BOOLEAN /\ MaxOps \in Nat
  BY SessionAssumption DEF IInv, TypeOK, Consistent, ReceiveOK, Op
<1>t. txn["data"] \in Nat /\ txn'["data"] \in Nat
  BY <1>b, StepInv DEF IInv, TypeOK
<1>k. /\ op.pc \in {"mark", "chunk", "pace", "flash"} => op.kind = "write" /\ op.ch = "data"
      /\ op.pc = "idle" <=> op.kind = "none"
      /\ op.pc \in {"request", "look", "unanswered", "wait"} => op.kind \in {"call", "write"}
      /\ op.kind = "write" => op.ch = "data" /\ op.pc # "request"
      /\ op.kind = "close" => op.pc \in Leaving
  BY <1>b, KindAt DEF OpShape, OpFresh, Calling, Writing
<1>i. Idle.pc = "idle" /\ Idle.kind = "none"
  BY DEF Idle
\* A step that leaves the data channel's frames and acknowledgements alone.
<1>u. ASSUME UNCHANGED <<toDev, toHost, pend, lastAck, devAck>>,
             \/ buf' = buf
             \/ \E d \in Channels : \E n \in 0 .. Len(buf[d]) :
                  buf' = [buf EXCEPT ![d] = SubSeq(@, n + 1, Len(@))]
      PROVE  Undisturbed
  <2>1. DataFramesOut' = DataFramesOut
    BY <1>u DEF DataFramesOut
  <2>2. ASSUME NEW t, Says(buf'["data"], t) PROVE Says(buf["data"], t)
    <3>1. CASE buf'["data"] = buf["data"]
      BY <2>2, <3>1 DEF Says
    <3>2. CASE \E n \in 0 .. Len(buf["data"]) :
                 buf'["data"] = SubSeq(buf["data"], n + 1, Len(buf["data"]))
      <4>1. PICK n \in 0 .. Len(buf["data"]) :
                 buf'["data"] = SubSeq(buf["data"], n + 1, Len(buf["data"]))
        BY <3>2
      <4>2. PICK b \in Seq(Piece) : b = buf["data"]
        BY <1>b
      <4>3. Says(SubSeq(b, n + 1, Len(b)), t)
        BY <2>2, <4>1, <4>2 DEF Says
      <4>4. Says(b, t)
        BY <4>1, <4>2, <4>3, CutSays
      <4> QED
        BY <4>2, <4>4 DEF Says
    <3> QED
      BY <1>b, <1>u, <3>1, <3>2
  <2> QED
    BY <1>u, <2>1, <2>2 DEF Undisturbed
\* Nor does a frame without data.
<1>s. ASSUME NEW d, NEW kind \in {"ack", "hello"}, NEW t, NEW last, Departs(d, kind, t, last),
             UNCHANGED <<toHost, pend, lastAck, devAck, buf>>
      PROVE  Undisturbed
  <2>1. DataFramesOut' = DataFramesOut /\ \A i \in DataFramesOut : toDev'[i] = toDev[i]
    BY <1>b, <1>s, SendCounts
  <2> QED
    BY <1>s, <2>1 DEF Undisturbed, Says
<1>n. ASSUME Undisturbed, txn' = txn \/ txn'["data"] >= txn["data"]
      PROVE  NewsFresh'
  <2> SUFFICES ASSUME NEW t \in Txns, t >= txn'["data"]
               PROVE  Silent(t)' /\ \A i \in DataFramesOut' : toDev'[i].txn # t
    BY DEF NewsFresh
  <2>1. t >= txn["data"]
    <3>1. CASE txn' = txn
      BY <3>1
    <3>2. CASE txn'["data"] >= txn["data"]
      <4>1. t \in Nat
        BY <1>b DEF Txns
      <4> QED
        BY <1>t, <3>2, <4>1
    <3> QED
      BY <1>n, <3>1, <3>2
  <2>2. Silent(t) /\ \A i \in DataFramesOut : toDev[i].txn # t
    BY <2>1 DEF NewsFresh
  <2> QED
    BY <1>n, <2>2, UndisturbedKeeps DEF Undisturbed
\* One that sends a frame with data sends it for its own transaction.
<1>m. ASSUME NEW u \in Txns, u < txn["data"], UNCHANGED <<toHost, pend, buf, txn>>,
             \A i \in DataFramesOut' : toDev'[i].txn = u
      PROVE  NewsFresh'
  <2>1. u \in Nat
    BY <1>b DEF Txns
  <2> SUFFICES ASSUME NEW t \in Txns, t >= txn["data"]
               PROVE  Silent(t)' /\ \A i \in DataFramesOut' : toDev'[i].txn # t
    BY <1>m DEF NewsFresh
  <2>2. Silent(t)'
    BY <1>m DEF NewsFresh, Silent, Said, Carries
  <2>3. t # u
    BY <1>m, <1>t, <2>1
  <2> QED
    BY <1>m, <2>2, <2>3
\* The operation stays where the same is said of the data channel.
<1>1. ASSUME Undisturbed, op' = op, dead => dead', txn' = txn
      PROVE  NewsFresh' /\ Paced'
  <2>1. (Resting' => Resting) /\ (Unsent' => Unsent) /\ (Awaiting' => Awaiting)
    BY <1>1 DEF Resting, Unsent, Awaiting
  <2> QED
    BY <1>1, <1>n, <2>1, UndisturbedPaced
\* It ends, or has had its answer, with the data channel at rest or the session dead.
<1>2. ASSUME Undisturbed, op'.pc \in {"idle", "flash"}, op'.pc = "idle" => op'.kind = "none",
             op'.pc = "flash" => op'.kind = "write", Quiet \/ (op'.pc = "idle" /\ dead'),
             txn' = txn
      PROVE  NewsFresh' /\ Paced'
  <2>1. ~Unsent' /\ ~Awaiting'
    BY <1>2 DEF Unsent, Awaiting
  <2>2. Resting' => Quiet'
    BY <1>2, UndisturbedKeeps DEF Resting
  <2>3. AtMostOne'
    BY <1>2, UndisturbedKeeps DEF Paced
  <2> QED
    BY <1>2, <1>n, <2>1, <2>2, <2>3 DEF Paced, PacedFor
\* It is Close.
<1>3. ASSUME Undisturbed, op'.kind = "close", op'.pc \in Leaving, txn' = txn
      PROVE  NewsFresh' /\ Paced'
  <2>1. ~Unsent' /\ ~Awaiting' /\ ~Resting' /\ op'.pc \notin {"pace", "chunk"}
    BY <1>3 DEF Unsent, Awaiting, Resting, Leaving
  <2>2. AtMostOne'
    BY <1>3, UndisturbedKeeps DEF Paced
  <2> QED
    BY <1>3, <1>n, <2>1, <2>2 DEF Paced, PacedFor
<1>4. CASE UNCHANGED vars
  BY <1>1, <1>4, <1>u DEF vars, pedal, receive, outgoing, flags
<1>5. CASE Cancel \/ ReadNothing \/ ReadFails \/ LoopStops \/ AckLeaves
  BY <1>1, <1>5, <1>u DEF Cancel, ReadNothing, ReadFails, LoopStops, AckLeaves, pedal, receive,
     outgoing, flags
<1>6. CASE ReadFrame
  <2>1. /\ op' = [op EXCEPT !.moved = @ \/ Paces(Head(toHost))]
        /\ UNCHANGED <<dead, txn, toDev, pend, devAck>>
    BY <1>6 DEF ReadFrame, pedal, outgoing, flags
  <2>2. /\ op'.pc = op.pc /\ op'.kind = op.kind /\ op'.ch = op.ch /\ op'.txn = op.txn
        /\ op'.moved => op.moved \/ (Moves(Head(toHost)) /\ Head(toHost).ch = "data")
    BY <1>b, <2>1 DEF Op, Paces
  <2>3. Resting' = Resting /\ Unsent' = Unsent /\ Awaiting' = Awaiting
    BY <2>1, <2>2 DEF Resting, Unsent, Awaiting
  <2>4. AtMostOne' /\ (Resting' => Quiet') /\ (op'.pc = "pace" => Partial')
    BY <1>6, <2>2, <2>3, ReadHears DEF Paced
  <2>5. op'.pc = "chunk" => ~op'.moved
    BY <1>6, <2>2, ReadHears DEF Paced, Resting
  <2>6. ASSUME NEW t \in Txns, op'.txn = t PROVE PacedFor(t)'
    <3>1. PacedFor(t)
      BY <2>2, <2>6 DEF Paced
    <3>2. Unsent' => Silent(t)'
      BY <1>6, <2>3, <3>1, ReadHears DEF PacedFor
    <3>3. ASSUME Awaiting'
          PROVE  \E k \in Nat :
                   /\ Hears(t, k)'
                   /\ op'.pc = "pace" /\ op'.moved => k = 0 /\ DataFramesOut' = {}
      <4>1. PICK k \in Nat : /\ Hears(t, k)
                             /\ op.pc = "pace" /\ op.moved => k = 0 /\ DataFramesOut = {}
        BY <2>3, <3>1, <3>3 DEF PacedFor
      <4>2. PICK m \in Nat : /\ Hears(t, m)'
                             /\ k = 0 => m = 0
                             /\ Moves(Head(toHost)) /\ Head(toHost).ch = "data"
                                => m = 0 /\ DataFramesOut' = {}
        BY <1>6, <4>1, ReadHears
      <4>3. DataFramesOut' = DataFramesOut
        BY <1>6, ReadHears
      <4> QED
        BY <2>2, <4>1, <4>2, <4>3
    <3> QED
      BY <3>2, <3>3 DEF PacedFor
  <2>7. NewsFresh'
    <3> SUFFICES ASSUME NEW t \in Txns, t >= txn["data"]
                 PROVE  Silent(t)' /\ \A i \in DataFramesOut' : toDev'[i].txn # t
      BY <2>1 DEF NewsFresh
    <3> QED
      BY <1>6, <2>1, ReadHears DEF NewsFresh
  <2> QED
    BY <2>4, <2>5, <2>6, <2>7 DEF Paced
<1>7. CASE BeginCall \/ BeginWrite
  <2>1. PICK kind \in {"call", "write"}, c \in Channels : Begin(kind, c)
                                                         /\ (kind = "write" => c = "data")
    BY <1>b, <1>7 DEF BeginCall, BeginWrite
  <2>2. /\ op.pc = "idle" /\ ~dead /\ op'.kind = kind /\ op'.ch = c /\ op'.txn = txn[c]
        /\ op'.pc = (IF kind = "write" THEN "mark" ELSE "request") /\ op'.moved = FALSE
        /\ txn' = [txn EXCEPT ![c] = @ + 1]
        /\ UNCHANGED <<toDev, toHost, pend, lastAck, devAck, buf>>
    BY <2>1 DEF Begin, Idle, pedal, receive, outgoing
  <2>3. Undisturbed /\ NewsFresh'
    <3>1. txn'["data"] >= txn["data"]
      BY <1>b, <1>t, <2>2
    <3> QED
      BY <1>n, <1>u, <2>2, <3>1
  <2>4. Quiet' /\ AtMostOne'
    BY <1>k, <2>2, <2>3, UndisturbedKeeps DEF Paced, Resting
  <2>5. ASSUME NEW t \in Txns, op'.txn = t PROVE PacedFor(t)'
    <3>1. ~Awaiting'
      BY <2>2 DEF Awaiting
    <3>2. ASSUME c = "data" PROVE Silent(t)'
      <4>1. t = txn["data"]
        BY <2>2, <2>5, <3>2
      <4>2. t >= txn["data"]
        BY <1>t, <4>1
      <4> QED
        BY <2>3, <4>2, UndisturbedKeeps DEF NewsFresh
    <3> QED
      BY <2>2, <3>1, <3>2 DEF PacedFor, Unsent
  <2> QED
    BY <2>2, <2>3, <2>4, <2>5 DEF Paced
<1>8. CASE BeginClose \/ Close
  <2>1. op'.kind = "close" /\ op'.pc \in Leaving /\ txn' = txn
    BY <1>8, <1>b, <1>k DEF BeginClose, Close, DrainFirst, FarewellAck, FarewellHello, Farewell,
       DrainAgain, DrainEnds, Release, Closing, At, Idle, Leaving, Op
  <2>2. CASE BeginClose \/ Release
    BY <1>3, <1>u, <2>1, <2>2 DEF BeginClose, Release, pedal, receive, outgoing
  <2>3. CASE FarewellAck \/ FarewellHello
    <3>1. UNCHANGED toDev \/ \E d : \E kind \in {"ack", "hello"} : Departs(d, kind, NoTxn, TRUE)
      BY <2>3, WriteDeparts DEF FarewellAck, FarewellHello, Farewell
    <3>2. UNCHANGED <<toHost, pend, lastAck, devAck, buf>>
      BY <2>3 DEF FarewellAck, FarewellHello, Farewell, pedal, receive
    <3> QED
      BY <1>3, <1>s, <1>u, <2>1, <3>1, <3>2
  <2>4. CASE DrainFirst \/ DrainAgain
    <3>1. UNCHANGED <<toDev, toHost, pend, lastAck, devAck>> /\ buf'["data"] = <<>>
      BY <1>b, <2>4 DEF DrainFirst, DrainAgain, DrainEnds, pedal, outgoing
    <3>2. Undisturbed
      BY <3>1 DEF Undisturbed, Says, DataFramesOut
    <3> QED
      BY <1>3, <2>1, <3>2
  <2> QED
    BY <1>8, <2>2, <2>3, <2>4 DEF Close
<1>9. CASE \E c \in Channels : AckDecides(c)
  <2>1. PICK c \in Channels : AckDecides(c)
    BY <1>9
  <2>2. PICK n \in 0 .. Len(buf[c]) : buf' = [buf EXCEPT ![c] = SubSeq(@, n + 1, Len(@))]
    <3>1. WholeEnd(buf[c]) \in 0 .. Len(buf[c])
      BY <1>b, DropKeepsType
    <3> QED
      BY <2>1, <3>1 DEF AckDecides, DropMessages
  <2>3. UNCHANGED <<toDev, toHost, pend, lastAck, devAck, op, dead, txn>>
    BY <2>1 DEF AckDecides, pedal, outgoing, flags
  <2> QED
    BY <1>1, <1>u, <2>2, <2>3
<1>10. CASE AckSends
  <2>1. UNCHANGED <<toHost, pend, lastAck, devAck, buf, op, dead, txn>>
    BY <1>10 DEF AckSends, pedal, receive, flags
  <2>2. UNCHANGED toDev \/ \E d : Departs(d, "ack", NoTxn, TRUE)
    BY <1>10, WriteDeparts DEF AckSends
  <2> QED
    BY <1>1, <1>s, <1>u, <2>1, <2>2
<1>11. ASSUME UNCHANGED <<toDev, toHost, pend, lastAck, devAck, buf, txn>>, Finish,
              Quiet \/ dead'
       PROVE  NewsFresh' /\ Paced'
  BY <1>2, <1>11, <1>i, <1>u DEF Finish
<1>12. CASE SendRequest
  <2>1. /\ op.pc = "request" /\ op.kind = "call" /\ Resting /\ Quiet
        /\ UNCHANGED <<toHost, pend, lastAck, devAck, buf, txn, dead>>
    BY <1>12, <1>k DEF SendRequest, Resting, Paced, pedal, receive, flags
  <2>2. CASE UNCHANGED toDev /\ Finish
    BY <1>11, <2>1, <2>2
  <2>3. CASE Departs(op.ch, "data", op.txn, TRUE) /\ op' = [op EXCEPT !.pc = "look"]
    <3>1. op'.pc = "look" /\ op'.kind = "call" /\ op'.ch = op.ch /\ op'.txn = op.txn
      BY <1>b, <2>1, <2>3 DEF Op
    <3>2. PICK d, u : d = op.ch /\ u = op.txn
      OBVIOUS
    <3>3. CASE op.ch # "data"
      <4>1. DataFramesOut' = DataFramesOut /\ \A i \in DataFramesOut : toDev'[i] = toDev[i]
        BY <1>b, <2>3, <3>2, <3>3, SendCounts
      <4>2. Undisturbed
        BY <2>1, <4>1 DEF Undisturbed, Says
      <4>3. Resting /\ ~Awaiting' /\ ~Unsent'
        BY <2>1, <3>1, <3>3 DEF Awaiting, Unsent
      <4> QED
        BY <1>n, <2>1, <3>1, <4>2, <4>3, UndisturbedPaced
    <3>4. CASE op.ch = "data"
      <4>1. u \in Txns /\ Silent(u) /\ u < txn["data"]
        BY <1>b, <2>1, <3>2, <3>4 DEF Paced, PacedFor, Unsent, OpFresh
      <4>2. /\ AtMostOne' /\ Hears(u, 0)'
            /\ \A i \in DataFramesOut' : toDev'[i].txn = u
        BY <1>b, <2>1, <2>3, <3>2, <3>4, <4>1, RestSends
      <4>3. ~Resting' /\ ~Unsent'
        BY <3>1, <3>4 DEF Resting, Unsent
      <4>4. Paced'
        BY <3>1, <3>2, <4>2, <4>3 DEF Paced, PacedFor
      <4> QED
        BY <1>m, <2>1, <4>1, <4>2, <4>4
    <3> QED
      BY <3>3, <3>4
  <2> QED
    BY <1>12, <2>2, <2>3, WriteDeparts DEF SendRequest, Landed
<1>13. CASE SendChunk
  <2>1. /\ op.pc = "chunk" /\ op.ch = "data" /\ op.kind = "write" /\ ~op.moved /\ Quiet
        /\ UNCHANGED <<toHost, pend, lastAck, devAck, buf, txn, dead>>
    BY <1>13, <1>k DEF SendChunk, Resting, Paced, pedal, receive, flags
  <2>2. CASE UNCHANGED toDev /\ Finish
    BY <1>11, <2>1, <2>2
  <2>3. CASE /\ Departs("data", "data", op.txn, op.left = 1)
             /\ op' = [op EXCEPT !.left = @ - 1, !.pc = IF op.left = 1 THEN "look" ELSE "pace"]
    <3>1. /\ op'.pc = (IF op.left = 1 THEN "look" ELSE "pace") /\ op'.kind = "write"
          /\ op'.ch = "data" /\ op'.txn = op.txn /\ ~op'.moved
      BY <1>b, <2>1, <2>3 DEF Op
    <3>2. PICK u, last : u = op.txn /\ last = (op.left = 1)
      OBVIOUS
    <3>3. u \in Txns /\ Silent(u) /\ u < txn["data"]
      BY <1>b, <2>1, <3>2 DEF Paced, PacedFor, Unsent, OpFresh
    <3>4. /\ AtMostOne' /\ Hears(u, 0)' /\ Silent(u)' /\ (~last => Partial')
          /\ \A i \in DataFramesOut' : toDev'[i].txn = u
      <4>1. Departs("data", "data", u, last)
        BY <2>3, <3>2
      <4> QED
        BY <1>b, <2>1, <3>3, <4>1, RestSends
    <3>5. ~Resting'
      BY <3>1 DEF Resting
    <3>6. Paced'
      BY <3>1, <3>2, <3>4, <3>5 DEF Paced, PacedFor
    <3> QED
      BY <1>m, <2>1, <3>3, <3>4, <3>6
  <2> QED
    BY <1>13, <2>2, <2>3, WriteDeparts DEF SendChunk, Landed
<1>14. CASE MarkChunk
  <2>1. /\ op.pc = "mark" /\ op.ch = "data"
        /\ UNCHANGED <<toDev, toHost, pend, lastAck, devAck, buf, txn>>
    BY <1>14, <1>k DEF MarkChunk, pedal, receive, outgoing
  <2>2. op'.pc = "chunk" /\ op'.ch = "data" /\ op'.txn = op.txn /\ ~op'.moved
    BY <1>14, <1>b, <2>1 DEF MarkChunk, Op
  <2>3. Undisturbed /\ NewsFresh'
    BY <1>n, <1>u, <2>1
  <2>4. Quiet' /\ AtMostOne'
    BY <2>1, <2>3, UndisturbedKeeps DEF Paced, Resting
  <2>5. ASSUME NEW t \in Txns, op'.txn = t PROVE PacedFor(t)'
    <3>1. Silent(t)
      BY <2>1, <2>2, <2>5 DEF Paced, PacedFor, Unsent
    <3> QED
      BY <2>2, <2>3, <3>1, UndisturbedKeeps DEF PacedFor, Awaiting
  <2> QED
    BY <2>2, <2>3, <2>4, <2>5 DEF Paced
<1>15. CASE PaceAcked
  <2>1. /\ op.pc = "pace" /\ op.ch = "data" /\ op.moved
        /\ UNCHANGED <<toDev, toHost, pend, lastAck, devAck, buf, txn>>
    BY <1>15, <1>k DEF PaceAcked, pedal, receive, outgoing
  <2>2. op'.pc = "mark" /\ op'.ch = "data" /\ op'.txn = op.txn
    BY <1>15, <1>b, <2>1 DEF PaceAcked, Op
  <2>3. Undisturbed /\ NewsFresh'
    BY <1>n, <1>u, <2>1
  <2>4. ASSUME NEW t \in Txns, op'.txn = t PROVE Quiet /\ PacedFor(t)'
    <3>1. PacedFor(t) /\ Awaiting /\ Unsent
      BY <2>1, <2>2, <2>4 DEF Paced, Awaiting, Unsent
    <3>2. Quiet /\ Silent(t)
      BY <2>1, <3>1 DEF PacedFor, Hears, Quiet
    <3> QED
      BY <2>2, <2>3, <3>2, UndisturbedKeeps DEF PacedFor, Awaiting
  <2>5. Quiet' /\ AtMostOne'
    BY <1>b, <2>2, <2>3, <2>4, UndisturbedKeeps DEF Paced
  <2> QED
    BY <2>2, <2>3, <2>4, <2>5 DEF Paced
<1>16. CASE PaceDead \/ PaceExpires
  BY <1>11, <1>16 DEF PaceDead, PaceExpires, pedal, receive, outgoing, flags
<1>17. CASE StopLooking \/ GiveUpDead \/ WaitExpires
  BY <1>17 DEF StopLooking, GiveUpDead, WaitExpires
<1>18. CASE Settled
  <2>1. Quiet
    BY <1>18 DEF Settled, Paced, Resting
  <2> QED
    BY <1>11, <1>18, <2>1 DEF Settled, pedal, receive, outgoing
<1>19. CASE NothingOwed \/ Wake \/ AckOwed \/ FindNothing
  <2>1. op.pc \in {"look", "unanswered", "wait"} /\ op.kind \in {"call", "write"}
        /\ UNCHANGED <<toHost, pend, lastAck, devAck, txn, dead>>
    BY <1>19, <1>k DEF NothingOwed, Wake, AckOwed, FindNothing, pedal, receive, flags
  <2>2. CASE abandoned'
    BY <2>2
  <2>3. CASE ~abandoned'
    <3>1. op'.pc \in {"look", "unanswered", "wait"} /\ op'.kind = op.kind /\ op'.ch = op.ch
          /\ op'.txn = op.txn
      BY <1>19, <1>b, <2>1, <2>3 DEF NothingOwed, Wake, AckOwed, FindNothing, Op
    <3>2. (Resting' => Resting) /\ ~Unsent' /\ (Awaiting' => Awaiting)
      BY <2>1, <3>1 DEF Resting, Unsent, Awaiting
    <3>3. Undisturbed
      <4>1. CASE NothingOwed \/ Wake
        BY <1>u, <4>1 DEF NothingOwed, Wake, pedal, receive, outgoing
      <4>2. CASE AckOwed
        <5>1. buf' = buf /\ (UNCHANGED toDev \/ \E d : Departs(d, "ack", NoTxn, TRUE))
          BY <4>2, WriteDeparts DEF AckOwed, receive
        <5> QED
          BY <1>s, <1>u, <2>1, <5>1
      <4>3. CASE FindNothing
        <5>1. WholeEnd(buf[op.ch]) \in 0 .. Len(buf[op.ch])
          BY <1>b, DropKeepsType
        <5>2. \E n \in 0 .. Len(buf[op.ch]) : buf' = [buf EXCEPT ![op.ch] = SubSeq(@, n + 1, Len(@))]
          BY <4>3, <5>1 DEF FindNothing, DropMessages
        <5> QED
          BY <1>b, <1>u, <2>1, <4>3, <5>2 DEF FindNothing, outgoing
      <4> QED
        BY <1>19, <4>1, <4>2, <4>3
    <3> QED
      BY <1>n, <2>1, <3>1, <3>2, <3>3, UndisturbedPaced
  <2> QED
    BY <2>2, <2>3
<1>20. CASE FindAnswer
  <2>1. PICK d \in Channels, t \in Txns : d = op.ch /\ t = op.txn
    BY <1>b
  <2>2. PICK b \in Seq(Piece) : b = buf[d]
    BY <1>b
  <2>3. PICK n : n = AnswerEnd(b, t)
    OBVIOUS
  <2>4. /\ op.pc = "look" /\ op.kind \in {"call", "write"}
        /\ UNCHANGED <<toDev, toHost, pend, lastAck, devAck, txn>>
        /\ n > 0 /\ buf' = [buf EXCEPT ![d] = SubSeq(@, n + 1, Len(@))]
        /\ (op.kind = "write" /\ op' = [op EXCEPT !.pc = "flash"]) \/ Finish
    BY <1>20, <1>k, <2>1, <2>2, <2>3 DEF FindAnswer, pedal, outgoing
  <2>5. n \in 0 .. Len(b) /\ n # 0
    BY <2>2, <2>3, <2>4, AnswerKeepsType
  <2>6. n \in 1 .. Len(b) /\ b[n].txn = t
    BY <2>3, <2>5, CutsEnd
  <2>7. Undisturbed
    BY <1>u, <2>2, <2>4, <2>5
  <2>8. Quiet
    <3>1. CASE d = "data"
      <4>1. Says(b, t)
        BY <2>6 DEF Says
      <4>2. Says(buf["data"], t)
        BY <2>2, <3>1, <4>1 DEF Says
      <4>3. PICK k \in Nat : Hears(t, k)
        BY <2>1, <2>4, <3>1 DEF Paced, PacedFor, Awaiting
      <4> QED
        BY <4>2, <4>3, AnswerRests
    <3>2. CASE d # "data"
      BY <1>k, <2>1, <2>4, <3>2 DEF Paced, Resting
    <3> QED
      BY <3>1, <3>2
  <2>9. op'.pc \in {"idle", "flash"} /\ (op'.pc = "idle" => op'.kind = "none")
        /\ (op'.pc = "flash" => op'.kind = "write")
    BY <1>b, <1>i, <2>4 DEF Finish, Op
  <2> QED
    BY <1>2, <2>4, <2>7, <2>8, <2>9
<1>21. CASE Device
  <2>1. UNCHANGED <<op, dead, txn>>
    BY <1>21 DEF Device, DevAcks, DevKeepsQuiet, DevTakes, DevFeeds, DevNotifies, DevRepeats, flags
  <2>2. Resting' = Resting /\ Unsent' = Unsent /\ Awaiting' = Awaiting
    BY <2>1 DEF Resting, Unsent, Awaiting
  <2>3. 1 \in Txns /\ Notice \notin 1 .. MaxOps + 1 /\ NoTxn = Notice
    BY <1>b DEF Txns, Notice, NoTxn
  <2>4. /\ AtMostOne' /\ (Quiet => Quiet')
        /\ \A i \in DataFramesOut' : \E j \in DataFramesOut : toDev'[i] = toDev[j]
    BY <1>21, <2>3, DeviceHears DEF Paced, Notice
  <2>5. (Resting' => Quiet') /\ (op'.pc = "pace" => Partial')
    BY <2>1, <2>2, <2>4 DEF Paced, Partial
  <2>6. op'.pc = "chunk" => ~op'.moved
    BY <2>1 DEF Paced
  <2>7. ASSUME NEW t \in Txns, op'.txn = t PROVE PacedFor(t)'
    <3>1. PacedFor(t)
      BY <2>1, <2>7 DEF Paced
    <3>2. Unsent \/ Awaiting => t # Notice
      BY <1>k, <2>1, <2>3, <2>7 DEF Unsent, Awaiting, OpFresh
    <3>3. ASSUME Unsent' PROVE Silent(t)'
      <4>1. Silent(t) /\ t # Notice
        BY <2>2, <3>1, <3>2, <3>3 DEF PacedFor
      <4>2. Partial
        BY <2>2, <3>3 DEF Paced, Unsent, Resting, Quiet, Partial
      <4> QED
        BY <1>21, <4>1, <4>2, DeviceHears DEF Paced, Partial
    <3>4. ASSUME Awaiting'
          PROVE  \E k \in Nat :
                   /\ Hears(t, k)'
                   /\ op'.pc = "pace" /\ op'.moved => k = 0 /\ DataFramesOut' = {}
      <4>1. PICK k \in Nat : /\ Hears(t, k)
                             /\ op.pc = "pace" /\ op.moved => k = 0 /\ DataFramesOut = {}
        BY <2>2, <3>1, <3>4 DEF PacedFor
      <4>2. PICK m \in Nat : /\ Hears(t, m)'
                             /\ k = 0 /\ DataFramesOut = {} => m = 0 /\ DataFramesOut' = {}
        BY <1>21, <2>2, <3>2, <3>4, <4>1, DeviceHears DEF Paced
      <4> QED
        BY <2>1, <4>1, <4>2
    <3> QED
      BY <3>3, <3>4 DEF PacedFor
  <2>8. NewsFresh'
    <3> SUFFICES ASSUME NEW t \in Txns, t >= txn["data"]
                 PROVE  Silent(t)' /\ \A i \in DataFramesOut' : toDev'[i].txn # t
      BY <2>1 DEF NewsFresh
    <3>1. Silent(t) /\ \A i \in DataFramesOut : toDev[i].txn # t
      BY DEF NewsFresh
    <3>2. t # Notice
      <4>1. txn["data"] >= 1
        BY <1>b
      <4> QED
        BY <1>t, <4>1 DEF Notice
    <3> QED
      BY <1>21, <2>4, <3>1, <3>2, DeviceHears DEF Paced
  <2> QED
    BY <2>4, <2>5, <2>6, <2>7, <2>8 DEF Paced
<1> QED
  BY <1>4, <1>5, <1>6, <1>7, <1>8, <1>9, <1>10, <1>12, <1>13, <1>14, <1>15, <1>16, <1>17,
     <1>18, <1>19, <1>20, <1>21
     DEF Next, Operation, Stream, Await, Loop, Acknowledger

\* An exchange given up stays given up.
LEMMA AbandonedStays == abandoned /\ [Next]_vars => abandoned'
<1>1. abandoned /\ (UNCHANGED vars \/ Loop \/ Acknowledger \/ Device) => abandoned'
  BY DEF vars, Loop, ReadFrame, ReadNothing, ReadFails, LoopStops, Acknowledger, AckLeaves,
     AckSends, AckDecides, Device, DevAcks, DevKeepsQuiet, DevTakes, DevFeeds, DevNotifies,
     DevRepeats
<1>2. abandoned /\ (BeginCall \/ BeginWrite \/ BeginClose \/ Cancel) => abandoned'
  BY DEF BeginCall, BeginWrite, BeginClose, Cancel, Begin
<1>3. abandoned /\ (Stream \/ Await \/ Settled) => abandoned'
  BY DEF Stream, MarkChunk, SendChunk, PaceAcked, PaceDead, PaceExpires, Await, StopLooking,
     FindAnswer, FindNothing, GiveUpDead, NothingOwed, AckOwed, Wake, WaitExpires, Settled
<1>4. abandoned /\ (SendRequest \/ Close) => abandoned'
  BY DEF SendRequest, Close, DrainFirst, FarewellAck, FarewellHello, Farewell, DrainAgain,
     DrainEnds, Release
<1> QED
  BY <1>1, <1>2, <1>3, <1>4 DEF Next, Operation

\* The data channel is paced until an exchange is given up.
PacedUntil == OpFresh /\ (abandoned \/ (NewsFresh /\ Paced))

LEMMA AlwaysPaced == Spec => []PacedUntil
<1>1. Init => PacedUntil
  <2> SUFFICES ASSUME Init PROVE OpFresh /\ NewsFresh /\ Paced
    BY DEF PacedUntil
  <2>1. op.kind = "none" /\ op.pc = "idle"
    BY DEF Init, Idle
  <2>2. DataFramesOut = {} /\ "data" \in Channels
    <3>1. DOMAIN toDev = {}
      BY DEF Init
    <3> QED
      BY <3>1, SessionAssumption DEF DataFramesOut
  <2>3. Len(toHost) = 0 /\ Len(buf["data"]) = 0 /\ Len(pend["data"]) = 0
        /\ lastAck["data"] = devAck["data"]
    BY <2>2 DEF Init
  <2>4. Acks = {} /\ \A t : Silent(t)
    BY <2>3 DEF Acks, Silent, Says
  <2>5. Quiet
    BY <2>2, <2>3, <2>4 DEF Quiet, NewsAt
  <2>6. NewsFresh /\ OpFresh
    BY <2>1, <2>2, <2>4 DEF NewsFresh, OpFresh
  <2> QED
    BY <2>1, <2>2, <2>5, <2>6 DEF Paced, PacedFor, AtMostOne, Unsent, Awaiting
<1>2. IInv /\ Envelopes /\ PacedUntil /\ [Next]_vars => PacedUntil'
  <2> SUFFICES ASSUME IInv, Envelopes, PacedUntil, [Next]_vars PROVE PacedUntil'
    OBVIOUS
  <2>1. OpFresh /\ OpFresh' /\ Carried
    BY StepOpFresh DEF PacedUntil, Envelopes
  <2>2. CASE abandoned
    BY <2>1, <2>2, AbandonedStays DEF PacedUntil
  <2>3. CASE NewsFresh /\ Paced
    BY <2>1, <2>3, StepPaced DEF PacedUntil
  <2> QED
    BY <2>2, <2>3 DEF PacedUntil
<1> QED
  BY <1>1, <1>2, AlwaysFramed, Invariance, PTL DEF Spec

\* While no exchange was given up, no request or chunk goes out before the pedal
\* took the one before it, whatever it repeats or says unasked and whatever fails
\* (stream, write.go; pace, loop.go; acked, conversation.go).
THEOREM OneChunkOutHolds == Spec => []OneChunkOut
<1>1. PacedUntil => OneChunkOut
  <2> SUFFICES ASSUME AtMostOne PROVE Cardinality(DataFramesOut) <= 1
    BY DEF PacedUntil, Paced, OneChunkOut
  <2>1. CASE DataFramesOut = {}
    BY <2>1, FS_EmptySet
  <2>2. CASE DataFramesOut # {}
    <3>1. PICK i : DataFramesOut = {i}
      BY <2>2 DEF AtMostOne
    <3> QED
      BY <3>1, FS_Singleton
  <2> QED
    BY <2>1, <2>2
<1> QED
  BY <1>1, AlwaysPaced, PTL

\* Unless a chunk fails with part of its message sent, none is broken into.
LEMMA AlwaysUnbroken ==
  ("midfail" \notin Faults /\ "startfail" \notin Faults) => (Spec => []Unbroken)
<1> SUFFICES ASSUME "midfail" \notin Faults, "startfail" \notin Faults
             PROVE  Spec => []Unbroken
  OBVIOUS
<1>1. Init => Unbroken
  <2> SUFFICES ASSUME Init PROVE Unbroken
    OBVIOUS
  <2>1. Len(toDev) = 0 /\ ~garbled /\ half = [c \in Channels |-> NoTxn]
    BY DEF Init
  <2>2. ASSUME NEW c \in Channels PROVE Flowing(c, NoTxn) /\ Owned(c, NoTxn)
    <3> DEFINE v == [i \in {1} |-> NoTxn]
    <3>1. v \in [1 .. 1 -> Txns] /\ v[1] = NoTxn
      BY SmallValues
    <3> HIDE DEF v
    <3> QED
      BY <2>1, <3>1 DEF Flowing, Owned
  <2> QED
    BY <2>1, <2>2, SmallValues DEF Unbroken
<1>2. IInv /\ Unbroken /\ [Next]_vars => Unbroken'
  BY StepUnbroken
<1> QED
  BY <1>1, <1>2, Invariance, PTL DEF Spec

\* Unless the bus reports a chunk as failed with part of the message sent, that
\* chunk's own landing counted, a message goes out on the data channel a frame at
\* a time and to its end, or the session is over (stream, write.go; pace,
\* loop.go).
THEOREM WritesStayWholeHolds ==
  ("midfail" \notin Faults /\ "startfail" \notin Faults) => (Spec => []WritesStayWhole)
<1> SUFFICES ASSUME "midfail" \notin Faults, "startfail" \notin Faults
             PROVE  Spec => []WritesStayWhole
  OBVIOUS
<1>1. Spec => []Unbroken
  BY AlwaysUnbroken
<1>2. Unbroken /\ OneChunkOut => WritesStayWhole
  BY DEF Unbroken, WritesStayWhole, NoRequestIntoHalfMessage
<1> QED
  BY <1>1, <1>2, OneChunkOutHolds, PTL

=============================================================================
