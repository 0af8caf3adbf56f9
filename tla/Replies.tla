------------------------------ MODULE Replies ------------------------------
(***************************************************************************)
(* From what the bus hands over to what a call is told.  The pedal's side  *)
(* of a channel is one stream of envelopes, cut into frames wherever it    *)
(* suits the pedal, several frames to a transfer, each padded; an envelope *)
(* holds a reply, whose first value says which call it answers and how     *)
(* that went.  The stream is counted in cells: a header of a value, or one *)
(* half of the header of a frame or an envelope.                           *)
(***************************************************************************)
EXTENDS Splices

CONSTANTS
  Exchanges, \* calls, what the pedal sends back, and what it means by it
  Between,   \* frames the pedal puts between two of a stream
  FrameRoom,      \* how much a frame carries at most
  MaxBody    \* the longest envelope that is believed

VARIABLES
  call,   \* the call waiting for its answer
  coming, \* what the pedal has still to send on its channel
  buffer  \* what arrived there and was not read

replies == <<splices, call, coming, buffer>>
stream == <<call, coming, buffer>>

-----------------------------------------------------------------------------
(* Frames *)

HeaderSize == 2 \* of a frame and of an envelope alike
Pad(n) == n + (n % 2)

Frame(chan, type, payload) ==
  LET junk == [code |-> "junk", n |-> 0]
      head == <<[code |-> "frame", n |-> 1 + Len(payload), chan |-> chan, type |-> type],
                [code |-> "rest", n |-> 0]>>
      whole == head \o payload
  IN whole \o [i \in 1 .. Pad(Len(whole)) - Len(whole) |-> junk]

NoFrame == [code |-> "none"]

\* One frame, and what follows its padding; less than a frame is none.
DecodeFrame(raw) ==
  IF Len(raw) < HeaderSize \/ raw[1].code # "frame" \/ Len(raw) < 1 + raw[1].n
  THEN NoFrame
  ELSE [code |-> "frame", chan |-> raw[1].chan, type |-> raw[1].type,
        payload |-> SubSeq(raw, HeaderSize + 1, 1 + raw[1].n),
        rest |-> SubSeq(raw, Pad(1 + raw[1].n) + 1, Len(raw))]

\* Mutant: the type is compared with data alone.
CarriesOnlyData(frame) == frame.type = {"data"}

\* A frame may acknowledge as well.
CarriesData(frame) == "data" \in frame.type

RECURSIVE Deliver(_)

\* What a transfer adds to the channel a call waits on.
Deliver(raw) ==
  LET frame == DecodeFrame(raw)
  IN IF frame = NoFrame THEN <<>>
     ELSE (IF CarriesData(frame) /\ frame.chan = "cli" THEN frame.payload ELSE <<>>)
            \o Deliver(frame.rest)

-----------------------------------------------------------------------------
(* Envelopes *)

Envelope(inside) ==
  <<[code |-> "envelope", n |-> Len(inside)], [code |-> "rest", n |-> 0]>> \o inside

\* The first envelope of a buffer once all of it is there.  A length nothing
\* has empties the buffer, which no further byte would bring back into step.
Message(b) ==
  CASE b = <<>> \/ Len(b) < HeaderSize -> [whole |-> FALSE, rest |-> b]
    [] Len(b) >= HeaderSize /\ b[1].n > MaxBody -> [whole |-> FALSE, rest |-> <<>>]
    [] Len(b) >= HeaderSize /\ b[1].n <= MaxBody ->
         IF Len(b) < HeaderSize + b[1].n THEN [whole |-> FALSE, rest |-> b]
         ELSE [whole |-> TRUE, inside |-> SubSeq(b, HeaderSize + 1, HeaderSize + b[1].n),
               rest |-> SubSeq(b, HeaderSize + b[1].n + 1, Len(b))]

-----------------------------------------------------------------------------
(* Responses *)

TxnKey == 102
StatusKey == 103
ResultKey == 104
NameKey == 109
ErrorKey == 111
Missing == [head |-> [code |-> "nil", n |-> 0], kids |-> <<>>]

IsNumber(header) == \E k \in DOMAIN Numbers : Numbers[k].code = header.code
NumberOf(tree) == IF IsNumber(tree.head) THEN tree.head.n ELSE 0

\* Mutant: a key is looked for in the width it fits.
FieldNarrow(tree, key) ==
  LET n == SelectInSeq([k \in 1 .. Len(tree.kids) \div 2 |-> tree.kids[2 * k - 1].head],
                       LAMBDA h : h.code = EncodeInt(key, "nil") /\ h.n = key)
  IN IF tree.head.code # "map" \/ n = 0 THEN Missing ELSE tree.kids[2 * n]

\* The value under a number, however wide the number is written.
Field(tree, key) ==
  LET n == SelectInSeq([k \in 1 .. Len(tree.kids) \div 2 |-> tree.kids[2 * k - 1].head],
                       LAMBDA h : IsNumber(h) /\ h.n = key)
  IN IF tree.head.code # "map" \/ n = 0 THEN Missing ELSE tree.kids[2 * n]

\* Only the first value of a body is the reply; what follows it means nothing.
Decodes(inside) == Skip(inside, 1) # Past /\ inside[1].code = "map"
DecodeResponse(inside) ==
  LET whole == Reading(inside, 1)
  IN [txn |-> NumberOf(Field(whole, TxnKey)),
      status |-> NumberOf(Field(whole, StatusKey)) % 256,
      result |-> Field(whole, ResultKey)]

\* The name one entry of a listing holds; the key it is under says nothing.
PresetName(row) ==
  IF row.head.code # "map" \/ row.kids = <<>> THEN Missing
  ELSE Field(row.kids[2], NameKey)
IsText(tree) == \E k \in DOMAIN Strings : Strings[k].code = tree.head.code

\* A listing is read by position, and only where every entry has a name.
Listed(result) ==
  IF result.head.code # "array" \/ \E i \in DOMAIN result.kids : ~IsText(PresetName(result.kids[i]))
  THEN [did |-> "unreadable"]
  ELSE [did |-> "listed", names |-> [i \in DOMAIN result.kids |-> PresetName(result.kids[i]).head.n]]

\* Mutant: whatever is not a refusal is a success.
OutcomeUnlessRefused(response) ==
  IF response.status = 255
  THEN [did |-> "refused", number |-> NumberOf(Field(response.result, ErrorKey))]
  ELSE Listed(response.result)

\* Done and accepted are the only successes.
Outcome(response) ==
  CASE response.status \in {0, 1} -> Listed(response.result)
    [] response.status = 255 ->
         [did |-> "refused", number |-> NumberOf(Field(response.result, ErrorKey))]
    [] OTHER -> [did |-> "unexpected", number |-> response.status]

RECURSIVE Reply(_, _)

\* Envelopes are taken off the buffer until one answers the call.
Reply(b, txn) ==
  LET next == Message(b)
  IN IF ~next.whole THEN [found |-> FALSE, rest |-> next.rest]
     ELSE IF Decodes(next.inside) /\ DecodeResponse(next.inside).txn = txn
          THEN [found |-> TRUE, rest |-> next.rest,
                says |-> Outcome(DecodeResponse(next.inside))]
          ELSE Reply(next.rest, txn)

-----------------------------------------------------------------------------
(* A call waiting *)

NoCall == [txn |-> 0]
Waiting == pc = "reply" /\ answer = NoAnswer

RepliesInit ==
  \/ SplicesInit /\ call = NoCall /\ coming = <<>> /\ buffer = <<>>
  \/ /\ task = [Spliced EXCEPT !.kind = "reply"] /\ pc = "reply"
     /\ call \in Exchanges /\ buffer = <<>>
     /\ coming = FlattenSeq([i \in DOMAIN call.sent |->
                               IF call.sent[i] = <<>> THEN <<[code |-> "envelope", n |-> MaxBody + 1],
                                                             [code |-> "rest", n |-> 0]>>
                               ELSE Envelope(call.sent[i])])
     /\ body = <<>> /\ tail = <<>>
     /\ under = {} /\ user = {} /\ home = FALSE
     /\ bundle = NoBundle /\ answer = NoAnswer
     /\ rig = Empty /\ doc = Blank /\ slot = NoSlot
     /\ at = 1 /\ blocks = Empty /\ said = Empty /\ missed = FALSE
     /\ chain = Empty /\ before = Empty /\ file = NoFile

Cut(n) == SubSeq(coming, 1, n)
Types == {{"data"}, {"data", "ack"}, {"data", "alive"}}

\* A transfer: a frame of the stream, something else, and a frame more.
Transfer(first, type, between, second) ==
  Frame("cli", type, Cut(first)) \o between
    \o (IF second = 0 THEN <<>>
        ELSE Frame("cli", {"data"}, SubSeq(coming, first + 1, first + second)))

Arrive ==
  /\ Waiting
  /\ \E first \in 1 .. FrameRoom, second \in 0 .. FrameRoom, type \in Types, between \in Between :
       /\ first + second <= Len(coming)
       /\ buffer' = buffer \o Deliver(Transfer(first, type, between, second))
       /\ coming' = SubSeq(coming, first + second + 1, Len(coming))
  /\ Idle /\ UNCHANGED <<answer, shelves, body, tail, call>>

Look ==
  /\ Waiting
  /\ LET reply == Reply(buffer, call.txn)
     IN /\ buffer' = reply.rest
        /\ answer' = IF reply.found THEN [did |-> "answered", says |-> reply.says] ELSE NoAnswer
  /\ Idle /\ UNCHANGED <<shelves, body, tail, call, coming>>

RepliesNext ==
  \/ SplicesNext /\ UNCHANGED stream
  \/ Arrive \/ Look

RepliesSpec == RepliesInit /\ [][RepliesNext]_replies
-----------------------------------------------------------------------------
(* Properties *)

\* A call is told what the pedal meant, and only that: however its answer was
\* cut and padded, whatever arrived with it and before it, however wide its
\* numbers, and with what follows it in its envelope; and once all of it has
\* arrived a look finds it.  Unless a length was corrupt (session.deliver,
\* message, reply, wire.DecodeFrame, DecodeResponse, DecodePresetList).
AnswerIsThePedals ==
  pc = "reply" /\ call.sound =>
    /\ answer # NoAnswer => answer.says = call.meant
    /\ coming = <<>> /\ answer = NoAnswer => Reply(buffer, call.txn).found
=============================================================================
