--------------------------- MODULE Command_proofs ---------------------------
(***************************************************************************)
(* Proofs about Command, for any channels and services, any number of      *)
(* tries, questions, interrupts and faults, and any pedal that behaves as  *)
(* Command says one does.                                                  *)
(*                                                                         *)
(* None of its properties is inductive.  Each gets the part of IInv it     *)
(* needs, and each part a lemma that one step keeps it:                    *)
(*   AllAnswered        Watched: signals counted, waiting and pressed      *)
(*   LetGo              Taken: what is held at each place; Parted: a       *)
(*                      goodbye is on the wire behind every opening        *)
(*   SelectedIsPlaying  Landing: one select, and nothing before it         *)
(*   SpeaksAsEditor     Numbered: each frame's number follows from the     *)
(*                      one before it on its channel, wherever it is on    *)
(*                      the wire; Clean: what may be on the wire, and how  *)
(*                      the channels may stand, at each place              *)
(* Course, Wire, Flags and Ranges are the types, and what the other parts  *)
(* need to know of where main is.                                          *)
(***************************************************************************)
EXTENDS Command, SequenceTheorems, TLAPS

\* The places before the pedal is first listened to.
Starting == {"begin", "find", "spares", "giveBack", "claim", "unclaim",
             "reclaim", "ends"}
\* The places of the opening handshake.
Greeting == {"drain", "hello", "greeted", "service", "accepted", "ack",
             "leave", "left"}
\* The places before the select is written.
Unselected == Starting \cup Greeting \cup {"list", "listed", "select"}
\* The places where the interface is not the command's.
Unclaimed == {"begin", "find", "giveBack", "spares", "claim", "reclaim",
              "closeDevice", "closeBus", "return", "answered"}

\* What is taken at each place, on the way in and on the way out.
Taken ==
  /\ pc \in Unclaimed => ~interface
  /\ pc \in {"begin", "find", "closeBus", "return", "answered"} => devices = 0
  /\ pc \in {"begin", "find", "return", "answered"} => ~bus

\* No interrupt is lost while main watches for them: those counted and those
\* waiting are those pressed, until there are too many to matter.
Watched ==
  /\ ended \in {"returned", "killed"} => pc = "answered"
  /\ ~watching => pc = "answered"
  /\ ended = "no" => handled <= 2
  /\ ended = "returned" => queued = 0 /\ handled <= 2
  /\ handled + queued <= pressed
  /\ handled + queued <= 2 => pressed = handled + queued

\* Tries and questions stay within their bounds.
Counted ==
  /\ pc \in Starting => IF pc \in {"claim", "reclaim"} THEN tries < ClaimAttempts
                                                       ELSE tries = 0
  /\ pc \in Unselected \cup {"selected"} => rounds = 0
  /\ pc = "ask" => rounds < MaxRounds

\* The types of main's own variables and of the signals.
MainTypes ==
  /\ pc \in Places /\ at \in 1 .. Len(Channels) /\ served \in Nat
  /\ tries \in 0 .. ClaimAttempts /\ txn \in Nat /\ rounds \in 0 .. MaxRounds
  /\ result \in {"none", "ok", "failed"}
  /\ queued \in Nat /\ pressed \in Nat /\ handled \in Nat
  /\ ended \in {"no", "returned", "killed", "exited"}

\* Where main is, and what that says of what it holds and has counted.
Course == MainTypes /\ Taken /\ Watched /\ Counted

\* One step keeps main's course.
LEMMA StepCourse == Course /\ [Next]_vars => Course'
<1> SUFFICES ASSUME Course, [Next]_vars PROVE Course'
  OBVIOUS
<1> USE BoundsAssumption
    DEF Course, MainTypes, Taken, Watched, Counted, Unselected, Starting, Greeting,
        Unclaimed, Places, At, Goto, Fault, FailTo, NoFault, Else, Said, NoAnswer,
        main, session, usb, pedal, signals, history
<1>1. CASE UNCHANGED vars
  BY <1>1 DEF vars
<1>2. CASE Begin
  BY <1>2 DEF Begin
<1>3. CASE Find
  BY <1>3 DEF Find
<1>4. CASE Spares
  BY <1>4 DEF Spares
<1>5. CASE GiveBack
  BY <1>5 DEF GiveBack
<1>6. CASE ClaimOnce("claim", "unclaim")
  BY <1>6 DEF ClaimOnce
<1>7. CASE Unclaim
  BY <1>7 DEF Unclaim, Forget
<1>8. CASE ClaimOnce("reclaim", "ends")
  BY <1>8 DEF ClaimOnce
<1>9. CASE Ends
  BY <1>9 DEF Ends
<1>10. CASE Drain("drain", "hello") /\ UNCHANGED at
  BY <1>10 DEF Drain
<1>11. CASE Hello
  BY <1>11 DEF Hello, Send
<1>12. CASE Greeted
  BY <1>12 DEF Greeted, Pause
<1>13. CASE Service
  BY <1>13 DEF Service, Send
<1>14. CASE Accepted
  BY <1>14 DEF Accepted, Pause
<1>15. CASE Ack
  BY <1>15 DEF Ack, Send, AfterService
<1>16. CASE Leave
  BY <1>16 DEF Leave, Send
<1>17. CASE Left
  BY <1>17 DEF Left, Pause
<1>18. CASE List
  BY <1>18 DEF List, Request, Send
<1>19. CASE Listed
  BY <1>19 DEF Listed, Await
<1>20. CASE Select
  BY <1>20 DEF Select, Request, Send
<1>21. CASE Selected
  BY <1>21 DEF Selected, Await
<1>22. CASE AskLoaded
  BY <1>22 DEF AskLoaded, Request, Send
<1>23. CASE Loaded
  BY <1>23 DEF Loaded, Await
<1>24. CASE Deadline
  BY <1>24 DEF Deadline, Await
<1>25. CASE Drain("bye", "byeAck") /\ at' = 1
  BY <1>25 DEF Drain
<1>26. CASE FarewellFrame("byeAck", "ack", "byeHello")
  BY <1>26 DEF FarewellFrame, Send
<1>27. CASE FarewellFrame("byeHello", "close", "byeQuiet")
  BY <1>27 DEF FarewellFrame, Send
<1>28. CASE Drain("byeQuiet", "release") /\ UNCHANGED at
  BY <1>28 DEF Drain
<1>29. CASE Release
  BY <1>29 DEF Release, Forget
<1>30. CASE CloseDevice
  BY <1>30 DEF CloseDevice
<1>31. CASE CloseBus
  BY <1>31 DEF CloseBus
<1>32. CASE StopWatching
  BY <1>32 DEF StopWatching
<1>33. CASE End
  BY <1>33 DEF End
<1>34. CASE Interrupt
  BY <1>34 DEF Interrupt, SignalRoom
<1>35. CASE Press
  BY <1>35 DEF Press, SignalRoom
<1>36. CASE BusFails
  BY <1>36 DEF BusFails
<1>37. CASE Take
  BY <1>37 DEF Take
<1>38. CASE FinishLast
  BY <1>38 DEF FinishLast
<1>39. CASE FinishSwitch
  BY <1>39 DEF FinishSwitch
<1>40. ASSUME NEW c \in Names, FinishClose(c) PROVE Course'
  BY <1>40 DEF FinishClose
<1> QED
  BY <1>1, <1>2, <1>3, <1>4, <1>5, <1>6, <1>7, <1>8, <1>9, <1>10, <1>11,
     <1>12, <1>13, <1>14, <1>15, <1>16, <1>17, <1>18, <1>19, <1>20, <1>21,
     <1>22, <1>23, <1>24, <1>25, <1>26, <1>27, <1>28, <1>29, <1>30, <1>31,
     <1>32, <1>33, <1>34, <1>35, <1>36, <1>37, <1>38, <1>39, <1>40
     DEF Next, Main, Opening, Claim, Handshake, Selecting, Close, Pedal

-----------------------------------------------------------------------------
\* The types of what is on the wire, and of both ends' view of the channels.
Wire ==
  /\ opened \subseteq Names /\ seq \in [Names -> Nat]
  /\ heard \in [Names -> Nat] /\ inbox \in Seq(Frame)
  /\ link \in [Names -> {"closed", "open", "closing"}] /\ attached \subseteq Names

\* The variables that are yes or no.
Flags ==
  /\ came \in BOOLEAN /\ bus \in BOOLEAN /\ interface \in BOOLEAN /\ dead \in BOOLEAN
  /\ leftover \in BOOLEAN /\ switching \in BOOLEAN /\ wiped \in BOOLEAN
  /\ watching \in BOOLEAN /\ cancelled \in BOOLEAN
  /\ unsent \in BOOLEAN /\ cutShort \in BOOLEAN

\* The variables with a range, and the answer in the buffer.
Ranges ==
  /\ answer \in [txn : Nat, says : {"nothing", "list", "taken", "refused",
                                   "notAPreset", Target, Other}]
  /\ devices \in 0 .. 2 /\ playing \in {Target, Other}
  /\ queued \in 0 .. SignalRoom /\ pressed \in 0 .. MaxPresses
  /\ handled \in 0 .. 3 /\ faults \in 0 .. MaxFaults

\* Every place in Channels has a name, the one main is at included.
LEMMA ChannelsNamed ==
  /\ \A i \in 1 .. Len(Channels) : Channels[i] \in Names
  /\ Control \in Names /\ Data \in Names
  /\ MainTypes => Here \in Names
BY BoundsAssumption DEF Names, Control, Data, Here, MainTypes

\* A frame written at the end of the wire, or one that could not be.
\* A frame written at the end of the wire, or one that could not be.
Wrote(c, kind, number) ==
  \/ /\ inbox' = Append(inbox, [chan |-> c, kind |-> kind, seq |-> seq[c],
                                txn |-> number])
     /\ seq' = [seq EXCEPT ![c] = NextSeq(c, kind)]
     /\ UNCHANGED unsent
  \/ unsent' = TRUE /\ UNCHANGED <<inbox, seq>>

\* A frame written leaves a wire of frames and counters that are numbers.
LEMMA WroteTypes ==
  ASSUME Wire, NEW c \in Names, NEW kind \in Kinds, NEW number \in Nat,
         Wrote(c, kind, number)
  PROVE  inbox' \in Seq(Frame) /\ seq' \in [Names -> Nat]
<1> DEFINE f == [chan |-> c, kind |-> kind, seq |-> seq[c], txn |-> number]
<1>1. f \in Frame
  BY DEF Wire, Frame
<1>2. NextSeq(c, kind) \in Nat
  <2>1. seq[c] \in Nat
    BY DEF Wire
  <2> QED
    BY <2>1 DEF NextSeq, FirstSeq
<1>3. inbox' = Append(inbox, f) \/ inbox' = inbox
  BY DEF Wrote
<1>4. seq' \in [Names -> Nat]
  BY <1>2 DEF Wire, Wrote
<1> HIDE DEF f
<1>5. inbox \in Seq(Frame)
  BY DEF Wire
<1>6. inbox' \in Seq(Frame)
  BY <1>1, <1>3, <1>5, AppendProperties
<1> QED
  BY <1>4, <1>6

\* The frame the pedal takes is a frame, and what is left are frames.
LEMMA HeadOff ==
  ASSUME Wire, inbox # <<>>
  PROVE  /\ Head(inbox) \in Frame /\ Tail(inbox) \in Seq(Frame)
         /\ Head(inbox).chan \in Names /\ Head(inbox).kind \in Kinds
         /\ Head(inbox).seq \in Nat /\ Head(inbox).txn \in Nat
<1>1. Head(inbox) \in Frame /\ Tail(inbox) \in Seq(Frame)
  BY DEF Wire
<1> QED
  BY <1>1 DEF Frame

\* One step keeps the types of the wire.
LEMMA StepWire == Course /\ Wire /\ [Next]_vars => Wire'
<1> SUFFICES ASSUME Course, Wire, [Next]_vars PROVE Wire'
  OBVIOUS
<1>0. MainTypes
  BY DEF Course
<1>a. txn + 1 \in Nat
  BY <1>0 DEF MainTypes
<1>b. Kinds = {"open", "service", "ack", "close", "list", "select", "loaded"}
  BY DEF Kinds
<1> USE BoundsAssumption
    DEF Wire, NoFault, Else, Said,
        main, session, usb, pedal, signals, history
<1>1. CASE UNCHANGED vars
  BY <1>1 DEF vars
<1>2. CASE Begin
  BY <1>2 DEF Begin
<1>3. CASE Find
  BY <1>3 DEF Find
<1>4. CASE Spares
  BY <1>4 DEF Spares
<1>5. CASE GiveBack
  BY <1>5 DEF GiveBack
<1>6. CASE ClaimOnce("claim", "unclaim")
  BY <1>6 DEF ClaimOnce
<1>7. CASE Unclaim
  BY <1>7 DEF Unclaim, Forget
<1>8. CASE ClaimOnce("reclaim", "ends")
  BY <1>8 DEF ClaimOnce
<1>9. CASE Ends
  BY <1>9 DEF Ends
<1>10. CASE Drain("drain", "hello") /\ UNCHANGED at
  BY <1>10 DEF Drain
<1>11. CASE Hello
  <2>1. Wrote(Here, "open", 0)
    BY <1>11 DEF Hello, Send, Wrote
  <2>2. inbox' \in Seq(Frame) /\ seq' \in [Names -> Nat]
    BY <1>0, <2>1, WroteTypes, ChannelsNamed DEF MainTypes, Kinds
  <2>3. opened' = opened \cup {Here} /\ UNCHANGED <<link, attached, heard>>
    BY <1>11 DEF Hello
  <2> QED
    BY <1>0, <2>2, <2>3, ChannelsNamed
<1>12. CASE Greeted
  BY <1>12 DEF Greeted, Pause
<1>13. CASE Service
  <2>1. Wrote(Here, "service", 0)
    BY <1>13 DEF Service, Send, Wrote
  <2>2. inbox' \in Seq(Frame) /\ seq' \in [Names -> Nat]
    BY <1>0, <2>1, WroteTypes, ChannelsNamed DEF MainTypes, Kinds
  <2>3. UNCHANGED opened /\ UNCHANGED <<link, attached, heard>>
    BY <1>13 DEF Service
  <2> QED
    BY <1>0, <2>2, <2>3, ChannelsNamed
<1>14. CASE Accepted
  BY <1>14 DEF Accepted, Pause
<1>15. CASE Ack
  <2>1. Wrote(Here, "ack", 0)
    BY <1>15 DEF Ack, Send, Wrote
  <2>2. inbox' \in Seq(Frame) /\ seq' \in [Names -> Nat]
    BY <1>0, <2>1, WroteTypes, ChannelsNamed DEF MainTypes, Kinds
  <2>3. UNCHANGED opened /\ UNCHANGED <<link, attached, heard>>
    BY <1>15 DEF Ack
  <2> QED
    BY <1>0, <2>2, <2>3, ChannelsNamed
<1>16. CASE Leave
  <2>1. Wrote(Here, "close", 0)
    BY <1>16 DEF Leave, Send, Wrote
  <2>2. inbox' \in Seq(Frame) /\ seq' \in [Names -> Nat]
    BY <1>0, <2>1, WroteTypes, ChannelsNamed DEF MainTypes, Kinds
  <2>3. UNCHANGED opened /\ UNCHANGED <<link, attached, heard>>
    BY <1>16 DEF Leave
  <2> QED
    BY <1>0, <2>2, <2>3, ChannelsNamed
<1>17. CASE Left
  <2>1. seq' = [seq EXCEPT ![Here] = 0] \/ seq' = seq
    BY <1>17 DEF Left
  <2>3. seq' \in [Names -> Nat]
    BY <2>1
  <2>2. UNCHANGED <<opened, link, attached, heard, inbox>>
    BY <1>17 DEF Left, Pause
  <2> QED
    BY <2>2, <2>3
<1>18. CASE List
  <2>1. Wrote(Control, "list", txn + 1)
    BY <1>18 DEF List, Request, Send, Wrote
  <2>2. inbox' \in Seq(Frame) /\ seq' \in [Names -> Nat]
    BY ONLY Wire, <1>a, <1>b, <2>1, WroteTypes, ChannelsNamed
  <2>3. UNCHANGED opened /\ UNCHANGED <<link, attached, heard>>
    BY <1>18 DEF List, Request
  <2> QED
    BY <1>0, <2>2, <2>3, ChannelsNamed
<1>19. CASE Listed
  BY <1>19 DEF Listed, Await
<1>20. CASE Select
  <2>1. Wrote(Data, "select", txn + 1)
    BY <1>20 DEF Select, Request, Send, Wrote
  <2>2. inbox' \in Seq(Frame) /\ seq' \in [Names -> Nat]
    BY ONLY Wire, <1>a, <1>b, <2>1, WroteTypes, ChannelsNamed
  <2>3. UNCHANGED opened /\ UNCHANGED <<link, attached, heard>>
    BY <1>20 DEF Select, Request
  <2> QED
    BY <1>0, <2>2, <2>3, ChannelsNamed
<1>21. CASE Selected
  BY <1>21 DEF Selected, Await
<1>22. CASE AskLoaded
  <2>1. Wrote(Data, "loaded", txn + 1)
    BY <1>22 DEF AskLoaded, Request, Send, Wrote
  <2>2. inbox' \in Seq(Frame) /\ seq' \in [Names -> Nat]
    BY ONLY Wire, <1>a, <1>b, <2>1, WroteTypes, ChannelsNamed
  <2>3. UNCHANGED opened /\ UNCHANGED <<link, attached, heard>>
    BY <1>22 DEF AskLoaded, Request
  <2> QED
    BY <1>0, <2>2, <2>3, ChannelsNamed
<1>23. CASE Loaded
  BY <1>23 DEF Loaded, Await
<1>24. CASE Deadline
  BY <1>24 DEF Deadline, Await
<1>25. CASE Drain("bye", "byeAck") /\ at' = 1
  BY <1>25 DEF Drain
<1>26. CASE FarewellFrame("byeAck", "ack", "byeHello")
  <2>1. Wrote(Here, "ack", 0) \/ UNCHANGED <<inbox, seq>>
    BY <1>26 DEF FarewellFrame, Send, Wrote
  <2>2. inbox' \in Seq(Frame) /\ seq' \in [Names -> Nat]
    BY <1>0, <2>1, WroteTypes, ChannelsNamed DEF MainTypes, Kinds
  <2>3. UNCHANGED <<opened, link, attached, heard>>
    BY <1>26 DEF FarewellFrame
  <2> QED
    BY <2>2, <2>3
<1>27. CASE FarewellFrame("byeHello", "close", "byeQuiet")
  <2>1. Wrote(Here, "close", 0) \/ UNCHANGED <<inbox, seq>>
    BY <1>27 DEF FarewellFrame, Send, Wrote
  <2>2. inbox' \in Seq(Frame) /\ seq' \in [Names -> Nat]
    BY <1>0, <2>1, WroteTypes, ChannelsNamed DEF MainTypes, Kinds
  <2>3. UNCHANGED <<opened, link, attached, heard>>
    BY <1>27 DEF FarewellFrame
  <2> QED
    BY <2>2, <2>3
<1>28. CASE Drain("byeQuiet", "release") /\ UNCHANGED at
  BY <1>28 DEF Drain
<1>29. CASE Release
  BY <1>29 DEF Release, Forget
<1>30. CASE CloseDevice
  BY <1>30 DEF CloseDevice
<1>31. CASE CloseBus
  BY <1>31 DEF CloseBus
<1>32. CASE StopWatching
  BY <1>32 DEF StopWatching
<1>33. CASE End
  BY <1>33 DEF End
<1>34. CASE Interrupt
  BY <1>34 DEF Interrupt, SignalRoom
<1>35. CASE Press
  BY <1>35 DEF Press, SignalRoom
<1>36. CASE BusFails
  BY <1>36 DEF BusFails
<1>37. CASE Take
  <2>1. /\ Tail(inbox) \in Seq(Frame)
        /\ Head(inbox).chan \in Names /\ Head(inbox).seq \in Nat
    BY <1>37, HeadOff DEF Take
  <2>2. inbox' \in Seq(Frame) /\ heard' \in [Names -> Nat]
    BY <1>37, <2>1 DEF Take
  <2>3. UNCHANGED <<opened, seq>>
    BY <1>37 DEF Take
  <2>4. /\ link' \in [Names -> {"closed", "open", "closing"}]
        /\ attached' \subseteq Names
    BY <1>37, <2>1 DEF Take, OnOpen, OnService, OnClose, OnRequest
  <2> QED
    BY <2>2, <2>3, <2>4
<1>38. CASE FinishLast
  BY <1>38 DEF FinishLast
<1>39. CASE FinishSwitch
  BY <1>39 DEF FinishSwitch
<1>40. ASSUME NEW c \in Names, FinishClose(c) PROVE Wire'
  BY <1>40 DEF FinishClose
<1> QED
  BY <1>1, <1>2, <1>3, <1>4, <1>5, <1>6, <1>7, <1>8, <1>9, <1>10, <1>11,
     <1>12, <1>13, <1>14, <1>15, <1>16, <1>17, <1>18, <1>19, <1>20, <1>21,
     <1>22, <1>23, <1>24, <1>25, <1>26, <1>27, <1>28, <1>29, <1>30, <1>31,
     <1>32, <1>33, <1>34, <1>35, <1>36, <1>37, <1>38, <1>39, <1>40
     DEF Next, Main, Opening, Claim, Handshake, Selecting, Close, Pedal

\* One step keeps the flags flags.
LEMMA StepFlags == Course /\ Flags /\ [Next]_vars => Flags'
<1> SUFFICES ASSUME Course, Flags, [Next]_vars PROVE Flags'
  OBVIOUS
<1> USE BoundsAssumption
    DEF Flags,
        At, Goto, Fault, FailTo, NoFault, Else, Said,
        main, session, usb, pedal, signals, history
<1>1. CASE UNCHANGED vars
  BY <1>1 DEF vars
<1>2. CASE Begin
  BY <1>2 DEF Begin
<1>3. CASE Find
  BY <1>3 DEF Find
<1>4. CASE Spares
  BY <1>4 DEF Spares
<1>5. CASE GiveBack
  BY <1>5 DEF GiveBack
<1>6. CASE ClaimOnce("claim", "unclaim")
  <2>1. interface' = TRUE \/ UNCHANGED interface
    BY <1>6 DEF ClaimOnce
  <2>2. UNCHANGED <<came, bus, dead, leftover, switching, wiped, watching, cancelled,
                    unsent, cutShort>>
    BY <1>6 DEF ClaimOnce
  <2> QED
    BY ONLY Flags, <2>1, <2>2
<1>7. CASE Unclaim
  BY <1>7 DEF Unclaim, Forget
<1>8. CASE ClaimOnce("reclaim", "ends")
  <2>1. interface' = TRUE \/ UNCHANGED interface
    BY <1>8 DEF ClaimOnce
  <2>2. UNCHANGED <<came, bus, dead, leftover, switching, wiped, watching, cancelled,
                    unsent, cutShort>>
    BY <1>8 DEF ClaimOnce
  <2> QED
    BY ONLY Flags, <2>1, <2>2
<1>9. CASE Ends
  BY <1>9 DEF Ends
<1>10. CASE Drain("drain", "hello") /\ UNCHANGED at
  BY <1>10 DEF Drain
<1>11. CASE Hello
  <2>1. unsent' = TRUE \/ UNCHANGED unsent
    BY <1>11 DEF Hello, Send
  <2>2. UNCHANGED <<bus, interface, dead, leftover, switching, wiped, watching, cancelled,
                    cutShort>> /\ came' = FALSE
    BY <1>11 DEF Hello
  <2> QED
    BY <2>1, <2>2
<1>12. CASE Greeted
  BY <1>12 DEF Greeted, Pause
<1>13. CASE Service
  <2>1. unsent' = TRUE \/ UNCHANGED unsent
    BY <1>13 DEF Service, Send
  <2>2. UNCHANGED <<bus, interface, dead, leftover, switching, wiped, watching, cancelled,
                    cutShort>> /\ came' = FALSE
    BY <1>13 DEF Service
  <2> QED
    BY <2>1, <2>2
<1>14. CASE Accepted
  BY <1>14 DEF Accepted, Pause
<1>15. CASE Ack
  <2>1. unsent' = TRUE \/ UNCHANGED unsent
    BY <1>15 DEF Ack, Send
  <2>2. UNCHANGED <<bus, interface, dead, leftover, switching, wiped, watching, cancelled,
                    cutShort>> /\ UNCHANGED came
    BY <1>15 DEF Ack
  <2> QED
    BY <2>1, <2>2
<1>16. CASE Leave
  <2>1. unsent' = TRUE \/ UNCHANGED unsent
    BY <1>16 DEF Leave, Send
  <2>2. UNCHANGED <<bus, interface, dead, leftover, switching, wiped, watching, cancelled,
                    cutShort>> /\ came' = FALSE
    BY <1>16 DEF Leave
  <2> QED
    BY <2>1, <2>2
<1>17. CASE Left
  BY <1>17 DEF Left, Pause
<1>18. CASE List
  <2>1. unsent' = TRUE \/ UNCHANGED unsent
    BY <1>18 DEF List, Request, Send
  <2>2. UNCHANGED <<bus, interface, dead, leftover, switching, wiped, watching, cancelled,
                    cutShort>> /\ UNCHANGED came
    BY <1>18 DEF List, Request
  <2> QED
    BY <2>1, <2>2
<1>19. CASE Listed
  BY <1>19 DEF Listed, Await
<1>20. CASE Select
  <2>1. unsent' = TRUE \/ UNCHANGED unsent
    BY <1>20 DEF Select, Request, Send
  <2>2. UNCHANGED <<bus, interface, dead, leftover, switching, wiped, watching, cancelled,
                    cutShort>> /\ UNCHANGED came
    BY <1>20 DEF Select, Request
  <2> QED
    BY <2>1, <2>2
<1>21. CASE Selected
  BY <1>21 DEF Selected, Await
<1>22. CASE AskLoaded
  <2>1. unsent' = TRUE \/ UNCHANGED unsent
    BY <1>22 DEF AskLoaded, Request, Send
  <2>2. UNCHANGED <<bus, interface, dead, leftover, switching, wiped, watching, cancelled,
                    cutShort>> /\ UNCHANGED came
    BY <1>22 DEF AskLoaded, Request
  <2> QED
    BY <2>1, <2>2
<1>23. CASE Loaded
  BY <1>23 DEF Loaded, Await
<1>24. CASE Deadline
  BY <1>24 DEF Deadline, Await
<1>25. CASE Drain("bye", "byeAck") /\ at' = 1
  BY <1>25 DEF Drain
<1>26. CASE FarewellFrame("byeAck", "ack", "byeHello")
  <2>1. unsent' = TRUE \/ UNCHANGED unsent
    BY <1>26 DEF FarewellFrame, Send
  <2>2. UNCHANGED <<bus, interface, dead, leftover, switching, wiped, watching, cancelled,
                    cutShort>> /\ UNCHANGED came
    BY <1>26 DEF FarewellFrame, Send
  <2> QED
    BY <2>1, <2>2
<1>27. CASE FarewellFrame("byeHello", "close", "byeQuiet")
  <2>1. unsent' = TRUE \/ UNCHANGED unsent
    BY <1>27 DEF FarewellFrame, Send
  <2>2. UNCHANGED <<bus, interface, dead, leftover, switching, wiped, watching, cancelled,
                    cutShort>> /\ UNCHANGED came
    BY <1>27 DEF FarewellFrame, Send
  <2> QED
    BY <2>1, <2>2
<1>28. CASE Drain("byeQuiet", "release") /\ UNCHANGED at
  BY <1>28 DEF Drain
<1>29. CASE Release
  BY <1>29 DEF Release, Forget
<1>30. CASE CloseDevice
  BY <1>30 DEF CloseDevice
<1>31. CASE CloseBus
  BY <1>31 DEF CloseBus
<1>32. CASE StopWatching
  BY <1>32 DEF StopWatching
<1>33. CASE End
  BY <1>33 DEF End
<1>34. CASE Interrupt
  BY <1>34 DEF Interrupt, SignalRoom
<1>35. CASE Press
  BY <1>35 DEF Press, SignalRoom
<1>36. CASE BusFails
  BY <1>36 DEF BusFails
<1>37. CASE Take
  <2>1. UNCHANGED came \/ Hears
    BY ONLY <1>37, Zenon DEF Take, OnOpen, OnService, OnClose, OnRequest,
                             Replies, Refuses, SaysNothing
  <2>4. came' \in BOOLEAN
    <3>1. CASE UNCHANGED came
      BY <3>1
    <3>2. CASE Hears
      <4>1. CASE pc \in Paused
        BY ONLY <3>2, <4>1, SMT DEF Hears
      <4>2. CASE pc \notin Paused
        BY ONLY <3>2, <4>2, SMT DEF Hears
      <4> QED
        BY <4>1, <4>2
    <3> QED
      BY <2>1, <3>1, <3>2
  <2>2. switching' \in BOOLEAN /\ wiped' \in BOOLEAN
    BY <1>37 DEF Take, OnOpen, OnService, OnClose, OnRequest
  <2>3. UNCHANGED <<bus, interface, dead, leftover, watching, cancelled, unsent,
                    cutShort>>
    BY <1>37 DEF Take
  <2> QED
    BY <2>2, <2>3, <2>4
<1>38. CASE FinishLast
  BY <1>38 DEF FinishLast
<1>39. CASE FinishSwitch
  BY <1>39 DEF FinishSwitch
<1>40. ASSUME NEW c \in Names, FinishClose(c) PROVE Flags'
  BY <1>40 DEF FinishClose
<1> QED
  BY <1>1, <1>2, <1>3, <1>4, <1>5, <1>6, <1>7, <1>8, <1>9, <1>10, <1>11,
     <1>12, <1>13, <1>14, <1>15, <1>16, <1>17, <1>18, <1>19, <1>20, <1>21,
     <1>22, <1>23, <1>24, <1>25, <1>26, <1>27, <1>28, <1>29, <1>30, <1>31,
     <1>32, <1>33, <1>34, <1>35, <1>36, <1>37, <1>38, <1>39, <1>40
     DEF Next, Main, Opening, Claim, Handshake, Selecting, Close, Pedal

\* One step keeps every variable in its range.
LEMMA StepRanges == Course /\ Wire /\ Ranges /\ [Next]_vars => Ranges'
<1> SUFFICES ASSUME Course /\ Wire, Ranges, [Next]_vars PROVE Ranges'
  OBVIOUS
<1> USE BoundsAssumption
    DEF Course, MainTypes, Watched, Ranges, NoAnswer,
        At, Goto, Fault, FailTo, NoFault, Else, Said,
        main, session, usb, pedal, signals, history
<1>1. CASE UNCHANGED vars
  BY <1>1 DEF vars
<1>2. CASE Begin
  BY <1>2 DEF Begin
<1>3. CASE Find
  BY <1>3 DEF Find
<1>4. CASE Spares
  BY <1>4 DEF Spares
<1>5. CASE GiveBack
  BY <1>5 DEF GiveBack
<1>6. CASE ClaimOnce("claim", "unclaim")
  BY <1>6 DEF ClaimOnce
<1>7. CASE Unclaim
  BY <1>7 DEF Unclaim, Forget
<1>8. CASE ClaimOnce("reclaim", "ends")
  BY <1>8 DEF ClaimOnce
<1>9. CASE Ends
  BY <1>9 DEF Ends
<1>10. CASE Drain("drain", "hello") /\ UNCHANGED at
  BY <1>10 DEF Drain
<1>11. CASE Hello
  BY <1>11 DEF Hello, Send
<1>12. CASE Greeted
  BY <1>12 DEF Greeted, Pause
<1>13. CASE Service
  BY <1>13 DEF Service, Send
<1>14. CASE Accepted
  BY <1>14 DEF Accepted, Pause
<1>15. CASE Ack
  BY <1>15 DEF Ack, Send, AfterService
<1>16. CASE Leave
  BY <1>16 DEF Leave, Send
<1>17. CASE Left
  <2>1. answer' = NoAnswer \/ answer' = answer
    BY <1>17 DEF Left
  <2>2. UNCHANGED <<devices, playing, queued, pressed, handled, faults>>
    BY <1>17 DEF Left, Pause
  <2> QED
    BY <2>1, <2>2
<1>18. CASE List
  BY <1>18 DEF List, Request, Send
<1>19. CASE Listed
  BY <1>19 DEF Listed, Await
<1>20. CASE Select
  BY <1>20 DEF Select, Request, Send
<1>21. CASE Selected
  BY <1>21 DEF Selected, Await
<1>22. CASE AskLoaded
  BY <1>22 DEF AskLoaded, Request, Send
<1>23. CASE Loaded
  BY <1>23 DEF Loaded, Await
<1>24. CASE Deadline
  BY <1>24 DEF Deadline, Await
<1>25. CASE Drain("bye", "byeAck") /\ at' = 1
  BY <1>25 DEF Drain
<1>26. CASE FarewellFrame("byeAck", "ack", "byeHello")
  BY <1>26 DEF FarewellFrame, Send
<1>27. CASE FarewellFrame("byeHello", "close", "byeQuiet")
  BY <1>27 DEF FarewellFrame, Send
<1>28. CASE Drain("byeQuiet", "release") /\ UNCHANGED at
  BY <1>28 DEF Drain
<1>29. CASE Release
  BY <1>29 DEF Release, Forget
<1>30. CASE CloseDevice
  BY <1>30 DEF CloseDevice
<1>31. CASE CloseBus
  BY <1>31 DEF CloseBus
<1>32. CASE StopWatching
  BY <1>32 DEF StopWatching
<1>33. CASE End
  BY <1>33 DEF End
<1>34. CASE Interrupt
  BY <1>34 DEF Interrupt, SignalRoom
<1>35. CASE Press
  BY <1>35 DEF Press, SignalRoom
<1>36. CASE BusFails
  BY <1>36 DEF BusFails
<1>37. CASE Take
  <2>1. Head(inbox).txn \in Nat /\ Head(inbox).kind \in Kinds
    BY <1>37, HeadOff DEF Take
  <2>2. \/ answer' = answer
        \/ \E says \in {"list", "taken", "refused", "notAPreset", playing} :
             answer' = [txn |-> Head(inbox).txn, says |-> says]
    BY <1>37, <2>1 DEF Take, OnOpen, OnService, OnClose, OnRequest, Replies,
                 Refuses, SaysNothing, Hears
  <2>3. answer' \in [txn : Nat, says : {"nothing", "list", "taken", "refused",
                                       "notAPreset", Target, Other}]
    BY <2>1, <2>2
  <2>4. UNCHANGED <<devices, playing, queued, pressed, handled, faults>>
    BY <1>37 DEF Take
  <2> QED
    BY <2>3, <2>4
<1>38. CASE FinishLast
  BY <1>38 DEF FinishLast
<1>39. CASE FinishSwitch
  BY <1>39 DEF FinishSwitch
<1>40. ASSUME NEW c \in Names, FinishClose(c) PROVE Ranges'
  BY <1>40 DEF FinishClose
<1> QED
  BY <1>1, <1>2, <1>3, <1>4, <1>5, <1>6, <1>7, <1>8, <1>9, <1>10, <1>11,
     <1>12, <1>13, <1>14, <1>15, <1>16, <1>17, <1>18, <1>19, <1>20, <1>21,
     <1>22, <1>23, <1>24, <1>25, <1>26, <1>27, <1>28, <1>29, <1>30, <1>31,
     <1>32, <1>33, <1>34, <1>35, <1>36, <1>37, <1>38, <1>39, <1>40
     DEF Next, Main, Opening, Claim, Handshake, Selecting, Close, Pedal

-----------------------------------------------------------------------------
\* Nothing of the switch has happened yet.
Ahead == playing = Other /\ ~switching /\ ~wiped
\* No more than one select, and none, on a wire q.
OneSelect(q) == \A i, j \in DOMAIN q :
  q[i].kind = "select" /\ q[j].kind = "select" => i = j
NoSelect(q) == \A i \in DOMAIN q : q[i].kind # "select"

\* The switch is ahead until the one select has been taken; once the pedal has
\* said that it plays the target, it does, and no switch is left to be cut short.
Landing ==
  /\ OneSelect(inbox)
  /\ NoSelect(inbox) \/ Ahead
  /\ pc \in Unselected => NoSelect(inbox) /\ Ahead /\ result # "ok"
  /\ ~(switching /\ wiped)
  /\ playing = Target => ~switching /\ ~wiped
  /\ answer.says = Target => playing = Target
  /\ result = "ok" => playing = Target

\* A sequence with one more element: the old ones, and the new one last.
LEMMA AfterAppend ==
  ASSUME NEW q \in Seq(Frame), NEW f \in Frame
  PROVE  /\ DOMAIN q = 1 .. Len(q) /\ Len(q) \in Nat
         /\ DOMAIN Append(q, f) = 1 .. (Len(q) + 1)
         /\ \A i \in 1 .. Len(q) : Append(q, f)[i] = q[i]
         /\ Append(q, f)[Len(q) + 1] = f
BY AppendProperties

\* A sequence without its head: every element moves up by one.
LEMMA AfterTail ==
  ASSUME NEW q \in Seq(Frame), q # <<>>
  PROVE  /\ DOMAIN q = 1 .. Len(q) /\ Len(q) \in Nat \ {0}
         /\ DOMAIN Tail(q) = 1 .. (Len(q) - 1)
         /\ \A i \in 1 .. (Len(q) - 1) : Tail(q)[i] = q[i + 1]
         /\ Head(q) = q[1]
BY HeadTailProperties

\* What a frame written does to the selects on the wire.
LEMMA SelectWritten ==
  ASSUME Wire, NEW c \in Names, NEW kind \in Kinds, NEW number \in Nat,
         Wrote(c, kind, number)
  PROVE  /\ NoSelect(inbox) => OneSelect(inbox)'
         /\ kind # "select" => /\ OneSelect(inbox) => OneSelect(inbox)'
                               /\ NoSelect(inbox) => NoSelect(inbox)'
<1> DEFINE f == [chan |-> c, kind |-> kind, seq |-> seq[c], txn |-> number]
<1>1. f \in Frame /\ f.kind = kind
  BY DEF Wire, Frame
<1>2. inbox' = Append(inbox, f) \/ inbox' = inbox
  BY DEF Wrote
<1> HIDE DEF f
<1>3. inbox \in Seq(Frame)
  BY DEF Wire
<1>4. CASE inbox' = Append(inbox, f)
  BY <1>1, <1>3, <1>4, AfterAppend DEF OneSelect, NoSelect
<1>5. CASE inbox' = inbox
  BY <1>3, <1>5 DEF OneSelect, NoSelect
<1> QED
  BY <1>2, <1>4, <1>5

\* What taking a frame does to the selects on the wire.
LEMMA SelectTaken ==
  ASSUME Wire, inbox # <<>>, inbox' = Tail(inbox)
  PROVE  /\ OneSelect(inbox) => OneSelect(inbox)'
         /\ NoSelect(inbox) => NoSelect(inbox)' /\ Head(inbox).kind # "select"
         /\ OneSelect(inbox) /\ Head(inbox).kind = "select" => NoSelect(inbox)'
<1>1. inbox \in Seq(Frame)
  BY DEF Wire
<1> QED
  BY <1>1, AfterTail DEF OneSelect, NoSelect

\* One step keeps the switch on its way.
LEMMA StepLanding == Course /\ Wire /\ Landing /\ [Next]_vars => Landing'
<1> SUFFICES ASSUME Course, Wire, Landing, [Next]_vars PROVE Landing'
  OBVIOUS
<1>0. /\ MainTypes /\ txn \in Nat
      /\ Here \in Names /\ Control \in Names /\ Data \in Names
  BY ChannelsNamed DEF Course, MainTypes
<1>a. ASSUME inbox' = inbox
      PROVE  OneSelect(inbox)' = OneSelect(inbox) /\ NoSelect(inbox)' = NoSelect(inbox)
  BY <1>a DEF OneSelect, NoSelect
<1>b. ASSUME NEW c \in Names, NEW kind \in Kinds \ {"select"}, NEW number \in Nat,
             Wrote(c, kind, number)
      PROVE  OneSelect(inbox)' /\ (NoSelect(inbox) => NoSelect(inbox)')
  BY <1>b, SelectWritten DEF Landing
<1>c. {"open", "service", "ack", "close", "list", "loaded"} \subseteq Kinds \ {"select"}
  BY DEF Kinds
<1> USE DEF Landing, Ahead, Unselected, Starting, Greeting, Target, Other, NoAnswer,
            At, Goto, Fault, FailTo, NoFault, Else, Said,
            main, session, usb, pedal, signals, history
<1>1. CASE UNCHANGED vars
  BY <1>1, <1>a DEF vars
<1>2. CASE Begin
  BY <1>2, <1>a DEF Begin
<1>3. CASE Find
  BY <1>3, <1>a DEF Find
<1>4. CASE Spares
  BY <1>4, <1>a DEF Spares
<1>5. CASE GiveBack
  BY <1>5, <1>a DEF GiveBack
<1>6. CASE ClaimOnce("claim", "unclaim")
  BY <1>6, <1>a DEF ClaimOnce
<1>7. CASE Unclaim
  BY <1>7, <1>a DEF Unclaim, Forget
<1>8. CASE ClaimOnce("reclaim", "ends")
  BY <1>8, <1>a DEF ClaimOnce
<1>9. CASE Ends
  BY <1>9, <1>a DEF Ends
<1>10. CASE Drain("drain", "hello") /\ UNCHANGED at
  BY <1>10, <1>a DEF Drain
<1>11. CASE Hello
  <2>1. Wrote(Here, "open", 0)
    BY <1>11 DEF Hello, Send, Wrote
  <2> QED
    BY <1>0, <1>b, <1>c, <1>11, <2>1 DEF Hello, Send
<1>12. CASE Greeted
  BY <1>12, <1>a DEF Greeted, Pause
<1>13. CASE Service
  <2>1. Wrote(Here, "service", 0)
    BY <1>13 DEF Service, Send, Wrote
  <2> QED
    BY <1>0, <1>b, <1>c, <1>13, <2>1 DEF Service, Send
<1>14. CASE Accepted
  BY <1>14, <1>a DEF Accepted, Pause
<1>15. CASE Ack
  <2>1. Wrote(Here, "ack", 0)
    BY <1>15 DEF Ack, Send, Wrote
  <2> QED
    BY <1>0, <1>b, <1>c, <1>15, <2>1 DEF Ack, Send, AfterService
<1>16. CASE Leave
  <2>1. Wrote(Here, "close", 0)
    BY <1>16 DEF Leave, Send, Wrote
  <2> QED
    BY <1>0, <1>b, <1>c, <1>16, <2>1 DEF Leave, Send
<1>17. CASE Left
  BY <1>17, <1>a DEF Left, Pause
<1>18. CASE List
  <2>1. Wrote(Control, "list", txn + 1)
    BY <1>18 DEF List, Request, Send, Wrote
  <2> QED
    BY <1>0, <1>b, <1>c, <1>18, <2>1 DEF List, Request, Send
<1>19. CASE Listed
  BY <1>19, <1>a DEF Listed, Await
<1>20. CASE Select
  <2>1. Wrote(Data, "select", txn + 1) /\ NoSelect(inbox)
    BY <1>20 DEF Select, Request, Send, Wrote
  <2>2. OneSelect(inbox)'
    BY <1>0, <2>1, SelectWritten DEF Kinds
  <2> QED
    BY <2>2, <1>20 DEF Select, Request, Send
<1>21. CASE Selected
  BY <1>21, <1>a DEF Selected, Await
<1>22. CASE AskLoaded
  <2>1. Wrote(Data, "loaded", txn + 1)
    BY <1>22 DEF AskLoaded, Request, Send, Wrote
  <2> QED
    BY <1>0, <1>b, <1>c, <1>22, <2>1 DEF AskLoaded, Request, Send
<1>23. CASE Loaded
  BY <1>23, <1>a DEF Loaded, Await, Answered
<1>24. CASE Deadline
  BY <1>24, <1>a DEF Deadline, Await
<1>25. CASE Drain("bye", "byeAck") /\ at' = 1
  BY <1>25, <1>a DEF Drain
<1>26. CASE FarewellFrame("byeAck", "ack", "byeHello")
  <2>1. Wrote(Here, "ack", 0) \/ inbox' = inbox
    BY <1>26 DEF FarewellFrame, Send, Wrote
  <2>2. OneSelect(inbox)' /\ (NoSelect(inbox) => NoSelect(inbox)')
    BY <1>0, <1>a, <1>b, <1>c, <2>1
  <2> QED
    BY <1>26, <2>2 DEF FarewellFrame, Send
<1>27. CASE FarewellFrame("byeHello", "close", "byeQuiet")
  <2>1. Wrote(Here, "close", 0) \/ inbox' = inbox
    BY <1>27 DEF FarewellFrame, Send, Wrote
  <2>2. OneSelect(inbox)' /\ (NoSelect(inbox) => NoSelect(inbox)')
    BY <1>0, <1>a, <1>b, <1>c, <2>1
  <2> QED
    BY <1>27, <2>2 DEF FarewellFrame, Send
<1>28. CASE Drain("byeQuiet", "release") /\ UNCHANGED at
  BY <1>28, <1>a DEF Drain
<1>29. CASE Release
  BY <1>29, <1>a DEF Release, Forget
<1>30. CASE CloseDevice
  BY <1>30, <1>a DEF CloseDevice
<1>31. CASE CloseBus
  BY <1>31, <1>a DEF CloseBus
<1>32. CASE StopWatching
  BY <1>32, <1>a DEF StopWatching
<1>33. CASE End
  BY <1>33, <1>a DEF End
<1>34. CASE Interrupt
  BY <1>34, <1>a DEF Interrupt
<1>35. CASE Press
  BY <1>35, <1>a DEF Press
<1>36. CASE BusFails
  BY <1>36, <1>a DEF BusFails
<1>37. CASE Take
  <2> DEFINE f == Head(inbox)
  <2>1. /\ OneSelect(inbox)' /\ (NoSelect(inbox) => NoSelect(inbox)' /\ f.kind # "select")
        /\ f.kind = "select" => NoSelect(inbox)'
    BY <1>37, SelectTaken DEF Take
  <2>2. UNCHANGED <<pc, result, playing>>
    BY <1>37 DEF Take
  <2>3. CASE f.kind \in {"open", "service", "ack"}
    <3>1. UNCHANGED <<switching, wiped, answer>>
      BY <1>37, <2>3 DEF Take, OnOpen, OnService, SaysNothing
    <3> QED
      BY <2>1, <2>2, <3>1
  <2>4. CASE f.kind = "close"
    <3>1. UNCHANGED answer /\ \/ UNCHANGED switching /\ UNCHANGED wiped
                              \/ wiped' = (wiped \/ switching) /\ switching' = FALSE
      BY <1>37, <2>4 DEF Take, OnClose, SaysNothing
    <3>2. ~(switching /\ wiped)
      OBVIOUS
    <3>3. ~(switching' /\ wiped') /\ (~switching /\ ~wiped => ~switching' /\ ~wiped')
      <4>1. CASE UNCHANGED switching /\ UNCHANGED wiped
        BY ONLY <4>1, <3>2, Zenon
      <4>2. CASE wiped' = (wiped \/ switching) /\ switching' = FALSE
        BY ONLY <4>2, Zenon
      <4> QED
        BY <3>1, <4>1, <4>2
    <3> QED
      BY <2>1, <2>2, <3>1, <3>3
  <2>5. CASE f.kind = "select"
    <3>1. /\ UNCHANGED wiped /\ (switching' = TRUE \/ UNCHANGED switching)
          /\ UNCHANGED answer \/ answer'.says \in {"taken", "refused"}
      BY <1>37, <2>5 DEF Take, OnRequest, Replies, Refuses, SaysNothing
    <3> QED
      BY <2>1, <2>2, <2>5, <3>1
  <2>6. CASE f.kind \in {"list", "loaded"}
    <3>1. /\ UNCHANGED <<wiped, switching>>
          /\ UNCHANGED answer \/ answer'.says \in {"list", "refused", "notAPreset", playing}
      BY <1>37, <2>6 DEF Take, OnRequest, Replies, Refuses, SaysNothing
    <3> QED
      BY <2>1, <2>2, <3>1
  <2>7. f.kind \in Kinds
    BY <1>37, HeadOff DEF Take
  <2> QED
    BY <2>3, <2>4, <2>5, <2>6, <2>7 DEF Kinds
<1>38. CASE FinishLast
  BY <1>38, <1>a DEF FinishLast
<1>39. CASE FinishSwitch
  BY <1>39, <1>a DEF FinishSwitch
<1>40. ASSUME NEW c \in Names, FinishClose(c) PROVE Landing'
  BY <1>40, <1>a DEF FinishClose
<1> QED
  BY <1>1, <1>2, <1>3, <1>4, <1>5, <1>6, <1>7, <1>8, <1>9, <1>10, <1>11,
     <1>12, <1>13, <1>14, <1>15, <1>16, <1>17, <1>18, <1>19, <1>20, <1>21,
     <1>22, <1>23, <1>24, <1>25, <1>26, <1>27, <1>28, <1>29, <1>30, <1>31,
     <1>32, <1>33, <1>34, <1>35, <1>36, <1>37, <1>38, <1>39, <1>40
     DEF Next, Main, Opening, Claim, Handshake, Selecting, Close, Pedal

-----------------------------------------------------------------------------
\* The farewell has passed the i-th channel: it was told goodbye if it was open.
Told(i) ==
  \/ pc = "byeHello" /\ i < at
  \/ pc \in {"byeQuiet", "release", "closeDevice", "closeBus", "return", "answered"}

\* A close of c is on the wire, behind the i-th frame.
CloseAfter(i, c) ==
  \E j \in DOMAIN inbox : i < j /\ inbox[j].kind = "close" /\ inbox[j].chan = c
\* Whatever the pedal believes of c, or is about to be told, a close comes last.
Parting(c) ==
  /\ \A i \in DOMAIN inbox :
       inbox[i].kind = "open" /\ inbox[i].chan = c => CloseAfter(i, c)
  /\ c \in attached => CloseAfter(0, c)

\* A channel the farewell has passed is parting, unless a frame was lost.
Parted ==
  /\ pc \in Starting \cup {"drain"} => opened = {}
  /\ ~unsent => \A i \in 1 .. Len(Channels) :
       Channels[i] \in opened /\ Told(i) => Parting(Channels[i])

\* A parting channel keeps parting when anything but an opening is written, and
\* a close written makes its channel one.
LEMMA PartingWritten ==
  ASSUME Wire, NEW c \in Names, NEW kind \in Kinds \ {"open"}, NEW number \in Nat,
         Wrote(c, kind, number), UNCHANGED attached
  PROVE  /\ \A d \in Names : Parting(d) => Parting(d)'
         /\ kind = "close" /\ ~unsent' => Parting(c)'
<1> DEFINE f == [chan |-> c, kind |-> kind, seq |-> seq[c], txn |-> number]
<1>1. f \in Frame /\ f.kind = kind /\ f.chan = c
  BY DEF Wire, Frame
<1>2. inbox \in Seq(Frame)
  BY DEF Wire
<1>3. inbox' = Append(inbox, f) \/ (unsent' = TRUE /\ inbox' = inbox)
  BY DEF Wrote
<1> HIDE DEF f
<1>4. CASE inbox' = Append(inbox, f)
  <2>1. /\ DOMAIN inbox = 1 .. Len(inbox) /\ Len(inbox) \in Nat
        /\ DOMAIN inbox' = 1 .. (Len(inbox) + 1)
        /\ \A i \in 1 .. Len(inbox) : inbox'[i] = inbox[i]
        /\ inbox'[Len(inbox) + 1] = f
    BY <1>1, <1>2, <1>4, AfterAppend
  <2>2. ASSUME NEW d \in Names, NEW i \in Nat, CloseAfter(i, d) PROVE CloseAfter(i, d)'
    BY <2>1, <2>2 DEF CloseAfter
  <2>3. ASSUME NEW d \in Names, Parting(d) PROVE Parting(d)'
    BY <1>1, <2>1, <2>2, <2>3 DEF Parting
  <2>4. ASSUME kind = "close" PROVE Parting(c)'
    <3>1. \A i \in 0 .. Len(inbox) : CloseAfter(i, c)'
      BY <1>1, <2>1, <2>4 DEF CloseAfter
    <3> QED
      BY <1>1, <2>1, <2>4, <3>1 DEF Parting
  <2> QED
    BY <2>3, <2>4
<1>5. CASE unsent' = TRUE /\ inbox' = inbox
  BY <1>5 DEF Parting, CloseAfter
<1> QED
  BY <1>3, <1>4, <1>5

\* A parting channel keeps parting when the pedal takes a frame.
LEMMA PartingTaken ==
  ASSUME Wire, Take, NEW c \in Names, Parting(c)
  PROVE  Parting(c)'
<1> DEFINE f == Head(inbox)
<1>1. inbox \in Seq(Frame) /\ inbox # <<>> /\ inbox' = Tail(inbox)
  BY DEF Wire, Take
<1>2. /\ DOMAIN inbox = 1 .. Len(inbox) /\ Len(inbox) \in Nat \ {0}
      /\ DOMAIN inbox' = 1 .. (Len(inbox) - 1)
      /\ \A i \in 1 .. (Len(inbox) - 1) : inbox'[i] = inbox[i + 1]
      /\ f = inbox[1]
  BY <1>1, AfterTail
<1>3. /\ f.kind = "open" => attached' = attached \cup {f.chan}
      /\ f.kind = "close" => attached' = attached \ {f.chan}
      /\ f.kind \notin {"open", "close"} => attached' = attached
  <2>1. f.kind \in Kinds
    BY <1>1, HeadOff
  <2> QED
    BY <2>1 DEF Take, OnOpen, OnService, OnClose, OnRequest, Kinds
<1> HIDE DEF f
<1>4. ASSUME NEW i \in Nat \ {0}, CloseAfter(i, c) PROVE CloseAfter(i - 1, c)'
  <2>1. PICK j \in DOMAIN inbox : i < j /\ inbox[j].kind = "close" /\ inbox[j].chan = c
    BY <1>4 DEF CloseAfter
  <2>2. j - 1 \in DOMAIN inbox' /\ i - 1 < j - 1 /\ inbox'[j - 1] = inbox[j]
    BY <1>2, <2>1
  <2> QED
    BY <2>1, <2>2 DEF CloseAfter
<1>5. ASSUME NEW i \in DOMAIN inbox', inbox'[i].kind = "open", inbox'[i].chan = c
      PROVE  CloseAfter(i, c)'
  <2>1. i + 1 \in DOMAIN inbox /\ inbox'[i] = inbox[i + 1] /\ i \in Nat
    BY <1>2
  <2>2. CloseAfter(i + 1, c)
    BY <1>5, <2>1 DEF Parting
  <2> QED
    BY <1>4, <2>1, <2>2
<1>6. ASSUME c \in attached' PROVE CloseAfter(0, c)'
  <2>1. CASE f.kind = "open" /\ f.chan = c
    <3>1. CloseAfter(1, c)
      BY <1>2, <2>1 DEF Parting
    <3> QED
      BY <1>4, <3>1
  <2>2. CASE ~(f.kind = "open" /\ f.chan = c)
    <3>1. c \in attached /\ ~(f.kind = "close" /\ f.chan = c)
      BY <1>3, <1>6, <2>2
    <3>2. CloseAfter(0, c)
      BY <3>1 DEF Parting
    <3>3. CloseAfter(1, c)
      BY <1>2, <3>1, <3>2 DEF CloseAfter
    <3> QED
      BY <1>4, <3>3
  <2> QED
    BY <2>1, <2>2
<1> QED
  BY <1>5, <1>6 DEF Parting

\* One step keeps what was told goodbye parting.
LEMMA StepParted == Course /\ Wire /\ Parted /\ [Next]_vars => Parted'
<1> SUFFICES ASSUME Course, Wire, Parted, [Next]_vars PROVE Parted'
  OBVIOUS
<1>0. /\ MainTypes /\ at \in 1 .. Len(Channels)
      /\ Len(Channels) \in Nat /\ Here \in Names
      /\ \A i \in 1 .. Len(Channels) : Channels[i] \in Names
  BY ChannelsNamed, BoundsAssumption DEF Course, MainTypes
<1>a. ASSUME UNCHANGED <<inbox, attached>>
      PROVE  \A c \in Names : Parting(c)' = Parting(c)
  BY <1>a DEF Parting, CloseAfter
<1> USE DEF Parted, Told, Starting,
            At, Goto, Fault, FailTo, NoFault, Else, Said,
            main, session, usb, pedal, signals, history
<1>1. CASE UNCHANGED vars
  BY <1>1, <1>0, <1>a DEF vars
<1>2. CASE Begin
  BY <1>2, <1>0, <1>a DEF Begin
<1>3. CASE Find
  BY <1>3, <1>0, <1>a DEF Find
<1>4. CASE Spares
  BY <1>4, <1>0, <1>a DEF Spares
<1>5. CASE GiveBack
  BY <1>5, <1>0, <1>a DEF GiveBack
<1>6. CASE ClaimOnce("claim", "unclaim")
  BY <1>6, <1>0, <1>a DEF ClaimOnce
<1>7. CASE Unclaim
  BY <1>7, <1>0, <1>a DEF Unclaim, Forget
<1>8. CASE ClaimOnce("reclaim", "ends")
  BY <1>8, <1>0, <1>a DEF ClaimOnce
<1>9. CASE Ends
  BY <1>9, <1>0, <1>a DEF Ends
<1>10. CASE Drain("drain", "hello") /\ UNCHANGED at
  BY <1>10, <1>0, <1>a DEF Drain
<1>11. CASE Hello
  BY <1>11, <1>0, <1>a DEF Hello, Send
<1>12. CASE Greeted
  BY <1>12, <1>0, <1>a DEF Greeted, Pause
<1>13. CASE Service
  BY <1>13, <1>0, <1>a DEF Service, Send
<1>14. CASE Accepted
  BY <1>14, <1>0, <1>a DEF Accepted, Pause
<1>15. CASE Ack
  BY <1>15, <1>0, <1>a DEF Ack, Send, AfterService
<1>16. CASE Leave
  BY <1>16, <1>0, <1>a DEF Leave, Send
<1>17. CASE Left
  BY <1>17, <1>0, <1>a DEF Left, Pause
<1>18. CASE List
  BY <1>18, <1>0, <1>a DEF List, Request, Send
<1>19. CASE Listed
  BY <1>19, <1>0, <1>a DEF Listed, Await
<1>20. CASE Select
  BY <1>20, <1>0, <1>a DEF Select, Request, Send
<1>21. CASE Selected
  BY <1>21, <1>0, <1>a DEF Selected, Await
<1>22. CASE AskLoaded
  BY <1>22, <1>0, <1>a DEF AskLoaded, Request, Send
<1>23. CASE Loaded
  BY <1>23, <1>0, <1>a DEF Loaded, Await
<1>24. CASE Deadline
  BY <1>24, <1>0, <1>a DEF Deadline, Await
<1>25. CASE Drain("bye", "byeAck") /\ at' = 1
  BY <1>25, <1>0, <1>a DEF Drain
<1>26. CASE FarewellFrame("byeAck", "ack", "byeHello")
  BY <1>26, <1>0 DEF FarewellFrame, Send
<1>27. CASE FarewellFrame("byeHello", "close", "byeQuiet")
  <2>1. UNCHANGED <<opened, attached>> /\ pc = "byeHello"
    BY <1>27 DEF FarewellFrame
  <2>2. /\ at' = (IF at < Len(Channels) THEN at + 1 ELSE 1)
        /\ pc' = (IF at < Len(Channels) THEN "byeHello" ELSE "byeQuiet")
    BY <1>27 DEF FarewellFrame, Send
  <2>3. PICK c \in Names : c = Channels[at]
    BY <1>0
  <2>4. \/ c \in opened /\ Wrote(c, "close", 0)
        \/ c \notin opened /\ UNCHANGED <<inbox, unsent>>
    BY <1>27, <2>3 DEF FarewellFrame, Send, Wrote, Here
  <2>5. "close" \in Kinds \ {"open"}
    BY DEF Kinds
  <2>6. \A d \in Names : Parting(d) => Parting(d)'
    BY <1>0, <1>a, <2>1, <2>4, <2>5, PartingWritten
  <2>7. c \in opened /\ ~unsent' => Parting(c)'
    BY <1>0, <2>1, <2>4, <2>5, PartingWritten
  <2>8. ~unsent' => ~unsent
    BY <2>4, Zenon DEF Wrote
  <2>9. ASSUME ~unsent', NEW i \in 1 .. Len(Channels), Channels[i] \in opened', Told(i)'
        PROVE  Parting(Channels[i])'
    <3>1. i < at \/ i = at
      BY <1>0, <2>2, <2>9
    <3>2. ~unsent /\ Channels[i] \in opened /\ Channels[i] \in Names
      BY <1>0, <2>1, <2>8, <2>9
    <3> QED
      BY <2>1, <2>3, <2>6, <2>7, <2>9, <3>1, <3>2
  <2> QED
    BY <2>1, <2>2, <2>9
<1>28. CASE Drain("byeQuiet", "release") /\ UNCHANGED at
  BY <1>28, <1>0, <1>a DEF Drain
<1>29. CASE Release
  BY <1>29, <1>0, <1>a DEF Release, Forget
<1>30. CASE CloseDevice
  BY <1>30, <1>0, <1>a DEF CloseDevice
<1>31. CASE CloseBus
  BY <1>31, <1>0, <1>a DEF CloseBus
<1>32. CASE StopWatching
  BY <1>32, <1>0, <1>a DEF StopWatching
<1>33. CASE End
  BY <1>33, <1>0, <1>a DEF End
<1>34. CASE Interrupt
  BY <1>34, <1>0, <1>a DEF Interrupt
<1>35. CASE Press
  BY <1>35, <1>0, <1>a DEF Press
<1>36. CASE BusFails
  BY <1>36, <1>0, <1>a DEF BusFails
<1>37. CASE Take
  <2>1. UNCHANGED <<pc, at, opened, unsent>>
    BY <1>37 DEF Take
  <2> QED
    BY <1>0, <1>37, <2>1, PartingTaken
<1>38. CASE FinishLast
  BY <1>38, <1>0, <1>a DEF FinishLast
<1>39. CASE FinishSwitch
  BY <1>39, <1>0, <1>a DEF FinishSwitch
<1>40. ASSUME NEW c \in Names, FinishClose(c) PROVE Parted'
  BY <1>40, <1>0, <1>a DEF FinishClose
<1> QED
  BY <1>1, <1>2, <1>3, <1>4, <1>5, <1>6, <1>7, <1>8, <1>9, <1>10, <1>11,
     <1>12, <1>13, <1>14, <1>15, <1>16, <1>17, <1>18, <1>19, <1>20, <1>21,
     <1>22, <1>23, <1>24, <1>25, <1>26, <1>27, <1>28, <1>29, <1>30, <1>31,
     <1>32, <1>33, <1>34, <1>35, <1>36, <1>37, <1>38, <1>39, <1>40
     DEF Next, Main, Opening, Claim, Handshake, Selecting, Close, Pedal

-----------------------------------------------------------------------------
\* The number of a frame that follows one numbered last on its channel.
Expected(last, kind) ==
  IF kind = "open" THEN 0 ELSE IF last = 0 THEN FirstSeq ELSE last + 1

\* n is the number of the last frame on c before the j-th on the wire: the
\* nearest one still there, or else the last the pedal heard.
Precedes(n, j, c) ==
  \/ n = heard[c] /\ \A i \in 1 .. (j - 1) : inbox[i].chan # c
  \/ \E i \in 1 .. (j - 1) :
       /\ inbox[i].chan = c /\ n = inbox[i].seq
       /\ \A k \in (i + 1) .. (j - 1) : inbox[k].chan # c

\* Every frame of c is numbered after the one before it, and so will the next
\* one written be, unless the counter was started again.
InOrder(c) ==
  /\ \A j \in DOMAIN inbox, n \in Nat :
       inbox[j].chan = c /\ Precedes(n, j, c) =>
         inbox[j].seq = Expected(n, inbox[j].kind)
  /\ \A n \in Nat : Precedes(n, Len(inbox) + 1, c) => seq[c] \in {0, Expected(n, "ack")}

\* What a frame that was written does to the counters.
LEMMA SeqWritten ==
  ASSUME Wire, NEW c \in Names, NEW kind \in Kinds, NEW number \in Nat,
         Wrote(c, kind, number), ~unsent'
  PROVE  /\ ~unsent
         /\ inbox' = Append(inbox, [chan |-> c, kind |-> kind, seq |-> seq[c],
                                    txn |-> number])
         /\ kind = "open" => seq'[c] = FirstSeq
         /\ kind # "open" => seq'[c] = seq[c] + 1
         /\ seq[c] \in Nat /\ seq'[c] \in Nat \ {0}
         /\ \A d \in Names \ {c} : seq'[d] = seq[d]
<1>1. /\ inbox' = Append(inbox, [chan |-> c, kind |-> kind, seq |-> seq[c], txn |-> number])
      /\ seq' = [seq EXCEPT ![c] = NextSeq(c, kind)]
      /\ unsent' = unsent
  BY Zenon DEF Wrote
<1>2. seq[c] \in Nat /\ DOMAIN seq = Names
  BY DEF Wire
<1>3. seq'[c] = NextSeq(c, kind) /\ \A d \in Names \ {c} : seq'[d] = seq[d]
  BY ONLY <1>1, <1>2, c \in Names
<1> QED
  BY <1>1, <1>2, <1>3 DEF NextSeq, FirstSeq, Expected

\* A frame written in its turn keeps every channel in order: an opening when
\* the counter stands at nought, any other when it does not.
LEMMA OrderWritten ==
  ASSUME Wire, NEW c \in Names, NEW kind \in Kinds, NEW number \in Nat,
         Wrote(c, kind, number), ~unsent', UNCHANGED heard,
         kind = "open" <=> seq[c] = 0,
         \A d \in Names : InOrder(d)
  PROVE  \A d \in Names : InOrder(d)'
<1> DEFINE f == [chan |-> c, kind |-> kind, seq |-> seq[c], txn |-> number]
<1>1. f \in Frame /\ f.kind = kind /\ f.chan = c /\ f.seq = seq[c]
  BY DEF Wire, Frame
<1>2. inbox \in Seq(Frame)
  BY DEF Wire
<1>3. /\ inbox' = Append(inbox, f)
      /\ kind = "open" => seq'[c] = FirstSeq
      /\ kind # "open" => seq'[c] = seq[c] + 1
      /\ seq[c] \in Nat
      /\ \A d \in Names \ {c} : seq'[d] = seq[d]
  BY SeqWritten DEF Expected
<1> HIDE DEF f
<1>4. /\ DOMAIN inbox = 1 .. Len(inbox) /\ Len(inbox) \in Nat
      /\ DOMAIN inbox' = 1 .. (Len(inbox) + 1) /\ Len(inbox') = Len(inbox) + 1
      /\ \A i \in 1 .. Len(inbox) : inbox'[i] = inbox[i]
      /\ inbox'[Len(inbox) + 1] = f
  BY <1>1, <1>2, <1>3, AfterAppend, AppendProperties
<1>5. ASSUME NEW d \in Names, NEW n \in Nat, NEW j \in 1 .. (Len(inbox) + 1),
             Precedes(n, j, d)'
      PROVE  Precedes(n, j, d)
  <2>1. \A i \in 1 .. (j - 1) : inbox'[i] = inbox[i]
    BY <1>4
  <2> QED
    BY <1>5, <2>1 DEF Precedes
<1>6. ASSUME NEW d \in Names PROVE InOrder(d)'
  <2>1. ASSUME NEW j \in DOMAIN inbox', NEW n \in Nat, inbox'[j].chan = d, Precedes(n, j, d)'
        PROVE  inbox'[j].seq = Expected(n, inbox'[j].kind)
    <3>1. Precedes(n, j, d)
      BY <1>4, <1>5, <2>1
    <3>2. CASE j \in 1 .. Len(inbox)
      BY <1>4, <2>1, <3>1, <3>2 DEF InOrder
    <3>3. CASE j = Len(inbox) + 1
      <4>1. d = c /\ inbox'[j] = f
        BY <1>1, <1>4, <2>1, <3>3
      <4>2. seq[c] \in {0, Expected(n, "ack")}
        BY <3>1, <3>3, <4>1 DEF InOrder
      <4> QED
        BY <1>1, <4>1, <4>2 DEF Expected
    <3> QED
      BY <1>4, <3>2, <3>3
  <2>2. ASSUME NEW n \in Nat, Precedes(n, Len(inbox) + 1, d)'
        PROVE  seq'[d] \in {0, Expected(n, "ack")}
    <3>1. CASE d = c
      <4>1. n = seq[c]
        BY <1>1, <1>4, <2>2, <3>1 DEF Precedes
      <4> QED
        BY <1>3, <3>1, <4>1 DEF Expected
    <3>2. CASE d # c
      <4>1. PICK last \in Nat : last = Len(inbox)
        BY <1>4
      <4>2. Precedes(n, last + 1, d)'
        BY <1>1, <1>4, <2>2, <3>2, <4>1 DEF Precedes
      <4>3. Precedes(n, last + 1, d)
        BY <1>4, <1>5, <4>1, <4>2
      <4> QED
        BY <1>3, <3>2, <4>1, <4>3 DEF InOrder
    <3> QED
      BY <3>1, <3>2
  <2> QED
    BY <2>1, <2>2 DEF InOrder
<1> QED
  BY <1>6

\* A frame taken keeps its channel in order: its number is now the last heard.
LEMMA OrderTaken ==
  ASSUME Wire, Take, NEW c \in Names, InOrder(c)
  PROVE  InOrder(c)'
<1> DEFINE f == Head(inbox)
<1>1. /\ inbox \in Seq(Frame) /\ inbox # <<>> /\ inbox' = Tail(inbox)
      /\ UNCHANGED seq /\ heard' = [heard EXCEPT ![f.chan] = f.seq]
  BY DEF Wire, Take
<1>2. /\ DOMAIN inbox = 1 .. Len(inbox) /\ Len(inbox) \in Nat \ {0}
      /\ DOMAIN inbox' = 1 .. (Len(inbox) - 1) /\ Len(inbox') = Len(inbox) - 1
      /\ \A i \in 1 .. (Len(inbox) - 1) : inbox'[i] = inbox[i + 1]
      /\ f = inbox[1]
  BY <1>1, AfterTail, HeadTailProperties
<1>3. heard'[c] = (IF f.chan = c THEN f.seq ELSE heard[c])
  BY <1>1 DEF Wire
<1> HIDE DEF f
<1>4. ASSUME NEW n \in Nat, NEW j \in 1 .. Len(inbox), Precedes(n, j, c)'
      PROVE  Precedes(n, j + 1, c)
  <2>1. CASE n = heard'[c] /\ \A i \in 1 .. (j - 1) : inbox'[i].chan # c
    <3>1. \A k \in 2 .. j : inbox[k].chan # c
      <4>1. \A k \in 2 .. j : k - 1 \in 1 .. (j - 1) /\ inbox'[k - 1] = inbox[k]
        BY <1>2
      <4> QED
        BY <2>1, <4>1
    <3> QED
      <4>1. CASE f.chan = c
        <5>1. 1 \in 1 .. j /\ inbox[1].chan = c /\ n = inbox[1].seq
          BY <1>2, <1>3, <2>1, <4>1
        <5> QED
          BY <3>1, <5>1 DEF Precedes
      <4>2. CASE f.chan # c
        <5>1. n = heard[c] /\ \A k \in 1 .. j : inbox[k].chan # c
          BY <1>2, <1>3, <2>1, <3>1, <4>2
        <5> QED
          BY <5>1 DEF Precedes
      <4> QED
        BY <4>1, <4>2
  <2>2. ASSUME NEW i \in 1 .. (j - 1), inbox'[i].chan = c, n = inbox'[i].seq,
               \A k \in (i + 1) .. (j - 1) : inbox'[k].chan # c
        PROVE  Precedes(n, j + 1, c)
    <3>1. i + 1 \in 1 .. j /\ inbox'[i] = inbox[i + 1]
      BY <1>2
    <3>2. \A k \in (i + 2) .. j : k - 1 \in (i + 1) .. (j - 1) /\ inbox'[k - 1] = inbox[k]
      BY <1>2
    <3>3. \A k \in (i + 2) .. j : inbox[k].chan # c
      BY <2>2, <3>2
    <3> QED
      BY <2>2, <3>1, <3>3 DEF Precedes
  <2> QED
    BY <1>4, <2>1, <2>2 DEF Precedes
<1>5. ASSUME NEW j \in DOMAIN inbox', NEW n \in Nat, inbox'[j].chan = c, Precedes(n, j, c)'
      PROVE  inbox'[j].seq = Expected(n, inbox'[j].kind)
  <2>1. j + 1 \in DOMAIN inbox /\ inbox'[j] = inbox[j + 1] /\ j \in 1 .. Len(inbox)
    BY <1>2
  <2>2. Precedes(n, j + 1, c)
    BY <1>4, <1>5, <2>1
  <2> QED
    BY <1>5, <2>1, <2>2 DEF InOrder
<1>6. ASSUME NEW n \in Nat, Precedes(n, Len(inbox) + 1, c)'
      PROVE  seq'[c] \in {0, Expected(n, "ack")}
  <2>0. Len(inbox) \in 1 .. Len(inbox)
    BY <1>2
  <2>1. PICK last \in 1 .. Len(inbox) : last = Len(inbox)
    BY <2>0
  <2>2. last = Len(inbox') + 1
    BY <1>2, <2>1
  <2>3. Precedes(n, last, c)'
    BY <1>6, <2>2
  <2>4. Precedes(n, last + 1, c)
    BY <1>4, <2>3
  <2> QED
    BY <1>1, <2>1, <2>4 DEF InOrder
<1> QED
  BY <1>5, <1>6 DEF InOrder

\* Which counters stand at nought, at each place: those of channels that are yet
\* to be opened, and of the one about to be opened again.
Counters ==
  \A i \in 1 .. Len(Channels) :
    /\ pc \in Starting \cup {"drain"} => seq[Channels[i]] = 0
    /\ pc = "hello" => /\ seq[Channels[i]] = 0 <=> i >= at
                       /\ Channels[i] \in opened => i <= at
    /\ pc \in Greeting \ {"drain", "hello"} => (seq[Channels[i]] = 0 <=> i > at)
    /\ pc \in {"list", "listed", "select", "selected", "ask", "asked", "deadline"} =>
         seq[Channels[i]] # 0
    /\ Channels[i] \in opened /\ pc # "hello" => seq[Channels[i]] # 0

\* The counters, and every channel's frames in their order, until one is lost.
Numbered ==
  /\ pc \in Starting \cup {"drain"} => at = 1
  /\ ~unsent => Counters /\ \A c \in Names : InOrder(c)

\* One step keeps the frames in their numbers.
LEMMA StepNumbered == Course /\ Wire /\ Parted /\ Numbered /\ [Next]_vars => Numbered'
<1> SUFFICES ASSUME Course, Wire, Parted, Numbered, [Next]_vars PROVE Numbered'
  OBVIOUS
<1>0. /\ MainTypes /\ at \in 1 .. Len(Channels) /\ txn \in Nat
      /\ Len(Channels) \in Nat
      /\ \A i, j \in 1 .. Len(Channels) : Channels[i] = Channels[j] => i = j
      /\ \A i \in 1 .. Len(Channels) : Channels[i] \in Names
      /\ Control \in Names /\ Data \in Names
      /\ \A c \in Names : seq[c] \in Nat
  BY ChannelsNamed, BoundsAssumption DEF Course, MainTypes, Wire
<1>a. ASSUME UNCHANGED <<inbox, heard, seq>>
      PROVE  \A c \in Names : InOrder(c) => InOrder(c)'
  BY <1>a DEF InOrder, Precedes
<1>b. ASSUME NEW c \in Names, NEW kind \in Kinds, NEW number \in Nat,
             Wrote(c, kind, number), UNCHANGED heard, ~unsent', ~unsent =>
             (kind = "open" <=> seq[c] = 0)
      PROVE  /\ ~unsent /\ \A d \in Names : InOrder(d)'
             /\ seq'[c] # 0 /\ \A d \in Names \ {c} : seq'[d] = seq[d]
  <2>1. ~unsent /\ seq'[c] \in Nat \ {0} /\ \A d \in Names \ {c} : seq'[d] = seq[d]
    BY <1>b, SeqWritten
  <2>2. \A d \in Names : InOrder(d)
    BY <2>1 DEF Numbered
  <2>3. \A d \in Names : InOrder(d)'
    BY <1>b, <2>1, <2>2, OrderWritten
  <2> QED
    BY <2>1, <2>3
<1> USE DEF Numbered, Counters, Starting, Greeting,
            At, Goto, Fault, FailTo, NoFault, Else, Said,
            main, session, usb, pedal, signals, history
<1>1. CASE UNCHANGED vars
  BY <1>1, <1>0, <1>a DEF vars
<1>2. CASE Begin
  BY <1>2, <1>0, <1>a DEF Begin
<1>3. CASE Find
  BY <1>3, <1>0, <1>a DEF Find
<1>4. CASE Spares
  BY <1>4, <1>0, <1>a DEF Spares
<1>5. CASE GiveBack
  BY <1>5, <1>0, <1>a DEF GiveBack
<1>6. CASE ClaimOnce("claim", "unclaim")
  BY <1>6, <1>0, <1>a DEF ClaimOnce
<1>7. CASE Unclaim
  BY <1>7, <1>0, <1>a DEF Unclaim, Forget
<1>8. CASE ClaimOnce("reclaim", "ends")
  BY <1>8, <1>0, <1>a DEF ClaimOnce
<1>9. CASE Ends
  BY <1>9, <1>0, <1>a DEF Ends
<1>10. CASE Drain("drain", "hello") /\ UNCHANGED at
  BY <1>10, <1>0, <1>a DEF Drain, Parted
<1>11. CASE Hello
  <2>1. PICK c \in Names : c = Channels[at]
    BY <1>0
  <2>2. Wrote(c, "open", 0) /\ UNCHANGED heard
    BY <1>11, <2>1 DEF Hello, Send, Wrote, Here
  <2>3. ~unsent => ("open" = "open" <=> seq[c] = 0)
    BY <1>0, <1>11, <2>1 DEF Hello, Here
  <2>4. ~unsent' => /\ ~unsent /\ \A d \in Names : InOrder(d)'
                    /\ seq'[c] # 0 /\ \A d \in Names \ {c} : seq'[d] = seq[d]
    BY <1>0, <1>b, <2>2, <2>3 DEF Kinds
  <2>5. /\ opened' = opened \cup {c} /\ UNCHANGED at /\ pc = "hello"
        /\ pc' = "greeted" \/ (pc' = "bye" /\ unsent' = TRUE)
    BY <1>11, <2>1 DEF Hello, Send, Here
  <2>6. ASSUME ~unsent' PROVE Counters'
    <3>1. pc' = "greeted" /\ ~unsent
      BY <2>4, <2>5, <2>6
    <3>2. ASSUME NEW i \in 1 .. Len(Channels), i # at
          PROVE  seq'[Channels[i]] = seq[Channels[i]]
      BY <1>0, <2>1, <2>4, <2>6, <3>2
    <3>3. ASSUME NEW i \in 1 .. Len(Channels) PROVE seq[Channels[i]] = 0 <=> i >= at
      BY <2>5, <3>1
    <3>4. ASSUME NEW i \in 1 .. Len(Channels) PROVE seq'[Channels[i]] = 0 <=> i > at
      <4>1. CASE i = at
        BY <1>0, <2>1, <2>4, <2>6, <4>1
      <4>2. CASE i # at
        BY <1>0, <3>2, <3>3, <4>2
      <4> QED
        BY <4>1, <4>2
    <3>5. ASSUME NEW i \in 1 .. Len(Channels), Channels[i] \in opened'
          PROVE  seq'[Channels[i]] # 0
      BY <1>0, <2>1, <2>5, <3>1, <3>4, <3>5
    <3> QED
      BY <2>5, <3>1, <3>4, <3>5
  <2> QED
    BY <2>4, <2>5, <2>6
<1>12. CASE Greeted
  BY <1>12, <1>0, <1>a DEF Greeted, Pause
<1>13. CASE Service
  <2>1. PICK c \in Names : c = Channels[at]
    BY <1>0
  <2>2. Wrote(c, "service", 0) /\ UNCHANGED heard
    BY <1>13, <2>1 DEF Service, Send, Wrote, Here
  <2>3. ~unsent => ("service" = "open" <=> seq[c] = 0)
    BY <1>0, <1>13, <2>1 DEF Service, Here
  <2>4. ~unsent' => /\ ~unsent /\ \A d \in Names : InOrder(d)'
                    /\ seq'[c] # 0 /\ \A d \in Names \ {c} : seq'[d] = seq[d]
    BY <1>0, <1>b, <2>2, <2>3 DEF Kinds
  <2> QED
    BY <1>0, <1>13, <2>1, <2>4 DEF Service, Send, Here
<1>14. CASE Accepted
  BY <1>14, <1>0, <1>a DEF Accepted, Pause
<1>15. CASE Ack
  <2>1. PICK c \in Names : c = Channels[at]
    BY <1>0
  <2>2. Wrote(c, "ack", 0) /\ UNCHANGED heard
    BY <1>15, <2>1 DEF Ack, Send, AfterService, Wrote, Here
  <2>3. ~unsent => ("ack" = "open" <=> seq[c] = 0)
    BY <1>0, <1>15, <2>1 DEF Ack, Here
  <2>4. ~unsent' => /\ ~unsent /\ \A d \in Names : InOrder(d)'
                    /\ seq'[c] # 0 /\ \A d \in Names \ {c} : seq'[d] = seq[d]
    BY <1>0, <1>b, <2>2, <2>3 DEF Kinds
  <2> QED
    BY <1>0, <1>15, <2>1, <2>4 DEF Ack, Send, AfterService, Here
<1>16. CASE Leave
  <2>1. PICK c \in Names : c = Channels[at]
    BY <1>0
  <2>2. Wrote(c, "close", 0) /\ UNCHANGED heard
    BY <1>16, <2>1 DEF Leave, Send, Wrote, Here
  <2>3. ~unsent => ("close" = "open" <=> seq[c] = 0)
    BY <1>0, <1>16, <2>1 DEF Leave, Here
  <2>4. ~unsent' => /\ ~unsent /\ \A d \in Names : InOrder(d)'
                    /\ seq'[c] # 0 /\ \A d \in Names \ {c} : seq'[d] = seq[d]
    BY <1>0, <1>b, <2>2, <2>3 DEF Kinds
  <2> QED
    BY <1>0, <1>16, <2>1, <2>4 DEF Leave, Send, Here
<1>17. CASE Left
  <2>1. PICK c \in Names : c = Channels[at]
    BY <1>0
  <2>2. /\ UNCHANGED <<inbox, heard, unsent, opened, at>> /\ pc = "left"
        /\ \/ pc' = "hello" /\ seq' = [seq EXCEPT ![c] = 0]
           \/ pc' = "bye" /\ seq' = seq
    BY <1>17, <2>1 DEF Left, Pause, Here
  <2>3. CASE pc' = "bye" /\ seq' = seq
    BY <1>0, <1>a, <2>2, <2>3
  <2>4. CASE pc' = "hello" /\ seq' = [seq EXCEPT ![c] = 0]
    <3>1. seq'[c] = 0 /\ \A d \in Names \ {c} : seq'[d] = seq[d]
      BY <2>4 DEF Wire
    <3>2. ASSUME NEW d \in Names, InOrder(d) PROVE InOrder(d)'
      BY <2>2, <3>1, <3>2 DEF InOrder, Precedes
    <3> QED
      BY <1>0, <2>1, <2>2, <2>4, <3>1, <3>2
  <2> QED
    BY <2>2, <2>3, <2>4
<1>18. CASE List
  <2>1. PICK c \in Names : c = Control
    BY <1>0
  <2>2. Wrote(c, "list", txn + 1) /\ UNCHANGED heard
    BY <1>18, <2>1 DEF List, Request, Send, Wrote
  <2>3. ~unsent => ("list" = "open" <=> seq[c] = 0)
    BY <1>0, <1>18, <2>1 DEF List, Request, Control
  <2>4. ~unsent' => /\ ~unsent /\ \A d \in Names : InOrder(d)'
                    /\ seq'[c] # 0 /\ \A d \in Names \ {c} : seq'[d] = seq[d]
    BY <1>0, <1>b, <2>2, <2>3 DEF Kinds
  <2> QED
    BY <1>0, <1>18, <2>1, <2>4 DEF List, Request, Send
<1>19. CASE Listed
  BY <1>19, <1>0, <1>a DEF Listed, Await
<1>20. CASE Select
  <2>1. PICK c \in Names : c = Data
    BY <1>0
  <2>2. Wrote(c, "select", txn + 1) /\ UNCHANGED heard
    BY <1>20, <2>1 DEF Select, Request, Send, Wrote
  <2>3. ~unsent => ("select" = "open" <=> seq[c] = 0)
    BY <1>0, <1>20, <2>1 DEF Select, Request, Data
  <2>4. ~unsent' => /\ ~unsent /\ \A d \in Names : InOrder(d)'
                    /\ seq'[c] # 0 /\ \A d \in Names \ {c} : seq'[d] = seq[d]
    BY <1>0, <1>b, <2>2, <2>3 DEF Kinds
  <2> QED
    BY <1>0, <1>20, <2>1, <2>4 DEF Select, Request, Send
<1>21. CASE Selected
  BY <1>21, <1>0, <1>a DEF Selected, Await
<1>22. CASE AskLoaded
  <2>1. PICK c \in Names : c = Data
    BY <1>0
  <2>2. Wrote(c, "loaded", txn + 1) /\ UNCHANGED heard
    BY <1>22, <2>1 DEF AskLoaded, Request, Send, Wrote
  <2>3. ~unsent => ("loaded" = "open" <=> seq[c] = 0)
    BY <1>0, <1>22, <2>1 DEF AskLoaded, Request, Data
  <2>4. ~unsent' => /\ ~unsent /\ \A d \in Names : InOrder(d)'
                    /\ seq'[c] # 0 /\ \A d \in Names \ {c} : seq'[d] = seq[d]
    BY <1>0, <1>b, <2>2, <2>3 DEF Kinds
  <2> QED
    BY <1>0, <1>22, <2>1, <2>4 DEF AskLoaded, Request, Send
<1>23. CASE Loaded
  BY <1>23, <1>0, <1>a DEF Loaded, Await
<1>24. CASE Deadline
  BY <1>24, <1>0, <1>a DEF Deadline, Await
<1>25. CASE Drain("bye", "byeAck") /\ at' = 1
  BY <1>25, <1>0, <1>a DEF Drain
<1>26. CASE FarewellFrame("byeAck", "ack", "byeHello")
  <2>0. UNCHANGED <<opened, heard>> /\ pc = "byeAck"
    BY <1>26 DEF FarewellFrame, Send
  <2>1. PICK c \in Names : c = Channels[at]
    BY <1>0
  <2>2. CASE c \in opened
    <3>1. Wrote(c, "ack", 0)
      BY <1>26, <2>1, <2>2 DEF FarewellFrame, Send, Wrote, Here
    <3>2. ~unsent => seq[c] # 0
      BY <1>0, <2>0, <2>1, <2>2
    <3>3. ~unsent' => /\ ~unsent /\ \A d \in Names : InOrder(d)'
                      /\ seq'[c] # 0 /\ \A d \in Names \ {c} : seq'[d] = seq[d]
      BY <1>0, <1>b, <2>0, <3>1, <3>2 DEF Kinds
    <3> QED
      BY <1>0, <1>26, <2>0, <2>1, <3>3 DEF FarewellFrame, Send
  <2>3. CASE c \notin opened
    <3>1. UNCHANGED <<inbox, seq, unsent>>
      BY <1>26, <2>1, <2>3 DEF FarewellFrame, Here
    <3> QED
      BY <1>0, <1>a, <1>26, <2>0, <3>1 DEF FarewellFrame, Send
  <2> QED
    BY <2>2, <2>3
<1>27. CASE FarewellFrame("byeHello", "close", "byeQuiet")
  <2>0. UNCHANGED <<opened, heard>> /\ pc = "byeHello"
    BY <1>27 DEF FarewellFrame, Send
  <2>1. PICK c \in Names : c = Channels[at]
    BY <1>0
  <2>2. CASE c \in opened
    <3>1. Wrote(c, "close", 0)
      BY <1>27, <2>1, <2>2 DEF FarewellFrame, Send, Wrote, Here
    <3>2. ~unsent => seq[c] # 0
      BY <1>0, <2>0, <2>1, <2>2
    <3>3. ~unsent' => /\ ~unsent /\ \A d \in Names : InOrder(d)'
                      /\ seq'[c] # 0 /\ \A d \in Names \ {c} : seq'[d] = seq[d]
      BY <1>0, <1>b, <2>0, <3>1, <3>2 DEF Kinds
    <3> QED
      BY <1>0, <1>27, <2>0, <2>1, <3>3 DEF FarewellFrame, Send
  <2>3. CASE c \notin opened
    <3>1. UNCHANGED <<inbox, seq, unsent>>
      BY <1>27, <2>1, <2>3 DEF FarewellFrame, Here
    <3> QED
      BY <1>0, <1>a, <1>27, <2>0, <3>1 DEF FarewellFrame, Send
  <2> QED
    BY <2>2, <2>3
<1>28. CASE Drain("byeQuiet", "release") /\ UNCHANGED at
  BY <1>28, <1>0, <1>a DEF Drain
<1>29. CASE Release
  BY <1>29, <1>0, <1>a DEF Release, Forget
<1>30. CASE CloseDevice
  BY <1>30, <1>0, <1>a DEF CloseDevice
<1>31. CASE CloseBus
  BY <1>31, <1>0, <1>a DEF CloseBus
<1>32. CASE StopWatching
  BY <1>32, <1>0, <1>a DEF StopWatching
<1>33. CASE End
  BY <1>33, <1>0, <1>a DEF End
<1>34. CASE Interrupt
  BY <1>34, <1>0, <1>a DEF Interrupt
<1>35. CASE Press
  BY <1>35, <1>0, <1>a DEF Press
<1>36. CASE BusFails
  BY <1>36, <1>0, <1>a DEF BusFails
<1>37. CASE Take
  <2>1. UNCHANGED <<pc, at, opened, unsent, seq>>
    BY <1>37 DEF Take
  <2>2. (\A c \in Names : InOrder(c)) => \A c \in Names : InOrder(c)'
    BY <1>37, OrderTaken
  <2> QED
    BY <2>1, <2>2
<1>38. CASE FinishLast
  BY <1>38, <1>0, <1>a DEF FinishLast
<1>39. CASE FinishSwitch
  BY <1>39, <1>0, <1>a DEF FinishSwitch
<1>40. ASSUME NEW c \in Names, FinishClose(c) PROVE Numbered'
  BY <1>40, <1>0, <1>a DEF FinishClose
<1> QED
  BY <1>1, <1>2, <1>3, <1>4, <1>5, <1>6, <1>7, <1>8, <1>9, <1>10, <1>11,
     <1>12, <1>13, <1>14, <1>15, <1>16, <1>17, <1>18, <1>19, <1>20, <1>21,
     <1>22, <1>23, <1>24, <1>25, <1>26, <1>27, <1>28, <1>29, <1>30, <1>31,
     <1>32, <1>33, <1>34, <1>35, <1>36, <1>37, <1>38, <1>39, <1>40
     DEF Next, Main, Opening, Claim, Handshake, Selecting, Close, Pedal

-----------------------------------------------------------------------------
\* Only acknowledgements on a wire q.
Acks(q) == \A i \in DOMAIN q : q[i].kind = "ack"

\* The last frame on q is the one main is waiting on, behind acknowledgements.
Owes(q, kind, c) ==
  q # <<>> => /\ q[Len(q)].kind = kind /\ q[Len(q)].chan = c
              /\ \A i \in 1 .. (Len(q) - 1) : q[i].kind = "ack"

\* An opening on the wire is of a channel the pedal has closed, and will still
\* have closed when it takes it: only acknowledgements come before.
Opens ==
  \A i \in DOMAIN inbox : inbox[i].kind = "open" =>
    /\ link[inbox[i].chan] = "closed"
    /\ \A j \in 1 .. (i - 1) : inbox[j].kind = "ack"

\* What may be on the wire at each place of the handshake; a transfer that came
\* during a pause came because the pedal had taken all of it.
Ready ==
  /\ pc \in {"service", "ack"} => inbox = <<>>
  /\ pc \in {"hello", "leave"} => Acks(inbox)
  /\ pc = "greeted" => Owes(inbox, "open", Here)
  /\ pc = "accepted" => Owes(inbox, "service", Here)
  /\ pc = "left" => Owes(inbox, "close", Here)
  /\ pc \in Paused /\ came => inbox = <<>>

\* How the pedal's channels may stand at each place of the handshake.
Links ==
  /\ pc \in Greeting \ {"drain"} => \A i \in 1 .. Len(Channels) :
       /\ link[Channels[i]] = "closing" => pc = "left" /\ i = at
       /\ i > at => link[Channels[i]] = "closed"
  /\ pc = "hello" => link[Here] = "closed"
  /\ pc = "left" => /\ inbox = <<>> => link[Here] # "open"
                    /\ link[Here] = "closing" => inbox = <<>>
                    /\ came => link[Here] = "closed"

\* Nothing is on the wire before the handshake and every channel starts closed;
\* from then on, unless the first drain was cut short, openings find theirs
\* closed.
Clean ==
  /\ pc \in Starting \cup {"drain"} => inbox = <<>> /\ at = 1
  /\ pc \in {"reclaim", "ends", "drain"} => \A c \in Names : link[c] = "closed"
  /\ ~cutShort => /\ Opens /\ Ready /\ Links
                  /\ pc \in Greeting \ {"drain"} => ~leftover

\* A frame that was written.
Sent(c, kind, number) ==
  inbox' = Append(inbox, [chan |-> c, kind |-> kind, seq |-> seq[c], txn |-> number])

\* What a frame written does to the openings on the wire.
LEMMA OpensSent ==
  ASSUME Wire, NEW c \in Names, NEW kind \in Kinds, NEW number \in Nat,
         Sent(c, kind, number), UNCHANGED link, Opens,
         kind = "open" => Acks(inbox) /\ link[c] = "closed"
  PROVE  /\ Opens' /\ inbox' # <<>>
         /\ Acks(inbox) => Owes(inbox', kind, c)
         /\ Acks(inbox) /\ kind = "ack" => Acks(inbox')
<1> DEFINE f == [chan |-> c, kind |-> kind, seq |-> seq[c], txn |-> number]
<1>1. f \in Frame /\ f.kind = kind /\ f.chan = c
  BY DEF Wire, Frame
<1>2. inbox \in Seq(Frame) /\ inbox' = Append(inbox, f)
  BY DEF Wire, Sent
<1> HIDE DEF f
<1>3. /\ DOMAIN inbox = 1 .. Len(inbox) /\ Len(inbox) \in Nat
      /\ DOMAIN inbox' = 1 .. (Len(inbox) + 1) /\ Len(inbox') = Len(inbox) + 1
      /\ \A i \in 1 .. Len(inbox) : inbox'[i] = inbox[i]
      /\ inbox'[Len(inbox) + 1] = f
  BY <1>1, <1>2, AfterAppend, AppendProperties
<1>4. Opens'
  BY <1>1, <1>3 DEF Opens, Acks
<1>5. Acks(inbox) => Owes(inbox', kind, c)
  BY <1>1, <1>3 DEF Owes, Acks
<1>6. Acks(inbox) /\ kind = "ack" => Acks(inbox')
  BY <1>1, <1>3 DEF Acks
<1>7. inbox' # <<>>
  BY <1>2, <1>1, AppendProperties
<1> QED
  BY <1>4, <1>5, <1>6, <1>7

\* What taking a frame does to the openings on the wire.
LEMMA OpensTaken ==
  ASSUME Wire, Take
  PROVE  /\ Opens => Opens'
         /\ Acks(inbox) => Acks(inbox') /\ Head(inbox).kind = "ack"
         /\ \A kind \in Kinds, c \in Names : Owes(inbox, kind, c) =>
              \/ Head(inbox).kind = "ack" /\ inbox' # <<>> /\ Owes(inbox', kind, c)
              \/ Head(inbox).kind = kind /\ Head(inbox).chan = c /\ inbox' = <<>>
<1>1. /\ inbox \in Seq(Frame) /\ inbox # <<>> /\ inbox' = Tail(inbox)
      /\ inbox' \in Seq(Frame)
  BY DEF Wire, Take
<1>2. /\ DOMAIN inbox = 1 .. Len(inbox) /\ Len(inbox) \in Nat \ {0}
      /\ DOMAIN inbox' = 1 .. (Len(inbox) - 1) /\ Len(inbox') = Len(inbox) - 1
      /\ \A i \in 1 .. (Len(inbox) - 1) : inbox'[i] = inbox[i + 1]
      /\ Head(inbox) = inbox[1]
  BY <1>1, AfterTail, HeadTailProperties
<1>3. inbox' = <<>> <=> Len(inbox) = 1
  <2>1. \A q \in Seq(Frame) : q = <<>> <=> Len(q) = 0
    BY EmptySeq
  <2> QED
    BY <1>1, <1>2, <2>1
<1>4. ASSUME Opens PROVE Opens'
  <2>1. CASE Head(inbox).kind = "ack"
    <3>1. UNCHANGED link
      BY <2>1 DEF Take, OnService
    <3> QED
      BY <1>2, <1>4, <3>1 DEF Opens
  <2>2. CASE Head(inbox).kind # "ack"
    <3>1. \A i \in 2 .. Len(inbox) : inbox[i].kind # "open"
      BY <1>2, <1>4, <2>2 DEF Opens
    <3> QED
      BY <1>2, <3>1 DEF Opens
  <2> QED
    BY <2>1, <2>2
<1>5. ASSUME Acks(inbox) PROVE Acks(inbox') /\ Head(inbox).kind = "ack"
  BY <1>2, <1>5 DEF Acks
<1>6. ASSUME NEW kind \in Kinds, NEW c \in Names, Owes(inbox, kind, c)
      PROVE  \/ Head(inbox).kind = "ack" /\ inbox' # <<>> /\ Owes(inbox', kind, c)
             \/ Head(inbox).kind = kind /\ Head(inbox).chan = c /\ inbox' = <<>>
  BY <1>1, <1>2, <1>3, <1>6 DEF Owes
<1> QED
  BY <1>4, <1>5, <1>6

\* One step keeps the wire clean.
LEMMA StepClean == Course /\ Wire /\ Clean /\ [Next]_vars => Clean'
<1> SUFFICES ASSUME Course, Wire, Clean, [Next]_vars PROVE Clean'
  OBVIOUS
<1>0. /\ MainTypes /\ at \in 1 .. Len(Channels) /\ txn \in Nat
      /\ Len(Channels) \in Nat \ {0}
      /\ \A i, j \in 1 .. Len(Channels) : Channels[i] = Channels[j] => i = j
      /\ \A i \in 1 .. Len(Channels) : Channels[i] \in Names
      /\ Control \in Names /\ Data \in Names
      /\ \A c \in Names : link[c] \in {"closed", "open", "closing"}
  BY ChannelsNamed, BoundsAssumption DEF Course, MainTypes, Wire
<1>a. ASSUME UNCHANGED <<inbox, link>> PROVE Opens => Opens'
  BY <1>a DEF Opens
<1>b. Acks(<<>>) /\ \A kind \in Kinds, c \in Names : Owes(<<>>, kind, c)
  BY DEF Acks, Owes
<1>c. ASSUME NEW c \in Names, NEW kind \in Kinds \ {"open"}, NEW number \in Nat,
             Sent(c, kind, number) \/ inbox' = inbox, UNCHANGED link
      PROVE  Opens => Opens'
  BY <1>a, <1>c, OpensSent
<1>d. ASSUME pc' \notin Starting \cup Greeting, ~cutShort' => ~cutShort, Opens => Opens'
      PROVE  Clean'
  <2>1. ~cutShort' => Opens'
    BY <1>d DEF Clean
  <2> QED
    BY <1>d, <2>1 DEF Clean, Ready, Links, Starting, Greeting, Paused
<1>e. inbox = <<>> => Opens
  BY DEF Opens
<1>h. txn + 1 \in Nat
  BY <1>0
<1>f. {"open", "service", "ack", "close", "list", "select", "loaded"} = Kinds
  BY DEF Kinds
<1>g. \A i \in DOMAIN inbox : inbox[i].chan \in Names
  <2>1. inbox \in Seq(Frame)
    BY DEF Wire
  <2>2. \A i \in DOMAIN inbox : inbox[i] \in Frame
    BY <2>1
  <2> QED
    BY <2>2 DEF Frame
<1> USE DEF Starting, Greeting, Here,
            At, Goto, Fault, FailTo, NoFault, Else, Said,
            main, session, usb, pedal, signals, history
<1>1. CASE UNCHANGED vars
  BY <1>1, <1>0, <1>a, <1>b DEF vars, Clean, Ready, Links, Paused
<1>2. CASE Begin
  BY <1>2, <1>0, <1>a, <1>b DEF Begin, Clean, Ready, Links, Paused
<1>3. CASE Find
  BY <1>3, <1>0, <1>a, <1>b DEF Find, Clean, Ready, Links, Paused
<1>4. CASE Spares
  BY <1>4, <1>0, <1>a, <1>b DEF Spares, Clean, Ready, Links, Paused
<1>5. CASE GiveBack
  BY <1>5, <1>0, <1>a, <1>b DEF GiveBack, Clean, Ready, Links, Paused
<1>6. CASE ClaimOnce("claim", "unclaim")
  BY <1>6, <1>0, <1>a, <1>b DEF ClaimOnce, Clean, Ready, Links, Paused
<1>7. CASE Unclaim
  <2>1. /\ pc' = "reclaim" /\ inbox' = <<>> /\ UNCHANGED at /\ at = 1
        /\ link' = [c \in Names |-> "closed"]
    BY <1>7 DEF Unclaim, Forget, Clean
  <2>2. Opens'
    BY <2>1 DEF Opens
  <2> QED
    BY <2>1, <2>2 DEF Clean, Ready, Links, Paused
<1>8. CASE ClaimOnce("reclaim", "ends")
  BY <1>8, <1>0, <1>a, <1>b DEF ClaimOnce, Clean, Ready, Links, Paused
<1>9. CASE Ends
  BY <1>9, <1>0, <1>a, <1>b DEF Ends, Clean, Ready, Links, Paused
<1>10. CASE Drain("drain", "hello") /\ UNCHANGED at
  <2>1. /\ pc = "drain" /\ pc' \in {"hello", "bye"} /\ UNCHANGED <<inbox, link, leftover, at>>
        /\ cutShort' = (cutShort \/ ~Quiet)
    BY <1>10 DEF Drain
  <2>2. inbox = <<>> /\ at = 1 /\ \A c \in Names : link[c] = "closed"
    BY <2>1 DEF Clean
  <2>3. ~cutShort' => ~cutShort /\ ~leftover
    BY <2>1, Zenon DEF Quiet
  <2>4. Opens'
    BY <1>a, <1>e, <2>1, <2>2
  <2> QED
    BY <1>0, <1>b, <2>1, <2>2, <2>3, <2>4 DEF Clean, Ready, Links, Paused
<1>11. CASE Hello
  <2>1. PICK c \in Names : c = Channels[at]
    BY <1>0
  <2>2. /\ pc = "hello" /\ UNCHANGED <<link, cutShort, leftover, at>> /\ came' = FALSE
        /\ \/ pc' = "greeted" /\ Sent(c, "open", 0)
           \/ pc' = "bye" /\ inbox' = inbox
    BY <1>11, <2>1 DEF Hello, Send, Sent
  <2>3. CASE pc' = "bye" /\ inbox' = inbox
    BY <1>a, <1>d, <2>2, <2>3
  <2>4. CASE pc' = "greeted" /\ Sent(c, "open", 0)
    <3>1. ASSUME ~cutShort PROVE Opens' /\ Owes(inbox', "open", c)
      <4>1. Opens /\ Acks(inbox) /\ link[c] = "closed"
        BY <2>1, <2>2, <3>1 DEF Clean, Ready, Links
      <4> QED
        BY <1>f, <2>2, <2>4, <4>1, OpensSent
    <3> QED
      BY <1>0, <2>1, <2>2, <2>4, <3>1 DEF Clean, Ready, Links, Paused
  <2> QED
    BY <2>2, <2>3, <2>4
<1>12. CASE Greeted
  <2>1. UNCHANGED <<inbox, link, cutShort, leftover, at>> /\ came' = FALSE
    BY <1>12 DEF Greeted, Pause
  <2>2. pc = "greeted" /\ pc' \in {"bye", "service"}
    BY <1>12 DEF Greeted, Pause
  <2>3. ASSUME ~cutShort, pc' = "service" PROVE inbox = <<>>
    <3>1. came \/ Quiet
      BY ONLY <1>12, <2>3 DEF Greeted, Pause, FailTo, Goto
    <3> QED
      BY <2>2, <2>3, <3>1 DEF Clean, Ready, Paused, Quiet
  <2> QED
    BY <1>0, <1>a, <1>b, <2>1, <2>2, <2>3 DEF Clean, Ready, Links, Paused
<1>13. CASE Service
  <2>1. PICK c \in Names : c = Channels[at]
    BY <1>0
  <2>2. /\ pc = "service" /\ UNCHANGED <<link, cutShort, leftover, at>> /\ came' = FALSE
        /\ \/ pc' = "accepted" /\ Sent(c, "service", 0)
           \/ pc' = "bye" /\ inbox' = inbox
    BY <1>13, <2>1 DEF Service, Send, Sent
  <2>3. CASE pc' = "bye" /\ inbox' = inbox
    BY <1>a, <1>d, <2>2, <2>3
  <2>4. CASE pc' = "accepted" /\ Sent(c, "service", 0)
    <3>1. ASSUME ~cutShort PROVE Opens' /\ Owes(inbox', "service", c)
      <4>1. Opens /\ Acks(inbox)
        BY <1>b, <2>2, <3>1 DEF Clean, Ready
      <4> QED
        BY <1>f, <2>2, <2>4, <4>1, OpensSent
    <3> QED
      BY <1>0, <2>1, <2>2, <2>4, <3>1 DEF Clean, Ready, Links, Paused
  <2> QED
    BY <2>2, <2>3, <2>4
<1>14. CASE Accepted
  <2>1. UNCHANGED <<inbox, link, cutShort, leftover, at>> /\ came' = FALSE
    BY <1>14 DEF Accepted, Pause
  <2>2. pc = "accepted" /\ pc' \in {"bye", "ack"}
    BY <1>14 DEF Accepted, Pause
  <2>3. ASSUME ~cutShort, pc' = "ack" PROVE inbox = <<>>
    <3>1. came \/ Quiet
      BY ONLY <1>14, <2>3 DEF Accepted, Pause, FailTo, Goto
    <3> QED
      BY <2>2, <2>3, <3>1 DEF Clean, Ready, Paused, Quiet
  <2> QED
    BY <1>0, <1>a, <1>b, <2>1, <2>2, <2>3 DEF Clean, Ready, Links, Paused
<1>15. CASE Ack
  <2>1. PICK c \in Names : c = Channels[at]
    BY <1>0
  <2>2. /\ pc = "ack" /\ UNCHANGED <<link, cutShort, leftover>>
        /\ \/ pc' \in {"leave", "hello", "list"} /\ Sent(c, "ack", 0)
           \/ pc' = "bye" /\ inbox' = inbox
        /\ pc' = "leave" => at' = at
        /\ pc' = "hello" => at' = at + 1 /\ at < Len(Channels)
    BY <1>15, <2>1 DEF Ack, AfterService, Send, Sent
  <2>3. CASE pc' \notin {"leave", "hello"}
    BY <1>c, <1>d, <1>f, <2>2, <2>3
  <2>4. CASE pc' \in {"leave", "hello"}
    <3>1. ASSUME ~cutShort PROVE Opens' /\ Acks(inbox')
      <4>1. Opens /\ Acks(inbox)
        BY <1>b, <2>2, <3>1 DEF Clean, Ready
      <4> QED
        BY <1>f, <2>2, <2>4, <4>1, OpensSent
    <3>2. at' \in 1 .. Len(Channels) /\ at' >= at
      BY <1>0, <2>2, <2>4
    <3> QED
      BY <1>0, <2>1, <2>2, <2>4, <3>1, <3>2 DEF Clean, Ready, Links, Paused
  <2> QED
    BY <2>3, <2>4
<1>16. CASE Leave
  <2>1. PICK c \in Names : c = Channels[at]
    BY <1>0
  <2>2. /\ pc = "leave" /\ UNCHANGED <<link, cutShort, leftover, at>> /\ came' = FALSE
        /\ \/ pc' = "left" /\ Sent(c, "close", 0)
           \/ pc' = "bye" /\ inbox' = inbox
    BY <1>16, <2>1 DEF Leave, Send, Sent
  <2>3. CASE pc' = "bye" /\ inbox' = inbox
    BY <1>a, <1>d, <2>2, <2>3
  <2>4. CASE pc' = "left" /\ Sent(c, "close", 0)
    <3>1. ASSUME ~cutShort PROVE Opens' /\ Owes(inbox', "close", c) /\ inbox' # <<>>
      <4>1. Opens /\ Acks(inbox)
        BY <2>2, <3>1 DEF Clean, Ready
      <4> QED
        BY <1>f, <2>2, <2>4, <4>1, OpensSent
    <3> QED
      BY <1>0, <2>1, <2>2, <2>4, <3>1 DEF Clean, Ready, Links, Paused
  <2> QED
    BY <2>2, <2>3, <2>4
<1>17. CASE Left
  <2>1. UNCHANGED <<inbox, link, cutShort, leftover, at>> /\ came' = FALSE
    BY <1>17 DEF Left, Pause
  <2>2. pc = "left" /\ pc' \in {"bye", "hello"}
    BY <1>17 DEF Left, Pause
  <2>3. CASE pc' = "bye"
    BY <1>a, <1>d, <2>1, <2>3
  <2>4. ASSUME pc' = "hello", ~cutShort PROVE inbox = <<>> /\ link[Here] = "closed"
    <3>1. came \/ Quiet
      BY ONLY <1>17, <2>4 DEF Left, Pause, FailTo, Goto
    <3> QED
      BY <1>0, <2>2, <2>4, <3>1 DEF Clean, Ready, Links, Paused, Quiet
  <2> QED
    BY <1>0, <1>a, <1>b, <2>1, <2>2, <2>3, <2>4 DEF Clean, Ready, Links, Paused
<1>18. CASE List
  <2>1. UNCHANGED <<link, cutShort>> /\ (Sent(Control, "list", txn + 1) \/ inbox' = inbox)
    BY <1>18 DEF List, Request, Send, Sent
  <2>2. pc' \notin Starting \cup Greeting
    BY <1>18 DEF List, Request, Send
  <2>3. Opens => Opens'
    BY <1>0, <1>c, <1>f, <1>h, <2>1
  <2> QED
    BY <1>d, <2>1, <2>2, <2>3
<1>19. CASE Listed
  BY <1>19, <1>a, <1>d DEF Listed, Await
<1>20. CASE Select
  <2>1. UNCHANGED <<link, cutShort>> /\ (Sent(Data, "select", txn + 1) \/ inbox' = inbox)
    BY <1>20 DEF Select, Request, Send, Sent
  <2>2. pc' \notin Starting \cup Greeting
    BY <1>20 DEF Select, Request, Send
  <2>3. Opens => Opens'
    BY <1>0, <1>c, <1>f, <1>h, <2>1
  <2> QED
    BY <1>d, <2>1, <2>2, <2>3
<1>21. CASE Selected
  BY <1>21, <1>a, <1>d DEF Selected, Await
<1>22. CASE AskLoaded
  <2>1. UNCHANGED <<link, cutShort>> /\ (Sent(Data, "loaded", txn + 1) \/ inbox' = inbox)
    BY <1>22 DEF AskLoaded, Request, Send, Sent
  <2>2. pc' \notin Starting \cup Greeting
    BY <1>22 DEF AskLoaded, Request, Send
  <2>3. Opens => Opens'
    BY <1>0, <1>c, <1>f, <1>h, <2>1
  <2> QED
    BY <1>d, <2>1, <2>2, <2>3
<1>23. CASE Loaded
  BY <1>23, <1>a, <1>d DEF Loaded, Await
<1>24. CASE Deadline
  BY <1>24, <1>a, <1>d DEF Deadline, Await
<1>25. CASE Drain("bye", "byeAck") /\ at' = 1
  BY <1>25, <1>a, <1>d DEF Drain
<1>26. CASE FarewellFrame("byeAck", "ack", "byeHello")
  <2>1. UNCHANGED <<link, cutShort>> /\ (Sent(Here, "ack", 0) \/ inbox' = inbox)
    BY <1>26 DEF FarewellFrame, Send, Sent
  <2>2. pc' \notin Starting \cup Greeting
    BY <1>26 DEF FarewellFrame, Send
  <2>3. Opens => Opens'
    BY <1>0, <1>c, <1>f, <2>1
  <2> QED
    BY <1>d, <2>1, <2>2, <2>3
<1>27. CASE FarewellFrame("byeHello", "close", "byeQuiet")
  <2>1. UNCHANGED <<link, cutShort>> /\ (Sent(Here, "close", 0) \/ inbox' = inbox)
    BY <1>27 DEF FarewellFrame, Send, Sent
  <2>2. pc' \notin Starting \cup Greeting
    BY <1>27 DEF FarewellFrame, Send
  <2>3. Opens => Opens'
    BY <1>0, <1>c, <1>f, <2>1
  <2> QED
    BY <1>d, <2>1, <2>2, <2>3
<1>28. CASE Drain("byeQuiet", "release") /\ UNCHANGED at
  BY <1>28, <1>a, <1>d DEF Drain
<1>29. CASE Release
  <2>1. /\ UNCHANGED <<inbox, cutShort>> /\ pc' = "closeDevice"
        /\ link' = [c \in Names |-> "closed"]
    BY <1>29 DEF Release, Forget
  <2>2. Opens => Opens'
    BY <1>g, <2>1 DEF Opens
  <2> QED
    BY <1>d, <2>1, <2>2
<1>30. CASE CloseDevice
  BY <1>30, <1>a, <1>d DEF CloseDevice
<1>31. CASE CloseBus
  BY <1>31, <1>a, <1>d DEF CloseBus
<1>32. CASE StopWatching
  BY <1>32, <1>a, <1>d DEF StopWatching
<1>33. CASE End
  BY <1>33, <1>a, <1>d DEF End
<1>34. CASE Interrupt
  BY <1>34, <1>0, <1>a, <1>b DEF Interrupt, Clean, Ready, Links, Paused
<1>35. CASE Press
  BY <1>35, <1>0, <1>a, <1>b DEF Press, Clean, Ready, Links, Paused
<1>36. CASE BusFails
  BY <1>36, <1>0, <1>a, <1>b DEF BusFails, Clean, Ready, Links, Paused
<1>37. CASE Take
  <2>0. PICK f : f = Head(inbox)
    OBVIOUS
  <2>1. /\ UNCHANGED <<pc, at, leftover, cutShort>> /\ inbox # <<>>
        /\ f.chan \in Names /\ f.kind \in Kinds
    BY <1>37, <2>0, HeadOff DEF Take
  <2>2. /\ f.kind \in {"ack", "service"} => UNCHANGED link
        /\ f.kind = "ack" => UNCHANGED came
        /\ f.kind = "open" => link' = [link EXCEPT ![f.chan] = "open"]
        /\ f.kind = "close" =>
             /\ UNCHANGED came
             /\ link' = [link EXCEPT ![f.chan] = IF @ = "open" THEN "closing" ELSE @]
    BY <1>37, <2>0 DEF Take, OnOpen, OnService, OnClose, SaysNothing
  <2>3. /\ Opens => Opens'
        /\ Acks(inbox) => Acks(inbox') /\ f.kind = "ack"
        /\ \A kind \in Kinds, c \in Names : Owes(inbox, kind, c) =>
             \/ f.kind = "ack" /\ inbox' # <<>> /\ Owes(inbox', kind, c)
             \/ f.kind = kind /\ f.chan = c /\ inbox' = <<>>
    BY <1>37, <2>0, OpensTaken
  <2>4. CASE pc \in Starting \cup {"drain"}
    BY <2>1, <2>4 DEF Clean
  <2>5. CASE pc \notin Starting \cup Greeting
    BY <1>d, <2>1, <2>3, <2>5
  <2>6. ASSUME pc \in Greeting \ {"drain"}, ~cutShort PROVE Ready' /\ Links'
    <3>1. PICK c \in Names : c = Channels[at]
      BY <1>0
    <3>2. Ready /\ Links
      BY <2>6 DEF Clean
    <3>3. CASE f.kind = "ack"
      <4>1. ~(pc \in Paused /\ came)
        BY <2>1, <3>2 DEF Ready
      <4>2. ASSUME NEW kind \in {"open", "service", "close"}, Owes(inbox, kind, c)
            PROVE  Owes(inbox', kind, c)
        BY <1>f, <2>3, <3>1, <3>3, <4>2
      <4>3. /\ pc' = "greeted" => Owes(inbox', "open", c)
            /\ pc' = "accepted" => Owes(inbox', "service", c)
            /\ pc' = "left" => Owes(inbox', "close", c)
        BY <2>1, <3>1, <3>2, <4>2 DEF Ready
      <4>4. /\ pc' \in {"service", "ack"} => inbox' = <<>>
            /\ pc' \in {"hello", "leave"} => Acks(inbox')
        BY <2>1, <2>3, <3>2 DEF Ready
      <4>5. ~(pc' \in Paused /\ came')
        BY <2>1, <2>2, <3>3, <4>1
      <4>6. Ready'
        BY <2>1, <3>1, <4>3, <4>4, <4>5 DEF Ready
      <4>7. pc = "left" => inbox' # <<>>
        BY <1>f, <2>3, <3>1, <3>2, <3>3 DEF Ready
      <4> QED
        BY <2>1, <2>2, <3>2, <3>3, <4>6, <4>7 DEF Links, Paused
    <3>4. CASE f.kind # "ack"
      <4>1. /\ pc \in Paused /\ f.chan = c /\ inbox' = <<>>
            /\ f.kind = (CASE pc = "greeted" -> "open" [] pc = "accepted" -> "service"
                           [] pc = "left" -> "close")
        BY <1>f, <2>1, <2>3, <2>6, <3>1, <3>2, <3>4 DEF Ready, Paused
      <4>2. Ready'
        BY <1>b, <1>f, <2>1, <3>1, <4>1 DEF Ready, Paused
      <4>3. Links'
        <5>0. pc = "left" => ~came /\ UNCHANGED came
          BY <2>1, <2>2, <3>2, <4>1 DEF Ready
        <5>1. pc' = pc /\ at' = at /\ \A d \in Names : d # c => link'[d] = link[d]
          BY <2>1, <2>2, <3>1, <4>1 DEF Wire, Paused
        <5>2. CASE pc = "greeted"
          <6>1. link'[c] = "open"
            BY <2>2, <3>1, <4>1, <5>2 DEF Wire
          <6> QED
            BY <1>0, <3>1, <3>2, <5>1, <5>2, <6>1 DEF Links
        <5>3. CASE pc = "accepted"
          <6>1. UNCHANGED link
            BY <2>2, <4>1, <5>3
          <6> QED
            BY <3>1, <3>2, <5>1, <5>3, <6>1 DEF Links
        <5>4. CASE pc = "left"
          <6>1. link'[c] # "open"
            BY <1>0, <2>2, <3>1, <4>1, <5>4 DEF Wire
          <6> QED
            BY <1>0, <3>1, <3>2, <4>1, <5>0, <5>1, <5>4, <6>1 DEF Links
        <5> QED
          BY <4>1, <5>2, <5>3, <5>4 DEF Paused
      <4> QED
        BY <4>2, <4>3
    <3> QED
      BY <3>3, <3>4
  <2>7. CASE pc \in Greeting \ {"drain"}
    BY <2>1, <2>3, <2>6, <2>7 DEF Clean
  <2> QED
    BY <2>4, <2>5, <2>7
<1>38. CASE FinishLast
  BY <1>38, <1>0, <1>a, <1>b DEF FinishLast, Clean, Ready, Links, Paused
<1>39. CASE FinishSwitch
  BY <1>39, <1>0, <1>a, <1>b DEF FinishSwitch, Clean, Ready, Links, Paused
<1>40. ASSUME NEW c \in Names, FinishClose(c) PROVE Clean'
  <2>1. /\ UNCHANGED <<pc, at, inbox, leftover, cutShort>> /\ link[c] = "closing"
        /\ link' = [link EXCEPT ![c] = "closed"]
    BY <1>40 DEF FinishClose
  <2>2. \A d \in Names : link'[d] = (IF d = c THEN "closed" ELSE link[d])
    BY <2>1 DEF Wire
  <2>3. Opens => Opens'
    BY <1>g, <2>1, <2>2 DEF Opens
  <2>4. came' = came \/ came' = (pc \in Paused /\ ~dead)
    BY <1>40 DEF FinishClose
  <2>5. CASE pc \in Greeting \ {"drain"}
    <3>1. PICK i \in 1 .. Len(Channels) : c = Channels[i]
      BY DEF Names
    <3>2. ~cutShort => pc = "left" /\ c = Channels[at] /\ inbox = <<>>
      BY <2>1, <2>5, <3>1 DEF Clean, Links
    <3> QED
      BY <1>0, <2>1, <2>2, <2>3, <2>5, <3>2 DEF Clean, Ready, Links, Paused
  <2>6. CASE pc \notin Greeting \ {"drain"}
    BY <2>1, <2>2, <2>3, <2>6 DEF Clean, Ready, Links, Paused
  <2> QED
    BY <2>5, <2>6
<1> QED
  BY <1>1, <1>2, <1>3, <1>4, <1>5, <1>6, <1>7, <1>8, <1>9, <1>10, <1>11,
     <1>12, <1>13, <1>14, <1>15, <1>16, <1>17, <1>18, <1>19, <1>20, <1>21,
     <1>22, <1>23, <1>24, <1>25, <1>26, <1>27, <1>28, <1>29, <1>30, <1>31,
     <1>32, <1>33, <1>34, <1>35, <1>36, <1>37, <1>38, <1>39, <1>40
     DEF Next, Main, Opening, Claim, Handshake, Selecting, Close, Pedal

-----------------------------------------------------------------------------
\* The inductive invariant.
IInv == Course /\ Wire /\ Flags /\ Ranges /\ Landing /\ Parted /\ Numbered /\ Clean

\* It holds before main has begun.
LEMMA Initially == Init => IInv
<1> SUFFICES ASSUME Init PROVE IInv
  OBVIOUS
<1>0. /\ Len(Channels) \in Nat \ {0} /\ Names # {}
      /\ \A i \in 1 .. Len(Channels) : Channels[i] \in Names
  BY ChannelsNamed, BoundsAssumption DEF Names
<1>1. Course
  BY BoundsAssumption DEF Init, Course, MainTypes, Taken, Watched, Counted, Places,
                          Starting, Greeting, Unselected, Unclaimed
<1>2. Wire
  BY DEF Init, Wire
<1>3. Flags
  BY DEF Init, Flags
<1>4. Ranges
  BY BoundsAssumption DEF Init, Ranges, NoAnswer, Target, Other, SignalRoom
<1>5. Landing
  BY DEF Init, Landing, OneSelect, NoSelect, Ahead, Target, Other, NoAnswer
<1>6. Parted
  BY DEF Init, Parted, Told
<1>7. Numbered
  <2>1. ASSUME NEW c \in Names PROVE InOrder(c)
    BY DEF Init, InOrder, Precedes, Expected
  <2>2. Counters
    BY <1>0 DEF Init, Counters, Starting, Greeting
  <2> QED
    BY <2>1, <2>2 DEF Init, Numbered
<1>8. Clean
  BY DEF Init, Clean, Opens, Ready, Links, Starting, Greeting, Paused
<1> QED
  BY <1>1, <1>2, <1>3, <1>4, <1>5, <1>6, <1>7, <1>8 DEF IInv

\* One step keeps it.
LEMMA Stepwise == IInv /\ [Next]_vars => IInv'
BY StepCourse, StepWire, StepFlags, StepRanges, StepLanding, StepParted, StepNumbered,
   StepClean DEF IInv

\* The inductive invariant holds throughout: whatever fails, whatever is pressed
\* and whenever the pedal answers.
THEOREM Invariant == Spec => []IInv
BY Initially, Stepwise, PTL DEF Spec

\* Every variable of the command and of the pedal has its type.
THEOREM TypeCorrect == Spec => []TypeOK
<1>1. IInv => TypeOK
  <2> SUFFICES ASSUME IInv PROVE TypeOK
    OBVIOUS
  <2>1. MainTypes /\ Wire /\ Flags /\ Ranges
    BY DEF IInv, Course
  <2> QED
    BY <2>1 DEF TypeOK, MainTypes, Wire, Flags, Ranges
<1> QED
  BY <1>1, Invariant, PTL

\* A command that returned answered every interrupt pressed while it watched for
\* them: from Watched, for the room for three signals is only ever full once
\* three have been pressed, and the third ends the process.
THEOREM AllAnsweredHolds == Spec => []AllAnswered
<1>1. IInv => AllAnswered
  BY DEF IInv, Course, MainTypes, Watched, AllAnswered
<1> QED
  BY <1>1, Invariant, PTL

\* A select that reports success is playing what it selected, with no switch left
\* for the farewell to cut short: from Landing.
THEOREM SelectedIsPlayingHolds == Spec => []SelectedIsPlaying
<1>1. IInv => SelectedIsPlaying
  BY DEF IInv, Landing, SelectedIsPlaying
<1> QED
  BY <1>1, Invariant, PTL

\* However the command ends, short of a third interrupt, the interface, the device
\* and the bus are given back, and once the pedal has read what it was sent it
\* believes no editor is on a channel this session opened: Taken and Parted.
THEOREM LetGoHolds == Spec => []LetGo
<1>1. IInv => LetGo
  <2> SUFFICES ASSUME IInv, ended \in {"returned", "killed"} PROVE
        /\ ~interface /\ devices = 0 /\ ~bus
        /\ inbox = <<>> /\ ~unsent => opened \cap attached = {}
    BY DEF LetGo
  <2>1. pc = "answered"
    BY DEF IInv, Course, Watched
  <2>2. ~interface /\ devices = 0 /\ ~bus
    BY <2>1 DEF IInv, Course, Taken, Unclaimed
  <2>3. ASSUME inbox = <<>>, ~unsent, NEW c \in opened, c \in attached PROVE FALSE
    <3>1. PICK i \in 1 .. Len(Channels) : c = Channels[i]
      BY DEF IInv, Wire, Names
    <3>2. Parting(c)
      BY <2>1, <2>3, <3>1 DEF IInv, Parted, Told
    <3> QED
      BY <2>3, <3>2 DEF Parting, CloseAfter
  <2> QED
    BY <2>2, <2>3
<1> QED
  BY <1>1, Invariant, PTL

\* Every frame the pedal takes off the wire is the one the editor would have sent:
\* an opening finds its channel closed, unless the first drain was cut short, and
\* each frame bears its channel's next number, unless a write failed.
THEOREM SpeaksAsEditorHolds == Spec => []SpeaksAsEditor
<1>1. IInv => SpeaksAsEditor
  <2> SUFFICES ASSUME IInv, inbox # <<>> PROVE SpeaksAsEditor
    BY DEF SpeaksAsEditor, OpensClean, CountsAsEditor
  <2>1. /\ inbox \in Seq(Frame) /\ 1 \in DOMAIN inbox /\ Head(inbox) = inbox[1]
        /\ Head(inbox).chan \in Names /\ heard[Head(inbox).chan] \in Nat
    <3>1. Wire
      BY DEF IInv
    <3> QED
      BY <3>1, HeadOff, AfterTail DEF Wire
  <2>2. OpensClean
    BY <2>1 DEF IInv, Clean, Opens, OpensClean
  <2>3. ASSUME ~unsent
        PROVE  Head(inbox).seq = Expected(heard[Head(inbox).chan], Head(inbox).kind)
    <3>1. InOrder(Head(inbox).chan)
      BY <2>1, <2>3 DEF IInv, Numbered
    <3>2. Precedes(heard[Head(inbox).chan], 1, Head(inbox).chan)
      BY DEF Precedes
    <3> QED
      BY <2>1, <3>1, <3>2 DEF InOrder
  <2>4. CountsAsEditor
    BY <2>1, <2>3 DEF CountsAsEditor, Expected
  <2> QED
    BY <2>2, <2>4 DEF SpeaksAsEditor
<1> QED
  BY <1>1, Invariant, PTL
=============================================================================
