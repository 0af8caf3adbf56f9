------------------------------ MODULE Command ------------------------------
(***************************************************************************)
(* `presets select`, from main to the process's end: the device found and  *)
(* claimed, a session opened on it, the preset selected and waited for,    *)
(* the session closed, and beside all of it the interrupts somebody        *)
(* presses.  The pedal is external: it is what the comments in             *)
(* pkg/sdk/internal/device say of it.                                      *)
(*                                                                         *)
(* The idle acknowledgements and the framing of a message are Session's.   *)
(***************************************************************************)
EXTENDS Naturals, Sequences, FiniteSets

CONSTANTS
  Channels,      \* in the order they are opened
  Services,      \* how many services each channel serves
  ClaimAttempts, \* tries at an interface that is busy
  MaxRounds,     \* bound: questions asked before the select's deadline
  MaxPresses,    \* bound: interrupts pressed
  MaxFaults      \* bound: calls that fail and answers that are odd

ASSUME BoundsAssumption ==
  /\ Len(Channels) \in Nat \ {0}
  /\ \A i, j \in 1 .. Len(Channels) : Channels[i] = Channels[j] => i = j
  /\ \A i \in 1 .. Len(Channels) : Services[Channels[i]] \in Nat \ {0}
  /\ ClaimAttempts \in Nat \ {0}
  /\ MaxRounds \in Nat \ {0}
  /\ MaxPresses \in Nat
  /\ MaxFaults \in Nat

VARIABLES
  pc,        \* where main is
  at,        \* the channel it is at, by its place in Channels
  served,    \* services of that channel brought up
  tries,     \* attempts at the claim
  txn,       \* calls made
  rounds,    \* times it asked what is loaded
  result,    \* what the command will report
  opened,    \* channels marked open
  seq,       \* each channel's counter
  came,      \* a transfer came after the mark a pause waits on
  answer,    \* the answer waiting in the buffer
  devices,   \* devices held open
  bus,       \* the USB library's context is open
  interface, \* the editor interface is claimed
  dead,      \* the read loop has ended
  link,      \* pedal: each channel closed, open or closing
  attached,  \* pedal: the channels it believes this editor is on
  heard,     \* pedal: the counter of each channel's last frame
  inbox,     \* pedal: frames it has yet to take
  leftover,  \* pedal: it still has something to say to the last session
  playing,   \* pedal: the slot it plays
  switching, \* pedal: a switch is under way
  wiped,     \* pedal: its edit buffer was wiped
  queued,    \* signals delivered and not yet counted
  pressed,   \* signals sent while main was watching for them
  handled,   \* signals counted
  watching,  \* signals are delivered rather than fatal
  cancelled, \* the command's context has ended
  ended,     \* how the process ended
  faults,    \* history: faults so far
  unsent,    \* history: a frame could not be written
  cutShort   \* history: the first drain stopped before the pedal was quiet

main    == <<pc, at, served, tries, txn, rounds, result>>
session == <<opened, seq, came, answer>>
usb     == <<devices, bus, interface, dead>>
pedal   == <<link, attached, heard, inbox, leftover, playing, switching, wiped>>
signals == <<queued, pressed, handled, watching, cancelled, ended>>
history == <<faults, unsent, cutShort>>
vars == <<main, session, usb, pedal, signals, history>>

Names == {Channels[i] : i \in 1 .. Len(Channels)}
Control == Channels[1]
Data == Channels[Len(Channels)]
Target == "target"
Other == "other"
NoAnswer == [txn |-> 0, says |-> "nothing"]

Init ==
  /\ pc = "begin" /\ at = 1 /\ served = 0 /\ tries = 0
  /\ txn = 0 /\ rounds = 0 /\ result = "none"
  /\ opened = {} /\ seq = [c \in Names |-> 0]
  /\ came = FALSE /\ answer = NoAnswer
  /\ devices = 0 /\ bus = FALSE /\ interface = FALSE /\ dead = FALSE
  \* a session that was never closed left some channels open
  /\ \E was \in {"closed", "open"} : link = [c \in Names |-> was]
  /\ attached = {}
  /\ heard = [c \in Names |-> 0] /\ inbox = <<>>
  /\ leftover \in BOOLEAN
  /\ playing = Other /\ switching = FALSE /\ wiped = FALSE
  /\ queued = 0 /\ pressed = 0 /\ handled = 0
  /\ watching = TRUE /\ cancelled = FALSE /\ ended = "no"
  /\ faults = 0 /\ unsent = FALSE /\ cutShort = FALSE

-----------------------------------------------------------------------------
At(place)  == pc = place /\ ended = "no"
Goto(place) == pc' = place
Fault == faults < MaxFaults /\ faults' = faults + 1
Here  == Channels[at]

\* The command fails, for the first reason it was given, and goes to clean up.
FailTo(place) ==
  /\ Goto(place)
  /\ result' = IF result = "none" THEN "failed" ELSE result

NoFault == UNCHANGED history
Else    == UNCHANGED <<pedal, signals>>

\* pedal.claim, then Client.Open, which looks at the context first.
Begin ==
  /\ At("begin")
  /\ IF cancelled THEN FailTo("return") ELSE Goto("find") /\ UNCHANGED result
  /\ UNCHANGED <<at, served, tries, txn, rounds, session, usb>>
  /\ NoFault /\ Else

\* findDevice lists the devices there are, each one opened by the listing.
Find ==
  /\ At("find")
  /\ bus' = TRUE
  /\ \E n \in 0 .. 2 :
       /\ devices' = n
       /\ \/ /\ IF n = 0 THEN FailTo("closeBus")
                         ELSE Goto("spares") /\ UNCHANGED result
             /\ UNCHANGED faults
          \/ Fault /\ FailTo("giveBack")
  /\ UNCHANGED <<at, served, tries, txn, rounds, session, interface, dead,
                 unsent, cutShort>>
  /\ Else

\* Only the first is used.
Spares ==
  /\ At("spares")
  /\ devices' = 1
  /\ Goto("claim")
  /\ UNCHANGED <<at, served, tries, txn, rounds, result, session, bus,
                 interface, dead>>
  /\ NoFault /\ Else

\* A listing that failed gives back whatever it returned.
GiveBack ==
  /\ At("giveBack")
  /\ devices' = 0
  /\ Goto("closeBus")
  /\ UNCHANGED <<at, served, tries, txn, rounds, result, session, bus,
                 interface, dead>>
  /\ NoFault /\ Else

\* claimOnce: busy is worth waiting on, for a number of tries, whatever the
\* context says.
ClaimOnce(from, next) ==
  /\ At(from)
  /\ \/ /\ interface' = TRUE /\ tries' = 0
        /\ Goto(next)
        /\ UNCHANGED <<result, faults>>
     \/ /\ Fault
        /\ tries' = tries + 1
        /\ IF tries + 1 < ClaimAttempts THEN UNCHANGED <<pc, result>>
                                        ELSE FailTo("closeDevice")
        /\ UNCHANGED interface
  /\ UNCHANGED <<at, served, txn, rounds, session, devices, bus, dead,
                 unsent, cutShort>>
  /\ Else

\* The pedal forgets its channels when its interface is let go.
Forget == link' = [c \in Names |-> "closed"]

\* Claimed, released and claimed again: the release clears the channels.
Unclaim ==
  /\ At("unclaim")
  /\ interface' = FALSE
  /\ Forget
  /\ Goto("reclaim")
  /\ UNCHANGED <<at, served, tries, txn, rounds, result, session, devices,
                 bus, dead, attached, heard, inbox, leftover, playing,
                 switching, wiped, signals>>
  /\ NoFault

\* Mutant: claimed once, as most devices are.
ClaimedOnce == ClaimOnce("claim", "ends")

Claim ==
  \/ ClaimOnce("claim", "unclaim")
  \/ Unclaim
  \/ ClaimOnce("reclaim", "ends")

\* The two endpoints, and then the loop: a read is posted before the pedal is
\* first spoken to.
Ends ==
  /\ At("ends")
  /\ \/ Goto("drain") /\ UNCHANGED <<result, faults>>
     \/ Fault /\ FailTo("release")
  /\ UNCHANGED <<at, served, tries, txn, rounds, session, usb, unsent, cutShort>>
  /\ Else

Opening == Find \/ Spares \/ GiveBack \/ Claim \/ Ends

-----------------------------------------------------------------------------
Quiet == inbox = <<>> /\ ~leftover /\ \A c \in Names : link[c] # "closing"

\* A drain ends when the pedal is quiet, its time is up, or its caller or the
\* bus is gone; whichever it is, what arrived is dropped.
Drain(from, next) ==
  /\ At(from)
  /\ IF dead /\ from = "drain" THEN FailTo("bye") ELSE Goto(next) /\ UNCHANGED result
  /\ answer' = NoAnswer
  /\ cutShort' = (cutShort \/ (from = "drain" /\ ~Quiet))
  /\ UNCHANGED <<served, tries, txn, rounds, opened, seq, came, usb, faults, unsent>>
  /\ Else

\* The counter goes from the opening frame's zero straight to two.
FirstSeq == 2
\* Mutant: the counter goes on from the opening frame as it does from any other.
NextSeqCounting(c, kind) == seq[c] + 1

NextSeq(c, kind) == IF kind = "open" THEN FirstSeq ELSE seq[c] + 1

\* One frame on c, in its turn on the channel's counter; a write may fail.
Send(c, kind, number, next, onFailure) ==
  \/ /\ inbox' = Append(inbox, [chan |-> c, kind |-> kind, seq |-> seq[c], txn |-> number])
     /\ seq' = [seq EXCEPT ![c] = NextSeq(c, kind)]
     /\ Goto(next)
     /\ UNCHANGED <<result, faults, unsent>>
  \/ /\ Fault
     /\ unsent' = TRUE
     /\ FailTo(onFailure)
     /\ UNCHANGED <<inbox, seq>>

Said == UNCHANGED <<link, attached, heard, leftover, playing, switching, wiped,
                    signals, usb, cutShort>>

\* Mutant: a pause has no end of its own.
PauseForAnswer(from, next) ==
  /\ At(from)
  /\ \/ came /\ Goto(next) /\ UNCHANGED result
     \/ ~came /\ (dead \/ cancelled) /\ FailTo("bye")
  /\ came' = FALSE
  /\ UNCHANGED <<at, served, tries, txn, rounds, opened, usb>>
  /\ NoFault /\ Else

\* Mutant: an opening that fails gives everything back without a goodbye.
PauseNoGoodbye(from, next) ==
  /\ At(from)
  /\ \/ (came \/ Quiet) /\ Goto(next) /\ UNCHANGED result
     \/ ~came /\ (dead \/ cancelled) /\ FailTo("release")
  /\ came' = FALSE
  /\ UNCHANGED <<at, served, tries, txn, rounds, opened, usb>>
  /\ NoFault /\ Else

\* A pause ends when anything comes, when its time is up with the pedal silent,
\* or when the bus or the caller has gone.
Pause(from, next) ==
  /\ At(from)
  /\ \/ (came \/ Quiet) /\ Goto(next) /\ UNCHANGED result
     \/ ~came /\ (dead \/ cancelled) /\ FailTo("bye")
  /\ came' = FALSE
  /\ UNCHANGED <<at, served, tries, txn, rounds, opened, usb>>
  /\ NoFault /\ Else

\* openChannel and openService: the opening, a pause, the service, a pause and
\* an acknowledgement.  The channel counts as open before its first frame.
Hello ==
  /\ At("hello")
  /\ opened' = opened \cup {Here}
  /\ came' = FALSE
  /\ Send(Here, "open", 0, "greeted", "bye")
  /\ UNCHANGED <<at, served, tries, txn, rounds, answer>> /\ Said

Greeted == Pause("greeted", "service") /\ UNCHANGED <<seq, answer>>

Service ==
  /\ At("service")
  /\ came' = FALSE
  /\ Send(Here, "service", 0, "accepted", "bye")
  /\ UNCHANGED <<at, served, tries, txn, rounds, opened, answer>> /\ Said

Accepted == Pause("accepted", "ack") /\ UNCHANGED <<seq, answer>>

AfterService ==
  IF served + 1 < Services[Here] THEN "leave"
  ELSE IF at < Len(Channels) THEN "hello" ELSE "list"

Ack ==
  /\ At("ack")
  /\ Send(Here, "ack", 0, AfterService, "bye")
  /\ IF AfterService = "leave" THEN served' = served + 1 /\ UNCHANGED at
     ELSE served' = 0 /\ at' = IF at < Len(Channels) THEN at + 1 ELSE at
  /\ UNCHANGED <<tries, txn, rounds, opened, came, answer>> /\ Said

\* closeChannel: a bare hello, before the channel is opened for the next service.
Leave ==
  /\ At("leave")
  /\ came' = FALSE
  /\ Send(Here, "close", 0, "left", "bye")
  /\ UNCHANGED <<at, served, tries, txn, rounds, opened, answer>> /\ Said

\* The pedal answers the close before a new opening; then reopen starts the
\* counters again.
Left ==
  /\ Pause("left", "hello")
  /\ IF pc' = "hello" THEN seq' = [seq EXCEPT ![Here] = 0] /\ answer' = NoAnswer
                      ELSE UNCHANGED <<seq, answer>>

Handshake ==
  \/ Drain("drain", "hello") /\ UNCHANGED at
  \/ Hello \/ Greeted \/ Service \/ Accepted \/ Ack \/ Leave \/ Left

-----------------------------------------------------------------------------
\* Call sends its request whatever the context says, and waits.
Request(from, c, kind, next) ==
  /\ At(from)
  /\ txn' = txn + 1
  /\ Send(c, kind, txn + 1, next, "bye")
  /\ UNCHANGED <<at, served, tries, opened, came, answer>> /\ Said

Answered(says) == answer.txn = txn /\ answer.says = says

\* awaitReply looks at the context, then at the buffer, then at the bus; its
\* budget may end at any time.
Gone == cancelled \/ (answer.txn # txn /\ dead)
Await(from) ==
  /\ At(from)
  /\ answer' = NoAnswer
  /\ UNCHANGED <<at, served, tries, txn, rounds, opened, seq, came, usb>>
  /\ NoFault /\ Else

\* Select lists the setlist first, for the name it will report.
List == Request("list", Control, "list", "listed") /\ UNCHANGED rounds
Listed ==
  /\ Await("listed")
  /\ \/ ~Gone /\ Answered("list") /\ Goto("select") /\ UNCHANGED result
     \/ FailTo("bye")

\* SelectPreset: a select that is refused, or not answered, has failed.
Select == Request("select", Data, "select", "selected") /\ UNCHANGED rounds
Selected ==
  /\ Await("selected")
  /\ \/ ~Gone /\ Answered("taken") /\ Goto("ask") /\ UNCHANGED result
     \/ FailTo("bye")

\* awaitLoaded asks what is loaded until it is the preset.
AskLoaded ==
  /\ Request("ask", Data, "loaded", "asked")
  /\ rounds' = rounds + 1

\* Mutant: the pedal answered again, so it has finished.
LoadedOnceAnswered ==
  /\ Await("asked")
  /\ \/ ~Gone /\ answer.txn = txn /\ result' = "ok" /\ Goto("bye")
     \/ Gone /\ FailTo("bye")
     \/ ~cancelled /\ answer.txn # txn /\ Goto("deadline") /\ UNCHANGED result

\* A refusal, another preset, no preset and no answer are all waited out; a
\* caller or a bus that has gone is not.
Patience == answer.txn # txn \/ answer.says # Target
Loaded ==
  /\ Await("asked")
  /\ \/ ~Gone /\ Answered(Target) /\ result' = "ok" /\ Goto("bye")
     \/ Gone /\ FailTo("bye")
     \/ ~cancelled /\ Patience /\ Goto("deadline") /\ UNCHANGED result

\* The deadline passes between two questions; MaxRounds only bounds the model.
Deadline ==
  /\ Await("deadline")
  /\ \/ FailTo("bye")
     \/ rounds < MaxRounds /\ Goto("ask") /\ UNCHANGED result

Selecting == List \/ Listed \/ Select \/ Selected \/ AskLoaded \/ Loaded \/ Deadline

-----------------------------------------------------------------------------
\* farewell: quiet, then every opened channel acknowledged and every opened
\* channel told goodbye, in the order they were opened.  A frame that fails
\* stops none of the rest.
FarewellFrame(from, kind, next) ==
  LET onward == IF at < Len(Channels) THEN from ELSE next IN
  /\ At(from)
  /\ at' = IF at < Len(Channels) THEN at + 1 ELSE 1
  /\ IF Here \in opened
     THEN /\ Send(Here, kind, 0, onward, onward)
          /\ UNCHANGED <<link, attached, heard, leftover, playing, switching, wiped>>
     ELSE Goto(onward) /\ UNCHANGED <<result, seq, pedal, faults, unsent>>
  /\ UNCHANGED <<served, tries, txn, rounds, opened, came, answer, usb, signals, cutShort>>

\* Letting the interface go in the middle of a switch leaves it half finished.
Release ==
  /\ At("release")
  /\ interface' = FALSE
  /\ Forget
  /\ wiped' = (wiped \/ switching) /\ switching' = FALSE
  /\ Goto("closeDevice")
  /\ UNCHANGED <<at, served, tries, txn, rounds, result, session, devices, bus,
                 dead, attached, heard, inbox, leftover, playing, signals>>
  /\ NoFault

CloseDevice ==
  /\ At("closeDevice")
  /\ devices' = 0
  /\ Goto("closeBus")
  /\ UNCHANGED <<at, served, tries, txn, rounds, result, session, bus,
                 interface, dead>>
  /\ NoFault /\ Else

CloseBus ==
  /\ At("closeBus")
  /\ bus' = FALSE
  /\ Goto("return")
  /\ UNCHANGED <<at, served, tries, txn, rounds, result, session, devices,
                 interface, dead>>
  /\ NoFault /\ Else

Close ==
  \/ Drain("bye", "byeAck") /\ at' = 1
  \/ FarewellFrame("byeAck", "ack", "byeHello")
  \/ FarewellFrame("byeHello", "close", "byeQuiet")
  \/ Drain("byeQuiet", "release") /\ UNCHANGED at
  \/ Release \/ CloseDevice \/ CloseBus

\* Execute: signals are no longer delivered, and what is in the channel is
\* answered before the process ends.
StopWatching ==
  /\ At("return")
  /\ watching' = FALSE
  /\ Goto("answered")
  /\ UNCHANGED <<at, served, tries, txn, rounds, result, session, usb, pedal,
                 queued, pressed, handled, cancelled, ended>>
  /\ NoFault

End ==
  /\ At("answered")
  /\ queued = 0
  /\ ended' = "returned"
  /\ UNCHANGED <<main, session, usb, pedal, queued, pressed, handled, watching, cancelled>>
  /\ NoFault

Main == Begin \/ Opening \/ Handshake \/ Selecting \/ Close \/ StopWatching \/ End

-----------------------------------------------------------------------------
\* The channel holds three signals; one more is dropped.  Nobody watching, an
\* interrupt ends the process.
\* Mutant: room for the first signal only.
SignalRoomOne == 1

SignalRoom == 3

Press ==
  /\ ended = "no" /\ pressed < MaxPresses
  /\ IF watching
     THEN /\ pressed' = pressed + 1
          /\ queued' = IF queued < SignalRoom THEN queued + 1 ELSE queued
          /\ UNCHANGED ended
     ELSE ended' = "killed" /\ UNCHANGED <<pressed, queued>>
  /\ UNCHANGED <<main, session, usb, pedal, handled, watching, cancelled>>
  /\ NoFault

\* Interrupts: the first stops the command, the third ends the process.
Interrupt ==
  /\ ended = "no" /\ queued > 0
  /\ queued' = queued - 1
  /\ handled' = handled + 1
  /\ cancelled' = (cancelled \/ handled = 0)
  /\ ended' = IF handled >= 2 THEN "exited" ELSE ended
  /\ UNCHANGED <<main, session, usb, pedal, pressed, watching>>
  /\ NoFault

\* The bus fails under the read loop, while there is one.
LoopUp == interface /\ pc \notin {"unclaim", "ends", "release"}
BusFails ==
  /\ ended = "no" /\ LoopUp /\ ~dead
  /\ Fault
  /\ dead' = TRUE
  /\ UNCHANGED <<main, session, devices, bus, interface, unsent, cutShort>>
  /\ Else

-----------------------------------------------------------------------------
\* The pedal.  A transfer reaches the command while something reads.
Paused == {"greeted", "accepted", "left"}
Hears == ~dead /\ came' = (pc \in Paused)
SaysNothing == UNCHANGED <<came, answer>>
Replies(f, says) == Hears /\ answer' = [txn |-> f.txn, says |-> says]
Refuses(f) == Replies(f, "refused")

OnOpen(f) ==
  /\ link' = [link EXCEPT ![f.chan] = "open"]
  /\ attached' = attached \cup {f.chan}
  /\ \/ Hears /\ UNCHANGED answer
     \/ SaysNothing
  /\ UNCHANGED <<switching, wiped>>

OnService(f) ==
  /\ \/ f.kind = "service" /\ Hears /\ UNCHANGED answer
     \/ SaysNothing
  /\ UNCHANGED <<link, attached, switching, wiped>>

\* A session over in the middle of a switch is settled by wiping the edit buffer.
OnClose(f) ==
  /\ link' = [link EXCEPT ![f.chan] = IF @ = "open" THEN "closing" ELSE @]
  /\ attached' = attached \ {f.chan}
  /\ IF f.chan = Data THEN wiped' = (wiped \/ switching) /\ switching' = FALSE
                      ELSE UNCHANGED <<wiped, switching>>
  /\ SaysNothing

\* A select is deferred: taken now and finished later.  Mid-switch the pedal
\* may refuse a question, answer it with no preset, or still name the old one.
OnRequest(f) ==
  /\ \/ f.kind = "list" /\ (Replies(f, "list") \/ Refuses(f)) /\ UNCHANGED switching
     \/ f.kind = "select" /\ switching' = TRUE /\ (Replies(f, "taken") \/ SaysNothing)
     \/ f.kind = "loaded" /\ UNCHANGED switching
         /\ \/ Replies(f, playing)
            \/ switching /\ (Refuses(f) \/ Replies(f, "notAPreset"))
     \/ f.kind = "select" /\ Refuses(f) /\ UNCHANGED switching
     \/ f.kind # "select" /\ SaysNothing /\ UNCHANGED switching
  /\ UNCHANGED <<link, attached, wiped>>

Take ==
  /\ inbox # <<>>
  /\ inbox' = Tail(inbox)
  /\ LET f == Head(inbox) IN
       /\ heard' = [heard EXCEPT ![f.chan] = f.seq]
       /\ CASE f.kind = "open" -> OnOpen(f)
            [] f.kind \in {"service", "ack"} -> OnService(f)
            [] f.kind = "close" -> OnClose(f)
            [] OTHER -> OnRequest(f)
  /\ UNCHANGED <<leftover, playing, opened, seq, usb, main, signals, history>>

\* The close answered, the channel may be opened again.
FinishClose(c) ==
  /\ link[c] = "closing"
  /\ link' = [link EXCEPT ![c] = "closed"]
  /\ came' \in {came, (pc \in Paused /\ ~dead)}
  /\ UNCHANGED <<attached, heard, inbox, leftover, playing, switching, wiped,
                 opened, seq, answer, usb, main, signals, history>>

\* What it still had to tell the last session.
FinishLast ==
  /\ leftover /\ LoopUp /\ ~dead
  /\ leftover' = FALSE
  /\ came' = (came \/ pc \in Paused)
  /\ UNCHANGED <<link, attached, heard, inbox, playing, switching, wiped,
                 opened, seq, answer, usb, main, signals, history>>

FinishSwitch ==
  /\ switching
  /\ switching' = FALSE
  /\ playing' = Target
  /\ UNCHANGED <<link, attached, heard, inbox, leftover, wiped,
                 opened, seq, came, answer, usb, main, signals, history>>

Pedal == Take \/ FinishLast \/ FinishSwitch \/ \E c \in Names : FinishClose(c)

Next == Main \/ Interrupt \/ Press \/ BusFails \/ Pedal

\* Every goroutine runs, and the pedal takes what it is sent and finishes what
\* it started.  Nobody has to press anything, and no bus has to fail.
Fairness == WF_vars(Main) /\ WF_vars(Interrupt) /\ WF_vars(Pedal)

Spec == Init /\ [][Next]_vars /\ Fairness

-----------------------------------------------------------------------------
Places ==
  {"begin", "find", "spares", "giveBack", "claim", "unclaim", "reclaim", "ends",
   "drain", "hello", "greeted", "service", "accepted", "ack", "leave", "left",
   "list", "listed", "select", "selected", "ask", "asked", "deadline",
   "bye", "byeAck", "byeHello", "byeQuiet", "release", "closeDevice", "closeBus",
   "return", "answered"}
Kinds == {"open", "service", "ack", "close", "list", "select", "loaded"}
Frame == [chan : Names, kind : Kinds, seq : Nat, txn : Nat]

\* Every variable has its type.
TypeOK ==
  /\ pc \in Places /\ at \in 1 .. Len(Channels) /\ served \in Nat
  /\ tries \in 0 .. ClaimAttempts /\ txn \in Nat /\ rounds \in 0 .. MaxRounds
  /\ result \in {"none", "ok", "failed"}
  /\ opened \subseteq Names /\ seq \in [Names -> Nat] /\ came \in BOOLEAN
  /\ answer \in [txn : Nat, says : {"nothing", "list", "taken", "refused",
                                   "notAPreset", Target, Other}]
  /\ devices \in 0 .. 2 /\ bus \in BOOLEAN /\ interface \in BOOLEAN /\ dead \in BOOLEAN
  /\ link \in [Names -> {"closed", "open", "closing"}] /\ attached \subseteq Names
  /\ heard \in [Names -> Nat] /\ inbox \in Seq(Frame) /\ leftover \in BOOLEAN
  /\ playing \in {Target, Other} /\ switching \in BOOLEAN /\ wiped \in BOOLEAN
  /\ queued \in 0 .. SignalRoom /\ pressed \in 0 .. MaxPresses
  /\ handled \in 0 .. 3 /\ watching \in BOOLEAN /\ cancelled \in BOOLEAN
  /\ ended \in {"no", "returned", "killed", "exited"}
  /\ faults \in 0 .. MaxFaults /\ unsent \in BOOLEAN /\ cutShort \in BOOLEAN

\* However a command ends, short of its third interrupt, nothing is left taken:
\* the interface, the device and the bus are given back, in whichever step it
\* failed or was stopped, and once the pedal has read what it was sent it
\* believes no editor is on any channel this session opened.
LetGo ==
  ended \in {"returned", "killed"} =>
    /\ ~interface /\ devices = 0 /\ ~bus
    /\ inbox = <<>> /\ ~unsent => opened \cap attached = {}

\* The pedal never finds a channel opened that it still has open or is still
\* closing, whatever the session before left: the second claim, and the close
\* and pause between two services.  Unless the pedal was still talking when the
\* first drain ran out.
OpensClean ==
  inbox # <<>> /\ Head(inbox).kind = "open" /\ ~cutShort =>
    link[Head(inbox).chan] = "closed"

\* Every channel's frames reach the pedal numbered as the editor numbers them:
\* nought for an opening, then two, then one more each, goodbye included.
CountsAsEditor ==
  inbox # <<>> /\ ~unsent =>
    LET f == Head(inbox) IN
      f.seq = CASE f.kind = "open" -> 0
                [] f.kind # "open" /\ heard[f.chan] = 0 -> FirstSeq
                [] OTHER -> heard[f.chan] + 1

\* What the pedal takes off the wire is what the editor would have sent it: an
\* opening of a channel that is closed, and each frame in its number.
SpeaksAsEditor == OpensClean /\ CountsAsEditor

\* A select that reports success has landed, and closing the session does not
\* cut it short, when another slot was playing before.
SelectedIsPlaying ==
  result = "ok" => playing = Target /\ ~switching /\ ~wiped

\* A command that returned has answered every interrupt pressed while it ran:
\* none is dropped, and none is left for a process that is gone.
AllAnswered == ended = "returned" => handled = pressed

\* Whatever the pedal leaves unanswered, the command ends.
AlwaysEnds == <>(ended # "no")
=============================================================================
