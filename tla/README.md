# Tonestack in TLA+

Tonestack builds presets for a guitar processor and talks to one over USB. This
directory models the parts of it where order, concurrency and failure decide
whether it is right, and the transformations between rigs, presets and what the
pedal stores; checks them with TLC, and proves the properties that matter most
with TLAPS. `PROJECT.json` lists every run, mutant, hazard, finding and theorem,
and maps each definition to the lines of Go it stands for.

## The system

| Part | State it keeps | Operations | What makes it hard | What makes it right |
|---|---|---|---|---|
| Device session (`pkg/sdk/internal/device`) | per channel: sequence, transaction, byte counts, receive buffer, last acknowledgement, arrived signal; session: in flight, closing, dead, quiet run | call, slot write, close; read loop; acknowledger | three goroutines, two locks, a pedal that stalls on an acknowledgement at the wrong moment, reads and writes that fail, callers that give up | frames numbered without gaps, buffers cut only between envelopes, chunks paced, idle acknowledgements outside exchanges, every exchange and Close end |
| Discovery, claim, handshake, select (`internal/device`) | devices listed, interface claimed, channels opened, what is playing | find, claim, open, list, select, close | an interface that is busy, a pedal still talking to the last session, an opening not answered, a switch that is judged by polling | what is taken is given back, frames in their numbers, a success is a switch that landed |
| Interrupts (`pkg/cli`, `cmd`) | signals seen, whether the pedal is held | follow, claim, say | signals during an exchange | the command ends, and lets the pedal go first |
| Client and Session (`pkg/sdk/client.go`, `session.go`) | one claim slot, an operation lock per session, a closed flag | open, seven operations, close | any number of goroutines, each free to give up | one claim, one operation at a time, none on a closed device, the claim given back once |
| MCP pedal (`pkg/mcp/internal/tools/pedal.go`, `held.go`) | a lock, the held session, an idle timer, a count of armings, closed, held | tool call, listing, idle close, stop | timers that fire late, bus errors, panics, a stop with calls waiting | no reuse after a failure, no close inside a call, nothing left held |
| Slot operations (`internal/deviceslots`, `backup`) | the pedal's slots; files of what was replaced | copy, swap, import; show, export, list, select | several exchanges each, any of which fails | what is overwritten is kept first; a swap undone or reported |
| Atomic files (`internal/atomicfile`) | directory entries | write, write new | a crash between two system calls; a file that appears meanwhile | old or new, never half; an existing file kept |
| Wire codec (`internal/wire`) | none | frames, envelopes, responses; a preset's sections read, spliced and rebuilt | input cut anywhere, widths that must be kept, offsets that go stale | an answer is the one the call has coming; a splice leaves the rest alone; a preset comes back |
| Editor (`internal/editor`) | none | slot to document, slot to rig, document to slot | two numberings of one chain, values by place and by name | what is exported and imported is the preset it was |
| File setlists (`fileslots`, `setlist`) | a file in memory | copy, swap, import, export, list, show | each edit reads, reports and writes the same slots | slots not named stay as they were, what was lost is named |
| Compiler and presets (`internal/compile`, `presets`, `chain`, `catalog`, `rig`) | none between calls | make, compile, lift, lower | blocks inserted, moved and renumbered after they were named | what names a block names that block at the end; a preset survives the round trip |
| Recipes (`internal/recipes`) | two layers of files | list, show, new, extend | files that no longer read, names two rigs share | what is listed is found, and a new rig takes no other's name |
| Audio, generators, views, rendering | none | - | - | not modelled, see below |

They meet as follows. A command or an MCP tool calls a `Client`; `Client.Open`
takes the claim and opens a device, whose handshake starts the read loop and the
acknowledger. Each `Session` method takes the operation lock and runs a slot
operation, which is a sequence of calls and writes on the device session. What a
slot operation reads or writes goes through the wire codec and the editor, and a
rig on its way to a preset through the compiler. The MCP server puts a `pedal` in
front of the client and keeps one session between tool calls. A signal asks
whether the pedal is held before it lets the process end. Every file is put on
disk by `atomicfile`.

## The modules

Two families. The concurrent parts are state machines of their own, each with its
run: `Session`, `Command`, `ClientSessions` and `PedalHold` (both implement
`Claim`), `SlotOps` and `AtomicFile`. The sequential parts are one tower, each
module extending the one below, checked together in one run:

    Catalogs  which model a name means, what the corpus measured
    Chains    a chain filled, moved by words, laid over processors, checked
    Rigs      what a rig must say to be one
    Documents a preset document; Lift and Lower
      Compile   make, compile, rebuild, stage by stage    Pedals  a slot as stored
                                                          Editors slot, file, rig
      Transfer  both: export, import, show
    Setlists  a file of presets edited
    Library   recipes looked up, listed, copied, scaffolded, built
    Splices   one value written into a section
    Replies   from the bus to the answer of a call

`Claim` is what a pedal is promised, whoever uses it: one holder of the editor
interface at a time, one operation on it at a time, and no letting go inside one.

### Session

One device session from the end of the handshake to the release of the USB
interface, with the pedal at the other end. What it keeps, from the code:

* `seq`, `txn`, `rxBytes`, `ackSent`, `buf`, `arrived` are the fields of
  `channel`; `lastAck` is `lastAck` and `ackSeen` together. `op.moved` is
  `rxAcks` having passed the mark `stream` took, which is all `pace` asks.
* `inflight`, `closing`, `dead`, and `stopped` (the loop's context) are the
  session's; `quiet` is `quietRun`, and `released` that `Close` has let go.
* `op` is the goroutine inside an operation: a call (`request`, `look`,
  `unanswered`, `wait`), a write (`mark`, `chunk`, `pace`, then as a call, then
  `flash`) or Close (`drain`, `ack`, `hello`, `drainAgain`, `stopping`,
  `released`). The SDK's operation lock allows one. `loop` and `ack` are the
  other two goroutines.
* A step under the receive lock alone is one action. The acknowledger holds the
  send lock over two (`AckDecides`, `AckSends`), and whoever sends waits for it.
  `awaitReply`'s look, its test of the session, its acknowledgement and its
  select are separate actions, because everything else may run in between.
* A write the bus reports as failed may have landed. `SendFails` leaves the counters
  as `sendLocked` does and the frame either way, so the number of a frame that
  landed is given to the next one too (`Following`). The pedal takes both: what a
  real one does with a repeated number, nothing in the repository says. A call whose
  request landed so counts as given up, since its reply will come.
* The pedal is external. It takes frames in order, acknowledges data frames as it
  takes them (the one that completes a message perhaps not), answers whole
  messages in pieces, stops feeding when `Window` pieces are unacknowledged,
  notifies unasked and repeats old acknowledgements.

The faults are told apart by what they leave: `midfail` is a chunk after the first,
reported as failed; `startfail` a first chunk reported as failed that landed;
`sendfail` every other failed frame, landed or not.

What it abstracts: payloads are counted in frames, so every frame weighs one byte
and the counters wrap at `CtrMod`; one transfer carries one frame; elapsed time is
nondeterministic, so the idle acknowledgement may be due whenever a channel owes
and a budget may run out whenever its fault is allowed; the poke and the rounds of
the acknowledger are left out, as it may look at any channel at any time; a write
answers in as many pieces as a call. The opening handshake and the poll after a
select are `Command`'s, and the corrupt length that empties a buffer is in
`Replies`.

### Command

`presets select` from main to the end of the process: the bus listed and the
spares closed, the interface claimed (with its retries, and given back and
claimed again as the code does), the leftovers drained, each channel opened and
its services brought up, the slots listed, the select sent, what is playing asked
until it is the target, the goodbyes, and the release. Beside it `Press` and
`Interrupt` are the signals and `cli.Interrupts`, `BusFails` the bus, and `Pedal` the
device, which is external: it is what the comments in `internal/device` say of it.
It takes frames in order, answers or says nothing, may answer oddly, switches
when it likes and wipes its edit buffer when a session closes mid-switch.

What it abstracts: idle acknowledgements and the framing of messages are
`Session`'s; an answer comes within the pause that waits for it or never; another
slot is playing when it begins; time is a bound on rounds. A slot write's time limit
(usb_darwin.go:46) is a fault that may happen. What a property waives, it says:
`LetGo` a third interrupt, or a frame that never left; `SpeaksAsEditor` a first
drain cut short with the pedal still talking.

### ClientSessions, PedalHold, SlotOps

`ClientSessions` is `Client.Open` and `Session`: the claim slot, the operation
locks and closed flags, and goroutines at each wait. It implements `Claim`.

`PedalHold` is `onPedal`, `locked`, `arm`, `disarm`, `expire`, `release`,
`Close` and `Held`. A timer that has fired is a goroutine waiting for the lock:
stopping it does nothing, and only the count of armings tells it that it is late.
The variables `failed`, `hit` and the call number in a timer are history, for the
properties. After a panic the lock is given back before the process dies, so
another call may be opening a session when it does; only the session the panic was
in is promised closed. It implements `Claim` too.

`SlotOps` is what an edit does to a pedal's slots, one exchange a step: `Copy`,
`Swap` and `Import` of `deviceslots`, and `Keep` of `backup`.

* `slots` is the pedal, `kept` the backups on disk. `pc` is the line the edit is at:
  `names`, then `source` and `dest` (`readSlot`), `writer` (`writerFor`), `holds`
  (the destination read to be kept), `keep`, `write`. `op` holds the flow's
  locals, `said` what it returned.
* An import begins at `writer`, its document already built; a copy goes from `source`
  to `writer` to `holds`; a swap reads both sides and goes from `writer` to `keep`.
* A slot holds a preset, nothing, a document with no blocks, or an answer that does not
  decode. Two readings of it are kept apart, as in the code: `Read` takes a document
  with no blocks for nothing, `ReadHeld` takes what is there.
* Any read, backup or write may fail; a write that failed may have landed; the
  caller may give up anywhere; the process may die anywhere. `past` and `faulty` are
  history.

What it abstracts: a document is a model value, so that decoding and building one
loses nothing here; a raw import is of a document with no blocks only, which is
what backups in that form hold; every listing names every slot; only edits change
slots. Edits on one pedal do not overlap, which is `Alone` of `ClientSessions`. A
write either lands whole or not at all: `Session` has the half-sent message.

### AtomicFile

`atomicfile.Write` and `WriteNew` one system call a step, with hard links or
without, with directory syncs or without: the temporary file made, filled, synced and
renamed or linked; the file created in place where there are no links; the look
before a removal. The disk may lag behind the directory (`onDisk`) and behind a
file's bytes (`flushed`) until they are synced, and a crash takes what was not.
Another program renames a whole file of its own over the path at any moment.
`later`, `lost` and `stuck` are history: what was put there since, a removal that lost
the race `unlink`'s comment admits, and what a failed removal or a failed `Stat`
had to leave.

### Catalogs, Chains, Rigs, Documents, Compile

A model of the catalog is its place in the order of identifiers; whether a name
matches it is data. `Chains` has what `fill`, `demand`, `character`, `fit`, `refit` and
the validation of a chain do, `Rigs` the schema's rules, `Documents` a preset as
blocks and routing by processor and entry, with `Lift` and `Lower`. `Compile` takes one
task at a time through the stages in the code's order (`pc`): load, each entry
resolved, fill, demand, what the rig said, settle, fit, lower, sections, assignments,
restore, validate, save.
A stage that refuses ends the build and leaves no file.

What it abstracts: numbers are counted in `Unit`'hs; names, labels and error words
are data; the corpus is a record of shares and medians; a spelling suggestion
changes nothing.

### Pedals, Editors, Transfer

`Pedals` is a slot the way the pedal stores it: a grid it shares with its own input,
output, split and join, models by number, settings by place, snapshots by grid
position, sections found by an offset table. `Editors` has the translations: a
slot to a document (`Document`), a slot to a rig (`DeviceState`, `Snapshots`,
`Footswitches`, `Controllers`) and a document to a slot (`Placements`,
`SnapshotStates`, `RoutingStates`). A snapshot of a file names blocks (`on`) and the
split and join of a path (`wraps`). Both have a position, and two of them may have
the same one; `SnapshotStates` is the set of readings that the order of Go's map
leaves open, and an import takes any of them. `Transfer` runs them in the order an export, an
import and a show do, an import in stages over an unused slot, any of which may
refuse. One stage may crash: see the observations. A value is its number there;
what it is written in is `Splices`'.

### Setlists, Library

`Setlists` edits the last file written: copy, swap, import, export, list and show,
each one step, for nothing else has the file open. The checksum is modelled by what
it tells apart. `Library` has two layers of files, of which the upper may be
missing; a file is a rig, or broken in one of the ways the code tells apart. List,
show, new by copying, new by scaffolding, and make, which hands the rig to
`Compile`. Text is lines with what the code matches in them; only the arrangement
of a directory of one's own over a base is modelled.

### Splices, Replies

`Splices` is MessagePack as headers with a number: a map or an array is its header and
what follows it. A path is followed over the headers, the value it names cut out,
and its replacement written in the old width where that holds it. Codes and
widths are data (`Numbers`, `Strings`); TLC's integers end at 32 bits, so the
64-bit codes carry what TLC can count. A string's text is its length.

`Replies` is the pedal's side of one channel: a stream of envelopes cut into frames
anywhere, several frames a transfer, padded, with other frames between; `Arrive`
delivers a transfer, `Look` takes envelopes off the buffer until one answers the
call. A cell is the header of a value, or half the header of a frame or an
envelope. Duplicate keys are not modelled, nor is a frame cut at the end of a
transfer, which the code drops.

`MCSession`, `MCCommand`, `MCClientSessions`, `MCPedalHold`, `MCSlotOps`,
`MCAtomicFile` and `MCCompile` serve TLC. The proofs are in `Session_proofs`,
`ClientSessions_proofs`, `SlotOps_proofs`, `PedalHold_proofs`, `AtomicFile_proofs`,
`Command_proofs`, `Library_proofs` and `Compile_proofs`, which is about `Compile` and
`Setlists` and the operators of the modules under them.

## What the runs check

| Run | Bounds | What it shows |
|---|---|---|
| `session_faults` | 2 channels (one nobody reads, one for calls and writes), 2 chunks, 2 pieces a reply, window 2, counters mod 3, 2 operations and Close, 1 notice, 1 fault | the safety of a session under a cancelled call, a spent budget, a failed read or a failed frame, landed or not (not `startfail`, `midfail`) |
| `session_live` | as above, window 1, 1 operation; a read fails, or a first chunk is reported as failed and lands | an exchange ends by acknowledging alone; debts are settled; Close releases |
| `session_stale_ack` | as `session_faults`, cancel only | finding 1, below |
| `session_half_message` | as `session_faults`, a chunk failing midway | finding 2, below |
| `command` | 2 channels of 3, one serving two services; 2 tries at the claim, 2 rounds of asking, 3 interrupts, 1 fault | a command always ends, gives back what it took, speaks in the pedal's order, reports only a switch that landed, and answers every interrupt |
| `client` | 3 goroutines, 2 sessions | the safety of claims and locks, Close returns, `Claim` is implemented |
| `pedal` | 2 callers, 2 sessions, 3 device calls | nothing is left held, an idle close never lands in a call, waiters are answered, an idle pedal is let go, `Claim` is implemented |
| `slots` | 3 slots, 2 presets, 2 names, 2 edits, 1 fault; slots and presets symmetric | what is overwritten is kept first, errors name the backups, moves stay on the pedal, done is exact |
| `slots_named_blank` | 2 slots, 1 edit | finding 3, below |
| `files` | 2 writers, 1 rename by another program, 2 faults, 1 crash; writers symmetric | old or new, whole, at every moment; a success survives a crash; a new file replaces nothing; a failed one leaves nothing |
| `compile` | 10 models, a ceiling of 6 blocks on 2 paths; 4955 worlds to begin in: rigs over 2 templates, slots of a grid of 8, preset and setlist files, shelves of recipes, sections, exchanges, each chosen for a case; bodies of 40 cells in frames of 2 | the sequential core: what goes round comes back, and what an edit does not name it leaves; below |
| `compile_settings` | the same | finding 4, below |

Two chunks and two pieces make every "between" happen: a chunk to be paced, a reply
half arrived. Two operations let one leave something behind for the next. Counters
mod 3 wrap within a run. One fault at a time is what the code's error paths are
written for; the proofs have no such bound. Two sessions let a call lose one to the
bus and open another. Three slots give an edit a bystander, and a second edit
meets what the first left behind, backups included. The command's third channel
goes through what the data channel does; with it and one fault the same
properties hold, in some minutes. Two writers are enough for one to remove what
the other put there, and two faults for a failure inside the handling of one.
Deadlock is not checked: sessions, commands and builds end, and a program may
make no more calls.

What the properties of `compile` say, each over every world in the run:

* `RoundTrip`: a preset read into a rig and compiled over any template is the preset
  it was, and nothing of the template's.
* `NamesFollowTheChain`: a controller, a footswitch or a section that names a block
  names that block in the file, though the fit moved it in between
  (`PedalFollowsFit`, `SectionsHoldTheChain`).
* `ContestedSaysNothing`: two words that cancel build the rig that said neither.
* `ComesBack`: a slot exported and imported is the slot it was, in all that the models
  written name, offset table included; a file imported and exported says what it said
  (`PresetKept`, `FileKept`). Of a position that two entries share, a split and a
  block, a snapshot comes back with what it said of one of them: see the observations.
* `ShownIsExported`: a slot shown as a rig and compiled is the file its export is: the
  blocks, the name without the spaces around it, the routing where the slot says any.
* `NothingLost`: an edit of a setlist leaves a file that reads back, and a preset no
  longer in it is the one the answer names.
* `FoundIsListed`: a lookup finds what a listing shows, and what it finds beneath is
  not what a broken file of theirs may have stood in for.
* `NewStandsApart`: a new rig is found by its name and changes no other lookup.
* `SpliceSwapsOneValue`: the tree a section means, with one value substituted.
* `AnswerIsThePedals`: however it was cut, a call is told what the pedal meant.

Finding 1 (`session_stale_ack`). The documentation says no chunk goes out without
the acknowledgement of the one before it. The code takes any acknowledgement on
the data channel that differs from the last, so the late one of a call that was
given up releases a chunk. `OneChunkOut`, a part of `WritesStayWhole`, shows that
giving up is the only way: as long as every exchange was seen through, pacing
holds even against notifications and repeated acknowledgements.

Finding 2 (`session_half_message`). A pace that times out ends the session, so that
no request is fed into half a message, and `WritesStayWhole` in `session_faults`
shows it does. A chunk the bus refuses does not end it, and the next call's
request lands there. So it would after a first chunk that was reported as failed and
landed, which is why neither `startfail` nor `midfail` is among that run's faults.

Finding 3 (`slots_named_blank`). The backup policy keeps a slot with no blocks that
somebody named, as the pedal's bytes. A copy or an import onto one does; a swap
takes it for an empty slot while reading, so `Keep` is handed nothing and the slot
is overwritten or emptied without a backup. `KeptFirst` waives this case and no other.

Finding 4 (`compile_settings`). `saidKnobs` pairs settings with blocks by index, after
`fill` and `demand` inserted blocks ahead of the amplifier. The rig's settings of
the amplifier turn the inserted compressor, or the build is refused because it
has no such control.

## Observations

Met while modelling; the model does what the code does, and the properties are
stated around them.

In the device and files:

* A select that nobody answers, or one interrupted or out of time, closes the session
  mid-switch, which wipes the edit buffer (docs/device.md:94-97), though
  interrupt.go:35-36 says the pedal "is left in a safe state". `SelectedIsPlaying`
  is about a reported success.
* A re-select of the slot already playing is answered before the switch starts, so it
  may be reported early; `Command` begins with another slot playing.
* `Write` returns an error after a failed directory sync with the new file in place,
  and a file removed by a failed in-place create may reappear after a crash.
* A response's status is cut to its low bits and a missing one reads as done
  (rpc.go:246).

In the compiler:

* `Fit` leaves a block that fits nowhere on processor 0; its comments say it drops.
* Controllers and footswitches name positions of the chain after insertion, while
  refit.go:28 and docs/recipes.md say the rig's own.
* catalog/types.go:187 says a colour out of range keeps its number; a footswitch drops
  it. A footswitch's block address is never checked.
* A lifted rig whose snapshots are replaced by sections is refused, though lower.go:102
  says a rig with sections has none; entries that share an address overwrite silently.
* What a word needs is seated before the contest is looked at (demand.go:82); a filter
  seated before the amplifier makes a rig's `level` refused.
* The implied cabinet is not among what is reported as added.

In the editor and the wire:

* The pedal's table names a mono and a stereo instance of a model, a file only the
  model, and an import takes the first instance there is, the mono one
  (catalog/types.go:237). In the table that ships, 47 of the stereo instances name
  parameters their mono one does not, in another order (a simple delay's `Scale`):
  a slot that holds one, exported and imported again, has lost what they were set
  to, where device_public_test.go:55 asks for "every parameter the source set still
  set to that value". `PresetKept` says what is kept: all that the instance written
  names.
* routingstates.go:146 slices a model's names by how many values the unused slot's
  entry sends ("never longer than the list of names the model carries"). The model is
  the file's: a split SplitAB names two parameters, the unused slot's SplitY sends
  three, and importing a preset split A/B panics; `Overruns` and the place `crashed`
  are that. SplitDyn, which names five, is cut to three.
* Blocks are placed by the number in their key, snapshots resolved by the position
  attribute; a file where the two differ comes back with the snapshot's
  switches on the block at that position. `FileKept` speaks of files where they agree.
* A snapshot may name a split and a block that sit at one position. In
  compile/testdata/preset2.hlx `split` and `block4` are both at 4 and every snapshot
  names `split` (there both are on). Every name is resolved to its position and written there in the order
  of a Go map (snapshots.go:237-244), so whether the block or the split decides what is
  written changes from run to run, and a block that is off in a snapshot may come
  back on, though snapshots.go:137-141 resolves names by position so as not to "switch
  the wrong block". `ComesBack` with `FileKept` asking for the block's own state fails
  in the files with a split at the compressor's position; `FileKept` therefore waives
  which of the two is kept, and nothing else. What a snapshot says of a split where
  no block sits is written too, and no export reads it back.
* sendLocked repeats a frame's number when its write was reported as failed
  (transport.go:74-82), also when the frame landed.
* An import writes no controllers or footswitches; an export names the voiced cabinet
  though the model is on the wire; a rig read off the pedal keeps no snapshot's block
  states; gaps in the numbering of snapshots close up.
* A preset whose metadata is empty takes the template's when it is rebuilt.
* deviceread.go:88 says controllers "are not decoded yet", and the lines after it
  carry them. The rig is not checked again after those four assignments;
  `ShownIsExported` checks that it stays one that can be read.
* A 32-bit string is never kept at its width, though encode.go says a replacement
  keeps its code wherever it fits.

In recipes:

* A copy of a copy has two `extends` lines, and the one further down, the parent's, is
  read; new.go says the copy records the rig it came from.
* Aliases written as a block stay in a copy, which then replaces its parent;
  `NewStandsApart` speaks of aliases on one line.
* A broken file of theirs that shares a name with a rig beneath which another of
  theirs already replaces does not stop a lookup.
* A scaffold writes a name or band as it was typed: one that is no plain YAML makes a
  file nothing reads.

## Fairness

The goroutines of a session are scheduled (weak fairness of the loop, the
acknowledger and the operation); reads keep finishing, because each is posted for
one window only, so the acknowledger's round recurs and finds a quiet channel one
day (weak fairness of `AckDecides` for each channel); the pedal takes what it is
sent and feeds what it has. Nothing has to fail and no caller has to begin, so
`EveryExchangeEnds` holds without the reply budget: timers are a fault here, and
`session_live` does not allow one.

For locks that are one-slot channels the runtime serves waiters in order, so a
waiter is strongly fair: `Lock` and `LockClose` in `ClientSessions`, the taking of
the pedal in `PedalHold`. Whoever holds one is inside bounded exchanges and lets
go. Giving up, panicking, failing and stopping are never required.

In `Command` main, the goroutine that follows the signals and the pedal are
scheduled, and nothing else: what the pedal takes it may leave unanswered, and nobody
need press anything. `AlwaysEnds` rests on the code's own budgets, which are steps of main.
`AtomicFile` and the sequential tower state no liveness: their programs are
loops over finite lists.

## What is proved

`ClientSessions_proofs` proves type correctness, the safety invariants of the
`client` run, that one session has the editor, and the refinement of `Claim`, for
any number of goroutines and sessions. The inductive invariant says who holds what: a goroutine past a lock is
its owner, a closed flag is set by whoever is closing, the claim is taken by the
session that is opening, open or closing. The refinement maps a step to taking,
using, resting or letting go, and needs that the holder chosen from the sessions
that are open is the only one.

`Session_proofs` proves type correctness, `IdleAckStaysOut` and
`NothingAfterRelease` for every channel order, number of chunks, reply frames,
window and set of faults. The acknowledger decides from two flags, then holds the
send lock until it has sent. `IInv` therefore adds to the types where the
operation can be for its kind (`OpShape`), that the flags are raised exactly
during a call or write and a close (`FlagsAgree`), and that a channel has handed
out no more transactions than there were operations (`TxnsBounded`, for the
types). At the decision the flags say the operation is idle; whatever begins then
sends nothing until the lock is free, so nothing has been sent. For
`NothingAfterRelease` the further invariant is that a released session has both
goroutines gone and the operation at its last place, where no action is enabled.

`Session_proofs` also proves `SeqContiguous`, `BufferFramed` and `WritesStayWhole`.
These are about sequences read at one end while the other is written. The invariant of
each has a witness, a function saying what every element on its way finds:
the number expected when it arrives (`Numbered`), the piece the buffer then ends with
(`Framed`), what the pedal has of a message (`Unbroken`). A step at either end shifts
or extends the witness, so no induction over the sequence is needed. One frame out
at a time (`OneChunkOut`) needs `PacedUntil` besides: a frame is unanswered, or the news
that it was taken comes before its answer, and no late reply can be taken for either.
`WritesStayWholeHolds` supposes that no chunk is reported as failed with part of its
message sent, be it that chunk alone (`midfail` and `startfail` are not among the
faults), because then the property does not hold: finding 2. Every other fault is in
it, requests and acknowledgements that landed though they failed included; those
repeat a number, which `SeqContiguous` allows after such a frame and nowhere else.

`SlotOps_proofs` proves all four properties of the `slots` run, its types, and
that a refusal changes nothing, for any slots, presets and names and any number of
edits and failures. Its invariant, `Course`, states everything in terms of what the slots held when the edit began: what has been read is
what was there, no slot has changed before the writing (`Same`), each slot to be
replaced is either owed no backup, kept by this edit, or still on the list of
what is to be kept (`Keeping`), and during the writing the slots are what the
planned writes so far made of them (`Writing`). From that, `WritingIsSound` looks
once at every moment of the writing, with the next write landed or not; ending
there, by an error or a death, keeps the promises, which is what `StepEnded` says.
Faults and edits are bounded by constants that may be any number.

`PedalHold_proofs` proves every safety property of the `pedal` run, its types and the
refinement of `Claim`, for any finite set of handlers, any sessions and any number of
calls. `NothingLeftHeld` says what must not be left behind and not who may act, so
`IInv` adds it: the lock belongs to whoever is between taking and giving it back
(`LockNames`), the session held is the only one open (`OneHeld`), a broken one is held
only by the call about to release it (`NoneBroken`, `PanicCloses`), and an idle close
still to come carries the present count only if no call came after it (`LateTimers`).
The last is the whole of `IdleCloseOnlyWhenIdle`: a step that closes compares the two.

`AtomicFile_proofs` proves the types and all three properties of the `files` run, for
any writers, programs, failures and crashes. Where a call stands is known from its
place (`Stages`), a name points at synced bytes, the file `WriteNew` makes in place
excepted (`TempWhole`, `TheirsWhole`, `PlaceWhole`), and `Lasting` is what makes a write
durable: from its rename or link on, the path names its file or a later one.

`Command_proofs` proves the types and all four safety properties of the `command` run,
for any channels, each opened once and with some service, any number of tries,
questions, interrupts and faults. `IInv` has a part for each. `Watched` counts the
signals waiting and pressed. `Taken` says what is held at each place, and `Parted` that
behind every opening on the wire there is a goodbye, so that the pedal ends where
`LetGo` wants it. `Landing` says the one select comes first, and that nothing before
it can be taken for its answer. For `SpeaksAsEditor`, `Numbered` relates neighbours on
the wire, and `Clean` says what may be on it at each place of main.

`Library_proofs` proves both properties of recipes, over any layers of files and any
names. `FilesOnly`, that every file stays one a shelf can hold, is the inductive
invariant; on it rest `FoundIsListed`, of each state, and `NewStandsApart`, of each
step. A lookup takes the earliest rig that answers; that there is one is `Least`, the
least-number principle, got from the library's theorem about minima of well-founded
relations, which takes a set and no operator and so can be cited.

`Compile_proofs` proves `RoundTrip`, `NamesFollowTheChain` and `ContestedSaysNothing` of
a build, `NothingLost` of setlist files, and `ShownIsExported` of a slot of the pedal, for
any catalog, statistics, recipes, templates, presets, slots and files.

`RoundTrip` ends in an equality of whole presets, so its invariant says what the program
holds at every stage. `Rebuilding`, of a preset being read into a rig and compiled
again, writes each stage out in terms of the preset it was: the chain that `ChainOf`
reads is the blocks where they stand, once each, which is that `Ordered` lists a finite
set (a member's rank grows with the order, and ranks fill an interval); setting that
chain down again gives the blocks back, and restoring, the snapshots, switches, routing
and tone. What a build made can itself be rebuilt, so it has to be shown to be a preset
a device could have written: `Building` carries well-formedness through all the stages
that make one, the moves of a rig's words and the fit included. `Sane` is the two together.

`NamesFollowTheChain` adds `Following`: the rig is the one given until the fit, which
moves blocks and leaves each a place of its own (`Fitted`); the assignments are then the
given ones, moved with their blocks; and what is written afterwards is at those places
(`TakesIn`, `Sectioned`, `Wired`). That nothing is written of a block that is not there
rests on `CheckControllers`, which must have passed before.

`ContestedSaysNothing` compares two runs of different length, over every word and over
those that count. A counter that goes forward where a word counts relates them (`Along`),
and a word that does not count is a step of neither.

`NothingLost` is `Stocked`, that each slot of a file that reads holds a preset and the
slot taken out as a rig is `Rebuilding`; an edit is then a slot written, and a build
ends in what its slot holds by the proof of `RoundTrip`.

`ShownIsExported` is `Showing`, which says what each stage holds of a slot read as a rig
in terms of the file the slot is exported as: the rig read (`ShownAs`) names the export's
chain, and restoring it, its snapshots and its switches leave the blocks and the routing
of that file. It rests on the export being a preset (`ExportedIs`), for which the lists a
slot is read into are worked out: blocks in grid order, switches and controllers kept
where something names them (`BlocksAre`, `FlattenIs`, `ThoseAre`).

The assumptions are those named in the modules. In `Session` the data channel is among
the open ones, counts are positive and the counter modulus exceeds the window; in
`Command` channels differ and there is one; in `PedalHold` handlers are finitely many; in
`Library` names are in one order and in lower case, what they fold from is not among
them, and the files there at the start are well formed, readable or not. In the
sequential tower they say what the program is given: catalog and statistics are built
from types that count in whole numbers, and a control counted in wholes starts at one
(`CatalogAssumption`, `StatsAssumption`); half a unit rounds (`UnitAssumption`); colours
are told apart (`ColoursAssumption`); the catalog's kinds are roles of a rig, a name
without its spaces has none (`RolesAssumption`, `TrimmedAssumption`); presets are as a
device writes them and rigs as their file is read, places counted from zero and lists
lists (`BlankAssumption`, `BuildsAssumption`, `SetlistsAssumption`). Of the pedal: the
grid's places are counted (`GridAssumption`), what the model table names is a model
(`SymbolsAssumption`), and a slot is as the pedal keeps one, its first place the input,
its lists lists, what counts in wholes whole (`TransferAssumption`). A preset, `IsPreset`,
has something said of itself, no block without a model, and whole values where a
control counts; what it holds besides is arbitrary.

Each `TypeCorrect`, `OneEditorHolds`, `RefusalChangesNothingHolds`, `OneChunkOutHolds`,
`Invariant` and `FilesOnlyHolds` state what no run repeats: their proofs hold for the
instances of the runs too.

Model-checked only: liveness and everything under fairness, and of the sequential
tower `ComesBack`, `AnswerIsThePedals` and `SpliceSwapsOneValue`. Out
of the prover's reach here are `ENABLED`, induction over data by the library's induction
theorems, and anything defined with RECURSIVE, which `Splices` and therefore `Replies`
use. Recursion over a sequence is written as a function where something is proved about
it (`Fill`, `Demand`, `Move`, `Fit`): that such a function exists and is what its steps
make of it is `RunExists`, by the least-number principle. What is read out of the
pedal's format is proved about for `ShownIsExported`; `ComesBack` also writes it back,
and that is placed block by block and route by route with folds that take an operator.

## Not modelled

* Audio analysis and measuring: floating point.
* The build-time generators of the catalog and the corpus, and the read-only views of
  them: no state, and no decision that a run depends on.
* Flag parsing, rendering and the registration of MCP tools: input and output.
* Descriptors, libusb and the operating system's side of the bus; JSON and YAML as
  text, and the generated rig types.
* Backing a recipe from a corpus record, suggestions of near names, and the splicing
  of text into a scaffold: text, with no state that outlives them.
* What somebody saves at the pedal while an edit runs: nothing in the code sees it,
  so every such save between the read and the write is lost, whatever the model says.
* The renaming of a slot in a setlist and the list of its names, which no command uses.
