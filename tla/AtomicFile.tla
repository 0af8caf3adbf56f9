----------------------------- MODULE AtomicFile -----------------------------
(***************************************************************************)
(* Writers of one path: atomicfile.Write and atomicfile.WriteNew, one      *)
(* system call a step, beside other programs that rename their own file    *)
(* over the path, with a crash between any two calls.                      *)
(*                                                                         *)
(* A file is what an inode is to the code: the writer's temporary file,    *)
(* the one create makes in place where there are no hard links, or one of  *)
(* somebody else's.  The disk may lag behind the directory (onDisk) and    *)
(* behind a file's bytes (flushed) until they are synced.                  *)
(***************************************************************************)
EXTENDS Naturals, FiniteSets

CONSTANTS Writers,      \* calls of Write or WriteNew, each made once
          MaxTheirs,    \* how often another program renames over the path
          MaxFaults,    \* system calls that fail
          MaxCrashes    \* crashes of the machine

ASSUME BoundsAssumption ==
    /\ MaxTheirs \in Nat
    /\ MaxFaults \in Nat
    /\ MaxCrashes \in Nat

VARIABLES linkable,  \* the filesystem has hard links
          dirSyncs,  \* a directory can be synced here
          entry,     \* what the path names now
          onDisk,    \* what a crash may find the path naming
          body,      \* how much of its bytes each file holds
          flushed,   \* the files whose bytes are on disk
          temps,     \* the temporary names still in the directory
          pc, how,   \* where each writer is, and which of the two it is
          err,       \* what it will return
          ours,      \* the file it put at the path, as Stat described it
          later,     \* history: its file and every one put there after it
          lost,      \* history: renamed over between its look and its removal
          stuck,     \* history: what it may have had to leave behind
          theirs, faults, crashes

writer == <<pc, how, err, ours>>
disk   == <<entry, onDisk, body, flushed, temps>>
system == <<linkable, dirSyncs>>
history == <<later, lost, stuck>>
bounds == <<theirs, faults, crashes>>
vars == <<writer, disk, system, history, bounds>>

None == [made |-> "none", by |-> "none"]
Temp(w)   == [made |-> "temp", by |-> w]
Place(w)  == [made |-> "place", by |-> w]
Theirs(n) == [made |-> "theirs", by |-> n]
Own(w)    == {Temp(w), Place(w)}
Files  == (UNION {Own(w) : w \in Writers}) \cup {Theirs(n) : n \in 0 .. MaxTheirs}

Places == {"begin", "temp", "fill", "flush", "rename", "link", "create",
           "fillPlace", "flushPlace", "syncDir", "look", "unlink", "clean",
           "done", "dead"}
Errors == {"none", "failed", "exists"}
Bodies == {"nothing", "part", "whole"}

\* The path starts out empty or holding a file somebody saved before.
Init ==
    /\ linkable \in BOOLEAN
    /\ dirSyncs \in BOOLEAN
    /\ entry \in {None, Theirs(0)}
    /\ onDisk = {entry}
    /\ body = [f \in Files |-> IF f.made = "theirs" THEN "whole" ELSE "nothing"]
    /\ flushed = {f \in Files : f.made = "theirs"}
    /\ temps = {}
    /\ pc = [w \in Writers |-> "begin"]
    /\ how = [w \in Writers |-> "write"]
    /\ err = [w \in Writers |-> "none"]
    /\ ours = [w \in Writers |-> None]
    /\ later = [w \in Writers |-> {}]
    /\ lost = [w \in Writers |-> FALSE]
    /\ stuck = [w \in Writers |-> {}]
    /\ theirs = 0
    /\ faults = 0
    /\ crashes = 0

-----------------------------------------------------------------------------
Goto(w, place) == pc' = [pc EXCEPT ![w] = place]
Fail(w, why)   == err' = [err EXCEPT ![w] = IF @ = "none" THEN why ELSE @]
Fault == faults < MaxFaults /\ faults' = faults + 1
Works == UNCHANGED faults
Rest  == UNCHANGED <<system, theirs, crashes>>
NoHistory == UNCHANGED history
Leave(w, what) == stuck' = [stuck EXCEPT ![w] = @ \cup {what}]

\* The path comes to name f: the disk may find the old name or the new one.
Put(f) ==
    /\ entry' = f
    /\ onDisk' = onDisk \cup {f}
    /\ later' = [w \in Writers |-> IF f \in Own(w) \/ later[w] # {}
                                   THEN later[w] \cup {f} ELSE {}]
    /\ lost' = [w \in Writers |-> lost[w] \/ pc[w] = "unlink"]

\* Save and the callers choose: replace what is there, or only where nothing is.
Begin(w) ==
    /\ pc[w] = "begin"
    /\ \E h \in {"write", "new"} : how' = [how EXCEPT ![w] = h]
    /\ Goto(w, "temp")
    /\ Works /\ Rest /\ NoHistory /\ UNCHANGED <<disk, err, ours>>

\* temp: CreateTemp makes a name nobody else has.
MakeTemp(w) ==
    /\ pc[w] = "temp"
    /\ \/ /\ Goto(w, "fill")
          /\ temps' = temps \cup {w}
          /\ Works /\ UNCHANGED err
       \/ /\ Fault
          /\ Goto(w, "done")
          /\ Fail(w, "failed")
          /\ UNCHANGED temps
    /\ Rest /\ NoHistory /\ UNCHANGED <<entry, onDisk, body, flushed, how, ours>>

\* Write, Chmod and Stat; the first may stop partway, the rest may fail after it.
Fill(w, from, f, next) ==
    /\ pc[w] = from
    /\ \/ /\ body' = [body EXCEPT ![f] = "whole"]
          /\ Works /\ UNCHANGED err
       \/ /\ Fault
          /\ \E b \in Bodies : body' = [body EXCEPT ![f] = b]
          /\ Fail(w, "failed")
    /\ Goto(w, next)
    /\ Rest /\ UNCHANGED <<entry, onDisk, flushed, temps, how>>

FillTemp(w) ==
    /\ Fill(w, "fill", Temp(w), "flush")
    /\ NoHistory /\ UNCHANGED ours

\* Mutant: the file is closed without being synced.
FlushTempUnsynced(w) ==
    /\ pc[w] = "flush"
    /\ Goto(w, IF err[w] # "none" THEN "clean"
               ELSE IF how[w] = "write" THEN "rename" ELSE "link")
    /\ Works /\ Rest /\ NoHistory
    /\ UNCHANGED <<entry, onDisk, body, flushed, temps, how, err, ours>>

\* Sync and Close are called whatever failed before them, and one check covers
\* them all.  A temporary file that is not what was asked for is removed.
FlushTemp(w) ==
    /\ pc[w] = "flush"
    /\ \/ Works /\ flushed' = flushed \cup {Temp(w)} /\ UNCHANGED err
       \/ Fault /\ Fail(w, "failed") /\ UNCHANGED flushed
    /\ Goto(w, IF err'[w] # "none" THEN "clean"
               ELSE IF how[w] = "write" THEN "rename" ELSE "link")
    /\ Rest /\ NoHistory /\ UNCHANGED <<entry, onDisk, body, temps, how, ours>>

-----------------------------------------------------------------------------
\* Write: os.Rename replaces whatever is there in one step.
Rename(w) ==
    /\ pc[w] = "rename"
    /\ \/ /\ Put(Temp(w))
          /\ temps' = temps \ {w}
          /\ ours' = [ours EXCEPT ![w] = Temp(w)]
          /\ Goto(w, "syncDir")
          /\ Works /\ UNCHANGED <<err, stuck>>
       \/ /\ Fault
          /\ Fail(w, "failed")
          /\ Goto(w, "clean")
          /\ UNCHANGED <<entry, onDisk, temps, ours, history>>
    /\ Rest /\ UNCHANGED <<body, flushed, how>>

\* WriteNew: os.Link refuses to replace its target.  A filesystem without hard
\* links says so before it looks, and a permission error is taken for that.
Link(w) ==
    /\ pc[w] = "link"
    /\ \/ /\ linkable
          /\ entry = None
          /\ Put(Temp(w))
          /\ ours' = [ours EXCEPT ![w] = Temp(w)]
          /\ Goto(w, "syncDir")
          /\ Works /\ UNCHANGED <<err, stuck>>
       \/ /\ linkable
          /\ entry # None
          /\ Fail(w, "exists")
          /\ Goto(w, "clean")
          /\ Works /\ UNCHANGED <<entry, onDisk, ours, history>>
       \/ /\ Fault \/ (~linkable /\ Works)
          /\ Goto(w, "create")
          /\ UNCHANGED <<entry, onDisk, err, ours, history>>
       \/ /\ Fault
          /\ Fail(w, "failed")
          /\ Goto(w, "clean")
          /\ UNCHANGED <<entry, onDisk, ours, history>>
    /\ Rest /\ UNCHANGED <<body, flushed, temps, how>>

\* create: O_EXCL refuses a file already there, as a link would.
Create(w) ==
    /\ pc[w] = "create"
    /\ \/ /\ entry = None
          /\ Put(Place(w))
          /\ Goto(w, "fillPlace")
          /\ Works /\ UNCHANGED <<err, stuck>>
       \/ /\ entry # None
          /\ Fail(w, "exists")
          /\ Goto(w, "clean")
          /\ Works /\ UNCHANGED <<entry, onDisk, history>>
       \/ /\ Fault
          /\ Fail(w, "failed")
          /\ Goto(w, "clean")
          /\ UNCHANGED <<entry, onDisk, history>>
    /\ Rest /\ UNCHANGED <<body, flushed, temps, how, ours>>

\* The data goes through the handle, wherever the name has gone since.  A Stat
\* that failed leaves nothing to tell the file by.
FillPlace(w) ==
    /\ Fill(w, "fillPlace", Place(w), "flushPlace")
    /\ \/ ours' = [ours EXCEPT ![w] = Place(w)] /\ NoHistory
       \/ /\ err'[w] # "none"
          /\ Leave(w, "file")
          /\ UNCHANGED <<ours, later, lost>>

FlushPlace(w) ==
    /\ pc[w] = "flushPlace"
    /\ \/ Works /\ flushed' = flushed \cup {Place(w)} /\ UNCHANGED err
       \/ Fault /\ Fail(w, "failed") /\ UNCHANGED flushed
    /\ Goto(w, IF err'[w] # "none" THEN "look" ELSE "syncDir")
    /\ Rest /\ NoHistory /\ UNCHANGED <<entry, onDisk, body, temps, how, ours>>

-----------------------------------------------------------------------------
\* Mutant: the directory is never synced.
SyncDirNever(w) ==
    /\ pc[w] = "syncDir"
    /\ Goto(w, "clean")
    /\ Works /\ Rest /\ NoHistory
    /\ UNCHANGED <<entry, onDisk, body, flushed, temps, how, err, ours>>

\* Mutant: a failed sync is returned with the new file left in place.
SyncDirLeaves(w) ==
    /\ pc[w] = "syncDir"
    /\ \/ /\ onDisk' = IF dirSyncs THEN {entry} ELSE onDisk
          /\ Works /\ UNCHANGED err
       \/ dirSyncs /\ Fault /\ Fail(w, "failed") /\ UNCHANGED onDisk
    /\ Goto(w, "clean")
    /\ Rest /\ NoHistory /\ UNCHANGED <<entry, body, flushed, temps, how, ours>>

\* syncDir: what a platform or a filesystem cannot do is no failure.
SyncDir(w) ==
    /\ pc[w] = "syncDir"
    /\ \/ /\ onDisk' = IF dirSyncs THEN {entry} ELSE onDisk
          /\ Goto(w, "clean")
          /\ Works /\ UNCHANGED err
       \/ /\ dirSyncs
          /\ Fault
          /\ Fail(w, "failed")
          /\ Goto(w, IF how[w] = "new" THEN "look" ELSE "clean")
          /\ UNCHANGED onDisk
    /\ Rest /\ NoHistory /\ UNCHANGED <<entry, body, flushed, temps, how, ours>>

\* Mutant: whatever has the name is taken for this write's.
IsOursUnlooked(w) == ours[w] # None

\* unlink looks first: a file renamed over ours is not ours to remove.
IsOurs(w) == ours[w] # None /\ entry = ours[w]

Look(w) ==
    /\ pc[w] = "look"
    /\ \/ /\ IsOurs(w)
          /\ Goto(w, "unlink")
          /\ lost' = [lost EXCEPT ![w] = FALSE]
          /\ Works /\ UNCHANGED stuck
       \/ /\ ~IsOurs(w)
          /\ Goto(w, "clean")
          /\ Works /\ UNCHANGED <<lost, stuck>>
       \/ /\ Fault
          /\ Goto(w, "clean")
          /\ Leave(w, "file")
          /\ UNCHANGED lost
    /\ Rest /\ UNCHANGED <<disk, how, err, ours, later>>

\* The second of the two calls removes whatever has the name by now.
Unlink(w) ==
    /\ pc[w] = "unlink"
    /\ \/ /\ entry' = None
          /\ onDisk' = onDisk \cup {None}
          /\ Works /\ UNCHANGED stuck
       \/ /\ Fault
          /\ Leave(w, "file")
          /\ UNCHANGED <<entry, onDisk>>
    /\ Goto(w, "clean")
    /\ Rest /\ UNCHANGED <<body, flushed, temps, how, err, ours, later, lost>>

\* The temporary name goes whatever happened; a rename took it already.
Clean(w) ==
    /\ pc[w] = "clean"
    /\ \/ temps' = temps \ {w} /\ Works /\ UNCHANGED stuck
       \/ w \in temps /\ Fault /\ Leave(w, "temp") /\ UNCHANGED temps
    /\ Goto(w, "done")
    /\ Rest /\ UNCHANGED <<entry, onDisk, body, flushed, how, err, ours, later, lost>>

-----------------------------------------------------------------------------
\* Another program saves its own whole file under the name.
OthersReplace ==
    /\ theirs < MaxTheirs
    /\ theirs' = theirs + 1
    /\ Put(Theirs(theirs'))
    /\ UNCHANGED <<writer, system, body, flushed, temps, stuck, faults, crashes>>

\* Every call under way is gone.  The path is one of the names the disk may
\* hold, and a file never synced has kept some of its bytes or none.
Running(w) == pc[w] \notin {"begin", "done", "dead"}
Crash ==
    /\ crashes < MaxCrashes
    /\ crashes' = crashes + 1
    /\ \E f \in onDisk : entry' = f /\ onDisk' = {f}
    /\ \E b \in [Files \ flushed -> Bodies] :
           /\ \A f \in Files \ flushed :
                  /\ body[f] = "nothing" => b[f] = "nothing"
                  /\ b[f] = "whole" => body[f] = "whole"
           /\ body' = [f \in Files |-> IF f \in flushed THEN body[f] ELSE b[f]]
    /\ pc' = [w \in Writers |-> IF Running(w) THEN "dead" ELSE pc[w]]
    /\ UNCHANGED <<how, err, ours, flushed, temps, system, history, theirs, faults>>

Put1(w) == Rename(w) \/ Link(w) \/ Create(w) \/ FillPlace(w) \/ FlushPlace(w)
Call(w) ==
    \/ Begin(w) \/ MakeTemp(w) \/ FillTemp(w) \/ FlushTemp(w) \/ Put1(w)
    \/ SyncDir(w) \/ Look(w) \/ Unlink(w) \/ Clean(w)

Next == (\E w \in Writers : Call(w)) \/ OthersReplace \/ Crash

Spec == Init /\ [][Next]_vars

-----------------------------------------------------------------------------
TypeOK ==
    /\ linkable \in BOOLEAN /\ dirSyncs \in BOOLEAN
    /\ entry \in Files \cup {None}
    /\ onDisk \subseteq Files \cup {None}
    /\ body \in [Files -> Bodies]
    /\ flushed \subseteq Files
    /\ temps \subseteq Writers
    /\ pc \in [Writers -> Places]
    /\ how \in [Writers -> {"write", "new"}]
    /\ err \in [Writers -> Errors]
    /\ ours \in [Writers -> Files \cup {None}]
    /\ later \in [Writers -> SUBSET Files]
    /\ lost \in [Writers -> BOOLEAN]
    /\ stuck \in [Writers -> SUBSET {"file", "temp"}]
    /\ theirs \in 0 .. MaxTheirs /\ faults \in Nat /\ crashes \in Nat

\* A reader finds a whole file or none, through every failure and every crash: a
\* name only ever points at bytes that were synced before it did.  The file create
\* makes in place is the exception its comment states: while it is being written,
\* when it could not be removed, and after a crash, when its call did not succeed.
Succeeded(w) == pc[w] = "done" /\ err[w] = "none"
BeingMade(w) == pc[w] \in {"fillPlace", "flushPlace", "look", "unlink"}
Partial(w) ==
    BeingMade(w) \/ "file" \in stuck[w] \/ (crashes > 0 /\ ~Succeeded(w))
WholeOrNothing ==
    /\ \A f \in onDisk \cup {entry} :
           f.made \in {"temp", "theirs"} => f \in flushed /\ body[f] = "whole"
    /\ entry.made = "place" => body[entry] = "whole" \/ Partial(entry.by)

\* What a call that returned no error put there, or something put there later,
\* is what the path names after a crash, where a directory can be synced.  Only
\* a removal that lost the race unlink's comment admits takes it away.
Overtaken == \E w \in Writers : lost[w]
DoneIsDurable ==
    dirSyncs /\ ~Overtaken =>
        \A w \in Writers : Succeeded(w) => onDisk \subseteq later[w]

\* What Write's comment promises of a path: the old file or the new one,
\* whole, at any moment and after any crash, and the new one once it returned.
OldOrNew == WholeOrNothing /\ DoneIsDurable

\* A WriteNew never takes an existing file away: not by replacing it, and not
\* by removing, when it fails, a file another program put there since.
KeptExisting ==
    [][/\ crashes' = crashes
       /\ entry # None
       /\ entry' # entry
       => \/ theirs' # theirs
          \/ \E w \in Writers : pc[w] # pc'[w] /\ how[w] = "write"
          \/ \E w \in Writers :
                /\ pc[w] = "unlink" /\ pc'[w] # "unlink"
                /\ entry \in Own(w) \/ lost[w]]_vars

\* A WriteNew that failed leaves nothing of its own at the path, and no call
\* that returned leaves its temporary file, unless a removal failed too.
LeavesNothing ==
    \A w \in Writers : pc[w] = "done" /\ crashes = 0 =>
        /\ how[w] = "new" /\ err[w] # "none" /\ "file" \notin stuck[w]
           => entry \notin Own(w)
        /\ "temp" \notin stuck[w] => w \notin temps

=============================================================================
