---------------------------- MODULE ReplayStore ----------------------------
(***************************************************************************)
(* The durable replay store (src/replay.rs, DurableReplayStore): an        *)
(* in-memory table of the message ids that were recorded and an            *)
(* append-only log that is compacted by writing a new file and renaming it *)
(* over the old one.  A handle writes to the file it opened, which after a *)
(* rename is no longer the file that the path names.                       *)
(*                                                                         *)
(* Two things have to reach stable storage: what is in a file, and which   *)
(* file the path names.  The second is the business of the directory: it   *)
(* is synced after a file is created and after a rename, and when that     *)
(* sync fails the process may end and be started again with the directory  *)
(* still unsynced.  Nothing that a later open() does repairs it.           *)
(*                                                                         *)
(* Sizes are in lines: every record has the same length, so the byte       *)
(* thresholds of the code are line counts here.  Times are whole seconds.  *)
(***************************************************************************)
EXTENDS ClockPolicy, Sequences, FiniteSets

CONSTANTS
    MsgId,        \* the message ids the callers present
    Issued,       \* [MsgId -> Int], issued_at of each signed envelope
    Expires,      \* [MsgId -> Int], expires_at of each signed envelope
    Retention,    \* REPLAY_RETENTION_SECONDS
    CompactAt,    \* REPLAY_COMPACTION_THRESHOLD_BYTES, in lines
    MaxLog        \* MAX_REPLAY_LOG_BYTES, in lines

ASSUME ClockAssumption ==
    /\ Retention = Lifetime + 2 * Skew
    /\ Issued \in [MsgId -> Int]
    /\ Expires \in [MsgId -> Int]

ASSUME SizeAssumption ==
    /\ IsFiniteSet(MsgId)
    /\ CompactAt \in Nat \ {0}
    /\ MaxLog \in Nat
    /\ CompactAt <= MaxLog

VARIABLES
    now,          \* the host's clock
    open,         \* a live handle holds the path claim
    seen,         \* DurableReplayStore.seen, id -> time it was seen
    disk,         \* the file the log path names
    inode,        \* the file the live handle appends to
    unlinked,     \* inode is no longer the file the path names
    entry,        \* the path names no file, one whose creation may be undone
                  \* by a crash of the machine, or one that stays
    older,        \* the files the path may name again after such a crash: the
                  \* ones that the live handle replaced without a sync
    inherited     \* the same, of the handles before it

\* History variables, that only the properties read.
VARIABLES
    fresh,        \* how many times each id was answered FreshRecorded
    takenBack     \* how many of these were lost with a directory entry

directoryVars == <<entry, older, inherited>>
historyVars == <<fresh, takenBack>>
storeVars == <<open, seen, disk, inode, unlinked, directoryVars, historyVars>>
vars == <<now, storeVars>>

Line == [id : MsgId, at : Int]

(***************************************************************************)
(* A log file: its complete lines, how many of them are known to be on     *)
(* stable storage, and whether a partial record is in it: as an unsynced   *)
(* "tail" of a failed append, or "sealed" by the lines appended after it.  *)
(***************************************************************************)
File == [lines : Seq(Line), synced : Nat, torn : {"none", "tail", "sealed"}]

EmptyFile == [lines |-> <<>>, synced |-> 0, torn |-> "none"]

IdsOf(lines) == {lines[i].id : i \in 1 .. Len(lines)}

Distinct(lines) ==
    \A i, j \in 1 .. Len(lines) : lines[i].id = lines[j].id => i = j

(***************************************************************************)
(* What open() accepts: no partial record, no id twice, not too large.     *)
(***************************************************************************)
Openable(file) ==
    /\ file.torn = "none"
    /\ Distinct(file.lines)
    /\ Len(file.lines) <= MaxLog

\* A slip to detect: open() checks the lines and forgets to keep them.
SeenFromNothing(lines) == [m \in {} |-> 0]

\* The seen table that open() rebuilds from the lines.
SeenFrom(lines) ==
    [m \in IdsOf(lines) |->
        lines[CHOOSE i \in 1 .. Len(lines) : lines[i].id = m].at]

(***************************************************************************)
(* ClockPolicy::validate_envelope, the gate every caller passes first: the *)
(* times at which message m is accepted by the clock check.                *)
(***************************************************************************)
ClockAccepts(m, t) == InTime([issued |-> Issued[m], expires |-> Expires[m]], t)

\* A slip to detect: the record of the last accepted second is dropped.
LiveExclusive(t) == {m \in DOMAIN seen : seen[m] > t - Retention}

\* prune_memory: drop what is older than the retention interval.
Live(t) == {m \in DOMAIN seen : seen[m] >= t - Retention}
Pruned(t) == [m \in Live(t) |-> seen[m]]

With(table, m, t) ==
    [x \in DOMAIN table \cup {m} |-> IF x = m THEN t ELSE table[x]]

NeedsCompaction ==
    \/ Len(inode.lines) >= CompactAt
    \/ Len(inode.lines) + 1 > MaxLog

(***************************************************************************)
(* The lines a compaction at time t writes: the retained entries, in the   *)
(* order of their ids, which the ids alone determine.                      *)
(***************************************************************************)
IsOrder(order, S) ==
    /\ order \in [1 .. Cardinality(S) -> S]
    /\ \A i, j \in DOMAIN order : order[i] = order[j] => i = j
    /\ \A m \in S : \E i \in DOMAIN order : order[i] = m

OrderOf(S) == CHOOSE order \in [1 .. Cardinality(S) -> S] : IsOrder(order, S)

Compacted(t) ==
    [i \in 1 .. Cardinality(Live(t)) |->
        [id |-> OrderOf(Live(t))[i], at |-> seen[OrderOf(Live(t))[i]]]]

Synced(lines) == [lines |-> lines, synced |-> Len(lines), torn |-> "none"]

\* A slip to detect: the record is written and flushed, not fsynced.
AppendedUnsynced(file, m, t) ==
    [lines  |-> Append(file.lines, [id |-> m, at |-> t]),
     synced |-> file.synced,
     torn   |-> IF file.torn = "none" THEN "none" ELSE "sealed"]

\* A record that was written, flushed and fsynced.
Appended(file, m, t) ==
    [lines  |-> Append(file.lines, [id |-> m, at |-> t]),
     synced |-> Len(file.lines) + 1,
     torn   |-> IF file.torn = "none" THEN "none" ELSE "sealed"]

\* What a failed append leaves: nothing, a partial record, or the whole
\* record without the fsync.
FailedAppends(file, m, t) ==
    {file,
     [file EXCEPT !.torn = IF @ = "none" THEN "tail" ELSE @],
     [file EXCEPT !.lines = Append(@, [id |-> m, at |-> t]),
                  !.torn = IF @ = "none" THEN "none" ELSE "sealed"]}

-----------------------------------------------------------------------------
\* The directory was synced: the path names this file after every crash.
DirectorySynced ==
    /\ entry' = "synced"
    /\ older' = {}
    /\ inherited' = {}

Init ==
    /\ now = 0
    /\ open = FALSE
    /\ seen = [m \in {} |-> 0]
    /\ disk = EmptyFile
    /\ inode = EmptyFile
    /\ unlinked = FALSE
    /\ entry = "absent"
    /\ older = {}
    /\ inherited = {}
    /\ fresh = [m \in MsgId |-> 0]
    /\ takenBack = [m \in MsgId |-> 0]

Tick ==
    /\ now' = now + 1
    /\ UNCHANGED storeVars

\* The path claim is taken, and the handle is on the file the path names.
Opened ==
    /\ ~open
    /\ open' = TRUE
    /\ seen' = SeenFrom(disk.lines)
    /\ inode' = disk
    /\ unlinked' = FALSE
    /\ UNCHANGED <<now, disk, historyVars>>

(***************************************************************************)
(* DurableReplayStore::open.  The path claim admits one live handle.  A    *)
(* log that is there is read without a look at the directory, or refused   *)
(* by Openable, when nothing changes; an absent one is created and its     *)
(* directory synced.                                                       *)
(***************************************************************************)
Open ==
    /\ Opened
    /\ \/ /\ entry # "absent"
          /\ Openable(disk)
          /\ UNCHANGED directoryVars
       \/ /\ entry = "absent"
          /\ DirectorySynced

\* open() created the log and its directory was not synced, because the
\* sync failed or the process ended: the next open() finds a log.
OpenFails ==
    /\ ~open
    /\ entry = "absent"
    /\ entry' = "unsynced"
    /\ UNCHANGED <<now, open, seen, disk, inode, unlinked, older, inherited,
                   historyVars>>

\* check_and_record(m, t) answers Replay.
Replayed(m, t) ==
    /\ open
    /\ m \in Live(t)
    /\ seen' = Pruned(t)
    /\ UNCHANGED <<now, open, disk, inode, unlinked, directoryVars, historyVars>>

\* The file the handle appends to becomes this one, by whatever name.
HandleFile(file) ==
    /\ inode' = file
    /\ disk' = IF unlinked THEN disk ELSE file
    /\ older' = IF inode \in older THEN (older \ {inode}) \cup {file} ELSE older
    /\ UNCHANGED <<unlinked, entry, inherited>>

\* compact() succeeded and left these lines: the handle is on the new file.
Rewritten(file) ==
    /\ inode' = file
    /\ disk' = file
    /\ unlinked' = FALSE
    /\ DirectorySynced

(***************************************************************************)
(* check_and_record(m, t) answers FreshRecorded: the record is appended,   *)
(* after a compaction when the log has reached the threshold.              *)
(***************************************************************************)
Recorded(m, t) ==
    /\ open
    /\ m \notin Live(t)
    /\ \/ /\ ~NeedsCompaction
          /\ HandleFile(Appended(inode, m, t))
       \/ /\ NeedsCompaction
          /\ Cardinality(Live(t)) + 1 <= MaxLog
          /\ Rewritten(Appended(Synced(Compacted(t)), m, t))
    /\ seen' = With(Pruned(t), m, t)
    /\ fresh' = [fresh EXCEPT ![m] = @ + 1]
    /\ UNCHANGED <<now, open, takenBack>>

(***************************************************************************)
(* check_and_record(m, t) fails in the append (write, flush or fsync): an  *)
(* error is returned and m is not entered into seen.                       *)
(***************************************************************************)
AppendFails(m, t) ==
    /\ open
    /\ m \notin Live(t)
    /\ \/ /\ ~NeedsCompaction
          /\ \E file \in FailedAppends(inode, m, t) : HandleFile(file)
       \/ /\ NeedsCompaction
          /\ Cardinality(Live(t)) + 1 <= MaxLog
          /\ \E file \in FailedAppends(Synced(Compacted(t)), m, t) :
                Rewritten(file)
    /\ seen' = Pruned(t)
    /\ UNCHANGED <<now, open, historyVars>>

\* replay_active_window_too_large: the compacted log has no room for m.
WindowTooLarge(m, t) ==
    /\ open
    /\ m \notin Live(t)
    /\ NeedsCompaction
    /\ Cardinality(Live(t)) + 1 > MaxLog
    /\ Rewritten(Synced(Compacted(t)))
    /\ seen' = Pruned(t)
    /\ UNCHANGED <<now, open, historyVars>>

\* The new file is renamed over the old one and the handle is still on that.
Renamed(file) ==
    /\ disk' = file
    /\ unlinked' = TRUE

(***************************************************************************)
(* compact() fails: before the rename, when nothing but the temporary file *)
(* changed; in the sync of the directory; or, the directory synced, in     *)
(* reopening the path.                                                     *)
(***************************************************************************)
CompactionFails(m, t) ==
    /\ open
    /\ m \notin Live(t)
    /\ NeedsCompaction
    /\ \/ UNCHANGED <<disk, unlinked, directoryVars>>
       \/ /\ Renamed(Synced(Compacted(t)))
          /\ older' = older \cup {disk}
          /\ UNCHANGED <<entry, inherited>>
       \/ /\ Renamed(Synced(Compacted(t)))
          /\ DirectorySynced
    /\ seen' = Pruned(t)
    /\ UNCHANGED <<now, open, inode, historyVars>>

(***************************************************************************)
(* The process ends, in an orderly way or killed.  The files keep what was *)
(* written to them, synced or not, and the directory stays as unsynced as  *)
(* it is.  An end inside check_and_record leaves the files as one of its   *)
(* failures does, and is that failure followed by this step.               *)
(***************************************************************************)
ProcessEnds ==
    /\ open
    /\ open' = FALSE
    /\ seen' = [m \in {} |-> 0]
    /\ inode' = disk
    /\ unlinked' = FALSE
    /\ older' = {}
    /\ inherited' = inherited \cup older
    /\ UNCHANGED <<now, disk, entry, historyVars>>

\* What the end of the machine leaves of a file: its synced lines, and any
\* part of the others.
AfterCrash(file) ==
    {f \in {[lines |-> SubSeq(file.lines, 1, k), synced |-> k, torn |-> torn] :
                k \in file.synced .. Len(file.lines),
                torn \in {"none", "tail", "sealed"}} :
        \/ f.torn = file.torn
        \/ file.torn = "tail" /\ f.torn = "none"
        \/ file.torn = "none" /\ f.torn = "tail" /\ f.synced < Len(file.lines)}

\* The answers whose records are in the log and not in these lines.
LostWith(lines) ==
    [m \in MsgId |-> IF m \in IdsOf(disk.lines) \ IdsOf(lines) THEN fresh[m]
                                                             ELSE takenBack[m]]

(***************************************************************************)
(* The machine stops, with a live handle or without.  What was not fsynced *)
(* may be lost: lines, and the last renames.  When a process ended before  *)
(* its directory was synced, the records that later processes made may go  *)
(* with them, and with a creation the whole log.                           *)
(***************************************************************************)
MachineCrash ==
    /\ open' = FALSE
    /\ seen' = [m \in {} |-> 0]
    /\ \/ /\ \E file \in {disk} \cup older : disk' \in AfterCrash(file)
          /\ entry' = IF entry = "unsynced" THEN "synced" ELSE entry
          /\ UNCHANGED takenBack
       \/ /\ \E file \in inherited : disk' \in AfterCrash(file)
          /\ entry' = "synced"
          /\ takenBack' = LostWith(disk'.lines)
       \/ /\ entry = "unsynced"
          /\ entry' = "absent"
          /\ disk' = EmptyFile
          /\ takenBack' = LostWith(<<>>)
    /\ inode' = disk'
    /\ unlinked' = FALSE
    /\ older' = {}
    /\ inherited' = {}
    /\ UNCHANGED <<now, fresh>>

\* One call of check_and_record(m, t).
CheckAndRecord(m, t) ==
    \/ Replayed(m, t)
    \/ Recorded(m, t)
    \/ AppendFails(m, t)
    \/ WindowTooLarge(m, t)
    \/ CompactionFails(m, t)

\* The callers pass the clock gate with the time they pass on.
Call(m) == ClockAccepts(m, now) /\ CheckAndRecord(m, now)

Next ==
    \/ Tick
    \/ Open
    \/ OpenFails
    \/ \E m \in MsgId : Call(m)
    \/ ProcessEnds
    \/ MachineCrash

Spec == Init /\ [][Next]_vars

-----------------------------------------------------------------------------
\* The types of the variables.
TypeOK ==
    /\ now \in Int
    /\ open \in BOOLEAN
    /\ DOMAIN seen \subseteq MsgId
    /\ seen \in [DOMAIN seen -> Int]
    /\ disk \in File
    /\ inode \in File
    /\ unlinked \in BOOLEAN
    /\ entry \in {"absent", "unsynced", "synced"}
    /\ older \subseteq File
    /\ inherited \subseteq File
    /\ fresh \in [MsgId -> Nat]
    /\ takenBack \in [MsgId -> Nat]

\* m was answered FreshRecorded, and no crash has taken the record back since.
StillFresh(m) == fresh[m] > takenBack[m]

(***************************************************************************)
(* No message id is answered FreshRecorded twice, whatever the pruning,    *)
(* the compactions, their failures, the crashes and the restarts between   *)
(* the two calls (API.md, "Replay retention and compaction"), unless the   *)
(* machine stopped and took the record with a directory entry that an      *)
(* earlier process had left unsynced.                                      *)
(***************************************************************************)
AtMostOnceFresh == \A m \in MsgId : fresh[m] <= takenBack[m] + 1

(***************************************************************************)
(* What the store answered FreshRecorded is on stable storage for as long  *)
(* as the clock gate can pass the message again: in the file the path      *)
(* names, and in those that a crash may give it back after the failed      *)
(* compactions of the handle that answered.                                *)
(***************************************************************************)
OnStableStorage(m, file) ==
    \E i \in 1 .. file.synced : file.lines[i].id = m

FreshIsDurable ==
    \A m \in MsgId :
        StillFresh(m) /\ ClockAccepts(m, now) =>
            \A file \in {disk} \cup older : OnStableStorage(m, file)

(***************************************************************************)
(* "When a new replay-log file is created, its parent directory entry is   *)
(* also fsynced before the store can report freshness" (CRYPTOGRAPHY.md):  *)
(* nothing is fresh in a log whose creation a crash can undo.              *)
(***************************************************************************)
CreationIsSynced ==
    \A m \in MsgId : StillFresh(m) => entry # "unsynced"

(***************************************************************************)
(* "The append log is atomically compacted and fsynced", and "records are  *)
(* retained for the full interval" (the comment of DurableReplayStore): no *)
(* file that a crash gives the path back lacks a record of a fresh answer  *)
(* whose message can still pass the clock gate.                            *)
(***************************************************************************)
RenamesAreSynced ==
    \A m \in MsgId :
        StillFresh(m) /\ ClockAccepts(m, now) =>
            \A file \in inherited : OnStableStorage(m, file)

(***************************************************************************)
(* A handle left behind by a failed compaction never takes an append: the  *)
(* file it is on is still at the threshold, so every later call compacts   *)
(* again first.  Without this an answer of FreshRecorded would be written  *)
(* to a file that no path names.                                           *)
(***************************************************************************)
OrphanedHandleIsFull == unlinked => NeedsCompaction

(***************************************************************************)
(* The store implements the promise of AtMostOnce, that knows no log and   *)
(* no pruning: an answer of FreshRecorded admits the message, every other  *)
(* step of the store admits nothing, and a crash takes answers back only   *)
(* after a sync of the directory that failed.                              *)
(***************************************************************************)
Promise == INSTANCE AtMostOnce WITH
    Opens    <- [m \in MsgId |-> Issued[m] - Skew],
    Closes   <- [m \in MsgId |-> Expires[m] + Skew],
    admitted <- fresh,
    lost     <- takenBack,
    synced   <- (entry # "unsynced" /\ inherited = {})

ImplementsAtMostOnce == Promise!Spec

(***************************************************************************)
(* "On restart the complete log is reloaded" (CRYPTOGRAPHY.md): a log that *)
(* no partial record damaged is accepted by the next open().               *)
(***************************************************************************)
RestartReloads == disk.torn = "none" => Openable(disk)

-----------------------------------------------------------------------------
(***************************************************************************)
(* The inductive strengthening of AtMostOnceFresh and FreshIsDurable.      *)
(***************************************************************************)
\* A message m that the clock gate passed at time t expires by then.
Timely(m, t) == Expires[m] <= t + Skew + Lifetime

\* A file that holds what it claims, and no record of a message that the clock
\* gate could not have passed at the time recorded.
GoodFile(file) ==
    /\ file \in File
    /\ file.synced <= Len(file.lines)
    /\ \A i \in 1 .. Len(file.lines) :
          Timely(file.lines[i].id, file.lines[i].at)

GoodFiles == \A file \in {disk, inode} \cup older \cup inherited : GoodFile(file)

SeenInWindow == \A m \in DOMAIN seen : Timely(m, seen[m])

\* Only a live handle that was left behind has replaced a file without a sync.
HandleOnPath == ~(open /\ unlinked) => inode = disk /\ older = {}

\* A log that is not there is empty, and no handle is on it.
NothingIsEmpty == entry = "absent" => ~open /\ disk = EmptyFile

\* Only what was answered is taken back.
LostWereFresh == \A m \in MsgId : takenBack[m] <= fresh[m]

\* A message that may still pass the clock gate has not been forgotten.
StillInWindow(m) == Expires[m] >= now - Skew

Kept(m) ==
    /\ \A file \in {disk} \cup older : OnStableStorage(m, file)
    /\ open => m \in DOMAIN seen

Remembered == \A m \in MsgId : StillFresh(m) /\ StillInWindow(m) => Kept(m)

\* What a caller keeps that passes a time it read before it took the lock.
Sound ==
    /\ TypeOK
    /\ GoodFiles
    /\ SeenInWindow
    /\ HandleOnPath
    /\ NothingIsEmpty
    /\ LostWereFresh
    /\ OrphanedHandleIsFull
    /\ Remembered

IInv == Sound /\ AtMostOnceFresh
=============================================================================
