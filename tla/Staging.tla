-------------------------------- MODULE Staging --------------------------------
(***************************************************************************)
(* How the graduation tools read a file that others may be writing: the    *)
(* hash of an archive and its copy into the cargo template, the worktree   *)
(* files compared with the commit, the snapshot of the Rust toolchain, the *)
(* executables that are pinned by a descriptor and run later, the modules  *)
(* that are loaded from their reviewed bytes (tools/moriarty_isolation.py, *)
(* tools/run_moriarty.py, tools/validate_phase9_gate.py).                  *)
(*                                                                         *)
(* A file is a sequence of chunks, which a reader takes one by one; between*)
(* two of its steps a writer changes a chunk, appends, truncates, or moves *)
(* another file to the name. Access bits, the device and directories are   *)
(* left out: a name leads to a regular file or to nothing that is read.    *)
(***************************************************************************)
EXTENDS Integers, Sequences

CONSTANTS
    Object,     \* files, as the kernel tells them apart
    Ino,        \* inode numbers, which are used again
    Contents,   \* what a file holds before anything is written to it in the run
    Reviewed,   \* what the commit, or Cargo.lock, says the file holds
    Epoch,      \* the last stamp given before the run
    MaxChunks,  \* bound of the model: a file grows no further
    Limit,      \* the most a bounded reader takes
    NoFile

ASSUME StagingAssumption ==
    /\ Epoch \in Nat /\ MaxChunks \in Nat /\ Limit \in Nat
    /\ Contents \subseteq Seq(0..Epoch)
    /\ Reviewed \in Seq(Nat)
    /\ NoFile \notin Object

\* hash:     _sha256_regular_file
\* worktree: _worktree_file_matches
\* stage:    _stable_stage_source
\* copy:     _copy_regular_file without a checksum (the cargo index)
\* archive:  a hash that selects the archive, then a copy with its checksum
\* pin:      _trusted_executable, then trusted_capture_bounded or run_probe
\* load:     _load_verified_source_module
Reader == {"hash", "worktree", "stage", "copy", "archive", "pin", "load"}

VARIABLES
    file,       \* of an object: inode number, modification stamp, chunks
    path,       \* the object the name leads to
    clock,      \* the last stamp given
    stamped,    \* every write is given a stamp of its own
    reader,     \* what is done
    pc,         \* where it is
    round,      \* 2 when an archive that was selected is copied
    seen,       \* stat of the name, before it is opened
    opened,     \* fstat of the descriptor, when it was opened
    fd,         \* the object that is open
    data,       \* chunks read
    again,      \* chunks read by the second pass of a snapshot
    atOpen,     \* ghost: what the file held when it was opened
    mid,        \* ghost: what it held at the end of the first pass
    used        \* what the tools go on with, once the file is accepted

disk == <<file, path, clock, stamped>>
vars == <<disk, reader, pc, round, seen, opened, fd, data, again, atOpen, mid, used>>

Stat(o) == [ino |-> file[o].ino, mtime |-> file[o].mtime, size |-> Len(file[o].data)]
NoStat == [ino |-> 0, mtime |-> 0, size |-> 0]

Init ==
    /\ file \in [Object -> [ino : Ino, mtime : {0}, data : Contents]]
    /\ \A o, p \in Object : o # p => file[o].ino # file[p].ino
    /\ path \in Object \cup {NoFile}
    /\ clock = Epoch
    /\ stamped \in BOOLEAN
    /\ reader = "hash" /\ pc = "idle" /\ round = 1
    /\ seen = NoStat /\ opened = NoStat /\ fd = NoFile
    /\ data = <<>> /\ again = <<>> /\ atOpen = <<>> /\ mid = <<>> /\ used = <<>>

-----------------------------------------------------------------------------
(***************************************************************************)
(* The writers. Where stamps are coarse (writes within one tick of the     *)
(* file system's clock share one), what is written was never written       *)
(* before; where every write has its own stamp, old bytes may come back.   *)
(***************************************************************************)

reading == <<reader, pc, round, seen, opened, fd, data, again, atOpen, mid, used>>

Stamp(o) == IF stamped THEN {clock + 1} ELSE {file[o].mtime, clock + 1}
Written == IF stamped THEN 0..(clock + 1) ELSE {clock + 1}

Put(o, content) ==
    /\ \E m \in Stamp(o) :
          file' = [file EXCEPT ![o] = [ino |-> file[o].ino, mtime |-> m, data |-> content]]
    /\ clock' = clock + 1
    /\ UNCHANGED <<path, stamped, reading>>

Overwrite(o) ==
    \E i \in DOMAIN file[o].data, v \in Written : Put(o, [file[o].data EXCEPT ![i] = v])

Extend(o) ==
    /\ Len(file[o].data) < MaxChunks
    /\ \E v \in Written : Put(o, Append(file[o].data, v))

Truncate(o) ==
    \E n \in 0..(Len(file[o].data) - 1) : Put(o, SubSeq(file[o].data, 1, n))

\* Another file takes the name: with a stamp it may have kept from before, and
\* an inode number that may have been another file's.
Replace(o) ==
    /\ o \notin {path, fd}
    /\ \E i \in Ino \ {file[p].ino : p \in Object \ {o}}, m \in 0..clock, c \in Contents :
          file' = [file EXCEPT ![o] = [ino |-> i, mtime |-> m, data |-> c]]
    /\ path' = o
    /\ clock' = clock + 1
    /\ UNCHANGED <<stamped, reading>>

\* The file is removed, or a link or a directory takes the name.
Remove ==
    /\ path # NoFile
    /\ path' = NoFile
    /\ UNCHANGED <<file, clock, stamped, reading>>

Disturb ==
    \/ \E o \in Object : Overwrite(o) \/ Extend(o) \/ Truncate(o) \/ Replace(o)
    \/ Remove

-----------------------------------------------------------------------------
(***************************************************************************)
(* The readers.                                                            *)
(***************************************************************************)

\* What the current pass over an archive is like.
As == IF reader = "archive" THEN (IF round = 1 THEN "hash" ELSE "copy") ELSE reader

\* The copy of an archive is not bounded, nor is a worktree file or a module.
Bounded == reader \in {"hash", "stage", "copy"} \/ (reader = "archive" /\ round = 1)

Refuse ==
    /\ pc' = "refused"
    /\ UNCHANGED <<round, seen, opened, fd, data, again, atOpen, mid, used>>

Begin(r) ==
    /\ pc \in {"idle", "refused", "accepted"}
    /\ reader' = r
    /\ pc' = IF r = "load" THEN "open" ELSE "look"
    /\ round' = 1
    /\ seen' = NoStat /\ opened' = NoStat /\ fd' = NoFile
    /\ data' = <<>> /\ again' = <<>> /\ atOpen' = <<>> /\ mid' = <<>> /\ used' = <<>>
    /\ UNCHANGED disk

\* stat of the name.
Look ==
    /\ pc = "look"
    /\ IF \/ path = NoFile
          \/ As \in {"hash", "stage"} /\ Len(file[path].data) > Limit
          \/ reader = "worktree" /\ Len(file[path].data) # Len(Reviewed)
         THEN Refuse
         ELSE /\ seen' = Stat(path)
              /\ pc' = "open"
              /\ UNCHANGED <<round, opened, fd, data, again, atOpen, mid, used>>
    /\ UNCHANGED <<disk, reader>>

\* open by name and fstat: which part of what stat said must still be so.
SameFile(now) ==
    CASE As \in {"hash", "pin"} -> now = seen
      [] As = "worktree"        -> now.ino = seen.ino /\ now.size = seen.size
      [] OTHER                  -> TRUE

Open ==
    /\ pc = "open"
    /\ IF path = NoFile
         THEN Refuse
         ELSE IF ~SameFile(Stat(path)) THEN Refuse
         ELSE /\ fd' = path
              /\ opened' = Stat(path)
              /\ atOpen' = file[path].data
              /\ pc' = IF reader = "pin" THEN "pinned" ELSE "read"
              /\ UNCHANGED <<round, seen, data, again, mid, used>>
    /\ UNCHANGED <<disk, reader>>

\* trusted_executable_matches: of the descriptor, whatever the name leads to.
Matches == Stat(fd) = opened

\* Before a pinned executable is run; the kernel then reads it as it is.
CheckPinned ==
    /\ pc = "pinned"
    /\ IF Matches
         THEN pc' = "read" /\ UNCHANGED <<round, seen, opened, fd, data, again, atOpen, mid, used>>
         ELSE Refuse
    /\ UNCHANGED <<disk, reader>>

AtEnd(read) == Len(read) >= Len(file[fd].data)
NextChunk(read) == Append(read, file[fd].data[Len(read) + 1])

Read ==
    /\ pc = "read"
    /\ IF AtEnd(data)
         THEN /\ mid' = file[fd].data
              /\ pc' = IF reader = "stage" THEN "reread" ELSE "verify"
              /\ UNCHANGED <<round, seen, opened, fd, data, again, atOpen, used>>
         ELSE IF Bounded /\ Len(data) = Limit THEN Refuse
         ELSE /\ data' = NextChunk(data)
              /\ UNCHANGED <<pc, round, seen, opened, fd, again, atOpen, mid, used>>
    /\ UNCHANGED <<disk, reader>>

\* The second pass of a snapshot, which has no bound of its own.
Reread ==
    /\ pc = "reread"
    /\ IF AtEnd(again)
         THEN pc' = "verify" /\ UNCHANGED again
         ELSE again' = NextChunk(again) /\ UNCHANGED pc
    /\ UNCHANGED <<disk, reader, round, seen, opened, fd, data, atOpen, mid, used>>

\* A slip to detect: the stamp is not compared.
SameSize(now, then) == now.ino = then.ino /\ now.size = then.size

Same(now, then) == now = then

\* A slip to detect: an archive that was selected by its hash is copied as it is.
CopiedAsItIs == reader # "archive" \/ round = 1 => data = Reviewed

\* The digest that is compared with the reviewed one, where there is one.
Expected == reader \in {"worktree", "archive", "load"} => data = Reviewed

\* A slip to detect: an executable is checked before it is run only.
CheckedBefore == TRUE

CheckedAfter == Matches

Verified ==
    /\ As \in {"hash", "worktree"} => Same(Stat(fd), opened) /\ Len(data) = opened.size
    /\ As = "stage" => Len(data) = seen.size /\ data = again /\ Same(Stat(fd), seen)
    /\ As = "pin" => CheckedAfter
    /\ Expected

\* The copies are of what was read (their digest is taken again); a module is
\* compiled from the reviewed bytes the file was compared with.
Verify ==
    /\ pc = "verify"
    /\ IF ~Verified
         THEN Refuse
         ELSE IF reader = "archive" /\ round = 1
         THEN /\ round' = 2
              /\ data' = <<>> /\ fd' = NoFile
              /\ pc' = "open"
              /\ UNCHANGED <<seen, opened, again, atOpen, mid, used>>
         ELSE /\ used' = IF reader = "load" THEN Reviewed ELSE data
              /\ pc' = "accepted"
              /\ UNCHANGED <<round, seen, opened, fd, data, again, atOpen, mid>>
    /\ UNCHANGED <<disk, reader>>

Next ==
    \/ Disturb
    \/ \E r \in Reader : Begin(r)
    \/ Look \/ Open \/ CheckPinned \/ Read \/ Reread \/ Verify

Spec == Init /\ [][Next]_vars

-----------------------------------------------------------------------------

Stats == [ino : Ino \cup {0}, mtime : Nat, size : Nat]

TypeOK ==
    /\ file \in [Object -> [ino : Ino, mtime : Nat, data : Seq(Nat)]]
    /\ path \in Object \cup {NoFile} /\ fd \in Object \cup {NoFile}
    /\ clock \in Nat /\ stamped \in BOOLEAN
    /\ reader \in Reader /\ round \in {1, 2}
    /\ pc \in {"idle", "look", "open", "pinned", "read", "reread", "verify", "accepted", "refused"}
    /\ seen \in Stats /\ opened \in Stats
    /\ data \in Seq(Nat) /\ again \in Seq(Nat)
    /\ atOpen \in Seq(Nat) /\ mid \in Seq(Nat) /\ used \in Seq(Nat)
    /\ pc \in {"pinned", "read", "reread", "verify"} => fd \in Object

\* What is accepted was in the file at one moment: a hash and a worktree file
\* when it was opened, where no two writes share a stamp; a snapshot at the end
\* of its first pass, whatever the stamps say (_stable_stage_source reads twice).
OneVersion ==
    pc = "accepted" =>
        /\ stamped /\ reader \in {"hash", "worktree"} => used = atOpen
        /\ reader = "stage" => used = mid

\* What goes into the cargo template, and what is loaded, is what was reviewed,
\* although the file is opened by name after it was checked
\* (create_verified_cargo_template, _load_verified_source_module).
ReviewedIsUsed ==
    pc = "accepted" /\ reader \in {"archive", "load", "worktree"} => used = Reviewed

\* What was run is what was pinned, for a probe whose result is taken: whatever
\* took its name meanwhile, and whoever wrote to it (trusted_executable_matches).
PinnedIsRun ==
    pc = "accepted" /\ reader = "pin" /\ stamped => used = atOpen
=============================================================================
