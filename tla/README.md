# QSOL-FED in TLA+

This directory holds TLA+ models of two halves of the repository, the TLC
configurations that check them on small instances and the theorems TLAPS proves
about them:

- the **reference node** (`src/*.rs`): its replay store, identities, HTTP
  service, peer registry and Assembly;
- the **graduation tools** (`tools/*.py`): the MORIARTY/1 harness, which runs
  fixed probes of an exact commit in a sandbox, and the gate that judges its
  report; the NEXUS live adapter; the reading of the Lean sources by the
  phase 10 gate.

Paths below are relative to the repository root.  `PROJECT.json` maps every
definition to the lines it stands for and lists the hazards, with the
properties that cover each.

## The system

The node is a library of stores, records and checks with one network service on
top.  Every part is sequential code over its own state; concurrency comes from
the HTTP service, whose handlers run in parallel over locked state, and failure
comes from the file system and from the end of the process.

The harness is one thread.  Its concurrency is with everything around it: the
processes of a probe, which it does not trust; writers of the files it reads;
another run of the gate in the same directory; an operator who changes the
checkout; the end of its own process.

| Component | State | Operations | What makes it correct |
|---|---|---|---|
| Replay store (`src/replay.rs`) | table of seen ids, append log, the file handle | `open`, `check_and_record` (prune, compact, append) | a message is fresh once; a fresh answer is durable; a restart can read the log |
| Identity (`src/crypto.rs`) | operational keys with windows and statuses, current key, sequence | `from_document`, `apply_rotation`, `apply_key_status`, `verify_signed_envelope` | revoked and retired keys never come back; rotations leave no gap; overlaps are bounded |
| Service (`src/api.rs`) | introduced peers, replay store, audit log, rate buckets | `post_peer_hello`, `post_envelope`, the GET routes, `security_middleware` | order of authentication, replay record, audit and answer; what a handler copied is of the registry's past; limits per client and minute |
| Peering (`src/peering.rs`) | `peers/<id>.json`, trust and capability tables | `introduce`, `import_quarantined`, `transition`, `disconnect`, `confirm_rejoin`, ... | lifecycle prefix, revocation is final, rejoin restores the state before |
| Assembly (`src/assembly.rs`) | members, proposals, electorates, votes | `admit_member`, `withdraw_member`, `submit_proposal`, `cast_vote`, `finalize`, ... | one vote per subject of a frozen electorate; terminal receipts |
| Probe isolation (`tools/moriarty_isolation.py`) | the probe's cgroup, pidfds, the writable roots | the seccomp, Landlock and limit policies, `probe_writable_tree_within_limits`, `_suspend_probe_cgroup`, `kill_probe_cgroup` | a probe can do what the policy names; the accounting is of one state; only the probe is signalled, and it is let go |
| Probe runner (`tools/run_moriarty.py`) | a child, two pipes, five deadlines | `run_probe`, `_run_probe_with_cleanup` | a green verdict is a clean end; evidence is the probe's; nothing survives; every probe ends |
| File staging and pinned executables (both) | descriptors, digests, stats | hash, copy, worktree comparison, toolchain snapshot, pinned run, verified module | what is accepted was one version; what was reviewed is what is used |
| Probe inputs (both) | none | manifest topology, build-hook scan, Cargo homes, module finder | no code reaches a probe that was not reviewed |
| Toolchain discovery (both) | none | the search for cargo, rustc and rustup, the staged runtime | one toolchain, pinned |
| Graduation and the phase 9 gate (`tools/run_moriarty.py`, `tools/validate_phase9_gate.py`) | the report file, the cache of a commit's files, the results | `main` of both, the replays of counterexamples, `execute_exact_commit_gate`, the report checks | a pass was earned on the target's own files and is of this run's report |
| NEXUS live adapter (`tools/nexus_live_adapter.py`) | none | checkout attestation, verification, projection | a report is what the pinned verifier saw |
| Lean reading (`tools/validate_phase10_gate_base.py`) | none | `_lean_code_only`, `_lean_fully_qualified_theorems`, `verify_*` | code is told from comments and strings; the theorems that are read are audited under Lean's names; no axiom slips in |
| Foreign-state store (`src/store.rs`) | namespaces, move markers, local descendants | `put_foreign`, `move_namespace`, `recover_namespace_moves`, ... | one namespace per object; an interrupted move is completed |
| Transports (`src/transport.rs`), bundles (`src/bundle.rs`) | bounded queue, relay chains; none | queue and relay operations; export, verify, import | bounds, order; an import adds quarantined state only |
| Holodeck (`src/holodeck.rs`), Oracle adapter (`src/oracle_live.rs`) | running, frozen or ended; a child process | `record_synthetic_*`, `freeze`, `end_program`; `request` | nothing after the end; a deadline ends the child |
| Canonical JSON, wire, claims, adapters, SDKs, validators, Lean | none | parsing, formatting, comparison with constants | see "Not modelled" |

Interactions: `post_envelope` calls identity, the replay store and the audit
log; `post_peer_hello` rebuilds an identity record by record; the peering
registry stores the same identities on disk; the retention of the replay store
is chosen from the clock policy.  The gate starts the runner as a child and
reads its report from a path both agree on; the runner exports commits, stages
executables, runs probes in the sandbox, scans their directories while they
run, and replays the accepted counterexamples.  The NEXUS adapter turns sealed
council sessions into the reports the Assembly takes as advisory.

The hard behaviours: two handlers between a clock reading and a lock; a crash,
a failed fsync, a failed rename or a directory that was not synced between the
steps of a durable write;
sequences of individually legal lifecycle records; the arithmetic of lifetime,
skew and retention meeting in one second; pids that are reused between a
listing and a signal; processes that fork while they are being stopped; five
timers that race for the verdict of a probe; files written between a check and
a use; a report published at the path another gate reads.

## The modules

| Module | Models | Notes |
|---|---|---|
| `AtMostOnce` | the promise of replay protection | abstract: a message is admitted inside its window, and once, unless a crash takes back what was left unsynced |
| `ClockPolicy` | `ClockPolicy::validate_envelope` | shared by the next two |
| `ReplayStore` | `replay.rs` | implements `AtMostOnce` |
| `Identity`, `NodeIdentity` | identity state and lifecycle records; the life of one identity | operators; a state machine on them |
| `Lifecycle` | the loop that rebuilds an identity from its records | shared by the next two |
| `EnvelopeAdmission` | `post_peer_hello`, `post_envelope` | composes `Lifecycle` with `ReplayStore`, whose variables and operators it shares |
| `PeerRegistry` | the durable record of one peer | on top of `Lifecycle` |
| `RateLimiter` | the limiter of `security_middleware` | |
| `Ballots` | the decisions the Assembly promises | abstract: a ballot opens, is voted on and is decided once |
| `Assembly` | `assembly.rs` | implements `Ballots` |
| `NexusAdapter` | the NEXUS live adapter | functions |
| `AssemblyReports` | the Assembly with the reports it hears of | instantiates the former |
| `ProbeSandbox` | what a probe may ask of the kernel | functions, extended by the next |
| `ProbeCgroup` | the stop, scan and release of a probe's cgroup, and its kill | |
| `ProbeRun` | `run_probe` and the cleanup around it | |
| `ReviewedCode`, `Toolchain` | the code and the tools a probe is given | functions |
| `ProbeLaunch` | a probe with what it is started on | instantiates the former with `ProbeRun` |
| `Staging` | seven ways of reading a file others may write | |
| `Graduation` | the gate, its runner and their report | |
| `LeanAudit` | how the phase 10 gate reads Lean | functions, instantiated by `Graduation` |
| `*_proofs` | | theorems about the module they are named for and what it is built from: `EnvelopeAdmission_proofs` has those about `Identity`, `Lifecycle`, `NodeIdentity` and `ReplayStore` too |
| `MC*` | | the constants and bounds of the small instances; `MCService` and `MCIdentities` put two of them side by side |

An operator whose comment begins "A slip to detect" is a plausible error in the
definition that follows it.  No specification uses it; `PROJECT.json` pairs
each with a property that fails when it takes the definition's place.

### ReplayStore

`seen` is the in-memory table.  A file is its lines, how many of them are
known to be on stable storage, and whether a partial record is in it.  `disk`
is the file the path names, `inode` the file the handle appends to; `unlinked`
says that a rename has separated them.  `Open`, `OpenFails`, `Replayed`,
`Recorded`, `AppendFails`, `WindowTooLarge` and `CompactionFails` are the
outcomes of `open` and `check_and_record`, each a whole call: the caller holds
the store's lock.

Which file the path names is a fact about its directory, and has to be synced
by itself.  `entry` says whether the creation of the log can still be undone by
a crash of the machine; `older` are the files that the live handle replaced by
a rename whose directory sync failed, and `inherited` those of the handles
before it.  `open` syncs the directory only of a log that it created: one that
is there is read as it is, with whatever `entry` and `inherited` an earlier
process left.  A call that ends in a directory sync makes the current file the
one that stays (`DirectorySynced`).

The end of the process and the end of the machine are two actions.
`ProcessEnds` loses the memory and keeps the files and the state of the
directory; an end inside a call leaves the files as one of the call's failures
does, so that failure followed by this step is that end.  `MachineCrash` keeps
any number of lines between what was synced and what was written, may leave the
last one torn, and gives the path its file, one of `older` or `inherited`, or
none if the creation was not synced.

All records have one length, so the byte limits are line counts.  `now` and the
window of each message are those of `ClockPolicy::validate_envelope`, which
every caller passes first (`Call`).  `fresh` counts the answers
`FreshRecorded`; `takenBack` those whose record was in the log and went with a
directory entry that an earlier process had left unsynced.

### Identity and NodeIdentity

A key id, its public key and its private key are one value; a signature is the
name of the key that made it, and a lifecycle record carries the set of roles
that signed it.  `RotationAdmitted` and `StatusAdmitted` are the early returns of
`apply_rotation` and `apply_key_status`, `Rotated` and `StatusApplied` their
assignments.  `Verifies` is the part of `verify_signed_envelope` that depends on
the key, `InTime` the clock policy, `Authentic` the whole verdict. `Lifecycle`
rebuilds an identity: `Rebuilding` is the identity after each prefix of the
records a peer presents, `Rebuilt` the last of these, or the error.  The state
machine of `NodeIdentity` has names of its own (`IdentityInit`, `IdentitySpec`,
`IdentityTypeOK`), and so have those of the service (`ServiceInit`, ...) and of
the limiter (`LimiterInit`, ...), as one module of theorems extends several of
them, and so do the small instances.

### EnvelopeAdmission

A request of `post_envelope` takes its steps where other handlers can run
between them: `LookUp` copies the identity under the read lock; `Authenticate`
reads the clock and verifies; `CheckReplay` is the critical section of the
replay store, with the time that `Authenticate` read; `Audit` or `AuditFails` is
the audit log, `Answer` the receipt.  `PeerHello` is `post_peer_hello`: the
rebuilt identity depends on the request alone, so the handler is the critical
section of the registry.  `Start` is `ApiState::new`, which fails where `open`
does.  `Stop` ends the process in any of these steps and keeps the audit log;
`MachineStops` may take any of its records, as they are written and flushed and
never fsynced.  `admit_effect` accepts every effect that a message class maps to,
so admission has one outcome.  `audited` counts the records that are in the audit
log, `unlogged` those that crashes took, `accepted` the answers of 202.

### RateLimiter

`ReadClock` is the first line of `security_middleware`, `Allow` the critical
section of `RateLimiter::allow`; requests wait between the two and may arrive
in another order.  `admitted` and `posted` count what passed of each minute,
`behind` remembers the clients whose bucket was given back to an earlier
minute.

### PeerRegistry

A peer has a file of its own, so the file of one peer shows every behaviour:
`record` is what a reader finds, `survivors` what may be there after a crash of
the machine.  `Replace` is `write_peer`: the record is validated and written to
a new file, which is renamed; if the sync of the directory then fails, the
caller sees an error, readers see the new record and a crash may bring an older
one back.  An operation that fails before the rename changes nothing and is not
a step.  `Introduce`, `Import` with `Quarantine` (the two writes of
`import_quarantined`, with a crash or a failure between them), `Transition`,
`Disconnect`, `ConfirmRejoin`, `Attach` and `RecordAdvert` are the public
operations; `Duplicate` is the answer to what is stored already.
`acknowledged` is the last record whose write was answered Ok, `consent`
whether an operator admitted the peer and has not withdrawn that.  Nothing in
the repository shares a registry between threads, so its operations follow one
another.

### Assembly, Ballots and NexusAdapter

`Assembly` has one action per operation of `FederationAssembly`.  The id of a
proposal is a digest of its sequence number, draft and electorate, and here it
is the record of these three; `electorates` is the snapshot that is kept apart
from it and compared with it by `finalize`.  Of a draft only the proposer, the
fork kind and the conflict with the charter are kept: the rest chooses labels
of the receipt.  `receipts` remembers what `finalize` has returned, with the
votes it counted.  `Ballots` says what a decision is without members,
capacities and charter; `DecidesByBallot` maps the n-th proposal, open or
finalized, to the n-th ballot.

`NexusAdapter` is the adapter as functions: a checkout is what `HEAD`, the ref
files and `packed-refs` say and the blob of each file; an export is bundles,
sessions, members and minority reports; a text is one of a few representatives
(plain, decomposed, a secret only once it is composed, too
long).  `FaithfulProjection` compares what comes out with what the pinned
verifier saw.

### ProbeSandbox

The two seccomp filters are the instruction sequences the code assembles, with
their relative jumps, and `Execute` interprets them; what the kernel does with
two filters, the stricter of the verdicts, is `Admitted`.  The Landlock ruleset
is the set of its rules with the rights the code masks for files.  A path is a
sequence of names.  `Preexec` is the order in which the child restricts
itself, `TmpfsRoot` the acceptance of a quota root.  `AsPromised` compares all
of it with what the docstrings say, for both machines, every syscall number a
filter mentions, the x32 form of some, and every claimed architecture; the
theorems do so for every number.

### ProbeCgroup

A process is an identity with a pid, threads and a state; `TaskStep` is the
kernel and the probe: fork, exit, threads, reaping, moves of directories, and
strangers that take over a pid.  The harness reads and signals one pid, thread
or directory at a time: `List`, `OpenPidfd`, `Revalidate`, `ProveIdentity`,
`Compare`, `Stop`, `Converge`, `ReadThreads`, `ReadStatus`, `ConfirmThreads`,
`ConfirmPids`, `Again` are the loop of `_suspend_probe_cgroup`; `ScanRoot` and
`Visit` the traversal with its restart; `Resumed` the release; `Kill` the
rounds of `kill_probe_cgroup`.  A read may fail (`ReadFails`).  The releasing
loop `SIGCONT` over the handles is one step, as nothing reads in between.
Bytes, entries and depth of a tree are one number, bounded by `MaxUnits`.

### ProbeRun

The five timers of `run_probe` count down by `Tick`.  One iteration of its loop
is `Top`, `Scan`, `Timers`, `Select` and `Events` (one stream after the other);
then `Wait`, `Waiting`, `Rewait`, `Leaks`, `Reap`, `FinalScan`, `Verdict` and
`Cleanup`.  The probe's processes write, block on a full pipe, close, fork and
exit between any two of them, and an orphan is adopted by the harness.  A scan
and a kill are steps here, as `ProbeCgroup` has their inside.  The timer
signals of `_timed_writable_check` are its time budget.

### ReviewedCode and Toolchain

The inputs of a probe, as functions over bounded inputs.  `ReviewedCode`: the
manifest with its tables, targets and hooks; the lock file, the registry cache
and the archives in it, read once to find build hooks and once more to be
copied (between the two the cache may lose files); the module path a Python
probe ends with.  What Cargo and Python do with these is external and at the
end of the module.  An archive is its own digest.  `Toolchain`: a host has files
in places, each with an inode, safe or not, a tool of a toolchain or rustup;
rustup answers with any path.

### Staging

A file has an inode number, a stamp and chunks; `Disturb` overwrites,
extends, truncates, replaces and removes between any two steps of a reader.
One reader per way of the code: `hash`, `worktree`, `stage`, `copy`, `archive`,
`pin` and `load`.  `stamped` says that no two writes share a stamp; the two
properties that rest on stamps say so, and the one of the snapshot, which reads
twice because of it, does not.

### Graduation

The gate (`StartGate`, `Load`, `Judge`) and the runner (`Prepare`, `RunProbe`,
`ReplayTarget`, `ReplayResolution`, `Conclude`, `Create`, `Write`, `Attest`,
`Exit`) with the four moments at which the checkout is checked, each in four
reads (`CheckHead`, `CheckClean`, `CheckTree`, `CheckHarness`).  In between the
checkout moves, another run's report appears or is removed, and the runner
dies.  `log` remembers what was run on which files.  The outcome of a probe is
one of `Outcome`; `ProbeRun` is what stands behind it.

### LeanAudit

A source is a sequence of character classes, or of lines once it is read.
`ReadNext` reads one character as the loop of `_lean_code_only` does, `NameNext`
one line with the stack of names; `Reading` and `Naming` are what they amount to,
functions of the place.  A theorem is found by `THEOREM_LINE_RE`, which is
narrower than Lean: a line of the kind "theorem" begins with that word and a
name the pattern matches, of which it takes the part before the first dot
(`NameRead`); a "hidden" line declares a theorem in any other form and is passed
over.  `verify_theorems` reads one file, `verify_no_custom_axioms` all of them.

`Misread`, `Unended`, `Misnamed` and `Unaudited` compare with Lean's own rules,
stated in the module: pieces that are code or not, and the scopes of `LeanNext`,
for which both kinds are theorems.  `AsRead` is what remains of a file's
theorems for the pattern.  So `AuditsTheSource` says that of the theorems *that
are read* each has Lean's name, up to its first dot, and is in the audit once;
and that nothing that passes has an axiom in any of its files.  It does not say
that every theorem is read, and not every one is.

## The runs

| Run | Checks | Shows |
|---|---|---|
| `replay_store` | `AtMostOnceFresh`, `FreshIsDurable`, `ImplementsAtMostOnce` | the store keeps its promise through pruning, failures and restarts, unless a crash of the machine undoes a directory entry that an earlier process left unsynced |
| `replay_store_creation` | `CreationIsSynced` (violated) | a message is fresh in a log whose creation was never synced |
| `replay_store_restart` | `RestartReloads` (violated) | a failed fsync and its retry leave a log the next `open` refuses |
| `service` | `AnsweredIsAudited`, `RecordsAreDurable`, `CopiesAreBehind`, `ReadmittedOnlyLate`, `LimitedInOrder` | the order of the handlers' effects under concurrency and crashes; a handler verifies with the registered identity or an earlier one; a stale clock reading can admit a message twice only after its window; the limits hold for requests that reach the bucket in order |
| `admission_stale_clock` | `AdmittedOnce` (violated) | a handler that waited for the replay lock admits a message again |
| `identities` | `AnswersAreKept`, `AdmissionIsExplicit`, `PermissionNeedsLiveKey`, `PartitionPointKept`, `NoTripleOverlap`, `NoGap`, `NeverRevalidated` | what was answered Ok is built upon through failed syncs and crashes; only an operator admits; a permission rests on a live key; a partition point stays; what the pairwise checks of lifecycle records add up to |
| `assembly` | `OneSubjectOneVote`, `NoDrift`, `CharterIsKept`, `DecidesByBallot`, `ProjectsFaithfully` | subjects vote once, electorates are frozen, decisions are made once and by two thirds; council reports are what the verifier saw |
| `suspension` | `CoherentSnapshot`, `ForeignUntouched`, `NothingLeftStopped`, `TasksAreReleased`, `SandboxIsPolicy` | a scan is of one state, only the probe is signalled, and what was stopped is let go, whatever forks, exits or takes over a pid; the sandbox admits what the policy names |
| `probe` | `GreenIsClean`, `EvidenceIsTheProbes`, `NothingSurvives`, `EveryProbeEnds`, `StartsReviewedCode`, `PinsOneToolchain` | a verdict is of a probe that is over; recorded evidence is its own; it always ends; its code was reviewed and its toolchain is one |
| `probe_truncated` | `TruncatedIsToolError` (violated) | a timed-out probe that overflows in the drain makes a report its own gate refuses |
| `staging` | `OneVersion`, `ReviewedIsUsed`, `PinnedIsRun` | what a check says of a file holds of what is used |
| `graduation` | `TypeOK`, `JudgesOwnReport`, `GraduationIsEarned`, `OneAuthor`, `AuditsTheSource` | a pass was earned by runs on the target's own files and is of this runner's report; the code of the Lean sources is kept, and the theorems that are read are named as Lean names them and audited |

`ProjectsFaithfully`, `SandboxIsPolicy`, `StartsReviewedCode`,
`PinsOneToolchain` and `AuditsTheSource` are about functions.  Each compares
the function with a reference definition over a bounded set of inputs and is
stated of one or of all initial states (`Once`), so that TLC evaluates it where a
run it belongs to starts.  It is no statement about that run's steps.

`service` has the handlers and the limiter, `identities` the registry of a peer
and the life of one identity.  The two parts of each share no variable, so
nothing is to be seen in their interleavings, and either moves from its initial
state while the other is in its own.

Every state machine has one type invariant, `TypeOK`.  The runs but `graduation`
leave it out; it is proved, or holds in the run of its module when it is put in
the place of the properties.

### The violations

Each of these checks what a document, a comment or a check of the repository
says, and TLC finds a behaviour of the code that contradicts it.  Four are runs
of `PROJECT.json`:

`RestartReloads` (`CRYPTOGRAPHY.md:185`: "On restart the complete log is
reloaded"): the fsync fails after the write, the line is in the file and the id
is not in the table; the service calls the failure retryable; the retry appends
a second line of the id; the next `open` refuses the log as a duplicate.

`CreationIsSynced` (`CRYPTOGRAPHY.md:185`: "its parent directory entry is also
fsynced before the store can report freshness"): `open` creates the log, and the
directory sync fails or the process ends before it; the next `open` sees a log
and does not sync (`src/replay.rs:145-154`); it reports freshness.

`AdmittedOnce` (`API.md:95`: "Older records may therefore be pruned safely", and
`src/replay.rs:127-129`: "because authentication rejects those messages before
replay admission"): a handler reads the clock in the message's last second and
waits for the lock; another one prunes the record with a later reading; the
first still holds its reading and admits the message again.  There is no crash
or failure in the trace.  `ReadmittedOnlyLate` bounds the harm: the window has
closed by then.

`TruncatedIsToolError` (`tools/validate_phase9_gate.py:1800`): when the
deadline has passed, the probe is killed as a timeout and its pipes are
drained for another while; an overflow in that drain sets `truncated` and
leaves `timeout`.  The verdict is red either way.

Four more are run by hand, for example with `tlc -config
MCRateLimiterBoundary.cfg MCRateLimiter`:

`RenamesAreSynced` (`MCReplayStoreRename`; `src/replay.rs:127-130`: "Records are
retained for the full interval ...", "atomically compacted and fsynced"): the
directory sync after a rename fails, the process is restarted, and nothing syncs
the directory of the log it opens; what it then answers fresh is in a file that
a crash of the machine may take the path from, while the message still passes
the clock gate.

`DeadKeysStayDead` (`MCEnvelopeAdmissionFork`; `API.md:54`: a later hello "may
not roll it back"): the registered lifecycle compromises a key; a hello with a
longer lifecycle, which the root key signed and which does not extend the first,
replaces it, and in it the key was never compromised.  `src/peering.rs` asks for
a prefix, the service for a larger sequence number only.

`Limited` (`MCRateLimiterBoundary`; `API.md:35-36`: 120 requests and 30 POST
requests "/ client / minute"): the minute is read before the lock of the
buckets, and a request of the minute before empties the bucket of the present
one.

`ExtensionsAreAdmitted` (`MCPeerRegistryCompromise`; `THREAT_MODEL.md:109`, T14:
"key lifecycle, compromise/recovery/revocation and local quarantine remain
authoritative across transports"): a stored advertisement is validated again
with every record that is written, so a lifecycle that compromises the key it
was signed with is refused, and the registry goes on with the key alive.

### Bounds

Node.  Times are scaled: in `replay_store` and in `service` the lifetime and the
skew are one second, so the retention is three.  The last second at which a
message is accepted is the last at which its record is kept: the boundary in
which the code's constants meet is met exactly.  Two log lines reach the
compaction threshold and the limit together, so a third message compacts, finds
the window full or follows the pruning of the first two.  The clock stops at
`MaxTime`, after the windows of the first messages have closed and while that of
the last is open.  `MaxUnsynced` bounds the directory entries that are unsynced
at a time: one is a creation or a rename, left by the live handle or by one
before it.  `MaxTakenBack` lets a crash take the answers about a message back
once, so that it is fresh again and a second time.  In `service`, `MaxFailures`
bounds the ends of the process and the machine and the failures of the store and
its directory together: two are a log whose directory was not synced and the
crash that takes it, or a failed append and the end of the process; longer
chains are those of `replay_store`, which bounds them by what is left unsynced
only.  The audit log fails as often as it likes.  Four operational keys make the chain of three rotations in which three
windows can meet; `MaxSeq` bounds the records.  Two handlers are the fewest that
interleave.  In `identities` a stored lifecycle is empty, rotates the key, or
compromises it and then replaces it, so an advertisement outlives the key that
signed it, and `MaxSurvivors` bounds the contents that compete after failed
syncs.  In `assembly` three members and three subjects make an electorate that
two thirds divide and smaller ones that they do not, one withdrawal
(`MaxWithdrawals`) frees a subject for another member id, and a second proposal
is open beside the first or follows it; `MaxVotes` bounds the votes over both,
and the second is a simple one (`Bounded`).

Tools.  `suspension` has two processes of the probe, each with up to two
threads, one stranger and two pids, so that a pid is reused by a sibling and by
a stranger; two directories that move into each other and out; one restart of
the traversal (`MaxRestarts`) and two rounds of a kill (`KillRounds`).  The
limit on a tree is two units (`MaxUnits`): the two directories are within it, so
the scan of a suspended probe is accepted; a directory that moves while a running
probe is scanned may be counted twice, which is one too many.
Directories move only while they are accounted.  `probe` has a leader, two
descendants and one stream; a pipe holds two units where one is accepted
(`MaxOutput`), so it overflows with one unit left to read; the timeout is two
ticks and the other limits one, so that each of them can be the first to pass.
`staging` has two files, two inode numbers, three chunks of which a bounded
reader takes two, and two writes: one between two steps of a reader and one to
undo or repeat it.  `graduation` has a history of three commits with a side
branch, two probes, two attacks, ten registries, valid ones and
ones that break a rule of `validate_registry`, and two changes of the checkout.
Handlers, clients, members, subjects and files are symmetric in the runs that
say so: no constant or property tells them apart.

Deadlock is not checked where a bound stops the model (clock, records,
proposals, writes, the end of the gate) and in the replay store, which refuses
a torn log for ever.

### Fairness

`ProbeCgroup` and `ProbeRun` state weak fairness of `HarnessStep` and of
`Tick`.  The harness is one thread that is always able to take its next step (a
`select`, a `wait` and every loop of it has a time limit, and the sandbox lets
no probe signal it, which `SandboxIsPolicy` checks), and time passes.  The
processes of the probe are not fair: they may run for ever, never exit, never
close their output and never be scheduled.  What is stopped is still released
(`TasksAreReleased`) and every probe ends (`EveryProbeEnds`).  The other
properties are safety properties, and the node promises no liveness.

## The proofs

All theorems are about every value of the constants that the named assumptions
of a module allow.  Every invariant that a passing run checks, every action
property and both refinements are stated by a theorem.

**ReplayStore** (`PolicyAssumption`, `ClockAssumption`, `SizeAssumption`):
`TypeOK`, `AtMostOnceFresh`, `FreshIsDurable`, that a handle which a rename has
cut off is full, and the refinement of `AtMostOnce`.  `AtMostOnceFresh` is not
inductive: a record that is missing from the table may be missing because it
was pruned, lost in a crash or never synced.  `Sound` says that every line and
entry was made no earlier than its message's first accepted second
(`GoodFiles`, `SeenInWindow`); that handle and path agree, and the handle has
replaced nothing, unless a rename left it behind (`HandleOnPath`,
`OrphanedHandleIsFull`); that a log which is not there is empty
(`NothingIsEmpty`) and only what was answered is taken back (`LostWereFresh`);
and that a message which was answered fresh, was not taken back and may still
pass the clock gate is in the table and on stable storage in the file of the
path and in each that the path may name again after a failure of the live handle
(`Kept`, `Remembered`).  The files in `inherited` have no such guarantee, and
`takenBack` counts what goes with them.  The arithmetic is `Retention = Lifetime
+ 2 * Skew`: a message recorded at `t >= Issued - Skew` and pruned after `t +
Retention` has `Expires + Skew` behind it.  In the refinement `AtMostOnce` is
`synced` while no directory entry is left from an earlier process, and only a
crash that finds it unsynced forgets admissions.

**EnvelopeAdmission** (those, and `ServiceAssumption`): `ServiceTypeOK`,
`AnsweredIsAudited`, `RecordsAreDurable`, `ReadmittedOnlyLate` and
`CopiesAreBehind`, for any number of handlers, peers, hellos and messages.
Three arguments carry it.  The invariant of the replay store holds of the
service although handlers prune and record with old readings of the clock: the
lemmas about `Recorded` are stated for any `time <= now` that the message passes
the gate at, which `Working` says of every request between the two steps.  Only
"at most once" is lost, and what remains of it is `ReadmittedOnlyLate`.
`AnsweredIsAudited` is not inductive, as two requests could use one record;
`OneRecordEach` counts the requests that wait for a record to be used with
those that have used one, so that each has its own, and counts a record that a
crash took as written.  `CopiesAreBehind` rests on what `PeerHello` compares,
kept by every hello for every copy that is held meanwhile.  The invariant is
`ServiceInv`.

**Identity, Lifecycle, NodeIdentity** (`DocumentAssumption`):
`IdentityTypeOK`, `NoTripleOverlap`, `NoGap` and `NeverRevalidated` for all
keys, times and bounds, from an invariant that orders the windows of retired
keys (its comments name the parts).  `RebuiltIdentities`: whatever records a
peer presents, well formed or not, what is rebuilt from them is an identity or
the error.  It is an induction over the list; as the induction theorems of the
library cannot be instantiated here, the proof takes the least prefix that
would be a counterexample.

**RateLimiter**: `LimitedInOrder` for all limits and clients: the bucket of a
client that is not in `behind` counts exactly what passed in its minute, and
nothing has passed in a later one.

**PeerRegistry** (`HistoryAssumption`, `SentinelAssumption`): `TypeOK` and the
four properties of the run.  They speak of the file that is read; their
strengthening `IInv` says the same of every file that a crash may leave, since
each of those builds on what was last answered Ok.  That a lifecycle which
extends an extension extends the first one is the lemma `PrefixTransitive`.

**Assembly** (`LimitAssumption`, `MemberAssumption`, `DraftAssumption`,
`NotMemberAssumption`, `VoteAssumption`): `TypeOK`, `OneSubjectOneVote`,
`NoDrift` and `CharterIsKept` for all members, subjects, drafts and limits.
The chain that `IInv` adds: `subjects` holds exactly what the active members
stand for, so members that are active together stand for different subjects; an
electorate was active together and records keep their subjects; votes come from
the electorate.  `ImplementsBallots` is the refinement: sequence numbers tell
proposals apart (`Numbered`), so a step changes the paper of at most one number
(`Filed`, `PaperStays`), and that change is a step of the ballot; the code's
rounded-up thirds of the decisive votes are the multiples that `Ballots`
compares (`CarriedMatches`).

**NexusAdapter** (`NexusAssumption`: `Refused` and `Nothing` are no text, report
or projection): `ProjectionsAreFaithful` and `OnlyThePinnedVerifies` for every
export, copy, answer, checkout and text, where a roster is a list and
`packed-refs` has a line for each name.  `ReportsAreFaithful` is the invariant
`ProjectsFaithfully` over the exports of `AssemblyReports`: two of its sets are
empty by those two, and that a sound council is not withheld follows its bundle
through the bounds, the members and the texts.

**Staging** (`StagingAssumption`): `TypeOK`, `OneVersion`, `ReviewedIsUsed` and
`PinnedIsRun` for all files, contents, limits and any number of writes.  The
invariant says, for each reader, what the stats it holds tell of the file while
it is read: where no two writes share a stamp, an unchanged stamp means that
what has been read is the beginning of the content at the opening; for the
snapshot, whose second pass must agree with the first, that the agreement puts
the content at the end of the first pass between the two, without any stamp.

**ProbeRun** (`TimersAssumption`, `SentinelAssumption`): `TypeOK`,
`GreenIsClean`, `EvidenceIsTheProbes` and `NothingSurvives` for any number of
descendants and streams and any limits.  None of them is inductive, as the
verdict is drawn from what was seen long before.  `IInv` adds what the harness
knows at each place: while the probe is looked after, a closed stream was read
to its end or cut off (`Closed`); a deadline, an overflow, a cut and a kill are
failures (`Failed`), so a probe without a failure was never touched; past the
loop every stream is closed (`Emptied`); past the wait the status is the
leader's own (`Counted`); past the search for leaks nothing runs (`Dead`).  The
theorems hold without any fairness.

**ReviewedCode and Toolchain**: `AcceptedIsReviewed` for every manifest of
registry and path dependencies; `HomesAreReviewed` for every lock file, index,
list of trusted archives and cache that between the scan and the copy only
loses files; `ToolsAreOfOneRoot` for every host, where a snapshot that is handed
over has its tools in its own bin directory; `PinnedIsStaged` for every tree.
`ReviewsTheCode` and `PinsTheToolchain` (`CodeAssumption`, `RustAssumption`:
`Refused` and `Nothing` are no value a function returns) are the two invariants
over the inputs of `ProbeLaunch`.  That rustup itself is never pinned depends on
where it may be installed, that nothing harmless is refused on what is
harmless, and the search of the finder on the order of its path: these parts
are argued from those inputs, the rest from the general theorems.

**ProbeCgroup** (`ProbeAssumption`): `TypeOK`,
`CoherentSnapshot`, `ForeignUntouched` and `NothingLeftStopped` for any number
of tasks, numbers, foreign processes, restarts and rounds, and without fairness.
A probe could continue a stopped task of its own by `tkill`, and no snapshot
would be coherent: `TkillIsRefused` excludes it.
None of the three is inductive.  `IInv` adds: a number is one
task's and a pidfd is of the task that had the number when it was opened
(`Numbered`); once the membership was read again, a foreign task that is bound
is gone (`NoForeign`); what is stopped is bound, and only while a check suspends
(`HeldAreBound`).  `Converging` is what each look has shown: a thread that was
seen stopped is stopped or its process has ended (`Settled`), when all threads
were seen so and the same threads are listed again nobody of the probe can run
(`Still`), and so nobody can while the tree is read.  A tree that nobody changes
is counted once: the units are those of the directories that are there and not
below a queued one (`Counting`, `IsTree`).  The theorems are about `Spec`; the
run's `MCSpec` moves directories only while they are counted, from every initial
tree.

**ProbeSandbox**: `SandboxIsPolicy`.  `FiltersAreThePolicy` says that the two
programs admit a call exactly when the policy permits it, for both machines,
every claimed architecture, every first argument and every number below twice
the x32 bit, that is every non-negative value of the field `nr`.  Each
instruction leads to later ones only, so a program has one row for each
(`Unfolded`, an induction over sets of numbers), and each block of instructions
is run once, wherever it stands.  `WritesAreConfined` and `ProcIsItsOwn` are
about every path, and the remaining parts (`NothingIsUnusable`,
`NothingIsUnrestrained`, `NothingIsUnbounded`) about the tables of the module.

**Graduation** (`GraduationAssumption`, which asks for finite registries):
`JudgesOwnReport`, `GraduationIsEarned` and `OneAuthor` for any history,
fixtures and number of other runs, and `TypeOK`: only what the fixtures ask for
is run, on the files of commits.  `IInv` follows the evidence: results are of
runs on the target's files (`Tried`), replays of runs on the files of the
commits an entry names (`Repeated`), the registry was found valid before
anything was run (`Sound`), the report is of all that was run (`Drawn`), and
what was printed is the report (`Announced`).

**LeanAudit**: `AuditsTheSource`, as `SourcesAreAudited`.  The readers are
recursive functions of the place in the text; that such a function is what its
recursion says (`ReadingUnfolds`, `NamingUnfolds`, `ElaboratingUnfolds`) and
everything that follows from one place to the next is an induction over a set of
naturals (`Induct`).  About the text, each kind of piece has a lemma for any text
that spells it at any place: a comment that holds at most one other of any
length (`CommentRead`), a string (`StringRead`), a comment to the end of the
line and code are read as what they are and leave the reader in code, or in that
line; cut short they leave it inside (`CutIsOpen`).  A text of several pieces is
then read piece by piece (`TwoRead`, `ThreeAreRead`, `LineIsRead`), where no code
before a dash would open a comment with it.  About the names, `NamesAreRight`
holds for every sequence of lines and for any names that are not empty, not only
for the up to five lines of the run, and with theorems that the pattern cuts or
passes over among them.  The reader cannot tell a file from what is left of it
in `AsRead` (`ReadsAlike`), and for Lean the two differ in the theorems only, not
in the scopes (`NestsAlike`), so it is enough to show that it reads `AsRead` as
Lean does.  The
invariant `Agree` is needed because the reader does not see sections and takes an
`end` of one for the end of a namespace: it never has more names than the
namespace Lean is in, and where it has as many it has the same and has found what
Lean declares.  Once it has lost one it stays behind, until an `end` finds no
name to close and the file is refused.  Without a section the two are `InStep`.

Only model-checked:

- the liveness of `ProbeCgroup` and `ProbeRun` (`TasksAreReleased`,
  `EveryProbeEnds`), out of the prover's reach;
- the eight properties of "The violations", which fail.

## What the models leave out

- `ProbeCgroup`: real-time and asynchronous signals of the harness itself; the
  limits on bytes, entries and depth are one number; the branches of the
  suspension that see a change of the membership do not look at the deadline,
  as in the code, so a check may go on as long as the probe forks
  (`TasksAreReleased` says that it releases what it stopped meanwhile).
- `ProbeRun`: what the output says, and the class of a Rust failure.
- `Staging`: access bits, the executable bit, the device and directories.
  Stamps are either honest (`stamped`) or coarse.
- `Graduation`: the index is one with the tree; whether a diagnostic file is
  already there is a free choice; fixtures of other commits and of edits are
  among `Around`; nothing happens after the gate has ended; a run's leftovers
  are in `Init`; lists are sets; a digest is the value; the cache is the commit
  whose files are cached; the static validators of the gate, which may refuse
  before the runner starts, are left out.
- `ReviewedCode`, `Toolchain`: the cache only loses files between the scan and
  the copy; a CI snapshot holds tools and not rustup.
- `LeanAudit`: the reader of the code knows neither character literals nor raw
  strings of Lean, and a backslash before the end of a line in a string loses a
  newline, so that later line numbers are one less; files whose scopes are
  still open at the end are left out of the comparison.  A theorem that
  `THEOREM_LINE_RE` (line 49) does not find is in no audit: one after an
  attribute or a modifier, `private` or `protected`, with a capital or a quoted
  name, or in `Model.lean`; of a dotted name the audit names the first part.
  `FORMALIZATION.md` promises the audit of the theorems of the manifest, and that
  is what is checked.
- `EnvelopeAdmission`: what the body of a request says, the read-only routes, a
  service without an audit log (`src/bin` always opens one).
- `ReplayStore`: an operator who edits or removes the log.

### Met while modelling

Behaviours of the code that no run asserts.  The first three contradict what
the repository says of them:

- a repeated `transition(Disconnected)` overwrites the state that a rejoin
  would restore, and no rejoin is possible afterwards (`src/peering.rs:329`),
  where `FEDERATION_STATE.md:80` says "same snapshot: a clean rejoin may be
  explicitly confirmed";
- an import that stops between its two writes leaves the peer introduced, and
  the repeated import answers Ok (`src/peering.rs:270`), where
  `FEDERATION_STATE.md:114` says "new peer state -> quarantined";
- when the audit log fails after the replay record was made, the answer is a
  500 with `retryable = true` (`src/api.rs:973-983`), and the retry is refused
  as a replay;

and of these no document was found to say otherwise:

- an answer `Duplicate` may rest on a rename that was never synced
  (`src/peering.rs:224`);
- in the last second of one overlap, which may be the first of the next, three
  keys verify (`src/crypto.rs:495`);
- `_stable_stage_source` and `_worktree_file_matches` read on as long as the
  file grows (`Reread` and the worktree reader of `Staging` have no bound);
- a report that says "graduated" stays at its path when the last check of the
  checkout fails or the runner dies after writing it; the gate does not pass it
  (`JudgesOwnReport`), but a new run is refused until it is removed
  (`OneAuthor`).

## Not modelled

- Canonical JSON, wire types, claims, adapters and SDKs parse and format: they
  have neither state nor an order of events.
- The validators of the earlier phases, the empirical assurance tools and the
  static part of the phase 9 and 10 gates read the repository once and compare
  it with constants.
- The Lean development is a proof of its own.
- The parsing of cgroup limits and mount tables, and of the output of a probe.
- The store, transports, bundles, Holodeck, Oracle adapter, trust registry and
  capability policy: in the plan.

## Plan

Done: the replay store, identities, envelope admission, the rate limiter, the
peer registry, the Assembly and the NEXUS adapter; the probe sandbox, its
suspension, the runner, the staging of files, the inputs of a probe, and the
graduation.  Next, in order of importance:

1. `ObjectStore` (`src/store.rs`): the marker protocol of namespace moves with
   crashes at every step, shown to implement an abstract atomic move.
2. `LocalPolicy` (`src/peering.rs`): trust registry and capability policy,
   composed with `PeerRegistry`.
3. `Transport` (`src/transport.rs`): frames, relay chains and the bounded
   queue; the import of bundles over `PeerRegistry` and `ObjectStore`.
4. The Holodeck sandbox and the deadline of the Oracle adapter.
5. Theorems: that a replay store which no handler passes with an old reading
   implements `AtMostOnce` inside the service; the parts of a report that
   `Consistent` compares; what the finder serves, for every path.
