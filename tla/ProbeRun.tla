-------------------------------- MODULE ProbeRun --------------------------------
(***************************************************************************)
(* One probe after another under tools/run_moriarty.py: run_probe and      *)
(* _run_probe_with_cleanup, with the processes of the probe, its two output*)
(* pipes, the deadlines, the leak check and the verdict.                   *)
(*                                                                         *)
(* Deadlines are kept as what remains of them. The suspended accounting of *)
(* a live probe (ProbeCgroup) is one phase here that takes any time and    *)
(* answers within or over; killing the tree is one step that leaves nothing*)
(* alive, or fails, which ends the run.                                    *)
(***************************************************************************)
EXTENDS Integers, FiniteSets

CONSTANTS
    Child,          \* descendants a probe may have beside its leader
    Stream,         \* the output pipes: stdout and stderr
    PipeCapacity,   \* units a pipe holds
    MaxOutput,      \* MAX_PROBE_OUTPUT_BYTES, in the same units
    Timeout,        \* TIMEOUT_SECONDS
    PostExitDrain,  \* POST_EXIT_DRAIN_SECONDS
    TerminationDrain,   \* TERMINATION_DRAIN_SECONDS
    CheckInterval,  \* PROBE_WRITABLE_CHECK_INTERVAL_SECONDS
    NoTimer, NoCode, None, Leader

ASSUME TimersAssumption ==
    {Timeout, PostExitDrain, TerminationDrain, CheckInterval, MaxOutput, PipeCapacity}
      \subseteq Nat \ {0}
ASSUME SentinelAssumption ==
    /\ NoTimer \notin Nat /\ NoCode \notin Int /\ Leader \notin Child
    /\ None \notin {"exit_nonzero", "timeout", "tool_error"}

Proc == {Leader} \cup Child
Timer(limit) == 0..limit \cup {NoTimer}
Killed == 9     \* stands for every negative return code

VARIABLES
    leader,     \* the direct child: none, running, exited, reaped
    code,       \* its exit status, once it exited
    child,      \* of a descendant: none, running, zombie
    writers,    \* of a stream: the processes that have its write end open
    pipe,       \* of a stream: units written and not read
    over,       \* the writable directories are beyond their limits
    sound,      \* tracked tree clean, trusted executables as they were
    pc,         \* where the harness is
    open,       \* streams still registered with the selector
    ready,      \* streams select() returned
    count,      \* of a stream: units accepted
    truncated,  \* streams that overflowed
    cut,        \* streams closed by the harness before their end
    failure,    \* failure_kind
    left,       \* what remains of the deadline
    drain,      \* of post_exit_deadline
    term,       \* of termination_deadline
    check,      \* until next_writable_check
    budget,     \* of a wait()
    status,     \* return_code
    private,    \* the probe's private directories exist
    verdict     \* what run_probe returned last

probe == <<leader, code, child, writers, pipe, over>>
timers == <<left, drain, term, check, budget>>
output == <<open, ready, count, truncated, cut>>
vars == <<probe, sound, pc, output, failure, timers, status, private, verdict>>

Running == {c \in Child : child[c] = "running"} \cup {p \in {Leader} : leader = "running"}
Zombies == {c \in Child : child[c] = "zombie"}
Kinds == {None, "exit_nonzero", "timeout", "tool_error"}
NoVerdict == [ok |-> FALSE, kind |-> None, code |-> NoCode, truncated |-> {}]
Harness == {"idle", "spawn", "top", "scan", "timers", "select", "events", "wait", "waiting", "rewait",
            "leaks", "reap", "final scan", "after", "cleanup", "abort", "aborted"}

TypeOK ==
    /\ leader \in {"none", "running", "exited", "reaped"}
    /\ code \in {0, 1, Killed, NoCode} /\ status \in {0, 1, Killed, NoCode}
    /\ child \in [Child -> {"none", "running", "zombie"}]
    /\ writers \in [Stream -> SUBSET Proc]
    /\ pipe \in [Stream -> 0..PipeCapacity]
    /\ over \in BOOLEAN /\ sound \in BOOLEAN /\ private \in BOOLEAN
    /\ pc \in Harness
    /\ open \subseteq Stream /\ ready \subseteq Stream
    /\ count \in [Stream -> 0..MaxOutput]
    /\ truncated \subseteq Stream /\ cut \subseteq Stream
    /\ failure \in Kinds \ {"exit_nonzero"}
    /\ left \in 0..Timeout
    /\ drain \in Timer(PostExitDrain)
    /\ term \in Timer(TerminationDrain)
    /\ check \in 0..CheckInterval
    /\ budget \in 0..Timeout
    /\ verdict \in [ok : BOOLEAN, kind : Kinds, code : {0, 1, Killed, NoCode},
                    truncated : SUBSET Stream]

Init ==
    /\ leader = "none" /\ code = NoCode
    /\ child = [c \in Child |-> "none"]
    /\ writers = [s \in Stream |-> {}]
    /\ pipe = [s \in Stream |-> 0]
    /\ over = FALSE /\ sound = TRUE
    /\ pc = "idle"
    /\ open = {} /\ ready = {} /\ truncated = {} /\ cut = {}
    /\ count = [s \in Stream |-> 0]
    /\ failure = None
    /\ left = 0 /\ drain = NoTimer /\ term = NoTimer /\ check = 0 /\ budget = 0
    /\ status = NoCode
    /\ private = FALSE
    /\ verdict = NoVerdict

-----------------------------------------------------------------------------
(***************************************************************************)
(* The processes of the probe. They cannot leave the cgroup or signal      *)
(* (ProbeSandbox), but they outlive their parents, keep the pipes open,    *)
(* close them early, write, and fill the directories. A suspended probe    *)
(* (pc = "scan") does nothing.                                             *)
(***************************************************************************)

harness == <<sound, pc, output, failure, timers, status, private, verdict>>

Fork(p, c) ==
    /\ p \in Running /\ child[c] = "none"
    /\ child' = [child EXCEPT ![c] = "running"]
    /\ writers' = [s \in Stream |-> IF p \in writers[s] THEN writers[s] \cup {c} ELSE writers[s]]
    /\ UNCHANGED <<leader, code, pipe, over>>

Write(p, s) ==
    /\ p \in Running /\ p \in writers[s] /\ pipe[s] < PipeCapacity
    /\ pipe' = [pipe EXCEPT ![s] = @ + 1]
    /\ UNCHANGED <<leader, code, child, writers, over>>

CloseOutput(p, s) ==
    /\ p \in Running /\ p \in writers[s]
    /\ writers' = [writers EXCEPT ![s] = @ \ {p}]
    /\ UNCHANGED <<leader, code, child, pipe, over>>

Fill ==
    /\ Running # {} /\ ~over
    /\ over' = TRUE
    /\ UNCHANGED <<leader, code, child, writers, pipe>>

Exit(p) ==
    /\ p \in Running
    /\ writers' = [s \in Stream |-> writers[s] \ {p}]
    /\ IF p = Leader
         THEN /\ leader' = "exited"
              /\ code' \in {0, 1}
              /\ UNCHANGED child
         ELSE /\ child' = [child EXCEPT ![p] = "zombie"]
              /\ UNCHANGED <<leader, code>>
    /\ UNCHANGED <<pipe, over>>

\* A parent waits for a child; nobody does for one whose parent is gone until
\* the harness, the subreaper it is handed to, reaps it.
WaitedFor(c) ==
    /\ leader = "running" /\ child[c] = "zombie"
    /\ child' = [child EXCEPT ![c] = "none"]
    /\ UNCHANGED <<leader, code, writers, pipe, over>>

ProbeStep ==
    /\ pc # "scan"
    /\ \/ \E p \in Proc :
            \/ \E c \in Child : Fork(p, c)
            \/ \E s \in Stream : Write(p, s) \/ CloseOutput(p, s)
            \/ Exit(p)
       \/ \E c \in Child : WaitedFor(c)
       \/ Fill
    /\ UNCHANGED harness

\* Somebody changes the tracked tree, an index flag or a trusted executable.
Disturb ==
    /\ sound
    /\ sound' = FALSE
    /\ UNCHANGED <<probe, pc, output, failure, timers, status, private, verdict>>

-----------------------------------------------------------------------------
(***************************************************************************)
(* Time. A live scan is not charged to the probe's runtime, but the drains *)
(* go on meanwhile (_timed_writable_check).                                *)
(***************************************************************************)

Minus1(t) == IF t \in Nat \ {0} THEN t - 1 ELSE t

LeftAfterTick == IF pc = "scan" THEN left ELSE Minus1(left)

Tick ==
    /\ pc \notin {"idle", "aborted"}
    /\ left' = LeftAfterTick
    /\ drain' = Minus1(drain)
    /\ term' = Minus1(term)
    /\ check' = Minus1(check)
    /\ budget' = Minus1(budget)
    /\ UNCHANGED <<probe, sound, pc, output, failure, status, private, verdict>>

-----------------------------------------------------------------------------
(***************************************************************************)
(* The harness.                                                            *)
(***************************************************************************)

Goto(label) == pc' = label /\ UNCHANGED <<sound, private>>
First(kind) == IF failure = None THEN kind ELSE failure

\* _kill_probe_tree: killpg, the cgroup (which is empty when kill_probe_cgroup
\* returns) and what is left of the descendants. The leader's exit status is
\* that of the signal, unless it had exited.
AllDead ==
    /\ leader' = IF leader = "running" THEN "exited" ELSE leader
    /\ code' = IF leader = "running" THEN Killed ELSE code
    /\ child' = [c \in Child |-> IF child[c] = "running" THEN "zombie" ELSE child[c]]
    /\ writers' = [s \in Stream |-> {}]

\* Tasks that survive it end the run: SystemExit, through the finally blocks.
KillTree(label) ==
    \/ AllDead /\ Goto(label)
    \/ Running # {} /\ Goto("abort") /\ UNCHANGED <<leader, code, child, writers>>

NoResult(kind) == [ok |-> FALSE, kind |-> kind, code |-> NoCode, truncated |-> {}]

\* The checks before the probe: the tree is dirty or an executable changed, the
\* kernel lacks Landlock or seccomp, the topology is refused, the cgroup is not
\* empty, the directories are over their limits. Every one is a tool_error.
Start ==
    /\ pc = "idle"
    /\ over' = FALSE                \* directories of its own, of another label
    /\ private' = TRUE
    /\ \/ /\ pc' = "cleanup"
          /\ verdict' = NoResult("tool_error")
       \/ /\ sound /\ Running = {}
          /\ pc' = "spawn"
          /\ verdict' = NoVerdict
    /\ UNCHANGED <<leader, code, child, writers, pipe, sound, output, failure, timers, status>>

\* Popen: its own session, in the cgroup, under the policies; or it fails.
Spawn ==
    /\ pc = "spawn"
    /\ \/ /\ leader' = "running" /\ code' = NoCode
          /\ writers' = [s \in Stream |-> {Leader}]
          /\ pipe' = [s \in Stream |-> 0]
          /\ open' = Stream
          /\ left' = Timeout /\ drain' = NoTimer /\ term' = NoTimer
          /\ check' = CheckInterval
          /\ Goto("top")
          /\ UNCHANGED <<child, over, verdict>>
       \/ /\ verdict' = NoResult("tool_error")
          /\ Goto("cleanup")
          /\ UNCHANGED <<probe, open, left, drain, term, check>>
    /\ ready' = {} /\ truncated' = {} /\ cut' = {}
    /\ count' = [s \in Stream |-> 0]
    /\ failure' = None /\ status' = NoCode /\ budget' = 0

\* One turn of the loop: while selector.get_map().
Top ==
    /\ pc = "top"
    /\ Goto(IF open = {} THEN "wait"
             ELSE IF failure = None /\ check = 0 THEN "scan" ELSE "timers")
    /\ UNCHANGED <<probe, output, failure, timers, status, verdict>>

\* Quiet: the scan answers that the directories are within their limits; it may
\* answer that they are not without that being so (it fails closed).
Scan ==
    /\ pc = "scan"
    /\ check' = CheckInterval
    /\ \/ /\ ~over
          /\ Goto("timers")
          /\ UNCHANGED <<probe, failure, term>>
       \/ /\ failure' = "tool_error"
          /\ term' = TerminationDrain
          /\ KillTree("timers")
          /\ UNCHANGED <<pipe, over>>
    /\ UNCHANGED <<output, left, drain, budget, status, verdict>>

\* poll() reaps the leader when it has exited.
Polled == IF leader = "exited" THEN "reaped" ELSE leader
Exited == leader \in {"exited", "reaped"}

\* A slip to detect: a leader that has exited is left to the drain timer.
DeadlineOfLeader == left = 0 /\ failure = None /\ ~Exited

DeadlinePassed == left = 0 /\ failure = None
DrainPassed == left > 0 /\ failure = None /\ Exited /\ drain = 0

FailBy(kind) ==
    /\ failure' = kind
    /\ term' = TerminationDrain
    /\ UNCHANGED drain
    /\ KillTree("select")
    /\ UNCHANGED <<pipe, over>>

Timers ==
    /\ pc = "timers"
    /\ IF term = 0
         THEN \* whatever is still open is closed unread
              /\ open' = {} /\ cut' = cut \cup open
              /\ leader' = Polled
              /\ Goto("top")
              /\ UNCHANGED <<code, child, writers, pipe, over, failure, drain, term>>
         ELSE /\ UNCHANGED <<open, cut>>
              /\ IF DeadlinePassed THEN FailBy("timeout")
                 ELSE IF DrainPassed THEN FailBy("tool_error")
                 ELSE /\ leader' = Polled
                      /\ drain' = IF Exited /\ failure = None /\ drain = NoTimer
                                    THEN PostExitDrain ELSE drain
                      /\ Goto("select")
                      /\ UNCHANGED <<code, child, writers, pipe, over, failure, term>>
    /\ UNCHANGED <<ready, count, truncated, left, check, budget, status, verdict>>

\* select() returns what can be read, end of file included, or times out.
Select ==
    /\ pc = "select"
    /\ ready' = {s \in open : pipe[s] > 0 \/ writers[s] = {}}
    /\ Goto("events")
    /\ UNCHANGED <<probe, open, count, truncated, cut, failure, timers, status, verdict>>

\* bounded_output_update: what is beyond the bound is dropped and reported.
Accepted(s, n) == IF count[s] + n > MaxOutput THEN MaxOutput ELSE count[s] + n
Overflows(s, n) == count[s] + n > MaxOutput

ReadChunk(s) ==
    \E n \in 1..pipe[s] :
        /\ count' = [count EXCEPT ![s] = Accepted(s, n)]
        /\ truncated' = IF Overflows(s, n) THEN truncated \cup {s} ELSE truncated
        /\ pipe' = [pipe EXCEPT ![s] = @ - n]
        /\ UNCHANGED <<open, over>>
        /\ IF Overflows(s, n) /\ failure = None
             THEN /\ failure' = "tool_error"
                  /\ term' = TerminationDrain
                  /\ KillTree("events")
             ELSE /\ Goto("events")
                  /\ UNCHANGED <<leader, code, child, writers, failure, term>>

Events ==
    /\ pc = "events"
    /\ IF ready = {}
         THEN /\ Goto("top")
              /\ UNCHANGED <<probe, output, failure, term>>
         ELSE \E s \in ready :
                /\ ready' = ready \ {s}
                /\ UNCHANGED cut
                /\ \/ pipe[s] > 0 /\ ReadChunk(s)
                   \/ /\ pipe[s] = 0 /\ writers[s] = {}
                      /\ open' = open \ {s}
                      /\ Goto("events")
                      /\ UNCHANGED <<probe, count, truncated, failure, term>>
    /\ UNCHANGED <<left, drain, check, budget, status, verdict>>

\* poll() once more, then wait(): for what is left of the deadline, or a second
\* after a kill; a leader that does not exit meanwhile is killed.
Reaped ==
    /\ leader \in {"exited", "reaped"}
    /\ leader' = "reaped" /\ status' = code
    /\ Goto("leaks")
    /\ UNCHANGED <<code, child, writers, pipe, over, failure, budget>>

Wait ==
    /\ pc = "wait"
    /\ \/ Reaped
       \/ /\ leader = "running"
          /\ budget' = IF failure # None THEN 1 ELSE left
          /\ Goto("waiting")
          /\ UNCHANGED <<probe, failure, status>>
    /\ UNCHANGED <<output, left, drain, term, check, verdict>>

Waiting ==
    /\ pc = "waiting"
    /\ \/ Reaped
       \/ /\ leader = "running" /\ budget = 0
          /\ failure' = First("timeout")
          /\ budget' = 1
          /\ KillTree("rewait")
          /\ UNCHANGED <<pipe, over, status>>
    /\ UNCHANGED <<output, left, drain, term, check, verdict>>

\* After the kill another wait, which may see no exit status in its second.
Rewait ==
    /\ pc = "rewait"
    /\ \/ Reaped
       \/ /\ budget = 0
          /\ status' = NoCode
          /\ Goto("leaks")
          /\ UNCHANGED <<probe, failure, budget>>
    /\ UNCHANGED <<output, left, drain, term, check, verdict>>

\* A slip to detect: only the children that were handed to the harness count.
LeakedAdopted == Zombies # {}

\* Every descendant counts, the unreaped ones that were handed to the harness too.
Leaked == Running # {} \/ Zombies # {} \/ leader = "exited"

Leaks ==
    /\ pc = "leaks"
    /\ IF Leaked
         THEN failure' = First("tool_error") /\ KillTree("reap")
         ELSE Goto("reap") /\ UNCHANGED <<leader, code, child, writers, failure>>
    /\ UNCHANGED <<pipe, over, output, timers, status, verdict>>

\* _reap_adopted_children, and the cgroup once more.
Reap ==
    /\ pc = "reap"
    /\ child' = [c \in Child |-> IF child[c] = "zombie" THEN "none" ELSE child[c]]
    /\ leader' = Polled
    /\ failure' = IF Running # {} THEN First("tool_error") ELSE failure
    /\ Goto("final scan")
    /\ UNCHANGED <<code, writers, pipe, over, output, timers, status, verdict>>

FinalScan ==
    /\ pc = "final scan"
    /\ \/ ~over /\ UNCHANGED failure
       \/ failure' = First("tool_error")
    /\ Goto("after")
    /\ UNCHANGED <<probe, output, timers, status, verdict>>

\* A slip to detect: the exit status alone decides.
OkByStatus == status = 0

Ok == failure = None /\ status = 0

\* A slip to detect: an exit status is looked at before the failure.
KindByStatus ==
    IF Ok THEN None ELSE IF status \notin {0, NoCode} THEN "exit_nonzero" ELSE First("tool_error")

Kind == IF Ok THEN None ELSE First("exit_nonzero")

\* What happened to the tree or to an executable overrides the verdict.
Verdict ==
    /\ pc = "after"
    /\ verdict' =
         IF ~sound
           THEN NoResult("tool_error")
           ELSE [ok |-> Ok, kind |-> Kind,
                 code |-> IF Ok \/ Kind = "exit_nonzero" THEN status ELSE NoCode,
                 truncated |-> truncated]
    /\ Goto("cleanup")
    /\ UNCHANGED <<probe, output, failure, timers, status>>

\* The finally blocks: pipes closed, private directories removed, whether the
\* probe has a verdict or the run is aborted.
Cleanup ==
    /\ \/ pc = "cleanup" /\ pc' = "idle"
       \/ pc = "abort" /\ pc' = "aborted"
    /\ private' = FALSE
    /\ open' = {}
    /\ UNCHANGED <<probe, sound, ready, count, truncated, cut, failure, timers, status, verdict>>

\* verify_accepted_counterexamples catches the SystemExit of a replay and goes
\* on with the next one; anywhere else the runner ends.
Swallowed ==
    /\ pc = "aborted"
    /\ Goto("idle")
    /\ UNCHANGED <<probe, output, failure, timers, status, verdict>>

HarnessStep ==
    \/ Spawn \/ Top \/ Scan \/ Timers \/ Select \/ Events
    \/ Wait \/ Waiting \/ Rewait \/ Leaks \/ Reap \/ FinalScan \/ Verdict \/ Cleanup

Next == ProbeStep \/ Disturb \/ Tick \/ Start \/ HarnessStep \/ Swallowed

\* The harness is one thread that runs and the clock goes on; a scan and a kill
\* end (their own deadline and number of rounds are ProbeCgroup's).
Spec == Init /\ [][Next]_vars /\ WF_vars(HarnessStep) /\ WF_vars(Tick)

-----------------------------------------------------------------------------

\* A green probe is over and complete: it left by itself with 0, nothing of it
\* lives or waits to be reaped, both streams were read to their ends within
\* their bounds, and its directories are within theirs (run_probe).
GreenIsClean ==
    pc = "cleanup" /\ verdict.ok =>
        /\ code = 0 /\ Running = {} /\ Zombies = {}
        /\ truncated = {} /\ cut = {}
        /\ \A s \in Stream : pipe[s] = 0
        /\ ~over

\* What is recorded as the probe's own exit is that, with all of its output; the
\* exit status of the harness's SIGKILL is never taken for it.
EvidenceIsTheProbes ==
    pc = "cleanup" /\ verdict.code # NoCode =>
        /\ verdict.code = code /\ code # Killed
        /\ cut = {} /\ truncated = {}

\* Whatever the verdict will be, nothing of the probe survives it, so that the
\* next probe finds the cgroup empty (unless the run was aborted).
NothingSurvives ==
    pc \in {"final scan", "after"} =>
        Running = {} /\ Zombies = {} /\ leader = "reaped"

\* Every probe ends, the ones that never exit, never close their output and
\* never stop writing too.
EveryProbeEnds == pc \notin {"idle", "aborted"} ~> pc \in {"idle", "aborted"}

\* The gate: "truncated {stream} must be a tool_error"
\* (validate_phase9_gate.py:1800).
TruncatedIsToolError ==
    pc = "cleanup" /\ verdict.truncated # {} => verdict.kind = "tool_error"
=============================================================================
