------------------------------ MODULE ProbeCgroup ------------------------------
(***************************************************************************)
(* The check of a probe's writable directories while the probe runs, and   *)
(* the killing of what is left of it (tools/moriarty_isolation.py).        *)
(*                                                                         *)
(* The harness reads the membership of the probe's cgroup, binds every     *)
(* number to an identity with a pidfd, stops the identities, waits until   *)
(* every thread is seen stopped, accounts the directories and continues    *)
(* what it stopped. Every read and every signal is a step of its own; the  *)
(* tasks fork, start threads, exit, are reaped and move directories in     *)
(* between, and numbers are reused, within the cgroup and outside it.      *)
(***************************************************************************)
EXTENDS ProbeSandbox, FiniteSets

CONSTANTS
    Machine,        \* the architecture of the host
    Member,         \* identities a process of the probe may have
    Foreign,        \* identities of processes outside the cgroup
    Pid,            \* process numbers
    MaxRestarts,    \* PROBE_WRITABLE_SCAN_MAX_RESTARTS
    MaxUnits,       \* the most a scan accepts (bytes, entries and depth in one)
    KillRounds      \* the rounds of kill_probe_cgroup

ASSUME ProbeAssumption ==
    /\ Machine \in Machines
    /\ Member \cap Foreign = {}
    /\ MaxRestarts \in Nat /\ MaxUnits \in Nat
    /\ KillRounds \in Nat \ {0}

Tkill == [x86_64 |-> 200, aarch64 |-> 130]

\* A probe's own tkill, by which its tasks would stop or continue each other.
MayTkill(machine) == Admitted(machine, [arch |-> machine, nr |-> Tkill[machine], arg0 |-> 2])

Task == Member \cup Foreign
Thread == {1, 2}        \* of a process; 1 is its main thread
Dir == {"d1", "d2"}     \* subdirectories of the writable root, one unit each
Slot == {"a", "b"}      \* names in the root
Nowhere == "nowhere"

VARIABLES
    life,       \* of an identity: none, alive, zombie
    pid,        \* the number it has while it is not none
    threads,    \* its threads
    running,    \* those that are not stopped
    stopping,   \* identities a SIGSTOP was delivered to and no SIGCONT since
    doomed,     \* identities a SIGKILL was delivered to
    where,      \* of a directory: a name in the root, another directory, nowhere
    pc,         \* where the harness is
    op,         \* what it does: "check" or "kill"
    bound,      \* MORIARTY_PROBE_CGROUP is set, so that a check suspends
    pids,       \* membership read: the numbers to stop or to kill
    tids,       \* threads read
    todo,       \* numbers, handles or threads the current loop has still to visit
    handles,    \* <<number, identity>>: the open pidfds
    late,       \* the deadline of the suspension has passed
    tally,      \* of a scan: units counted, restarts; of a kill: rounds
    result      \* what the operation returned

kernel == <<life, pid, threads, running, stopping, doomed>>
local == <<pids, tids, todo, handles, late>>
vars == <<kernel, where, pc, op, bound, local, tally, result>>

-----------------------------------------------------------------------------
(***************************************************************************)
(* The kernel's side: what the files of the cgroup and of /proc say.       *)
(***************************************************************************)

Alive == {t \in Task : life[t] = "alive"}
Members == Alive \cap Member                 \* a zombie is not in cgroup.procs
MemberPids == {pid[m] : m \in Members}
MemberTids == UNION {{<<pid[m], t>> : t \in threads[m]} : m \in Members}
Holders(number) == {t \in Task : life[t] # "none" /\ pid[t] = number}
FreePids == {n \in Pid : Holders(n) = {}}
Present(handle) == life[handle[2]] # "none"  \* signals reach a zombie too
Bound == {handle[2] : handle \in handles}
Unborn == {t \in Task : life[t] = "none"} \ Bound

\* /proc/<tid>/status, by number: whoever has the number now.
TaskStopped(tid) ==
    \E t \in Holders(tid[1]) : tid[2] \in threads[t] \ running[t]

Able == {m \in Members : running[m] # {}} \ doomed

\* Where a check may hold tasks stopped.
Suspending ==
    {"stop", "converge", "threads", "status", "confirm threads", "confirm pids",
     "confirm status", "again", "restop", "scan", "scanning", "scanned"}

KernelTypes ==
    /\ life \in [Task -> {"none", "alive", "zombie"}]
    /\ pid \in [Task -> Pid]
    /\ threads \in [Task -> {{}, {1}, Thread}]
    /\ running \in [Task -> SUBSET Thread]
    /\ \A t \in Task : running[t] \subseteq threads[t] /\ (threads[t] # {} <=> t \in Alive)
    /\ stopping \subseteq Alive /\ doomed \subseteq Alive

HarnessTypes ==
    /\ where \in [Dir -> Slot \cup Dir \cup {Nowhere}]
    /\ pc \in Suspending \cup {"idle", "probe cgroup", "list", "open", "signal 0",
                                "resume", "kill", "killed"}
    /\ op \in {"check", "kill"} /\ bound \in BOOLEAN /\ late \in BOOLEAN
    /\ pids \subseteq Pid
    /\ tids \subseteq Pid \X Thread
    /\ handles \subseteq Pid \X Task
    /\ \A h, g \in handles : h[1] = g[1] => h = g
    /\ tally \in [units : 0..MaxUnits, restarts : 0..MaxRestarts, rounds : 0..KillRounds]
    /\ result \in {"none", "ok", "failed"}

TypeOK == KernelTypes /\ HarnessTypes

Init ==
    /\ \E first \in Member, number \in Pid :
          /\ life = [t \in Task |-> IF t = first THEN "alive" ELSE "none"]
          /\ pid = [t \in Task |-> number]
          /\ threads = [t \in Task |-> IF t = first THEN {1} ELSE {}]
    /\ running = threads
    /\ stopping = {} /\ doomed = {}
    /\ where \in {[d1 |-> "a", d2 |-> "d1"], [d1 |-> "a", d2 |-> "b"]}
    /\ pc = "idle" /\ op = "check"
    /\ bound \in BOOLEAN
    /\ pids = {} /\ tids = {} /\ todo = {} /\ handles = {}
    /\ late = FALSE
    /\ tally = [units |-> 0, restarts |-> 0, rounds |-> 0]
    /\ result = "none"

-----------------------------------------------------------------------------
(***************************************************************************)
(* The tasks.                                                              *)
(***************************************************************************)

Appear(t, number) ==
    /\ life' = [life EXCEPT ![t] = "alive"]
    /\ pid' = [pid EXCEPT ![t] = number]
    /\ threads' = [threads EXCEPT ![t] = {1}]
    /\ running' = [running EXCEPT ![t] = {1}]
    /\ UNCHANGED <<stopping, doomed>>

Vanish(t, how) ==
    /\ life' = [life EXCEPT ![t] = how]
    /\ threads' = [threads EXCEPT ![t] = {}]
    /\ running' = [running EXCEPT ![t] = {}]
    /\ stopping' = stopping \ {t}
    /\ doomed' = doomed \ {t}
    /\ UNCHANGED pid

harness == <<where, pc, op, bound, local, tally, result>>

Fork(m) ==
    /\ m \in Able
    /\ \E c \in Unborn \cap Member, number \in FreePids : Appear(c, number)
    /\ UNCHANGED harness

StartThread(m) ==
    /\ m \in Able
    /\ threads[m] # Thread
    /\ threads' = [threads EXCEPT ![m] = Thread]
    /\ running' = [running EXCEPT ![m] = @ \cup (Thread \ threads[m])]
    /\ UNCHANGED <<life, pid, stopping, doomed, harness>>

EndThread(m) ==
    /\ m \in Able
    /\ 2 \in running[m]
    /\ threads' = [threads EXCEPT ![m] = {1}]
    /\ running' = [running EXCEPT ![m] = @ \ {2}]
    /\ UNCHANGED <<life, pid, stopping, doomed, harness>>

\* A process exits by itself, or because it was killed; its parent has reaped
\* it at once, or it stays a zombie for a while.
Exit(m) ==
    /\ m \in Able \cup (Members \cap doomed)
    /\ \E how \in {"none", "zombie"} : Vanish(m, how)
    /\ UNCHANGED harness

Reap(m) ==
    /\ m \in Member
    /\ life[m] = "zombie"
    /\ Vanish(m, "none")
    /\ UNCHANGED harness

\* The threads of a process that was sent SIGSTOP stop one by one; the others
\* still run meanwhile.
StopThread(t) ==
    /\ t \in stopping
    /\ \E i \in running[t] : running' = [running EXCEPT ![t] = @ \ {i}]
    /\ UNCHANGED <<life, pid, threads, stopping, doomed, harness>>

\* A task asks tkill to stop or to continue a process of its group.
Stopped(t) ==
    /\ stopping' = stopping \cup ({t} \cap Alive)
    /\ UNCHANGED <<life, pid, threads, running, doomed>>

Continued(ts) ==
    /\ stopping' = stopping \ ts
    /\ running' = [t \in Task |-> IF t \in ts THEN threads[t] ELSE running[t]]
    /\ UNCHANGED <<life, pid, threads, doomed>>

AskSignal(m) ==
    /\ m \in Able
    /\ \E t \in Members :
          IF MayTkill(Machine)
             THEN Stopped(t) \/ Continued({t})
             ELSE UNCHANGED kernel          \* EPERM
    /\ UNCHANGED harness

\* Processes of the host come and go and take numbers of the probe's.
ForeignAppears(f) ==
    /\ f \in Unborn \cap Foreign
    /\ \E number \in FreePids : Appear(f, number)
    /\ UNCHANGED harness

ForeignExits(f) ==
    /\ f \in Alive \cap Foreign
    /\ Vanish(f, "none")
    /\ UNCHANGED harness

\* A running thread makes, removes or moves a directory: into a free name of
\* the root, or into another directory that is there and not within it.
Within(d, e) == where[d] = e
MoveDir(m) ==
    /\ m \in Able
    /\ \E d \in Dir :
          \E place \in {s \in Slot : \A e \in Dir : where[e] # s}
                       \cup {e \in Dir \ {d} : where[e] \in Slot} \cup {Nowhere} :
             /\ place = Nowhere => \A e \in Dir : ~Within(e, d)
             /\ where' = [where EXCEPT ![d] = place]
    /\ UNCHANGED <<kernel, pc, op, bound, local, tally, result>>

TaskStep ==
    \/ \E m \in Member :
          \/ Fork(m) \/ StartThread(m) \/ EndThread(m) \/ Exit(m) \/ Reap(m)
          \/ AskSignal(m) \/ MoveDir(m)
    \/ \E t \in Task : StopThread(t)
    \/ \E f \in Foreign : ForeignAppears(f) \/ ForeignExits(f)

-----------------------------------------------------------------------------
(***************************************************************************)
(* The harness. A step reads one file or sends one signal, and moves on.   *)
(***************************************************************************)

Goto(label) == pc' = label /\ UNCHANGED <<op, bound, where>>
Forget == pids' = {} /\ tids' = {} /\ todo' = {} /\ handles' = {} /\ late' = FALSE
Return(answer) == result' = answer /\ Goto("idle") /\ Forget

\* run_probe checks, or kills, whenever it likes (ProbeRun says when).
Call(what) ==
    /\ pc = "idle"
    /\ pc' = IF what = "kill" THEN "list" ELSE "probe cgroup"
    /\ op' = what
    /\ result' = "none"
    /\ tally' = [units |-> 0, restarts |-> 0, rounds |-> 0]
    /\ UNCHANGED <<kernel, where, bound, local>>

\* Without a cgroup, and when nothing is in it, nothing is suspended.
LookForTasks ==
    /\ pc = "probe cgroup"
    /\ Goto(IF bound /\ MemberPids # {} THEN "list" ELSE "scan")
    /\ UNCHANGED <<kernel, local, tally, result>>

\* The membership at the start of a round; () when nothing is left.
List ==
    /\ pc = "list"
    /\ pids' = MemberPids /\ todo' = MemberPids
    /\ handles' = {} /\ tids' = {}
    /\ IF MemberPids # {}
          THEN Goto("open") /\ UNCHANGED <<late, tally, result>>
          ELSE IF op = "check"
                 THEN Goto("scan") /\ UNCHANGED <<late, tally, result>>
                 ELSE Goto("idle") /\ result' = "ok" /\ late' = FALSE /\ UNCHANGED tally
    /\ UNCHANGED kernel

\* pidfd_open binds whoever has the number, a zombie too; nobody has it: skipped.
OpenPidfd ==
    /\ pc = "open"
    /\ \E n \in todo :
          /\ handles' = handles \cup {<<n, t>> : t \in Holders(n)}
          /\ todo' = todo \ {n}
    /\ UNCHANGED <<kernel, where, pc, op, bound, pids, tids, late, tally, result>>

\* A slip to detect: the numbers are not looked up again once bound.
NoRevalidation(bindings) == bindings

\* The membership is read again and the numbers that left it are dropped.
StillMembers(bindings) == {h \in bindings : h[1] \in MemberPids}

Revalidate ==
    /\ pc = "open" /\ todo = {}
    /\ handles' = StillMembers(handles)
    /\ todo' = StillMembers(handles)
    /\ Goto("signal 0")
    /\ UNCHANGED <<kernel, pids, tids, late, tally, result>>

\* Signal 0 proves that the bound identity still exists.
ProveIdentity ==
    /\ pc = "signal 0"
    /\ \E h \in todo :
          /\ handles' = IF Present(h) THEN handles ELSE handles \ {h}
          /\ todo' = todo \ {h}
    /\ UNCHANGED <<kernel, where, pc, op, bound, pids, tids, late, tally, result>>

\* A check needs a handle for each number it read, and reads again otherwise,
\* until the deadline; a kill sends what it has.
HandlePids == {h[1] : h \in handles}

Compare ==
    /\ pc = "signal 0" /\ todo = {}
    /\ IF op = "kill" \/ HandlePids = pids
         THEN /\ Goto(IF op = "kill" THEN "kill" ELSE "stop")
              /\ todo' = handles
              /\ UNCHANGED <<pids, tids, handles, late, result>>
         ELSE IF late THEN Return("failed")
         ELSE /\ Goto("list")
              /\ UNCHANGED <<local, result>>
    /\ UNCHANGED <<kernel, tally>>

\* SIGCONT to everything that is bound, whether it is still there or not; then
\* the pidfds are closed. (The tasks of one loop are continued in one step.)
Release == Continued(Bound)

\* SIGSTOP needs every identity to be there: one that is gone invalidates the
\* set, and the membership is read again.
StopBound(label, next, mayGiveUp) ==
    /\ pc = label
    /\ IF todo = {}
         THEN Goto(next) /\ UNCHANGED <<kernel, local, result>>
         ELSE \E h \in todo :
                IF Present(h)
                  THEN /\ Stopped(h[2])
                       /\ todo' = todo \ {h}
                       /\ Goto(label)
                       /\ UNCHANGED <<pids, tids, handles, late, result>>
                  ELSE /\ Release
                       /\ IF mayGiveUp /\ late
                            THEN Return("failed")
                            ELSE Goto("list") /\ UNCHANGED <<local, result>>
    /\ UNCHANGED tally

Stop == StopBound("stop", "converge", TRUE)
Restop == StopBound("restop", "converge", FALSE)

\* A slip to detect: what was stopped is forgotten when the membership drifts.
ConvergeNoRelease ==
    /\ pc = "converge"
    /\ Goto(IF MemberPids = pids THEN "threads" ELSE "list")
    /\ UNCHANGED <<kernel, local, tally, result>>

\* A membership that drifted ends the attempt, whatever the time.
Converge ==
    /\ pc = "converge"
    /\ IF MemberPids = pids
         THEN Goto("threads") /\ UNCHANGED kernel
         ELSE Goto("list") /\ Release
    /\ UNCHANGED <<local, tally, result>>

ReadThreads ==
    /\ pc = "threads"
    /\ tids' = MemberTids /\ todo' = MemberTids
    /\ Goto(IF MemberTids = {} THEN "again" ELSE "status")
    /\ UNCHANGED <<kernel, pids, handles, late, tally, result>>

\* all(...) over the status files: the first that is not stopped ends it.
ReadStatus(label, next) ==
    /\ pc = label
    /\ IF todo = {}
         THEN Goto(next) /\ UNCHANGED todo
         ELSE \E t \in todo :
                IF TaskStopped(t)
                  THEN todo' = todo \ {t} /\ Goto(label)
                  ELSE UNCHANGED todo /\ Goto("again")
    /\ UNCHANGED <<kernel, pids, tids, handles, late, tally, result>>

\* A slip to detect: the threads are looked at once.
NoSecondLook == TRUE

\* The same threads, of the same processes.
SameThreads == MemberTids = tids

ConfirmThreads ==
    /\ pc = "confirm threads"
    /\ Goto(IF SameThreads THEN "confirm pids" ELSE "again")
    /\ UNCHANGED <<kernel, local, tally, result>>

ConfirmPids ==
    /\ pc = "confirm pids"
    /\ todo' = tids
    /\ Goto(IF MemberPids = pids THEN "confirm status" ELSE "again")
    /\ UNCHANGED <<kernel, pids, tids, handles, late, tally, result>>

\* A slip to detect: the deadline is not looked at.
AgainWithoutDeadline ==
    /\ pc = "again"
    /\ Goto("restop")
    /\ todo' = handles
    /\ UNCHANGED <<kernel, pids, tids, handles, late, tally, result>>

\* Not converged yet: give up at the deadline, or stop everything once more.
Again ==
    /\ pc = "again"
    /\ IF late
         THEN Release /\ Return("failed")
         ELSE /\ Goto("restop")
              /\ todo' = handles
              /\ UNCHANGED <<kernel, pids, tids, handles, late, result>>
    /\ UNCHANGED tally

\* The deadline of the suspension, or of the resumption, passes.
Tick ==
    /\ op = "check" /\ ~late
    /\ pc \notin {"idle", "probe cgroup", "scan", "scanning", "scanned"}
    /\ late' = TRUE
    /\ UNCHANGED <<kernel, where, pc, op, bound, pids, tids, todo, handles, tally, result>>

\* A file of the cgroup cannot be read, or a pidfd cannot be opened.
ReadFails ==
    /\ \/ pc \in {"probe cgroup", "list", "open", "resume"} /\ UNCHANGED kernel
       \/ pc \in {"converge", "threads", "confirm threads", "confirm pids"} /\ Release
    /\ Return("failed")
    /\ UNCHANGED tally

-----------------------------------------------------------------------------
\* The accounting. An item of the queue is the name in the root, the directory
\* it was found in (or Nowhere) and the directory itself; it is opened by name.

In(place) == {d \in Dir : where[d] = place}
Opened(item) ==
    IF item[2] = Nowhere THEN In(item[1])
                         ELSE {d \in {item[3]} : \E e \in In(item[1]) : where[d] = e}

Restart ==
    IF tally.restarts < MaxRestarts
      THEN /\ tally' = [tally EXCEPT !.restarts = @ + 1, !.units = 0]
           /\ todo' = {} /\ Goto("scan") /\ UNCHANGED result
      ELSE /\ tally' = [tally EXCEPT !.units = 0]
           /\ todo' = {} /\ Goto("scanned") /\ result' = "failed"

Account(found, queue) ==
    IF tally.units + Cardinality(found) > MaxUnits
      THEN /\ todo' = {} /\ Goto("scanned") /\ result' = "failed" /\ UNCHANGED tally
      ELSE /\ tally' = [tally EXCEPT !.units = @ + Cardinality(found)]
           /\ todo' = queue \cup found
           /\ Goto("scanning") /\ UNCHANGED result

ScanRoot ==
    /\ pc = "scan"
    /\ Account({<<where[d], Nowhere, d>> : d \in {e \in Dir : where[e] \in Slot}}, {})
    /\ UNCHANGED <<kernel, pids, tids, handles, late>>

\* A queued name that is gone, or names another directory than the one that was
\* found, invalidates the pass.
Visit ==
    /\ pc = "scanning"
    /\ IF todo = {}
         THEN Goto("scanned") /\ result' = "ok" /\ UNCHANGED <<todo, tally>>
         ELSE \E item \in todo :
                IF Opened(item) = {item[3]}
                  THEN Account({<<item[1], item[3], d>> : d \in In(item[3])}, todo \ {item})
                  ELSE Restart
    /\ UNCHANGED <<kernel, pids, tids, handles, late>>

\* What was stopped is continued, by the same pidfds.
EndScan ==
    /\ pc = "scanned"
    /\ IF handles = {}
         THEN Return(result) /\ UNCHANGED kernel
         ELSE /\ Release
              /\ late' = FALSE
              /\ Goto("resume")
              /\ UNCHANGED <<pids, tids, todo, handles, result>>
    /\ UNCHANGED tally

\* And seen running again, before the deadline. (One step reads all.)
Resumed ==
    /\ pc = "resume"
    /\ \/ /\ \A t \in MemberTids : ~TaskStopped(t)
          /\ Return(result)
       \/ /\ late
          /\ Return("failed")
    /\ UNCHANGED <<kernel, tally>>

-----------------------------------------------------------------------------
\* SIGKILL to what is bound, then another round.
Kill ==
    /\ pc = "kill"
    /\ IF todo # {}
         THEN \E h \in todo :
                /\ doomed' = doomed \cup ({h[2]} \cap Alive)
                /\ todo' = todo \ {h}
                /\ UNCHANGED <<pc, op, bound, where, pids, tids, handles, late, tally, result>>
         ELSE /\ tally' = [tally EXCEPT !.rounds = @ + 1]
              /\ handles' = {}
              /\ Goto(IF tally.rounds + 1 < KillRounds THEN "list" ELSE "killed")
              /\ UNCHANGED <<doomed, pids, tids, todo, late, result>>
    /\ UNCHANGED <<life, pid, threads, running, stopping>>

Killed ==
    /\ pc = "killed"
    /\ Return(IF MemberPids = {} THEN "ok" ELSE "failed")
    /\ UNCHANGED <<kernel, tally>>

HarnessStep ==
    \/ LookForTasks \/ List \/ OpenPidfd \/ Revalidate \/ ProveIdentity \/ Compare
    \/ Stop \/ Restop \/ Converge \/ ReadThreads
    \/ ReadStatus("status", "confirm threads") \/ ConfirmThreads \/ ConfirmPids
    \/ ReadStatus("confirm status", "scan") \/ Again
    \/ ScanRoot \/ Visit \/ EndScan \/ Resumed \/ Kill \/ Killed

Next ==
    \/ TaskStep
    \/ Call("check") \/ Call("kill")
    \/ HarnessStep
    \/ ReadFails
    \/ Tick

\* The harness is one thread that the probe cannot signal, and its clock runs.
Spec == Init /\ [][Next]_vars /\ WF_vars(HarnessStep) /\ WF_vars(Tick)

-----------------------------------------------------------------------------

\* The accounting of a suspended probe is of one state of its directories: no
\* subtree a task moves about meanwhile is left out or counted twice
\* (probe_writable_tree_within_limits: "one coherent writable snapshot").
CoherentSnapshot ==
    pc = "scanned" /\ result = "ok" /\ bound =>
        tally.units = Cardinality({d \in Dir : where[d] # Nowhere})

\* No process outside the cgroup is stopped or killed, whatever number it took
\* over and when (_open_probe_cgroup_pidfds).
ForeignUntouched == (stopping \cup doomed) \cap Foreign = {}

\* When the check has returned, whatever it returned, nothing is left stopped.
NothingLeftStopped == pc = "idle" => stopping = {} /\ running = threads

\* Whatever the harness stopped is continued, or gone, in the end, also when the
\* tasks fork and exit for ever and the check itself never returns.
TasksAreReleased == stopping # {} ~> stopping = {}

\* The first process of a probe starts under the policy the docstrings of
\* apply_network_seccomp_policy and apply_landlock_policy promise, on each
\* machine and whatever architecture a call claims: the jumps are relative, and
\* one that lands an instruction off lets a call through or refuses another.
\* It writes beneath its private directories and the null device only, and reads
\* nothing of the harness's /proc directory.
SandboxIsPolicy == Init => AsPromised

-----------------------------------------------------------------------------
(***************************************************************************)
(* The inductive strengthening of the three safety invariants.             *)
(***************************************************************************)

\* A number is one task's, and a pidfd is of the task that had the number when
\* it was opened: the task keeps it, and does not come back once it is gone.
Unshared ==
    \A t, u \in Task : life[t] # "none" /\ life[u] # "none" /\ pid[t] = pid[u] => t = u

Numbered ==
    /\ Unshared
    /\ \A h \in handles : Present(h) => pid[h[2]] = h[1]

\* The numbers a loop over the membership has still to open have no pidfd yet;
\* the other loops over pidfds are over open ones.
Looping ==
    /\ pc = "open" => todo \cap HandlePids = {}
    /\ pc \in {"signal 0", "stop", "restop", "kill"} => todo \subseteq handles

\* Once the membership was read again, a foreign task that is bound is gone.
NoForeign ==
    pc # "open" => \A h \in handles : h[2] \in Foreign => ~Present(h)

\* While a check suspends, what is stopped is bound, and nothing is otherwise.
IsHeld(t) == t \in stopping \/ running[t] # threads[t]

HeldAreBound ==
    \A t \in Task : IsHeld(t) => pc \in Suspending /\ t \in Bound

\* Whoever was bound by this number is not alive any more.
Lost(number) == \A h \in handles : h[1] = number => h[2] \notin Alive

\* A thread that was seen stopped is, or its process has ended.
Settled(tid) ==
    \/ Lost(tid[1])
    \/ \E h \in handles : h[1] = tid[1] /\ tid[2] \in threads[h[2]] \ running[h[2]]

\* Nobody of the probe can run, or a number was lost that is still to be read.
Still(numbers) == Able = {} \/ \E tid \in numbers : Lost(tid[1])

Converging ==
    /\ pc = "status" => \A tid \in tids \ todo : Settled(tid)
    /\ pc = "confirm threads" => \A tid \in tids : Settled(tid)
    /\ pc = "confirm pids" => Still(tids)
    /\ pc = "confirm status" => Still(todo)
    /\ bound /\ pc \in {"scan", "scanning", "scanned"} => Able = {}

\* The directories are a tree, each under a name of its own.
IsTree ==
    /\ \A d \in Dir : where[d] \in Dir => where[d] # d /\ where[where[d]] \in Slot
    /\ \A d, e \in Dir : where[d] \in Slot /\ where[d] = where[e] => d = e

\* A queued item is where it was found; what is in it is not counted yet.
IsItem(item) ==
    /\ item = <<item[1], item[2], item[3]>>
    /\ item[3] \in Dir
    /\ \/ item[2] = Nowhere /\ where[item[3]] = item[1] /\ item[1] \in Slot
       \/ item[2] \in Dir /\ where[item[3]] = item[2] /\ where[item[2]] = item[1]

Queued == {item[3] : item \in todo}
Uncounted == {d \in Dir : where[d] \in Queued}
There == {d \in Dir : where[d] # Nowhere}

Counting ==
    /\ pc \notin {"idle", "scanning", "scanned", "resume"} => tally.units = 0
    /\ bound =>
         /\ pc = "scanning" =>
               /\ \A item \in todo : IsItem(item)
               /\ tally.units = Cardinality(There \ Uncounted)
         /\ pc = "scanned" /\ result = "ok" => tally.units = Cardinality(There)

\* What suspends is a check, what kills is a kill, and that has a round left.
RoundsLeft ==
    /\ pc \in Suspending \cup {"probe cgroup", "resume"} => op = "check"
    /\ pc = "kill" => op = "kill"
    /\ op = "kill" /\ pc \in {"list", "open", "signal 0", "kill"} =>
          tally.rounds < KillRounds

IInv ==
    /\ TypeOK
    /\ Numbered /\ Looping
    /\ NoForeign /\ ForeignUntouched
    /\ HeldAreBound
    /\ Converging
    /\ IsTree /\ Counting
    /\ RoundsLeft
=============================================================================
