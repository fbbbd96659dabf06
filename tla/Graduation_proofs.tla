--------------------------- MODULE Graduation_proofs ---------------------------
(***************************************************************************)
(* Proofs about Graduation, for any history, fixtures, probes and reports  *)
(* of other runs and any number of changes of the checkout: a gate that    *)
(* passes has judged its own runner's report, and what the report claims   *)
(* was earned by runs on the files it names. And about LeanAudit, for      *)
(* texts and files of any length: how the gate reads the Lean sources.     *)
(***************************************************************************)
EXTENDS Graduation, Sequences, FiniteSetTheorems, WellFoundedInduction, TLAPS

\* Where the runner is after the report is drawn up, and after its preconditions.
Ended == {"report check", "create", "write", "final check", "print", "exit"}
Working == {"probes", "replays"} \cup Ended

\* The runner has exited with 0.
Exited == pc = "exited" /\ code = 0

Ran(probe, files, outcome) == [probe |-> probe, files |-> files, outcome |-> outcome] \in log

\* Results are of runs on the target's files.
Tried == \A r \in results : Ran(r.probe, Target, r.outcome)

\* Replays that succeeded are of runs on the files of the two commits.
Reproduced(e) == Ran(e.probe, e.found, e.failure)
Repeated ==
    /\ \A r \in replays : r.entry \in version.registry
    /\ \A r \in replays :
          r.ok => /\ Reproduced(r.entry)
                  /\ r.entry.status # "unresolved" => Green(r.entry.probe, r.entry.resolution)
    /\ entry # NoEntry => entry \in version.registry /\ Reproduced(entry)

\* What the runner has seen to before it ran anything.
Sound == pc \in Working \/ Exited => RegistryValid(version.registry, version.corpus)

\* The report is of all that was run, and nothing is run after it.
Drawn == pc \in Ended \/ Exited => report = Body /\ Replayed = version.registry

\* What was printed is the report.
Announced == pc = "exit" \/ Exited => printed = report

IInv ==
    /\ version \in Version
    /\ Tried /\ Repeated /\ Sound /\ Drawn /\ Announced
    /\ JudgesOwnReport /\ GraduationIsEarned

-----------------------------------------------------------------------------
(***************************************************************************)
(* Operators of the state.                                                 *)
(***************************************************************************)

\* The cache never gives a commit the files of another one.
LEMMA FilesOfCommit == ASSUME NEW c PROVE Files(c) = c
BY DEF Files

\* The body depends on the fixtures and the evidence only.
LEMMA BodySame ==
    ASSUME UNCHANGED <<version, results, replays>>
    PROVE  Body' = Body /\ Replayed' = Replayed
<1>1. Generated' = Generated
  BY DEF Generated, Owners, Found
<1> QED BY <1>1 DEF Body, Replayed

\* A body without unresolved counterexamples and red probes is of a registry
\* without unresolved ones.
LEMMA NothingUnresolved ==
    ASSUME version \in Version, Body.unresolved = 0, \A r \in results : r.outcome.ok
    PROVE  Unresolved(version.registry) = {}
<1> DEFINE open == Unresolved(version.registry)
<1>1. IsFiniteSet(version.registry)
  BY GraduationAssumption
<1>2. open \subseteq version.registry
  BY DEF Unresolved
<1>3. IsFiniteSet(open)
  BY <1>1, <1>2, FS_Subset
<1>4. Generated = {}
  BY DEF Generated
<1>5. Cardinality(Generated) = 0
  BY <1>4, FS_EmptySet
<1>6. Cardinality(open) + Cardinality(Generated) = 0
  BY DEF Body
<1>7. Cardinality(open) \in Nat
  BY <1>3, FS_CardinalityType
<1>8. Cardinality(open) = 0
  BY <1>5, <1>6, <1>7
<1> QED BY <1>3, <1>8, FS_EmptySet

-----------------------------------------------------------------------------
(***************************************************************************)
(* The steps that run and report nothing.                                  *)
(***************************************************************************)

Quiet ==
    /\ UNCHANGED <<version, evidence, report, judged, log, printed>>
    /\ pc' \in Working => pc \in Working
    /\ pc' \in Ended => pc \in Ended
    /\ pc' = "exit" => pc = "exit"
    /\ Exited' => Exited
    /\ pc' = "passed" => pc = "passed"

LEMMA QuietKeeps == ASSUME IInv, Quiet PROVE IInv'
<1>1. version' \in Version /\ Tried' /\ Repeated'
  BY DEF IInv, Quiet, evidence, Tried, Repeated, Reproduced, Ran, Green
<1>2. Sound'
  BY DEF IInv, Quiet, Sound
<1>3. Drawn'
  <2>1. Body' = Body /\ Replayed' = Replayed
    BY BodySame DEF Quiet, evidence
  <2> QED BY <2>1 DEF IInv, Quiet, Drawn
<1>4. Announced' /\ JudgesOwnReport'
  BY DEF IInv, Quiet, Announced, JudgesOwnReport
<1>5. GraduationIsEarned'
  BY DEF IInv, Quiet, GraduationIsEarned, Green
<1> QED BY <1>1, <1>2, <1>3, <1>4, <1>5 DEF IInv

LEMMA FailureIsQuiet ==
    ASSUME UNCHANGED <<version, evidence, report, judged, log>>, GateFails \/ RunnerFails
    PROVE  Quiet
<1>1. UNCHANGED printed
  BY DEF GateFails, RunnerFails, exits
<1>2. pc' = "failed" \/ (pc' = "exited" /\ code' = 1)
  BY DEF GateFails, RunnerFails
<1>3. pc' \notin Working /\ pc' \notin Ended /\ pc' # "exit" /\ pc' # "passed" /\ ~Exited'
  <2>1. ~Exited'
    BY <1>2 DEF Exited
  <2>2. pc' \notin Working /\ pc' \notin Ended
    BY <1>2 DEF Working, Ended
  <2>3. pc' # "exit" /\ pc' # "passed"
    BY <1>2
  <2> QED BY <2>1, <2>2, <2>3
<1> QED BY <1>1, <1>3 DEF Quiet

LEMMA QuietSteps ==
    ASSUME \/ UNCHANGED vars \/ Others \/ Check \/ StartGate \/ Load \/ Create \/ Write \/ Dies
    PROVE  Quiet
<1>1. CASE UNCHANGED vars
  BY <1>1 DEF vars, exits, evidence, Quiet, Exited
<1>2. CASE Others
  BY <1>2 DEF Others, Checkout, OtherReport, RemoveReport, LeftoverGone, exits, evidence, Quiet, Exited
<1>3. CASE Check
  <2>1. UNCHANGED <<version, evidence, report, judged, log>>
    BY <1>3 DEF Check
  <2>2. CASE GateFails \/ RunnerFails
    BY <2>1, <2>2, FailureIsQuiet
  <2>3. CASE UNCHANGED <<pc, exits>>
    BY <2>1, <2>3 DEF Quiet, exits, Exited
  <2>4. CASE CheckHarness /\ pc' = AfterCheck[pc] /\ UNCHANGED exits
    <3>1. /\ pc = "gate check" => pc' = "load"
          /\ pc = "start check" => pc' = "prepare"
          /\ pc = "report check" => pc' = "create"
          /\ pc = "final check" => pc' = "print"
          /\ pc \in Before
      BY <2>4 DEF CheckHarness, AfterCheck, Before
    <3> QED BY <2>1, <2>4, <3>1 DEF Quiet, exits, Exited, Working, Ended, Before
  <2> QED BY <1>3, <2>2, <2>3, <2>4
        DEF Check, CheckHead, CheckClean, CheckTree, CheckHarness, CheckFails
<1>4. CASE StartGate
  BY <1>4, FailureIsQuiet DEF StartGate, Quiet, Working, Ended, Exited, exits
<1>5. CASE Load
  BY <1>5, FailureIsQuiet DEF Load, Quiet, Working, Ended, Exited, exits
<1>6. CASE Create
  BY <1>6, FailureIsQuiet DEF Create, Quiet, Working, Ended, Exited, exits
<1>7. CASE Write
  BY <1>7, FailureIsQuiet DEF Write, Quiet, Working, Ended, Exited, exits
<1>8. CASE Dies
  BY <1>8, FailureIsQuiet DEF Dies
<1> QED BY <1>1, <1>2, <1>3, <1>4, <1>5, <1>6, <1>7, <1>8

-----------------------------------------------------------------------------
(***************************************************************************)
(* The runner's steps that run or report something, and the judgement.     *)
(***************************************************************************)

\* A run adds what it was to the log.
LEMMA RunIsLogged ==
    ASSUME NEW p, NEW c, NEW o, Runs(p, c, o)
    PROVE  /\ log' = log \cup {[probe |-> p, files |-> c, outcome |-> o]}
           /\ Ran(p, c, o)'
<1>1. Export(c) = c
  BY FilesOfCommit DEF Export
<1>2. log' = log \cup {[probe |-> p, files |-> c, outcome |-> o]}
  BY <1>1 DEF Runs
<1> QED BY <1>2 DEF Ran

\* What was run stays run.
LEMMA LogGrows ==
    ASSUME log \subseteq log'
    PROVE  /\ \A p, c, o : Ran(p, c, o) => Ran(p, c, o)'
           /\ \A e : Reproduced(e) => Reproduced(e)'
           /\ \A p, c : Green(p, c) => Green(p, c)'
BY DEF Ran, Reproduced, Green

\* The parts of the invariant that a step between the preconditions and the
\* report does not touch.
Underway == {"probes", "replays"}
LEMMA UnderwayKeeps ==
    ASSUME IInv, pc \in Underway, pc' = pc,
           UNCHANGED <<version, report, judged, printed, code>>
    PROVE  /\ version' \in Version /\ Sound' /\ Drawn' /\ Announced'
           /\ JudgesOwnReport' /\ GraduationIsEarned'
<1>1. pc' \notin Ended /\ ~Exited' /\ pc' # "passed" /\ pc' # "exit"
  BY DEF Underway, Ended, Exited
<1>2. version' \in Version /\ Sound'
  BY <1>1 DEF IInv, Sound, Working, Underway
<1> QED BY <1>1, <1>2 DEF Drawn, Announced, JudgesOwnReport, GraduationIsEarned

LEMMA PrepareKeeps == ASSUME IInv, Prepare PROVE IInv'
<1>1. CASE RunnerFails
  BY <1>1, FailureIsQuiet, QuietKeeps DEF Prepare
<1>2. CASE ~RunnerFails
  <2>1. /\ UNCHANGED <<version, evidence, report, judged, log, exits>>
        /\ RegistryValid(version.registry, version.corpus)
        /\ pc' = "probes"
    BY <1>2 DEF Prepare
  <2>2. version' \in Version /\ Tried' /\ Repeated'
    BY <2>1 DEF IInv, evidence, Tried, Repeated, Reproduced, Ran, Green
  <2>3. Sound'
    BY <2>1 DEF Sound
  <2>4. pc' \notin Ended /\ ~Exited' /\ pc' # "passed" /\ pc' # "exit"
    BY <2>1 DEF Ended, Exited
  <2>5. Drawn' /\ Announced' /\ JudgesOwnReport' /\ GraduationIsEarned'
    BY <2>4 DEF Drawn, Announced, JudgesOwnReport, GraduationIsEarned
  <2> QED BY <2>2, <2>3, <2>5 DEF IInv
<1> QED BY <1>1, <1>2

LEMMA RunProbeKeeps == ASSUME IInv, RunProbe PROVE IInv'
<1>0. pc = "probes" /\ UNCHANGED <<version, replays, entry, report, judged>>
  BY DEF RunProbe
<1>1. CASE \E p \in Requested \ Tested, o \in Outcome :
              /\ Runs(p, Target, o)
              /\ results' = results \cup {[probe |-> p, outcome |-> o]}
              /\ UNCHANGED <<pc, exits>>
  <2>1. PICK p \in Requested \ Tested, o \in Outcome :
              /\ Runs(p, Target, o)
              /\ results' = results \cup {[probe |-> p, outcome |-> o]}
              /\ UNCHANGED <<pc, exits>>
    BY <1>1
  <2>2. log \subseteq log' /\ Ran(p, Target, o)'
    BY <2>1, RunIsLogged
  <2>3. Tried'
    <3>1. ASSUME NEW r \in results' PROVE Ran(r.probe, Target, r.outcome)'
      <4>1. CASE r \in results
        BY <4>1, <2>2, LogGrows DEF IInv, Tried
      <4>2. CASE r = [probe |-> p, outcome |-> o]
        BY <4>2, <2>2
      <4> QED BY <2>1, <4>1, <4>2
    <3> QED BY <3>1 DEF Tried
  <2>4. Repeated'
    BY <1>0, <2>2, LogGrows DEF IInv, Repeated
  <2>5. pc \in Underway /\ pc' = pc /\ UNCHANGED <<version, report, judged, printed, code>>
    BY <1>0, <2>1 DEF Underway, exits
  <2> QED BY <2>3, <2>4, <2>5, UnderwayKeeps DEF IInv
<1>2. CASE Aborts /\ RunnerFails /\ UNCHANGED results
  BY <1>0, <1>2, FailureIsQuiet, QuietKeeps DEF Aborts, evidence
<1>3. CASE pc' = "replays" /\ UNCHANGED <<log, results, exits>>
  <2>1. Quiet
    BY <1>0, <1>3 DEF Quiet, Working, Ended, Exited, exits, evidence
  <2> QED BY <2>1, QuietKeeps
<1> QED BY <1>1, <1>2, <1>3 DEF RunProbe
\* A replay that is added, of an accepted counterexample, says what was run.
LEMMA ReplayAdded ==
    ASSUME IInv, log \subseteq log', UNCHANGED version,
           NEW e \in version.registry, NEW r,
           r.entry = e,
           r.ok => /\ Reproduced(e)'
                   /\ e.status # "unresolved" => Green(e.probe, e.resolution)',
           replays' = replays \cup {r},
           entry' \in {entry, NoEntry}
    PROVE  Repeated'
<1>1. ASSUME NEW q \in replays'
      PROVE  /\ q.entry \in version.registry
             /\ q.ok => /\ Reproduced(q.entry)'
                        /\ q.entry.status # "unresolved" =>
                              Green(q.entry.probe, q.entry.resolution)'
  <2>1. CASE q \in replays
    BY <2>1, LogGrows DEF IInv, Repeated
  <2>2. CASE q = r
    BY <2>2
  <2> QED BY <2>1, <2>2
<1>2. entry' # NoEntry => entry' \in version'.registry /\ Reproduced(entry)'
  BY LogGrows DEF IInv, Repeated, Reproduced
<1> QED BY <1>1, <1>2 DEF Repeated

LEMMA ReplayTargetKeeps == ASSUME IInv, ReplayTarget PROVE IInv'
<1>0. /\ pc \in Underway /\ pc' = pc /\ entry = NoEntry
      /\ UNCHANGED <<version, report, judged, printed, code, results>>
  BY DEF ReplayTarget, Underway, exits
<1>1. PICK e \in version.registry \ Replayed :
         \/ /\ Aborts
            /\ replays' = replays \cup {Replay(e, FALSE, FALSE, "none", "replay_setup_error")}
            /\ UNCHANGED entry
         \/ \E o \in Outcome :
              /\ Runs(e.probe, e.found, o)
              /\ IF ~Reproduces(e, o)
                   THEN /\ replays' = replays \cup
                             {Replay(e, FALSE, FALSE, "none", "target_failure_not_reproduced")}
                        /\ UNCHANGED entry
                   ELSE IF e.status = "unresolved"
                   THEN /\ replays' = replays \cup {Replay(e, TRUE, TRUE, "none", "none")}
                        /\ UNCHANGED entry
                   ELSE entry' = e /\ UNCHANGED replays
  BY DEF ReplayTarget
<1>2. CASE Aborts /\ replays' = replays \cup {Replay(e, FALSE, FALSE, "none", "replay_setup_error")}
           /\ UNCHANGED entry
  <2>1. log' = log
    BY <1>2 DEF Aborts
  <2>2. Repeated'
    BY <1>0, <1>2, <2>1, ReplayAdded DEF Replay
  <2>3. Tried'
    BY <1>0, <2>1 DEF IInv, Tried, Ran
  <2> QED BY <1>0, <2>2, <2>3, UnderwayKeeps DEF IInv
<1>3. ASSUME NEW o \in Outcome, Runs(e.probe, e.found, o),
             IF ~Reproduces(e, o)
                   THEN /\ replays' = replays \cup
                             {Replay(e, FALSE, FALSE, "none", "target_failure_not_reproduced")}
                        /\ UNCHANGED entry
                   ELSE IF e.status = "unresolved"
                   THEN /\ replays' = replays \cup {Replay(e, TRUE, TRUE, "none", "none")}
                        /\ UNCHANGED entry
                   ELSE entry' = e /\ UNCHANGED replays
      PROVE  IInv'
  <2>1. log \subseteq log' /\ Ran(e.probe, e.found, o)'
    BY <1>3, RunIsLogged
  <2>2. Tried'
    BY <1>0, <2>1, LogGrows DEF IInv, Tried
  <2>3. CASE ~Reproduces(e, o)
    <3>1. Repeated'
      BY <1>0, <1>3, <2>1, <2>3, ReplayAdded DEF Replay
    <3> QED BY <1>0, <2>2, <3>1, UnderwayKeeps DEF IInv
  <2>4. CASE Reproduces(e, o)
    <3>1. Reproduced(e)'
      BY <2>1, <2>4 DEF Reproduced, Reproduces, Ran
    <3>2. CASE e.status = "unresolved"
      <4>1. Repeated'
        BY <1>0, <1>3, <2>1, <2>4, <3>1, <3>2, ReplayAdded DEF Replay
      <4> QED BY <1>0, <2>2, <4>1, UnderwayKeeps DEF IInv
    <3>3. CASE e.status # "unresolved"
      <4>1. entry' = e /\ UNCHANGED replays
        BY <1>3, <2>4, <3>3
      <4>2. Repeated'
        BY <1>0, <2>1, <3>1, <4>1, LogGrows DEF IInv, Repeated, Reproduced
      <4> QED BY <1>0, <2>2, <4>2, UnderwayKeeps DEF IInv
    <3> QED BY <3>2, <3>3
  <2> QED BY <2>3, <2>4
<1> QED BY <1>1, <1>2, <1>3

LEMMA ReplayResolutionKeeps == ASSUME IInv, ReplayResolution PROVE IInv'
<1>0. /\ pc \in Underway /\ pc' = pc /\ entry # NoEntry /\ entry' = NoEntry
      /\ UNCHANGED <<version, report, judged, printed, code, results>>
  BY DEF ReplayResolution, Underway, exits
<1>1. PICK e \in version.registry : e = entry /\ Reproduced(e)
  BY <1>0 DEF IInv, Repeated
<1>2. CASE /\ Aborts
           /\ replays' = replays \cup {Replay(e, FALSE, TRUE, "red", "replay_setup_error")}
  <2>1. log' = log
    BY <1>2 DEF Aborts
  <2>2. Repeated'
    BY <1>0, <1>1, <1>2, <2>1, ReplayAdded DEF Replay
  <2>3. Tried'
    BY <1>0, <2>1 DEF IInv, Tried, Ran
  <2> QED BY <1>0, <2>2, <2>3, UnderwayKeeps DEF IInv
<1>3. ASSUME NEW o \in Outcome, Runs(e.probe, e.resolution, o),
             replays' = replays \cup
                 {IF o.ok THEN Replay(e, TRUE, TRUE, "green", "none")
                          ELSE Replay(e, FALSE, TRUE, "red", "resolution_probe_not_green")}
      PROVE  IInv'
  <2>1. log \subseteq log' /\ Ran(e.probe, e.resolution, o)'
    BY <1>3, RunIsLogged
  <2>2. Tried'
    BY <1>0, <2>1, LogGrows DEF IInv, Tried
  <2>3. CASE o.ok
    <3>1. Reproduced(e)' /\ Green(e.probe, e.resolution)'
      BY <1>1, <2>1, <2>3, LogGrows DEF Green, Ran
    <3>2. Repeated'
      BY <1>0, <1>1, <1>3, <2>1, <2>3, <3>1, ReplayAdded DEF Replay
    <3> QED BY <1>0, <2>2, <3>2, UnderwayKeeps DEF IInv
  <2>4. CASE ~o.ok
    <3>1. Repeated'
      BY <1>0, <1>1, <1>3, <2>1, <2>4, ReplayAdded DEF Replay
    <3> QED BY <1>0, <2>2, <3>1, UnderwayKeeps DEF IInv
  <2> QED BY <2>3, <2>4
<1> QED BY <1>1, <1>2, <1>3 DEF ReplayResolution
LEMMA ConcludeKeeps == ASSUME IInv, Conclude PROVE IInv'
<1>1. /\ UNCHANGED <<version, results, replays, entry, log>>
      /\ pc = "replays" /\ Replayed = version.registry
      /\ report' = Body /\ pc' = "report check"
  BY DEF Conclude, evidence
<1>2. version' \in Version /\ Tried' /\ Repeated'
  BY <1>1 DEF IInv, Tried, Repeated, Reproduced, Ran, Green
<1>3. Sound'
  BY <1>1 DEF IInv, Sound, Working
<1>4. Drawn'
  BY <1>1, BodySame DEF Drawn
<1>5. ~Exited' /\ pc' # "passed" /\ pc' # "exit"
  BY <1>1 DEF Exited
<1>6. Announced' /\ JudgesOwnReport' /\ GraduationIsEarned'
  BY <1>5 DEF Announced, JudgesOwnReport, GraduationIsEarned
<1> QED BY <1>2, <1>3, <1>4, <1>6 DEF IInv

\* Printing the digest and leaving with the verdict's code.
LEMMA AttestKeeps == ASSUME IInv, Attest \/ Exit PROVE IInv'
<1>1. /\ UNCHANGED <<version, results, replays, entry, log, report, judged>>
      /\ pc \in Ended
      /\ pc = "exit" => printed' = printed
      /\ pc # "exit" => printed' = report
  BY DEF Attest, Exit, evidence, Ended
<1>2. version' \in Version /\ Tried' /\ Repeated'
  BY <1>1 DEF IInv, Tried, Repeated, Reproduced, Ran, Green
<1>3. Sound'
  BY <1>1 DEF IInv, Sound, Working
<1>4. Drawn'
  BY <1>1, BodySame DEF IInv, Drawn
<1>5. Announced'
  BY <1>1 DEF IInv, Announced
<1>6. pc' # "passed"
  BY DEF Attest, Exit
<1>7. JudgesOwnReport' /\ GraduationIsEarned'
  BY <1>6 DEF JudgesOwnReport, GraduationIsEarned
<1> QED BY <1>2, <1>3, <1>4, <1>5, <1>7 DEF IInv

\* What stands behind a report that is drawn up and passes the gate's checks.
LEMMA Earned ==
    ASSUME IInv, Exited, report.graduated, Success(report),
           {r.probe : r \in report.results} = Probe
    PROVE  /\ \A p \in Probe : Green(p, Target)
           /\ \A e \in version.registry :
                 /\ e.status = "resolved"
                 /\ e.found # e.resolution /\ IsAncestor(e.found, e.resolution)
                 /\ IsAncestor(e.resolution, Target)
                 /\ \E l \in log : l.probe = e.probe /\ l.files = e.found /\ l.outcome = e.failure
                 /\ Green(e.probe, e.resolution)
<1>1. /\ report = Body /\ Replayed = version.registry
      /\ RegistryValid(version.registry, version.corpus)
  BY DEF IInv, Drawn, Sound
<1>2. report.results = results /\ report.replays = replays /\ report.unresolved = Body.unresolved
  BY <1>1 DEF Body
<1>3. /\ \A r \in results : r.outcome.ok
      /\ \A r \in replays : r.ok
      /\ Body.unresolved = 0
  BY <1>2 DEF Success
<1>4. ASSUME NEW p \in Probe PROVE Green(p, Target)
  <2>1. PICK r \in results : r.probe = p
    BY <1>2
  <2>2. Ran(p, Target, r.outcome) /\ r.outcome.ok
    BY <1>3, <2>1 DEF IInv, Tried
  <2> QED BY <2>2 DEF Ran, Green
<1>5. ASSUME NEW e \in version.registry
      PROVE  /\ e.status = "resolved"
             /\ e.found # e.resolution /\ IsAncestor(e.found, e.resolution)
             /\ IsAncestor(e.resolution, Target)
             /\ \E l \in log : l.probe = e.probe /\ l.files = e.found /\ l.outcome = e.failure
             /\ Green(e.probe, e.resolution)
  <2>1. WellFormed(e) /\ InHistory(e)
    BY <1>1 DEF RegistryValid
  <2>2. e.status # "unresolved"
    <3>1. Unresolved(version.registry) = {}
      BY <1>3, NothingUnresolved DEF IInv
    <3> QED BY <3>1 DEF Unresolved
  <2>3. e.status = "resolved"
    BY <2>1, <2>2 DEF WellFormed
  <2>4. e.found # e.resolution /\ IsAncestor(e.found, e.resolution) /\ IsAncestor(e.resolution, Target)
    BY <2>1, <2>3 DEF InHistory
  <2>5. PICK r \in replays : r.entry = e
    BY <1>1 DEF Replayed
  <2>6. Reproduced(e) /\ Green(e.probe, e.resolution)
    BY <1>3, <2>2, <2>5 DEF IInv, Repeated
  <2>7. \E l \in log : l.probe = e.probe /\ l.files = e.found /\ l.outcome = e.failure
    BY <2>6 DEF Reproduced, Ran
  <2> QED BY <2>3, <2>4, <2>6, <2>7
<1> QED BY <1>4, <1>5

LEMMA JudgeKeeps == ASSUME IInv, Judge PROVE IInv'
<1>0. /\ pc = "exited" /\ pc' \in {"passed", "failed"}
      /\ UNCHANGED <<version, evidence, report, log, exits>>
  BY DEF Judge
<1>1. version' \in Version /\ Tried' /\ Repeated'
  BY <1>0 DEF IInv, evidence, Tried, Repeated, Reproduced, Ran, Green
<1>2. pc' \notin Working /\ pc' \notin Ended /\ pc' # "exit" /\ ~Exited'
  BY <1>0 DEF Working, Ended, Exited
<1>3. Sound' /\ Drawn' /\ Announced'
  BY <1>2 DEF Sound, Drawn, Announced
<1>4. CASE pc' = "failed"
  BY <1>1, <1>3, <1>4 DEF IInv, JudgesOwnReport, GraduationIsEarned
<1>5. CASE pc' = "passed"
  <2>1. PICK v \in InTree, w \in InTree :
           /\ Attested /\ Consistent(file.body, v.corpus, w.registry)
           /\ code = 0 /\ Success(file.body) /\ judged' = file.body
    BY <1>5 DEF Judge
  <2>2. Exited /\ file.body = report
    BY <1>0, <2>1 DEF Exited, Attested, IInv, Announced
  <2>3. JudgesOwnReport'
    BY <1>0, <2>1, <2>2 DEF JudgesOwnReport
  <2>4. {r.probe : r \in report.results} = Probe
    BY <2>1, <2>2 DEF Consistent
  <2>5. Success(report) /\ report.graduated
    BY <2>1, <2>2 DEF Success
  <2>6. GraduationIsEarned'
    BY <1>0, <2>2, <2>4, <2>5, Earned DEF GraduationIsEarned, Green
  <2> QED BY <1>1, <1>3, <2>3, <2>6 DEF IInv
<1> QED BY <1>0, <1>4, <1>5

LEMMA InvInit == Init => IInv
BY DEF Init, IInv, Tried, Repeated, Sound, Drawn, Announced, Working, Ended, Exited,
       JudgesOwnReport, GraduationIsEarned

LEMMA InvStep == IInv /\ [Next]_vars => IInv'
<1> SUFFICES ASSUME IInv, [Next]_vars PROVE IInv'
  OBVIOUS
<1>1. CASE UNCHANGED vars \/ Others \/ Check \/ StartGate \/ Load \/ Create \/ Write \/ Dies
  BY <1>1, QuietSteps, QuietKeeps
<1>2. CASE Prepare \/ RunProbe \/ ReplayTarget \/ ReplayResolution
  BY <1>2, PrepareKeeps, RunProbeKeeps, ReplayTargetKeeps, ReplayResolutionKeeps
<1>3. CASE Conclude \/ Attest \/ Exit \/ Judge
  BY <1>3, ConcludeKeeps, AttestKeeps, JudgeKeeps
<1> QED BY <1>1, <1>2, <1>3 DEF Next, Gate, RunnerStep

LEMMA Inductive == Spec => []IInv
<1>1. Init => IInv
  BY InvInit
<1>2. IInv /\ [Next]_vars => IInv'
  BY InvStep
<1> QED BY <1>1, <1>2, PTL DEF Spec

\* The gate never passes another run's report, however reports come and go at
\* the path both use (_read_attested_report).
THEOREM OwnReportIsJudged == Spec => []JudgesOwnReport
<1>1. IInv => JudgesOwnReport
  BY DEF IInv
<1> QED BY <1>1, Inductive, PTL

\* What a report that is passed claims was run, on the files of the commits it
\* names, whatever the checkout did meanwhile (run_moriarty main,
\* verify_accepted_counterexamples).
THEOREM GraduationsAreEarned == Spec => []GraduationIsEarned
<1>1. IInv => GraduationIsEarned
  BY DEF IInv
<1> QED BY <1>1, Inductive, PTL
-----------------------------------------------------------------------------
(***************************************************************************)
(* The types. What is run is asked for by the fixtures, and on commits     *)
(* that the registry was found to name, which the invariant knows.         *)
(***************************************************************************)

LEMMA TypeInit == Init => TypeOK
BY GraduationAssumption
   DEF Init, TypeOK, CheckoutTypes, FileTypes, ControlTypes, EvidenceTypes, NoFile, Replayed

\* What the registry names, once it was found valid.
LEMMA NamedCommits ==
    ASSUME IInv, pc = "replays", NEW e \in version.registry
    PROVE  /\ e.probe \in Requested
           /\ e.found \in Commit
           /\ e.status # "unresolved" => e.status = "resolved" /\ e.resolution \in Commit
<1>1. WellFormed(e) /\ InHistory(e)
  BY DEF IInv, Sound, Working, RegistryValid
<1>2. Ancestry \subseteq Commit \X Commit
  BY GraduationAssumption
<1>3. e.found \in Commit
  BY <1>1, <1>2 DEF InHistory, IsAncestor
<1>4. e.status # "unresolved" => e.status = "resolved" /\ e.resolution \in Commit
  BY <1>1, <1>2 DEF WellFormed, InHistory, IsAncestor
<1>5. e.probe \in Requested
  BY DEF Requested
<1> QED BY <1>3, <1>4, <1>5

LEMMA CheckoutTypesStep ==
    ASSUME IInv, TypeOK, [Next]_vars
    PROVE  CheckoutTypes'
<1> USE DEF TypeOK, CheckoutTypes
<1>1. CASE Others
  BY <1>1, GraduationAssumption
     DEF Others, Checkout, OtherReport, RemoveReport, LeftoverGone, checking, checkout
<1>2. CASE Check
  <2>1. Target \in Commit
    BY GraduationAssumption
  <2> QED BY <1>2, <2>1, FilesOfCommit
          DEF Check, CheckHead, CheckClean, CheckTree, CheckHarness, checkout
<1>3. CASE StartGate \/ Load \/ Judge
  BY <1>3 DEF StartGate, Load, Judge, checkout, checking
<1>4. CASE Prepare
  BY <1>4, GraduationAssumption, FilesOfCommit DEF Prepare, checkout, checking
<1>5. CASE RunProbe \/ ReplayTarget \/ ReplayResolution
  <2>1. UNCHANGED <<version, checkout, checking>>
    BY <1>5 DEF RunProbe, ReplayTarget, ReplayResolution
  <2>2. cache' \in Commit \cup {NoCommit}
    <3>1. CASE RunProbe
      BY <3>1, GraduationAssumption, FilesOfCommit DEF RunProbe, Runs, Aborts
    <3>2. CASE ReplayTarget
      <4>1. PICK e \in version.registry :
               (\E o \in Outcome : Runs(e.probe, e.found, o)) \/ cache' = cache
        BY <3>2 DEF ReplayTarget, Aborts
      <4>2. e.found \in Commit
        BY <3>2, NamedCommits DEF ReplayTarget
      <4> QED BY <4>1, <4>2, FilesOfCommit DEF Runs
    <3>3. CASE ReplayResolution
      <4>1. (\E o \in Outcome : Runs(entry.probe, entry.resolution, o)) \/ cache' = cache
        BY <3>3 DEF ReplayResolution, Aborts
      <4>2. entry.resolution \in Commit
        BY <3>3, NamedCommits DEF ReplayResolution, EvidenceTypes
      <4> QED BY <4>1, <4>2, FilesOfCommit DEF Runs
    <3> QED BY <1>5, <3>1, <3>2, <3>3
  <2> QED BY <2>1, <2>2 DEF checkout, checking
<1>6. CASE Conclude \/ Create \/ Write \/ Attest \/ Exit \/ Dies
  BY <1>6 DEF Conclude, Create, Write, Attest, Exit, Dies, checkout, checking
<1>7. CASE UNCHANGED vars
  BY <1>7 DEF vars, checkout, checking
<1> QED BY <1>1, <1>2, <1>3, <1>4, <1>5, <1>6, <1>7 DEF Next, Gate, RunnerStep

\* A report of somebody's has its type.
LEMMA FileCreated ==
    ASSUME NEW body, NEW whole \in BOOLEAN, NEW author \in {"other", "runner"},
           file' = [body |-> body, whole |-> whole, author |-> author]
    PROVE  FileTypes'
<1>1. file'.body = body /\ file'.whole = whole /\ file'.author = author
  OBVIOUS
<1>2. author # "nobody"
  OBVIOUS
<1> QED BY <1>1, <1>2 DEF FileTypes

LEMMA FileTypesStep ==
    ASSUME TypeOK, [Next]_vars
    PROVE  FileTypes'
<1> USE DEF TypeOK, FileTypes
<1>1. CASE OtherReport
  <2>1. CASE \E r \in Elsewhere : file' = [body |-> r, whole |-> FALSE, author |-> "other"]
    BY <2>1, FileCreated
  <2>2. CASE file.author = "other" /\ file' = [file EXCEPT !.whole = TRUE]
    <3>1. file' = [body |-> file.body, whole |-> TRUE, author |-> "other"]
      BY <2>2
    <3> QED BY <3>1, FileCreated
  <2> QED BY <1>1, <2>1, <2>2 DEF OtherReport
<1>2. CASE RemoveReport
  BY <1>2 DEF RemoveReport, NoFile
<1>3. CASE Create
  <2>1. file' = file \/ file' = [body |-> report, whole |-> FALSE, author |-> "runner"]
    BY <1>3 DEF Create
  <2> QED BY <2>1, FileCreated
<1>4. CASE Write
  BY <1>4 DEF Write
<1>5. CASE Checkout \/ LeftoverGone \/ Check \/ StartGate \/ Load \/ Judge
  BY <1>5 DEF Checkout, LeftoverGone, Check, StartGate, Load, Judge
<1>6. CASE Prepare \/ RunProbe \/ ReplayTarget \/ ReplayResolution \/ Conclude \/ Attest \/ Exit \/ Dies
  BY <1>6 DEF Prepare, RunProbe, ReplayTarget, ReplayResolution, Conclude, Attest, Exit, Dies
<1>7. CASE UNCHANGED vars
  BY <1>7 DEF vars
<1> QED BY <1>1, <1>2, <1>3, <1>4, <1>5, <1>6, <1>7 DEF Next, Others, Gate, RunnerStep

LEMMA ControlTypesStep ==
    ASSUME TypeOK, [Next]_vars
    PROVE  ControlTypes'
<1> USE DEF TypeOK, ControlTypes, exits, checking, Runner
<1>1. CASE Others
  BY <1>1 DEF Others, Checkout, OtherReport, RemoveReport, LeftoverGone
<1>2. CASE Check
  <2>1. UNCHANGED leftovers
    BY <1>2 DEF Check
  <2>2. CASE CheckHarness
    <3>1. AfterCheck[pc] \in {"load", "prepare", "create", "print"}
      BY <2>2 DEF CheckHarness, AfterCheck, Before
    <3> QED BY <2>1, <2>2, <3>1 DEF CheckHarness, CheckFails, GateFails, RunnerFails
  <2>3. CASE CheckHead \/ CheckClean \/ CheckTree
    BY <2>1, <2>3 DEF CheckHead, CheckClean, CheckTree, CheckFails, GateFails, RunnerFails
  <2> QED BY <1>2, <2>2, <2>3 DEF Check
<1>3. CASE StartGate \/ Load \/ Judge
  BY <1>3 DEF StartGate, Load, Judge, GateFails
<1>4. CASE Prepare \/ Conclude \/ Create \/ Write \/ Attest \/ Exit \/ Dies
  BY <1>4 DEF Prepare, Conclude, Create, Write, Attest, Exit, Dies, RunnerFails
<1>5. CASE RunProbe
  BY <1>5 DEF RunProbe, Runs, Aborts, RunnerFails
<1>6. CASE ReplayTarget \/ ReplayResolution
  BY <1>6 DEF ReplayTarget, ReplayResolution, Runs, Aborts
<1>7. CASE UNCHANGED vars
  BY <1>7 DEF vars
<1> QED BY <1>1, <1>2, <1>3, <1>4, <1>5, <1>6, <1>7 DEF Next, Gate, RunnerStep

\* A run of what the fixtures ask for, on a commit's files.
LEMMA RunHasItsTypes ==
    ASSUME EvidenceTypes, UNCHANGED version,
           NEW p \in Requested, NEW c \in Commit, NEW o \in Outcome, Runs(p, c, o)
    PROVE  \A l \in log' : l.probe \in Requested' /\ l.files \in Commit /\ l.outcome \in Outcome
<1>1. Requested' = Requested
  BY DEF Requested
<1> QED BY <1>1, RunIsLogged DEF EvidenceTypes

LEMMA EvidenceTypesStep ==
    ASSUME IInv, TypeOK, [Next]_vars
    PROVE  EvidenceTypes'
<1> USE DEF TypeOK
<1>1. UNCHANGED version /\ Requested' = Requested
  BY DEF Next, Others, Checkout, OtherReport, RemoveReport, LeftoverGone, Check, Gate, StartGate, Load,
         Judge, RunnerStep, Prepare, RunProbe, ReplayTarget, ReplayResolution, Conclude, Create,
         Write, Attest, Exit, Dies, Requested, vars
<1>2. CASE UNCHANGED <<evidence, log>>
  BY <1>1, <1>2 DEF EvidenceTypes, evidence, Replayed
<1>3. CASE RunProbe /\ UNCHANGED log
  BY <1>1, <1>3, RunIsLogged DEF RunProbe, EvidenceTypes, Replayed, Runs
<1>4. CASE RunProbe /\ ~UNCHANGED log
  <2>1. PICK p \in Requested \ Tested, o \in Outcome :
            Runs(p, Target, o) /\ results' = results \cup {[probe |-> p, outcome |-> o]}
    BY <1>4 DEF RunProbe, Aborts
  <2>2. UNCHANGED <<replays, entry>> /\ Target \in Commit
    BY <1>4, GraduationAssumption DEF RunProbe
  <2>3. \A r \in results' : r.probe \in Requested' /\ r.outcome \in Outcome
    BY <1>1, <2>1 DEF EvidenceTypes
  <2>4. \A l \in log' : l.probe \in Requested' /\ l.files \in Commit /\ l.outcome \in Outcome
    BY <1>1, <2>1, <2>2, RunHasItsTypes
  <2> QED BY <1>1, <2>2, <2>3, <2>4 DEF EvidenceTypes, Replayed
<1>5. CASE ReplayTarget
  <2>1. PICK e \in version.registry \ Replayed :
           /\ \/ \E o \in Outcome : Runs(e.probe, e.found, o)
              \/ log' = log
           /\ \/ entry' = entry /\ \E r : r.entry = e /\ replays' = replays \cup {r}
              \/ entry' = e /\ e.status # "unresolved" /\ UNCHANGED replays
    <3>1. PICK e \in version.registry \ Replayed :
             \/ /\ Aborts
                /\ replays' = replays \cup {Replay(e, FALSE, FALSE, "none", "replay_setup_error")}
                /\ UNCHANGED entry
             \/ \E o \in Outcome :
                  /\ Runs(e.probe, e.found, o)
                  /\ IF ~Reproduces(e, o)
                       THEN /\ replays' = replays \cup
                                 {Replay(e, FALSE, FALSE, "none", "target_failure_not_reproduced")}
                            /\ UNCHANGED entry
                       ELSE IF e.status = "unresolved"
                       THEN /\ replays' = replays \cup {Replay(e, TRUE, TRUE, "none", "none")}
                            /\ UNCHANGED entry
                       ELSE entry' = e /\ UNCHANGED replays
      BY <1>5 DEF ReplayTarget
    <3>2. (\E o \in Outcome : Runs(e.probe, e.found, o)) \/ log' = log
      BY <3>1 DEF Aborts
    <3>3. \/ entry' = entry /\ \E ok, reproduced, kind :
                  replays' = replays \cup {Replay(e, ok, reproduced, "none", kind)}
          \/ entry' = e /\ e.status # "unresolved" /\ UNCHANGED replays
      BY <3>1, Zenon
    <3>4. \A ok, reproduced, kind : Replay(e, ok, reproduced, "none", kind).entry = e
      BY DEF Replay
    <3>5. \/ entry' = entry /\ \E r : r.entry = e /\ replays' = replays \cup {r}
          \/ entry' = e /\ e.status # "unresolved" /\ UNCHANGED replays
      BY <3>3, <3>4, Zenon
    <3> QED BY <3>2, <3>5
  <2>2. /\ e.probe \in Requested /\ e.found \in Commit
        /\ e.status # "unresolved" => e.status = "resolved"
    BY <1>5, NamedCommits DEF ReplayTarget
  <2>3. \A l \in log' : l.probe \in Requested' /\ l.files \in Commit /\ l.outcome \in Outcome
    BY <1>1, <2>1, <2>2, RunHasItsTypes DEF EvidenceTypes
  <2>4. \A r \in results' : r.probe \in Requested' /\ r.outcome \in Outcome
    BY <1>1, <1>5 DEF EvidenceTypes, ReplayTarget
  <2>5. Replayed' \subseteq version'.registry
    BY <1>1, <2>1 DEF EvidenceTypes, Replayed
  <2>6. /\ entry' \in version'.registry \cup {NoEntry}
        /\ entry' # NoEntry => entry'.status = "resolved"
    BY <1>1, <2>1, <2>2 DEF EvidenceTypes
  <2> QED BY <2>3, <2>4, <2>5, <2>6 DEF EvidenceTypes
<1>6. CASE ReplayResolution
  <2>1. /\ \/ \E o \in Outcome : Runs(entry.probe, entry.resolution, o)
           \/ log' = log
        /\ \E r : r.entry = entry /\ replays' = replays \cup {r}
    <3>1. \/ /\ Aborts
             /\ replays' = replays \cup {Replay(entry, FALSE, TRUE, "red", "replay_setup_error")}
          \/ \E o \in Outcome :
               /\ Runs(entry.probe, entry.resolution, o)
               /\ replays' = replays \cup
                    {IF o.ok THEN Replay(entry, TRUE, TRUE, "green", "none")
                             ELSE Replay(entry, FALSE, TRUE, "red", "resolution_probe_not_green")}
      BY <1>6 DEF ReplayResolution
    <3>2. (\E o \in Outcome : Runs(entry.probe, entry.resolution, o)) \/ log' = log
      BY <3>1 DEF Aborts
    <3>3. \E ok, green, kind : replays' = replays \cup {Replay(entry, ok, TRUE, green, kind)}
      BY <3>1, Zenon
    <3>4. \A ok, green, kind : Replay(entry, ok, TRUE, green, kind).entry = entry
      BY DEF Replay
    <3>5. \E r : r.entry = entry /\ replays' = replays \cup {r}
      BY <3>3, <3>4, Zenon
    <3> QED BY <3>2, <3>5
  <2>2. entry \in version.registry /\ entry.status = "resolved"
    BY <1>6 DEF ReplayResolution, EvidenceTypes
  <2>3. entry.probe \in Requested /\ entry.resolution \in Commit
    BY <1>6, <2>2, NamedCommits DEF ReplayResolution
  <2>4. \A l \in log' : l.probe \in Requested' /\ l.files \in Commit /\ l.outcome \in Outcome
    BY <1>1, <2>1, <2>3, RunHasItsTypes DEF EvidenceTypes
  <2>5. Replayed' \subseteq version'.registry
    BY <1>1, <2>1, <2>2 DEF EvidenceTypes, Replayed
  <2>6. entry' = NoEntry /\ UNCHANGED results
    BY <1>6 DEF ReplayResolution
  <2> QED BY <1>1, <2>4, <2>5, <2>6 DEF EvidenceTypes
<1>7. \/ UNCHANGED <<evidence, log>> \/ RunProbe \/ ReplayTarget \/ ReplayResolution
  BY DEF Next, Others, Checkout, OtherReport, RemoveReport, LeftoverGone, Check, Gate, StartGate, Load,
         Judge, RunnerStep, Prepare, Conclude, Create, Write, Attest, Exit, Dies, vars
<1> QED BY <1>2, <1>3, <1>4, <1>5, <1>6, <1>7

\* What a run of the gate keeps and reads has its type; nothing is run that the
\* fixtures do not ask for, and nothing on files that are not a commit's
\* (run_moriarty main, create_exact_export).
THEOREM TypeCorrect == Spec => []TypeOK
<1>1. Init => TypeOK
  BY TypeInit
<1>2. IInv /\ TypeOK /\ [Next]_vars => TypeOK'
  BY CheckoutTypesStep, FileTypesStep, ControlTypesStep, EvidenceTypesStep DEF TypeOK
<1> QED BY <1>1, <1>2, Inductive, PTL DEF Spec

-----------------------------------------------------------------------------
(***************************************************************************)
(* The file of the report.                                                 *)
(***************************************************************************)

\* A step leaves the file, creates it where there is none, writes the rest of it,
\* or removes it.
LEMMA FileSteps ==
    ASSUME FileTypes, Next
    PROVE  \/ file' = file \/ file' = NoFile \/ file = NoFile
           \/ file'.body = file.body /\ file'.author = file.author
<1>1. CASE OtherReport \/ RemoveReport
  BY <1>1 DEF OtherReport, RemoveReport, MayCreate, FileTypes
<1>2. CASE Create
  BY <1>2 DEF Create, MayCreate
<1>3. CASE Write
  BY <1>3 DEF Write, FileTypes
<1>4. CASE Checkout \/ LeftoverGone \/ Check \/ StartGate \/ Load \/ Judge
  BY <1>4 DEF Checkout, LeftoverGone, Check, StartGate, Load, Judge
<1>5. CASE Prepare \/ RunProbe \/ ReplayTarget \/ ReplayResolution \/ Conclude \/ Attest \/ Exit \/ Dies
  BY <1>5 DEF Prepare, RunProbe, ReplayTarget, ReplayResolution, Conclude, Attest, Exit, Dies
<1> QED BY <1>1, <1>2, <1>3, <1>4, <1>5 DEF Next, Others, Gate, RunnerStep

\* A report at the path is nobody's but its first author's until it is removed
\* (write_report_exclusive).
THEOREM ReportsAreKept == Spec => OneAuthor
<1>1. TypeOK /\ [Next]_vars =>
        [file # NoFile /\ file' # NoFile => file'.body = file.body /\ file'.author = file.author]_file
  BY FileSteps DEF vars, TypeOK
<1> QED BY <1>1, TypeCorrect, PTL DEF Spec, OneAuthor

-----------------------------------------------------------------------------
\* Induction over the naturals, for a set.
LEMMA Induct ==
    ASSUME NEW S, 0 \in S, \A n \in Nat : n \in S => n + 1 \in S
    PROVE  Nat \subseteq S
<1>. DEFINE R == {ss \in Nat \X Nat : ss[1] < ss[2]}
            T == Nat \ S
<1>1. IsWellFoundedOn(R, Nat)
  BY NatLessThanWellFounded DEF OpToRel
<1>. HIDE DEF R
<1>2. SUFFICES ASSUME T # {} PROVE FALSE
  OBVIOUS
<1>3. PICK n \in T : \A m \in T : ~(<<m, n>> \in R)
  BY <1>1, <1>2, WFMin
<1>4. \A m \in T : ~(m < n)
  BY <1>3 DEF R
<1>5. n # 0 /\ n - 1 \in Nat
  BY <1>3
<1>6. n - 1 \notin T
  BY <1>4, <1>5
<1>. QED
  BY <1>3, <1>5, <1>6

-----------------------------------------------------------------------------
(***************************************************************************)
(* The reader of Lean sources, one character at a time.                    *)
(***************************************************************************)

After(text, k) == Lean!Reading(text)[k]
Following(text, k) == IF k < Len(text) THEN text[k + 1] ELSE Lean!NoCharacter

\* What the reader does with a text, character by character.
LEMMA ReadingUnfolds ==
    ASSUME NEW text, Len(text) \in Nat
    PROVE  /\ After(text, 0) = Lean!One(0, FALSE, FALSE, Lean!Blank)
           /\ \A k \in 0 .. Len(text) - 1 :
                 After(text, k + 1) = Lean!ReadNext(After(text, k), text[k + 1], Following(text, k + 1))
<1>. DEFINE L == Len(text)
            first == Lean!One(0, FALSE, FALSE, Lean!Blank)
            Step(s, k) == Lean!ReadNext(s, text[k], IF k < L THEN text[k + 1] ELSE Lean!NoCharacter)
            Unrolls(f, n) == f = [k \in 0..n |-> IF k = 0 THEN first ELSE Step(f[k - 1], k)]
            S == {n \in Nat : \E f : Unrolls(f, n)}
<1>1. 0 \in S
  <2>1. Unrolls([k \in {0} |-> first], 0)
    OBVIOUS
  <2>. QED
    BY <2>1
<1>2. ASSUME NEW n \in Nat, n \in S PROVE n + 1 \in S
  <2>1. PICK f : Unrolls(f, n)
    BY <1>2
  <2>. DEFINE g == [k \in 0 .. n + 1 |-> IF k = n + 1 THEN Step(f[n], n + 1) ELSE f[k]]
  <2>. HIDE DEF Step, first
  <2>2. \A k \in 0..n : f[k] = IF k = 0 THEN first ELSE Step(f[k - 1], k)
    BY <2>1
  <2>3. \A k \in 0..n : g[k] = f[k]
    OBVIOUS
  <2>4. g[n + 1] = Step(f[n], n + 1)
    OBVIOUS
  <2>5. g = [k \in 0 .. n + 1 |-> g[k]]
    OBVIOUS
  <2>. HIDE DEF g
  <2>6. ASSUME NEW k \in 0 .. n + 1 PROVE g[k] = IF k = 0 THEN first ELSE Step(g[k - 1], k)
    <3>1. CASE k = n + 1
      <4>1. g[k - 1] = f[n]
        BY <2>3, <3>1
      <4>. QED
        BY <2>4, <3>1, <4>1
    <3>2. CASE k # n + 1
      <4>1. k \in 0..n /\ (k # 0 => k - 1 \in 0..n)
        BY <3>2
      <4>. QED
        BY <2>2, <2>3, <4>1
    <3>. QED
      BY <3>1, <3>2
  <2>7. Unrolls(g, n + 1)
    BY <2>5, <2>6
  <2>. QED
    BY <2>7
<1>3. L \in S
  <2>. HIDE DEF S
  <2>. QED
    BY <1>1, <1>2, Induct
<1>4. PICK f : Unrolls(f, L)
  BY <1>3
<1>. HIDE DEF Step, first
<1>5. Lean!Reading(text) = CHOOSE h : Unrolls(h, L)
  BY DEF Lean!Reading, Step, first
<1>6. Unrolls(Lean!Reading(text), L)
  <2>. HIDE DEF Unrolls
  <2>. QED
    BY <1>4, <1>5
<1>7. \A k \in 0..L : After(text, k) = IF k = 0 THEN first ELSE Step(After(text, k - 1), k)
  BY <1>6 DEF After
<1>8. After(text, 0) = first
  BY <1>7
<1>9. ASSUME NEW k \in 0 .. L - 1
      PROVE  After(text, k + 1) = Lean!ReadNext(After(text, k), text[k + 1], Following(text, k + 1))
  <2>1. k + 1 \in 0..L /\ k + 1 # 0 /\ (k + 1) - 1 = k
    OBVIOUS
  <2>2. After(text, k + 1) = Step(After(text, k), k + 1)
    BY <1>7, <2>1
  <2>. QED
    BY <2>2 DEF Step, Following
<1>. QED
  BY <1>8, <1>9 DEF first

\* How the reader stands after k characters: within d comments, in a string, in a
\* comment up to the end of the line.
In(text, k, d) ==
    /\ After(text, k).depth = d /\ After(text, k).string = FALSE
    /\ After(text, k).skip = FALSE /\ After(text, k).line = FALSE
Quoted(text, k) ==
    /\ After(text, k).depth = 0 /\ After(text, k).string = TRUE
    /\ After(text, k).skip = FALSE /\ After(text, k).line = FALSE
Trailing(text, k) ==
    /\ After(text, k).depth = 0 /\ After(text, k).string = FALSE
    /\ After(text, k).skip = FALSE /\ After(text, k).line = TRUE

Gone(text, k) == After(text, k).kept \in {Lean!Blank, "n"}

\* What the next character is read as.
LEMMA CodeReads ==
    ASSUME NEW text, Len(text) \in Nat, NEW k \in Nat, k + 1 <= Len(text), In(text, k, 0)
    PROVE  After(text, k + 1) = Lean!InCode(text[k + 1], Following(text, k + 1))
<1>1. k \in 0 .. Len(text) - 1
  OBVIOUS
<1>2. After(text, k + 1) = Lean!ReadNext(After(text, k), text[k + 1], Following(text, k + 1))
  BY <1>1, ReadingUnfolds
<1>3. ~(After(text, k).depth > 0)
  BY DEF In
<1>. QED
  BY <1>2, <1>3, Zenon DEF In, Lean!ReadNext

\* Within comments every character is read as one of a comment.
LEMMA CommentReads ==
    ASSUME NEW text, Len(text) \in Nat, NEW k \in Nat, k + 1 <= Len(text),
           NEW d \in Nat, d # 0, In(text, k, d)
    PROVE  After(text, k + 1) = Lean!InBlock(After(text, k), text[k + 1], Following(text, k + 1))
<1>1. k \in 0 .. Len(text) - 1
  OBVIOUS
<1>2. After(text, k + 1) = Lean!ReadNext(After(text, k), text[k + 1], Following(text, k + 1))
  BY <1>1, ReadingUnfolds
<1>3. After(text, k).depth > 0
  BY DEF In
<1>. QED
  BY <1>2, <1>3, Zenon DEF In, Lean!ReadNext

\* Within a string every character is read as one of a string.
LEMMA StringReads ==
    ASSUME NEW text, Len(text) \in Nat, NEW k \in Nat, k + 1 <= Len(text), Quoted(text, k)
    PROVE  After(text, k + 1) = Lean!InString(After(text, k), text[k + 1], Following(text, k + 1))
<1>1. k \in 0 .. Len(text) - 1
  OBVIOUS
<1>2. After(text, k + 1) = Lean!ReadNext(After(text, k), text[k + 1], Following(text, k + 1))
  BY <1>1, ReadingUnfolds
<1>3. ~(After(text, k).depth > 0)
  BY DEF Quoted
<1>. QED
  BY <1>2, <1>3, Zenon DEF Quoted, Lean!ReadNext

\* The second character of a pair is passed over.
LEMMA SecondReads ==
    ASSUME NEW text, Len(text) \in Nat, NEW k \in Nat, k + 2 <= Len(text),
           After(text, k + 1).skip = TRUE
    PROVE  After(text, k + 2) = Lean!One(After(text, k + 1).depth, After(text, k + 1).string,
                                         FALSE, Lean!Blank)
<1>1. k + 1 \in 0 .. Len(text) - 1 /\ (k + 1) + 1 = k + 2
  OBVIOUS
<1>2. After(text, k + 2) = Lean!ReadNext(After(text, k + 1), text[k + 2], Following(text, k + 2))
  BY <1>1, ReadingUnfolds
<1>. QED
  BY <1>2, Zenon DEF Lean!ReadNext

\* A comment opens, within d others or in code, and closes.
LEMMA Opening ==
    ASSUME NEW text, Len(text) \in Nat, NEW k \in Nat, k + 2 <= Len(text), NEW d \in Nat,
           In(text, k, d), text[k + 1] = "/", text[k + 2] = "-"
    PROVE  In(text, k + 2, d + 1) /\ Gone(text, k + 1) /\ Gone(text, k + 2)
<1>1. k + 1 <= Len(text) /\ Following(text, k + 1) = "-"
  BY DEF Following
<1>2. After(text, k + 1) = Lean!Pair(d + 1, FALSE)
  <2>1. CASE d = 0
    <3>1. After(text, k + 1) = Lean!InCode("/", "-")
      BY <1>1, <2>1, CodeReads
    <3>2. ~("/" = "-") /\ d + 1 = 1
      BY <2>1
    <3>3. After(text, k + 1) = Lean!Pair(1, FALSE)
      BY <3>1, <3>2, Zenon DEF Lean!InCode
    <3>. QED
      BY <3>2, <3>3
  <2>2. CASE d # 0
    <3>1. After(text, k + 1) = Lean!InBlock(After(text, k), "/", "-")
      BY <1>1, <2>2, CommentReads
    <3>2. After(text, k).depth = d
      BY DEF In
    <3>. QED
      BY <3>1, <3>2, Zenon DEF Lean!InBlock
  <2>. QED
    BY <2>1, <2>2
<1>3. After(text, k + 2) = Lean!One(d + 1, FALSE, FALSE, Lean!Blank)
  <2>1. /\ After(text, k + 1).skip = TRUE
        /\ After(text, k + 1).depth = d + 1 /\ After(text, k + 1).string = FALSE
    BY <1>2 DEF Lean!Pair
  <2>2. After(text, k + 2) = Lean!One(After(text, k + 1).depth, After(text, k + 1).string,
                                      FALSE, Lean!Blank)
    BY <2>1, SecondReads
  <2>. QED
    BY <2>1, <2>2, Zenon
<1>. QED
  BY <1>2, <1>3 DEF In, Gone, Lean!One, Lean!Pair

\* A comment closes: what was around it goes on.
LEMMA Closing ==
    ASSUME NEW text, Len(text) \in Nat, NEW k \in Nat, k + 2 <= Len(text), NEW d \in Nat,
           In(text, k, d + 1), text[k + 1] = "-", text[k + 2] = "/"
    PROVE  In(text, k + 2, d) /\ Gone(text, k + 1) /\ Gone(text, k + 2)
<1>1. k + 1 <= Len(text) /\ Following(text, k + 1) = "/"
  BY DEF Following
<1>2. d + 1 \in Nat /\ d + 1 # 0 /\ (d + 1) - 1 = d
  OBVIOUS
<1>3. After(text, k + 1) = Lean!InBlock(After(text, k), "-", "/")
  BY <1>1, <1>2, CommentReads
<1>4. After(text, k + 1) = Lean!Pair(d, FALSE)
  <2>1. After(text, k).depth = d + 1
    BY DEF In
  <2>2. After(text, k + 1) = Lean!Pair(After(text, k).depth - 1, FALSE)
    <3>1. ~("-" = "/")
      OBVIOUS
    <3>. QED
      BY <1>3, <3>1, Zenon DEF Lean!InBlock
  <2>. QED
    BY <1>2, <2>1, <2>2
<1>5. After(text, k + 2) = Lean!One(d, FALSE, FALSE, Lean!Blank)
  <2>1. /\ After(text, k + 1).skip = TRUE
        /\ After(text, k + 1).depth = d /\ After(text, k + 1).string = FALSE
    BY <1>4 DEF Lean!Pair
  <2>2. After(text, k + 2) = Lean!One(After(text, k + 1).depth, After(text, k + 1).string,
                                      FALSE, Lean!Blank)
    BY <2>1, SecondReads
  <2>. QED
    BY <2>1, <2>2, Zenon
<1>. QED
  BY <1>4, <1>5 DEF In, Gone, Lean!One, Lean!Pair

\* Neither an opening nor a closing of a comment.
Calm(c, next) == ~(c = "/" /\ next = "-") /\ ~(c = "-" /\ next = "/")

\* In a comment one character that neither opens nor closes is gone.
LEMMA CommentedOne ==
    ASSUME NEW text, Len(text) \in Nat, NEW k \in Nat, k + 1 <= Len(text),
           NEW d \in Nat \ {0}, In(text, k, d), Calm(text[k + 1], Following(text, k + 1))
    PROVE  In(text, k + 1, d) /\ Gone(text, k + 1)
<1>1. After(text, k + 1) = Lean!InBlock(After(text, k), text[k + 1], Following(text, k + 1))
  BY CommentReads
<1>2. After(text, k).depth = d
  BY DEF In
<1>3. After(text, k + 1) = Lean!One(d, FALSE, FALSE, Lean!Blanked(text[k + 1]))
  BY <1>1, <1>2, Zenon DEF Calm, Lean!InBlock
<1>. QED
  BY <1>3 DEF In, Gone, Lean!One, Lean!Blanked

\* In a comment any number of these are gone.
LEMMA Commented ==
    ASSUME NEW text, Len(text) \in Nat, NEW k \in Nat, NEW n \in Nat, k + n <= Len(text),
           NEW d \in Nat \ {0}, In(text, k, d),
           \A j \in 1..n : Calm(text[k + j], Following(text, k + j))
    PROVE  In(text, k + n, d) /\ \A j \in 1..n : Gone(text, k + j)
<1>. DEFINE S == {m \in Nat : m <= n => In(text, k + m, d) /\ \A j \in 1..m : Gone(text, k + j)}
<1>1. 0 \in S
  OBVIOUS
<1>2. ASSUME NEW m \in Nat, m \in S PROVE m + 1 \in S
  <2>1. SUFFICES ASSUME m + 1 <= n
                 PROVE  In(text, k + (m + 1), d) /\ \A j \in 1 .. m + 1 : Gone(text, k + j)
    OBVIOUS
  <2>2. In(text, k + m, d) /\ \A j \in 1..m : Gone(text, k + j)
    BY <1>2, <2>1
  <2>3. Calm(text[k + (m + 1)], Following(text, k + (m + 1)))
    <3>1. m + 1 \in 1..n
      BY <2>1
    <3>. QED
      BY <3>1, Zenon
  <2>4. (k + m) + 1 = k + (m + 1) /\ k + m \in Nat /\ (k + m) + 1 <= Len(text)
    BY <2>1
  <2>5. In(text, k + (m + 1), d) /\ Gone(text, k + (m + 1))
    BY <2>2, <2>3, <2>4, CommentedOne
  <2>6. \A j \in 1 .. m + 1 : j \in 1..m \/ j = m + 1
    OBVIOUS
  <2>. QED
    BY <2>2, <2>5, <2>6
<1>3. n \in S
  <2>. HIDE DEF S
  <2>. QED
    BY <1>1, <1>2, Induct
<1>. QED
  BY <1>3

\* A string opens and closes; a backslash takes the next character along.
LEMMA QuoteOpens ==
    ASSUME NEW text, Len(text) \in Nat, NEW k \in Nat, k + 1 <= Len(text),
           In(text, k, 0), text[k + 1] = "q"
    PROVE  Quoted(text, k + 1) /\ Gone(text, k + 1)
<1>1. After(text, k + 1) = Lean!InCode("q", Following(text, k + 1))
  BY CodeReads
<1>2. After(text, k + 1) = Lean!One(0, TRUE, FALSE, Lean!Blank)
  BY <1>1 DEF Lean!InCode
<1>. QED
  BY <1>2 DEF Quoted, Gone, Lean!One

\* A quote ends the string.
LEMMA QuoteCloses ==
    ASSUME NEW text, Len(text) \in Nat, NEW k \in Nat, k + 1 <= Len(text),
           Quoted(text, k), text[k + 1] = "q"
    PROVE  In(text, k + 1, 0) /\ Gone(text, k + 1)
<1>1. After(text, k + 1) = Lean!InString(After(text, k), "q", Following(text, k + 1))
  BY StringReads
<1>2. After(text, k + 1) = Lean!One(0, FALSE, FALSE, Lean!Blank)
  BY <1>1 DEF Lean!InString
<1>. QED
  BY <1>2 DEF In, Gone, Lean!One

\* What is neither a quote nor a backslash stays in the string.
LEMMA QuotedOne ==
    ASSUME NEW text, Len(text) \in Nat, NEW k \in Nat, k + 1 <= Len(text),
           Quoted(text, k), text[k + 1] # "b", text[k + 1] # "q"
    PROVE  Quoted(text, k + 1) /\ Gone(text, k + 1)
<1>1. After(text, k + 1) = Lean!InString(After(text, k), text[k + 1], Following(text, k + 1))
  BY StringReads
<1>2. After(text, k + 1) = Lean!One(0, TRUE, FALSE, Lean!Blanked(text[k + 1]))
  BY <1>1, Zenon DEF Lean!InString
<1>. QED
  BY <1>2 DEF Quoted, Gone, Lean!One, Lean!Blanked

\* A backslash takes the next character along, a quote too.
LEMMA Escaped ==
    ASSUME NEW text, Len(text) \in Nat, NEW k \in Nat, k + 2 <= Len(text),
           Quoted(text, k), text[k + 1] = "b", text[k + 2] # Lean!NoCharacter
    PROVE  Quoted(text, k + 2) /\ Gone(text, k + 1) /\ Gone(text, k + 2)
<1>1. k + 1 <= Len(text) /\ Following(text, k + 1) # Lean!NoCharacter
  BY DEF Following
<1>2. After(text, k + 1) = Lean!InString(After(text, k), "b", Following(text, k + 1))
  BY <1>1, StringReads
<1>3. After(text, k + 1) = Lean!Pair(0, TRUE)
  BY <1>1, <1>2, Zenon DEF Lean!InString
<1>4. After(text, k + 2) = Lean!One(0, TRUE, FALSE, Lean!Blank)
  <2>1. /\ After(text, k + 1).skip = TRUE
        /\ After(text, k + 1).depth = 0 /\ After(text, k + 1).string = TRUE
    BY <1>3 DEF Lean!Pair
  <2>2. After(text, k + 2) = Lean!One(After(text, k + 1).depth, After(text, k + 1).string,
                                      FALSE, Lean!Blank)
    BY <2>1, SecondReads
  <2>. QED
    BY <2>1, <2>2, Zenon
<1>. QED
  BY <1>3, <1>4 DEF Quoted, Gone, Lean!One, Lean!Pair

\* Comments to the end of the line, and code.
LEMMA DashesOpen ==
    ASSUME NEW text, Len(text) \in Nat, NEW k \in Nat, k + 2 <= Len(text),
           In(text, k, 0), text[k + 1] = "-", text[k + 2] = "-"
    PROVE  Trailing(text, k + 1) /\ Gone(text, k + 1)
<1>1. k + 1 <= Len(text) /\ Following(text, k + 1) = "-"
  BY DEF Following
<1>2. After(text, k + 1) = Lean!InCode("-", "-")
  BY <1>1, CodeReads
<1>3. After(text, k + 1) = Lean!One(0, FALSE, TRUE, Lean!Blank)
  BY <1>2, Zenon DEF Lean!InCode
<1>. QED
  BY <1>3 DEF Trailing, Gone, Lean!One

\* A comment to the end of the line is read up to there.
LEMMA TrailingReads ==
    ASSUME NEW text, Len(text) \in Nat, NEW k \in Nat, k + 1 <= Len(text), Trailing(text, k)
    PROVE  After(text, k + 1) = IF text[k + 1] # "n" THEN Lean!One(0, FALSE, TRUE, Lean!Blank)
                                ELSE Lean!InCode(text[k + 1], Following(text, k + 1))
<1>1. k \in 0 .. Len(text) - 1
  OBVIOUS
<1>2. After(text, k + 1) = Lean!ReadNext(After(text, k), text[k + 1], Following(text, k + 1))
  BY <1>1, ReadingUnfolds
<1>3. ~(After(text, k).depth > 0)
  BY DEF Trailing
<1>. QED
  BY <1>2, <1>3, Zenon DEF Trailing, Lean!ReadNext

\* Before the end of the line everything is gone.
LEMMA TrailingOne ==
    ASSUME NEW text, Len(text) \in Nat, NEW k \in Nat, k + 1 <= Len(text),
           Trailing(text, k), text[k + 1] # "n"
    PROVE  Trailing(text, k + 1) /\ Gone(text, k + 1)
<1>1. After(text, k + 1) = Lean!One(0, FALSE, TRUE, Lean!Blank)
  BY TrailingReads
<1>. QED
  BY <1>1 DEF Trailing, Gone, Lean!One

\* The end of the line ends the comment and is kept.
LEMMA LineEnds ==
    ASSUME NEW text, Len(text) \in Nat, NEW k \in Nat, k + 1 <= Len(text),
           Trailing(text, k), text[k + 1] = "n"
    PROVE  In(text, k + 1, 0) /\ After(text, k + 1).kept = "n"
<1>1. After(text, k + 1) = Lean!InCode("n", Following(text, k + 1))
  BY TrailingReads
<1>2. After(text, k + 1) = Lean!One(0, FALSE, FALSE, "n")
  BY <1>1 DEF Lean!InCode
<1>. QED
  BY <1>2 DEF In, Lean!One

\* Not a quote, and no opening of a comment.
IsPlain(c, next) == c # "q" /\ ~(c = "-" /\ next = "-") /\ ~(c = "/" /\ next = "-")

\* Code is kept as it is.
LEMMA CodeStays ==
    ASSUME NEW text, Len(text) \in Nat, NEW k \in Nat, k + 1 <= Len(text),
           In(text, k, 0), IsPlain(text[k + 1], Following(text, k + 1))
    PROVE  In(text, k + 1, 0) /\ After(text, k + 1).kept = text[k + 1]
<1>1. After(text, k + 1) = Lean!InCode(text[k + 1], Following(text, k + 1))
  BY CodeReads
<1>2. After(text, k + 1) = Lean!One(0, FALSE, FALSE, text[k + 1])
  BY <1>1, Zenon DEF IsPlain, Lean!InCode
<1>. QED
  BY <1>2 DEF In, Lean!One
-----------------------------------------------------------------------------
(***************************************************************************)
(* The reader over a part of a text.                                       *)
(***************************************************************************)

Chars == {"c", "n", "q", "b", "-", "/"}
Inner == {"c", "n", "q", "b", "-"}

Spells(text, k, part) ==
    k + Len(part) <= Len(text) /\ \A i \in 1 .. Len(part) : text[k + i] = part[i]
GoneOver(text, k, n) == \A i \in 1..n : Gone(text, k + i)

\* Two parts are as long as each.
LEMMA Joined ==
    ASSUME NEW a \in Seq(Chars), NEW b \in Seq(Chars)
    PROVE  a \o b \in Seq(Chars) /\ Len(a \o b) = Len(a) + Len(b) /\ Len(a) \in Nat /\ Len(b) \in Nat
OBVIOUS

\* Where a text spells two parts it spells each in its place.
LEMMA SpellsBoth ==
    ASSUME NEW text, Len(text) \in Nat, NEW k \in Nat, NEW a \in Seq(Chars), NEW b \in Seq(Chars),
           Spells(text, k, a \o b)
    PROVE  /\ a \o b \in Seq(Chars) /\ Len(a \o b) = Len(a) + Len(b)
           /\ Spells(text, k, a) /\ Spells(text, k + Len(a), b)
<1>1. a \o b \in Seq(Chars) /\ Len(a \o b) = Len(a) + Len(b) /\ Len(a) \in Nat /\ Len(b) \in Nat
  OBVIOUS
<1>2. \A i \in 1 .. Len(a) : (a \o b)[i] = a[i]
  OBVIOUS
<1>3. \A i \in 1 .. Len(b) : (a \o b)[Len(a) + i] = b[i]
  OBVIOUS
<1>. DEFINE both == a \o b
<1>. HIDE DEF both
<1>4. ASSUME NEW i \in 1 .. Len(a) PROVE text[k + i] = a[i]
  <2>1. i \in 1 .. Len(both)
    BY <1>1 DEF both
  <2>. QED
    BY <1>2, <2>1 DEF Spells, both
<1>5. ASSUME NEW i \in 1 .. Len(b) PROVE text[(k + Len(a)) + i] = b[i]
  <2>1. Len(a) + i \in 1 .. Len(both) /\ (k + Len(a)) + i = k + (Len(a) + i)
    BY <1>1 DEF both
  <2>2. text[k + (Len(a) + i)] = both[Len(a) + i]
    BY <2>1 DEF Spells, both
  <2>. QED
    BY <1>3, <2>1, <2>2 DEF both
<1>6. k + Len(a) + Len(b) <= Len(text)
  BY <1>1 DEF Spells
<1>. QED
  BY <1>1, <1>4, <1>5, <1>6 DEF Spells

\* What is gone over two stretches is gone over both.
LEMMA GoneBoth ==
    ASSUME NEW text, NEW k \in Nat, NEW m \in Nat, NEW n \in Nat,
           GoneOver(text, k, m), GoneOver(text, k + m, n)
    PROVE  GoneOver(text, k, m + n)
<1>1. SUFFICES ASSUME NEW i \in 1 .. m + n PROVE Gone(text, k + i)
  BY DEF GoneOver
<1>2. CASE i <= m
  <2>1. i \in 1..m
    BY <1>2
  <2>. QED
    BY <2>1 DEF GoneOver
<1>3. CASE ~(i <= m)
  <2>1. i - m \in 1..n /\ (k + m) + (i - m) = k + i
    BY <1>3
  <2>2. Gone(text, (k + m) + (i - m))
    BY <2>1, Zenon DEF GoneOver
  <2>. QED
    BY <2>1, <2>2
<1>. QED
  BY <1>2, <1>3

\* A part of a comment that neither opens nor closes one.
LEMMA InnerPart ==
    ASSUME NEW text, Len(text) \in Nat, NEW k \in Nat, NEW d \in Nat \ {0},
           NEW part \in Seq(Inner), In(text, k, d), Spells(text, k, part),
           \/ Len(part) = 0 \/ part[Len(part)] # "-"
           \/ Following(text, k + Len(part)) # "/"
    PROVE  In(text, k + Len(part), d) /\ GoneOver(text, k, Len(part))
<1>. DEFINE n == Len(part)
<1>1. n \in Nat /\ k + n <= Len(text)
  BY DEF Spells
<1>2. ASSUME NEW j \in 1..n PROVE Calm(text[k + j], Following(text, k + j))
  <2>1. text[k + j] = part[j] /\ part[j] \in Inner
    BY DEF Spells
  <2>2. text[k + j] # "/"
    BY <2>1 DEF Inner
  <2>3. CASE j = n
    <3>1. text[k + j] # "-" \/ Following(text, k + j) # "/"
      BY <2>1, <2>3
    <3>. QED
      BY <2>2, <3>1, Zenon DEF Calm
  <2>4. CASE j # n
    <3>1. j + 1 \in 1..n /\ k + j < Len(text) /\ (k + j) + 1 = k + (j + 1)
      BY <1>1, <2>4
    <3>2. text[k + (j + 1)] = part[j + 1] /\ part[j + 1] \in Inner
      BY <3>1 DEF Spells
    <3>3. Following(text, k + j) = text[k + (j + 1)]
      BY <3>1 DEF Following
    <3>4. Following(text, k + j) # "/"
      BY <3>2, <3>3 DEF Inner
    <3>. QED
      BY <2>2, <3>4, Zenon DEF Calm
  <2>. QED
    BY <2>3, <2>4
<1>. HIDE DEF n
<1>3. In(text, k + n, d) /\ \A j \in 1..n : Gone(text, k + j)
  BY <1>1, <1>2, Commented
<1>. QED
  BY <1>3 DEF GoneOver, n

OpenMark == <<"/", "-">>
CloseMark == <<"-", "/">>

\* The mark that opens a comment.
LEMMA OpenMarkIs == OpenMark \in Seq(Chars) /\ Len(OpenMark) = 2 /\ OpenMark[1] = "/" /\ OpenMark[2] = "-"
BY DEF OpenMark, Chars

\* The mark that closes one.
LEMMA CloseMarkIs == CloseMark \in Seq(Chars) /\ Len(CloseMark) = 2 /\ CloseMark[1] = "-" /\ CloseMark[2] = "/"
BY DEF CloseMark, Chars

\* What may be in a comment is text.
LEMMA InnerIs ==
    ASSUME NEW part \in Seq(Inner) PROVE part \in Seq(Chars) /\ Len(part) \in Nat
<1>1. Inner \subseteq Chars
  BY DEF Inner, Chars
<1>. QED
  BY <1>1

\* The opening mark is gone, and the reader is one comment deeper.
LEMMA OpenMarkRead ==
    ASSUME NEW text, Len(text) \in Nat, NEW k \in Nat, NEW d \in Nat,
           In(text, k, d), Spells(text, k, OpenMark)
    PROVE  In(text, k + 2, d + 1) /\ GoneOver(text, k, 2)
<1>1. k + 2 <= Len(text) /\ text[k + 1] = "/" /\ text[k + 2] = "-"
  BY OpenMarkIs DEF Spells
<1>2. In(text, k + 2, d + 1) /\ Gone(text, k + 1) /\ Gone(text, k + 2)
  BY <1>1, Opening
<1>3. \A i \in 1..2 : i = 1 \/ i = 2
  OBVIOUS
<1>. QED
  BY <1>2, <1>3, Zenon DEF GoneOver

\* The closing mark is gone, and the reader is one comment up.
LEMMA CloseMarkRead ==
    ASSUME NEW text, Len(text) \in Nat, NEW k \in Nat, NEW d \in Nat,
           In(text, k, d + 1), Spells(text, k, CloseMark)
    PROVE  In(text, k + 2, d) /\ GoneOver(text, k, 2)
<1>1. k + 2 <= Len(text) /\ text[k + 1] = "-" /\ text[k + 2] = "/"
  BY CloseMarkIs DEF Spells
<1>2. In(text, k + 2, d) /\ Gone(text, k + 1) /\ Gone(text, k + 2)
  BY <1>1, Closing
<1>3. \A i \in 1..2 : i = 1 \/ i = 2
  OBVIOUS
<1>. QED
  BY <1>2, <1>3, Zenon DEF GoneOver

\* A comment up to its end, and the whole comment: one that holds none.
LEMMA FlatInside ==
    ASSUME NEW text, Len(text) \in Nat, NEW k \in Nat, NEW d \in Nat, NEW part \in Seq(Inner),
           In(text, k, d), Spells(text, k, OpenMark \o part),
           Following(text, k + (2 + Len(part))) = "-"
    PROVE  /\ In(text, k + (2 + Len(part)), d + 1) /\ GoneOver(text, k, 2 + Len(part))
<1>1. part \in Seq(Chars) /\ Len(part) \in Nat
  BY InnerIs
<1>2. Spells(text, k, OpenMark) /\ Spells(text, k + 2, part)
  BY <1>1, SpellsBoth, OpenMarkIs
<1>3. In(text, k + 2, d + 1) /\ GoneOver(text, k, 2)
  BY <1>2, OpenMarkRead
<1>4. (k + 2) + Len(part) = k + (2 + Len(part)) /\ d + 1 \in Nat \ {0} /\ k + 2 \in Nat
  BY <1>1
<1>5. Following(text, (k + 2) + Len(part)) # "/"
  BY <1>4
<1>6. In(text, (k + 2) + Len(part), d + 1) /\ GoneOver(text, k + 2, Len(part))
  BY <1>2, <1>3, <1>4, <1>5, InnerPart
<1>7. GoneOver(text, k, 2 + Len(part))
  BY <1>1, <1>3, <1>6, GoneBoth
<1>. QED
  BY <1>4, <1>6, <1>7

\* A comment is its mark, its body and its mark.
LEMMA BlockParts ==
    ASSUME NEW body \in Seq(Chars)
    PROVE  /\ Lean!Block(body) = (OpenMark \o body) \o CloseMark /\ Lean!Block(body) \in Seq(Chars)
           /\ OpenMark \o body \in Seq(Chars) /\ Len(OpenMark \o body) = 2 + Len(body)
           /\ Len(Lean!Block(body)) = Len(body) + 4
<1>1. Lean!Block(body) = (OpenMark \o body) \o CloseMark
  BY DEF Lean!Block, OpenMark, CloseMark
<1>. DEFINE front == OpenMark \o body
<1>2. front \in Seq(Chars) /\ Len(front) = Len(OpenMark) + Len(body) /\ Len(body) \in Nat
  BY OpenMarkIs, Joined, Zenon
<1>. HIDE DEF front
<1>3. front \o CloseMark \in Seq(Chars) /\ Len(front \o CloseMark) = Len(front) + Len(CloseMark)
  BY <1>2, CloseMarkIs, Joined, Zenon
<1>4. Len(OpenMark) = 2 /\ Len(CloseMark) = 2
  BY OpenMarkIs, CloseMarkIs
<1>5. Len(front) = 2 + Len(body) /\ Len(front) + Len(CloseMark) = Len(body) + 4
  BY <1>2, <1>4
<1>6. Lean!Block(body) = front \o CloseMark
  BY <1>1 DEF front
<1>. QED
  BY <1>2, <1>3, <1>5, <1>6, Zenon DEF front

\* What follows the body of a comment is its foot.
LEMMA BlockSpells ==
    ASSUME NEW text, Len(text) \in Nat, NEW k \in Nat, NEW body \in Seq(Chars),
           Spells(text, k, Lean!Block(body))
    PROVE  /\ Spells(text, k, OpenMark \o body) /\ Spells(text, k + (2 + Len(body)), CloseMark)
           /\ Following(text, k + (2 + Len(body))) = "-"
<1>1. Spells(text, k, OpenMark \o body) /\ Spells(text, k + (2 + Len(body)), CloseMark)
  <2>. DEFINE front == OpenMark \o body
  <2>1. Lean!Block(body) = front \o CloseMark /\ front \in Seq(Chars) /\ Len(front) = 2 + Len(body)
    BY BlockParts
  <2>. HIDE DEF front
  <2>2. Spells(text, k, front \o CloseMark)
    BY <2>1
  <2>3. Spells(text, k, front) /\ Spells(text, k + Len(front), CloseMark)
    BY <2>1, <2>2, SpellsBoth, CloseMarkIs
  <2>. QED
    BY <2>1, <2>3 DEF front
<1>2. Len(body) \in Nat
  OBVIOUS
<1>3. k + (2 + Len(body)) + 2 <= Len(text) /\ text[(k + (2 + Len(body))) + 1] = "-"
  BY <1>1, CloseMarkIs DEF Spells
<1>. QED
  BY <1>1, <1>2, <1>3 DEF Following

\* A comment that holds none is gone, whatever is around it.
LEMMA FlatRead ==
    ASSUME NEW text, Len(text) \in Nat, NEW k \in Nat, NEW d \in Nat, NEW part \in Seq(Inner),
           In(text, k, d), Spells(text, k, Lean!Block(part))
    PROVE  In(text, k + (Len(part) + 4), d) /\ GoneOver(text, k, Len(part) + 4)
<1>1. part \in Seq(Chars) /\ Len(part) \in Nat
  BY InnerIs
<1>. DEFINE m == 2 + Len(part)
<1>2. Spells(text, k, OpenMark \o part) /\ Spells(text, k + m, CloseMark) /\ Following(text, k + m) = "-"
  BY <1>1, BlockSpells
<1>3. In(text, k + m, d + 1) /\ GoneOver(text, k, m)
  BY <1>2, FlatInside
<1>4. m \in Nat /\ k + m \in Nat /\ m + 2 = Len(part) + 4 /\ (k + m) + 2 = k + (Len(part) + 4)
  BY <1>1
<1>. HIDE DEF m
<1>5. In(text, (k + m) + 2, d) /\ GoneOver(text, k + m, 2)
  BY <1>2, <1>3, <1>4, CloseMarkRead
<1>6. GoneOver(text, k, m + 2)
  BY <1>3, <1>4, <1>5, GoneBoth
<1>. QED
  BY <1>4, <1>5, <1>6

Three(text, k, a, b, c) ==
    /\ Len(text) \in Nat /\ k \in Nat
    /\ a \in Seq(Chars) /\ b \in Seq(Chars) /\ c \in Seq(Chars)
    /\ Spells(text, k, (a \o b) \o c)

\* Where a text spells three parts it spells each in its place.
LEMMA SpellsThree ==
    ASSUME NEW text, NEW k, NEW a, NEW b, NEW c, Three(text, k, a, b, c)
    PROVE  /\ Len((a \o b) \o c) = Len(a) + Len(b) + Len(c)
           /\ Spells(text, k, a) /\ Spells(text, k + Len(a), b)
           /\ Spells(text, k + Len(a) + Len(b), c)
<1>0. /\ Len(text) \in Nat /\ k \in Nat
      /\ a \in Seq(Chars) /\ b \in Seq(Chars) /\ c \in Seq(Chars)
      /\ Spells(text, k, (a \o b) \o c)
  BY Zenon DEF Three
<1>. DEFINE ab == a \o b
<1>1. ab \in Seq(Chars) /\ Len(ab) = Len(a) + Len(b) /\ Len(a) \in Nat /\ Len(b) \in Nat
  BY <1>0, Joined, Zenon
<1>2. (k + Len(a)) + Len(b) = k + (Len(a) + Len(b))
  BY <1>0, <1>1
<1>. HIDE DEF ab
<1>3. Spells(text, k, ab \o c)
  BY <1>0 DEF ab
<1>4. /\ ab \o c \in Seq(Chars) /\ Len(ab \o c) = Len(ab) + Len(c)
      /\ Spells(text, k, ab) /\ Spells(text, k + Len(ab), c)
  BY <1>0, <1>1, <1>3, SpellsBoth
<1>5. Spells(text, k, a \o b)
  BY <1>4 DEF ab
<1>6. Spells(text, k, a) /\ Spells(text, k + Len(a), b)
  BY <1>0, <1>5, SpellsBoth
<1>7. Spells(text, k + Len(a) + Len(b), c)
  BY <1>1, <1>2, <1>4
<1>. QED
  BY <1>1, <1>4, <1>6, <1>7 DEF ab

\* One that holds a comment, behind something that does not end with a dash.
LEMMA NestedParts ==
    ASSUME NEW text, Len(text) \in Nat, NEW k \in Nat, NEW d \in Nat,
           NEW a \in Seq(Inner), NEW b \in Seq(Inner), NEW c \in Seq(Inner),
           Len(a) = 0 \/ a[Len(a)] # "-", In(text, k, d),
           Spells(text, k, a), Spells(text, k + Len(a), Lean!Block(b)),
           Spells(text, k + Len(a) + (Len(b) + 4), c),
           Following(text, k + Len(a) + (Len(b) + 4) + Len(c)) = "-", d # 0
    PROVE  /\ In(text, k + Len(a) + (Len(b) + 4) + Len(c), d)
           /\ GoneOver(text, k, Len(a) + (Len(b) + 4) + Len(c))
<1>. DEFINE p == k + Len(a)
            q == p + (Len(b) + 4)
            block == Lean!Block(b)
<1>1. Len(a) \in Nat /\ Len(b) + 4 \in Nat /\ Len(c) \in Nat
  OBVIOUS
<1>2. p \in Nat /\ q \in Nat /\ d \in Nat \ {0}
  BY <1>1
<1>3. /\ Spells(text, p, Lean!Block(b)) /\ Spells(text, q, c) /\ Following(text, q + Len(c)) # "/"
  OBVIOUS
<1>4. In(text, p, d) /\ GoneOver(text, k, Len(a))
  BY <1>2, InnerPart
<1>. HIDE DEF p, q
<1>5. In(text, q, d) /\ GoneOver(text, p, Len(b) + 4)
  BY <1>2, <1>3, <1>4, FlatRead DEF q
<1>6. In(text, q + Len(c), d) /\ GoneOver(text, q, Len(c))
  BY <1>2, <1>3, <1>5, InnerPart
<1>7. GoneOver(text, k, Len(a) + (Len(b) + 4))
  BY <1>1, <1>4, <1>5, GoneBoth DEF p
<1>8. Len(a) + (Len(b) + 4) \in Nat /\ k + (Len(a) + (Len(b) + 4)) = q
  BY <1>1 DEF p, q
<1>9. GoneOver(text, k, (Len(a) + (Len(b) + 4)) + Len(c))
  BY <1>1, <1>6, <1>7, <1>8, GoneBoth
<1>. QED
  BY <1>6, <1>9 DEF p, q
\* Where a text spells a comment among others it spells the parts.
LEMMA NestSpells ==
    ASSUME NEW text, Len(text) \in Nat, NEW k \in Nat,
           NEW a \in Seq(Chars), NEW b \in Seq(Chars), NEW c \in Seq(Chars),
           Spells(text, k, (a \o Lean!Block(b)) \o c)
    PROVE  /\ (a \o Lean!Block(b)) \o c \in Seq(Chars)
           /\ Len((a \o Lean!Block(b)) \o c) = Len(a) + (Len(b) + 4) + Len(c)
           /\ Spells(text, k, a) /\ Spells(text, k + Len(a), Lean!Block(b))
           /\ Spells(text, k + Len(a) + (Len(b) + 4), c)
<1>1. PICK block : block = Lean!Block(b)
  OBVIOUS
<1>2. block \in Seq(Chars) /\ Len(block) = Len(b) + 4
  BY <1>1, BlockParts
<1>3. Three(text, k, a, block, c)
  BY <1>1, <1>2, Zenon DEF Three
<1>4. /\ Len((a \o block) \o c) = Len(a) + Len(block) + Len(c)
      /\ Spells(text, k, a) /\ Spells(text, k + Len(a), block)
      /\ Spells(text, k + Len(a) + Len(block), c)
  BY <1>3, SpellsThree, Zenon
<1>5. (a \o block) \o c \in Seq(Chars)
  BY <1>2, Joined, Zenon
<1>. QED
  BY <1>1, <1>2, <1>4, <1>5, Zenon

\* The same behind the opening mark of the comment around it.
LEMMA NestedSpells ==
    ASSUME NEW text, Len(text) \in Nat, NEW k \in Nat,
           NEW a \in Seq(Chars), NEW b \in Seq(Chars), NEW c \in Seq(Chars),
           Spells(text, k, OpenMark \o ((a \o Lean!Block(b)) \o c))
    PROVE  /\ (a \o Lean!Block(b)) \o c \in Seq(Chars)
           /\ Len((a \o Lean!Block(b)) \o c) = Len(a) + (Len(b) + 4) + Len(c)
           /\ Spells(text, k, OpenMark) /\ Spells(text, k + 2, a)
           /\ Spells(text, (k + 2) + Len(a), Lean!Block(b))
           /\ Spells(text, (k + 2) + Len(a) + (Len(b) + 4), c)
<1>. DEFINE body == (a \o Lean!Block(b)) \o c
            from == k + 2
<1>1. Lean!Block(b) \in Seq(Chars)
  BY BlockParts
<1>2. body \in Seq(Chars)
  BY <1>1, Joined, Zenon
<1>3. Spells(text, k, OpenMark \o body)
  OBVIOUS
<1>. HIDE DEF body
<1>4. Spells(text, k, OpenMark) /\ Spells(text, k + Len(OpenMark), body)
  BY <1>2, <1>3, OpenMarkIs, SpellsBoth, Zenon
<1>5. from \in Nat /\ Spells(text, from, body)
  BY <1>4, OpenMarkIs
<1>. HIDE DEF from
<1>6. Spells(text, from, (a \o Lean!Block(b)) \o c)
  BY <1>5, Zenon DEF body
<1>7. /\ Len((a \o Lean!Block(b)) \o c) = Len(a) + (Len(b) + 4) + Len(c)
      /\ Spells(text, from, a) /\ Spells(text, from + Len(a), Lean!Block(b))
      /\ Spells(text, from + Len(a) + (Len(b) + 4), c)
  BY <1>5, <1>6, NestSpells
<1>. QED
  BY <1>2, <1>4, <1>7, Zenon DEF body, from

\* The body of a comment: plain, or with one comment in it, before which there is
\* no dash.
Nests(a, b, c) == (a \o Lean!Block(b)) \o c
IsBody(body) ==
    \/ body \in Seq(Inner)
    \/ \E a, b, c \in Seq(Inner) :
          (Len(a) = 0 \/ a[Len(a)] # "-") /\ body = Nests(a, b, c)

\* A comment up to its closing mark is gone, and the reader is in it.
LEMMA CommentInside ==
    ASSUME NEW text, Len(text) \in Nat, NEW k \in Nat, NEW body, IsBody(body),
           In(text, k, 0), Spells(text, k, OpenMark \o body),
           Following(text, k + (2 + Len(body))) = "-"
    PROVE  /\ body \in Seq(Chars)
           /\ In(text, k + (2 + Len(body)), 1) /\ GoneOver(text, k, 2 + Len(body))
<1>1. CASE body \in Seq(Inner)
  <2>1. In(text, k + (2 + Len(body)), 0 + 1) /\ GoneOver(text, k, 2 + Len(body))
    BY <1>1, FlatInside
  <2>. QED
    BY <1>1, <2>1, InnerIs
<1>2. CASE ~(body \in Seq(Inner))
  <2>1. PICK a, b, c \in Seq(Inner) :
           (Len(a) = 0 \/ a[Len(a)] # "-") /\ body = Nests(a, b, c)
    BY <1>2, Zenon DEF IsBody
  <2>2. /\ a \in Seq(Chars) /\ b \in Seq(Chars) /\ c \in Seq(Chars)
        /\ Len(a) \in Nat /\ Len(b) \in Nat /\ Len(c) \in Nat
    BY InnerIs
  <2>3. /\ body \in Seq(Chars)
        /\ Len(body) = Len(a) + (Len(b) + 4) + Len(c)
        /\ Spells(text, k, OpenMark) /\ Spells(text, k + 2, a)
        /\ Spells(text, (k + 2) + Len(a), Lean!Block(b))
        /\ Spells(text, (k + 2) + Len(a) + (Len(b) + 4), c)
    <3>1. body = (a \o Lean!Block(b)) \o c
      BY <2>1 DEF Nests
    <3>2. Spells(text, k, OpenMark \o ((a \o Lean!Block(b)) \o c))
      BY <3>1
    <3>3. /\ (a \o Lean!Block(b)) \o c \in Seq(Chars)
          /\ Len((a \o Lean!Block(b)) \o c) = Len(a) + (Len(b) + 4) + Len(c)
          /\ Spells(text, k, OpenMark) /\ Spells(text, k + 2, a)
          /\ Spells(text, (k + 2) + Len(a), Lean!Block(b))
          /\ Spells(text, (k + 2) + Len(a) + (Len(b) + 4), c)
      BY <2>2, <3>2, NestedSpells, Zenon
    <3>. QED
      BY <3>1, <3>3, Zenon
  <2>4. In(text, k + 2, 0 + 1) /\ GoneOver(text, k, 2)
    BY <2>3, OpenMarkRead
  <2>. DEFINE from == k + 2
  <2>5. from \in Nat /\ In(text, from, 1)
    BY <2>4
  <2>6. /\ from + Len(a) + (Len(b) + 4) + Len(c) = k + (2 + Len(body))
        /\ Len(a) + (Len(b) + 4) + Len(c) = Len(body) /\ Len(body) \in Nat
    BY <2>2, <2>3
  <2>7. Following(text, from + Len(a) + (Len(b) + 4) + Len(c)) = "-"
    BY <2>6
  <2>8. /\ Spells(text, from, a) /\ Spells(text, from + Len(a), Lean!Block(b))
        /\ Spells(text, from + Len(a) + (Len(b) + 4), c)
    BY <2>3
  <2>. HIDE DEF from
  <2>9. 1 \in Nat /\ 1 # 0
    OBVIOUS
  <2>10. /\ In(text, from + Len(a) + (Len(b) + 4) + Len(c), 1)
         /\ GoneOver(text, from, Len(a) + (Len(b) + 4) + Len(c))
    BY <2>1, <2>5, <2>7, <2>8, <2>9, NestedParts, Zenon
  <2>11. GoneOver(text, k + 2, Len(body))
    BY <2>6, <2>10 DEF from
  <2>12. GoneOver(text, k, 2 + Len(body))
    BY <2>4, <2>6, <2>11, GoneBoth
  <2>. QED
    BY <2>3, <2>6, <2>10, <2>12
<1>. QED
  BY <1>1, <1>2

\* A whole comment is gone, and after it the reader is in code.
LEMMA CommentRead ==
    ASSUME NEW text, Len(text) \in Nat, NEW k \in Nat, NEW body \in Seq(Chars), IsBody(body),
           In(text, k, 0), Spells(text, k, Lean!Block(body))
    PROVE  In(text, k + (Len(body) + 4), 0) /\ GoneOver(text, k, Len(body) + 4)
<1>. DEFINE m == 2 + Len(body)
<1>1. Spells(text, k, OpenMark \o body) /\ Spells(text, k + m, CloseMark) /\ Following(text, k + m) = "-"
  BY BlockSpells
<1>2. In(text, k + m, 1) /\ GoneOver(text, k, m)
  BY <1>1, CommentInside
<1>3. m \in Nat /\ k + m \in Nat /\ m + 2 = Len(body) + 4 /\ (k + m) + 2 = k + (Len(body) + 4)
      /\ 0 + 1 = 1
  OBVIOUS
<1>. HIDE DEF m
<1>4. In(text, (k + m) + 2, 0) /\ GoneOver(text, k + m, 2)
  BY <1>1, <1>2, <1>3, CloseMarkRead
<1>5. GoneOver(text, k, m + 2)
  BY <1>2, <1>3, <1>4, GoneBoth
<1>. QED
  BY <1>3, <1>4, <1>5

\* Without its last character it is not over.
LEMMA CommentCut ==
    ASSUME NEW text, NEW body \in Seq(Chars), IsBody(body), Len(text) = Len(body) + 3,
           Spells(text, 0, OpenMark \o body), text[Len(body) + 3] = "-"
    PROVE  After(text, Len(text)).depth = 1
<1>. DEFINE m == 2 + Len(body)
<1>1. m \in Nat /\ 0 + m = m /\ m + 1 = Len(text) /\ Len(text) \in Nat /\ m + 1 = Len(body) + 3
      /\ m + 1 <= Len(text) /\ m < Len(text)
  OBVIOUS
<1>2. Following(text, 0 + m) = "-"
  BY <1>1 DEF Following
<1>3. In(text, 0, 0)
  BY <1>1, ReadingUnfolds DEF In, Lean!One
<1>4. In(text, 0 + m, 1)
  BY <1>1, <1>2, <1>3, CommentInside
<1>5. Following(text, m + 1) = Lean!NoCharacter
  BY <1>1 DEF Following
<1>6. Calm(text[m + 1], Following(text, m + 1))
  BY <1>1, <1>5 DEF Calm, Lean!NoCharacter
<1>. HIDE DEF m
<1>7. In(text, m + 1, 1)
  BY <1>1, <1>4, <1>6, CommentedOne
<1>. QED
  BY <1>1, <1>7 DEF In
\* Strings: what may be in one is read as its own.
LEMMA UnitRead ==
    ASSUME NEW text, Len(text) \in Nat, NEW k \in Nat, NEW u \in Lean!InStrings,
           Quoted(text, k), Spells(text, k, u)
    PROVE  Quoted(text, k + Len(u)) /\ GoneOver(text, k, Len(u))
<1>1. CASE Len(u) = 1 /\ u[1] # "b" /\ u[1] # "q"
  <2>1. k + 1 <= Len(text) /\ text[k + 1] = u[1]
    BY <1>1 DEF Spells
  <2>2. Quoted(text, k + 1) /\ Gone(text, k + 1)
    BY <1>1, <2>1, QuotedOne
  <2>3. \A i \in 1..1 : i = 1
    OBVIOUS
  <2>. QED
    BY <1>1, <2>2, <2>3, Zenon DEF GoneOver
<1>2. CASE Len(u) = 2 /\ u[1] = "b" /\ u[2] # Lean!NoCharacter
  <2>1. k + 2 <= Len(text) /\ text[k + 1] = "b" /\ text[k + 2] # Lean!NoCharacter
    BY <1>2 DEF Spells
  <2>2. Quoted(text, k + 2) /\ Gone(text, k + 1) /\ Gone(text, k + 2)
    BY <2>1, Escaped
  <2>3. \A i \in 1..2 : i = 1 \/ i = 2
    OBVIOUS
  <2>. QED
    BY <1>2, <2>2, <2>3, Zenon DEF GoneOver
<1>3. CASE Len(u) = 2 /\ u[1] # "b" /\ u[1] # "q" /\ u[2] # "b" /\ u[2] # "q"
  <2>1. k + 2 <= Len(text) /\ text[k + 1] = u[1] /\ text[k + 2] = u[2] /\ (k + 1) + 1 = k + 2
    BY <1>3 DEF Spells
  <2>2. Quoted(text, k + 1) /\ Gone(text, k + 1)
    BY <1>3, <2>1, QuotedOne
  <2>. DEFINE m == k + 1
  <2>3. m \in Nat /\ m + 1 <= Len(text) /\ text[m + 1] # "b" /\ text[m + 1] # "q" /\ m + 1 = k + 2
        /\ Quoted(text, m)
    BY <1>3, <2>1, <2>2
  <2>. HIDE DEF m
  <2>4. Quoted(text, k + 2) /\ Gone(text, k + 2)
    BY <2>3, QuotedOne
  <2>5. \A i \in 1..2 : i = 1 \/ i = 2
    OBVIOUS
  <2>. QED
    BY <1>3, <2>2, <2>4, <2>5, Zenon DEF GoneOver
<1>4. \A x, y \in {"c", "n", "q", "b", "-", "/"} :
         /\ Len(<<x>>) = 1 /\ <<x>>[1] = x
         /\ Len(<<x, y>>) = 2 /\ <<x, y>>[1] = x /\ <<x, y>>[2] = y
  OBVIOUS
<1>5. CASE u = <<"c">> \/ u = <<"n">>
  BY <1>1, <1>4, <1>5
<1>6. CASE u = <<"b", "q">> \/ u = <<"b", "b">>
  <2>1. "q" # Lean!NoCharacter /\ "b" # Lean!NoCharacter
    BY Zenon DEF Lean!NoCharacter
  <2>2. Len(u) = 2 /\ u[1] = "b" /\ (u[2] = "q" \/ u[2] = "b")
    BY <1>4, <1>6
  <2>. QED
    BY <1>2, <2>1, <2>2, Zenon
<1>7. CASE u = <<"/", "-">> \/ u = <<"-", "-">>
  BY <1>3, <1>4, <1>7
<1>8. \/ u = <<"c">> \/ u = <<"n">> \/ u = <<"/", "-">> \/ u = <<"-", "-">>
      \/ u = <<"b", "q">> \/ u = <<"b", "b">>
  BY Zenon DEF Lean!InStrings
<1>. QED
  BY <1>5, <1>6, <1>7, <1>8, Zenon

\* What may be in a string is text.
LEMMA UnitIs ==
    ASSUME NEW u \in Lean!InStrings PROVE u \in Seq(Chars) /\ Len(u) \in Nat
<1>1. \A x, y \in Chars : <<x>> \in Seq(Chars) /\ <<x, y>> \in Seq(Chars)
  OBVIOUS
<1>2. /\ "c" \in Chars /\ "n" \in Chars /\ "q" \in Chars /\ "b" \in Chars
      /\ "-" \in Chars /\ "/" \in Chars
  BY DEF Chars
<1>3. u \in Seq(Chars)
  BY <1>1, <1>2, Zenon DEF Lean!InStrings
<1>. QED
  BY <1>3

\* Two of them after each other stay in the string.
LEMMA UnitsRead ==
    ASSUME NEW text, Len(text) \in Nat, NEW k \in Nat, NEW body \in Lean!UpToTwo(Lean!InStrings),
           Quoted(text, k), Spells(text, k, body)
    PROVE  Quoted(text, k + Len(body)) /\ GoneOver(text, k, Len(body))
<1>1. CASE body = <<>>
  <2>1. Len(body) = 0 /\ k + 0 = k /\ 1..0 = {}
    BY <1>1
  <2>. QED
    BY <2>1, Zenon DEF GoneOver
<1>2. CASE body \in Lean!InStrings
  BY <1>2, UnitRead
<1>3. CASE \E u, v \in Lean!InStrings : body = u \o v
  <2>1. PICK u, v \in Lean!InStrings : body = u \o v
    BY <1>3
  <2>2. /\ u \in Seq(Chars) /\ v \in Seq(Chars) /\ Len(u) \in Nat /\ Len(v) \in Nat
    BY UnitIs
  <2>3. Len(body) = Len(u) + Len(v)
    BY <2>1, <2>2, Joined, Zenon
  <2>4. Spells(text, k, u) /\ Spells(text, k + Len(u), v)
    <3>1. Spells(text, k, u \o v)
      BY <2>1, Zenon
    <3>. QED
      BY <2>2, <3>1, SpellsBoth, Zenon
  <2>5. Quoted(text, k + Len(u)) /\ GoneOver(text, k, Len(u))
    BY <2>4, UnitRead
  <2>. DEFINE m == k + Len(u)
  <2>6. m \in Nat /\ Quoted(text, m) /\ Spells(text, m, v) /\ m + Len(v) = k + Len(body)
    BY <2>2, <2>3, <2>4, <2>5
  <2>7. Quoted(text, m + Len(v)) /\ GoneOver(text, m, Len(v))
    <3>. HIDE DEF m
    <3>. QED
      BY <2>6, UnitRead
  <2>8. GoneOver(text, k, Len(u) + Len(v))
    BY <2>2, <2>5, <2>7, GoneBoth, Zenon
  <2>. HIDE DEF m
  <2>. QED
    BY <2>3, <2>6, <2>7, <2>8
<1>4. body = <<>> \/ body \in Lean!InStrings \/ \E u, v \in Lean!InStrings : body = u \o v
  BY DEF Lean!UpToTwo, Lean!UpToOne
<1>. QED
  BY <1>1, <1>2, <1>3, <1>4

\* And they are text.
LEMMA UnitsAre ==
    ASSUME NEW body \in Lean!UpToTwo(Lean!InStrings) PROVE body \in Seq(Chars) /\ Len(body) \in Nat
<1>1. CASE body = <<>>
  BY <1>1
<1>2. CASE body \in Lean!InStrings
  BY <1>2, UnitIs
<1>3. CASE \E u, v \in Lean!InStrings : body = u \o v
  BY <1>3, UnitIs, Joined
<1>4. body = <<>> \/ body \in Lean!InStrings \/ \E u, v \in Lean!InStrings : body = u \o v
  BY DEF Lean!UpToTwo, Lean!UpToOne
<1>. QED
  BY <1>1, <1>2, <1>3, <1>4
-----------------------------------------------------------------------------
Quote == <<"q">>

\* The quote.
LEMMA QuoteIs == Quote \in Seq(Chars) /\ Len(Quote) = 1 /\ Quote[1] = "q"
BY DEF Quote, Chars

\* A string is its quotes and what is between them.
LEMMA QuotedParts ==
    ASSUME NEW body \in Seq(Chars)
    PROVE  /\ <<"q">> \o body \o <<"q">> = (Quote \o body) \o Quote
           /\ Quote \o body \in Seq(Chars) /\ (Quote \o body) \o Quote \in Seq(Chars)
           /\ Len(Quote \o body) = 1 + Len(body) /\ Len((Quote \o body) \o Quote) = Len(body) + 2
           /\ Len(body) \in Nat
<1>1. <<"q">> \o body \o <<"q">> = (Quote \o body) \o Quote
  BY DEF Quote
<1>2. Len(body) \in Nat
  OBVIOUS
<1>3. /\ Quote \o body \in Seq(Chars)
      /\ Len(Quote \o body) = Len(Quote) + Len(body)
  BY QuoteIs, Joined, Zenon
<1>4. /\ (Quote \o body) \o Quote \in Seq(Chars)
      /\ Len((Quote \o body) \o Quote) = Len(Quote \o body) + Len(Quote)
  BY <1>3, QuoteIs, Joined, Zenon
<1>5. Len(Quote \o body) = 1 + Len(body)
  BY <1>3, QuoteIs
<1>6. Len((Quote \o body) \o Quote) = Len(body) + 2
  BY <1>2, <1>4, <1>5, QuoteIs
<1>. QED
  BY <1>1, <1>2, <1>3, <1>4, <1>5, <1>6

\* A string up to its last quote is gone, and the reader is in it.
LEMMA StringInside ==
    ASSUME NEW text, Len(text) \in Nat, NEW k \in Nat, NEW body \in Lean!UpToTwo(Lean!InStrings),
           In(text, k, 0), Spells(text, k, Quote \o body)
    PROVE  Quoted(text, k + (1 + Len(body))) /\ GoneOver(text, k, 1 + Len(body))
<1>1. body \in Seq(Chars) /\ Len(body) \in Nat
  BY UnitsAre
<1>2. Spells(text, k, Quote) /\ Spells(text, k + Len(Quote), body)
  BY <1>1, QuoteIs, SpellsBoth, Zenon
<1>3. k + 1 \in Nat /\ k + 1 <= Len(text) /\ text[k + 1] = "q" /\ Spells(text, k + 1, body)
  BY <1>2, QuoteIs DEF Spells
<1>4. Quoted(text, k + 1) /\ Gone(text, k + 1)
  BY <1>3, QuoteOpens
<1>5. GoneOver(text, k, 1)
  BY <1>4, \A i \in 1..1 : i = 1, Zenon DEF GoneOver
<1>. DEFINE m == k + 1
<1>6. m \in Nat /\ Quoted(text, m) /\ Spells(text, m, body) /\ GoneOver(text, k, 1) /\ m = k + 1
      /\ m + Len(body) = k + (1 + Len(body)) /\ 1 \in Nat
  BY <1>1, <1>3, <1>4, <1>5
<1>. HIDE DEF m
<1>7. Quoted(text, m + Len(body)) /\ GoneOver(text, m, Len(body))
  BY <1>6, UnitsRead
<1>8. GoneOver(text, k, 1 + Len(body))
  BY <1>1, <1>6, <1>7, GoneBoth
<1>. QED
  BY <1>6, <1>7, <1>8

\* A string is read as one.
LEMMA StringRead ==
    ASSUME NEW text, Len(text) \in Nat, NEW k \in Nat, NEW body \in Lean!UpToTwo(Lean!InStrings),
           In(text, k, 0), Spells(text, k, (Quote \o body) \o Quote)
    PROVE  In(text, k + (Len(body) + 2), 0) /\ GoneOver(text, k, Len(body) + 2)
<1>1. body \in Seq(Chars) /\ Len(body) \in Nat
  BY UnitsAre
<1>. DEFINE n == 1 + Len(body)
<1>2. Quote \o body \in Seq(Chars) /\ Len(Quote \o body) = n
  BY <1>1, QuotedParts, Zenon
<1>. HIDE DEF n
<1>3. Spells(text, k, Quote \o body) /\ Spells(text, k + Len(Quote \o body), Quote)
  BY <1>2, QuoteIs, SpellsBoth, Zenon
<1>4. Spells(text, k + n, Quote)
  BY <1>2, <1>3, Zenon
<1>5. Quoted(text, k + n) /\ GoneOver(text, k, n)
  BY <1>3, StringInside DEF n
<1>. DEFINE m == k + n
<1>6. /\ m \in Nat /\ n \in Nat /\ n + 1 = Len(body) + 2 /\ m + 1 = k + (Len(body) + 2)
      /\ m + 1 <= Len(text) /\ text[m + 1] = "q" /\ Quoted(text, m)
  BY <1>1, <1>4, <1>5, QuoteIs DEF n, Spells
<1>. HIDE DEF m
<1>7. In(text, m + 1, 0) /\ Gone(text, m + 1)
  BY <1>6, QuoteCloses
<1>8. GoneOver(text, m, 1)
  BY <1>7, \A i \in 1..1 : i = 1, Zenon DEF GoneOver
<1>9. GoneOver(text, k, n + 1)
  BY <1>5, <1>6, <1>8, GoneBoth DEF m
<1>. QED
  BY <1>6, <1>7, <1>9

\* Without its last quote it is not over.
LEMMA StringCut ==
    ASSUME NEW text, NEW body \in Lean!UpToTwo(Lean!InStrings), Len(text) = Len(body) + 1,
           Spells(text, 0, Quote \o body)
    PROVE  After(text, Len(text)).string = TRUE
<1>1. Len(body) \in Nat
  BY UnitsAre
<1>2. Len(text) \in Nat /\ 0 + (1 + Len(body)) = Len(text)
  BY <1>1
<1>3. In(text, 0, 0)
  BY <1>2, ReadingUnfolds DEF In, Lean!One
<1>4. Quoted(text, 0 + (1 + Len(body)))
  BY <1>2, <1>3, StringInside
<1>. QED
  BY <1>2, <1>4 DEF Quoted
-----------------------------------------------------------------------------
(***************************************************************************)
(* The pieces of a text.                                                   *)
(***************************************************************************)

\* Texts of one and of two characters.
LEMMA Singles ==
    /\ \A x \in Chars : <<x>> \in Seq(Chars) /\ Len(<<x>>) = 1 /\ <<x>>[1] = x
    /\ \A x, y \in Chars :
          <<x, y>> \in Seq(Chars) /\ Len(<<x, y>>) = 2 /\ <<x, y>>[1] = x /\ <<x, y>>[2] = y
    /\ \A x \in Inner : <<x>> \in Seq(Inner) /\ Len(<<x>>) = 1 /\ <<x>>[1] = x
    /\ <<>> \in Seq(Inner) /\ Len(<<>>) = 0
<1>1. \A x \in Chars : <<x>> \in Seq(Chars) /\ Len(<<x>>) = 1 /\ <<x>>[1] = x
  OBVIOUS
<1>2. \A x, y \in Chars :
         <<x, y>> \in Seq(Chars) /\ Len(<<x, y>>) = 2 /\ <<x, y>>[1] = x /\ <<x, y>>[2] = y
  OBVIOUS
<1>3. \A x \in Inner : <<x>> \in Seq(Inner) /\ Len(<<x>>) = 1 /\ <<x>>[1] = x
  OBVIOUS
<1>4. <<>> \in Seq(Inner) /\ Len(<<>>) = 0
  OBVIOUS
<1>. QED
  BY <1>1, <1>2, <1>3, <1>4

\* The characters a text is made of.
LEMMA Letters ==
    /\ "c" \in Chars /\ "n" \in Chars /\ "q" \in Chars /\ "b" \in Chars
    /\ "-" \in Chars /\ "/" \in Chars
    /\ "c" \in Inner /\ "n" \in Inner /\ "q" \in Inner /\ "b" \in Inner /\ "-" \in Inner
BY Zenon DEF Chars, Inner

\* A part of the code.
LEMMA CodeIs ==
    ASSUME NEW part \in Lean!CodeTexts
    PROVE  /\ part \in Seq(Chars)
           /\ \/ Len(part) = 1 /\ part[1] # "q"
              \/ Len(part) = 2 /\ part[1] = "-" /\ part[2] = "/"
<1>1. part = <<"c">> \/ part = <<"n">> \/ part = <<"-">> \/ part = <<"/">> \/ part = <<"-", "/">>
  BY Zenon DEF Lean!CodeTexts
<1>2. CASE part = <<"c">>
  BY <1>2, Singles, Letters
<1>3. CASE part = <<"n">>
  BY <1>3, Singles, Letters
<1>4. CASE part = <<"-">>
  BY <1>4, Singles, Letters
<1>5. CASE part = <<"/">>
  BY <1>5, Singles, Letters
<1>6. CASE part = <<"-", "/">>
  BY <1>6, Singles, Letters
<1>. QED
  BY <1>1, <1>2, <1>3, <1>4, <1>5, <1>6

\* Code is kept as it is, where no dash follows that would open a comment.
LEMMA CodeRead ==
    ASSUME NEW text, Len(text) \in Nat, NEW k \in Nat, NEW part \in Lean!CodeTexts,
           In(text, k, 0), Spells(text, k, part),
           Lean!MayOpen(part) => Following(text, k + Len(part)) # "-"
    PROVE  /\ In(text, k + Len(part), 0)
           /\ \A i \in 1 .. Len(part) : After(text, k + i).kept = part[i]
<1>1. ~("-" = "/") /\ ~("q" = "-") /\ ~("q" = "/")
  BY Zenon
<1>2. ASSUME Len(part) = 1, part[1] # "q"
      PROVE  In(text, k + 1, 0) /\ After(text, k + 1).kept = part[1]
  <2>1. k + 1 <= Len(text) /\ text[k + 1] = part[1]
    BY <1>2 DEF Spells
  <2>2. IsPlain(text[k + 1], Following(text, k + 1))
    BY <1>2, <2>1, Zenon DEF IsPlain, Lean!MayOpen
  <2>. QED
    BY <2>1, <2>2, CodeStays
<1>3. ASSUME Len(part) = 2, part[1] = "-", part[2] = "/"
      PROVE  /\ In(text, k + 2, 0)
             /\ After(text, k + 1).kept = part[1] /\ After(text, k + 2).kept = part[2]
  <2>1. k + 2 <= Len(text) /\ text[k + 1] = "-" /\ text[k + 2] = "/" /\ k + 1 \in Nat
        /\ (k + 1) + 1 = k + 2 /\ k + 1 <= Len(text) /\ Following(text, k + 1) = "/"
    BY <1>3 DEF Spells, Following
  <2>2. IsPlain(text[k + 1], Following(text, k + 1))
    BY <1>1, <2>1, Zenon DEF IsPlain
  <2>3. In(text, k + 1, 0) /\ After(text, k + 1).kept = "-"
    BY <2>1, <2>2, CodeStays
  <2>4. Following(text, k + 2) # "-"
    BY <1>3, Zenon DEF Lean!MayOpen
  <2>5. IsPlain(text[k + 2], Following(text, k + 2))
    BY <1>1, <2>1, <2>4, Zenon DEF IsPlain
  <2>. DEFINE m == k + 1
  <2>6. m \in Nat /\ m + 1 <= Len(text) /\ m + 1 = k + 2 /\ In(text, m, 0)
        /\ IsPlain(text[m + 1], Following(text, m + 1)) /\ text[m + 1] = "/"
    BY <2>1, <2>3, <2>5
  <2>. HIDE DEF m
  <2>7. In(text, k + 2, 0) /\ After(text, k + 2).kept = "/"
    BY <2>6, CodeStays
  <2>. QED
    BY <1>3, <2>3, <2>7
<1>4. \/ Len(part) = 1 /\ part[1] # "q"
      \/ Len(part) = 2 /\ part[1] = "-" /\ part[2] = "/"
  BY CodeIs
<1>5. (\A i \in 1..1 : i = 1) /\ (\A i \in 1..2 : i = 1 \/ i = 2)
  OBVIOUS
<1>. QED
  BY <1>2, <1>3, <1>4, <1>5, Zenon
\* A comment up to the end of the line.
LEMMA LineIs ==
    ASSUME NEW part \in Lean!LineComments
    PROVE  /\ part \in Seq(Chars) /\ Len(part) \in Nat /\ Len(part) >= 2
           /\ part[1] = "-" /\ part[2] = "-" /\ \A i \in 1 .. Len(part) : part[i] # "n"
<1>1. \A x \in Chars \ {"n"} :
         /\ <<"-", "-", x>> \in Seq(Chars) /\ Len(<<"-", "-", x>>) = 3
         /\ <<"-", "-", x>>[1] = "-" /\ <<"-", "-", x>>[2] = "-" /\ <<"-", "-", x>>[3] # "n"
  BY Letters
<1>2. \A x, y \in Chars \ {"n"} :
         /\ <<"-", "-", x, y>> \in Seq(Chars) /\ Len(<<"-", "-", x, y>>) = 4
         /\ <<"-", "-", x, y>>[1] = "-" /\ <<"-", "-", x, y>>[2] = "-"
         /\ <<"-", "-", x, y>>[3] # "n" /\ <<"-", "-", x, y>>[4] # "n"
  BY Letters
<1>3. /\ "c" \in Chars \ {"n"} /\ "q" \in Chars \ {"n"}
      /\ "-" \in Chars \ {"n"} /\ "/" \in Chars \ {"n"}
  BY Zenon DEF Chars
<1>4. (\A i \in 1..2 : i = 1 \/ i = 2) /\ (\A i \in 1..3 : i = 1 \/ i = 2 \/ i = 3)
      /\ (\A i \in 1..4 : i = 1 \/ i = 2 \/ i = 3 \/ i = 4)
  OBVIOUS
<1>5. "-" # "n"
  BY Zenon
<1>6. part = <<"-", "-">> \/ part = <<"-", "-", "c">> \/ part = <<"-", "-", "q">>
      \/ part = <<"-", "-", "/", "-">>
  BY Zenon DEF Lean!LineComments
<1>7. CASE part = <<"-", "-">>
  BY <1>4, <1>5, <1>7, Singles, Letters
<1>8. CASE \E x \in Chars \ {"n"} : part = <<"-", "-", x>>
  <2>1. Len(part) = 3 /\ part \in Seq(Chars)
        /\ part[1] = "-" /\ part[2] = "-" /\ part[3] # "n"
    BY <1>1, <1>8, Zenon
  <2>. QED
    BY <1>4, <1>5, <2>1
<1>9. CASE \E x, y \in Chars \ {"n"} : part = <<"-", "-", x, y>>
  <2>1. PICK x, y \in Chars \ {"n"} : part = <<"-", "-", x, y>>
    BY <1>9
  <2>2. Len(part) = 4 /\ part \in Seq(Chars)
        /\ part[1] = "-" /\ part[2] = "-" /\ part[3] # "n" /\ part[4] # "n"
    BY <1>2, <2>1
  <2>. QED
    BY <1>4, <1>5, <2>2
<1>. QED
  BY <1>3, <1>6, <1>7, <1>8, <1>9, Zenon

\* A comment to the end of the line is gone, and the reader is in it.
LEMMA LineRead ==
    ASSUME NEW text, Len(text) \in Nat, NEW k \in Nat, NEW part \in Lean!LineComments,
           In(text, k, 0), Spells(text, k, part)
    PROVE  Trailing(text, k + Len(part)) /\ GoneOver(text, k, Len(part))
<1>. DEFINE n == Len(part)
            S == {m \in Nat : m + 1 <= n =>
                     Trailing(text, k + (m + 1)) /\ \A j \in 1 .. m + 1 : Gone(text, k + j)}
<1>1. n \in Nat /\ n >= 2 /\ part[1] = "-" /\ part[2] = "-" /\ \A i \in 1..n : part[i] # "n"
  BY LineIs
<1>2. k + n <= Len(text) /\ \A i \in 1..n : text[k + i] = part[i]
  BY DEF Spells
<1>. HIDE DEF n
<1>3. 0 \in S
  <2>1. k + 2 <= Len(text) /\ text[k + 1] = "-" /\ text[k + 2] = "-"
    BY <1>1, <1>2
  <2>2. Trailing(text, k + 1) /\ Gone(text, k + 1)
    BY <2>1, DashesOpen
  <2>3. 0 + 1 = 1 /\ \A j \in 1..1 : j = 1
    OBVIOUS
  <2>. QED
    BY <2>2, <2>3
<1>4. ASSUME NEW m \in Nat, m \in S PROVE m + 1 \in S
  <2>1. SUFFICES ASSUME (m + 1) + 1 <= n
                 PROVE  /\ Trailing(text, k + ((m + 1) + 1))
                        /\ \A j \in 1 .. (m + 1) + 1 : Gone(text, k + j)
    OBVIOUS
  <2>2. Trailing(text, k + (m + 1)) /\ \A j \in 1 .. m + 1 : Gone(text, k + j)
    BY <1>1, <1>4, <2>1
  <2>3. (m + 1) + 1 \in 1..n /\ (k + (m + 1)) + 1 = k + ((m + 1) + 1)
        /\ k + (m + 1) \in Nat /\ (k + (m + 1)) + 1 <= Len(text)
    BY <1>1, <1>2, <2>1
  <2>4. text[(k + (m + 1)) + 1] # "n"
    BY <1>1, <1>2, <2>3, Zenon
  <2>. DEFINE w == k + (m + 1)
  <2>5. Trailing(text, w) /\ w \in Nat /\ w + 1 <= Len(text) /\ text[w + 1] # "n"
        /\ w + 1 = k + ((m + 1) + 1)
    BY <2>2, <2>3, <2>4
  <2>. HIDE DEF w
  <2>6. Trailing(text, w + 1) /\ Gone(text, w + 1)
    BY <2>5, TrailingOne
  <2>7. \A j \in 1 .. (m + 1) + 1 : j \in 1 .. m + 1 \/ j = (m + 1) + 1
    OBVIOUS
  <2>. QED
    BY <2>2, <2>5, <2>6, <2>7
<1>5. n - 1 \in Nat /\ (n - 1) + 1 = n
  BY <1>1
<1>6. n - 1 \in S
  <2>. HIDE DEF S
  <2>. QED
    BY <1>3, <1>4, <1>5, Induct
<1>. QED
  BY <1>5, <1>6 DEF GoneOver, n
\* What the comments hold neither opens nor closes one.
LEMMA PlainUnit ==
    ASSUME NEW part \in Lean!InComments PROVE part \in Seq(Inner)
<1>1. \A x \in Inner : <<x>> \in Seq(Inner)
  BY Singles, Zenon
<1>. QED
  BY <1>1, Letters, Zenon DEF Lean!InComments

\* Two of these neither.
LEMMA PlainBody ==
    ASSUME NEW body \in Lean!UpToTwo(Lean!InComments) PROVE body \in Seq(Inner)
<1>1. CASE body = <<>>
  BY <1>1
<1>2. CASE body \in Lean!InComments
  BY <1>2, PlainUnit
<1>3. CASE \E u, v \in Lean!InComments : body = u \o v
  <2>1. PICK u, v \in Lean!InComments : body = u \o v
    BY <1>3
  <2>2. u \in Seq(Inner) /\ v \in Seq(Inner)
    BY PlainUnit
  <2>3. u \o v \in Seq(Inner)
    BY <2>2
  <2>. QED
    BY <2>1, <2>3
<1>4. body = <<>> \/ body \in Lean!InComments \/ \E u, v \in Lean!InComments : body = u \o v
  BY DEF Lean!UpToTwo, Lean!UpToOne
<1>. QED
  BY <1>1, <1>2, <1>3, <1>4

\* Every comment of the texts has a body of this kind.
LEMMA BlockIs ==
    ASSUME NEW part \in Lean!FlatBlocks \cup Lean!NestedBlocks
    PROVE  \E body \in Seq(Chars) : IsBody(body) /\ part = Lean!Block(body)
<1>1. CASE part \in Lean!FlatBlocks
  <2>1. PICK body \in Lean!UpToTwo(Lean!InComments) : part = Lean!Block(body)
    BY <1>1, Zenon DEF Lean!FlatBlocks
  <2>2. body \in Seq(Inner)
    BY PlainBody
  <2>3. body \in Seq(Chars)
    BY <2>2, InnerIs
  <2>. QED
    BY <2>1, <2>2, <2>3, Zenon DEF IsBody
<1>2. CASE part \in Lean!NestedBlocks
  <2>. DEFINE P == {<<>>, <<"c">>} \X Lean!UpToOne(Lean!InComments) \X {<<>>, <<"c">>, <<"-">>}
  <2>1. PICK p \in P : part = Lean!Block(p[1] \o Lean!Block(p[2]) \o p[3])
    BY <1>2, Zenon DEF Lean!NestedBlocks
  <2>2. /\ p[1] \in {<<>>, <<"c">>} /\ p[2] \in Lean!UpToOne(Lean!InComments)
        /\ p[3] \in {<<>>, <<"c">>, <<"-">>}
    OBVIOUS
  <2>3. PICK a, b, c : a = p[1] /\ b = p[2] /\ c = p[3]
    OBVIOUS
  <2>4. a \in Seq(Inner) /\ (Len(a) = 0 \/ a[Len(a)] # "-")
    <3>1. CASE a = <<>>
      BY <3>1
    <3>2. CASE a = <<"c">>
      <4>1. "c" # "-"
        BY Zenon
      <4>. QED
        BY <3>2, <4>1, Singles, Letters
    <3>. QED
      BY <2>2, <2>3, <3>1, <3>2, Zenon
  <2>5. b \in Seq(Inner)
    <3>1. b \in Lean!UpToTwo(Lean!InComments)
      BY <2>2, <2>3, Zenon DEF Lean!UpToTwo
    <3>. QED
      BY <3>1, PlainBody
  <2>6. c \in Seq(Inner)
    <3>1. CASE c = <<>>
      BY <3>1
    <3>2. CASE c = <<"c">>
      BY <3>2, Singles, Letters
    <3>3. CASE c = <<"-">>
      BY <3>3, Singles, Letters
    <3>. QED
      BY <2>2, <2>3, <3>1, <3>2, <3>3, Zenon
  <2>7. part = Lean!Block(Nests(a, b, c))
    BY <2>1, <2>3, Zenon DEF Nests
  <2>8. IsBody(Nests(a, b, c))
    BY <2>4, <2>5, <2>6, Zenon DEF IsBody
  <2>9. Nests(a, b, c) \in Seq(Chars)
    <3>1. a \in Seq(Chars) /\ b \in Seq(Chars) /\ c \in Seq(Chars)
      BY <2>4, <2>5, <2>6, InnerIs
    <3>2. Lean!Block(b) \in Seq(Chars)
      BY <3>1, BlockParts
    <3>. QED
      BY <3>1, <3>2, Joined, Zenon DEF Nests
  <2>. QED
    BY <2>7, <2>8, <2>9, Zenon
<1>. QED
  BY <1>1, <1>2

\* What is no code: a comment or a string.
IsClosed(part) == part \in Lean!FlatBlocks \cup Lean!NestedBlocks \cup Lean!Strings

\* What is closed has two characters at least.
LEMMA ClosedIs ==
    ASSUME NEW part, IsClosed(part) PROVE part \in Seq(Chars) /\ Len(part) \in Nat /\ Len(part) >= 2
<1>1. CASE part \in Lean!FlatBlocks \cup Lean!NestedBlocks
  <2>1. PICK body \in Seq(Chars) : IsBody(body) /\ part = Lean!Block(body)
    BY <1>1, BlockIs
  <2>2. Len(body) \in Nat
    OBVIOUS
  <2>. QED
    BY <2>1, <2>2, BlockParts
<1>2. CASE part \in Lean!Strings
  <2>1. PICK body \in Lean!UpToTwo(Lean!InStrings) : part = <<"q">> \o body \o <<"q">>
    BY <1>2, Zenon DEF Lean!Strings
  <2>2. body \in Seq(Chars) /\ Len(body) \in Nat
    BY UnitsAre
  <2>3. part \in Seq(Chars) /\ Len(part) = Len(body) + 2
    BY <2>1, <2>2, QuotedParts, Zenon
  <2>. QED
    BY <2>2, <2>3
<1>. QED
  BY <1>1, <1>2 DEF IsClosed

\* A whole comment or string is gone, and the reader is in code after it.
LEMMA ClosedRead ==
    ASSUME NEW text, Len(text) \in Nat, NEW k \in Nat, NEW part, IsClosed(part),
           In(text, k, 0), Spells(text, k, part)
    PROVE  In(text, k + Len(part), 0) /\ GoneOver(text, k, Len(part))
<1>1. CASE part \in Lean!FlatBlocks \cup Lean!NestedBlocks
  <2>1. PICK body \in Seq(Chars) : IsBody(body) /\ part = Lean!Block(body)
    BY <1>1, BlockIs
  <2>2. Spells(text, k, Lean!Block(body)) /\ Len(part) = Len(body) + 4
    BY <2>1, BlockParts
  <2>3. In(text, k + (Len(body) + 4), 0) /\ GoneOver(text, k, Len(body) + 4)
    BY <2>1, <2>2, CommentRead
  <2>. QED
    BY <2>2, <2>3, Zenon
<1>2. CASE part \in Lean!Strings
  <2>1. PICK body \in Lean!UpToTwo(Lean!InStrings) : part = <<"q">> \o body \o <<"q">>
    BY <1>2, Zenon DEF Lean!Strings
  <2>2. body \in Seq(Chars)
    BY UnitsAre
  <2>3. part = (Quote \o body) \o Quote /\ Len(part) = Len(body) + 2
    BY <2>1, <2>2, QuotedParts, Zenon
  <2>4. Spells(text, k, (Quote \o body) \o Quote)
    BY <2>3
  <2>5. In(text, k + (Len(body) + 2), 0) /\ GoneOver(text, k, Len(body) + 2)
    BY <2>4, StringRead
  <2>. QED
    BY <2>3, <2>5, Zenon
<1>. QED
  BY <1>1, <1>2 DEF IsClosed
\* What ends within a comment or a string is refused.
Cut(text) == SubSeq(text, 1, Len(text) - 1)

\* A text without its last character.
LEMMA CutIs ==
    ASSUME NEW text \in Seq(Chars), Len(text) >= 2
    PROVE  /\ Len(Cut(text)) = Len(text) - 1
           /\ \A i \in 1 .. Len(text) - 1 : Cut(text)[i] = text[i]
BY DEF Cut

\* It spells what the text spells before that.
LEMMA CutSpells ==
    ASSUME NEW text \in Seq(Chars), Len(text) >= 2, NEW k \in Nat, NEW part \in Seq(Chars),
           Spells(text, k, part), k + Len(part) <= Len(text) - 1
    PROVE  Spells(Cut(text), k, part)
<1>1. Len(part) \in Nat /\ Len(text) \in Nat
  OBVIOUS
<1>2. Len(Cut(text)) = Len(text) - 1 /\ \A i \in 1 .. Len(text) - 1 : Cut(text)[i] = text[i]
  BY CutIs
<1>3. ASSUME NEW i \in 1 .. Len(part) PROVE Cut(text)[k + i] = part[i]
  <2>1. k + i \in 1 .. Len(text) - 1
    BY <1>1
  <2>2. text[k + i] = part[i]
    BY DEF Spells
  <2>. QED
    BY <1>2, <2>1, <2>2
<1>. QED
  BY <1>2, <1>3 DEF Spells

\* A text spells itself.
LEMMA WholeSpells == ASSUME NEW text \in Seq(Chars) PROVE Spells(text, 0, text)
BY DEF Spells

\* A text is whole when the reader ends in code or in a line comment.
LEMMA WholeIs ==
    ASSUME NEW text
    PROVE  Lean!CodeOnly(text).whole =
              (After(text, Len(text)).depth = 0 /\ ~After(text, Len(text)).string)
BY DEF After, Lean!CodeOnly

\* A comment or a string without its last character is not whole.
LEMMA CutIsOpen ==
    ASSUME NEW part, IsClosed(part) PROVE ~Lean!CodeOnly(Cut(part)).whole
<1>. DEFINE cut == Cut(part)
<1>1. part \in Seq(Chars) /\ Len(part) \in Nat /\ Len(part) >= 2
  BY ClosedIs
<1>2. Len(cut) = Len(part) - 1 /\ Len(cut) \in Nat
  BY <1>1, CutIs
<1>3. Spells(part, 0, part)
  BY <1>1, WholeSpells
<1>4. CASE part \in Lean!FlatBlocks \cup Lean!NestedBlocks
  <2>1. PICK body \in Seq(Chars) : IsBody(body) /\ part = Lean!Block(body)
    BY <1>4, BlockIs
  <2>2. Len(body) \in Nat /\ Len(part) = Len(body) + 4
        /\ OpenMark \o body \in Seq(Chars) /\ Len(OpenMark \o body) = 2 + Len(body)
    BY <2>1, BlockParts
  <2>3. Spells(part, 0, OpenMark \o body) /\ Spells(part, 0 + (2 + Len(body)), CloseMark)
    <3>1. Spells(part, 0, Lean!Block(body)) /\ 0 \in Nat
      BY <1>3, <2>1
    <3>. QED
      BY <1>1, <3>1, BlockSpells
  <2>4. Spells(cut, 0, OpenMark \o body)
    <3>1. PICK front : front = OpenMark \o body
      OBVIOUS
    <3>2. front \in Seq(Chars) /\ Spells(part, 0, front) /\ 0 \in Nat
          /\ 0 + Len(front) <= Len(part) - 1
      BY <2>2, <2>3, <3>1
    <3>3. Spells(cut, 0, front)
      BY <1>1, <3>2, CutSpells
    <3>. QED
      BY <3>1, <3>3
  <2>5. cut[Len(body) + 3] = "-"
    <3>1. part[(0 + (2 + Len(body))) + 1] = "-"
      BY <2>3, CloseMarkIs DEF Spells
    <3>2. (0 + (2 + Len(body))) + 1 = Len(body) + 3 /\ Len(body) + 3 \in 1 .. Len(part) - 1
      BY <2>2
    <3>. QED
      BY <1>1, <3>1, <3>2, CutIs
  <2>6. Len(cut) = Len(body) + 3
    BY <1>2, <2>2
  <2>. HIDE DEF cut
  <2>7. After(cut, Len(cut)).depth = 1
    BY <2>1, <2>4, <2>5, <2>6, CommentCut
  <2>. QED
    BY <2>7, 1 # 0, WholeIs, Zenon DEF cut
<1>5. CASE part \in Lean!Strings
  <2>1. PICK body \in Lean!UpToTwo(Lean!InStrings) : part = <<"q">> \o body \o <<"q">>
    BY <1>5, Zenon DEF Lean!Strings
  <2>2. body \in Seq(Chars) /\ Len(body) \in Nat
    BY UnitsAre
  <2>3. part = (Quote \o body) \o Quote /\ Len(part) = Len(body) + 2
        /\ Quote \o body \in Seq(Chars) /\ Len(Quote \o body) = 1 + Len(body)
    BY <2>1, <2>2, QuotedParts, Zenon
  <2>4. Spells(part, 0, Quote \o body)
    <3>1. Spells(part, 0, (Quote \o body) \o Quote) /\ 0 \in Nat
      BY <1>3, <2>3
    <3>. QED
      BY <1>1, <2>3, <3>1, QuoteIs, SpellsBoth, Zenon
  <2>5. Spells(cut, 0, Quote \o body)
    <3>1. PICK front : front = Quote \o body
      OBVIOUS
    <3>2. front \in Seq(Chars) /\ Spells(part, 0, front) /\ 0 \in Nat
          /\ 0 + Len(front) <= Len(part) - 1
      BY <2>2, <2>3, <2>4, <3>1
    <3>3. Spells(cut, 0, front)
      BY <1>1, <3>2, CutSpells
    <3>. QED
      BY <3>1, <3>3
  <2>6. Len(cut) = Len(body) + 1
    BY <1>2, <2>2, <2>3
  <2>. HIDE DEF cut
  <2>7. After(cut, Len(cut)).string = TRUE
    BY <2>5, <2>6, StringCut
  <2>. QED
    BY <2>7, WholeIs, Zenon DEF cut
<1>. QED
  BY <1>4, <1>5 DEF IsClosed

\* No text that ends within a comment or a string passes.
LEMMA NoneIsUnended == Lean!Unended = {}
<1>1. SUFFICES ASSUME NEW p \in Lean!Closed
               PROVE  ~Lean!CodeOnly(SubSeq(p.text, 1, Len(p.text) - 1)).whole
  BY Zenon DEF Lean!Unended
<1>2. PICK t \in Lean!FlatBlocks \cup Lean!NestedBlocks \cup Lean!Strings : p = Lean!Piece(t, FALSE)
  BY Zenon DEF Lean!Closed
<1>3. p.text = t
  BY <1>2 DEF Lean!Piece
<1>4. ~Lean!CodeOnly(Cut(t)).whole
  BY <1>2, CutIsOpen DEF IsClosed
<1>. QED
  BY <1>3, <1>4 DEF Cut
-----------------------------------------------------------------------------
\* A piece, and a text that keeps of it what is code.
IsPiece(p) ==
    /\ p.text \in Seq(Chars) /\ Len(p.text) \in Nat /\ Len(p.text) >= 1
    /\ p.code \in Seq(BOOLEAN) /\ Len(p.code) = Len(p.text)
Shows(text, k, p) ==
    \A i \in 1 .. Len(p.text) :
       IF p.code[i] THEN After(text, k + i).kept = p.text[i] ELSE Gone(text, k + i)

\* A piece of one kind.
LEMMA PieceIs ==
    ASSUME NEW part \in Seq(Chars), Len(part) >= 1, NEW whether \in BOOLEAN
    PROVE  /\ IsPiece(Lean!Piece(part, whether)) /\ Lean!Piece(part, whether).text = part
           /\ \A i \in 1 .. Len(part) : Lean!Piece(part, whether).code[i] = whether
<1>1. DOMAIN part = 1 .. Len(part) /\ Len(part) \in Nat
  OBVIOUS
<1>2. \A n \in Nat : [i \in 1..n |-> whether] \in Seq(BOOLEAN) /\ Len([i \in 1..n |-> whether]) = n
  OBVIOUS
<1>3. Lean!Piece(part, whether) = [text |-> part, code |-> [i \in 1 .. Len(part) |-> whether]]
  BY <1>1, Zenon DEF Lean!Piece
<1>. QED
  BY <1>1, <1>2, <1>3 DEF IsPiece

Joins(j, a, b) ==
    /\ j.text = a.text \o b.text /\ Len(j.text) = Len(a.text) + Len(b.text)
    /\ \A i \in 1 .. Len(a.text) : j.text[i] = a.text[i] /\ j.code[i] = a.code[i]
    /\ \A i \in 1 .. Len(b.text) :
          j.text[Len(a.text) + i] = b.text[i] /\ j.code[Len(a.text) + i] = b.code[i]

\* Two pieces together are a piece.
LEMMA JoinIs ==
    ASSUME NEW a, NEW b, IsPiece(a), IsPiece(b), NEW j, j = Lean!Join(a, b)
    PROVE  IsPiece(j) /\ Joins(j, a, b)
<1>1. PICK at, bt \in Seq(Chars), ac, bc \in Seq(BOOLEAN) :
         at = a.text /\ bt = b.text /\ ac = a.code /\ bc = b.code
  BY DEF IsPiece
<1>2. Len(ac) = Len(at) /\ Len(bc) = Len(bt) /\ Len(at) \in Nat /\ Len(bt) \in Nat
      /\ Len(at) >= 1 /\ Len(bt) >= 1
  BY <1>1 DEF IsPiece
<1>3. /\ at \o bt \in Seq(Chars) /\ Len(at \o bt) = Len(at) + Len(bt)
      /\ \A i \in 1 .. Len(at) : (at \o bt)[i] = at[i]
      /\ \A i \in 1 .. Len(bt) : (at \o bt)[Len(at) + i] = bt[i]
  OBVIOUS
<1>4. /\ ac \o bc \in Seq(BOOLEAN) /\ Len(ac \o bc) = Len(ac) + Len(bc)
      /\ \A i \in 1 .. Len(ac) : (ac \o bc)[i] = ac[i]
      /\ \A i \in 1 .. Len(bc) : (ac \o bc)[Len(ac) + i] = bc[i]
  OBVIOUS
<1>5. Lean!Join(a, b) = [text |-> at \o bt, code |-> ac \o bc]
  BY <1>1, Zenon DEF Lean!Join
<1>6. Lean!Join(a, b).text = at \o bt /\ Lean!Join(a, b).code = ac \o bc
  BY <1>5
<1>8. j.text = at \o bt /\ j.code = ac \o bc
  BY <1>6
<1>9. Len(at \o bt) \in Nat /\ Len(at \o bt) >= 1 /\ Len(ac \o bc) = Len(at \o bt)
  BY <1>2, <1>3, <1>4
<1>10. IsPiece(j)
  BY <1>3, <1>4, <1>8, <1>9, Zenon DEF IsPiece
<1>11. j.text = a.text \o b.text /\ Len(j.text) = Len(a.text) + Len(b.text)
  BY <1>1, <1>3, <1>8, Zenon
<1>12. \A i \in 1 .. Len(a.text) : j.text[i] = a.text[i] /\ j.code[i] = a.code[i]
  BY <1>1, <1>2, <1>3, <1>4, <1>8, Zenon
<1>13. \A i \in 1 .. Len(b.text) :
          j.text[Len(a.text) + i] = b.text[i] /\ j.code[Len(a.text) + i] = b.code[i]
  BY <1>1, <1>2, <1>3, <1>4, <1>8, Zenon
<1>. QED
  BY <1>10, <1>11, <1>12, <1>13, Zenon DEF Joins

\* Two pieces that are shown are shown together.
LEMMA JoinShows ==
    ASSUME NEW text, NEW k \in Nat, NEW a, NEW b, IsPiece(a), IsPiece(b),
           Shows(text, k, a), Shows(text, k + Len(a.text), b)
    PROVE  Shows(text, k, Lean!Join(a, b))
<1>. DEFINE n == Len(a.text)
            m == Len(b.text)
<1>1. n \in Nat /\ m \in Nat
  BY DEF IsPiece
<1>2. PICK j : j = Lean!Join(a, b)
  OBVIOUS
<1>. HIDE DEF n, m
<1>3. /\ Len(j.text) = n + m
      /\ \A i \in 1 .. n : j.text[i] = a.text[i] /\ j.code[i] = a.code[i]
      /\ \A i \in 1 .. m : j.text[n + i] = b.text[i] /\ j.code[n + i] = b.code[i]
  <2>1. Joins(j, a, b)
    BY <1>2, JoinIs, Zenon
  <2>. QED
    BY <2>1, Zenon DEF Joins, n, m
<1>4. \A i \in 1 .. n : IF a.code[i] THEN After(text, k + i).kept = a.text[i] ELSE Gone(text, k + i)
  BY DEF Shows, n
<1>5. \A i \in 1 .. m : IF b.code[i] THEN After(text, (k + n) + i).kept = b.text[i]
                        ELSE Gone(text, (k + n) + i)
  BY DEF Shows, n, m
<1>6. SUFFICES ASSUME NEW i \in 1 .. n + m
               PROVE  IF j.code[i] THEN After(text, k + i).kept = j.text[i] ELSE Gone(text, k + i)
  BY <1>2, <1>3, Zenon DEF Shows
<1>7. CASE i \in 1 .. n
  BY <1>3, <1>4, <1>7, Zenon
<1>8. CASE ~(i \in 1 .. n)
  <2>1. i - n \in 1 .. m /\ n + (i - n) = i /\ (k + n) + (i - n) = k + i
    BY <1>1, <1>8
  <2>2. j.text[i] = b.text[i - n] /\ j.code[i] = b.code[i - n]
    BY <1>3, <2>1
  <2>3. IF b.code[i - n] THEN After(text, (k + n) + (i - n)).kept = b.text[i - n]
        ELSE Gone(text, (k + n) + (i - n))
    BY <1>5, <2>1, Zenon
  <2>. QED
    BY <2>1, <2>2, <2>3, Zenon
<1>. QED
  BY <1>7, <1>8

\* A text that is shown to its end is not misread.
LEMMA Settled ==
    ASSUME NEW p, IsPiece(p), Shows(p.text, 0, p),
           After(p.text, Len(p.text)).depth = 0, ~After(p.text, Len(p.text)).string
    PROVE  ~Lean!IsMisread(p)
<1>. DEFINE text == p.text
            n == Len(text)
<1>1. text \in Seq(Chars) /\ n \in Nat /\ DOMAIN text = 1..n
  BY DEF IsPiece
<1>2. PICK read : read = Lean!CodeOnly(text)
  OBVIOUS
<1>3. read.whole
  BY <1>2, WholeIs
<1>4. read.code = [i \in DOMAIN text |-> After(text, i).kept]
  BY <1>2 DEF Lean!CodeOnly, After
<1>5. DOMAIN read.code = DOMAIN text /\ \A i \in DOMAIN text : read.code[i] = After(text, i).kept
  BY <1>4
<1>6. ASSUME NEW i \in DOMAIN text
      PROVE  IF p.code[i] THEN read.code[i] = text[i] ELSE read.code[i] \in {Lean!Blank, "n"}
  <2>1. i \in 1..n /\ 0 + i = i
    BY <1>1
  <2>2. IF p.code[i] THEN After(text, 0 + i).kept = text[i] ELSE Gone(text, 0 + i)
    BY <2>1, Zenon DEF Shows
  <2>. QED
    BY <1>5, <2>1, <2>2, Zenon DEF Gone
<1>. QED
  BY <1>2, <1>3, <1>5, <1>6, Zenon DEF Lean!IsMisread
-----------------------------------------------------------------------------
\* The kinds of pieces.
LEMMA NewLineIsCode == Lean!NewLine \in Lean!Code
<1>1. <<"n">> \in Lean!CodeTexts
  BY Zenon DEF Lean!CodeTexts
<1>. QED
  BY <1>1, Zenon DEF Lean!NewLine, Lean!Code

Uniform(p, whether) == \A i \in 1 .. Len(p.text) : p.code[i] = whether

\* The pieces of code are code.
LEMMA CodePiece ==
    ASSUME NEW p \in Lean!Code
    PROVE  IsPiece(p) /\ p.text \in Lean!CodeTexts /\ Uniform(p, TRUE)
<1>1. PICK part \in Lean!CodeTexts : p = Lean!Piece(part, TRUE)
  BY Zenon DEF Lean!Code
<1>2. part \in Seq(Chars) /\ Len(part) >= 1 /\ TRUE \in BOOLEAN
  BY CodeIs
<1>3. IsPiece(p) /\ p.text = part /\ \A i \in 1 .. Len(part) : p.code[i] = TRUE
  BY <1>1, <1>2, PieceIs
<1>. QED
  BY <1>3, Zenon DEF Uniform

\* Comments and strings are none.
LEMMA ClosedPiece ==
    ASSUME NEW p \in Lean!Closed
    PROVE  IsPiece(p) /\ IsClosed(p.text) /\ Uniform(p, FALSE)
<1>1. PICK part \in Lean!FlatBlocks \cup Lean!NestedBlocks \cup Lean!Strings :
         p = Lean!Piece(part, FALSE)
  BY Zenon DEF Lean!Closed
<1>2. IsClosed(part)
  BY DEF IsClosed
<1>3. part \in Seq(Chars) /\ Len(part) >= 1 /\ FALSE \in BOOLEAN
  BY <1>2, ClosedIs
<1>4. IsPiece(p) /\ p.text = part /\ \A i \in 1 .. Len(part) : p.code[i] = FALSE
  BY <1>1, <1>3, PieceIs
<1>. QED
  BY <1>2, <1>4, Zenon DEF Uniform

\* Comments to the end of the line are none.
LEMMA LinePiece ==
    ASSUME NEW p \in Lean!ToEndOfLine
    PROVE  IsPiece(p) /\ p.text \in Lean!LineComments /\ Uniform(p, FALSE)
<1>1. PICK part \in Lean!LineComments : p = Lean!Piece(part, FALSE)
  BY Zenon DEF Lean!ToEndOfLine
<1>2. part \in Seq(Chars) /\ Len(part) >= 1 /\ FALSE \in BOOLEAN
  BY LineIs
<1>3. IsPiece(p) /\ p.text = part /\ \A i \in 1 .. Len(part) : p.code[i] = FALSE
  BY <1>1, <1>2, PieceIs
<1>. QED
  BY <1>3, Zenon DEF Uniform

\* A piece in its place: the text stands in code before it, and there is no dash
\* after a character that would open a comment with it.
Placed(text, k, p) ==
    /\ Len(text) \in Nat /\ k \in Nat /\ In(text, k, 0) /\ Spells(text, k, p.text)
Safely(text, k, p) ==
    p \in Lean!Code /\ Lean!MayOpen(p.text) => Following(text, k + Len(p.text)) # "-"

\* A piece in its place is shown, and the reader is in code after it.
LEMMA PieceRead ==
    ASSUME NEW p \in Lean!Closed \cup Lean!Code, NEW text, NEW k, Placed(text, k, p), Safely(text, k, p)
    PROVE  IsPiece(p) /\ In(text, k + Len(p.text), 0) /\ Shows(text, k, p)
<1>. DEFINE part == p.text
<1>1. Len(text) \in Nat /\ k \in Nat /\ In(text, k, 0) /\ Spells(text, k, part)
  BY DEF Placed
<1>2. CASE p \in Lean!Code
  <2>1. IsPiece(p) /\ part \in Lean!CodeTexts /\ \A i \in 1 .. Len(part) : p.code[i] = TRUE
    BY <1>2, CodePiece, Zenon DEF Uniform
  <2>2. Lean!MayOpen(part) => Following(text, k + Len(part)) # "-"
    BY <1>2, Zenon DEF Safely
  <2>. HIDE DEF part
  <2>3. /\ In(text, k + Len(part), 0)
        /\ \A i \in 1 .. Len(part) : After(text, k + i).kept = part[i]
    BY <1>1, <2>1, <2>2, CodeRead
  <2>. QED
    BY <2>1, <2>3, Zenon DEF Shows, part
<1>3. CASE p \in Lean!Closed
  <2>1. IsPiece(p) /\ IsClosed(part) /\ \A i \in 1 .. Len(part) : p.code[i] = FALSE
    BY <1>3, ClosedPiece, Zenon DEF Uniform
  <2>. HIDE DEF part
  <2>2. In(text, k + Len(part), 0) /\ GoneOver(text, k, Len(part))
    BY <1>1, <2>1, ClosedRead
  <2>. QED
    BY <2>1, <2>2, Zenon DEF Shows, GoneOver, part
<1>. QED
  BY <1>2, <1>3

\* A comment to the end of the line is shown, and the reader stays in it.
LEMMA TailRead ==
    ASSUME NEW p \in Lean!ToEndOfLine, NEW text, NEW k, Placed(text, k, p)
    PROVE  IsPiece(p) /\ Trailing(text, k + Len(p.text)) /\ Shows(text, k, p)
<1>. DEFINE part == p.text
<1>1. Len(text) \in Nat /\ k \in Nat /\ In(text, k, 0) /\ Spells(text, k, part)
  BY DEF Placed
<1>2. IsPiece(p) /\ part \in Lean!LineComments /\ \A i \in 1 .. Len(part) : p.code[i] = FALSE
  BY LinePiece, Zenon DEF Uniform
<1>. HIDE DEF part
<1>3. Trailing(text, k + Len(part)) /\ GoneOver(text, k, Len(part))
  BY <1>1, <1>2, LineRead
<1>. QED
  BY <1>2, <1>3, Zenon DEF Shows, GoneOver, part

\* At the end of the text there is no dash, and none after a piece that is apart.
LEMMA EndIsSafe ==
    ASSUME NEW text, NEW k, NEW p, k + Len(p.text) = Len(text), Len(text) \in Nat
    PROVE  Safely(text, k, p)
<1>1. Following(text, k + Len(p.text)) = Lean!NoCharacter
  BY DEF Following
<1>2. Lean!NoCharacter # "-"
  BY Zenon DEF Lean!NoCharacter
<1>. QED
  BY <1>1, <1>2, Zenon DEF Safely

\* Nor is there one after a piece that is apart from the next.
LEMMA ApartIsSafe ==
    ASSUME NEW text, Len(text) \in Nat, NEW k \in Nat, NEW a, NEW b, IsPiece(a), IsPiece(b),
           Lean!Apart(a, b), Spells(text, k + Len(a.text), b.text)
    PROVE  Safely(text, k, a)
<1>. DEFINE m == k + Len(a.text)
<1>1. m \in Nat /\ 1 \in 1 .. Len(b.text) /\ Len(b.text) >= 1
  BY DEF IsPiece
<1>2. m + 1 <= Len(text) /\ text[m + 1] = b.text[1]
  BY <1>1 DEF Spells
<1>3. Following(text, m) = b.text[1]
  BY <1>1, <1>2 DEF Following
<1>. QED
  BY <1>3, Zenon DEF Safely, Lean!Apart
-----------------------------------------------------------------------------
\* Pieces together.
LEMMA JoinSpells ==
    ASSUME NEW a, NEW b, IsPiece(a), IsPiece(b), NEW j, j = Lean!Join(a, b),
           NEW text, Len(text) \in Nat, NEW k \in Nat, Spells(text, k, j.text)
    PROVE  /\ IsPiece(j) /\ Len(j.text) = Len(a.text) + Len(b.text)
           /\ Spells(text, k, a.text) /\ Spells(text, k + Len(a.text), b.text)
<1>1. IsPiece(j) /\ Joins(j, a, b)
  BY JoinIs, Zenon
<1>2. PICK at, bt \in Seq(Chars) : at = a.text /\ bt = b.text
  BY DEF IsPiece
<1>3. j.text = at \o bt /\ Len(j.text) = Len(a.text) + Len(b.text)
  BY <1>1, <1>2, Zenon DEF Joins
<1>4. Spells(text, k, at \o bt)
  BY <1>3
<1>5. Spells(text, k, at) /\ Spells(text, k + Len(at), bt)
  BY <1>4, SpellsBoth, Zenon
<1>. QED
  BY <1>1, <1>2, <1>3, <1>5, Zenon

\* The last piece is shown, and the text is whole.
LEMMA LastRead ==
    ASSUME NEW p \in Lean!Closed \cup Lean!Code \cup Lean!ToEndOfLine, NEW text, NEW k,
           Placed(text, k, p), k + Len(p.text) = Len(text)
    PROVE  /\ IsPiece(p) /\ Shows(text, k, p)
           /\ After(text, Len(text)).depth = 0 /\ ~After(text, Len(text)).string
<1>1. CASE p \in Lean!Closed \cup Lean!Code
  <2>1. Safely(text, k, p)
    BY EndIsSafe DEF Placed
  <2>2. IsPiece(p) /\ In(text, k + Len(p.text), 0) /\ Shows(text, k, p)
    BY <1>1, <2>1, PieceRead
  <2>. QED
    BY <2>2 DEF In
<1>2. CASE p \in Lean!ToEndOfLine
  <2>1. IsPiece(p) /\ Trailing(text, k + Len(p.text)) /\ Shows(text, k, p)
    BY <1>2, TailRead
  <2>. QED
    BY <2>1 DEF Trailing
<1>. QED
  BY <1>1, <1>2

\* All of them are pieces.
LEMMA ArePieces ==
    ASSUME NEW p \in Lean!Closed \cup Lean!Code \cup Lean!ToEndOfLine PROVE IsPiece(p)
BY CodePiece, ClosedPiece, LinePiece

\* The reader starts in code.
LEMMA Starts == ASSUME NEW text, Len(text) \in Nat PROVE In(text, 0, 0)
BY ReadingUnfolds DEF In, Lean!One

\* Two pieces that are apart, the last ones of a text, are shown.
LEMMA TwoRead ==
    ASSUME NEW a \in Lean!Closed \cup Lean!Code,
           NEW b \in Lean!Closed \cup Lean!Code \cup Lean!ToEndOfLine,
           Lean!Apart(a, b), NEW text, NEW k \in Nat,
           NEW j, j = Lean!Join(a, b), Placed(text, k, j), k + Len(j.text) = Len(text)
    PROVE  /\ IsPiece(j) /\ Shows(text, k, j)
           /\ After(text, Len(text)).depth = 0 /\ ~After(text, Len(text)).string
<1>. DEFINE m == k + Len(a.text)
<1>1. IsPiece(a) /\ IsPiece(b)
  BY ArePieces
<1>2. Len(text) \in Nat /\ In(text, k, 0) /\ Spells(text, k, j.text)
  BY DEF Placed
<1>3. /\ IsPiece(j) /\ Len(j.text) = Len(a.text) + Len(b.text)
      /\ Spells(text, k, a.text) /\ Spells(text, m, b.text)
  BY <1>1, <1>2, JoinSpells, Zenon
<1>4. Placed(text, k, a) /\ Safely(text, k, a)
  BY <1>1, <1>2, <1>3, ApartIsSafe DEF Placed
<1>5. In(text, m, 0) /\ Shows(text, k, a)
  BY <1>4, PieceRead
<1>6. m \in Nat /\ m + Len(b.text) = Len(text)
  <2>1. Len(a.text) \in Nat /\ Len(b.text) \in Nat
    BY <1>1 DEF IsPiece
  <2>2. PICK x, y \in Nat : x = Len(a.text) /\ y = Len(b.text)
    BY <2>1
  <2>3. k + (x + y) = Len(text)
    BY <1>3, <2>2
  <2>4. (k + x) + y = Len(text) /\ k + x \in Nat
    BY <2>3
  <2>. QED
    BY <2>2, <2>4
<1>. HIDE DEF m
<1>7. Placed(text, m, b)
  BY <1>2, <1>3, <1>5, <1>6 DEF Placed
<1>8. /\ Shows(text, m, b)
      /\ After(text, Len(text)).depth = 0 /\ ~After(text, Len(text)).string
  BY <1>6, <1>7, LastRead
<1>9. Shows(text, k, Lean!Join(a, b))
  BY <1>1, <1>5, <1>8, JoinShows DEF m
<1>. QED
  BY <1>3, <1>8, <1>9

\* A text that is shown and whole is not misread.
LEMMA NotMisread ==
    ASSUME NEW p, IsPiece(p),
           Placed(p.text, 0, p) =>
              /\ Shows(p.text, 0, p)
              /\ After(p.text, Len(p.text)).depth = 0 /\ ~After(p.text, Len(p.text)).string
    PROVE  ~Lean!IsMisread(p)
<1>1. p.text \in Seq(Chars) /\ Len(p.text) \in Nat
  BY DEF IsPiece
<1>2. Placed(p.text, 0, p)
  BY <1>1, Starts, WholeSpells DEF Placed
<1>. QED
  BY <1>2, Settled

\* A text of two pieces is read right.
LEMMA TwoAreRead ==
    ASSUME NEW a \in Lean!Closed \cup Lean!Code,
           NEW b \in Lean!Closed \cup Lean!Code \cup Lean!ToEndOfLine, Lean!Apart(a, b)
    PROVE  ~Lean!IsMisread(Lean!Join(a, b))
<1>1. PICK j : j = Lean!Join(a, b)
  OBVIOUS
<1>2. IsPiece(a) /\ IsPiece(b)
  BY ArePieces
<1>3. IsPiece(j)
  BY <1>1, <1>2, JoinIs, Zenon
<1>4. 0 + Len(j.text) = Len(j.text)
  BY <1>3 DEF IsPiece
<1>5. ASSUME Placed(j.text, 0, j)
      PROVE  /\ Shows(j.text, 0, j)
             /\ After(j.text, Len(j.text)).depth = 0 /\ ~After(j.text, Len(j.text)).string
  <2>1. PICK text : text = j.text
    OBVIOUS
  <2>2. Placed(text, 0, j) /\ 0 + Len(j.text) = Len(text) /\ 0 \in Nat
    BY <1>4, <1>5, <2>1
  <2>3. /\ Shows(text, 0, j)
        /\ After(text, Len(text)).depth = 0 /\ ~After(text, Len(text)).string
    BY <1>1, <2>2, TwoRead, Zenon
  <2>. QED
    BY <2>1, <2>3
<1>. QED
  BY <1>1, <1>3, <1>5, NotMisread, Zenon
\* A comment or a string is apart from everything.
LEMMA ClosedIsApart ==
    ASSUME NEW a \in Lean!Closed, NEW b PROVE Lean!Apart(a, b)
<1>1. Uniform(a, FALSE) /\ IsPiece(a)
  BY ClosedPiece
<1>2. 1 \in 1 .. Len(a.text)
  BY <1>1 DEF IsPiece
<1>3. a.code[1] = FALSE
  BY <1>1, <1>2, Zenon DEF Uniform
<1>4. a \notin Lean!Code
  <2>1. SUFFICES ASSUME a \in Lean!Code PROVE FALSE
    OBVIOUS
  <2>2. Uniform(a, TRUE)
    BY <2>1, CodePiece
  <2>3. a.code[1] = TRUE
    BY <1>2, <2>2, Zenon DEF Uniform
  <2>. QED
    BY <1>3, <2>3, Zenon
<1>. QED
  BY <1>4, Zenon DEF Lean!Apart

\* Three lengths, added up.
LEMMA Amounts ==
    ASSUME NEW x \in Nat, NEW y \in Nat, NEW k \in Nat, NEW l, l = x + y, NEW n, k + l = n
    PROVE  k + x \in Nat /\ (k + x) + y = n
OBVIOUS

\* A piece has a length.
LEMMA PieceLength == ASSUME NEW p, IsPiece(p) PROVE Len(p.text) \in Nat
BY Zenon DEF IsPiece

\* A text of code, what is none, and code again is read right.
LEMMA ThreeAreRead ==
    ASSUME NEW a \in Lean!Code, NEW b \in Lean!Closed, NEW c \in Lean!Code, Lean!Apart(a, b)
    PROVE  ~Lean!IsMisread(Lean!Join(a, Lean!Join(b, c)))
<1>1. PICK i : i = Lean!Join(b, c)
  OBVIOUS
<1>2. PICK j : j = Lean!Join(a, i)
  OBVIOUS
<1>3. IsPiece(a) /\ IsPiece(b) /\ IsPiece(c)
  BY ArePieces
<1>4. IsPiece(i)
  BY <1>1, <1>3, JoinIs, Zenon
<1>5. IsPiece(j)
  BY <1>2, <1>3, <1>4, JoinIs, Zenon
<1>6. ASSUME Placed(j.text, 0, j)
      PROVE  /\ Shows(j.text, 0, j)
             /\ After(j.text, Len(j.text)).depth = 0 /\ ~After(j.text, Len(j.text)).string
  <2>1. PICK text : text = j.text
    OBVIOUS
  <2>2. /\ Placed(text, 0, j) /\ 0 + Len(j.text) = Len(text) /\ 0 \in Nat /\ Len(text) \in Nat
        /\ In(text, 0, 0) /\ Spells(text, 0, j.text)
    BY <1>5, <1>6, <2>1 DEF IsPiece, Placed
  <2>3. /\ Len(j.text) = Len(a.text) + Len(i.text)
        /\ Spells(text, 0, a.text) /\ Spells(text, 0 + Len(a.text), i.text)
    BY <1>2, <1>3, <1>4, <2>2, JoinSpells, Zenon
  <2>. DEFINE m == 0 + Len(a.text)
  <2>4. m \in Nat /\ m + Len(i.text) = Len(text)
    <3>1. Len(a.text) \in Nat /\ Len(i.text) \in Nat
      BY <1>3, <1>4, PieceLength
    <3>2. PICK x, y \in Nat : x = Len(a.text) /\ y = Len(i.text)
      BY <3>1
    <3>3. PICK l : l = Len(j.text)
      OBVIOUS
    <3>4. l = x + y /\ 0 + l = Len(text) /\ 0 \in Nat
      BY <2>2, <2>3, <3>2, <3>3, Zenon
    <3>5. 0 + x \in Nat /\ (0 + x) + y = Len(text)
      BY <3>4, Amounts
    <3>. QED
      BY <3>2, <3>5, Zenon
  <2>. HIDE DEF m
  <2>5. Placed(text, 0, a)
    BY <2>2, <2>3 DEF Placed
  <2>6. Spells(text, m, b.text)
    <3>1. Spells(text, m, i.text)
      BY <2>3 DEF m
    <3>. QED
      BY <1>1, <1>3, <2>2, <2>4, <3>1, JoinSpells, Zenon
  <2>7. Safely(text, 0, a)
    BY <1>3, <2>2, <2>6, ApartIsSafe DEF m
  <2>8. In(text, m, 0) /\ Shows(text, 0, a)
    BY <2>5, <2>7, PieceRead DEF m
  <2>9. Placed(text, m, i)
    BY <2>2, <2>3, <2>4, <2>8 DEF Placed, m
  <2>10. /\ Shows(text, m, i)
         /\ After(text, Len(text)).depth = 0 /\ ~After(text, Len(text)).string
    <3>1. Lean!Apart(b, c)
      BY ClosedIsApart
    <3>. QED
      BY <1>1, <2>4, <2>9, <3>1, TwoRead
  <2>11. Shows(text, 0, Lean!Join(a, i))
    BY <1>3, <1>4, <2>2, <2>8, <2>10, JoinShows DEF m
  <2>. QED
    BY <1>2, <2>1, <2>10, <2>11
<1>. QED
  BY <1>1, <1>2, <1>5, <1>6, NotMisread, Zenon

\* The end of a line ends a comment and is shown.
LEMMA LineEndRead ==
    ASSUME NEW text, Len(text) \in Nat, NEW k \in Nat, Trailing(text, k),
           Spells(text, k, Lean!NewLine.text)
    PROVE  /\ In(text, k + 1, 0) /\ Shows(text, k, Lean!NewLine) /\ Len(Lean!NewLine.text) = 1
<1>1. Lean!NewLine = Lean!Piece(<<"n">>, TRUE) /\ <<"n">> \in Seq(Chars) /\ Len(<<"n">>) = 1
      /\ <<"n">>[1] = "n" /\ TRUE \in BOOLEAN
  BY Singles, Letters DEF Lean!NewLine
<1>2. PICK nl : nl = Lean!NewLine
  OBVIOUS
<1>3. nl.text = <<"n">> /\ \A i \in 1..1 : nl.code[i] = TRUE
  <2>1. PICK part : part = <<"n">>
    OBVIOUS
  <2>2. part \in Seq(Chars) /\ Len(part) = 1 /\ nl = Lean!Piece(part, TRUE)
    BY <1>1, <1>2, <2>1, Zenon
  <2>3. Len(part) >= 1 /\ TRUE \in BOOLEAN
    BY <2>2
  <2>4. nl.text = part /\ \A i \in 1 .. Len(part) : nl.code[i] = TRUE
    BY <2>2, <2>3, PieceIs
  <2>. QED
    BY <2>1, <2>2, <2>4, Zenon
<1>4. Len(nl.text) = 1 /\ nl.text[1] = "n"
  BY <1>1, <1>3
<1>5. k + 1 <= Len(text) /\ text[k + 1] = "n"
  BY <1>2, <1>4 DEF Spells
<1>6. In(text, k + 1, 0) /\ After(text, k + 1).kept = "n"
  BY <1>5, LineEnds
<1>7. \A i \in 1..1 : i = 1
  OBVIOUS
<1>8. Shows(text, k, nl)
  BY <1>3, <1>4, <1>6, <1>7, Zenon DEF Shows
<1>. QED
  BY <1>2, <1>4, <1>6, <1>8

\* A text of two lines, the first one a comment, is read right.
LEMMA LineIsRead ==
    ASSUME NEW a \in Lean!ToEndOfLine, NEW b \in Lean!Closed \cup Lean!Code
    PROVE  ~Lean!IsMisread(Lean!Join(a, Lean!Join(Lean!NewLine, b)))
<1>0. PICK nl : nl = Lean!NewLine
  OBVIOUS
<1>1. PICK i : i = Lean!Join(nl, b)
  OBVIOUS
<1>2. PICK j : j = Lean!Join(a, i)
  OBVIOUS
<1>3. IsPiece(a) /\ IsPiece(b) /\ IsPiece(nl)
  BY <1>0, ArePieces, NewLineIsCode
<1>4. IsPiece(i)
  BY <1>1, <1>3, JoinIs, Zenon
<1>5. IsPiece(j)
  BY <1>2, <1>3, <1>4, JoinIs, Zenon
<1>6. ASSUME Placed(j.text, 0, j)
      PROVE  /\ Shows(j.text, 0, j)
             /\ After(j.text, Len(j.text)).depth = 0 /\ ~After(j.text, Len(j.text)).string
  <2>1. PICK text : text = j.text
    OBVIOUS
  <2>2. /\ Placed(text, 0, j) /\ 0 + Len(j.text) = Len(text) /\ 0 \in Nat /\ Len(text) \in Nat
        /\ In(text, 0, 0) /\ Spells(text, 0, j.text)
    BY <1>5, <1>6, <2>1 DEF IsPiece, Placed
  <2>3. /\ Len(j.text) = Len(a.text) + Len(i.text)
        /\ Spells(text, 0, a.text) /\ Spells(text, 0 + Len(a.text), i.text)
    BY <1>2, <1>3, <1>4, <2>2, JoinSpells, Zenon
  <2>. DEFINE m == 0 + Len(a.text)
  <2>4. m \in Nat /\ m + Len(i.text) = Len(text)
    <3>1. Len(a.text) \in Nat /\ Len(i.text) \in Nat
      BY <1>3, <1>4, PieceLength
    <3>2. PICK x, y \in Nat : x = Len(a.text) /\ y = Len(i.text)
      BY <3>1
    <3>3. PICK l : l = Len(j.text)
      OBVIOUS
    <3>4. l = x + y /\ 0 + l = Len(text) /\ 0 \in Nat
      BY <2>2, <2>3, <3>2, <3>3, Zenon
    <3>5. 0 + x \in Nat /\ (0 + x) + y = Len(text)
      BY <3>4, Amounts
    <3>. QED
      BY <3>2, <3>5, Zenon
  <2>5. Placed(text, 0, a)
    BY <2>2, <2>3 DEF Placed
  <2>6. Trailing(text, m) /\ Shows(text, 0, a)
    BY <2>5, TailRead
  <2>7. Spells(text, m, i.text)
    BY <2>3
  <2>. HIDE DEF m
  <2>8. /\ Len(i.text) = Len(nl.text) + Len(b.text)
        /\ Spells(text, m, nl.text) /\ Spells(text, m + Len(nl.text), b.text)
    BY <1>1, <1>3, <2>2, <2>4, <2>7, JoinSpells, Zenon
  <2>9. In(text, m + 1, 0) /\ Shows(text, m, nl) /\ Len(nl.text) = 1
    BY <1>0, <2>2, <2>4, <2>6, <2>8, LineEndRead
  <2>10. (m + Len(nl.text)) + Len(b.text) = Len(text) /\ m + Len(nl.text) \in Nat
    <3>1. Len(nl.text) \in Nat /\ Len(b.text) \in Nat
      BY <1>3, PieceLength
    <3>2. PICK x, y \in Nat : x = Len(nl.text) /\ y = Len(b.text)
      BY <3>1
    <3>3. PICK l : l = Len(i.text)
      OBVIOUS
    <3>4. l = x + y /\ m + l = Len(text)
      BY <2>4, <2>8, <3>2, <3>3, Zenon
    <3>5. m + x \in Nat /\ (m + x) + y = Len(text)
      BY <2>4, <3>4, Amounts
    <3>. QED
      BY <3>2, <3>5, Zenon
  <2>. DEFINE w == m + Len(nl.text)
  <2>11. In(text, w, 0) /\ Spells(text, w, b.text) /\ w \in Nat /\ w + Len(b.text) = Len(text)
    BY <2>8, <2>9, <2>10, Zenon
  <2>. HIDE DEF w
  <2>12. Placed(text, w, b)
    BY <2>2, <2>11 DEF Placed
  <2>13. /\ Shows(text, w, b)
         /\ After(text, Len(text)).depth = 0 /\ ~After(text, Len(text)).string
    BY <2>11, <2>12, LastRead
  <2>14. Shows(text, m, Lean!Join(nl, b))
    BY <1>3, <2>4, <2>9, <2>13, JoinShows DEF w
  <2>15. Shows(text, 0, Lean!Join(a, i))
    BY <1>1, <1>3, <1>4, <2>2, <2>6, <2>14, JoinShows DEF m
  <2>. QED
    BY <1>2, <2>1, <2>13, <2>15
<1>. QED
  BY <1>0, <1>1, <1>2, <1>5, <1>6, NotMisread, Zenon
\* No text is misread: what is kept is its code, in its place.
LEMMA NoneIsMisread == Lean!Misread = {}
<1>1. SUFFICES ASSUME NEW t \in Lean!Texts PROVE ~Lean!IsMisread(t)
  BY Zenon DEF Lean!Misread
<1>. DEFINE A == (Lean!Closed \cup Lean!Code) \X (Lean!Closed \cup Lean!Code \cup Lean!ToEndOfLine)
            B == Lean!ToEndOfLine \X (Lean!Closed \cup Lean!Code)
            C == Lean!Code \X Lean!Closed \X Lean!Code
<1>2. \/ \E p \in A : Lean!Apart(p[1], p[2]) /\ t = Lean!Join(p[1], p[2])
      \/ \E p \in B : t = Lean!Join(p[1], Lean!Join(Lean!NewLine, p[2]))
      \/ \E p \in C : Lean!Apart(p[1], p[2]) /\ t = Lean!Join(p[1], Lean!Join(p[2], p[3]))
  BY Zenon DEF Lean!Texts
<1>3. ASSUME NEW p \in A, Lean!Apart(p[1], p[2]), t = Lean!Join(p[1], p[2])
      PROVE  ~Lean!IsMisread(t)
  <2>1. p[1] \in Lean!Closed \cup Lean!Code
        /\ p[2] \in Lean!Closed \cup Lean!Code \cup Lean!ToEndOfLine
    OBVIOUS
  <2>. QED
    BY <1>3, <2>1, TwoAreRead, Zenon
<1>4. ASSUME NEW p \in B, t = Lean!Join(p[1], Lean!Join(Lean!NewLine, p[2]))
      PROVE  ~Lean!IsMisread(t)
  <2>1. p[1] \in Lean!ToEndOfLine /\ p[2] \in Lean!Closed \cup Lean!Code
    OBVIOUS
  <2>. QED
    BY <1>4, <2>1, LineIsRead, Zenon
<1>5. ASSUME NEW p \in C, Lean!Apart(p[1], p[2]), t = Lean!Join(p[1], Lean!Join(p[2], p[3]))
      PROVE  ~Lean!IsMisread(t)
  <2>1. p[1] \in Lean!Code /\ p[2] \in Lean!Closed /\ p[3] \in Lean!Code
    OBVIOUS
  <2>. QED
    BY <1>5, <2>1, ThreeAreRead, Zenon
<1>. QED
  BY <1>2, <1>3, <1>4, <1>5, Zenon

-----------------------------------------------------------------------------
(***************************************************************************)
(* The names of the theorems, one line at a time.                          *)
(***************************************************************************)

Named(lines, k) == Lean!Naming(lines)[k]
Elaborated(lines, k) == Lean!Elaborating(lines)[k]

\* What the reader does with a file, line by line.
LEMMA NamingUnfolds ==
    ASSUME NEW lines, Len(lines) \in Nat
    PROVE  /\ Named(lines, 0) = [stack |-> <<>>, found |-> <<>>, failed |-> FALSE]
           /\ \A k \in 0 .. Len(lines) - 1 :
                 Named(lines, k + 1) = Lean!NameNext(Named(lines, k), lines[k + 1])
<1>. DEFINE L == Len(lines)
            first == [stack |-> <<>>, found |-> <<>>, failed |-> FALSE]
            Advance(s, k) == Lean!NameNext(s, lines[k])
            Unrolls(f, n) == f = [k \in 0..n |-> IF k = 0 THEN first ELSE Advance(f[k - 1], k)]
            S == {n \in Nat : \E f : Unrolls(f, n)}
<1>1. 0 \in S
  <2>1. Unrolls([k \in {0} |-> first], 0)
    OBVIOUS
  <2>. QED
    BY <2>1
<1>2. ASSUME NEW n \in Nat, n \in S PROVE n + 1 \in S
  <2>1. PICK f : Unrolls(f, n)
    BY <1>2
  <2>. DEFINE g == [k \in 0 .. n + 1 |-> IF k = n + 1 THEN Advance(f[n], n + 1) ELSE f[k]]
  <2>. HIDE DEF Advance, first
  <2>2. \A k \in 0..n : f[k] = IF k = 0 THEN first ELSE Advance(f[k - 1], k)
    BY <2>1
  <2>3. \A k \in 0..n : g[k] = f[k]
    OBVIOUS
  <2>4. g[n + 1] = Advance(f[n], n + 1)
    OBVIOUS
  <2>5. g = [k \in 0 .. n + 1 |-> g[k]]
    OBVIOUS
  <2>. HIDE DEF g
  <2>6. ASSUME NEW k \in 0 .. n + 1 PROVE g[k] = IF k = 0 THEN first ELSE Advance(g[k - 1], k)
    <3>1. CASE k = n + 1
      <4>1. g[k - 1] = f[n]
        BY <2>3, <3>1
      <4>. QED
        BY <2>4, <3>1, <4>1
    <3>2. CASE k # n + 1
      <4>1. k \in 0..n /\ (k # 0 => k - 1 \in 0..n)
        BY <3>2
      <4>. QED
        BY <2>2, <2>3, <4>1
    <3>. QED
      BY <3>1, <3>2
  <2>7. Unrolls(g, n + 1)
    BY <2>5, <2>6
  <2>. QED
    BY <2>7
<1>3. L \in S
  <2>. HIDE DEF S
  <2>. QED
    BY <1>1, <1>2, Induct
<1>4. PICK f : Unrolls(f, L)
  BY <1>3
<1>. HIDE DEF Advance, first
<1>5. Lean!Naming(lines) = CHOOSE h : Unrolls(h, L)
  BY DEF Lean!Naming, Advance, first
<1>6. Unrolls(Lean!Naming(lines), L)
  <2>. HIDE DEF Unrolls
  <2>. QED
    BY <1>4, <1>5
<1>7. \A k \in 0..L : Named(lines, k) = IF k = 0 THEN first ELSE Advance(Named(lines, k - 1), k)
  BY <1>6 DEF Named
<1>8. Named(lines, 0) = first
  BY <1>7
<1>9. ASSUME NEW k \in 0 .. L - 1
      PROVE  Named(lines, k + 1) = Lean!NameNext(Named(lines, k), lines[k + 1])
  <2>1. k + 1 \in 0..L /\ k + 1 # 0 /\ (k + 1) - 1 = k
    OBVIOUS
  <2>2. Named(lines, k + 1) = Advance(Named(lines, k), k + 1)
    BY <1>7, <2>1
  <2>. QED
    BY <2>2 DEF Advance
<1>. QED
  BY <1>8, <1>9 DEF first

\* What Lean does with it.
LEMMA ElaboratingUnfolds ==
    ASSUME NEW lines, Len(lines) \in Nat
    PROVE  /\ Elaborated(lines, 0) = [open |-> <<>>, names |-> <<>>, failed |-> FALSE]
           /\ \A k \in 0 .. Len(lines) - 1 :
                 Elaborated(lines, k + 1) = Lean!LeanNext(Elaborated(lines, k), lines[k + 1])
<1>. DEFINE L == Len(lines)
            first == [open |-> <<>>, names |-> <<>>, failed |-> FALSE]
            Advance(s, k) == Lean!LeanNext(s, lines[k])
            Unrolls(f, n) == f = [k \in 0..n |-> IF k = 0 THEN first ELSE Advance(f[k - 1], k)]
            S == {n \in Nat : \E f : Unrolls(f, n)}
<1>1. 0 \in S
  <2>1. Unrolls([k \in {0} |-> first], 0)
    OBVIOUS
  <2>. QED
    BY <2>1
<1>2. ASSUME NEW n \in Nat, n \in S PROVE n + 1 \in S
  <2>1. PICK f : Unrolls(f, n)
    BY <1>2
  <2>. DEFINE g == [k \in 0 .. n + 1 |-> IF k = n + 1 THEN Advance(f[n], n + 1) ELSE f[k]]
  <2>. HIDE DEF Advance, first
  <2>2. \A k \in 0..n : f[k] = IF k = 0 THEN first ELSE Advance(f[k - 1], k)
    BY <2>1
  <2>3. \A k \in 0..n : g[k] = f[k]
    OBVIOUS
  <2>4. g[n + 1] = Advance(f[n], n + 1)
    OBVIOUS
  <2>5. g = [k \in 0 .. n + 1 |-> g[k]]
    OBVIOUS
  <2>. HIDE DEF g
  <2>6. ASSUME NEW k \in 0 .. n + 1 PROVE g[k] = IF k = 0 THEN first ELSE Advance(g[k - 1], k)
    <3>1. CASE k = n + 1
      <4>1. g[k - 1] = f[n]
        BY <2>3, <3>1
      <4>. QED
        BY <2>4, <3>1, <4>1
    <3>2. CASE k # n + 1
      <4>1. k \in 0..n /\ (k # 0 => k - 1 \in 0..n)
        BY <3>2
      <4>. QED
        BY <2>2, <2>3, <4>1
    <3>. QED
      BY <3>1, <3>2
  <2>7. Unrolls(g, n + 1)
    BY <2>5, <2>6
  <2>. QED
    BY <2>7
<1>3. L \in S
  <2>. HIDE DEF S
  <2>. QED
    BY <1>1, <1>2, Induct
<1>4. PICK f : Unrolls(f, L)
  BY <1>3
<1>. HIDE DEF Advance, first
<1>5. Lean!Elaborating(lines) = CHOOSE h : Unrolls(h, L)
  BY DEF Lean!Elaborating, Advance, first
<1>6. Unrolls(Lean!Elaborating(lines), L)
  <2>. HIDE DEF Unrolls
  <2>. QED
    BY <1>4, <1>5
<1>7. \A k \in 0..L : Elaborated(lines, k) = IF k = 0 THEN first ELSE Advance(Elaborated(lines, k - 1), k)
  BY <1>6 DEF Elaborated
<1>8. Elaborated(lines, 0) = first
  BY <1>7
<1>9. ASSUME NEW k \in 0 .. L - 1
      PROVE  Elaborated(lines, k + 1) = Lean!LeanNext(Elaborated(lines, k), lines[k + 1])
  <2>1. k + 1 \in 0..L /\ k + 1 # 0 /\ (k + 1) - 1 = k
    OBVIOUS
  <2>2. Elaborated(lines, k + 1) = Advance(Elaborated(lines, k), k + 1)
    BY <1>7, <2>1
  <2>. QED
    BY <2>2 DEF Advance
<1>. QED
  BY <1>8, <1>9 DEF first
-----------------------------------------------------------------------------
\* Names, which are not empty: any string, those of the sources spelled out for the
\* provers. And scopes each of which is in the namespace its header adds to the
\* one around it.
OfSources == {"QSOLFed", "A", "t", "u", "s", "a"}
Name == (STRING \cup OfSources) \ {Lean!Unnamed}
Scope == [header : Name \cup {Lean!Unnamed}, space : Seq(Name)]

SpaceAt(open, i) == IF i = 0 THEN <<>> ELSE open[i].space
Adds(around, header) == IF header = Lean!Unnamed THEN around ELSE Append(around, header)
Nested(open) ==
    /\ open \in Seq(Scope)
    /\ \A i \in 1 .. Len(open) : SpaceAt(open, i) = Adds(SpaceAt(open, i - 1), open[i].header)

\* None of them is a section.
AllNamed(open) == \A i \in 1 .. Len(open) : open[i].header # Lean!Unnamed

\* A section is told from a namespace.
LEMMA UnnamedIsNoName == Lean!Unnamed \notin Name
BY Zenon DEF Name

\* A name at the end of two paths.
LEMMA Appending ==
    ASSUME NEW a \in Seq(Name), NEW b \in Seq(Name), NEW x \in Name
    PROVE  a \o Append(b, x) = Append(a \o b, x)
OBVIOUS

\* The start of a path with one more name.
LEMMA OneMore ==
    ASSUME NEW a \in Seq(Name), NEW j \in 0 .. Len(a) - 1
    PROVE  /\ SubSeq(a, 1, j) \in Seq(Name) /\ a[j + 1] \in Name
           /\ SubSeq(a, 1, j + 1) = Append(SubSeq(a, 1, j), a[j + 1])
OBVIOUS

\* The empty path, and a path as its own start.
LEMMA Whole ==
    ASSUME NEW a \in Seq(Name)
    PROVE  /\ SubSeq(a, 1, 0) = <<>> /\ a \o <<>> = a /\ SubSeq(a, 1, Len(a)) = a /\ <<>> \in Seq(Name)
           /\ Len(a) \in Nat
OBVIOUS

\* The namespace of the innermost scope.
LEMMA SpaceIs ==
    ASSUME NEW open, Nested(open)
    PROVE  /\ Len(open) \in Nat /\ Lean!Space(open) = SpaceAt(open, Len(open))
           /\ \A i \in 0 .. Len(open) : SpaceAt(open, i) \in Seq(Name)
<1>1. open \in Seq(Scope)
  BY DEF Nested
<1>2. Len(open) \in Nat /\ (open = <<>> <=> Len(open) = 0)
  BY <1>1
<1>3. Lean!Space(open) = SpaceAt(open, Len(open))
  BY <1>2 DEF Lean!Space, SpaceAt
<1>4. ASSUME NEW i \in 0 .. Len(open) PROVE SpaceAt(open, i) \in Seq(Name)
  <2>1. CASE i = 0
    BY <2>1 DEF SpaceAt
  <2>2. CASE i # 0
    <3>1. i \in 1 .. Len(open)
      BY <2>2
    <3>2. open[i] \in Scope
      BY <1>1, <3>1
    <3>3. open[i].space \in Seq(Name)
      BY <3>2 DEF Scope
    <3>. QED
      BY <2>2, <3>3 DEF SpaceAt
  <2>. QED
    BY <2>1, <2>2
<1>. QED
  BY <1>2, <1>3, <1>4

\* A namespace opens a scope for each of its names.
LEMMA OpensNamespace ==
    ASSUME NEW open, Nested(open), NEW names \in Seq(Name)
    PROVE  /\ Nested(Lean!Opened(open, names))
           /\ Lean!Space(Lean!Opened(open, names)) = Lean!Space(open) \o names
           /\ AllNamed(open) => AllNamed(Lean!Opened(open, names))
<1>. DEFINE L == Len(open)
            m == Len(names)
            sp == Lean!Space(open)
            more == [i \in 1..m |-> [header |-> names[i], space |-> sp \o SubSeq(names, 1, i)]]
            wide == open \o more
<1>1. L \in Nat /\ m \in Nat /\ sp = SpaceAt(open, L) /\ sp \in Seq(Name) /\ open \in Seq(Scope)
  BY SpaceIs DEF Nested
<1>2. Lean!Opened(open, names) = wide
  BY DEF Lean!Opened
<1>. HIDE DEF sp, L
<1>3. \A i \in 1..m : names[i] \in Name /\ SubSeq(names, 1, i) \in Seq(Name)
  OBVIOUS
<1>4. \A i \in 1..m : sp \o SubSeq(names, 1, i) \in Seq(Name)
  BY <1>1, <1>3
<1>5. \A i \in 1..m : more[i] \in Scope
  BY <1>3, <1>4 DEF Scope
<1>6. more \in Seq(Scope) /\ Len(more) = m
  <2>1. more \in [1..m -> Scope]
    BY <1>5
  <2>. HIDE DEF more
  <2>. QED
    BY <1>1, <2>1
<1>7. \A i \in 1..m : more[i].header = names[i] /\ more[i].space = sp \o SubSeq(names, 1, i)
  OBVIOUS
<1>. HIDE DEF more, m
<1>8. /\ wide \in Seq(Scope) /\ Len(wide) = L + m
      /\ \A i \in 1..L : wide[i] = open[i]
      /\ \A i \in 1..m : wide[L + i] = more[i]
  <2>1. /\ open \o more \in Seq(Scope) /\ Len(open \o more) = Len(open) + Len(more)
        /\ \A i \in 1 .. Len(open) : (open \o more)[i] = open[i]
        /\ \A i \in 1 .. Len(more) : (open \o more)[Len(open) + i] = more[i]
    <3>1. PICK x, y \in Seq(Scope) : x = open /\ y = more
      BY <1>1, <1>6
    <3>2. /\ x \o y \in Seq(Scope) /\ Len(x \o y) = Len(x) + Len(y)
          /\ \A i \in 1 .. Len(x) : (x \o y)[i] = x[i]
          /\ \A i \in 1 .. Len(y) : (x \o y)[Len(x) + i] = y[i]
      OBVIOUS
    <3>. QED
      BY <3>1, <3>2, Zenon
  <2>. QED
    BY <1>6, <2>1 DEF L
<1>. HIDE DEF wide
<1>9. \A i \in 0..L : SpaceAt(wide, i) = SpaceAt(open, i)
  BY <1>8 DEF SpaceAt
<1>10. ASSUME NEW i \in 0..m PROVE SpaceAt(wide, L + i) = sp \o SubSeq(names, 1, i)
  <2>1. CASE i = 0
    <3>1. L + i = L /\ L \in 0..L /\ SubSeq(names, 1, i) = <<>> /\ sp \o <<>> = sp
      BY <1>1, <2>1, Whole
    <3>. QED
      BY <1>1, <1>9, <3>1
  <2>2. CASE i # 0
    <3>1. i \in 1..m /\ L + i # 0
      BY <1>1, <2>2
    <3>2. wide[L + i].space = sp \o SubSeq(names, 1, i)
      BY <1>7, <1>8, <3>1
    <3>. QED
      BY <3>1, <3>2, Zenon DEF SpaceAt
  <2>. QED
    BY <2>1, <2>2
<1>11. ASSUME NEW i \in 1 .. Len(wide)
       PROVE  SpaceAt(wide, i) = Adds(SpaceAt(wide, i - 1), wide[i].header)
  <2>1. CASE i <= L
    <3>1. i \in 1..L /\ i \in 0..L /\ i - 1 \in 0..L
      BY <1>1, <2>1
    <3>2. SpaceAt(open, i) = Adds(SpaceAt(open, i - 1), open[i].header)
      BY <3>1, Zenon DEF Nested, L
    <3>. QED
      BY <1>8, <1>9, <3>1, <3>2, Zenon
  <2>2. CASE ~(i <= L)
    <3>. DEFINE j == i - L - 1
    <3>1. j \in 0 .. m - 1 /\ L + j = i - 1 /\ L + (j + 1) = i /\ j \in 0..m /\ j + 1 \in 0..m
          /\ j + 1 \in 1..m
      BY <1>1, <1>8, <2>2
    <3>. HIDE DEF j
    <3>2. SpaceAt(wide, i - 1) = sp \o SubSeq(names, 1, j) /\ wide[i].header = names[j + 1]
          /\ SpaceAt(wide, i) = sp \o SubSeq(names, 1, j + 1)
      BY <1>7, <1>8, <1>10, <3>1
    <3>3. /\ SubSeq(names, 1, j) \in Seq(Name) /\ names[j + 1] \in Name
          /\ SubSeq(names, 1, j + 1) = Append(SubSeq(names, 1, j), names[j + 1])
      BY <3>1, OneMore DEF m
    <3>4. sp \o SubSeq(names, 1, j + 1) = Append(sp \o SubSeq(names, 1, j), names[j + 1])
      <4>1. sp \o Append(SubSeq(names, 1, j), names[j + 1])
            = Append(sp \o SubSeq(names, 1, j), names[j + 1])
        BY <1>1, <3>3, Appending, Zenon
      <4>. QED
        BY <3>3, <4>1, Zenon
    <3>5. names[j + 1] # Lean!Unnamed
      BY <3>3, UnnamedIsNoName
    <3>. QED
      BY <3>2, <3>4, <3>5, Zenon DEF Adds
  <2>. QED
    BY <2>1, <2>2
<1>12. Nested(wide)
  BY <1>8, <1>11 DEF Nested
<1>13. Lean!Space(wide) = sp \o names
  <2>1. Lean!Space(wide) = SpaceAt(wide, L + m) /\ m \in 0..m
    BY <1>1, <1>8, <1>12, SpaceIs
  <2>2. SubSeq(names, 1, m) = names
    BY Whole DEF m
  <2>. QED
    BY <1>10, <2>1, <2>2
<1>14. ASSUME AllNamed(open), NEW i \in 1 .. Len(wide) PROVE wide[i].header # Lean!Unnamed
  <2>1. CASE i <= L
    <3>1. i \in 1..L
      BY <1>1, <2>1
    <3>. QED
      BY <1>8, <1>14, <3>1, Zenon DEF AllNamed, L
  <2>2. CASE ~(i <= L)
    <3>. DEFINE j == i - L
    <3>1. j \in 1..m /\ L + j = i
      BY <1>1, <1>8, <2>2
    <3>. HIDE DEF j
    <3>2. wide[i].header = names[j] /\ names[j] \in Name
      BY <1>3, <1>7, <1>8, <3>1, Zenon
    <3>. QED
      BY <3>2, UnnamedIsNoName
  <2>. QED
    BY <2>1, <2>2
<1>. QED
  BY <1>2, <1>12, <1>13, <1>14 DEF sp, AllNamed
\* A section opens one without a name.
LEMMA OpensSection ==
    ASSUME NEW open, Nested(open),
           NEW wide, wide = Append(open, [header |-> Lean!Unnamed, space |-> Lean!Space(open)])
    PROVE  Nested(wide) /\ Lean!Space(wide) = Lean!Space(open)
<1>. DEFINE L == Len(open)
            sp == Lean!Space(open)
<1>1. L \in Nat /\ sp = SpaceAt(open, L) /\ sp \in Seq(Name) /\ open \in Seq(Scope)
  BY SpaceIs DEF Nested
<1>. HIDE DEF sp
<1>2. PICK s : s = [header |-> Lean!Unnamed, space |-> sp]
  OBVIOUS
<1>3. s \in Scope /\ s.header = Lean!Unnamed /\ s.space = sp
  BY <1>1, <1>2 DEF Scope
<1>4. wide = Append(open, s)
  BY <1>2 DEF sp
<1>5. /\ wide \in Seq(Scope) /\ Len(wide) = L + 1 /\ wide[L + 1] = s
      /\ \A i \in 1..L : wide[i] = open[i]
  BY <1>1, <1>3, <1>4
<1>. HIDE DEF L
<1>6. \A i \in 0..L : SpaceAt(wide, i) = SpaceAt(open, i)
  <2>1. \A i \in 0..L : i = 0 \/ i \in 1..L
    BY <1>1
  <2>. QED
    BY <1>5, <2>1, Zenon DEF SpaceAt
<1>7. SpaceAt(wide, L + 1) = sp
  <2>1. L + 1 # 0
    BY <1>1
  <2>. QED
    BY <1>3, <1>5, <2>1, Zenon DEF SpaceAt
<1>8. ASSUME NEW i \in 1 .. Len(wide)
      PROVE  SpaceAt(wide, i) = Adds(SpaceAt(wide, i - 1), wide[i].header)
  <2>1. CASE i <= L
    <3>1. i \in 1..L /\ i \in 0..L /\ i - 1 \in 0..L
      BY <1>1, <2>1
    <3>2. SpaceAt(open, i) = Adds(SpaceAt(open, i - 1), open[i].header)
      BY <3>1, Zenon DEF Nested, L
    <3>. QED
      BY <1>5, <1>6, <3>1, <3>2, Zenon
  <2>2. CASE ~(i <= L)
    <3>1. i = L + 1 /\ i - 1 = L /\ L \in 0..L
      BY <1>1, <1>5, <2>2
    <3>2. SpaceAt(wide, i - 1) = sp /\ wide[i].header = Lean!Unnamed /\ SpaceAt(wide, i) = sp
      BY <1>1, <1>3, <1>5, <1>6, <1>7, <3>1, Zenon
    <3>. QED
      BY <3>2, Zenon DEF Adds
  <2>. QED
    BY <2>1, <2>2
<1>9. Nested(wide)
  BY <1>5, <1>8 DEF Nested
<1>. QED
  BY <1>5, <1>7, <1>9, SpaceIs DEF sp

\* What is left when the last m scopes end.
LEMMA Cuts ==
    ASSUME NEW open, Nested(open), NEW m \in 0 .. Len(open),
           NEW left, left = SubSeq(open, 1, Len(open) - m)
    PROVE  /\ Nested(left) /\ Len(left) = Len(open) - m
           /\ Lean!Space(left) = SpaceAt(open, Len(open) - m)
           /\ \A i \in 1 .. Len(left) : left[i] = open[i]
<1>. DEFINE L == Len(open)
            n == L - m
<1>1. L \in Nat /\ n \in Nat /\ n <= L /\ open \in Seq(Scope)
  BY SpaceIs DEF Nested
<1>2. left \in Seq(Scope) /\ Len(left) = n /\ \A i \in 1..n : left[i] = open[i]
  BY <1>1
<1>. HIDE DEF L, n
<1>3. \A i \in 0..n : SpaceAt(left, i) = SpaceAt(open, i)
  BY <1>2 DEF SpaceAt
<1>4. ASSUME NEW i \in 1 .. Len(left)
      PROVE  SpaceAt(left, i) = Adds(SpaceAt(left, i - 1), left[i].header)
  <2>1. i \in 1..L /\ i \in 1..n /\ i \in 0..n /\ i - 1 \in 0..n
    BY <1>1, <1>2
  <2>2. SpaceAt(open, i) = Adds(SpaceAt(open, i - 1), open[i].header)
    BY <2>1, Zenon DEF Nested, L
  <2>. QED
    BY <1>2, <1>3, <2>1, <2>2, Zenon
<1>5. Nested(left)
  BY <1>2, <1>4 DEF Nested
<1>6. Lean!Space(left) = SpaceAt(left, n)
  BY <1>2, <1>5, SpaceIs
<1>7. SpaceAt(left, n) = SpaceAt(open, n)
  BY <1>1, <1>3
<1>. QED
  BY <1>2, <1>5, <1>6, <1>7 DEF n, L

\* Scopes whose headers are the names of a label added just these names.
LEMMA LabelIsSpace ==
    ASSUME NEW open, Nested(open), NEW label \in Seq(Name), Lean!Ends(open, label)
    PROVE  /\ Len(label) <= Len(open)
           /\ Lean!Space(open) = SpaceAt(open, Len(open) - Len(label)) \o label
<1>. DEFINE L == Len(open)
            m == Len(label)
            base == SpaceAt(open, L - m)
            S == {j \in Nat : j <= m => SpaceAt(open, (L - m) + j) = base \o SubSeq(label, 1, j)}
<1>1. L \in Nat /\ m \in Nat /\ m <= L
  BY SpaceIs DEF Lean!Ends
<1>2. base \in Seq(Name)
  <2>1. L - m \in 0..L
    BY <1>1
  <2>. QED
    BY <2>1, SpaceIs
<1>3. \A i \in 1..m : open[(L - m) + i].header = label[i]
  BY DEF Lean!Ends
<1>. HIDE DEF L, m, base
<1>4. 0 \in S
  <2>1. SubSeq(label, 1, 0) = <<>> /\ base \o <<>> = base /\ (L - m) + 0 = L - m
    BY <1>1, <1>2, Whole
  <2>. QED
    BY <2>1 DEF base
<1>5. ASSUME NEW j \in Nat, j \in S PROVE j + 1 \in S
  <2>1. SUFFICES ASSUME j + 1 <= m
                 PROVE  SpaceAt(open, (L - m) + (j + 1)) = base \o SubSeq(label, 1, j + 1)
    OBVIOUS
  <2>2. SpaceAt(open, (L - m) + j) = base \o SubSeq(label, 1, j)
    BY <1>1, <1>5, <2>1
  <2>. DEFINE i == (L - m) + (j + 1)
  <2>3. i \in 1..L /\ i - 1 = (L - m) + j /\ j + 1 \in 1..m /\ j \in 0 .. m - 1
    BY <1>1, <2>1
  <2>4. open[i].header = label[j + 1]
    BY <1>3, <2>3
  <2>. HIDE DEF i
  <2>5. SpaceAt(open, i) = Adds(SpaceAt(open, i - 1), open[i].header)
    BY <2>3, Zenon DEF Nested, L
  <2>6. /\ SubSeq(label, 1, j) \in Seq(Name) /\ label[j + 1] \in Name
        /\ SubSeq(label, 1, j + 1) = Append(SubSeq(label, 1, j), label[j + 1])
    BY <2>3, OneMore DEF m
  <2>7. label[j + 1] # Lean!Unnamed
    BY <2>6, UnnamedIsNoName
  <2>8. SpaceAt(open, i) = Append(base \o SubSeq(label, 1, j), label[j + 1])
    BY <2>2, <2>3, <2>4, <2>5, <2>7, Zenon DEF Adds
  <2>9. base \o Append(SubSeq(label, 1, j), label[j + 1])
        = Append(base \o SubSeq(label, 1, j), label[j + 1])
    BY <1>2, <2>6, Appending, Zenon
  <2>. QED
    BY <2>6, <2>8, <2>9, Zenon DEF i
<1>6. m \in S
  <2>. HIDE DEF S
  <2>. QED
    BY <1>1, <1>4, <1>5, Induct
<1>7. SpaceAt(open, (L - m) + m) = base \o SubSeq(label, 1, m)
  BY <1>1, <1>6
<1>8. (L - m) + m = L
  BY <1>1
<1>9. SubSeq(label, 1, m) = label
  BY Whole DEF m
<1>10. Lean!Space(open) = SpaceAt(open, L)
  BY SpaceIs DEF L
<1>. QED
  BY <1>1, <1>7, <1>8, <1>9, <1>10 DEF L, m, base
-----------------------------------------------------------------------------
\* A line, for the reader and for Lean.
LEMMA KindsDiffer ==
    /\ ~("section" = "namespace") /\ ~("end" = "namespace") /\ ~("end" = "section")
    /\ ~("theorem" = "namespace") /\ ~("theorem" = "end") /\ ~("theorem" = "section")
    /\ ~("hidden" = "namespace") /\ ~("hidden" = "end") /\ ~("hidden" = "section")
    /\ ~("hidden" = "theorem")
    /\ ~("other" = "namespace") /\ ~("other" = "end") /\ ~("other" = "section")
    /\ ~("other" = "theorem") /\ ~("other" = "hidden")
BY Zenon

\* A line that is read as it is written: a theorem that begins it, with a name that
\* has no dots.
Plain(l) == ~(l.kind = "hidden") /\ (l.kind = "theorem" => Lean!NameRead(l) = l.names)

\* The reader at a namespace,
LEMMA ReaderOpens ==
    ASSUME NEW s, s.failed = FALSE, NEW l, l.kind = "namespace"
    PROVE  Lean!NameNext(s, l) = [stack |-> s.stack \o l.names, found |-> s.found, failed |-> FALSE]
BY Zenon DEF Lean!NameNext

\* at an end,
LEMMA ReaderEnds ==
    ASSUME NEW s, s.failed = FALSE, NEW l, l.kind = "end"
    PROVE  Lean!NameNext(s, l) =
              [stack |-> IF Lean!Closes(s.stack, l.names)
                           THEN SubSeq(s.stack, 1, Len(s.stack) - (IF l.names = <<>> THEN 1 ELSE Len(l.names)))
                           ELSE s.stack,
               found |-> s.found, failed |-> ~Lean!Closes(s.stack, l.names)]
BY KindsDiffer, Zenon DEF Lean!NameNext

\* at a theorem,
LEMMA ReaderFindsPart ==
    ASSUME NEW s, s.failed = FALSE, NEW l, l.kind = "theorem"
    PROVE  Lean!NameNext(s, l) =
              [stack |-> s.stack, found |-> Append(s.found, s.stack \o Lean!NameRead(l)), failed |-> FALSE]
BY KindsDiffer, Zenon DEF Lean!NameNext

\* of which it finds the name where this has one part,
LEMMA ReaderFinds ==
    ASSUME NEW s, s.failed = FALSE, NEW l, l.kind = "theorem", Plain(l)
    PROVE  Lean!NameNext(s, l) =
              [stack |-> s.stack, found |-> Append(s.found, s.stack \o l.names), failed |-> FALSE]
BY ReaderFindsPart, Zenon DEF Plain

\* and at anything else.
LEMMA ReaderPasses ==
    ASSUME NEW s, s.failed = FALSE, NEW l, l.kind \notin {"namespace", "end", "theorem"}
    PROVE  Lean!NameNext(s, l) = s
BY Zenon DEF Lean!NameNext

\* Lean at a namespace,
LEMMA LeanOpens ==
    ASSUME NEW z, z.failed = FALSE, NEW l, l.kind = "namespace"
    PROVE  Lean!LeanNext(z, l) =
              [open |-> Lean!Opened(z.open, l.names), names |-> z.names, failed |-> FALSE]
BY Zenon DEF Lean!LeanNext

\* at a section,
LEMMA LeanSections ==
    ASSUME NEW z, z.failed = FALSE, NEW l, l.kind = "section"
    PROVE  Lean!LeanNext(z, l) =
              [open |-> Append(z.open, [header |-> Lean!Unnamed, space |-> Lean!Space(z.open)]),
               names |-> z.names, failed |-> FALSE]
BY KindsDiffer, Zenon DEF Lean!LeanNext

\* at an end,
LEMMA LeanEnds ==
    ASSUME NEW z, z.failed = FALSE, NEW l, l.kind = "end"
    PROVE  Lean!LeanNext(z, l) =
              [open |-> IF Lean!Ends(z.open, Lean!Headers(l.names))
                          THEN SubSeq(z.open, 1, Len(z.open) - Len(Lean!Headers(l.names))) ELSE z.open,
               names |-> z.names, failed |-> ~Lean!Ends(z.open, Lean!Headers(l.names))]
BY KindsDiffer, Zenon DEF Lean!LeanNext

\* at a theorem in whatever form,
LEMMA LeanFindsAny ==
    ASSUME NEW z, z.failed = FALSE, NEW l, l.kind = "theorem" \/ l.kind = "hidden"
    PROVE  Lean!LeanNext(z, l) =
              [open |-> z.open, names |-> Append(z.names, Lean!Space(z.open) \o l.names), failed |-> FALSE]
BY KindsDiffer, Zenon DEF Lean!LeanNext

\* as at one of the first form,
LEMMA LeanFinds ==
    ASSUME NEW z, z.failed = FALSE, NEW l, l.kind = "theorem"
    PROVE  Lean!LeanNext(z, l) =
              [open |-> z.open, names |-> Append(z.names, Lean!Space(z.open) \o l.names), failed |-> FALSE]
BY LeanFindsAny, Zenon

\* and at anything else.
LEMMA LeanPasses ==
    ASSUME NEW z, z.failed = FALSE, NEW l, l.kind \notin {"namespace", "section", "end", "theorem", "hidden"}
    PROVE  Lean!LeanNext(z, l) = z
BY Zenon DEF Lean!LeanNext

-----------------------------------------------------------------------------
\* As long as neither refuses the lines, the reader has at most the names of the
\* namespace Lean is in; where it has as many, it has these, and has found what
\* Lean declares.
Agree(s, z) ==
    /\ Nested(z.open) /\ s.stack \in Seq(Name)
    /\ Len(s.stack) <= Len(Lean!Space(z.open))
    /\ Len(s.stack) = Len(Lean!Space(z.open)) => s.stack = Lean!Space(z.open) /\ s.found = z.names

\* One line, both before and after it.
Line(s, z, l, s1, z1) ==
    /\ s.failed = FALSE /\ z.failed = FALSE /\ l.names \in Seq(Name) /\ Plain(l)
    /\ s1 = Lean!NameNext(s, l) /\ z1 = Lean!LeanNext(z, l)

\* They agree after a namespace,
LEMMA AgreeOpens ==
    ASSUME NEW s, NEW z, NEW l, NEW s1, NEW z1, Line(s, z, l, s1, z1), l.kind = "namespace", Agree(s, z)
    PROVE  Agree(s1, z1)
<1>1. /\ s1 = [stack |-> s.stack \o l.names, found |-> s.found, failed |-> FALSE]
      /\ z1 = [open |-> Lean!Opened(z.open, l.names), names |-> z.names, failed |-> FALSE]
  BY ReaderOpens, LeanOpens, Zenon DEF Line
<1>2. /\ s1.stack = s.stack \o l.names /\ s1.found = s.found
      /\ z1.open = Lean!Opened(z.open, l.names) /\ z1.names = z.names
  BY <1>1
<1>3. Nested(z.open) /\ l.names \in Seq(Name)
  BY Zenon DEF Agree, Line
<1>4. Nested(z1.open) /\ Lean!Space(z1.open) = Lean!Space(z.open) \o l.names
  BY <1>2, <1>3, OpensNamespace, Zenon
<1>5. Lean!Space(z.open) \in Seq(Name)
  BY <1>3, SpaceIs
<1>6. PICK a, b, c \in Seq(Name) : a = s.stack /\ b = Lean!Space(z.open) /\ c = l.names
  BY <1>3, <1>5 DEF Agree
<1>7. /\ a \o c \in Seq(Name) /\ Len(a \o c) = Len(a) + Len(c) /\ Len(b \o c) = Len(b) + Len(c)
      /\ Len(a) \in Nat /\ Len(b) \in Nat /\ Len(c) \in Nat
  OBVIOUS
<1>8. Len(a) <= Len(b) /\ (Len(a) = Len(b) => a = b /\ s.found = z.names)
  BY <1>6, Zenon DEF Agree
<1>9. /\ Len(a \o c) <= Len(b \o c)
      /\ Len(a \o c) = Len(b \o c) => a \o c = b \o c /\ s.found = z.names
  <2>1. Len(a \o c) <= Len(b \o c) /\ (Len(a \o c) = Len(b \o c) => Len(a) = Len(b))
    BY <1>7, <1>8
  <2>. QED
    BY <1>8, <2>1, Zenon
<1>. QED
  BY <1>2, <1>4, <1>6, <1>7, <1>9, Zenon DEF Agree

\* after a section, which the reader does not see,
LEMMA AgreeSections ==
    ASSUME NEW s, NEW z, NEW l, NEW s1, NEW z1, Line(s, z, l, s1, z1), l.kind = "section", Agree(s, z)
    PROVE  Agree(s1, z1)
<1>1. l.kind \notin {"namespace", "end", "theorem"}
  BY KindsDiffer
<1>2. /\ s1 = s
      /\ z1 = [open |-> Append(z.open, [header |-> Lean!Unnamed, space |-> Lean!Space(z.open)]),
               names |-> z.names, failed |-> FALSE]
  BY <1>1, ReaderPasses, LeanSections, Zenon DEF Line
<1>3. /\ z1.open = Append(z.open, [header |-> Lean!Unnamed, space |-> Lean!Space(z.open)])
      /\ z1.names = z.names
  BY <1>2
<1>4. Nested(z1.open) /\ Lean!Space(z1.open) = Lean!Space(z.open)
  BY <1>3, OpensSection, Zenon DEF Agree
<1>. QED
  BY <1>2, <1>3, <1>4, Zenon DEF Agree

\* and after a theorem.
LEMMA AgreeFinds ==
    ASSUME NEW s, NEW z, NEW l, NEW s1, NEW z1, Line(s, z, l, s1, z1), l.kind = "theorem", Agree(s, z)
    PROVE  Agree(s1, z1)
<1>1. /\ s1 = [stack |-> s.stack, found |-> Append(s.found, s.stack \o l.names), failed |-> FALSE]
      /\ z1 = [open |-> z.open, names |-> Append(z.names, Lean!Space(z.open) \o l.names), failed |-> FALSE]
  BY ReaderFinds, LeanFinds, Zenon DEF Line
<1>2. /\ s1.stack = s.stack /\ s1.found = Append(s.found, s.stack \o l.names)
      /\ z1.open = z.open /\ z1.names = Append(z.names, Lean!Space(z.open) \o l.names)
  BY <1>1
<1>. QED
  BY <1>2, Zenon DEF Agree

\* An end that names what it ends.
EndsLabel(s, z, l, s1, z1) ==
    /\ Line(s, z, l, s1, z1) /\ l.kind = "end" /\ l.names # <<>>
    /\ z1.failed = FALSE

\* Lean closes the scopes that added the names.
LEMMA LeanEndsLabel ==
    ASSUME NEW s, NEW z, NEW l, NEW s1, NEW z1, EndsLabel(s, z, l, s1, z1), Nested(z.open)
    PROVE  \E base \in Seq(Name) :
              /\ Lean!Space(z.open) = base \o l.names
              /\ Nested(z1.open) /\ Lean!Space(z1.open) = base /\ z1.names = z.names
              /\ AllNamed(z.open) => AllNamed(z1.open)
<1>1. /\ l.names \in Seq(Name) /\ l.kind = "end" /\ z.failed = FALSE /\ l.names # <<>>
      /\ z1 = Lean!LeanNext(z, l) /\ z1.failed = FALSE
  BY Zenon DEF EndsLabel, Line
<1>2. Lean!Headers(l.names) = l.names
  BY <1>1, Zenon DEF Lean!Headers
<1>3. z1 = [open |-> IF Lean!Ends(z.open, l.names)
                       THEN SubSeq(z.open, 1, Len(z.open) - Len(l.names)) ELSE z.open,
            names |-> z.names, failed |-> ~Lean!Ends(z.open, l.names)]
  <2>1. Lean!LeanNext(z, l) =
           [open |-> IF Lean!Ends(z.open, Lean!Headers(l.names))
                       THEN SubSeq(z.open, 1, Len(z.open) - Len(Lean!Headers(l.names))) ELSE z.open,
            names |-> z.names, failed |-> ~Lean!Ends(z.open, Lean!Headers(l.names))]
    BY <1>1, LeanEnds, Zenon
  <2>. QED
    BY <1>1, <1>2, <2>1, Zenon
<1>4. z1.failed = ~Lean!Ends(z.open, l.names) /\ z1.names = z.names
  BY <1>3
<1>5. Lean!Ends(z.open, l.names)
  BY <1>1, <1>4
<1>6. z1.open = SubSeq(z.open, 1, Len(z.open) - Len(l.names))
  BY <1>3, <1>5
<1>. DEFINE base == SpaceAt(z.open, Len(z.open) - Len(l.names))
<1>7. Len(l.names) <= Len(z.open) /\ Lean!Space(z.open) = base \o l.names
  BY <1>1, <1>5, LabelIsSpace, Zenon
<1>8. Len(l.names) \in 0 .. Len(z.open) /\ Len(z.open) - Len(l.names) \in 0 .. Len(z.open)
      /\ Len(z.open) \in Nat
  <2>1. PICK x, y \in Nat : x = Len(l.names) /\ y = Len(z.open)
    BY <1>1, SpaceIs
  <2>2. x <= y
    BY <1>7, <2>1
  <2>3. x \in 0..y /\ y - x \in 0..y
    BY <2>2
  <2>. QED
    BY <2>1, <2>3
<1>9. base \in Seq(Name)
  BY <1>8, SpaceIs
<1>. HIDE DEF base
<1>10. PICK left : left = z1.open
  OBVIOUS
<1>11. /\ Nested(left) /\ Lean!Space(left) = base /\ Len(left) = Len(z.open) - Len(l.names)
       /\ \A i \in 1 .. Len(left) : left[i] = z.open[i]
  BY <1>6, <1>8, <1>10, Cuts DEF base
<1>12. \A i \in 1 .. Len(left) : i \in 1 .. Len(z.open)
  BY <1>8, <1>11
<1>13. AllNamed(z.open) => AllNamed(left)
  BY <1>11, <1>12, Zenon DEF AllNamed
<1>. QED
  BY <1>4, <1>7, <1>9, <1>10, <1>11, <1>13, Zenon

\* After it they agree.
LEMMA AgreeEndsLabel ==
    ASSUME NEW s, NEW z, NEW l, NEW s1, NEW z1, EndsLabel(s, z, l, s1, z1), s1.failed = FALSE,
           Agree(s, z)
    PROVE  Agree(s1, z1)
<1>1. /\ l.names \in Seq(Name) /\ l.kind = "end" /\ s.failed = FALSE /\ l.names # <<>>
      /\ s1 = Lean!NameNext(s, l) /\ Nested(z.open)
  BY Zenon DEF EndsLabel, Line, Agree
<1>2. PICK base \in Seq(Name) :
              /\ Lean!Space(z.open) = base \o l.names
              /\ Nested(z1.open) /\ Lean!Space(z1.open) = base /\ z1.names = z.names
              /\ AllNamed(z.open) => AllNamed(z1.open)
  BY <1>1, LeanEndsLabel, Zenon
<1>3. s1 = [stack |-> IF Lean!Closes(s.stack, l.names)
                        THEN SubSeq(s.stack, 1, Len(s.stack) - (IF l.names = <<>> THEN 1 ELSE Len(l.names)))
                        ELSE s.stack,
            found |-> s.found, failed |-> ~Lean!Closes(s.stack, l.names)]
  BY <1>1, ReaderEnds, Zenon
<1>4. s1.failed = ~Lean!Closes(s.stack, l.names) /\ s1.found = s.found
  BY <1>3
<1>5. Lean!Closes(s.stack, l.names)
  BY <1>4
<1>6. s1.stack = SubSeq(s.stack, 1, Len(s.stack) - Len(l.names))
  <2>1. s1.stack = IF Lean!Closes(s.stack, l.names)
                     THEN SubSeq(s.stack, 1, Len(s.stack) - (IF l.names = <<>> THEN 1 ELSE Len(l.names)))
                     ELSE s.stack
    BY <1>3
  <2>. QED
    BY <1>1, <1>5, <2>1, Zenon
<1>7. Len(l.names) <= Len(s.stack)
  BY <1>1, <1>5, Zenon DEF Lean!Closes, Lean!EndsWith
<1>8. PICK a, c \in Seq(Name) : a = s.stack /\ c = l.names
  BY <1>1 DEF Agree
<1>9. /\ Len(a) <= Len(base \o c)
      /\ Len(a) = Len(base \o c) => a = base \o c /\ s.found = z.names
  BY <1>2, <1>8, Zenon DEF Agree
<1>10. /\ Len(base \o c) = Len(base) + Len(c) /\ Len(c) <= Len(a)
       /\ Len(a) \in Nat /\ Len(base) \in Nat /\ Len(c) \in Nat
  BY <1>7, <1>8
<1>11. PICK d : d = SubSeq(a, 1, Len(a) - Len(c))
  OBVIOUS
<1>12. d \in Seq(Name) /\ Len(d) = Len(a) - Len(c)
  BY <1>10, <1>11
<1>13. Len(d) <= Len(base) /\ (Len(d) = Len(base) => Len(a) = Len(base \o c))
  BY <1>9, <1>10, <1>12
<1>14. ASSUME Len(d) = Len(base) PROVE d = base
  <2>1. a = base \o c
    BY <1>9, <1>13, <1>14
  <2>2. d = SubSeq(base \o c, 1, Len(base \o c) - Len(c))
    BY <1>11, <2>1
  <2>. QED
    BY <2>2
<1>. QED
  BY <1>2, <1>4, <1>6, <1>8, <1>9, <1>11, <1>12, <1>13, <1>14, Zenon DEF Agree

\* An end without a name: Lean takes it for the end of a section.
EndsBare(s, z, l, s1, z1) ==
    /\ Line(s, z, l, s1, z1) /\ l.kind = "end" /\ l.names = <<>>
    /\ z1.failed = FALSE

\* It adds nothing to the namespace.
LEMMA LeanEndsBare ==
    ASSUME NEW s, NEW z, NEW l, NEW s1, NEW z1, EndsBare(s, z, l, s1, z1), Nested(z.open)
    PROVE  /\ ~AllNamed(z.open) /\ Nested(z1.open) /\ Lean!Space(z1.open) = Lean!Space(z.open)
           /\ z1.names = z.names
<1>1. /\ l.kind = "end" /\ z.failed = FALSE /\ l.names = <<>>
      /\ z1 = Lean!LeanNext(z, l) /\ z1.failed = FALSE
  BY Zenon DEF EndsBare, Line
<1>. DEFINE headers == Lean!Headers(l.names)
            L == Len(z.open)
<1>2. headers = <<Lean!Unnamed>>
  BY <1>1, Zenon DEF Lean!Headers
<1>3. Len(headers) = 1 /\ headers[1] = Lean!Unnamed
  BY <1>2
<1>4. z1 = [open |-> IF Lean!Ends(z.open, headers)
                       THEN SubSeq(z.open, 1, L - Len(headers)) ELSE z.open,
            names |-> z.names, failed |-> ~Lean!Ends(z.open, headers)]
  BY <1>1, LeanEnds, Zenon
<1>. HIDE DEF headers
<1>5. z1.failed = ~Lean!Ends(z.open, headers) /\ z1.names = z.names
  BY <1>4
<1>6. Lean!Ends(z.open, headers)
  BY <1>1, <1>5
<1>7. z1.open = SubSeq(z.open, 1, L - 1)
  BY <1>3, <1>4, <1>6
<1>8. L \in Nat
  BY SpaceIs
<1>9. 1 <= L /\ z.open[L].header = Lean!Unnamed
  <2>1. 1 <= L /\ z.open[(L - 1) + 1].header = Lean!Unnamed
    BY <1>3, <1>6 DEF Lean!Ends
  <2>. QED
    BY <1>8, <2>1
<1>. HIDE DEF L
<1>10. 1 \in 0..L /\ L \in 1..L
  BY <1>8, <1>9
<1>11. ~AllNamed(z.open)
  BY <1>9, <1>10, Zenon DEF AllNamed, L
<1>12. PICK left : left = z1.open
  OBVIOUS
<1>13. Nested(left) /\ Lean!Space(left) = SpaceAt(z.open, L - 1)
  BY <1>7, <1>10, <1>12, Cuts DEF L
<1>14. SpaceAt(z.open, L) = Adds(SpaceAt(z.open, L - 1), z.open[L].header)
  BY <1>10, Zenon DEF Nested, L
<1>15. SpaceAt(z.open, L) = SpaceAt(z.open, L - 1)
  BY <1>9, <1>14, Zenon DEF Adds
<1>16. Lean!Space(z.open) = SpaceAt(z.open, L)
  BY SpaceIs DEF L
<1>. QED
  BY <1>5, <1>11, <1>12, <1>13, <1>15, <1>16

\* The reader closes a name and has fewer than Lean from then on.
LEMMA AgreeEndsBare ==
    ASSUME NEW s, NEW z, NEW l, NEW s1, NEW z1, EndsBare(s, z, l, s1, z1), s1.failed = FALSE,
           Agree(s, z)
    PROVE  Agree(s1, z1)
<1>1. /\ l.kind = "end" /\ s.failed = FALSE /\ l.names = <<>>
      /\ s1 = Lean!NameNext(s, l) /\ Nested(z.open)
  BY Zenon DEF EndsBare, Line, Agree
<1>2. /\ Nested(z1.open) /\ Lean!Space(z1.open) = Lean!Space(z.open)
  BY <1>1, LeanEndsBare
<1>3. s1 = [stack |-> IF Lean!Closes(s.stack, l.names)
                        THEN SubSeq(s.stack, 1, Len(s.stack) - (IF l.names = <<>> THEN 1 ELSE Len(l.names)))
                        ELSE s.stack,
            found |-> s.found, failed |-> ~Lean!Closes(s.stack, l.names)]
  BY <1>1, ReaderEnds, Zenon
<1>4. s1.failed = ~Lean!Closes(s.stack, l.names)
  BY <1>3
<1>5. Lean!Closes(s.stack, l.names)
  BY <1>4
<1>6. s1.stack = SubSeq(s.stack, 1, Len(s.stack) - 1)
  BY <1>1, <1>3, <1>5
<1>7. s.stack # <<>>
  BY <1>5, Zenon DEF Lean!Closes
<1>8. PICK a \in Seq(Name) : a = s.stack
  BY DEF Agree
<1>9. PICK d : d = SubSeq(a, 1, Len(a) - 1)
  OBVIOUS
<1>10. d \in Seq(Name) /\ Len(d) = Len(a) - 1 /\ Len(a) \in Nat
  BY <1>7, <1>8, <1>9
<1>11. PICK b \in Seq(Name) : b = Lean!Space(z.open)
  BY <1>1, SpaceIs
<1>12. Len(a) <= Len(b)
  BY <1>8, <1>11, Zenon DEF Agree
<1>13. Len(d) <= Len(b) /\ Len(d) # Len(b)
  BY <1>10, <1>12
<1>. QED
  BY <1>2, <1>6, <1>8, <1>9, <1>10, <1>11, <1>13, Zenon DEF Agree
\* They agree after every line that neither refuses.
LEMMA AgreeStays ==
    ASSUME NEW s, NEW z, NEW l, NEW s1, NEW z1, Line(s, z, l, s1, z1),
           s1.failed = FALSE, z1.failed = FALSE, Agree(s, z)
    PROVE  Agree(s1, z1)
<1>1. CASE l.kind = "namespace"
  BY <1>1, AgreeOpens
<1>2. CASE l.kind = "section"
  BY <1>2, AgreeSections
<1>3. CASE l.kind = "theorem"
  BY <1>3, AgreeFinds
<1>4. CASE l.kind = "end" /\ l.names # <<>>
  <2>1. EndsLabel(s, z, l, s1, z1)
    BY <1>4, Zenon DEF EndsLabel
  <2>. QED
    BY <2>1, AgreeEndsLabel
<1>5. CASE l.kind = "end" /\ l.names = <<>>
  <2>1. EndsBare(s, z, l, s1, z1)
    BY <1>5, Zenon DEF EndsBare
  <2>. QED
    BY <2>1, AgreeEndsBare
<1>6. CASE l.kind \notin {"namespace", "section", "end", "theorem"}
  <2>1. s1 = s /\ z1 = z
    BY <1>6, ReaderPasses, LeanPasses, Zenon DEF Line, Plain
  <2>. QED
    BY <2>1
<1>. QED
  BY <1>1, <1>2, <1>3, <1>4, <1>5, <1>6, Zenon

\* Where there is no section the reader is in step with Lean.
InStep(s, z) ==
    /\ s.failed = FALSE /\ Nested(z.open) /\ AllNamed(z.open)
    /\ s.stack = Lean!Space(z.open) /\ s.found = z.names

\* They are in step after an end that Lean accepts,
LEMMA InStepEnds ==
    ASSUME NEW s, NEW z, NEW l, NEW s1, NEW z1, EndsLabel(s, z, l, s1, z1), InStep(s, z)
    PROVE  InStep(s1, z1)
<1>1. /\ l.names \in Seq(Name) /\ l.kind = "end" /\ s.failed = FALSE /\ l.names # <<>>
      /\ s1 = Lean!NameNext(s, l) /\ Nested(z.open)
  BY Zenon DEF EndsLabel, Line, InStep
<1>2. PICK base \in Seq(Name) :
              /\ Lean!Space(z.open) = base \o l.names
              /\ Nested(z1.open) /\ Lean!Space(z1.open) = base /\ z1.names = z.names
              /\ AllNamed(z.open) => AllNamed(z1.open)
  BY <1>1, LeanEndsLabel, Zenon
<1>3. s1 = [stack |-> IF Lean!Closes(s.stack, l.names)
                        THEN SubSeq(s.stack, 1, Len(s.stack) - (IF l.names = <<>> THEN 1 ELSE Len(l.names)))
                        ELSE s.stack,
            found |-> s.found, failed |-> ~Lean!Closes(s.stack, l.names)]
  BY <1>1, ReaderEnds, Zenon
<1>4. PICK c \in Seq(Name) : c = l.names
  BY <1>1
<1>5. s.stack = base \o c /\ s.found = z.names /\ AllNamed(z.open)
  BY <1>2, <1>4, Zenon DEF InStep
<1>6. PICK a \in Seq(Name) : a = base \o c
  <2>1. base \o c \in Seq(Name)
    OBVIOUS
  <2>. QED
    BY <2>1, Zenon
<1>7. /\ Len(a) = Len(base) + Len(c) /\ Len(a) \in Nat /\ Len(base) \in Nat /\ Len(c) \in Nat
      /\ Len(c) > 0
  BY <1>1, <1>4, <1>6
<1>8. SubSeq(a, Len(a) - Len(c) + 1, Len(a)) = c /\ SubSeq(a, 1, Len(a) - Len(c)) = base
  BY <1>6
<1>9. a # <<>> /\ Len(c) <= Len(a)
  BY <1>7
<1>10. Lean!Closes(a, c)
  BY <1>8, <1>9, Zenon DEF Lean!Closes, Lean!EndsWith
<1>11. Lean!Closes(s.stack, l.names)
  BY <1>4, <1>5, <1>6, <1>10
<1>12. /\ s1.stack = IF Lean!Closes(s.stack, l.names)
                       THEN SubSeq(s.stack, 1, Len(s.stack) - (IF l.names = <<>> THEN 1 ELSE Len(l.names)))
                       ELSE s.stack
       /\ s1.found = s.found /\ s1.failed = ~Lean!Closes(s.stack, l.names)
  BY <1>3
<1>13. s1.stack = SubSeq(s.stack, 1, Len(s.stack) - Len(l.names))
  BY <1>1, <1>11, <1>12, Zenon
<1>14. s1.stack = base
  BY <1>4, <1>5, <1>6, <1>8, <1>13, Zenon
<1>15. s1.failed = FALSE
  BY <1>11, <1>12
<1>. QED
  BY <1>2, <1>5, <1>12, <1>14, <1>15, Zenon DEF InStep

\* and after every other line but a section.
LEMMA InStepStays ==
    ASSUME NEW s, NEW z, NEW l, NEW s1, NEW z1, Line(s, z, l, s1, z1),
           l.kind # "section", z1.failed = FALSE, InStep(s, z)
    PROVE  InStep(s1, z1)
<1>1. CASE l.kind = "namespace"
  <2>1. /\ s1 = [stack |-> s.stack \o l.names, found |-> s.found, failed |-> FALSE]
        /\ z1 = [open |-> Lean!Opened(z.open, l.names), names |-> z.names, failed |-> FALSE]
    BY <1>1, ReaderOpens, LeanOpens, Zenon DEF Line
  <2>2. /\ s1.stack = s.stack \o l.names /\ s1.found = s.found /\ s1.failed = FALSE
        /\ z1.open = Lean!Opened(z.open, l.names) /\ z1.names = z.names
    BY <2>1
  <2>3. Nested(z.open) /\ l.names \in Seq(Name) /\ AllNamed(z.open)
    BY Zenon DEF InStep, Line
  <2>4. /\ Nested(z1.open) /\ Lean!Space(z1.open) = Lean!Space(z.open) \o l.names
        /\ AllNamed(z1.open)
    BY <2>2, <2>3, OpensNamespace, Zenon
  <2>. QED
    BY <2>2, <2>4, Zenon DEF InStep
<1>2. CASE l.kind = "theorem"
  <2>1. /\ s1 = [stack |-> s.stack, found |-> Append(s.found, s.stack \o l.names), failed |-> FALSE]
        /\ z1 = [open |-> z.open, names |-> Append(z.names, Lean!Space(z.open) \o l.names), failed |-> FALSE]
    BY <1>2, ReaderFinds, LeanFinds, Zenon DEF Line
  <2>2. /\ s1.stack = s.stack /\ s1.found = Append(s.found, s.stack \o l.names) /\ s1.failed = FALSE
        /\ z1.open = z.open /\ z1.names = Append(z.names, Lean!Space(z.open) \o l.names)
    BY <2>1
  <2>. QED
    BY <2>2, Zenon DEF InStep
<1>3. CASE l.kind = "end" /\ l.names # <<>>
  <2>1. EndsLabel(s, z, l, s1, z1)
    BY <1>3, Zenon DEF EndsLabel
  <2>. QED
    BY <2>1, InStepEnds
<1>4. CASE l.kind = "end" /\ l.names = <<>>
  <2>1. EndsBare(s, z, l, s1, z1)
    BY <1>4, Zenon DEF EndsBare
  <2>2. ~AllNamed(z.open)
    BY <2>1, LeanEndsBare DEF InStep
  <2>. QED
    BY <2>2, Zenon DEF InStep
<1>5. CASE l.kind \notin {"namespace", "section", "end", "theorem"}
  <2>1. s1 = s /\ z1 = z
    BY <1>5, ReaderPasses, LeanPasses, Zenon DEF Line, Plain
  <2>. QED
    BY <2>1
<1>. QED
  BY <1>1, <1>2, <1>3, <1>4, <1>5, Zenon

-----------------------------------------------------------------------------
\* All lines of a file. What is refused stays refused.
AreLines(lines) ==
    Len(lines) \in Nat /\ \A i \in 1 .. Len(lines) : lines[i].names \in Seq(Name) /\ Plain(lines[i])

\* Before the first line they agree.
LEMMA Starting ==
    ASSUME NEW lines, Len(lines) \in Nat
    PROVE  /\ Agree(Named(lines, 0), Elaborated(lines, 0))
           /\ InStep(Named(lines, 0), Elaborated(lines, 0))
           /\ Named(lines, 0).failed = FALSE /\ Elaborated(lines, 0).failed = FALSE
<1>1. Named(lines, 0) = [stack |-> <<>>, found |-> <<>>, failed |-> FALSE]
  BY NamingUnfolds
<1>2. Elaborated(lines, 0) = [open |-> <<>>, names |-> <<>>, failed |-> FALSE]
  BY ElaboratingUnfolds
<1>3. PICK s, z : s = Named(lines, 0) /\ z = Elaborated(lines, 0)
  OBVIOUS
<1>4. /\ s.stack = <<>> /\ s.found = <<>> /\ s.failed = FALSE
      /\ z.open = <<>> /\ z.names = <<>> /\ z.failed = FALSE
  BY <1>1, <1>2, <1>3
<1>5. Nested(<<>>) /\ AllNamed(<<>>) /\ Lean!Space(<<>>) = <<>> /\ <<>> \in Seq(Name) /\ Len(<<>>) <= Len(<<>>)
  BY DEF Nested, AllNamed, Lean!Space
<1>. QED
  BY <1>3, <1>4, <1>5, Zenon DEF Agree, InStep

Decided(s) == s.failed \in BOOLEAN
Keeps(s, s1) == Decided(s1) /\ (s1.failed = FALSE => s.failed = FALSE)

\* A line does not take a refusal back.
LEMMA Refused ==
    ASSUME NEW s, NEW z, Decided(s), Decided(z), NEW l
    PROVE  Keeps(s, Lean!NameNext(s, l)) /\ Keeps(z, Lean!LeanNext(z, l))
<1>0. s.failed \in BOOLEAN /\ z.failed \in BOOLEAN
  BY DEF Decided
<1>1. s.failed = TRUE => Lean!NameNext(s, l) = s
  BY Zenon DEF Lean!NameNext
<1>2. z.failed = TRUE => Lean!LeanNext(z, l) = z
  BY Zenon DEF Lean!LeanNext
<1>3. ASSUME s.failed = FALSE PROVE Lean!NameNext(s, l).failed \in BOOLEAN
  <2>1. PICK t : t = Lean!NameNext(s, l)
    OBVIOUS
  <2>2. CASE l.kind = "namespace"
    <3>1. t = [stack |-> s.stack \o l.names, found |-> s.found, failed |-> FALSE]
      BY <1>3, <2>1, <2>2, ReaderOpens, Zenon
    <3>. QED
      BY <2>1, <3>1
  <2>3. CASE l.kind = "end"
    <3>1. t = [stack |-> IF Lean!Closes(s.stack, l.names)
                           THEN SubSeq(s.stack, 1, Len(s.stack) - (IF l.names = <<>> THEN 1 ELSE Len(l.names)))
                           ELSE s.stack,
               found |-> s.found, failed |-> ~Lean!Closes(s.stack, l.names)]
      BY <1>3, <2>1, <2>3, ReaderEnds, Zenon
    <3>2. t.failed = ~Lean!Closes(s.stack, l.names)
      BY <3>1
    <3>. QED
      BY <2>1, <3>2
  <2>4. CASE l.kind = "theorem"
    <3>1. t = [stack |-> s.stack, found |-> Append(s.found, s.stack \o Lean!NameRead(l)), failed |-> FALSE]
      BY <1>3, <2>1, <2>4, ReaderFindsPart, Zenon
    <3>. QED
      BY <2>1, <3>1
  <2>5. CASE l.kind \notin {"namespace", "end", "theorem"}
    BY <1>3, <2>5, ReaderPasses, Zenon
  <2>. QED
    BY <2>2, <2>3, <2>4, <2>5, Zenon
<1>4. ASSUME z.failed = FALSE PROVE Lean!LeanNext(z, l).failed \in BOOLEAN
  <2>1. PICK t : t = Lean!LeanNext(z, l)
    OBVIOUS
  <2>2. CASE l.kind = "namespace"
    <3>1. t = [open |-> Lean!Opened(z.open, l.names), names |-> z.names, failed |-> FALSE]
      BY <1>4, <2>1, <2>2, LeanOpens, Zenon
    <3>. QED
      BY <2>1, <3>1
  <2>3. CASE l.kind = "section"
    <3>1. t = [open |-> Append(z.open, [header |-> Lean!Unnamed, space |-> Lean!Space(z.open)]),
               names |-> z.names, failed |-> FALSE]
      BY <1>4, <2>1, <2>3, LeanSections, Zenon
    <3>. QED
      BY <2>1, <3>1
  <2>4. CASE l.kind = "end"
    <3>1. t = [open |-> IF Lean!Ends(z.open, Lean!Headers(l.names))
                          THEN SubSeq(z.open, 1, Len(z.open) - Len(Lean!Headers(l.names))) ELSE z.open,
               names |-> z.names, failed |-> ~Lean!Ends(z.open, Lean!Headers(l.names))]
      BY <1>4, <2>1, <2>4, LeanEnds, Zenon
    <3>2. t.failed = ~Lean!Ends(z.open, Lean!Headers(l.names))
      BY <3>1
    <3>. QED
      BY <2>1, <3>2
  <2>5. CASE l.kind = "theorem" \/ l.kind = "hidden"
    <3>1. t = [open |-> z.open, names |-> Append(z.names, Lean!Space(z.open) \o l.names), failed |-> FALSE]
      BY <1>4, <2>1, <2>5, LeanFindsAny, Zenon
    <3>. QED
      BY <2>1, <3>1
  <2>6. CASE l.kind \notin {"namespace", "section", "end", "theorem", "hidden"}
    BY <1>4, <2>6, LeanPasses, Zenon
  <2>. QED
    BY <2>2, <2>3, <2>4, <2>5, <2>6, Zenon
<1>. QED
  BY <1>0, <1>1, <1>2, <1>3, <1>4 DEF Keeps, Decided

\* The reader and Lean after k lines.
Follows(lines, k) ==
    LET s == Named(lines, k)
        z == Elaborated(lines, k)
    IN  /\ s.failed \in BOOLEAN /\ z.failed \in BOOLEAN
        /\ s.failed = FALSE /\ z.failed = FALSE => Agree(s, z)
        /\ z.failed = FALSE /\ (\A i \in 1..k : lines[i].kind # "section") => InStep(s, z)

\* After one more line,
LEMMA FollowsOne ==
    ASSUME NEW lines, AreLines(lines), NEW k \in Nat, k + 1 <= Len(lines), Follows(lines, k)
    PROVE  Follows(lines, k + 1)
<1>. DEFINE n == k + 1
<1>1. PICK s, z, s1, z1, l :
         /\ s = Named(lines, k) /\ z = Elaborated(lines, k) /\ l = lines[n]
         /\ s1 = Named(lines, n) /\ z1 = Elaborated(lines, n)
  OBVIOUS
<1>2. k \in 0 .. Len(lines) - 1 /\ n \in 1 .. Len(lines) /\ Len(lines) \in Nat
  BY DEF AreLines
<1>3. s1 = Lean!NameNext(s, l) /\ z1 = Lean!LeanNext(z, l)
  BY <1>1, <1>2, NamingUnfolds, ElaboratingUnfolds
<1>4. l.names \in Seq(Name) /\ Plain(l)
  BY <1>1, <1>2, Zenon DEF AreLines
<1>. HIDE DEF n
<1>5. /\ s.failed \in BOOLEAN /\ z.failed \in BOOLEAN
      /\ s.failed = FALSE /\ z.failed = FALSE => Agree(s, z)
      /\ z.failed = FALSE /\ (\A i \in 1..k : lines[i].kind # "section") => InStep(s, z)
  BY <1>1, Zenon DEF Follows
<1>6. /\ s1.failed \in BOOLEAN /\ z1.failed \in BOOLEAN
      /\ s1.failed = FALSE => s.failed = FALSE
      /\ z1.failed = FALSE => z.failed = FALSE
  <2>1. Decided(s) /\ Decided(z)
    BY <1>5 DEF Decided
  <2>2. Keeps(s, s1) /\ Keeps(z, z1)
    BY <1>3, <2>1, Refused, Zenon
  <2>. QED
    BY <2>2 DEF Keeps, Decided
<1>7. ASSUME s1.failed = FALSE, z1.failed = FALSE PROVE Agree(s1, z1)
  <2>1. Line(s, z, l, s1, z1)
    BY <1>3, <1>4, <1>6, <1>7, Zenon DEF Line
  <2>. QED
    BY <1>5, <1>6, <1>7, <2>1, AgreeStays
<1>8. ASSUME z1.failed = FALSE, \A i \in 1..n : lines[i].kind # "section" PROVE InStep(s1, z1)
  <2>1. (\A i \in 1..k : i \in 1..n) /\ n \in 1..n
    BY DEF n
  <2>2. InStep(s, z) /\ l.kind # "section" /\ z.failed = FALSE
    BY <1>1, <1>5, <1>6, <1>8, <2>1, Zenon
  <2>3. s.failed = FALSE
    BY <2>2, Zenon DEF InStep
  <2>4. Line(s, z, l, s1, z1)
    BY <1>3, <1>4, <2>2, <2>3, Zenon DEF Line
  <2>. QED
    BY <1>8, <2>2, <2>4, InStepStays
<1>. QED
  BY <1>1, <1>6, <1>7, <1>8, Zenon DEF Follows, n

\* and after all of them.
LEMMA FollowsAll ==
    ASSUME NEW lines, AreLines(lines) PROVE Follows(lines, Len(lines))
<1>. DEFINE S == {k \in Nat : k <= Len(lines) => Follows(lines, k)}
<1>1. Len(lines) \in Nat
  BY DEF AreLines
<1>2. 0 \in S
  BY <1>1, Starting, Zenon DEF Follows
<1>3. ASSUME NEW k \in Nat, k \in S PROVE k + 1 \in S
  BY <1>1, <1>3, FollowsOne
<1>4. Len(lines) \in S
  <2>. HIDE DEF S
  <2>. QED
    BY <1>1, <1>2, <1>3, Induct
<1>. QED
  BY <1>4

\* Of a file of such lines that Lean accepts the reader finds the theorems under their
\* names, or refuses the file; without a section it does not refuse it.
LEMMA PlainNames ==
    ASSUME NEW lines, AreLines(lines), Lean!LeanNames(lines).ok
    PROVE  /\ Lean!Qualified(lines).ok => Lean!Qualified(lines).names = Lean!LeanNames(lines).names
           /\ (\A i \in 1 .. Len(lines) : lines[i].kind # "section") =>
                 /\ Lean!Qualified(lines).ok
                 /\ Lean!Qualified(lines).names = Lean!LeanNames(lines).names
<1>1. PICK s, z : s = Named(lines, Len(lines)) /\ z = Elaborated(lines, Len(lines))
  OBVIOUS
<1>2. /\ Lean!Qualified(lines) = [ok |-> ~s.failed /\ s.stack = <<>>, names |-> s.found]
      /\ Lean!LeanNames(lines) = [ok |-> ~z.failed /\ z.open = <<>>, names |-> z.names]
  BY <1>1, Zenon DEF Lean!Qualified, Lean!LeanNames, Named, Elaborated
<1>3. /\ Lean!Qualified(lines).ok = (~s.failed /\ s.stack = <<>>)
      /\ Lean!Qualified(lines).names = s.found
      /\ Lean!LeanNames(lines).ok = (~z.failed /\ z.open = <<>>)
      /\ Lean!LeanNames(lines).names = z.names
  <2>1. PICK p, q : p = Lean!Qualified(lines) /\ q = Lean!LeanNames(lines)
    OBVIOUS
  <2>2. /\ p = [ok |-> ~s.failed /\ s.stack = <<>>, names |-> s.found]
        /\ q = [ok |-> ~z.failed /\ z.open = <<>>, names |-> z.names]
    BY <1>2, <2>1, Zenon
  <2>3. /\ p.ok = (~s.failed /\ s.stack = <<>>) /\ p.names = s.found
        /\ q.ok = (~z.failed /\ z.open = <<>>) /\ q.names = z.names
    BY <2>2
  <2>. QED
    BY <2>1, <2>3, Zenon
<1>4. /\ s.failed \in BOOLEAN /\ z.failed \in BOOLEAN
      /\ s.failed = FALSE /\ z.failed = FALSE => Agree(s, z)
      /\ z.failed = FALSE /\ (\A i \in 1 .. Len(lines) : lines[i].kind # "section") => InStep(s, z)
  BY <1>1, FollowsAll, Zenon DEF Follows
<1>5. z.failed = FALSE /\ z.open = <<>>
  BY <1>3, <1>4
<1>6. Lean!Space(z.open) = <<>> /\ Len(<<>>) = 0
  BY <1>5 DEF Lean!Space
<1>7. ASSUME Lean!Qualified(lines).ok PROVE s.found = z.names
  <2>1. s.failed = FALSE /\ s.stack = <<>>
    BY <1>3, <1>4, <1>7
  <2>. QED
    BY <1>4, <1>5, <1>6, <2>1, Zenon DEF Agree
<1>8. ASSUME \A i \in 1 .. Len(lines) : lines[i].kind # "section"
      PROVE  s.failed = FALSE /\ s.stack = <<>> /\ s.found = z.names
  BY <1>4, <1>5, <1>6, <1>8, Zenon DEF InStep
<1>. QED
  BY <1>3, <1>7, <1>8

-----------------------------------------------------------------------------
\* A line has a kind and names.
LEMMA LineIsOne ==
    ASSUME NEW k, NEW names
    PROVE  Lean!Line(k, names).kind = k /\ Lean!Line(k, names).names = names
BY DEF Lean!Line

\* Lines as they are written: theorems have names, of one part or more.
IsWritten(l) == l.names \in Seq(Name) /\ (l.kind = "theorem" => l.names # <<>>)
AreWritten(lines) ==
    /\ Len(lines) \in Nat /\ DOMAIN lines = 1 .. Len(lines)
    /\ \A i \in 1 .. Len(lines) : IsWritten(lines[i])

\* What AsRead makes of a line.
AsLine(l) ==
    IF l.kind = "hidden" THEN Lean!Line("other", <<>>)
    ELSE IF l.kind = "theorem" THEN Lean!Line("theorem", SubSeq(l.names, 1, 1))
    ELSE l

\* The kind and the names of what is made.
LEMMA AsLineIs ==
    ASSUME NEW l, IsWritten(l)
    PROVE  /\ AsLine(l).names \in Seq(Name) /\ Plain(AsLine(l))
           /\ (AsLine(l).kind = "section") <=> (l.kind = "section")
           /\ l.kind = "theorem" =>
                 AsLine(l).kind = "theorem" /\ AsLine(l).names = Lean!NameRead(l)
           /\ l.kind = "hidden" => AsLine(l).kind = "other"
           /\ ~(l.kind = "hidden") /\ ~(l.kind = "theorem") => AsLine(l) = l
<1>1. PICK m : m = AsLine(l)
  OBVIOUS
<1>2. CASE l.kind = "hidden"
  <2>0. <<>> \in Seq(Name)
    OBVIOUS
  <2>1. PICK none \in Seq(Name) : none = <<>>
    BY <2>0, Zenon
  <2>2. m.kind = "other" /\ m.names = none
    <3>1. m = Lean!Line("other", none)
      BY <1>1, <1>2, <2>1, Zenon DEF AsLine
    <3>. QED
      BY <3>1, LineIsOne, Zenon
  <2>. QED
    BY <1>1, <1>2, <2>1, <2>2, KindsDiffer, Zenon DEF Plain
<1>3. CASE l.kind = "theorem"
  <2>1. PICK a \in Seq(Name) : a = l.names /\ a # <<>>
    BY <1>3 DEF IsWritten
  <2>2. PICK b : b = SubSeq(a, 1, 1)
    OBVIOUS
  <2>3. b \in Seq(Name) /\ SubSeq(b, 1, 1) = b
    BY <2>1, <2>2
  <2>4. m.kind = "theorem" /\ m.names = b
    <3>1. m = Lean!Line("theorem", b)
      BY <1>1, <1>3, <2>1, <2>2, KindsDiffer, Zenon DEF AsLine
    <3>. QED
      BY <3>1, LineIsOne, Zenon
  <2>5. Lean!NameRead(l) = b /\ Lean!NameRead(m) = b
    BY <2>1, <2>2, <2>3, <2>4, Zenon DEF Lean!NameRead
  <2>. QED
    BY <1>1, <1>3, <2>3, <2>4, <2>5, KindsDiffer, Zenon DEF Plain
<1>4. CASE ~(l.kind = "hidden") /\ ~(l.kind = "theorem")
  <2>1. m = l
    BY <1>1, <1>4, Zenon DEF AsLine
  <2>. QED
    BY <1>1, <1>4, <2>1, Zenon DEF Plain, IsWritten
<1>. QED
  BY <1>2, <1>3, <1>4, Zenon

\* The reader does with a line what it does with what is made of it.
LEMMA ReadsAlike ==
    ASSUME NEW s, Decided(s), NEW l, IsWritten(l)
    PROVE  Lean!NameNext(s, AsLine(l)) = Lean!NameNext(s, l)
<1>1. PICK m : m = AsLine(l)
  OBVIOUS
<1>2. CASE s.failed = TRUE
  BY <1>2, Zenon DEF Lean!NameNext
<1>3. CASE s.failed = FALSE /\ l.kind = "hidden"
  <2>1. m.kind = "other"
    BY <1>1, <1>3, AsLineIs, Zenon
  <2>2. l.kind \notin {"namespace", "end", "theorem"} /\ m.kind \notin {"namespace", "end", "theorem"}
    BY <1>3, <2>1
  <2>. QED
    BY <1>1, <1>3, <2>2, ReaderPasses, Zenon
<1>4. CASE s.failed = FALSE /\ l.kind = "theorem"
  <2>1. m.kind = "theorem" /\ m.names = Lean!NameRead(l) /\ Plain(m)
    BY <1>1, <1>4, AsLineIs, Zenon
  <2>2. Lean!NameRead(m) = Lean!NameRead(l)
    BY <2>1, Zenon DEF Plain
  <2>3. /\ Lean!NameNext(s, m) =
              [stack |-> s.stack, found |-> Append(s.found, s.stack \o Lean!NameRead(m)), failed |-> FALSE]
        /\ Lean!NameNext(s, l) =
              [stack |-> s.stack, found |-> Append(s.found, s.stack \o Lean!NameRead(l)), failed |-> FALSE]
    BY <1>4, <2>1, ReaderFindsPart, Zenon
  <2>. QED
    BY <1>1, <2>2, <2>3, Zenon
<1>5. CASE ~(l.kind = "hidden") /\ ~(l.kind = "theorem")
  <2>1. m = l
    BY <1>1, <1>5, AsLineIs, Zenon
  <2>. QED
    BY <1>1, <2>1, Zenon
<1>6. s.failed \in BOOLEAN
  BY Zenon DEF Decided
<1>. QED
  BY <1>2, <1>3, <1>4, <1>5, <1>6

\* Two states of Lean with the same scopes.
SameScopes(y, z) == Decided(y) /\ Decided(z) /\ y.open = z.open /\ y.failed = z.failed

\* The scopes are the same after a line and after what is made of it.
LEMMA NestsAlike ==
    ASSUME NEW y, NEW z, SameScopes(y, z), NEW l, IsWritten(l)
    PROVE  SameScopes(Lean!LeanNext(y, AsLine(l)), Lean!LeanNext(z, l))
<1>1. PICK m, y1, z1 :
         m = AsLine(l) /\ y1 = Lean!LeanNext(y, m) /\ z1 = Lean!LeanNext(z, l)
  OBVIOUS
<1>2. y.failed \in BOOLEAN /\ z.failed \in BOOLEAN /\ y.open = z.open /\ y.failed = z.failed
  BY Zenon DEF SameScopes, Decided
<1>3. SUFFICES y1.open = z1.open /\ y1.failed = z1.failed
  <2>1. Decided(y) /\ Decided(z)
    BY Zenon DEF SameScopes
  <2>2. PICK s : s = [failed |-> FALSE]
    OBVIOUS
  <2>3. Decided(s)
    BY <2>2 DEF Decided
  <2>4. Keeps(y, y1) /\ Keeps(z, z1)
    BY <1>1, <2>1, <2>3, Refused, Zenon
  <2>. QED
    BY <1>1, <1>3, <2>4, Zenon DEF SameScopes, Keeps
<1>4. CASE z.failed = TRUE
  <2>1. y1 = y /\ z1 = z
    BY <1>1, <1>2, <1>4, Zenon DEF Lean!LeanNext
  <2>. QED
    BY <1>2, <2>1
<1>5. CASE z.failed = FALSE /\ l.kind = "hidden"
  <2>1. m.kind = "other"
    BY <1>1, <1>5, AsLineIs, Zenon
  <2>2. m.kind \notin {"namespace", "section", "end", "theorem", "hidden"}
    BY <2>1
  <2>3. y1 = y
    BY <1>1, <1>2, <1>5, <2>2, LeanPasses, Zenon
  <2>4. z1 = [open |-> z.open, names |-> Append(z.names, Lean!Space(z.open) \o l.names), failed |-> FALSE]
    BY <1>1, <1>5, LeanFindsAny, Zenon
  <2>. QED
    BY <1>2, <1>5, <2>3, <2>4
<1>6. CASE z.failed = FALSE /\ l.kind = "theorem"
  <2>1. m.kind = "theorem"
    BY <1>1, <1>6, AsLineIs, Zenon
  <2>2. y1 = [open |-> y.open, names |-> Append(y.names, Lean!Space(y.open) \o m.names), failed |-> FALSE]
    BY <1>1, <1>2, <1>6, <2>1, LeanFinds, Zenon
  <2>3. z1 = [open |-> z.open, names |-> Append(z.names, Lean!Space(z.open) \o l.names), failed |-> FALSE]
    BY <1>1, <1>6, LeanFinds, Zenon
  <2>. QED
    BY <1>2, <2>2, <2>3
<1>7. CASE z.failed = FALSE /\ ~(l.kind = "hidden") /\ ~(l.kind = "theorem")
  <2>0. m = l /\ y.failed = FALSE
    BY <1>1, <1>2, <1>7, AsLineIs, Zenon
  <2>1. CASE l.kind = "namespace"
    <3>1. /\ y1 = [open |-> Lean!Opened(y.open, l.names), names |-> y.names, failed |-> FALSE]
          /\ z1 = [open |-> Lean!Opened(z.open, l.names), names |-> z.names, failed |-> FALSE]
      BY <1>1, <1>7, <2>0, <2>1, LeanOpens, Zenon
    <3>2. /\ y1.open = Lean!Opened(y.open, l.names) /\ y1.failed = FALSE
          /\ z1.open = Lean!Opened(z.open, l.names) /\ z1.failed = FALSE
      BY <3>1
    <3>. QED
      BY <1>2, <3>2, Zenon
  <2>2. CASE l.kind = "section"
    <3>1. /\ y1 = [open |-> Append(y.open, [header |-> Lean!Unnamed, space |-> Lean!Space(y.open)]),
                   names |-> y.names, failed |-> FALSE]
          /\ z1 = [open |-> Append(z.open, [header |-> Lean!Unnamed, space |-> Lean!Space(z.open)]),
                   names |-> z.names, failed |-> FALSE]
      BY <1>1, <1>7, <2>0, <2>2, LeanSections, Zenon
    <3>2. /\ y1.open = Append(y.open, [header |-> Lean!Unnamed, space |-> Lean!Space(y.open)])
          /\ z1.open = Append(z.open, [header |-> Lean!Unnamed, space |-> Lean!Space(z.open)])
          /\ y1.failed = FALSE /\ z1.failed = FALSE
      BY <3>1
    <3>. QED
      BY <1>2, <3>2, Zenon
  <2>3. CASE l.kind = "end"
    <3>1. PICK h : h = Lean!Headers(l.names)
      OBVIOUS
    <3>2. /\ y1 = [open |-> IF Lean!Ends(y.open, h) THEN SubSeq(y.open, 1, Len(y.open) - Len(h)) ELSE y.open,
                   names |-> y.names, failed |-> ~Lean!Ends(y.open, h)]
          /\ z1 = [open |-> IF Lean!Ends(z.open, h) THEN SubSeq(z.open, 1, Len(z.open) - Len(h)) ELSE z.open,
                   names |-> z.names, failed |-> ~Lean!Ends(z.open, h)]
      BY <1>1, <1>7, <2>0, <2>3, <3>1, LeanEnds, Zenon
    <3>3. /\ y1.open = (IF Lean!Ends(y.open, h) THEN SubSeq(y.open, 1, Len(y.open) - Len(h)) ELSE y.open)
          /\ z1.open = (IF Lean!Ends(z.open, h) THEN SubSeq(z.open, 1, Len(z.open) - Len(h)) ELSE z.open)
          /\ y1.failed = ~Lean!Ends(y.open, h) /\ z1.failed = ~Lean!Ends(z.open, h)
      BY <3>2
    <3>. QED
      BY <1>2, <3>3, Zenon
  <2>4. CASE l.kind \notin {"namespace", "section", "end"}
    <3>1. l.kind \notin {"namespace", "section", "end", "theorem", "hidden"}
      BY <1>7, <2>4
    <3>2. y1 = y /\ z1 = z
      BY <1>1, <1>7, <2>0, <3>1, LeanPasses, Zenon
    <3>. QED
      BY <1>2, <3>2
  <2>. QED
    BY <2>1, <2>2, <2>3, <2>4, Zenon
<1>. QED
  BY <1>2, <1>4, <1>5, <1>6, <1>7

\* A file and what is made of it, line by line.
LEMMA AsReadIs ==
    ASSUME NEW lines, AreWritten(lines), NEW read, read = Lean!AsRead(lines)
    PROVE  /\ Len(read) = Len(lines) /\ AreLines(read)
           /\ \A i \in 1 .. Len(lines) :
                 read[i] = AsLine(lines[i]) /\ ((read[i].kind = "section") <=> (lines[i].kind = "section"))
<1>1. PICK n \in Nat : n = Len(lines) /\ DOMAIN lines = 1..n /\ \A i \in 1..n : IsWritten(lines[i])
  BY Zenon DEF AreWritten
<1>2. read = [i \in 1..n |-> AsLine(lines[i])]
  BY <1>1, Zenon DEF Lean!AsRead, AsLine
<1>3. \A i \in 1..n : read[i] = AsLine(lines[i])
  BY <1>2
<1>4. Len(read) = n
  <2>1. PICK T : T = {AsLine(lines[i]) : i \in 1..n}
    OBVIOUS
  <2>2. read \in [1..n -> T]
    BY <1>2, <2>1
  <2>. QED
    BY <2>2
<1>5. ASSUME NEW i \in 1..n
      PROVE  /\ read[i].names \in Seq(Name) /\ Plain(read[i])
             /\ (read[i].kind = "section") <=> (lines[i].kind = "section")
  <2>1. PICK l : l = lines[i] /\ read[i] = AsLine(l) /\ IsWritten(l)
    BY <1>1, <1>3
  <2>2. AsLine(l).names \in Seq(Name) /\ Plain(AsLine(l))
        /\ ((AsLine(l).kind = "section") <=> (l.kind = "section"))
    BY <2>1, AsLineIs, Zenon
  <2>. QED
    BY <2>1, <2>2, Zenon
<1>6. AreLines(read)
  BY <1>4, <1>5, Zenon DEF AreLines
<1>. QED
  BY <1>1, <1>3, <1>4, <1>5, <1>6

\* The reader and Lean after k lines of both.
Alike(lines, read, k) ==
    /\ Named(read, k) = Named(lines, k) /\ Decided(Named(lines, k))
    /\ SameScopes(Elaborated(read, k), Elaborated(lines, k))

\* After one more line,
LEMMA AlikeOne ==
    ASSUME NEW lines, AreWritten(lines), NEW read, read = Lean!AsRead(lines),
           NEW k \in Nat, k + 1 <= Len(lines), Alike(lines, read, k)
    PROVE  Alike(lines, read, k + 1)
<1>1. PICK s, y, z, l, m, n :
         /\ s = Named(lines, k) /\ y = Elaborated(read, k) /\ z = Elaborated(lines, k)
         /\ n = k + 1 /\ l = lines[n] /\ m = read[n]
  OBVIOUS
<1>2. Len(lines) \in Nat /\ Len(read) = Len(lines)
  BY AsReadIs, Zenon DEF AreWritten
<1>3. k \in 0 .. Len(lines) - 1 /\ k \in 0 .. Len(read) - 1 /\ n \in 1 .. Len(lines) /\ Len(read) \in Nat
  BY <1>1, <1>2
<1>4. IsWritten(l) /\ m = AsLine(l)
  BY <1>1, <1>3, AsReadIs, Zenon DEF AreWritten
<1>5. /\ Named(read, k) = s /\ Decided(s) /\ SameScopes(y, z)
  BY <1>1, Zenon DEF Alike
<1>6. Named(lines, n) = Lean!NameNext(s, l) /\ Elaborated(lines, n) = Lean!LeanNext(z, l)
  BY <1>1, <1>2, <1>3, NamingUnfolds, ElaboratingUnfolds, Zenon
<1>7. Named(read, n) = Lean!NameNext(s, m) /\ Elaborated(read, n) = Lean!LeanNext(y, m)
  BY <1>1, <1>3, <1>5, NamingUnfolds, ElaboratingUnfolds, Zenon
<1>8. Lean!NameNext(s, m) = Lean!NameNext(s, l)
  BY <1>4, <1>5, ReadsAlike, Zenon
<1>9. Decided(Lean!NameNext(s, l))
  BY <1>5, Refused, Zenon DEF Keeps
<1>10. SameScopes(Lean!LeanNext(y, m), Lean!LeanNext(z, l))
  BY <1>4, <1>5, NestsAlike, Zenon
<1>. QED
  BY <1>1, <1>6, <1>7, <1>8, <1>9, <1>10, Zenon DEF Alike

\* and after all of them.
LEMMA AlikeAll ==
    ASSUME NEW lines, AreWritten(lines), NEW read, read = Lean!AsRead(lines)
    PROVE  Alike(lines, read, Len(lines))
<1>. DEFINE S == {k \in Nat : k <= Len(lines) => Alike(lines, read, k)}
<1>1. Len(lines) \in Nat /\ Len(read) \in Nat
  BY AsReadIs, Zenon DEF AreWritten
<1>2. 0 \in S
  <2>1. /\ Named(lines, 0) = [stack |-> <<>>, found |-> <<>>, failed |-> FALSE]
        /\ Named(read, 0) = [stack |-> <<>>, found |-> <<>>, failed |-> FALSE]
        /\ Elaborated(lines, 0) = [open |-> <<>>, names |-> <<>>, failed |-> FALSE]
        /\ Elaborated(read, 0) = [open |-> <<>>, names |-> <<>>, failed |-> FALSE]
    BY <1>1, NamingUnfolds, ElaboratingUnfolds, Zenon
  <2>2. Named(lines, 0).failed = FALSE /\ Elaborated(lines, 0).failed = FALSE
    BY <2>1
  <2>3. Decided(Named(lines, 0)) /\ Decided(Elaborated(lines, 0))
    BY <2>2 DEF Decided
  <2>4. Alike(lines, read, 0)
    BY <2>1, <2>3, Zenon DEF Alike, SameScopes
  <2>. QED
    BY <2>4
<1>3. ASSUME NEW k \in Nat, k \in S PROVE k + 1 \in S
  BY <1>1, <1>3, AlikeOne
<1>4. Len(lines) \in S
  <2>. HIDE DEF S
  <2>. QED
    BY <1>1, <1>2, <1>3, Induct
<1>. QED
  BY <1>4

\* So the gate finds the same theorems in both, and Lean accepts both or neither.
LEMMA ReadSame ==
    ASSUME NEW lines, AreWritten(lines), NEW read, read = Lean!AsRead(lines)
    PROVE  /\ Lean!Qualified(read) = Lean!Qualified(lines)
           /\ Lean!LeanNames(read).ok = Lean!LeanNames(lines).ok
<1>1. PICK n : n = Len(lines) /\ n = Len(read)
  BY AsReadIs
<1>2. Alike(lines, read, n)
  BY <1>1, AlikeAll, Zenon
<1>3. Lean!Qualified(read) = Lean!Qualified(lines)
  BY <1>1, <1>2, Zenon DEF Alike, Lean!Qualified, Named
<1>4. PICK y, z : y = Elaborated(read, n) /\ z = Elaborated(lines, n)
  OBVIOUS
<1>5. y.failed = z.failed /\ y.open = z.open
  BY <1>2, <1>4, Zenon DEF Alike, SameScopes
<1>6. /\ Lean!LeanNames(read) = [ok |-> ~y.failed /\ y.open = <<>>, names |-> y.names]
      /\ Lean!LeanNames(lines) = [ok |-> ~z.failed /\ z.open = <<>>, names |-> z.names]
  BY <1>1, <1>4, Zenon DEF Lean!LeanNames, Elaborated
<1>7. /\ Lean!LeanNames(read).ok = (~y.failed /\ y.open = <<>>)
      /\ Lean!LeanNames(lines).ok = (~z.failed /\ z.open = <<>>)
  BY <1>6
<1>. QED
  BY <1>3, <1>5, <1>7, Zenon

\* Of a file that Lean accepts the reader finds, under the names Lean gives them, the
\* theorems that begin a line with names of one part; those with dotted names under the
\* first part; no other; or it refuses the file, and without a section it does not
\* (validate_phase10_gate_base.py _lean_fully_qualified_theorems).
THEOREM NamesAreRight ==
    ASSUME NEW lines, AreWritten(lines), Lean!LeanNames(lines).ok
    PROVE  /\ Lean!Qualified(lines).ok =>
                 Lean!Qualified(lines).names = Lean!LeanNames(Lean!AsRead(lines)).names
           /\ (\A i \in 1 .. Len(lines) : lines[i].kind # "section") => Lean!Qualified(lines).ok
<1>1. PICK read : read = Lean!AsRead(lines)
  OBVIOUS
<1>2. /\ AreLines(read) /\ Len(read) = Len(lines)
      /\ \A i \in 1 .. Len(lines) : (read[i].kind = "section") <=> (lines[i].kind = "section")
  BY <1>1, AsReadIs, Zenon
<1>3. Lean!Qualified(read) = Lean!Qualified(lines) /\ Lean!LeanNames(read).ok
  BY <1>1, ReadSame, Zenon
<1>4. /\ Lean!Qualified(read).ok => Lean!Qualified(read).names = Lean!LeanNames(read).names
      /\ (\A i \in 1 .. Len(read) : read[i].kind # "section") => Lean!Qualified(read).ok
  BY <1>2, <1>3, PlainNames
<1>. QED
  BY <1>1, <1>2, <1>3, <1>4, Zenon
-----------------------------------------------------------------------------
\* The names and the paths of them.
LEMMA NameIs ==
    /\ "QSOLFed" \in Name /\ "A" \in Name /\ "t" \in Name /\ "u" \in Name /\ "s" \in Name
    /\ "a" \in Name
    /\ <<>> \in Seq(Name) /\ \A x, y \in Name : <<x>> \in Seq(Name) /\ <<x, y>> \in Seq(Name)
<1>1. /\ "QSOLFed" \in Name /\ "A" \in Name /\ "t" \in Name /\ "u" \in Name /\ "s" \in Name
      /\ "a" \in Name
  <2>1. /\ "QSOLFed" # Lean!Unnamed /\ "A" # Lean!Unnamed /\ "t" # Lean!Unnamed
        /\ "u" # Lean!Unnamed /\ "s" # Lean!Unnamed /\ "a" # Lean!Unnamed
    BY Zenon DEF Lean!Unnamed
  <2>. QED
    BY <2>1, Zenon DEF Name, OfSources
<1>2. <<>> \in Seq(Name) /\ \A x, y \in Name : <<x>> \in Seq(Name) /\ <<x, y>> \in Seq(Name)
  OBVIOUS
<1>. QED
  BY <1>1, <1>2

\* The names of a theorem are some.
LEMMA NamesAreSome ==
    \A x, y : ~(<<x>> = <<>>) /\ ~(<<x, y>> = <<>>)
OBVIOUS

\* A line with names is written,
LEMMA WithNames ==
    ASSUME NEW k, NEW names \in Seq(Name), ~(names = <<>>)
    PROVE  IsWritten(Lean!Line(k, names))
<1>1. PICK l : l = Lean!Line(k, names)
  OBVIOUS
<1>2. l.names = names
  BY <1>1, LineIsOne, Zenon
<1>. QED
  BY <1>1, <1>2, Zenon DEF IsWritten

\* and one without that is no theorem.
LEMMA WithoutNames ==
    ASSUME NEW k, ~(k = "theorem") PROVE IsWritten(Lean!Line(k, <<>>))
<1>1. PICK l, none : l = Lean!Line(k, none) /\ none = <<>>
  OBVIOUS
<1>2. l.names = none /\ l.kind = k
  BY <1>1, LineIsOne, Zenon
<1>3. none \in Seq(Name)
  BY <1>1, NameIs, Zenon
<1>. QED
  BY <1>1, <1>2, <1>3, Zenon DEF IsWritten

\* The lines of the files are written.
LEMMA LinesAre == ASSUME NEW l \in Lean!Lines PROVE IsWritten(l)
<1>1. \/ \E k : \E names \in {<<"QSOLFed">>, <<"A">>, <<"QSOLFed", "A">>, <<"t">>, <<"t", "s">>} :
            l = Lean!Line(k, names)
      \/ l = Lean!Line("end", <<>>) \/ l = Lean!Line("section", <<>>)
  BY Zenon DEF Lean!Lines
<1>2. ASSUME NEW k,
             NEW names \in {<<"QSOLFed">>, <<"A">>, <<"QSOLFed", "A">>, <<"t">>, <<"t", "s">>},
             l = Lean!Line(k, names)
      PROVE  IsWritten(l)
  <2>1. names \in Seq(Name) /\ ~(names = <<>>)
    BY NameIs, NamesAreSome, Zenon
  <2>. QED
    BY <1>2, <2>1, WithNames, Zenon
<1>3. IsWritten(Lean!Line("end", <<>>)) /\ IsWritten(Lean!Line("section", <<>>))
  BY KindsDiffer, WithoutNames, Zenon
<1>. QED
  BY <1>1, <1>2, <1>3, Zenon

\* No file of these lines is misnamed.
LEMMA NoneIsMisnamed == Lean!Misnamed = {}
<1>1. SUFFICES ASSUME NEW lines \in UNION {[1..n -> Lean!Lines] : n \in 0..5}
               PROVE  ~Lean!IsMisnamed(lines)
  BY Zenon DEF Lean!Misnamed
<1>2. PICK n \in 0..5 : lines \in [1..n -> Lean!Lines]
  OBVIOUS
<1>3. n \in Nat /\ Len(lines) = n /\ DOMAIN lines = 1..n
  BY <1>2
<1>4. \A i \in 1..n : lines[i] \in Lean!Lines
  BY <1>2
<1>5. AreWritten(lines)
  BY <1>3, <1>4, LinesAre, Zenon DEF AreWritten
<1>6. ASSUME Lean!LeanNames(lines).ok
      PROVE  /\ Lean!Qualified(lines).ok =>
                   Lean!Qualified(lines).names = Lean!LeanNames(Lean!AsRead(lines)).names
             /\ (\A i \in 1 .. Len(lines) : lines[i].kind # "section") => Lean!Qualified(lines).ok
  BY <1>5, <1>6, NamesAreRight
<1>. QED
  BY <1>3, <1>6, Zenon DEF Lean!IsMisnamed

-----------------------------------------------------------------------------
\* The file of a project: a namespace and in it theorems, and axioms perhaps.
BodyLines ==
    {Lean!Line("theorem", <<"t">>), Lean!Line("theorem", <<"u">>), Lean!Line("theorem", <<"u", "s">>),
     Lean!Line("hidden", <<"u">>), Lean!Axiom}
First == Lean!Line("namespace", <<"QSOLFed">>)
Last == Lean!Line("end", <<"QSOLFed">>)
IsSource(lines, n) ==
    /\ n \in Nat /\ Len(lines) = n + 2 /\ DOMAIN lines = 1 .. n + 2
    /\ lines[1] = First /\ lines[n + 2] = Last
    /\ \A i \in 1..n : lines[i + 1] \in BodyLines

\* The sources of a project are such files.
LEMMA SourcesAre == ASSUME NEW lines \in Lean!Sources PROVE \E n : IsSource(lines, n)
<1>1. PICK body \in UNION {[1..n -> BodyLines] : n \in 0..3} : lines = <<First>> \o body \o <<Last>>
  BY Zenon DEF Lean!Sources, First, Last, BodyLines
<1>2. PICK n \in 0..3 : body \in [1..n -> BodyLines]
  OBVIOUS
<1>. DEFINE Some == BodyLines \cup {First, Last}
<1>3. body \in Seq(Some) /\ Len(body) = n /\ <<First>> \in Seq(Some) /\ <<Last>> \in Seq(Some) /\ n \in Nat
  BY <1>2
<1>4. \A i \in 1..n : body[i] \in BodyLines
  BY <1>2
<1>5. PICK a, b, c \in Seq(Some) : a = <<First>> /\ b = body /\ c = <<Last>>
  BY <1>3
<1>6. lines = (a \o b) \o c
  BY <1>1, <1>5
<1>7. Len(a) = 1 /\ a[1] = First /\ Len(c) = 1 /\ c[1] = Last /\ Len(b) = n
  BY <1>3, <1>5
<1>. HIDE DEF Some
<1>8. PICK d : d = a \o b
  OBVIOUS
<1>9. d \in Seq(Some) /\ Len(d) = n + 1 /\ d[1] = First /\ \A i \in 1..n : d[i + 1] = b[i]
  <2>1. /\ a \o b \in Seq(Some) /\ Len(a \o b) = Len(a) + Len(b)
        /\ \A i \in 1 .. Len(a) : (a \o b)[i] = a[i]
        /\ \A i \in 1 .. Len(b) : (a \o b)[Len(a) + i] = b[i]
    OBVIOUS
  <2>2. /\ d \in Seq(Some) /\ Len(d) = 1 + n
        /\ \A i \in 1..1 : d[i] = a[i]
        /\ \A i \in 1..n : d[1 + i] = b[i]
    BY <1>7, <1>8, <2>1, Zenon
  <2>3. 1 \in 1..1 /\ 1 + n = n + 1 /\ \A i \in 1..n : 1 + i = i + 1
    BY <1>3
  <2>. QED
    BY <1>7, <2>2, <2>3, Zenon
<1>10. PICK e : e = d \o c
  OBVIOUS
<1>11. /\ Len(e) = n + 2 /\ e[1] = First /\ e[n + 2] = Last /\ DOMAIN e = 1 .. n + 2
       /\ \A i \in 1..n : e[i + 1] = b[i]
  <2>1. PICK x \in Seq(Some) : x = d
    BY <1>9, Zenon
  <2>2. /\ x \o c \in Seq(Some) /\ Len(x \o c) = Len(x) + Len(c)
        /\ \A i \in 1 .. Len(x) : (x \o c)[i] = x[i]
        /\ \A i \in 1 .. Len(c) : (x \o c)[Len(x) + i] = c[i]
    OBVIOUS
  <2>3. /\ e \in Seq(Some) /\ Len(e) = (n + 1) + 1
        /\ \A i \in 1 .. n + 1 : e[i] = d[i]
        /\ \A i \in 1..1 : e[(n + 1) + i] = c[i]
    BY <1>7, <1>9, <1>10, <2>1, <2>2, Zenon
  <2>4. DOMAIN e = 1 .. Len(e)
    BY <2>3
  <2>5. /\ 1 \in 1..1 /\ (n + 1) + 1 = n + 2 /\ 1 \in 1 .. n + 1
        /\ \A i \in 1..n : i + 1 \in 1 .. n + 1
    BY <1>3
  <2>. QED
    BY <1>7, <1>9, <2>3, <2>4, <2>5, Zenon
<1>12. lines = e
  BY <1>6, <1>8, <1>10
<1>. QED
  BY <1>3, <1>4, <1>5, <1>11, <1>12, Zenon DEF IsSource
\* Lean accepts it.
LEMMA SourcesAreAccepted ==
    ASSUME NEW lines, NEW n, IsSource(lines, n)
    PROVE  AreWritten(lines) /\ Lean!LeanNames(lines).ok
<1>. DEFINE label == <<"QSOLFed">>
            one == Lean!Opened(<<>>, label)
            S == {k \in Nat : k <= n =>
                     Elaborated(lines, k + 1).failed = FALSE /\ Elaborated(lines, k + 1).open = one}
<1>1. /\ n \in Nat /\ Len(lines) = n + 2 /\ lines[1] = First /\ lines[n + 2] = Last
      /\ DOMAIN lines = 1 .. n + 2
      /\ \A i \in 1..n : lines[i + 1] \in BodyLines
  BY Zenon DEF IsSource
<1>2. /\ First.kind = "namespace" /\ First.names = label
      /\ Last.kind = "end" /\ Last.names = label /\ label \in Seq(Name)
  BY LineIsOne, NameIs DEF First, Last
<1>3. ASSUME NEW l \in BodyLines
      PROVE  IsWritten(l) /\ (l.kind = "theorem" \/ l.kind = "hidden" \/ l.kind = "axiom")
  <2>1. \E k \in {"theorem", "hidden", "axiom"} : \E names \in {<<"t">>, <<"u">>, <<"u", "s">>, <<"a">>} :
           l = Lean!Line(k, names)
    BY Zenon DEF BodyLines, Lean!Axiom
  <2>2. PICK k \in {"theorem", "hidden", "axiom"} : \E names \in {<<"t">>, <<"u">>, <<"u", "s">>, <<"a">>} :
           l = Lean!Line(k, names)
    BY <2>1, Zenon
  <2>3. PICK names \in {<<"t">>, <<"u">>, <<"u", "s">>, <<"a">>} : l = Lean!Line(k, names)
    BY <2>2, Zenon
  <2>4. names \in Seq(Name) /\ ~(names = <<>>)
    BY NameIs, NamesAreSome, Zenon
  <2>5. IsWritten(l)
    BY <2>3, <2>4, WithNames, Zenon
  <2>6. l.kind = k
    BY <2>3, LineIsOne, Zenon
  <2>. QED
    BY <2>2, <2>5, <2>6, Zenon
<1>4. AreWritten(lines)
  <2>0. IsWritten(First) /\ IsWritten(Last)
    <3>1. label \in Seq(Name) /\ ~(label = <<>>)
      BY NameIs, NamesAreSome, Zenon
    <3>2. IsWritten(Lean!Line("namespace", label)) /\ IsWritten(Lean!Line("end", label))
      BY <3>1, WithNames, Zenon
    <3>. QED
      BY <3>2, Zenon DEF First, Last
  <2>1. ASSUME NEW i \in 1 .. n + 2 PROVE IsWritten(lines[i])
    <3>1. CASE i = 1
      BY <1>1, <2>0, <3>1, Zenon
    <3>2. CASE i = n + 2
      BY <1>1, <2>0, <3>2, Zenon
    <3>3. CASE i # 1 /\ i # n + 2
      <4>1. i - 1 \in 1..n /\ (i - 1) + 1 = i
        BY <1>1, <3>3
      <4>2. lines[(i - 1) + 1] \in BodyLines
        BY <1>1, <4>1, Zenon
      <4>. QED
        BY <1>3, <4>1, <4>2
    <3>. QED
      BY <3>1, <3>2, <3>3
  <2>2. Len(lines) \in Nat /\ DOMAIN lines = 1 .. Len(lines) /\ 1 .. Len(lines) = 1 .. n + 2
    BY <1>1
  <2>. QED
    BY <2>1, <2>2, Zenon DEF AreWritten
<1>. HIDE DEF label, one
<1>5. 0 \in S
  <2>1. 0 \in 0 .. Len(lines) - 1 /\ 0 + 1 = 1 /\ Len(lines) \in Nat
    BY <1>1
  <2>2. PICK z, z1 : z = Elaborated(lines, 0) /\ z1 = Elaborated(lines, 1)
    OBVIOUS
  <2>3. z1 = Lean!LeanNext(z, First)
    <3>1. Elaborated(lines, 0 + 1) = Lean!LeanNext(Elaborated(lines, 0), lines[0 + 1])
      BY <2>1, ElaboratingUnfolds
    <3>. QED
      BY <1>1, <2>1, <2>2, <3>1, Zenon
  <2>4. z = [open |-> <<>>, names |-> <<>>, failed |-> FALSE]
    BY <2>1, <2>2, ElaboratingUnfolds
  <2>5. z.failed = FALSE /\ z.open = <<>>
    BY <2>4
  <2>6. z1 = [open |-> Lean!Opened(z.open, First.names), names |-> z.names, failed |-> FALSE]
    BY <1>2, <2>3, <2>5, LeanOpens, Zenon
  <2>7. z1.open = one /\ z1.failed = FALSE
    BY <1>2, <2>5, <2>6 DEF one
  <2>. QED
    BY <2>1, <2>2, <2>7
<1>6. ASSUME NEW k \in Nat, k \in S PROVE k + 1 \in S
  <2>0. k + 1 \in Nat /\ (k + 1 <= n) \in BOOLEAN
    BY <1>1
  <2>1. SUFFICES ASSUME k + 1 <= n
                 PROVE  Elaborated(lines, (k + 1) + 1).failed = FALSE /\ Elaborated(lines, (k + 1) + 1).open = one
    BY <2>0, Zenon
  <2>2. k + 1 \in 0 .. Len(lines) - 1 /\ k + 1 \in 1..n /\ Len(lines) \in Nat
    BY <1>1, <2>1
  <2>3. PICK z, z1, l : z = Elaborated(lines, k + 1) /\ z1 = Elaborated(lines, (k + 1) + 1)
                        /\ l = lines[(k + 1) + 1]
    OBVIOUS
  <2>4. z1 = Lean!LeanNext(z, l)
    BY <2>2, <2>3, ElaboratingUnfolds
  <2>5. z.failed = FALSE /\ z.open = one
    BY <1>1, <1>6, <2>1, <2>3
  <2>6. l \in BodyLines
    BY <1>1, <2>2, <2>3, Zenon
  <2>7. CASE l.kind = "theorem" \/ l.kind = "hidden"
    <3>1. z1 = [open |-> z.open, names |-> Append(z.names, Lean!Space(z.open) \o l.names), failed |-> FALSE]
      BY <2>4, <2>5, <2>7, LeanFindsAny, Zenon
    <3>. QED
      BY <2>3, <2>5, <3>1
  <2>8. CASE l.kind = "axiom"
    <3>1. l.kind \notin {"namespace", "section", "end", "theorem", "hidden"}
      BY <2>8
    <3>2. z1 = z
      BY <2>4, <2>5, <3>1, LeanPasses, Zenon
    <3>. QED
      BY <2>3, <2>5, <3>2
  <2>. QED
    BY <1>3, <2>6, <2>7, <2>8
<1>7. n \in S
  <2>. HIDE DEF S
  <2>. QED
    BY <1>1, <1>5, <1>6, Induct
<1>8. PICK z, z1 : z = Elaborated(lines, n + 1) /\ z1 = Elaborated(lines, n + 2)
  OBVIOUS
<1>9. z.failed = FALSE /\ z.open = one
  BY <1>1, <1>7, <1>8
<1>10. z1 = Lean!LeanNext(z, Last)
  <2>1. n + 1 \in 0 .. Len(lines) - 1 /\ (n + 1) + 1 = n + 2 /\ Len(lines) \in Nat
    BY <1>1
  <2>2. Elaborated(lines, (n + 1) + 1) = Lean!LeanNext(Elaborated(lines, n + 1), lines[(n + 1) + 1])
    BY <2>1, ElaboratingUnfolds
  <2>. QED
    BY <1>1, <1>8, <2>1, <2>2, Zenon
<1>11. Lean!Headers(label) = label
  BY Zenon DEF Lean!Headers, label
<1>12. /\ Len(label) = 1 /\ Len(one) = 1 /\ one[1].header = label[1]
       /\ SubSeq(one, 1, Len(one) - Len(label)) = <<>>
  <2>1. Len(label) = 1 /\ label[1] = "QSOLFed"
    BY DEF label
  <2>2. PICK s : s = [header |-> label[1], space |-> Lean!Space(<<>>) \o SubSeq(label, 1, 1)]
    OBVIOUS
  <2>3. one = <<>> \o [i \in 1..1 |->
                 [header |-> label[i], space |-> Lean!Space(<<>>) \o SubSeq(label, 1, i)]]
    BY <2>1, Zenon DEF one, Lean!Opened
  <2>4. PICK f : f = [i \in 1..1 |->
                 [header |-> label[i], space |-> Lean!Space(<<>>) \o SubSeq(label, 1, i)]]
    OBVIOUS
  <2>5. f \in [1..1 -> {s}]
    BY <2>2, <2>4
  <2>6. f \in Seq({s}) /\ Len(f) = 1 /\ f[1] = s
    <3>1. PICK T : T = {s}
      OBVIOUS
    <3>2. f \in [1..1 -> T]
      BY <2>5, <3>1, Zenon
    <3>3. PICK n1 \in Nat : n1 = 1
      OBVIOUS
    <3>4. f \in [1..n1 -> T]
      BY <3>2, <3>3, Zenon
    <3>5. f \in Seq(T) /\ Len(f) = n1
      BY <3>4
    <3>6. f[1] \in T
      BY <3>3, <3>4
    <3>. QED
      BY <3>1, <3>3, <3>5, <3>6, Zenon
  <2>7. one = f
    BY <2>3, <2>4, <2>6
  <2>8. s.header = label[1]
    BY <2>2
  <2>9. SubSeq(f, 1, 0) = <<>>
    BY <2>6
  <2>. QED
    BY <2>1, <2>6, <2>7, <2>8, <2>9
<1>13. Lean!Ends(one, label)
  BY <1>12 DEF Lean!Ends
<1>14. z1 = [open |-> IF Lean!Ends(one, label)
                        THEN SubSeq(one, 1, Len(one) - Len(label)) ELSE one,
             names |-> z.names, failed |-> ~Lean!Ends(one, label)]
  <2>1. Lean!LeanNext(z, Last) =
           [open |-> IF Lean!Ends(z.open, Lean!Headers(Last.names))
                       THEN SubSeq(z.open, 1, Len(z.open) - Len(Lean!Headers(Last.names))) ELSE z.open,
            names |-> z.names, failed |-> ~Lean!Ends(z.open, Lean!Headers(Last.names))]
    BY <1>2, <1>9, LeanEnds, Zenon
  <2>. QED
    BY <1>2, <1>9, <1>10, <1>11, <2>1, Zenon
<1>15. z1.open = <<>> /\ z1.failed = FALSE
  BY <1>12, <1>13, <1>14
<1>16. Lean!LeanNames(lines) = [ok |-> ~z1.failed /\ z1.open = <<>>, names |-> z1.names]
  BY <1>1, <1>8, Zenon DEF Lean!LeanNames, Elaborated
<1>17. Lean!LeanNames(lines).ok = (~z1.failed /\ z1.open = <<>>)
  BY <1>16
<1>. QED
  BY <1>4, <1>15, <1>17

\* What passes has its theorems, as they are read, in the audit, in their order.
LEMMA PassedIsAudited ==
    ASSUME NEW lines, NEW n, IsSource(lines, n), NEW m \in Nat, NEW manifest, DOMAIN manifest = 1..m,
           NEW audited, Lean!VerifyTheorems(lines, manifest), Lean!VerifyAxiomAudit(audited, manifest)
    PROVE  LET read == Lean!LeanNames(Lean!AsRead(lines)).names
           IN  /\ Lean!LeanNames(lines).ok
               /\ {<<"QSOLFed", name>> : name \in Range(audited)} = Range(read)
               /\ Len(audited) = Len(read)
<1>1. AreWritten(lines) /\ Lean!LeanNames(lines).ok
  BY SourcesAreAccepted
<1>2. PICK names : names = Lean!LeanNames(Lean!AsRead(lines)).names
  OBVIOUS
<1>3. names = [i \in 1..m |-> <<"QSOLFed", manifest[i].declaration>>]
  <2>1. /\ Lean!Qualified(lines).ok
        /\ Lean!Qualified(lines).names = [i \in 1..m |-> <<"QSOLFed", manifest[i].declaration>>]
    BY Zenon DEF Lean!VerifyTheorems
  <2>2. Lean!Qualified(lines).names = Lean!LeanNames(Lean!AsRead(lines)).names
    BY <1>1, <2>1, NamesAreRight
  <2>. QED
    BY <1>2, <2>1, <2>2, Zenon
<1>4. audited = [i \in 1..m |-> manifest[i].declaration]
  BY Zenon DEF Lean!VerifyAxiomAudit
<1>5. Len(audited) = m /\ Len(names) = m
  <2>1. audited \in [1..m -> {manifest[i].declaration : i \in 1..m}]
    BY <1>4
  <2>2. names \in [1..m -> {<<"QSOLFed", manifest[i].declaration>> : i \in 1..m}]
    BY <1>3
  <2>. QED
    BY <2>1, <2>2
<1>6. {<<"QSOLFed", name>> : name \in Range(audited)} = Range(names)
  <2>1. DOMAIN audited = 1..m /\ DOMAIN names = 1..m
    BY <1>3, <1>4
  <2>2. \A i \in 1..m : names[i] = <<"QSOLFed", audited[i]>>
    BY <1>3, <1>4
  <2>3. Range(audited) = {audited[i] : i \in 1..m} /\ Range(names) = {names[i] : i \in 1..m}
    BY <2>1, Zenon DEF Range
  <2>. QED
    BY <2>2, <2>3, Zenon
<1>. QED
  BY <1>1, <1>2, <1>5, <1>6, Zenon

\* A file without axioms has none.
LEMMA NoAxiomIn ==
    ASSUME NEW lines, \A i \in DOMAIN lines : lines[i].kind # "axiom"
    PROVE  Lean!Axiom \notin Range(lines)
<1>1. SUFFICES ASSUME NEW i \in DOMAIN lines, lines[i] = Lean!Axiom PROVE FALSE
  BY Zenon DEF Range
<1>2. PICK l : l = Lean!Axiom
  OBVIOUS
<1>3. l.kind = "axiom"
  BY <1>2, LineIsOne DEF Lean!Axiom
<1>4. lines[i].kind = "axiom"
  BY <1>1, <1>2, <1>3, Zenon
<1>. QED
  BY <1>4, Zenon

\* No project passes with an axiom, or with a theorem that is read and not audited.
LEMMA NoneIsUnaudited == Lean!Unaudited = {}
<1>1. SUFFICES ASSUME NEW q \in Lean!Sources \X Lean!Manifests \X Lean!Audits \X Lean!Others,
                      Lean!VerifyTheorems(q[1], q[2]), Lean!VerifyAxiomAudit(q[3], q[2]),
                      Lean!VerifyNoCustomAxioms({q[1], q[4]}),
                      \/ Lean!Axiom \in Range(q[1]) \cup Range(q[4])
                      \/ ~Lean!LeanNames(q[1]).ok
                      \/ {<<"QSOLFed", n>> : n \in Range(q[3])}
                            # Range(Lean!LeanNames(Lean!AsRead(q[1])).names)
                      \/ Len(q[3]) # Len(Lean!LeanNames(Lean!AsRead(q[1])).names)
               PROVE  FALSE
  <2>1. \A f : Lean!Range(f) = Range(f)
    BY Zenon DEF Lean!Range, Range
  <2>. QED
    BY <2>1, Zenon DEF Lean!Unaudited
<1>2. q[1] \in Lean!Sources /\ q[2] \in Lean!Manifests
  BY <1>1
<1>3. PICK lines, manifest, audited, other :
         lines = q[1] /\ manifest = q[2] /\ audited = q[3] /\ other = q[4]
  OBVIOUS
<1>4. PICK n : IsSource(lines, n)
  BY <1>2, <1>3, SourcesAre
<1>5. PICK m \in 0..2 : manifest \in [1..m -> Lean!Entries]
  BY <1>2, <1>3 DEF Lean!Manifests
<1>6. m \in Nat /\ DOMAIN manifest = 1..m
  BY <1>5
<1>7. /\ Lean!VerifyTheorems(lines, manifest) /\ Lean!VerifyAxiomAudit(audited, manifest)
      /\ Lean!VerifyNoCustomAxioms({lines, other})
  BY <1>1, <1>3, Zenon
<1>8. /\ Lean!LeanNames(lines).ok
      /\ {<<"QSOLFed", name>> : name \in Range(audited)}
            = Range(Lean!LeanNames(Lean!AsRead(lines)).names)
      /\ Len(audited) = Len(Lean!LeanNames(Lean!AsRead(lines)).names)
  BY <1>4, <1>6, <1>7, PassedIsAudited, Zenon
<1>9. Lean!Axiom \notin Range(lines) /\ Lean!Axiom \notin Range(other)
  <2>1. \A f \in {lines, other} : \A i \in DOMAIN f : f[i].kind # "axiom"
    BY <1>7, Zenon DEF Lean!VerifyNoCustomAxioms
  <2>2. /\ \A i \in DOMAIN lines : lines[i].kind # "axiom"
        /\ \A i \in DOMAIN other : other[i].kind # "axiom"
    BY <2>1, Zenon
  <2>. QED
    BY <2>2, NoAxiomIn, Zenon
<1>. QED
  BY <1>1, <1>3, <1>8, <1>9, Zenon

\* The phase 10 gate of every text keeps the code in its place and refuses what ends
\* within a comment or a string; it finds the theorems that begin a line, under the names
\* Lean gives them as far as its pattern reaches (a dotted name is cut, a theorem of
\* another form is not seen: AsRead says what is left); and what passes has each of those
\* in the axiom audit, and no axiom of its own in any file
\* (validate_phase10_gate_base.py _lean_code_only, _lean_fully_qualified_theorems,
\* verify_theorems, verify_axiom_audit_coverage, verify_no_custom_axioms).
THEOREM SourcesAreAudited == Spec => []AuditsTheSource
<1>1. Lean!AuditsTheSource
  BY NoneIsMisread, NoneIsUnended, NoneIsMisnamed, NoneIsUnaudited, Zenon DEF Lean!AuditsTheSource
<1>2. AuditsTheSource
  BY <1>1, Zenon DEF AuditsTheSource
<1>. QED
  BY <1>2, PTL
=============================================================================
