------------------------------ MODULE Graduation ------------------------------
(***************************************************************************)
(* The exact-commit graduation: tools/validate_phase9_gate.py starts       *)
(* tools/run_moriarty.py for a target commit; the runner runs the fixed    *)
(* probes on exports of the target, replays every accepted counterexample  *)
(* at the commit it was found at and at the one that resolved it, writes   *)
(* its report and prints the report's digest; the gate judges the report.  *)
(* Meanwhile the checkout changes, another run of the gate works in the    *)
(* same directory, and the runner may die anywhere.                        *)
(*                                                                         *)
(* What a probe does is its outcome here (ProbeRun). A commit's files are  *)
(* the commit; bytes and their digests are the values themselves.          *)
(***************************************************************************)
EXTENDS Integers, FiniteSets

CONSTANTS
    Commit,     \* commits of the repository
    Ancestry,   \* pairs: git merge-base --is-ancestor
    Target,     \* --target-commit
    SameTools,  \* commits whose harness files are those of the target
    Probe,      \* EXPECTED_PROBES
    RustProbe,  \* rust_all
    Family,     \* EXPECTED_FAMILIES
    Outcome,    \* what report_probe_result keeps of a probe: ok, kind, code, output
    Broken,     \* the outcome of a probe the harness could not run
    Version,    \* what the fixtures of the target may be: a corpus and a registry
    Around,     \* what those of other commits, and edited ones, may be
    Elsewhere,  \* reports other runs of the gate write
    Checkouts,  \* bound of the model: commits that are checked out
    MaxChanges, \* bound of the model: changes of the checkout
    Edited, NoCommit, NoEntry, NoReport, NoCode

ASSUME GraduationAssumption ==
    /\ Target \in SameTools /\ SameTools \subseteq Commit /\ Checkouts \subseteq Commit
    /\ Ancestry \subseteq Commit \X Commit
    /\ RustProbe \in Probe
    /\ Broken \in Outcome /\ ~Broken.ok
    /\ {Edited, NoCommit} \cap Commit = {}
    /\ \A v \in Version : IsFiniteSet(v.registry)
    /\ MaxChanges \in Nat

VARIABLES
    version,    \* the fixtures of the target
    head,       \* git rev-parse HEAD
    tree,       \* the commit the tracked files and the index are equal to, or Edited
    changes,
    file,       \* the report at its path: its body, whether it is whole, its author
    leftovers,  \* of probes: processes in the cgroup, files in the quota root
    pc,         \* where the gate or the runner it waits for is
    step,       \* of a check of the checkout
    seenHead,   \* HEAD as tracked_tree_clean reads it
    loaded,     \* the registry the gate read before the run
    cache,      \* _VERIFIED_TREE_CACHE
    results,    \* results of the fixed probes
    replays,    \* remediation_replays
    entry,      \* the counterexample whose resolution is to be replayed
    report,     \* the report as the runner has it
    printed,    \* the digest the runner printed
    code,       \* the runner's return code
    judged,     \* the report the gate passed
    log         \* ghost: what was run: probe, files, outcome

checkout == <<head, tree, changes>>
checking == <<step, seenHead>>
evidence == <<results, replays, entry>>
exits == <<printed, code>>
vars == <<version, checkout, file, leftovers, pc, checking, loaded, cache, evidence, report, exits,
          judged, log>>

-----------------------------------------------------------------------------
(***************************************************************************)
(* The fixtures. An attack has an id, a family, a scope (owner phases and  *)
(* boundaries) and probes; a counterexample repeats those of its attack.   *)
(***************************************************************************)

\* validate_attack_corpus.
CorpusValid(corpus) ==
    /\ {a.family : a \in corpus} = Family /\ Cardinality(corpus) = Cardinality(Family)
    /\ \A a, b \in corpus : a.id = b.id => a = b
    /\ \A a \in corpus : a.probes # {} /\ a.probes \subseteq Probe

\* counterexample_identity_projection: what is found, not what becomes of it.
Identity(e) == <<e.found, e.attack, e.family, e.scope, e.probe, e.failure>>

\* validate_counterexample_shape.
WellFormed(e) ==
    /\ e.probe \in Probe /\ e.family \in Family
    /\ e.failure.kind \in {"exit_nonzero", "timeout", "tool_error"}
    /\ e.failure.kind = "exit_nonzero" <=> e.failure.code # NoCode
    /\ e.status \in {"unresolved", "resolved"}
    /\ e.status = "unresolved" <=> e.resolution = NoCommit
    /\ e.id = Identity(e)

BoundTo(e, corpus) ==
    \E a \in corpus :
        /\ a.id = e.attack /\ a.family = e.family /\ a.scope = e.scope
        /\ e.probe \in a.probes

\* git_commit_exists and git_is_ancestor.
IsAncestor(a, b) == <<a, b>> \in Ancestry

InHistory(e) ==
    /\ IsAncestor(e.found, Target)
    /\ e.status = "resolved" =>
          /\ e.resolution # e.found
          /\ IsAncestor(e.found, e.resolution)
          /\ IsAncestor(e.resolution, Target)

\* validate_registry.
RegistryValid(registry, corpus) ==
    /\ \A e \in registry : WellFormed(e) /\ BoundTo(e, corpus) /\ InHistory(e)
    /\ \A e, f \in registry : e.id = f.id => e = f

Unresolved(registry) == {e \in registry : e.status = "unresolved"}

\* The fixtures as they are in the worktree now.
InTree == IF tree = Target THEN {version} ELSE Around

NoFile == [body |-> NoReport, whole |-> FALSE, author |-> "nobody"]

\* An earlier run may have left parts of a probe; its report is another run's
\* (OtherReport).
Init ==
    /\ version \in Version
    /\ head \in Checkouts /\ tree = head /\ changes = 0
    /\ file = NoFile
    /\ leftovers \in SUBSET {"processes", "files"}
    /\ pc = "idle" /\ step = "head" /\ seenHead = NoCommit
    /\ loaded = {} /\ cache = NoCommit
    /\ results = {} /\ replays = {} /\ entry = NoEntry
    /\ report = NoReport /\ printed = NoReport /\ code = NoCode /\ judged = NoReport
    /\ log = {}

-----------------------------------------------------------------------------
(***************************************************************************)
(* Everybody else.                                                         *)
(***************************************************************************)

\* Another commit is checked out, files and HEAD one after the other, or a
\* tracked file or the index is edited.
Checkout ==
    /\ changes < MaxChanges
    /\ changes' = changes + 1
    /\ \/ head' \in Checkouts /\ UNCHANGED tree
       \/ tree' \in Checkouts \cup {Edited} /\ UNCHANGED head
    /\ UNCHANGED <<version, file, leftovers, pc, checking, loaded, cache, evidence, report, exits,
                   judged, log>>

\* A slip to detect: the report's path is opened for writing, not created.
OverwritesReport == TRUE

\* write_report_exclusive: O_EXCL.
MayCreate == file = NoFile

\* Another run of the gate for the same target creates its report, or has
\* written all of it.
OtherReport ==
    /\ \/ /\ MayCreate
          /\ \E r \in Elsewhere : file' = [body |-> r, whole |-> FALSE, author |-> "other"]
       \/ /\ file.author = "other" /\ ~file.whole
          /\ file' = [file EXCEPT !.whole = TRUE]
    /\ UNCHANGED <<version, checkout, leftovers, pc, checking, loaded, cache, evidence,
                   report, exits, judged, log>>

\* The report is removed so that the gate can be run again.
RemoveReport ==
    /\ file # NoFile
    /\ file' = NoFile
    /\ UNCHANGED <<version, checkout, leftovers, pc, checking, loaded, cache, evidence,
                   report, exits, judged, log>>

\* Processes that survived a probe exit; somebody cleans the quota root.
LeftoverGone ==
    /\ \E l \in leftovers : leftovers' = leftovers \ {l}
    /\ UNCHANGED <<version, checkout, file, pc, checking, loaded, cache, evidence, report, exits,
                   judged, log>>

-----------------------------------------------------------------------------
(***************************************************************************)
(* The checks of the checkout: HEAD is the target, the tracked files and   *)
(* the index are those of HEAD, the harness files are those of the target. *)
(* Each reads something of its own, and HEAD is read twice.                *)
(***************************************************************************)

\* A slip to detect: the files are cached for whatever commit is asked.
FilesOfCache(commit) == IF cache = NoCommit THEN commit ELSE cache

\* _verified_commit_files: a commit's files, from its hash-verified objects; the
\* cache is for the commit it was filled for.
Files(commit) == IF cache = commit THEN cache ELSE commit

Before == {"gate check", "start check", "report check", "final check"}
AfterCheck == [c \in Before |->
    CASE c = "gate check" -> "load" [] c = "start check" -> "prepare"
      [] c = "report check" -> "create" [] c = "final check" -> "print"]

\* A fail() of the gate, and of the runner.
GateFails == pc' = "failed" /\ UNCHANGED exits
RunnerFails == pc' = "exited" /\ code' = 1 /\ UNCHANGED printed
CheckFails == IF pc = "gate check" THEN GateFails ELSE RunnerFails

CheckHead ==
    /\ pc \in Before /\ step = "head"
    /\ IF head = Target THEN step' = "clean" /\ UNCHANGED <<pc, exits>>
                        ELSE CheckFails /\ step' = "head"
    /\ UNCHANGED <<seenHead, cache>>

\* tracked_tree_clean reads the files of HEAD, as HEAD is now, from the objects.
CheckClean ==
    /\ pc \in Before /\ step = "clean"
    /\ seenHead' = head
    /\ cache' = Files(head)
    /\ step' = "tree"
    /\ UNCHANGED <<pc, exits>>

CheckTree ==
    /\ pc \in Before /\ step = "tree"
    /\ IF tree = Files(seenHead)
         THEN step' = "harness" /\ UNCHANGED <<pc, exits>>
         ELSE CheckFails /\ step' = "head"
    /\ UNCHANGED <<seenHead, cache>>

\* harness_files_match_target.
CheckHarness ==
    /\ pc \in Before /\ step = "harness"
    /\ IF tree \in SameTools THEN pc' = AfterCheck[pc] /\ UNCHANGED exits ELSE CheckFails
    /\ cache' = Files(Target)
    /\ step' = "head"
    /\ UNCHANGED seenHead

Check ==
    /\ CheckHead \/ CheckClean \/ CheckTree \/ CheckHarness
    /\ UNCHANGED <<version, checkout, file, leftovers, loaded, evidence, report, judged, log>>

-----------------------------------------------------------------------------
(***************************************************************************)
(* The gate before the run.                                                *)
(***************************************************************************)

\* The quota root must be empty for the gate too.
StartGate ==
    /\ pc = "idle"
    /\ IF "files" \in leftovers THEN GateFails ELSE pc' = "gate check" /\ UNCHANGED exits
    /\ UNCHANGED <<version, checkout, file, leftovers, checking, loaded, cache, evidence, report, judged,
                   log>>

\* The registry is read from the worktree; the report may not be there yet.
Load ==
    /\ pc = "load"
    /\ \E v \in InTree : loaded' = v.registry
    /\ IF file = NoFile THEN pc' = "start check" /\ UNCHANGED exits ELSE GateFails
    /\ cache' = NoCommit       \* the runner is a process of its own
    /\ UNCHANGED <<version, checkout, file, leftovers, checking, evidence, report, judged, log>>

-----------------------------------------------------------------------------
(***************************************************************************)
(* The runner.                                                             *)
(***************************************************************************)

\* A slip to detect: what is exported is the worktree, as it is now.
ExportOfWorktree(commit) == tree

\* create_exact_export: every file of the commit, in a directory of its own.
Export(commit) == Files(commit)

\* The quota root must be empty and the cgroup too; Landlock and seccomp are
\* there; the target is exported, the toolchain staged, the fixtures valid.
Prepare ==
    /\ pc = "prepare"
    /\ \/ RunnerFails /\ UNCHANGED cache
       \/ /\ leftovers = {}
          /\ CorpusValid(version.corpus) /\ RegistryValid(version.registry, version.corpus)
          /\ cache' = Files(Target)
          /\ pc' = "probes" /\ UNCHANGED exits
    /\ UNCHANGED <<version, checkout, file, leftovers, checking, loaded, evidence, report, judged, log>>

Requested ==
    (UNION {a.probes : a \in version.corpus}) \cup {e.probe : e \in version.registry}

\* One probe on a fresh export of a commit (_run_probe_with_cleanup): its
\* outcome, or Broken when the cgroup is not empty or the checkout not clean.
Runs(probe, commit, outcome) ==
    /\ \/ "processes" \notin leftovers /\ tree = head
       \/ outcome = Broken
    /\ log' = log \cup {[probe |-> probe, files |-> Export(commit), outcome |-> outcome]}
    /\ cache' \in {Files(commit), head}       \* tracked_tree_clean reads those of HEAD
    /\ UNCHANGED leftovers

\* SystemExit: an export, a cargo home or a check fails, or tasks of the probe
\* survived the attempts to kill them.
Aborts ==
    /\ leftovers' \in {leftovers, leftovers \cup {"processes"}}
    /\ UNCHANGED <<cache, log>>

Tested == {r.probe : r \in results}

RunProbe ==
    /\ pc = "probes"
    /\ \/ \E p \in Requested \ Tested, o \in Outcome :
            /\ Runs(p, Target, o)
            /\ results' = results \cup {[probe |-> p, outcome |-> o]}
            /\ UNCHANGED <<pc, exits>>
       \/ /\ Requested # Tested
          /\ Aborts
          /\ RunnerFails
          /\ UNCHANGED results
       \/ /\ Requested = Tested
          /\ pc' = "replays"
          /\ UNCHANGED <<leftovers, cache, log, results, exits>>
    /\ UNCHANGED <<version, checkout, file, checking, loaded, replays, entry, report, judged>>

Replayed == {r.entry : r \in replays}
Replay(e, ok, reproduced, green, kind) ==
    [entry |-> e, ok |-> ok, reproduced |-> reproduced, green |-> green, kind |-> kind]

\* counterexample_failure_matches.
Reproduces(e, outcome) == outcome = e.failure

\* The target half of a replay: an entry that is not reproduced is reported; so
\* is an unresolved one that is.
ReplayTarget ==
    /\ pc = "replays" /\ entry = NoEntry
    /\ \E e \in version.registry \ Replayed :
         \/ /\ Aborts
            /\ replays' = replays \cup {Replay(e, FALSE, FALSE, "none", "replay_setup_error")}
            /\ UNCHANGED entry
         \/ \E o \in Outcome :
              /\ Runs(e.probe, e.found, o)
              /\ IF ~Reproduces(e, o)
                   THEN /\ replays' = replays \cup
                             {Replay(e, FALSE, FALSE, "none", "target_failure_not_reproduced")}
                        /\ UNCHANGED entry
                   ELSE IF e.status = "unresolved"
                   THEN /\ replays' = replays \cup {Replay(e, TRUE, TRUE, "none", "none")}
                        /\ UNCHANGED entry
                   ELSE entry' = e /\ UNCHANGED replays
    /\ UNCHANGED <<version, checkout, file, pc, checking, loaded, results, report, exits, judged>>

ReplayResolution ==
    /\ pc = "replays" /\ entry # NoEntry
    /\ entry' = NoEntry
    /\ \/ /\ Aborts
          /\ replays' = replays \cup {Replay(entry, FALSE, TRUE, "red", "replay_setup_error")}
       \/ \E o \in Outcome :
            /\ Runs(entry.probe, entry.resolution, o)
            /\ replays' = replays \cup
                 {IF o.ok THEN Replay(entry, TRUE, TRUE, "green", "none")
                          ELSE Replay(entry, FALSE, TRUE, "red", "resolution_probe_not_green")}
    /\ UNCHANGED <<version, checkout, file, pc, checking, loaded, results, report, exits, judged>>

\* generated_counterexample, for a failed probe of one attack only whose failure
\* is not among the accepted unresolved ones.
Owners(probe) == {a \in version.corpus : probe \in a.probes}

Found(a, r) ==
    LET new == [found |-> Target, attack |-> a.id, family |-> a.family, scope |-> a.scope,
                probe |-> r.probe, failure |-> r.outcome, status |-> "unresolved",
                resolution |-> NoCommit]
    IN [id |-> Identity(new), found |-> new.found, attack |-> new.attack, family |-> new.family,
        scope |-> new.scope, probe |-> new.probe, failure |-> new.failure, status |-> new.status,
        resolution |-> new.resolution]

Generated ==
    UNION {{Found(a, r) : a \in Owners(r.probe)} :
             r \in {r \in results :
                      /\ ~r.outcome.ok
                      /\ \E a \in version.corpus : Owners(r.probe) = {a}
                      /\ ~ \E e \in Unresolved(version.registry), a \in Owners(r.probe) :
                             e.attack = a.id /\ e.probe = r.probe}}

Body ==
    LET counterexamples == version.registry \cup Generated
        unresolved == Cardinality(Unresolved(version.registry)) + Cardinality(Generated)
    IN [corpus |-> version.corpus, results |-> results, replays |-> replays,
        counterexamples |-> counterexamples, unresolved |-> unresolved,
        graduated |-> /\ unresolved = 0
                      /\ \A r \in results : r.outcome.ok
                      /\ \A r \in replays : r.ok]

\* The verdict is drawn before the checkout is checked again.
Conclude ==
    /\ pc = "replays" /\ entry = NoEntry /\ Replayed = version.registry
    /\ report' = Body
    /\ pc' = "report check"
    /\ UNCHANGED <<version, checkout, file, leftovers, checking, loaded, cache, evidence, exits, judged,
                   log>>

\* write_report_exclusive: created, then written; either may fail.
Create ==
    /\ pc = "create"
    /\ \/ RunnerFails /\ UNCHANGED file
       \/ /\ MayCreate
          /\ file' = [body |-> report, whole |-> FALSE, author |-> "runner"]
          /\ pc' = "write" /\ UNCHANGED exits
    /\ UNCHANGED <<version, checkout, leftovers, checking, loaded, cache, evidence, report,
                   judged, log>>

\* The bytes go to the file that was created, if it still has the name; then a
\* blocked Rust probe gets a diagnostic file, unless an earlier run left one.
NeedsDiagnostic ==
    ~report.graduated /\ \E r \in report.results : r.probe = RustProbe /\ ~r.outcome.ok

Write ==
    /\ pc = "write"
    /\ \/ RunnerFails /\ UNCHANGED file
       \/ /\ file' = IF file.author = "runner" THEN [file EXCEPT !.whole = TRUE] ELSE file
          /\ \/ pc' = "final check" /\ UNCHANGED exits
             \/ NeedsDiagnostic /\ RunnerFails
    /\ UNCHANGED <<version, checkout, leftovers, checking, loaded, cache, evidence, report, judged, log>>

Attest ==
    /\ pc = "print"
    /\ printed' = report
    /\ pc' = "exit"
    /\ UNCHANGED <<version, checkout, file, leftovers, checking, loaded, cache, evidence, report, code,
                   judged, log>>

Exit ==
    /\ pc = "exit"
    /\ code' = IF report.graduated THEN 0 ELSE 1
    /\ pc' = "exited"
    /\ UNCHANGED <<version, checkout, file, leftovers, checking, loaded, cache, evidence, report,
                   printed, judged, log>>

\* The runner is killed: in the middle of a probe, processes and files of it stay.
Runner == {"start check", "prepare", "probes", "replays", "report check", "create", "write",
           "final check", "print", "exit"}

Dies ==
    /\ pc \in Runner
    /\ RunnerFails
    /\ step' = "head"
    /\ \/ UNCHANGED leftovers
       \/ pc \in {"probes", "replays"} /\ leftovers' = {"processes", "files"}
    /\ UNCHANGED <<version, checkout, file, seenHead, loaded, cache, evidence, report, judged, log>>

-----------------------------------------------------------------------------
(***************************************************************************)
(* The gate after the run.                                                 *)
(***************************************************************************)

\* A slip to detect: the digest that was printed is not compared.
PresentAndWhole == file # NoFile /\ printed # NoReport /\ file.whole

\* _runner_report_attestation, _read_attested_report.
Attested == file # NoFile /\ file.whole /\ file.body = printed

\* validate_report_common, with the fixtures the worktree has by now.
Consistent(body, corpus, registry) ==
    /\ body.corpus = corpus
    /\ {r.probe : r \in body.results} = Probe
    /\ {r.entry.id : r \in body.replays} = {e.id : e \in registry}
    /\ \A r \in body.replays, e \in registry :
          r.entry.id = e.id => r.entry.status = e.status /\ r.entry.probe = e.probe
    /\ \A r \in body.replays :
          r.ok => /\ r.kind = "none" /\ r.reproduced
                  /\ r.green = IF r.entry.status = "resolved" THEN "green" ELSE "none"
    /\ CorpusValid(corpus)
    /\ \A e \in body.counterexamples : WellFormed(e) /\ BoundTo(e, corpus)
    /\ body.unresolved = Cardinality(Unresolved(body.counterexamples))
    /\ body.graduated <=> /\ \A r \in body.results : r.outcome.ok
                          /\ \A r \in body.replays : r.ok
                          /\ body.unresolved = 0

\* validate_success_report.
Success(body) ==
    /\ \A r \in body.results : r.outcome.ok
    /\ body.counterexamples = loaded
    /\ \A r \in body.replays : r.ok
    /\ body.unresolved = 0
    /\ body.graduated

Judge ==
    /\ pc = "exited"
    /\ \E v, w \in InTree :
         IF Attested /\ Consistent(file.body, v.corpus, w.registry) /\ code = 0 /\ Success(file.body)
           THEN pc' = "passed" /\ judged' = file.body
           ELSE pc' = "failed" /\ UNCHANGED judged
    /\ UNCHANGED <<version, checkout, file, leftovers, checking, loaded, cache, evidence, report, exits,
                   log>>

-----------------------------------------------------------------------------

\* Bound of the model: nothing happens once the gate has ended.
Others ==
    /\ pc \notin {"passed", "failed"}
    /\ Checkout \/ OtherReport \/ RemoveReport \/ LeftoverGone
Gate == StartGate \/ Load \/ Judge
RunnerStep ==
    Prepare \/ RunProbe \/ ReplayTarget \/ ReplayResolution \/ Conclude \/ Create \/ Write \/ Attest
    \/ Exit \/ Dies

Next == Others \/ Check \/ Gate \/ RunnerStep

Spec == Init /\ [][Next]_vars

-----------------------------------------------------------------------------
CheckoutTypes ==
    /\ version \in Version
    /\ head \in Commit /\ tree \in Commit \cup {Edited} /\ changes \in 0..MaxChanges
    /\ seenHead \in Commit \cup {NoCommit} /\ cache \in Commit \cup {NoCommit}

FileTypes ==
    /\ file = [body |-> file.body, whole |-> file.whole, author |-> file.author]
    /\ file.whole \in BOOLEAN /\ file.author \in {"nobody", "other", "runner"}
    /\ file.author = "nobody" => file = NoFile

ControlTypes ==
    /\ pc \in {"idle", "gate check", "load", "exited", "passed", "failed"} \cup Runner
    /\ step \in {"head", "clean", "tree", "harness"}
    /\ leftovers \subseteq {"processes", "files"}
    /\ code \in {0, 1, NoCode}

\* Only what the fixtures ask for is run, on the files of a commit.
EvidenceTypes ==
    /\ \A r \in results : r.probe \in Requested /\ r.outcome \in Outcome
    /\ Replayed \subseteq version.registry /\ entry \in version.registry \cup {NoEntry}
    /\ entry # NoEntry => entry.status = "resolved"
    /\ \A l \in log : l.probe \in Requested /\ l.files \in Commit /\ l.outcome \in Outcome

\* The types of what a run of the gate keeps and reads.
TypeOK == CheckoutTypes /\ FileTypes /\ ControlTypes /\ EvidenceTypes

Green(probe, commit) ==
    \E l \in log : l.probe = probe /\ l.files = commit /\ l.outcome.ok

\* Behind a gate that passes stands what MORIARTY.md promises: in this run every
\* fixed probe was green on the target's own files; every counterexample the
\* target's registry accepts is resolved, failed again as recorded where it was
\* found, and was green at a later commit in the target's history. Whatever the
\* checkout, the fixtures in it and other runs of the gate did meanwhile
\* (run_moriarty main, verify_accepted_counterexamples).
GraduationIsEarned ==
    pc = "passed" =>
        /\ \A p \in Probe : Green(p, Target)
        /\ \A e \in version.registry :
              /\ e.status = "resolved"
              /\ e.found # e.resolution /\ IsAncestor(e.found, e.resolution)
              /\ IsAncestor(e.resolution, Target)
              /\ \E l \in log : l.probe = e.probe /\ l.files = e.found /\ l.outcome = e.failure
              /\ Green(e.probe, e.resolution)

\* The report the gate passes is the one its own runner wrote, although another
\* run may have its own at the same path by then (_read_attested_report).
JudgesOwnReport == pc = "passed" => judged = report

\* A report has one author: nobody's replaces another's, until it is removed
\* (write_report_exclusive).
OneAuthor ==
    [][file # NoFile /\ file' # NoFile => file'.body = file.body /\ file'.author = file.author]_file

-----------------------------------------------------------------------------
(***************************************************************************)
(* The gate of the next phase reads the Lean sources without Lean.         *)
(***************************************************************************)
Lean == INSTANCE LeanAudit

\* The sources do not change while the gate runs: one state asks for all.
Once == Init /\ version = (CHOOSE v \in Version : TRUE) /\ head = Target /\ leftovers = {}

\* The phase 10 gate sees of a Lean source the code between comments and strings and,
\* by their full names, the theorems that begin a line (a dotted name is cut, and a
\* theorem in another form is not seen); and what it passes has every theorem it sees
\* in the axiom audit, and no axiom of its own (validate_phase10_gate_base.py).
AuditsTheSource == Once => Lean!AuditsTheSource
=============================================================================
