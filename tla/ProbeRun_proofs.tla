---------------------------- MODULE ProbeRun_proofs ----------------------------
(***************************************************************************)
(* Proofs about ProbeRun, for any number of descendants and streams and    *)
(* any limits: a green probe is over and complete, recorded evidence is    *)
(* the probe's own, and nothing of a probe survives its verdict; and about *)
(* the code and the tools it is given.                                     *)
(***************************************************************************)
EXTENDS ProbeLaunch, FiniteSetTheorems, TLAPS

LEMMA Bounds ==
    /\ Timeout \in Nat /\ PostExitDrain \in Nat /\ TerminationDrain \in Nat
    /\ CheckInterval \in Nat /\ MaxOutput \in Nat /\ PipeCapacity \in Nat
BY TimersAssumption

-----------------------------------------------------------------------------
(***************************************************************************)
(* Types.                                                                  *)
(***************************************************************************)

LEMMA TypeInit == Init => TypeOK
<1> SUFFICES ASSUME Init PROVE TypeOK
  OBVIOUS
<1>1. verdict \in [ok : BOOLEAN, kind : Kinds, code : {0, 1, Killed, NoCode},
                   truncated : SUBSET Stream]
  BY DEF Init, Kinds, NoVerdict
<1>2. /\ pipe \in [Stream -> 0..PipeCapacity] /\ count \in [Stream -> 0..MaxOutput]
      /\ left \in 0..Timeout /\ check \in 0..CheckInterval /\ budget \in 0..Timeout
      /\ drain \in Timer(PostExitDrain) /\ term \in Timer(TerminationDrain)
  BY Bounds DEF Init, Timer
<1>3. failure \in Kinds \ {"exit_nonzero"} /\ pc \in Harness
  BY SentinelAssumption DEF Init, Kinds, Harness
<1>4. /\ leader \in {"none", "running", "exited", "reaped"}
      /\ code \in {0, 1, Killed, NoCode} /\ status \in {0, 1, Killed, NoCode}
      /\ child \in [Child -> {"none", "running", "zombie"}]
      /\ writers \in [Stream -> SUBSET Proc]
      /\ over \in BOOLEAN /\ sound \in BOOLEAN /\ private \in BOOLEAN
      /\ open \subseteq Stream /\ ready \subseteq Stream
      /\ truncated \subseteq Stream /\ cut \subseteq Stream
  BY DEF Init
<1> QED BY <1>1, <1>2, <1>3, <1>4 DEF TypeOK

\* The probe's own part of the types.
ProbeTypes ==
    /\ leader \in {"none", "running", "exited", "reaped"}
    /\ code \in {0, 1, Killed, NoCode}
    /\ child \in [Child -> {"none", "running", "zombie"}]
    /\ writers \in [Stream -> SUBSET Proc]
    /\ pipe \in [Stream -> 0..PipeCapacity]
    /\ over \in BOOLEAN

\* What a step of the probe does: only what runs does anything, a stream without
\* a writer keeps what is in it, and the leader ends once.
Lives ==
    /\ UNCHANGED harness
    /\ ProbeTypes'
    /\ Running # {}
    /\ \/ leader' = leader /\ code' = code
       \/ leader = "running" /\ leader' = "exited" /\ code' \in {0, 1}
    /\ \A s \in Stream : writers[s] = {} => (writers'[s] = {} /\ pipe'[s] = pipe[s])

LEMMA ProbeLives == ASSUME TypeOK, ProbeStep PROVE Lives
<1>0. ProbeTypes /\ UNCHANGED harness
  BY DEF TypeOK, ProbeTypes, ProbeStep
<1>1. ASSUME NEW p \in Proc, NEW c \in Child, Fork(p, c) PROVE Lives
  <2>1. child' \in [Child -> {"none", "running", "zombie"}]
    BY <1>0, <1>1 DEF Fork, ProbeTypes
  <2>2. writers' \in [Stream -> SUBSET Proc]
    BY <1>0, <1>1 DEF Fork, ProbeTypes, Proc
  <2>3. \A s \in Stream : writers[s] = {} => writers'[s] = {}
    BY <1>0, <1>1 DEF Fork, ProbeTypes
  <2> QED BY <1>0, <1>1, <2>1, <2>2, <2>3 DEF Fork, ProbeTypes, Lives
<1>2. ASSUME NEW p \in Proc, NEW s \in Stream, Write(p, s) PROVE Lives
  <2>1. pipe' \in [Stream -> 0..PipeCapacity]
    BY <1>0, <1>2, Bounds DEF Write, ProbeTypes
  <2>2. \A q \in Stream : writers[q] = {} => pipe'[q] = pipe[q]
    BY <1>0, <1>2 DEF Write, ProbeTypes
  <2> QED BY <1>0, <1>2, <2>1, <2>2 DEF Write, ProbeTypes, Lives
<1>3. ASSUME NEW p \in Proc, NEW s \in Stream, CloseOutput(p, s) PROVE Lives
  <2>1. writers' \in [Stream -> SUBSET Proc]
    BY <1>0, <1>3 DEF CloseOutput, ProbeTypes
  <2>2. \A q \in Stream : writers[q] = {} => writers'[q] = {}
    BY <1>0, <1>3 DEF CloseOutput, ProbeTypes
  <2> QED BY <1>0, <1>3, <2>1, <2>2 DEF CloseOutput, ProbeTypes, Lives
<1>4. ASSUME NEW p \in Proc, Exit(p) PROVE Lives
  <2>1. writers' \in [Stream -> SUBSET Proc]
    BY <1>0, <1>4 DEF Exit, ProbeTypes
  <2>2. \A q \in Stream : writers[q] = {} => writers'[q] = {}
    BY <1>0, <1>4 DEF Exit, ProbeTypes
  <2>3. CASE p = Leader
    <3>1. leader = "running"
      BY <1>4, <2>3, SentinelAssumption DEF Exit, Running
    <3> QED BY <1>0, <1>4, <2>1, <2>2, <2>3, <3>1 DEF Exit, ProbeTypes, Lives
  <2>4. CASE p # Leader
    <3>1. child' \in [Child -> {"none", "running", "zombie"}]
      BY <1>0, <1>4, <2>4 DEF Exit, ProbeTypes
    <3> QED BY <1>0, <1>4, <2>1, <2>2, <2>4, <3>1 DEF Exit, ProbeTypes, Lives
  <2> QED BY <2>3, <2>4
<1>5. ASSUME NEW c \in Child, WaitedFor(c) PROVE Lives
  <2>1. child' \in [Child -> {"none", "running", "zombie"}]
    BY <1>0, <1>5 DEF WaitedFor, ProbeTypes
  <2>2. Leader \in Running
    BY <1>5 DEF WaitedFor, Running
  <2> QED BY <1>0, <1>5, <2>1, <2>2 DEF WaitedFor, ProbeTypes, Lives
<1>6. CASE Fill
  BY <1>0, <1>6 DEF Fill, ProbeTypes, Lives
<1> QED BY <1>1, <1>2, <1>3, <1>4, <1>5, <1>6 DEF ProbeStep

\* What the kill of the tree does when it succeeds.
LEMMA KillEndsAll ==
    ASSUME TypeOK, AllDead
    PROVE  /\ Running' = {}
           /\ leader' \in {"none", "exited", "reaped"}
           /\ leader # "none" => leader' \in {"exited", "reaped"}
           /\ leader = "reaped" => leader' = "reaped" /\ code' = code
           /\ code' \in {0, 1, Killed, NoCode}
           /\ child' \in [Child -> {"none", "running", "zombie"}]
           /\ writers' \in [Stream -> SUBSET Proc]
           /\ \A s \in Stream : writers'[s] = {}
<1>1. leader' \in {"none", "exited", "reaped"} /\ (leader # "none" => leader' \in {"exited", "reaped"})
  BY DEF AllDead, TypeOK
<1>2. \A c \in Child : child'[c] # "running"
  BY DEF AllDead, TypeOK
<1>3. Running' = {}
  BY <1>1, <1>2 DEF Running
<1>4. code' \in {0, 1, Killed, NoCode}
  BY DEF AllDead, TypeOK
<1>5. child' \in [Child -> {"none", "running", "zombie"}]
  BY DEF AllDead, TypeOK
<1> QED BY <1>1, <1>3, <1>4, <1>5 DEF AllDead

\* The kill keeps the types, whether it succeeds or ends the run.
LEMMA KillTypes ==
    ASSUME TypeOK, NEW label \in Harness, KillTree(label)
    PROVE  /\ leader' \in {"none", "running", "exited", "reaped"}
           /\ code' \in {0, 1, Killed, NoCode}
           /\ child' \in [Child -> {"none", "running", "zombie"}]
           /\ writers' \in [Stream -> SUBSET Proc]
           /\ pc' \in Harness /\ UNCHANGED <<sound, private>>
<1>1. CASE AllDead /\ Goto(label)
  BY <1>1, KillEndsAll DEF Goto
<1>2. CASE Goto("abort") /\ UNCHANGED <<leader, code, child, writers>>
  BY <1>2 DEF Goto, TypeOK, Harness
<1> QED BY <1>1, <1>2 DEF KillTree

LEMMA FirstKind ==
    ASSUME TypeOK, NEW kind \in {"timeout", "tool_error"}
    PROVE  First(kind) \in Kinds \ {"exit_nonzero"} /\ First(kind) # None
BY SentinelAssumption DEF TypeOK, Kinds, First

LEMMA PolledType == ASSUME TypeOK PROVE Polled \in {"none", "running", "reaped"}
BY DEF TypeOK, Polled

LEMMA MinusType ==
    /\ \A n \in Nat : \A t \in 0..n : Minus1(t) \in 0..n
    /\ \A n \in Nat : \A t \in Timer(n) : Minus1(t) \in Timer(n)
    /\ Minus1(NoTimer) = NoTimer
<1>1. \A n \in Nat : \A t \in 0..n : Minus1(t) \in 0..n
  BY DEF Minus1
<1>2. Minus1(NoTimer) = NoTimer
  BY SentinelAssumption DEF Minus1
<1> QED BY <1>1, <1>2 DEF Timer

LEMMA TypeOfProbe == ASSUME TypeOK, ProbeStep PROVE TypeOK'
BY ProbeLives DEF Lives, ProbeTypes, TypeOK, harness, output, timers

LEMMA TypeOfTick == ASSUME TypeOK, Tick PROVE TypeOK'
<1>1. left' \in 0..Timeout
  BY MinusType, Bounds DEF Tick, TypeOK, LeftAfterTick
<1>2. drain' \in Timer(PostExitDrain) /\ term' \in Timer(TerminationDrain)
  BY MinusType, Bounds DEF Tick, TypeOK
<1>3. check' \in 0..CheckInterval /\ budget' \in 0..Timeout
  BY MinusType, Bounds DEF Tick, TypeOK
<1> QED BY <1>1, <1>2, <1>3 DEF Tick, TypeOK, probe, output

LEMMA NoResultType ==
    NoResult("tool_error") \in [ok : BOOLEAN, kind : Kinds, code : {0, 1, Killed, NoCode},
                                truncated : SUBSET Stream]
BY DEF NoResult, Kinds

LEMMA NoVerdictType ==
    NoVerdict \in [ok : BOOLEAN, kind : Kinds, code : {0, 1, Killed, NoCode},
                   truncated : SUBSET Stream]
BY DEF NoVerdict, Kinds

LEMMA TypeOfStart == ASSUME TypeOK, Start PROVE TypeOK'
<1>1. verdict' \in [ok : BOOLEAN, kind : Kinds, code : {0, 1, Killed, NoCode},
                    truncated : SUBSET Stream]
  BY NoResultType, NoVerdictType DEF Start
<1>2. pc' \in Harness
  BY DEF Start, Harness
<1> QED BY <1>1, <1>2 DEF Start, TypeOK, output, timers

LEMMA TypeOfSpawn == ASSUME TypeOK, Spawn PROVE TypeOK'
<1>1. CASE /\ leader' = "running" /\ code' = NoCode
           /\ writers' = [s \in Stream |-> {Leader}]
           /\ pipe' = [s \in Stream |-> 0]
           /\ open' = Stream
           /\ left' = Timeout /\ drain' = NoTimer /\ term' = NoTimer
           /\ check' = CheckInterval
           /\ Goto("top")
           /\ UNCHANGED <<child, over, verdict>>
  <2>1. writers' \in [Stream -> SUBSET Proc] /\ pipe' \in [Stream -> 0..PipeCapacity]
    BY <1>1, Bounds DEF Proc
  <2>2. left' \in 0..Timeout /\ check' \in 0..CheckInterval /\ budget' \in 0..Timeout
    BY <1>1, Bounds DEF Spawn
  <2>3. count' \in [Stream -> 0..MaxOutput]
    BY Bounds DEF Spawn
  <2>4. drain' \in Timer(PostExitDrain) /\ term' \in Timer(TerminationDrain)
    BY <1>1 DEF Timer
  <2>5. failure' \in Kinds \ {"exit_nonzero"} /\ pc' \in Harness
    BY <1>1, SentinelAssumption DEF Spawn, Kinds, Harness, Goto
  <2> QED BY <1>1, <2>1, <2>2, <2>3, <2>4, <2>5 DEF Spawn, TypeOK, Goto
<1>2. CASE /\ verdict' = NoResult("tool_error")
           /\ Goto("cleanup")
           /\ UNCHANGED <<probe, open, left, drain, term, check>>
  <2>1. count' \in [Stream -> 0..MaxOutput] /\ budget' \in 0..Timeout
    BY Bounds DEF Spawn
  <2>2. failure' \in Kinds \ {"exit_nonzero"} /\ pc' \in Harness
    BY <1>2, SentinelAssumption DEF Spawn, Kinds, Harness, Goto
  <2>3. verdict' \in [ok : BOOLEAN, kind : Kinds, code : {0, 1, Killed, NoCode},
                      truncated : SUBSET Stream]
    BY <1>2, NoResultType
  <2> QED BY <1>2, <2>1, <2>2, <2>3 DEF Spawn, TypeOK, Goto, probe
<1> QED BY <1>1, <1>2 DEF Spawn

LEMMA TypeOfTop == ASSUME TypeOK, Top PROVE TypeOK'
<1>1. pc' \in Harness
  BY DEF Top, Goto, Harness
<1> QED BY <1>1 DEF Top, Goto, TypeOK, probe, output, timers

LEMMA TypeOfScan == ASSUME TypeOK, Scan PROVE TypeOK'
<1>0. check' \in 0..CheckInterval
  BY Bounds DEF Scan
<1>1. CASE Goto("timers") /\ UNCHANGED <<probe, failure, term>>
  <2>1. pc' \in Harness
    BY <1>1 DEF Goto, Harness
  <2> QED BY <1>0, <1>1, <2>1 DEF Scan, Goto, TypeOK, probe, output
<1>2. CASE /\ failure' = "tool_error" /\ term' = TerminationDrain
           /\ KillTree("timers") /\ UNCHANGED <<pipe, over>>
  <2>1. failure' \in Kinds \ {"exit_nonzero"}
    BY <1>2, SentinelAssumption DEF Kinds
  <2>2. term' \in Timer(TerminationDrain)
    BY <1>2, Bounds DEF Timer
  <2>3. "timers" \in Harness
    BY DEF Harness
  <2> QED BY <1>0, <1>2, <2>1, <2>2, <2>3, KillTypes DEF Scan, TypeOK, output
<1> QED BY <1>1, <1>2 DEF Scan

LEMMA TypeOfTimers == ASSUME TypeOK, Timers PROVE TypeOK'
<1>0. UNCHANGED <<ready, count, truncated, left, check, budget, status, verdict>>
  BY DEF Timers
<1>1. CASE term = 0
  <2>1. pc' \in Harness
    BY <1>1 DEF Timers, Goto, Harness
  <2> QED BY <1>0, <1>1, <2>1, PolledType DEF Timers, Goto, TypeOK
<1>2. ASSUME NEW kind \in {"timeout", "tool_error"}, FailBy(kind), UNCHANGED <<open, cut>>
      PROVE  TypeOK'
  <2>1. failure' \in Kinds \ {"exit_nonzero"}
    BY <1>2, SentinelAssumption DEF Kinds, FailBy
  <2>2. term' \in Timer(TerminationDrain)
    BY <1>2, Bounds DEF Timer, FailBy
  <2>3. "select" \in Harness
    BY DEF Harness
  <2> QED BY <1>0, <1>2, <2>1, <2>2, <2>3, KillTypes DEF FailBy, TypeOK
<1>3. CASE term # 0 /\ ~DeadlinePassed /\ ~DrainPassed
  <2>1. pc' \in Harness
    BY <1>3 DEF Timers, Goto, Harness
  <2>2. drain' \in Timer(PostExitDrain)
    BY <1>3, Bounds DEF Timers, TypeOK, Timer
  <2> QED BY <1>0, <1>3, <2>1, <2>2, PolledType DEF Timers, Goto, TypeOK
<1> QED BY <1>1, <1>2, <1>3 DEF Timers

LEMMA TypeOfSelect == ASSUME TypeOK, Select PROVE TypeOK'
<1>1. pc' \in Harness
  BY DEF Select, Goto, Harness
<1> QED BY <1>1 DEF Select, Goto, TypeOK, probe, timers

\* Reading keeps what was accepted within the bound.
LEMMA TypeOfRead == ASSUME TypeOK, NEW s \in Stream, ReadChunk(s)
    PROVE /\ count' \in [Stream -> 0..MaxOutput] /\ pipe' \in [Stream -> 0..PipeCapacity]
          /\ truncated' \subseteq Stream /\ open' = open /\ over' = over
          /\ failure' \in Kinds \ {"exit_nonzero"} /\ term' \in Timer(TerminationDrain)
          /\ leader' \in {"none", "running", "exited", "reaped"}
          /\ code' \in {0, 1, Killed, NoCode}
          /\ child' \in [Child -> {"none", "running", "zombie"}]
          /\ writers' \in [Stream -> SUBSET Proc]
          /\ pc' \in Harness /\ UNCHANGED <<sound, private>>
<1>1. PICK n \in 1..pipe[s] :
        /\ count' = [count EXCEPT ![s] = Accepted(s, n)]
        /\ truncated' = IF Overflows(s, n) THEN truncated \cup {s} ELSE truncated
        /\ pipe' = [pipe EXCEPT ![s] = @ - n]
        /\ UNCHANGED <<open, over>>
        /\ IF Overflows(s, n) /\ failure = None
             THEN /\ failure' = "tool_error"
                  /\ term' = TerminationDrain
                  /\ KillTree("events")
             ELSE /\ Goto("events")
                  /\ UNCHANGED <<leader, code, child, writers, failure, term>>
  BY DEF ReadChunk
<1>2. pipe[s] \in 0..PipeCapacity /\ count[s] \in 0..MaxOutput
  BY DEF TypeOK
<1>3. pipe[s] - n \in 0..PipeCapacity
  BY <1>1, <1>2, Bounds
<1>4. Accepted(s, n) \in 0..MaxOutput
  BY <1>1, <1>2, Bounds DEF Accepted
<1>5. count' \in [Stream -> 0..MaxOutput] /\ pipe' \in [Stream -> 0..PipeCapacity]
  BY <1>1, <1>3, <1>4 DEF TypeOK
<1>6. CASE Overflows(s, n) /\ failure = None
  <2>1. failure' \in Kinds \ {"exit_nonzero"}
    BY <1>1, <1>6, SentinelAssumption DEF Kinds
  <2>2. term' \in Timer(TerminationDrain)
    BY <1>1, <1>6, Bounds DEF Timer
  <2>3. "events" \in Harness
    BY DEF Harness
  <2> QED BY <1>1, <1>5, <1>6, <2>1, <2>2, <2>3, KillTypes DEF TypeOK
<1>7. CASE ~(Overflows(s, n) /\ failure = None)
  <2>1. pc' \in Harness
    BY <1>1, <1>7 DEF Goto, Harness
  <2> QED BY <1>1, <1>5, <1>7, <2>1 DEF TypeOK, Goto
<1> QED BY <1>6, <1>7

LEMMA TypeOfEvents == ASSUME TypeOK, Events PROVE TypeOK'
<1>0. UNCHANGED <<left, drain, check, budget, status, verdict>>
  BY DEF Events
<1>1. CASE ready = {}
  BY <1>0, <1>1 DEF Events, Goto, TypeOK, probe, output, Harness
<1>2. ASSUME NEW s \in ready, ready' = ready \ {s}, UNCHANGED cut, ReadChunk(s)
      PROVE  TypeOK'
  <2>1. s \in Stream
    BY DEF TypeOK
  <2> QED BY <1>0, <1>2, <2>1, TypeOfRead DEF TypeOK
<1>3. ASSUME NEW s \in ready, ready' = ready \ {s}, UNCHANGED cut,
             open' = open \ {s}, Goto("events"),
             UNCHANGED <<probe, count, truncated, failure, term>>
      PROVE  TypeOK'
  <2>1. pc' \in Harness
    BY <1>3 DEF Goto, Harness
  <2> QED BY <1>0, <1>3, <2>1 DEF TypeOK, Goto, probe
<1> QED BY <1>1, <1>2, <1>3 DEF Events

LEMMA TypeOfReaped ==
    ASSUME TypeOK, Reaped, UNCHANGED <<output, left, drain, term, check, verdict>>
    PROVE  TypeOK'
<1>1. pc' \in Harness
  BY DEF Reaped, Goto, Harness
<1> QED BY <1>1 DEF Reaped, Goto, TypeOK, output

LEMMA TypeOfWaits == ASSUME TypeOK, Wait \/ Waiting \/ Rewait PROVE TypeOK'
<1>0. UNCHANGED <<output, left, drain, term, check, verdict>>
  BY DEF Wait, Waiting, Rewait
<1>1. 1 \in 0..Timeout
  BY TimersAssumption
<1>2. CASE Reaped
  BY <1>0, <1>2, TypeOfReaped
<1>3. CASE Wait /\ ~Reaped
  <2>1. pc' \in Harness
    BY <1>3 DEF Wait, Goto, Harness
  <2>2. budget' \in 0..Timeout
    BY <1>1, <1>3 DEF Wait, TypeOK
  <2> QED BY <1>0, <1>3, <2>1, <2>2 DEF Wait, Goto, TypeOK, probe, output
<1>4. CASE Waiting /\ ~Reaped
  <2>1. failure' \in Kinds \ {"exit_nonzero"}
    BY <1>4, FirstKind DEF Waiting
  <2>2. "rewait" \in Harness
    BY DEF Harness
  <2>3. KillTree("rewait") /\ UNCHANGED <<pipe, over, status>> /\ budget' = 1
    BY <1>4 DEF Waiting
  <2> QED BY <1>0, <1>1, <2>1, <2>2, <2>3, KillTypes DEF TypeOK, output
<1>5. CASE Rewait /\ ~Reaped
  <2>1. pc' \in Harness
    BY <1>5 DEF Rewait, Goto, Harness
  <2> QED BY <1>0, <1>5, <2>1 DEF Rewait, Goto, TypeOK, probe, output
<1> QED BY <1>2, <1>3, <1>4, <1>5

LEMMA TypeOfLeaks == ASSUME TypeOK, Leaks PROVE TypeOK'
<1>0. UNCHANGED <<pipe, over, output, timers, status, verdict>> /\ "reap" \in Harness
  BY DEF Leaks, Harness
<1>1. CASE Leaked
  <2>1. failure' \in Kinds \ {"exit_nonzero"} /\ KillTree("reap")
    BY <1>1, FirstKind DEF Leaks
  <2> QED BY <1>0, <2>1, KillTypes DEF TypeOK, output, timers
<1>2. CASE ~Leaked
  BY <1>0, <1>2 DEF Leaks, Goto, TypeOK, output, timers
<1> QED BY <1>1, <1>2

LEMMA TypeOfReap == ASSUME TypeOK, Reap PROVE TypeOK'
<1>1. failure' \in Kinds \ {"exit_nonzero"}
  BY FirstKind DEF Reap, TypeOK
<1>2. pc' \in Harness /\ UNCHANGED <<sound, private>>
  BY DEF Reap, Goto, Harness
<1>3. child' \in [Child -> {"none", "running", "zombie"}]
  BY DEF Reap, TypeOK
<1>4. leader' \in {"none", "running", "exited", "reaped"}
  BY PolledType DEF Reap
<1>5. UNCHANGED <<code, writers, pipe, over, output, timers, status, verdict>>
  BY DEF Reap
<1> QED BY <1>1, <1>2, <1>3, <1>4, <1>5 DEF TypeOK, output, timers

LEMMA TypeOfFinalScan == ASSUME TypeOK, FinalScan PROVE TypeOK'
<1>1. failure' \in Kinds \ {"exit_nonzero"}
  BY FirstKind DEF FinalScan, TypeOK
<1>2. pc' \in Harness /\ UNCHANGED <<sound, private>>
  BY DEF FinalScan, Goto, Harness
<1>3. UNCHANGED <<probe, output, timers, status, verdict>>
  BY DEF FinalScan
<1> QED BY <1>1, <1>2, <1>3 DEF TypeOK, probe, output, timers

LEMMA TypeOfVerdict == ASSUME TypeOK, Verdict PROVE TypeOK'
<1>1. Ok \in BOOLEAN
  BY DEF Ok
<1>2. Kind \in Kinds
  BY DEF Kind, First, TypeOK, Kinds
<1>3. (IF Ok \/ Kind = "exit_nonzero" THEN status ELSE NoCode) \in {0, 1, Killed, NoCode}
  BY DEF TypeOK
<1>4. verdict' \in [ok : BOOLEAN, kind : Kinds, code : {0, 1, Killed, NoCode},
                    truncated : SUBSET Stream]
  <2>1. CASE sound
    BY <1>1, <1>2, <1>3, <2>1 DEF Verdict, TypeOK
  <2>2. CASE ~sound
    BY <2>2, NoResultType DEF Verdict
  <2> QED BY <2>1, <2>2
<1>5. pc' \in Harness
  BY DEF Verdict, Goto, Harness
<1> QED BY <1>4, <1>5 DEF Verdict, Goto, TypeOK, probe, output, timers

LEMMA TypeOfCleanup == ASSUME TypeOK, Cleanup PROVE TypeOK'
<1>1. pc' \in Harness
  BY DEF Cleanup, Harness
<1>2. /\ private' \in BOOLEAN /\ open' \subseteq Stream
      /\ UNCHANGED <<probe, sound, ready, count, truncated, cut, failure, timers, status, verdict>>
  BY DEF Cleanup
<1> QED BY <1>1, <1>2 DEF TypeOK, probe, timers

LEMMA TypeOfSwallowed == ASSUME TypeOK, Swallowed PROVE TypeOK'
<1>1. pc' \in Harness
  BY DEF Swallowed, Goto, Harness
<1> QED BY <1>1 DEF Swallowed, Goto, TypeOK, probe, output, timers

LEMMA TypeNext == ASSUME TypeOK, [Next]_vars PROVE TypeOK'
<1>1. CASE UNCHANGED vars
  BY <1>1 DEF vars, TypeOK, probe, output, timers
<1>2. CASE Disturb
  BY <1>2 DEF Disturb, TypeOK, probe, output, timers
<1>3. CASE HarnessStep
  BY <1>3, TypeOfSpawn, TypeOfTop, TypeOfScan, TypeOfTimers, TypeOfSelect, TypeOfEvents,
     TypeOfWaits, TypeOfLeaks, TypeOfReap, TypeOfFinalScan, TypeOfVerdict, TypeOfCleanup
     DEF HarnessStep
<1> QED BY <1>1, <1>2, <1>3, TypeOfProbe, TypeOfTick, TypeOfStart, TypeOfSwallowed DEF Next

\* Every state has the types of the model, whatever the probe and the clock do.
THEOREM TypeCorrect == Spec => []TypeOK
<1>1. Init => TypeOK
  BY TypeInit
<1>2. TypeOK /\ [Next]_vars => TypeOK'
  BY TypeNext
<1> QED BY <1>1, <1>2, PTL DEF Spec
-----------------------------------------------------------------------------
(***************************************************************************)
(* The inductive invariant.                                                *)
(***************************************************************************)

\* The probe was started; its streams are read to their ends.
Late == {"wait", "waiting", "rewait", "leaks", "reap", "final scan", "after"}
Live == {"top", "scan", "timers", "select", "events"} \cup Late

Started == pc \in Live => leader # "none"

\* A stream is closed at its end, or cut off.
Closed ==
    pc \in Live =>
        \A s \in Stream \ open : s \in cut \/ (pipe[s] = 0 /\ writers[s] = {})
Emptied == pc \in Late => open = {}

\* What the harness did to the probe is a failure.
Touched == term # NoTimer \/ truncated # {} \/ cut # {} \/ code = Killed
Failed == pc \in Live /\ Touched => failure # None

\* The status is the leader's own, once it was reaped.
Counted ==
    pc \in {"leaks", "reap", "final scan", "after"} =>
        status = NoCode \/ (status = code /\ leader = "reaped")

Dead == pc = "reap" => Running = {} /\ leader \in {"exited", "reaped"}
Within == pc = "after" /\ failure = None => ~over

\* What was recorded can no longer change.
Recorded == verdict.ok \/ verdict.code # NoCode
Settled == pc = "cleanup" /\ Recorded => Running = {} /\ leader = "reaped"

Progress == Started /\ Closed /\ Emptied /\ Failed /\ Counted /\ Dead /\ Within
Promises == NothingSurvives /\ Settled /\ GreenIsClean /\ EvidenceIsTheProbes
IInv == TypeOK /\ Progress /\ Promises

LEMMA InvInit == Init => Progress /\ Promises
BY SentinelAssumption DEF Init, Progress, Started, Closed, Emptied, Failed, Counted, Dead, Within,
   Promises, NothingSurvives, Settled, GreenIsClean, EvidenceIsTheProbes, Live, Late

-----------------------------------------------------------------------------
(***************************************************************************)
(* Steps that nothing is said about: outside of a probe, and in its loop.  *)
(***************************************************************************)

LEMMA Outside ==
    ASSUME pc' \in {"idle", "spawn", "abort", "aborted"}
    PROVE  (Progress /\ Promises)'
BY DEF Progress, Started, Closed, Emptied, Failed, Counted, Dead, Within,
   Promises, NothingSurvives, Settled, GreenIsClean, EvidenceIsTheProbes, Live, Late

LEMMA Unended ==
    ASSUME pc' \notin {"final scan", "after", "cleanup"}
    PROVE  Promises'
BY DEF Promises, NothingSurvives, Settled, GreenIsClean, EvidenceIsTheProbes

\* Before the wait, the parts about the end are vacuous.
LEMMA InLoop ==
    ASSUME pc' \in {"top", "scan", "timers", "select", "events"},
           Started', Closed', Failed'
    PROVE  (Progress /\ Promises)'
<1>1. Promises'
  BY Unended
<1>2. (Emptied /\ Counted /\ Dead /\ Within)'
  BY DEF Emptied, Counted, Dead, Within, Late
<1> QED BY <1>1, <1>2 DEF Progress

\* The kill ends the run, or every process of the probe.
LEMMA KillOrAbort ==
    ASSUME NEW label, KillTree(label)
    PROVE  pc' = "abort" \/ (AllDead /\ pc' = label)
BY DEF KillTree, Goto

\* A step that leaves the probe and the loop alone keeps what is said of them.
LEMMA Quiet ==
    ASSUME Progress, Promises,
           UNCHANGED <<probe, pc, output, failure, status, verdict>>,
           term = NoTimer => term' = NoTimer
    PROVE  (Progress /\ Promises)'
<1>1. Running' = Running /\ Zombies' = Zombies
  BY DEF Running, Zombies, probe
<1>2. Progress'
  BY <1>1 DEF Progress, Started, Closed, Emptied, Failed, Touched, Counted, Dead, Within, probe, output
<1>3. Promises'
  BY <1>1 DEF Promises, NothingSurvives, Settled, Recorded, GreenIsClean, EvidenceIsTheProbes, probe, output
<1> QED BY <1>2, <1>3

-----------------------------------------------------------------------------
(***************************************************************************)
(* Each action.                                                            *)
(***************************************************************************)

LEMMA SafeProbe == ASSUME IInv, ProbeStep PROVE (Progress /\ Promises)'
<1>0. Lives /\ Progress /\ Promises /\ TypeOK
  BY ProbeLives DEF IInv
<1>1. Running # {} /\ UNCHANGED <<pc, open, ready, count, truncated, cut, failure, term, status, verdict>>
  BY <1>0 DEF Lives, harness, output, timers
<1>2. pc \notin {"reap", "final scan", "after"} /\ ~(pc = "cleanup" /\ Recorded)
  <2>1. pc # "reap" /\ ~(pc = "cleanup" /\ Recorded)
    BY <1>0, <1>1 DEF Progress, Dead, Promises, Settled
  <2>2. pc \notin {"final scan", "after"}
    BY <1>0, <1>1 DEF Promises, NothingSurvives
  <2> QED BY <2>1, <2>2
<1>3. Started'
  BY <1>0, <1>1 DEF Lives, Progress, Started
<1>4. Closed' /\ Emptied'
  <2>1. Emptied'
    BY <1>0, <1>1 DEF Progress, Emptied
  <2>2. ASSUME pc' \in Live, NEW s \in Stream \ open', s \notin cut'
        PROVE  pipe'[s] = 0 /\ writers'[s] = {}
    <3>1. s \in Stream \ open /\ s \notin cut /\ pc \in Live
      BY <1>1, <2>2
    <3>2. pipe[s] = 0 /\ writers[s] = {}
      BY <1>0, <3>1 DEF Progress, Closed
    <3> QED BY <1>0, <3>1, <3>2 DEF Lives
  <2> QED BY <2>1, <2>2 DEF Closed
<1>5. Failed'
  <2>1. code' = Killed => code = Killed
    BY <1>0 DEF Lives, Killed
  <2> QED BY <1>0, <1>1, <2>1 DEF Progress, Failed, Touched
<1>6. Counted'
  <2>1. leader = "reaped" => leader' = leader /\ code' = code
    BY <1>0 DEF Lives
  <2> QED BY <1>0, <1>1, <2>1 DEF Progress, Counted
<1>7. Dead' /\ Within'
  BY <1>1, <1>2 DEF Dead, Within
<1>8. Promises'
  BY <1>1, <1>2 DEF Promises, NothingSurvives, Settled, Recorded, GreenIsClean, EvidenceIsTheProbes
<1> QED BY <1>3, <1>4, <1>5, <1>6, <1>7, <1>8 DEF Progress

LEMMA SafeTick == ASSUME IInv, Tick PROVE (Progress /\ Promises)'
<1>1. term = NoTimer => term' = NoTimer
  BY MinusType DEF Tick
<1>2. UNCHANGED <<probe, pc, output, failure, status, verdict>>
  BY DEF Tick
<1> QED BY <1>1, <1>2, Quiet DEF IInv

LEMMA SafeStart == ASSUME IInv, Start PROVE (Progress /\ Promises)'
<1>1. CASE pc' = "spawn"
  BY <1>1, Outside
<1>2. CASE pc' = "cleanup" /\ verdict' = NoResult("tool_error")
  <2>1. verdict'.ok = FALSE /\ verdict'.code = NoCode
    BY <1>2 DEF NoResult
  <2> QED BY <1>2, <2>1 DEF Progress, Started, Closed, Emptied, Failed, Counted, Dead, Within,
        Promises, NothingSurvives, Settled, Recorded, GreenIsClean, EvidenceIsTheProbes, Live, Late
<1> QED BY <1>1, <1>2 DEF Start

LEMMA SafeSpawn == ASSUME IInv, Spawn PROVE (Progress /\ Promises)'
<1>1. CASE verdict' = NoResult("tool_error") /\ Goto("cleanup")
  <2>1. verdict'.ok = FALSE /\ verdict'.code = NoCode /\ pc' = "cleanup"
    BY <1>1 DEF NoResult, Goto
  <2> QED BY <2>1 DEF Progress, Started, Closed, Emptied, Failed, Counted, Dead, Within,
        Promises, NothingSurvives, Settled, Recorded, GreenIsClean, EvidenceIsTheProbes, Live, Late
<1>2. CASE leader' = "running" /\ code' = NoCode /\ open' = Stream /\ term' = NoTimer /\ Goto("top")
  <2>1. pc' = "top" /\ truncated' = {} /\ cut' = {}
    BY <1>2 DEF Spawn, Goto
  <2>2. code' # Killed
    BY <1>2, SentinelAssumption DEF Killed
  <2>3. Started' /\ Closed' /\ Failed'
    BY <1>2, <2>1, <2>2 DEF Started, Closed, Failed, Touched
  <2> QED BY <2>1, <2>3, InLoop
<1> QED BY <1>1, <1>2 DEF Spawn

LEMMA SafeTop == ASSUME IInv, Top PROVE (Progress /\ Promises)'
<1>0. /\ UNCHANGED <<probe, output, failure, timers, status, verdict>>
      /\ pc = "top" /\ pc' \in {"wait", "scan", "timers"} /\ (pc' = "wait" => open = {})
      /\ Progress
  BY DEF Top, Goto, IInv
<1>1. Started' /\ Closed' /\ Failed'
  BY <1>0 DEF Progress, Started, Closed, Failed, Touched, Live, probe, output, timers
<1>2. Emptied' /\ Counted' /\ Dead' /\ Within'
  BY <1>0 DEF Emptied, Counted, Dead, Within, Late, output
<1>3. Promises'
  BY <1>0, Unended
<1> QED BY <1>1, <1>2, <1>3 DEF Progress

LEMMA KillKeeps ==
    ASSUME IInv, AllDead, pc \in Live,
           \A s \in Stream \ open' : s \in cut' \/ s \notin open \/ pipe'[s] = 0,
           cut \subseteq cut', UNCHANGED pipe, failure' # None
    PROVE  Started' /\ Closed' /\ Failed'
<1>1. leader # "none" /\ Closed
  BY DEF IInv, Progress, Started
<1>2. leader' # "none" /\ \A s \in Stream : writers'[s] = {}
  BY <1>1, KillEndsAll DEF IInv
<1>3. ASSUME NEW s \in Stream \ open', s \notin cut' PROVE pipe'[s] = 0
  BY <1>1, <1>3 DEF Closed
<1> QED BY <1>2, <1>3 DEF Started, Closed, Failed

LEMMA SafeScan == ASSUME IInv, Scan PROVE (Progress /\ Promises)'
<1>0. pc = "scan" /\ UNCHANGED <<output, left, drain, budget, status, verdict>> /\ Progress
  BY DEF Scan, IInv
<1>1. CASE Goto("timers") /\ UNCHANGED <<probe, failure, term>>
  <2>1. pc' = "timers" /\ Started' /\ Closed' /\ Failed'
    BY <1>0, <1>1 DEF Goto, Progress, Started, Closed, Failed, Touched, Live, probe, output
  <2> QED BY <2>1, InLoop
<1>2. CASE failure' = "tool_error" /\ KillTree("timers") /\ UNCHANGED <<pipe, over>>
  <2>1. CASE pc' = "abort"
    BY <2>1, Outside
  <2>2. CASE AllDead /\ pc' = "timers"
    <3>1. pc \in Live /\ failure' # None /\ open' = open /\ cut' = cut
      BY <1>0, <1>2, SentinelAssumption DEF Live, output
    <3>2. Started' /\ Closed' /\ Failed'
      BY <1>2, <2>2, <3>1, KillKeeps
    <3> QED BY <2>2, <3>2, InLoop
  <2> QED BY <1>2, <2>1, <2>2, KillOrAbort
<1> QED BY <1>1, <1>2 DEF Scan

LEMMA SafeFailBy ==
    ASSUME IInv, pc = "timers", NEW kind \in {"timeout", "tool_error"}, FailBy(kind),
           UNCHANGED <<open, cut>>
    PROVE  (Progress /\ Promises)'
<1>1. failure' # None /\ UNCHANGED pipe /\ pc \in Live
  BY SentinelAssumption DEF FailBy, Live
<1>2. CASE pc' = "abort"
  BY <1>2, Outside
<1>3. CASE AllDead /\ pc' = "select"
  <2>1. Started' /\ Closed' /\ Failed'
    BY <1>1, <1>3, KillKeeps
  <2> QED BY <1>3, <2>1, InLoop
<1> QED BY <1>2, <1>3, KillOrAbort DEF FailBy

LEMMA SafeTimers == ASSUME IInv, Timers PROVE (Progress /\ Promises)'
<1>0. /\ pc = "timers" /\ Progress /\ TypeOK /\ pc \in Live
      /\ UNCHANGED <<truncated>>
  BY DEF Timers, IInv, Live
<1>1. leader # "none" /\ Closed /\ Failed
  BY <1>0 DEF Progress, Started
<1>2. CASE term = 0
  <2>1. /\ open' = {} /\ cut' = cut \cup open /\ leader' = Polled /\ pc' = "top"
        /\ UNCHANGED <<code, child, writers, pipe, failure, term>>
    BY <1>2 DEF Timers, Goto
  <2>2. Started'
    BY <1>1, <2>1 DEF Started, Polled
  <2>3. Closed'
    BY <1>0, <1>1, <2>1 DEF Closed
  <2>4. failure # None
    <3>1. term # NoTimer
      BY <1>2, SentinelAssumption
    <3> QED BY <1>0, <1>1, <3>1 DEF Failed, Touched
  <2> QED BY <2>1, <2>2, <2>3, <2>4, InLoop DEF Failed
<1>3. CASE term # 0 /\ DeadlinePassed
  BY <1>0, <1>3, SafeFailBy DEF Timers
<1>4. CASE term # 0 /\ ~DeadlinePassed /\ DrainPassed
  BY <1>0, <1>4, SafeFailBy DEF Timers
<1>5. CASE term # 0 /\ ~DeadlinePassed /\ ~DrainPassed
  <2>1. /\ leader' = Polled /\ pc' = "select"
        /\ UNCHANGED <<open, cut, code, child, writers, pipe, failure, term>>
    BY <1>5 DEF Timers, Goto
  <2>2. Started' /\ Closed'
    BY <1>0, <1>1, <2>1 DEF Started, Polled, Closed
  <2>3. Failed'
    BY <1>0, <1>1, <2>1 DEF Failed, Touched
  <2> QED BY <2>1, <2>2, <2>3, InLoop
<1> QED BY <1>2, <1>3, <1>4, <1>5

LEMMA SafeSelect == ASSUME IInv, Select PROVE (Progress /\ Promises)'
<1>0. /\ pc = "select" /\ pc' = "events" /\ Progress
      /\ UNCHANGED <<probe, open, truncated, cut, failure, timers>>
  BY DEF Select, Goto, IInv
<1>1. Started' /\ Closed' /\ Failed'
  BY <1>0 DEF Progress, Started, Closed, Failed, Touched, Live, probe, timers
<1> QED BY <1>0, <1>1, InLoop

LEMMA SafeEvents == ASSUME IInv, Events PROVE (Progress /\ Promises)'
<1>0. pc = "events" /\ Progress /\ TypeOK /\ pc \in Live
  BY DEF Events, IInv, Live
<1>1. leader # "none" /\ Closed /\ Failed
  BY <1>0 DEF Progress, Started
<1>2. CASE ready = {}
  <2>1. pc' = "top" /\ UNCHANGED <<probe, output, failure, term>>
    BY <1>2 DEF Events, Goto
  <2>2. Started' /\ Closed' /\ Failed'
    BY <1>0, <1>1, <2>1 DEF Started, Closed, Failed, Touched, probe, output
  <2> QED BY <2>1, <2>2, InLoop
<1>3. ASSUME NEW s \in ready, UNCHANGED cut, ReadChunk(s)
      PROVE  (Progress /\ Promises)'
  <2>1. PICK n \in 1..pipe[s] :
          /\ truncated' = IF Overflows(s, n) THEN truncated \cup {s} ELSE truncated
          /\ pipe' = [pipe EXCEPT ![s] = @ - n]
          /\ UNCHANGED <<open, over>>
          /\ IF Overflows(s, n) /\ failure = None
               THEN /\ failure' = "tool_error"
                    /\ term' = TerminationDrain
                    /\ KillTree("events")
               ELSE /\ Goto("events")
                    /\ UNCHANGED <<leader, code, child, writers, failure, term>>
    BY <1>3 DEF ReadChunk
  <2>2. s \in Stream /\ pipe[s] # 0
    <3>1. s \in Stream /\ pipe[s] \in 0..PipeCapacity
      BY <1>0 DEF TypeOK
    <3> QED BY <2>1, <3>1, Bounds
  <2>3. \A q \in Stream : q # s => pipe'[q] = pipe[q]
    BY <1>0, <2>1 DEF TypeOK
  <2>4. s \in open \/ s \in cut
    BY <1>0, <1>1, <2>2 DEF Closed
  <2>5. \A q \in Stream \ open' : q \in cut' \/ (pipe'[q] = 0 /\ writers[q] = {})
    <3>1. ASSUME NEW q \in Stream \ open, q \notin cut PROVE pipe'[q] = 0 /\ writers[q] = {}
      BY <1>0, <1>1, <2>3, <2>4, <3>1 DEF Closed
    <3> QED BY <1>3, <2>1, <3>1
  <2>6. CASE Overflows(s, n) /\ failure = None
    <3>1. failure' # None
      BY <2>1, <2>6, SentinelAssumption
    <3>2. CASE pc' = "abort"
      BY <3>2, Outside
    <3>3. CASE AllDead /\ pc' = "events"
      <4>1. leader' # "none" /\ \A q \in Stream : writers'[q] = {}
        BY <1>0, <1>1, <3>3, KillEndsAll
      <4>2. Started' /\ Failed'
        BY <3>1, <4>1 DEF Started, Failed
      <4>3. Closed'
        BY <2>5, <4>1 DEF Closed
      <4> QED BY <3>3, <4>2, <4>3, InLoop
    <3> QED BY <2>1, <2>6, <3>2, <3>3, KillOrAbort
  <2>7. CASE ~(Overflows(s, n) /\ failure = None)
    <3>1. pc' = "events" /\ UNCHANGED <<leader, code, writers, failure, term>>
      BY <2>1, <2>7 DEF Goto
    <3>2. Started' /\ Closed'
      BY <1>1, <2>5, <3>1 DEF Started, Closed
    <3>3. Failed'
      <4>1. CASE Overflows(s, n)
        BY <2>7, <3>1, <4>1 DEF Failed
      <4>2. CASE ~Overflows(s, n)
        <5>1. truncated' = truncated
          BY <2>1, <4>2
        <5> QED BY <1>0, <1>1, <1>3, <3>1, <5>1 DEF Failed, Touched
      <4> QED BY <4>1, <4>2
    <3> QED BY <3>1, <3>2, <3>3, InLoop
  <2> QED BY <2>6, <2>7
<1>4. ASSUME NEW s \in ready, UNCHANGED cut, pipe[s] = 0, writers[s] = {},
             open' = open \ {s}, Goto("events"),
             UNCHANGED <<probe, count, truncated, failure, term>>
      PROVE  (Progress /\ Promises)'
  <2>1. pc' = "events"
    BY <1>4 DEF Goto
  <2>2. Started' /\ Failed'
    BY <1>0, <1>1, <1>4, <2>1 DEF Started, Failed, Touched, probe
  <2>3. Closed'
    BY <1>0, <1>1, <1>4 DEF Closed, probe
  <2> QED BY <2>1, <2>2, <2>3, InLoop
<1> QED BY <1>2, <1>3, <1>4 DEF Events

\* After the loop, and before the leaks are looked for.
LEMMA AtWait ==
    ASSUME pc' \in {"waiting", "rewait", "leaks"},
           Started', Closed', Failed', open' = {},
           pc' = "leaks" => status' = NoCode \/ (status' = code' /\ leader' = "reaped")
    PROVE  (Progress /\ Promises)'
<1>1. Promises'
  BY Unended
<1>2. (Emptied /\ Counted /\ Dead /\ Within)'
  BY DEF Emptied, Counted, Dead, Within
<1> QED BY <1>1, <1>2 DEF Progress

LEMMA SafeReaped ==
    ASSUME IInv, pc \in Late, Reaped, UNCHANGED <<output, left, drain, term, check, verdict>>
    PROVE  (Progress /\ Promises)'
<1>0. /\ leader' = "reaped" /\ status' = code /\ pc' = "leaks" /\ pc \in Live
      /\ UNCHANGED <<code, child, writers, pipe, over, failure, open, truncated, cut, term>>
      /\ Started /\ Closed /\ Failed /\ open = {}
  BY DEF Reaped, Goto, Live, output, IInv, Progress, Emptied
<1>1. Started' /\ Closed' /\ Failed'
  BY <1>0 DEF Started, Closed, Failed, Touched
<1> QED BY <1>0, <1>1, AtWait

LEMMA SafeWaits == ASSUME IInv, Wait \/ Waiting \/ Rewait PROVE (Progress /\ Promises)'
<1>0. /\ UNCHANGED <<output, left, drain, term, check, verdict>>
      /\ pc \in {"wait", "waiting", "rewait"}
  BY DEF Wait, Waiting, Rewait
<1>1. pc \in Late /\ pc \in Live /\ TypeOK
  BY <1>0 DEF Late, Live, IInv
<1>2. Started /\ Closed /\ Failed /\ open = {}
  BY <1>1 DEF IInv, Progress, Emptied
<1>3. CASE Reaped
  BY <1>0, <1>1, <1>3, SafeReaped
<1>4. CASE Wait /\ ~Reaped
  <2>1. pc' = "waiting" /\ UNCHANGED <<probe, failure>>
    BY <1>4 DEF Wait, Goto
  <2>2. Started' /\ Closed' /\ Failed' /\ open' = {}
    BY <1>0, <1>1, <1>2, <2>1 DEF Started, Closed, Failed, Touched, probe, output
  <2> QED BY <2>1, <2>2, AtWait
<1>5. CASE Waiting /\ ~Reaped
  <2>1. failure' = First("timeout") /\ KillTree("rewait") /\ UNCHANGED <<pipe, over>>
    BY <1>5 DEF Waiting
  <2>2. CASE pc' = "abort"
    BY <2>2, Outside
  <2>3. CASE AllDead /\ pc' = "rewait"
    <3>1. failure' # None /\ open' = {} /\ cut' = cut /\ open' = open
      BY <1>0, <1>1, <1>2, <2>1, FirstKind DEF output
    <3>2. Started' /\ Closed' /\ Failed'
      BY <1>1, <2>1, <2>3, <3>1, KillKeeps
    <3> QED BY <2>3, <3>1, <3>2, AtWait
  <2> QED BY <2>1, <2>2, <2>3, KillOrAbort
<1>6. CASE Rewait /\ ~Reaped
  <2>1. pc' = "leaks" /\ status' = NoCode /\ UNCHANGED <<probe, failure>>
    BY <1>6 DEF Rewait, Goto
  <2>2. Started' /\ Closed' /\ Failed' /\ open' = {}
    BY <1>0, <1>1, <1>2, <2>1 DEF Started, Closed, Failed, Touched, probe, output
  <2> QED BY <2>1, <2>2, AtWait
<1> QED BY <1>0, <1>3, <1>4, <1>5, <1>6

LEMMA SafeLeaks == ASSUME IInv, Leaks PROVE (Progress /\ Promises)'
<1>0. /\ pc = "leaks" /\ UNCHANGED <<pipe, over, output, timers, status, verdict>>
      /\ TypeOK /\ pc \in Live /\ pc \in Late
  BY DEF Leaks, IInv, Live, Late
<1>1. Started /\ Closed /\ Failed /\ open = {} /\ leader # "none"
  BY <1>0 DEF IInv, Progress, Emptied, Started
<1>2. status = NoCode \/ (status = code /\ leader = "reaped")
  BY <1>0 DEF IInv, Progress, Counted
<1>3. ASSUME pc' = "reap", Started', Closed', Failed', Running' = {},
             leader' \in {"exited", "reaped"},
             leader = "reaped" => leader' = "reaped" /\ code' = code
      PROVE  (Progress /\ Promises)'
  <2>1. Emptied' /\ Counted' /\ Dead' /\ Within'
    BY <1>0, <1>1, <1>2, <1>3 DEF Emptied, Counted, Dead, Within, output
  <2> QED BY <1>3, <2>1, Unended DEF Progress
<1>4. CASE Leaked
  <2>1. failure' = First("tool_error") /\ KillTree("reap")
    BY <1>4 DEF Leaks
  <2>2. CASE pc' = "abort"
    BY <2>2, Outside
  <2>3. CASE AllDead /\ pc' = "reap"
    <3>1. failure' # None /\ cut' = cut /\ open' = open
      BY <1>0, <2>1, FirstKind DEF output
    <3>2. Started' /\ Closed' /\ Failed'
      BY <1>0, <2>3, <3>1, KillKeeps
    <3>3. /\ Running' = {} /\ leader' \in {"exited", "reaped"}
          /\ leader = "reaped" => leader' = "reaped" /\ code' = code
      BY <1>0, <1>1, <2>3, KillEndsAll
    <3> QED BY <1>3, <2>3, <3>2, <3>3
  <2> QED BY <2>1, <2>2, <2>3, KillOrAbort
<1>5. CASE ~Leaked
  <2>1. pc' = "reap" /\ UNCHANGED <<leader, code, child, writers, failure>>
    BY <1>5 DEF Leaks, Goto
  <2>2. Running = {} /\ Running' = Running
    BY <1>5, <2>1 DEF Leaked, Running
  <2>3. leader # "running"
    BY <2>2 DEF Running
  <2>4. leader \in {"exited", "reaped"}
    BY <1>0, <1>1, <2>3 DEF TypeOK
  <2>5. Started' /\ Closed' /\ Failed'
    BY <1>0, <1>1, <2>1 DEF Started, Closed, Failed, Touched, output, timers
  <2> QED BY <1>3, <2>1, <2>2, <2>4, <2>5
<1> QED BY <1>4, <1>5

LEMMA SafeReap == ASSUME IInv, Reap PROVE (Progress /\ Promises)'
<1>0. /\ pc = "reap" /\ pc' = "final scan" /\ TypeOK /\ pc \in Live /\ pc \in Late
      /\ UNCHANGED <<code, writers, pipe, over, output, timers, status, verdict>>
  BY DEF Reap, Goto, IInv, Live, Late
<1>1. Started /\ Closed /\ Failed /\ open = {} /\ Running = {} /\ leader \in {"exited", "reaped"}
  BY <1>0 DEF IInv, Progress, Emptied, Dead
<1>2. status = NoCode \/ (status = code /\ leader = "reaped")
  BY <1>0 DEF IInv, Progress, Counted
<1>3. leader' = "reaped" /\ failure' = failure
  BY <1>1 DEF Reap, Polled
<1>4. Running' = {} /\ Zombies' = {}
  <2>1. \A c \in Child : child[c] # "running"
    BY <1>1 DEF Running
  <2>2. \A c \in Child : child'[c] \notin {"running", "zombie"}
    BY <2>1 DEF Reap
  <2> QED BY <1>3, <2>2 DEF Running, Zombies
<1>5. Started' /\ Closed' /\ Failed'
  BY <1>0, <1>1, <1>3 DEF Started, Closed, Failed, Touched, output, timers
<1>6. Emptied' /\ Counted' /\ Dead' /\ Within'
  BY <1>0, <1>1, <1>2, <1>3 DEF Emptied, Counted, Dead, Within, output
<1>7. Promises'
  BY <1>0, <1>3, <1>4 DEF Promises, NothingSurvives, Settled, GreenIsClean, EvidenceIsTheProbes
<1> QED BY <1>5, <1>6, <1>7 DEF Progress

LEMMA SafeFinalScan == ASSUME IInv, FinalScan PROVE (Progress /\ Promises)'
<1>0. /\ pc = "final scan" /\ pc' = "after" /\ TypeOK /\ pc \in Live /\ pc \in Late
      /\ UNCHANGED <<probe, output, timers, status, verdict>>
  BY DEF FinalScan, Goto, IInv, Live, Late
<1>1. Started /\ Closed /\ Failed /\ open = {}
  BY <1>0 DEF IInv, Progress, Emptied
<1>2. /\ status = NoCode \/ (status = code /\ leader = "reaped")
      /\ Running = {} /\ Zombies = {} /\ leader = "reaped"
  BY <1>0 DEF IInv, Progress, Counted, Promises, NothingSurvives
<1>3. (~over /\ failure' = failure) \/ failure' # None
  BY <1>0, FirstKind DEF FinalScan
<1>4. Started' /\ Closed' /\ Failed'
  BY <1>0, <1>1, <1>3 DEF Started, Closed, Failed, Touched, probe, output, timers
<1>5. Emptied' /\ Counted' /\ Dead' /\ Within'
  BY <1>0, <1>1, <1>2, <1>3 DEF Emptied, Counted, Dead, Within, output, probe
<1>6. Running' = {} /\ Zombies' = {} /\ leader' = "reaped"
  BY <1>0, <1>2 DEF Running, Zombies, probe
<1>7. Promises'
  BY <1>0, <1>6 DEF Promises, NothingSurvives, Settled, GreenIsClean, EvidenceIsTheProbes
<1> QED BY <1>4, <1>5, <1>7 DEF Progress

\* Where the invariant is used: the verdict.
LEMMA SafeVerdict == ASSUME IInv, Verdict PROVE (Progress /\ Promises)'
<1>0. /\ pc = "after" /\ pc' = "cleanup" /\ TypeOK /\ pc \in Live /\ pc \in Late
      /\ UNCHANGED <<probe, output, failure, timers, status>>
  BY DEF Verdict, Goto, IInv, Live, Late
<1>1. Closed /\ Failed /\ open = {} /\ (failure = None => ~over)
  BY <1>0 DEF IInv, Progress, Emptied, Within
<1>2. /\ status = NoCode \/ (status = code /\ leader = "reaped")
      /\ Running = {} /\ Zombies = {} /\ leader = "reaped"
  BY <1>0 DEF IInv, Progress, Counted, Promises, NothingSurvives
<1>3. Running' = {} /\ Zombies' = {} /\ leader' = "reaped"
  BY <1>0, <1>2 DEF Running, Zombies, probe
<1>4. Progress'
  BY <1>0 DEF Progress, Started, Closed, Emptied, Failed, Counted, Dead, Within, Live, Late
<1>5. NothingSurvives' /\ Settled'
  BY <1>0, <1>3 DEF NothingSurvives, Settled
<1>6. ASSUME failure = None PROVE truncated = {} /\ cut = {} /\ code # Killed
  BY <1>0, <1>1, <1>6 DEF Failed, Touched
<1>7. GreenIsClean'
  <2>1. SUFFICES ASSUME verdict'.ok
                 PROVE  /\ code' = 0 /\ truncated' = {} /\ cut' = {} /\ ~over'
                        /\ \A s \in Stream : pipe'[s] = 0
    BY <1>3 DEF GreenIsClean
  <2>2. failure = None /\ status = 0
    <3>1. sound
      BY <2>1 DEF Verdict, NoResult
    <3>2. verdict'.ok = Ok
      BY <3>1 DEF Verdict
    <3> QED BY <2>1, <3>2 DEF Ok
  <2>3. code = 0
    BY <1>2, <2>2, SentinelAssumption
  <2>4. truncated = {} /\ cut = {} /\ ~over
    BY <1>1, <1>6, <2>2
  <2>5. \A s \in Stream : pipe[s] = 0
    BY <1>0, <1>1, <2>4 DEF Closed
  <2> QED BY <1>0, <2>3, <2>4, <2>5 DEF probe, output
<1>8. EvidenceIsTheProbes'
  <2>1. SUFFICES ASSUME verdict'.code # NoCode
                 PROVE  /\ verdict'.code = code' /\ code' # Killed
                        /\ cut' = {} /\ truncated' = {}
    BY DEF EvidenceIsTheProbes
  <2>2. sound
    BY <2>1 DEF Verdict, NoResult
  <2>3. verdict'.code = IF Ok \/ Kind = "exit_nonzero" THEN status ELSE NoCode
    BY <2>2 DEF Verdict
  <2>4. (Ok \/ Kind = "exit_nonzero") /\ verdict'.code = status
    BY <2>1, <2>3
  <2>5. failure = None
    <3>1. failure # "exit_nonzero"
      BY <1>0 DEF TypeOK
    <3> QED BY <2>4, <3>1, SentinelAssumption DEF Ok, Kind, First
  <2>6. status = code
    BY <1>2, <2>1, <2>4
  <2> QED BY <1>0, <1>6, <2>4, <2>5, <2>6 DEF probe, output
<1> QED BY <1>4, <1>5, <1>7, <1>8 DEF Promises

LEMMA InvNext == ASSUME IInv, [Next]_vars PROVE IInv'
<1>0. TypeOK' /\ Progress /\ Promises
  BY TypeNext DEF IInv
<1>1. CASE UNCHANGED vars
  <2>1. UNCHANGED <<probe, pc, output, failure, status, verdict>> /\ UNCHANGED term
    BY <1>1 DEF vars, timers
  <2> QED BY <1>0, <2>1, Quiet DEF IInv
<1>2. CASE Disturb
  <2>1. UNCHANGED <<probe, pc, output, failure, status, verdict>> /\ UNCHANGED term
    BY <1>2 DEF Disturb, timers
  <2> QED BY <1>0, <2>1, Quiet DEF IInv
<1>3. CASE Cleanup \/ Swallowed
  <2>1. pc' \in {"idle", "aborted"}
    BY <1>3 DEF Cleanup, Swallowed, Goto
  <2> QED BY <1>0, <2>1, Outside DEF IInv
<1>4. CASE HarnessStep
  BY <1>0, <1>3, <1>4, SafeSpawn, SafeTop, SafeScan, SafeTimers, SafeSelect, SafeEvents, SafeWaits,
     SafeLeaks, SafeReap, SafeFinalScan, SafeVerdict DEF HarnessStep, IInv
<1> QED BY <1>0, <1>1, <1>2, <1>3, <1>4, SafeProbe, SafeTick, SafeStart DEF Next, IInv

LEMMA Invariant == Spec => []IInv
<1>1. Init => IInv
  BY TypeInit, InvInit DEF IInv
<1>2. IInv /\ [Next]_vars => IInv'
  BY InvNext
<1> QED BY <1>1, <1>2, PTL DEF Spec

-----------------------------------------------------------------------------

\* A green probe left by itself with 0, nothing of it lives or waits to be
\* reaped, its output was read to the end within its bounds, and its directories
\* are within theirs (run_probe), whatever its descendants and the clock did.
THEOREM ProbesAreClean == Spec => []GreenIsClean
<1>1. IInv => GreenIsClean
  BY DEF IInv, Promises
<1> QED BY <1>1, Invariant, PTL

\* An exit status that is recorded is the probe's own, never the one of the
\* harness's SIGKILL, and goes with all of its output.
THEOREM EvidenceIsSound == Spec => []EvidenceIsTheProbes
<1>1. IInv => EvidenceIsTheProbes
  BY DEF IInv, Promises
<1> QED BY <1>1, Invariant, PTL

\* When the verdict is drawn up nothing of the probe is left, so the next probe
\* finds the cgroup empty.
THEOREM ProbesAreEnded == Spec => []NothingSurvives
<1>1. IInv => NothingSurvives
  BY DEF IInv, Promises
<1> QED BY <1>1, Invariant, PTL
-----------------------------------------------------------------------------
(***************************************************************************)
(* What a probe is given: the promises of ReviewedCode and Toolchain for   *)
(* every manifest, lock file, cache and host.                              *)
(***************************************************************************)
\* The tables of a manifest as Cargo reads them: entries of the registry, or by
\* a path.
IsManifest(m) ==
    /\ m.build \in {"unset", "disowned", "script"} /\ m.buildFile \in BOOLEAN
    /\ m.tables \in [Code!Selectors \X Code!Tables -> SUBSET {"registry", "path"}]

\* A manifest that is accepted runs and builds nothing but its reviewed targets
\* and locked archives (validate_rust_target_topology).
THEOREM AcceptedIsReviewed ==
    ASSUME NEW m, IsManifest(m), Code!AcceptsTopology(m)
    PROVE  Code!UnreviewedCode(m) = {}
<1> DEFINE kinds == UNION {m.tables[t] : t \in Code!Selectors \X Code!Tables}
<1>1. m.configs = {} /\ ~Code!HasExecutionHook(m)
  BY DEF Code!AcceptsTopology
<1>2. m.build # "script" /\ ~m.buildFile /\ ~m.overrides /\ "path" \notin kinds
  BY <1>1 DEF Code!HasExecutionHook, Code!HasPathDependency
<1>3. kinds \subseteq {"registry"}
  <2>1. \A t \in Code!Selectors \X Code!Tables : m.tables[t] \subseteq {"registry", "path"}
    BY DEF IsManifest
  <2> QED BY <1>2, <2>1
<1>4. ~Code!RunsBuildScript(m)
  BY <1>2 DEF Code!RunsBuildScript
<1> HIDE DEF kinds
<1>5. Code!UnreviewedCode(m) = {} \cup {} \cup (kinds \ {"registry"}) \cup m.configs
  BY <1>2, <1>4 DEF Code!UnreviewedCode, kinds
<1> QED BY <1>1, <1>3, <1>5

\* Archives as they are told apart: what is no archive declares nothing.
IsLock(lock) ==
    \A p \in DOMAIN lock :
        lock[p].checksum # Nothing =>
            lock[p].checksum.shape \in {"sound", "unsound", "broken"}

\* What is there when the cache is read again was there before, and is the same.
IsLater(copied, scanned, lock) ==
    \A i \in DOMAIN Code!Namespaces, p \in DOMAIN lock :
        copied[<<Code!Namespaces[i], p>>] \in {Nothing, scanned[<<Code!Namespaces[i], p>>]}

\* The Cargo home of rust_all, from a cache that was scanned and then copied.
Home(scanned, copied, index, lock, trusted) ==
    Code!FreshCargoHome("rust_all", Code!VerifiedTemplate(scanned, copied, index, lock, trusted))

\* Whatever the lock file lists, the cache holds and loses between the scan and
\* the copy, and the index has: no archive whose build script nobody reviewed
\* reaches a probe's Cargo home, and nothing in it is a link or was configured by
\* anybody else (create_verified_cargo_template, create_isolated_cargo_home).
THEOREM HomesAreReviewed ==
    ASSUME NEW scanned, NEW copied, NEW index, NEW lock, NEW trusted,
           IsLock(lock), IsLater(copied, scanned, lock),
           \A p \in DOMAIN lock : Code!File(lock[p].checksum) # Nothing,
           Home(scanned, copied, index, lock, trusted) # Refused
    PROVE  ~Code!IsUnreviewed(Home(scanned, copied, index, lock, trusted), lock, trusted)
<1> DEFINE template == Code!VerifiedTemplate(scanned, copied, index, lock, trusted)
           home == Home(scanned, copied, index, lock, trusted)
           packages == Code!LockedPackages(lock)
<1>1. /\ template # Refused /\ Code!CopyTree(template.index, FALSE) # Refused
      /\ home = [template EXCEPT !.configs = Code!OwnedConfig]
  BY DEF Home, Code!FreshCargoHome, Code!IsolatedCargoHome
<1>2. /\ packages # Refused
      /\ Code!Unapproved(scanned, lock, trusted) = {}
      /\ Code!CopyTree(index, TRUE) # Refused
      /\ Code!Copied(copied, lock) # Refused
      /\ template = [archives |-> Code!Copied(copied, lock), index |-> index, configs |-> {}]
  BY <1>1 DEF Code!VerifiedTemplate
<1>3. /\ home.configs = Code!OwnedConfig /\ home.index = index
      /\ home.archives = Code!Copied(copied, lock)
  <2> HIDE DEF template
  <2> QED BY <1>1, <1>2
<1>4. "link" \notin {e.kind : e \in index}
  BY <1>2 DEF Code!CopyTree
<1>5. /\ packages = {p \in DOMAIN lock : lock[p].source = "registry"}
      /\ \A p \in packages : lock[p].checksum # Nothing
  BY <1>2 DEF Code!LockedPackages
<1> DEFINE selected == {p \in packages : Code!Matching(scanned, lock, p) # {}}
<1>6. /\ \A p \in selected : lock[p].checksum.shape # "unsound"
      /\ \A p \in selected :
            Code!DeclaresBuildHook(lock[p].checksum) => <<p, lock[p].checksum>> \in trusted
  <2>1. Refused # {}
    BY CodeAssumption
  <2> QED BY <1>2, <2>1 DEF Code!Unapproved
<1>7. Code!Copied(copied, lock) =
        {[package |-> p, namespace |-> Code!Namespaces[Code!Min(Code!Matching(copied, lock, p))],
          archive |-> lock[p].checksum] :
             p \in {q \in packages : Code!Matching(copied, lock, q) # {}}}
  BY <1>2 DEF Code!Copied
<1> HIDE DEF packages, home
<1>8. ASSUME NEW p \in Code!Built(home, lock),
             lock[p].checksum.shape # "broken", Code!RunsBuildScript(lock[p].checksum)
      PROVE  <<p, lock[p].checksum>> \in trusted
  <2>1. PICK a \in home.archives : a.package = p
    BY DEF Code!Built
  <2>2. p \in packages /\ Code!Matching(copied, lock, p) # {}
    BY <1>3, <1>7, <2>1
  <2>3. PICK i \in DOMAIN Code!Namespaces :
           copied[<<Code!Namespaces[i], p>>] = Code!File(lock[p].checksum)
    BY <2>2 DEF Code!Matching
  <2>4. scanned[<<Code!Namespaces[i], p>>] = Code!File(lock[p].checksum)
    BY <1>5, <2>2, <2>3 DEF IsLater
  <2>5. p \in selected
    BY <2>2, <2>4 DEF Code!Matching
  <2>6. lock[p].checksum.shape = "sound"
    BY <1>5, <1>6, <2>2, <2>5, <1>8 DEF IsLock
  <2>7. Code!DeclaresBuildHook(lock[p].checksum)
    BY <1>8, <2>6 DEF Code!RunsBuildScript, Code!DeclaresBuildHook
  <2> QED BY <1>6, <2>5, <2>7
<1> QED BY <1>3, <1>4, <1>8 DEF Code!IsUnreviewed, home

-----------------------------------------------------------------------------
\* A tool that is found may be run.
LEMMA FoundIsTrusted ==
    ASSUME NEW host, NEW name, Rust!TrustedExecutable(host, name) # Refused
    PROVE  Rust!Trusted(Rust!TrustedExecutable(host, name))
<1> DEFINE found == {i \in DOMAIN Rust!SearchedPlaces :
                        Rust!Trusted(host.at[<<Rust!SearchedPlaces[i], name>>])}
<1>1. /\ found # {}
      /\ Rust!TrustedExecutable(host, name) =
            host.at[<<Rust!SearchedPlaces[Rust!Min(found)], name>>]
  BY DEF Rust!TrustedExecutable
<1>2. found \subseteq {1, 2}
  BY DEF Rust!SearchedPlaces
<1>3. Rust!Min(found) \in found
  <2> HIDE DEF found
  <2>1. \E i \in found : \A j \in found : i <= j
    <3>1. CASE 1 \in found
      <4>1. \A j \in found : 1 <= j
        BY <1>2
      <4> QED BY <3>1, <4>1
    <3>2. CASE 1 \notin found
      <4>1. found = {2}
        BY <1>1, <1>2, <3>2
      <4> QED BY <4>1
    <3> QED BY <3>1, <3>2
  <2> QED BY <2>1 DEF Rust!Min
<1> QED BY <1>1, <1>3

LEMMA ExactIsTrusted ==
    ASSUME NEW file, Rust!TrustedExactPath(file) # Refused
    PROVE  Rust!TrustedExactPath(file) = file /\ Rust!Trusted(file)
BY DEF Rust!TrustedExactPath

\* A snapshot that is handed over has its tools in its own bin directory.
IsSnapshot(snapshot) == \A c \in Rust!Components : snapshot.bin[c].place = snapshot.root

\* However cargo, rustc and rustup are installed and whatever rustup answers: two
\* tools are pinned that may be run, of one root, which is the one that is staged
\* and the one that is expected (_direct_toolchain_root, _rustup_which,
\* _require_expected_toolchain_versions).
THEOREM ToolsAreOfOneRoot ==
    ASSUME NEW host, host.snapshot # Nothing => IsSnapshot(host.snapshot),
           Rust!Discovered(host) # Refused
    PROVE  Rust!OfOneRoot(Rust!Discovered(host), host.expected)
<1> DEFINE t == Rust!Discovered(host)
<1>1. /\ t = IF host.snapshot # Nothing THEN Rust!BySnapshot(host.snapshot) ELSE Rust!BySearch(host)
      /\ \A c \in Rust!Components : host.expected[c] \in {Nothing, t[c].place}
  BY DEF Rust!Discovered
<1>2. SUFFICES /\ t.cargo.safe /\ t.cargo.place = t.root
               /\ t.rustc.safe /\ t.rustc.place = t.root
  <2> HIDE DEF t
  <2> QED BY <1>1, <1>2 DEF Rust!OfOneRoot, Rust!Components, t
<1>3. CASE host.snapshot # Nothing
  <2> DEFINE tools == [c \in Rust!Components |-> Rust!TrustedExactPath(host.snapshot.bin[c])]
  <2>1. /\ \A c \in Rust!Components : tools[c] # Refused
        /\ t = [cargo |-> tools["cargo"], rustc |-> tools["rustc"], root |-> host.snapshot.root]
    BY <1>1, <1>3 DEF Rust!BySnapshot
  <2>2. \A c \in Rust!Components : tools[c].safe /\ tools[c].place = host.snapshot.root
    <3> TAKE c \in Rust!Components
    <3>1. tools[c] = host.snapshot.bin[c] /\ Rust!Trusted(host.snapshot.bin[c])
      BY <2>1, ExactIsTrusted
    <3> QED BY <1>3, <3>1 DEF Rust!Trusted, IsSnapshot
  <2>3. t.cargo = tools["cargo"] /\ t.rustc = tools["rustc"] /\ t.root = host.snapshot.root
    BY <2>1
  <2> HIDE DEF tools, t
  <2> QED BY <2>2, <2>3 DEF Rust!Components
<1>4. CASE host.snapshot = Nothing
  <2> DEFINE cargo == Rust!TrustedExecutable(host, "cargo")
             rustc == Rust!TrustedExecutable(host, "rustc")
             rustup == Rust!TrustedExecutable(host, "rustup")
  <2>1. cargo # Refused /\ rustc # Refused
    BY <1>1, <1>4 DEF Rust!BySearch
  <2>2. CASE t = Rust!ByRustup(host, cargo, rustc, rustup)
    <3> DEFINE pinnedCargo == Rust!RustupWhich(host, "cargo")
               pinnedRustc == Rust!RustupWhich(host, "rustc")
    <3>1. /\ pinnedCargo # Refused /\ pinnedRustc # Refused
          /\ pinnedCargo.place = pinnedRustc.place
          /\ t = [cargo |-> pinnedCargo, rustc |-> pinnedRustc, root |-> pinnedCargo.place]
      BY <2>2 DEF Rust!ByRustup
    <3>2. pinnedCargo.safe /\ pinnedRustc.safe
      BY <3>1, ExactIsTrusted DEF Rust!RustupWhich, Rust!Trusted
    <3> HIDE DEF pinnedCargo, pinnedRustc
    <3> QED BY <3>1, <3>2
  <2>3. CASE /\ Rust!SelfContained(host, cargo, rustc)
             /\ t = [cargo |-> cargo, rustc |-> rustc, root |-> host.sysroot]
    <3>1. cargo.safe /\ rustc.safe
      BY <2>1, FoundIsTrusted DEF Rust!Trusted
    <3> HIDE DEF cargo, rustc
    <3> QED BY <2>3, <3>1 DEF Rust!SelfContained
  <2> QED BY <1>1, <1>4, <2>2, <2>3 DEF Rust!BySearch
<1> QED BY <1>3, <1>4

\* Whatever the tree of the root holds by then, a staged runtime has as cargo and
\* rustc what was pinned, and otherwise the files of the tree, none of them a link
\* (stage_rust_toolchain_runtime).
THEOREM PinnedIsStaged ==
    ASSUME NEW tree, NEW pinned, Rust!StagedRuntime(tree, pinned) # Refused
    PROVE  Rust!IsStagedOf(Rust!StagedRuntime(tree, pinned), tree, pinned)
<1> DEFINE tools == {[dir |-> "bin", name |-> c, data |-> pinned[c]] : c \in Rust!Components}
           runtime == Rust!StagedRuntime(tree, pinned)
<1>1. runtime = Rust!Walked(tree) \cup tools /\ \A e \in tree : e.data # "link"
  BY DEF Rust!StagedRuntime
<1>2. \A e \in tools : e.dir = "bin" /\ e.name \in Rust!Components
  OBVIOUS
<1>3. \A e : e \in Rust!Walked(tree) <=> e \in tree /\ ~(e.dir = "bin" /\ e.name \in Rust!Components)
  BY DEF Rust!Walked
<1> HIDE DEF runtime
<1>4. {e \in runtime : e.dir = "bin" /\ e.name \in Rust!Components} = tools
  <2> HIDE DEF tools
  <2> QED BY <1>1, <1>2, <1>3
<1>5. {e \in runtime : e.dir = "lib"} = {e \in tree : e.dir = "lib"}
  <2> HIDE DEF tools
  <2> QED BY <1>1, <1>2, <1>3
<1> QED BY <1>1, <1>4, <1>5 DEF Rust!IsStagedOf, runtime

-----------------------------------------------------------------------------
(***************************************************************************)
(* Every manifest, lock file, cache and path of the model is one of those  *)
(* the theorems above are about, and none of the plain ones is refused.    *)
(***************************************************************************)
LEMMA CodeCardinality == \A S : Code!Cardinality(S) = Cardinality(S)
BY DEF Code!Cardinality, Cardinality

LEMMA CodeMin == \A k \in Nat : Code!Min({k}) = k
BY DEF Code!Min

\* The least of some of the two namespaces is one of them.
LEMMA CodeMinOfTwo ==
    ASSUME NEW S, S \subseteq {1, 2}, S # {}
    PROVE  Code!Min(S) \in {1, 2}
<1>1. CASE 1 \in S
  <2>1. \A j \in S : 1 <= j
    BY <1>1
  <2>2. \A i \in S : (\A j \in S : i <= j) => i = 1
    BY <1>1
  <2> QED BY <1>1, <2>1, <2>2 DEF Code!Min
<1>2. CASE 1 \notin S
  <2>1. S = {2}
    BY <1>2
  <2> QED BY <2>1, CodeMin
<1> QED BY <1>1, <1>2

LEMMA ManifestsAre ==
    ASSUME NEW m \in Code!Manifests
    PROVE  IsManifest(m)
<1>1. m.build \in {"unset", "disowned", "script"} /\ m.buildFile \in BOOLEAN
  BY DEF Code!Manifests
<1>2. m.tables \in Code!DependencyTables
  BY DEF Code!Manifests
<1> DEFINE keys == Code!Selectors \X Code!Tables
           table(e, t) == IF t = e[1] THEN e[2]
                          ELSE IF t[2] = "build-dependencies" THEN {} ELSE {"registry"}
<1>3. PICK e \in keys \X {{}, {"registry"}, {"registry", "path"}} : m.tables = [t \in keys |-> table(e, t)]
  BY <1>2 DEF Code!DependencyTables
<1>4. \A t \in keys : table(e, t) \in SUBSET {"registry", "path"}
  <2>1. e[2] \in {{}, {"registry"}, {"registry", "path"}}
    BY <1>3
  <2> HIDE DEF keys
  <2> QED BY <2>1
<1>5. m.tables \in [keys -> SUBSET {"registry", "path"}]
  <2> HIDE DEF keys, table
  <2> QED BY <1>3, <1>4
<1> QED BY <1>1, <1>5 DEF IsManifest

LEMMA NothingIsSmuggled == Code!Smuggled = {}
BY ManifestsAre, AcceptedIsReviewed DEF Code!Smuggled

LEMMA ArchivesAre ==
    /\ Code!Plain \in Code!Archives
    /\ Code!Plain.shape = "sound" /\ Code!Plain.build = "unset"
    /\ ~Code!Plain.buildFile /\ ~Code!Plain.links
BY DEF Code!Plain, Code!Archives

\* A lock file, a cache and what is left of it, as they are told apart.
LEMMA WorldsAre ==
    ASSUME NEW w \in Code!Worlds
    PROVE  /\ DOMAIN w.lock = {"a", "b"}
           /\ w.lock["a"].source = "registry" /\ w.lock.a = w.lock["a"]
           /\ w.lock["a"].checksum \in Code!Archives /\ w.lock["b"].checksum = Code!Plain
           /\ DOMAIN w.copied = Code!Range(Code!Namespaces) \X {"a", "b"}
           /\ IsLater(w.copied, w.scanned, w.lock)
<1>0. PICK l \in Code!Locks :
         \E c \in Code!Caches(l) :
            w \in [lock : {l}, trusted : Code!Trust(l), scanned : {c}, copied : Code!Later(c),
                   index : {{}, {[kind |-> "link", depth |-> 1]}}]
  BY DEF Code!Worlds
<1>1. PICK c \in Code!Caches(l) :
         w \in [lock : {l}, trusted : Code!Trust(l), scanned : {c}, copied : Code!Later(c),
                index : {{}, {[kind |-> "link", depth |-> 1]}}]
  BY <1>0
<1>2. w.lock = l /\ w.scanned = c /\ w.copied \in Code!Later(c)
  BY <1>1
<1>3. PICK x \in Code!Archives, s \in {"registry", "workspace"} :
         l = [a |-> [source |-> "registry", checksum |-> x], b |-> [source |-> s, checksum |-> Code!Plain]]
  BY DEF Code!Locks
<1>4. /\ DOMAIN l = {"a", "b"} /\ l["a"].source = "registry" /\ l.a = l["a"]
      /\ l["a"].checksum = x /\ l["b"].checksum = Code!Plain
  BY <1>3
<1>5. DOMAIN c = Code!Range(Code!Namespaces) \X {"a", "b"}
  BY DEF Code!Caches
<1>6. PICK gone \in SUBSET (Code!Range(Code!Namespaces) \X {"a"}) :
         w.copied = [f \in DOMAIN c |-> IF f \in gone THEN Nothing ELSE c[f]]
  BY <1>2 DEF Code!Later
<1>7. \A i \in DOMAIN Code!Namespaces : Code!Namespaces[i] \in Code!Range(Code!Namespaces)
  BY DEF Code!Range
<1>8. IsLater(w.copied, w.scanned, w.lock)
  <2>1. \A f \in DOMAIN c : w.copied[f] \in {Nothing, c[f]}
    BY <1>6
  <2>2. \A i \in DOMAIN Code!Namespaces, p \in {"a", "b"} : <<Code!Namespaces[i], p>> \in DOMAIN c
    BY <1>5, <1>7
  <2> QED BY <1>2, <1>4, <2>1, <2>2 DEF IsLater
<1> QED BY <1>2, <1>3, <1>4, <1>5, <1>6, <1>8

LEMMA NothingIsUnreviewed == Code!Unreviewed = {}
<1>1. ASSUME NEW w \in Code!Worlds, Code!Home(w) # Refused
      PROVE  ~Code!IsUnreviewed(Code!Home(w), w.lock, w.trusted)
  <2>1. \A p \in DOMAIN w.lock : w.lock[p].checksum \in Code!Archives
    BY WorldsAre, ArchivesAre
  <2>2. IsLock(w.lock)
    <3>1. \A x \in Code!Archives : x.shape \in {"sound", "unsound", "broken"}
      BY DEF Code!Archives
    <3> QED BY <2>1, <3>1 DEF IsLock
  <2>3. \A p \in DOMAIN w.lock : Code!File(w.lock[p].checksum) # Nothing
    BY <2>1, CodeAssumption
  <2>4. IsLater(w.copied, w.scanned, w.lock)
    BY WorldsAre
  <2>5. Code!Home(w) = Home(w.scanned, w.copied, w.index, w.lock, w.trusted)
    BY DEF Code!Home, Home
  <2> QED BY <1>1, <2>2, <2>3, <2>4, <2>5, HomesAreReviewed
<1> QED BY <1>1 DEF Code!Unreviewed

\* What is copied of the two packages is a set of one or two copies.
LEMMA CopiedIsNotRefused ==
    ASSUME NEW Q, Q \in SUBSET {"a", "b"}, NEW copy, \A p \in Q : copy[p] \in Code!Copies
    PROVE  {copy[p] : p \in Q} \in SUBSET Code!Copies /\ {copy[p] : p \in Q} # Refused
<1>1. {copy[p] : p \in Q} \in SUBSET Code!Copies
  OBVIOUS
<1>2. CASE Q = {}
  BY <1>2, CodeAssumption
<1>3. CASE Q = {"a"}
  <2>1. {copy[p] : p \in Q} = {copy["a"], copy["a"]}
    BY <1>3
  <2> QED BY <1>1, <1>3, <2>1, CodeAssumption
<1>4. CASE Q = {"b"}
  <2>1. {copy[p] : p \in Q} = {copy["b"], copy["b"]}
    BY <1>4
  <2> QED BY <1>1, <1>4, <2>1, CodeAssumption
<1>5. CASE Q = {"a", "b"}
  <2>1. {copy[p] : p \in Q} = {copy["a"], copy["b"]}
    BY <1>5
  <2> QED BY <1>1, <1>5, <2>1, CodeAssumption
<1>6. Q \in {{}, {"a"}, {"b"}, {"a", "b"}}
  OBVIOUS
<1> QED BY <1>1, <1>2, <1>3, <1>4, <1>5, <1>6

\* A cache with nothing foreign to the lock file, of which nothing runs when it
\* is built, is not refused.
LEMMA NothingIsExcluded == Code!Excluded = {}
<1>1. ASSUME NEW w \in Code!Worlds, w.index = {}, w.lock.a.checksum.shape # "unsound",
             ~Code!RunsBuildScript(w.lock.a.checksum), ~w.lock.a.checksum.links,
             \A f \in DOMAIN w.copied : w.copied[f] \in {Nothing, Code!File(w.lock[f[2]].checksum)}
      PROVE  Code!Home(w) # Refused
  <2> DEFINE registry == {p \in DOMAIN w.lock : w.lock[p].source = "registry"}
             Q == {p \in registry : Code!Matching(w.copied, w.lock, p) # {}}
             copy == [p \in Q |-> [package |-> p,
                                   namespace |-> Code!Namespaces[Code!Min(Code!Matching(w.copied, w.lock, p))],
                                   archive |-> w.lock[p].checksum]]
             copied == Code!Copied(w.copied, w.lock)
             template == Code!VerifiedTemplate(w.scanned, w.copied, w.index, w.lock, w.trusted)
  <2>1. \A p \in DOMAIN w.lock : w.lock[p].checksum \in Code!Archives
    BY WorldsAre, ArchivesAre
  <2>2. registry \subseteq {"a", "b"} /\ "a" \in registry
    BY WorldsAre
  <2>3. Code!LockedPackages(w.lock) = registry
    <3>1. ~\E p \in registry : w.lock[p].checksum = Nothing
      BY <2>1, CodeAssumption
    <3> QED BY <2>2, <3>1 DEF Code!LockedPackages
  <2>4. registry # Refused
    BY <2>2, CodeAssumption
  <2> HIDE DEF registry
  <2>5. \A p \in registry : /\ w.lock[p].checksum.shape # "unsound"
                            /\ ~Code!DeclaresBuildHook(w.lock[p].checksum)
    <3>1. /\ w.lock["a"].checksum.shape # "unsound"
          /\ ~Code!DeclaresBuildHook(w.lock["a"].checksum)
      BY <1>1, WorldsAre DEF Code!DeclaresBuildHook, Code!RunsBuildScript
    <3>2. /\ w.lock["b"].checksum.shape # "unsound"
          /\ ~Code!DeclaresBuildHook(w.lock["b"].checksum)
      BY WorldsAre, ArchivesAre DEF Code!DeclaresBuildHook
    <3> QED BY <2>2, <3>1, <3>2
  <2>6. Code!Unapproved(w.scanned, w.lock, w.trusted) = {}
    BY <2>3, <2>5 DEF Code!Unapproved
  <2>7. Code!CopyTree({}, TRUE) = {} /\ Code!CopyTree({}, FALSE) = {}
    <3>1. Code!Cardinality({}) = 0
      BY FS_EmptySet, CodeCardinality
    <3> QED BY <3>1 DEF Code!CopyTree, Code!MaxIndexEntries
  <2>8. Refused # {}
    BY CodeAssumption
  <2>9. DOMAIN Code!Namespaces = {1, 2} /\ \A i \in {1, 2} : Code!Namespaces[i] \in Code!Range(Code!Namespaces)
    BY DEF Code!Namespaces, Code!Range
  <2>10. \A p \in registry : Code!Candidates(w.copied, p) # {} => Code!Matching(w.copied, w.lock, p) # {}
    <3> TAKE p \in registry
    <3> HAVE Code!Candidates(w.copied, p) # {}
    <3>1. PICK i \in {1, 2} : w.copied[<<Code!Namespaces[i], p>>] # Nothing
      BY <2>9 DEF Code!Candidates
    <3>2. <<Code!Namespaces[i], p>> \in DOMAIN w.copied
      BY <2>2, <2>9, WorldsAre
    <3>3. w.copied[<<Code!Namespaces[i], p>>] = Code!File(w.lock[p].checksum)
      BY <1>1, <3>1, <3>2
    <3> QED BY <2>9, <3>3 DEF Code!Matching
  <2>11. \A p \in Q : copy[p] \in Code!Copies
    <3> TAKE p \in Q
    <3>1. Code!Matching(w.copied, w.lock, p) \subseteq {1, 2} /\ Code!Matching(w.copied, w.lock, p) # {}
      BY <2>9 DEF Code!Matching
    <3>2. Code!Namespaces[Code!Min(Code!Matching(w.copied, w.lock, p))] \in Code!Range(Code!Namespaces)
      BY <2>9, <3>1, CodeMinOfTwo
    <3>3. p \in {"a", "b"} /\ w.lock[p].checksum \in Code!Archives
      BY <2>1, <2>2, WorldsAre
    <3> HIDE DEF Q
    <3> QED BY <3>2, <3>3 DEF Code!Copies
  <2>12. copied = {copy[p] : p \in Q}
    <3>1. ~\E p \in registry : /\ Code!Candidates(w.copied, p) # {}
                               /\ Code!Matching(w.copied, w.lock, p) = {}
      BY <2>10
    <3>2. copied = {[package |-> p, namespace |-> Code!Namespaces[Code!Min(Code!Matching(w.copied, w.lock, p))],
                     archive |-> w.lock[p].checksum] : p \in Q}
      BY <2>3, <3>1 DEF Code!Copied
    <3> HIDE DEF Q, copied
    <3> QED BY <3>2
  <2> HIDE DEF copy
  <2>13. Q \in SUBSET {"a", "b"}
    BY <2>2
  <2> HIDE DEF Q, copied
  <2>14. copied \in SUBSET Code!Copies /\ copied # Refused
    BY <2>11, <2>12, <2>13, CopiedIsNotRefused
  <2>15. template = [archives |-> copied, index |-> {}, configs |-> {}]
    <3>1. w.index = {}
      BY <1>1
    <3> QED BY <2>3, <2>4, <2>6, <2>7, <2>8, <2>14, <3>1 DEF Code!VerifiedTemplate, copied
  <2>16. template \in Code!Homes
    BY <2>14, <2>15 DEF Code!Homes
  <2>17. template # Refused
    BY <2>16, CodeAssumption
  <2> DEFINE home == [archives |-> copied, index |-> {}, configs |-> Code!OwnedConfig]
  <2>18. Code!Home(w) = home
    <3>1. Code!Home(w) = Code!IsolatedCargoHome(template)
      BY DEF Code!Home, Code!FreshCargoHome
    <3>2. template.configs = {} /\ template.index = {}
      BY <2>15
    <3>3. [template EXCEPT !.configs = Code!OwnedConfig] = home
      BY <2>15
    <3> HIDE DEF template, home
    <3> QED BY <2>7, <2>8, <2>17, <3>1, <3>2, <3>3 DEF Code!IsolatedCargoHome
  <2>19. home \in Code!Homes
    BY <2>14 DEF Code!Homes
  <2> QED BY <2>18, <2>19, CodeAssumption
<1> QED BY <1>1 DEF Code!Excluded

\* The paths an interpreter starts with: the source's own entries are removed.
LEMMA PathsAre ==
    /\ DOMAIN <<"", "lib", "site">> = {1, 2, 3}
    /\ DOMAIN <<"lib", "tools", "site">> = {1, 2, 3}
    /\ DOMAIN <<"root", "tools", "lib", "site">> = {1, 2, 3, 4}
<1>1. DOMAIN <<"", "lib", "site">> = {1, 2, 3}
  OBVIOUS
<1>2. DOMAIN <<"lib", "tools", "site">> = {1, 2, 3}
  OBVIOUS
<1>3. DOMAIN <<"root", "tools", "lib", "site">> = {1, 2, 3, 4}
  OBVIOUS
<1> QED BY <1>1, <1>2, <1>3

\* Of a path the bootstrap leaves the library and, after it, what is installed.
IsPath(path, k, m) ==
    /\ path[k] = "lib" /\ path[m] = "site"
    /\ k \in DOMAIN path /\ m \in DOMAIN path
    /\ \A i \in DOMAIN path : Code!OnModulePath(path[i]) <=> i \in {k, m}
    /\ \A i \in DOMAIN path : path[i] \in {"", "root", "tools", "lib", "site"}

LEMMA PathIs ==
    ASSUME NEW path \in Code!SearchPaths
    PROVE  IsPath(path, 2, 3) \/ IsPath(path, 3, 4) \/ IsPath(path, 1, 3)
<1>0. path \in {<<"", "lib", "site">>, <<"root", "tools", "lib", "site">>, <<"lib", "tools", "site">>}
  BY DEF Code!SearchPaths
<1>1. CASE path = <<"", "lib", "site">>
  <2>1. DOMAIN path = {1, 2, 3} /\ path[1] = "" /\ path[2] = "lib" /\ path[3] = "site"
    BY <1>1, PathsAre
  <2>2. IsPath(path, 2, 3)
    BY <2>1 DEF IsPath, Code!OnModulePath
  <2> QED BY <2>2
<1>2. CASE path = <<"root", "tools", "lib", "site">>
  <2>1. /\ DOMAIN path = {1, 2, 3, 4} /\ path[1] = "root" /\ path[2] = "tools"
        /\ path[3] = "lib" /\ path[4] = "site"
    BY <1>2, PathsAre
  <2>2. IsPath(path, 3, 4)
    BY <2>1 DEF IsPath, Code!OnModulePath
  <2> QED BY <2>2
<1>3. CASE path = <<"lib", "tools", "site">>
  <2>1. DOMAIN path = {1, 2, 3} /\ path[1] = "lib" /\ path[2] = "tools" /\ path[3] = "site"
    BY <1>3, PathsAre
  <2>2. IsPath(path, 1, 3)
    BY <2>1 DEF IsPath, Code!OnModulePath
  <2> QED BY <2>2
<1> QED BY <1>0, <1>1, <1>2, <1>3

\* A module of the standard library comes from it; of the others the finder
\* serves those the repository has as tools.
LEMMA OriginIs ==
    ASSUME NEW name \in Code!ModuleNames, NEW source, NEW path, NEW k \in Nat, NEW m \in Nat,
           IsPath(path, k, m)
    PROVE  IF name \in Code!StandardLibrary \cup Code!Dotted
             THEN Code!Origin(name, source, path, Code!Answers(source)) = "lib"
             ELSE (Code!Origin(name, source, path, Code!Answers(source)) = "tools") <=> (name \in source)
<1> DEFINE std == Code!StandardLibrary \cup Code!Dotted
           has == Code!Answers(source)
           entries == {i \in DOMAIN path : Code!OnModulePath(path[i]) /\ name \in has[path[i]]}
           origin == Code!Origin(name, source, path, has)
<1>1. has["lib"] = std /\ has["site"] = {"installed", "qsol_canonical"}
  BY DEF Code!Answers
<1>2. origin = IF Code!FinderServes(name, source) THEN "tools"
               ELSE IF entries = {} THEN Nothing ELSE path[Code!Min(entries)]
  <2> HIDE DEF has
  <2> QED BY DEF Code!Origin
<1>3. Code!FinderServes(name, source) <=> name \notin std /\ name \in source
  BY DEF Code!FinderServes
<1>4. std \cap {"installed", "qsol_canonical"} = {}
  BY DEF Code!StandardLibrary, Code!Dotted
<1> HIDE DEF has, std, origin
<1>5. \A i : i \in entries <=> \/ (i = k /\ name \in std)
                              \/ (i = m /\ name \in {"installed", "qsol_canonical"})
  BY <1>1 DEF IsPath
<1> HIDE DEF entries
<1>6. CASE name \in std
  <2>1. entries = {k}
    BY <1>4, <1>5, <1>6
  <2>2. Code!Min(entries) = k /\ entries # {}
    BY <2>1, CodeMin
  <2>3. origin = "lib"
    BY <1>2, <1>3, <1>6, <2>2 DEF IsPath
  <2> QED BY <1>6, <2>3 DEF origin, std, has
<1>7. CASE name \notin std
  <2>1. CASE name \in source
    <3>1. origin = "tools"
      BY <1>2, <1>3, <1>7, <2>1
    <3> QED BY <1>7, <2>1, <3>1 DEF origin, std, has
  <2>2. CASE name \notin source
    <3>1. origin # "tools"
      <4>1. CASE entries = {}
        BY <1>2, <1>3, <2>2, <4>1, CodeAssumption
      <4>2. CASE entries # {}
        <5>1. entries = {m}
          BY <1>5, <1>7, <4>2
        <5>2. Code!Min(entries) = m
          BY <5>1, CodeMin
        <5> QED BY <1>2, <1>3, <2>2, <4>2, <5>2 DEF IsPath
      <4> QED BY <4>1, <4>2
    <3> QED BY <1>7, <2>2, <3>1 DEF origin, std, has
  <2> QED BY <2>1, <2>2
<1> QED BY <1>6, <1>7

LEMMA NothingIsShadowed == Code!Shadowed = {}
<1>1. ASSUME NEW q \in Code!Shadowed PROVE FALSE
  <2>1. q[1] \in Code!ModuleNames /\ q[3] \in Code!SearchPaths
    BY DEF Code!Shadowed
  <2> DEFINE origin == Code!Origin(q[1], q[2], q[3], Code!Answers(q[2]))
             std == Code!StandardLibrary \cup Code!Dotted
  <2>2. IF q[1] \in std THEN origin # "lib" ELSE (origin = "tools") # (q[1] \in q[2])
    BY DEF Code!Shadowed
  <2>3. IF q[1] \in std THEN origin = "lib" ELSE (origin = "tools") <=> (q[1] \in q[2])
    BY <2>1, PathIs, OriginIs
  <2> HIDE DEF origin, std
  <2>4. (origin = "tools") \in BOOLEAN /\ (q[1] \in q[2]) \in BOOLEAN
    OBVIOUS
  <2>5. CASE q[1] \in std
    BY <2>2, <2>3, <2>5
  <2>6. CASE q[1] \notin std
    <3>1. (origin = "tools") # (q[1] \in q[2])
      BY <2>2, <2>6
    <3>2. (origin = "tools") <=> (q[1] \in q[2])
      BY <2>3, <2>6
    <3> QED BY <3>1, <3>2
  <2> QED BY <2>5, <2>6
<1> QED BY <1>1

LEMMA CodeIsReviewed == Code!ReviewedOnly
BY NothingIsSmuggled, NothingIsUnreviewed, NothingIsExcluded, NothingIsShadowed DEF Code!ReviewedOnly

\* A probe is only started on code that was reviewed, and a cache with nothing
\* foreign to the lock file is not refused (validate_rust_target_topology,
\* create_verified_cargo_template, PYTHON_PROBE_BOOTSTRAP).
THEOREM ReviewsTheCode == Spec => []StartsReviewedCode
<1>1. StartsReviewedCode
  BY CodeIsReviewed DEF StartsReviewedCode
<1> QED BY <1>1, PTL

-----------------------------------------------------------------------------
(***************************************************************************)
(* Every host and every tree of the model: what is found and pinned, and   *)
(* that a plain host and a small complete tree are not refused.            *)
(***************************************************************************)
LEMMA RustMin ==
    ASSUME NEW S, S \subseteq {1, 2}, S # {}
    PROVE  Rust!Min(S) = IF 1 \in S THEN 1 ELSE 2
<1>1. CASE 1 \in S
  <2>1. \A j \in S : 1 <= j
    BY <1>1
  <2>2. \A i \in S : (\A j \in S : i <= j) => i = 1
    BY <1>1
  <2> QED BY <1>1, <2>1, <2>2 DEF Rust!Min
<1>2. CASE 1 \notin S
  <2>1. S = {2}
    BY <1>2
  <2>2. 2 \in S /\ \A j \in S : 2 <= j
    BY <2>1
  <2> QED BY <1>2, <2>1, <2>2 DEF Rust!Min
<1> QED BY <1>1, <1>2

\* The file that is found, place by place.
LEMMA FoundIs ==
    ASSUME NEW host, NEW name
    PROVE  Rust!TrustedExecutable(host, name) =
             IF Rust!Trusted(host.at[<<"system", name>>]) THEN host.at[<<"system", name>>]
             ELSE IF Rust!Trusted(host.at[<<"home", name>>]) THEN host.at[<<"home", name>>]
             ELSE Refused
<1> DEFINE found == {i \in DOMAIN Rust!SearchedPlaces :
                        Rust!Trusted(host.at[<<Rust!SearchedPlaces[i], name>>])}
           system == Rust!Trusted(host.at[<<"system", name>>])
           home == Rust!Trusted(host.at[<<"home", name>>])
<1>1. Rust!SearchedPlaces[1] = "system" /\ Rust!SearchedPlaces[2] = "home" /\ DOMAIN Rust!SearchedPlaces = {1, 2}
  BY DEF Rust!SearchedPlaces
<1>2. found \subseteq {1, 2} /\ (1 \in found <=> system) /\ (2 \in found <=> home)
  BY <1>1
<1>3. Rust!TrustedExecutable(host, name) =
        IF found = {} THEN Refused ELSE host.at[<<Rust!SearchedPlaces[Rust!Min(found)], name>>]
  BY DEF Rust!TrustedExecutable
<1> HIDE DEF found, system, home
<1>4. CASE system
  <2>1. found # {} /\ Rust!Min(found) = 1
    BY <1>2, <1>4, RustMin
  <2> QED BY <1>1, <1>3, <1>4, <2>1 DEF system
<1>5. CASE ~system /\ home
  <2>1. found # {} /\ Rust!Min(found) = 2
    BY <1>2, <1>5, RustMin
  <2> QED BY <1>1, <1>3, <1>5, <2>1 DEF system, home
<1>6. CASE ~system /\ ~home
  <2>1. found = {}
    BY <1>2, <1>6
  <2> QED BY <1>3, <1>6, <2>1 DEF system, home
<1> QED BY <1>4, <1>5, <1>6

\* The files of a host's places: what was asked of them by a search.
LEMMA ToolsAre ==
    ASSUME NEW place
    PROVE  /\ Rust!Tool(place) = [place |-> place, inode |-> place, kind |-> "tool", safe |-> TRUE]
           /\ Rust!Unsafe(place) = [place |-> place, inode |-> place, kind |-> "tool", safe |-> FALSE]
           /\ Rust!Rustup(place) = [place |-> place, inode |-> "rustup", kind |-> "rustup", safe |-> TRUE]
           /\ Rust!RustupCopy(place) = [place |-> place, inode |-> "copy", kind |-> "rustup", safe |-> TRUE]
BY DEF Rust!Tool, Rust!Unsafe, Rust!Rustup, Rust!RustupCopy

LEMMA ToolsAreFiles ==
    ASSUME NEW place \in Rust!Places
    PROVE  /\ Rust!Tool(place) \in Rust!Files /\ Rust!Unsafe(place) \in Rust!Files
           /\ Rust!Rustup(place) \in Rust!Files /\ Rust!RustupCopy(place) \in Rust!Files
<1>1. Rust!Tool(place) \in Rust!Files
  BY DEF Rust!Files, Rust!Tool
<1>2. Rust!Unsafe(place) \in Rust!Files
  BY DEF Rust!Files, Rust!Unsafe
<1>3. Rust!Rustup(place) \in Rust!Files
  BY DEF Rust!Files, Rust!Rustup
<1>4. Rust!RustupCopy(place) \in Rust!Files
  BY DEF Rust!Files, Rust!RustupCopy
<1> QED BY <1>1, <1>2, <1>3, <1>4

\* A host as it is searched.
Searched(h) ==
    /\ h.snapshot = Nothing
    /\ \A q \in Rust!Range(Rust!SearchedPlaces) \X (Rust!Components \cup {"rustup"}) : h.at[q] \in Rust!Entries
    /\ \A c \in Rust!Components :
          /\ h.which[c] \in {Nothing, Rust!Tool("t1"), Rust!Tool("t2"), Rust!Tool("opt"), Rust!Rustup("t1")}
          /\ h.expected[c] = Nothing
    /\ \A place \in {"system", "home"} : h.at[<<place, "rustup">>] \in {Nothing, Rust!Rustup("home")}
    /\ h.sysroot \in Rust!SysrootOf(Rust!TrustedExecutable(h, "rustc"))

LEMMA HostsAre ==
    ASSUME NEW h \in Rust!Hosts
    PROVE  \/ Searched(h)
           \/ /\ h.snapshot # Nothing /\ IsSnapshot(h.snapshot)
              /\ \A c \in Rust!Components : h.snapshot.bin[c] \in {Rust!Tool("ci"), Rust!Unsafe("ci")}
<1>1. CASE h \in Rust!SearchHosts
  <2> DEFINE at(e) == [q \in Rust!Range(Rust!SearchedPlaces) \X (Rust!Components \cup {"rustup"}) |->
                   IF q[2] = "cargo" THEN (IF q[1] = "system" THEN e[1] ELSE e[2])
                   ELSE IF q[2] = "rustc" THEN (IF q[1] = "system" THEN e[3] ELSE e[1])
                   ELSE (IF q[1] = "home" THEN e[4] ELSE Nothing)]
             whichs == [Rust!Components -> {Nothing, Rust!Tool("t1"), Rust!Tool("t2"), Rust!Tool("opt"), Rust!Rustup("t1")}]
  <2>1. PICK e \in Rust!Entries \X {Nothing, Rust!Rustup("home"), Rust!Tool("opt")} \X Rust!Entries
                     \X {Nothing, Rust!Rustup("home")} :
             h \in [at : {at(e)}, which : whichs, snapshot : {Nothing},
                    expected : {[c \in Rust!Components |-> Nothing]},
                    sysroot : Rust!SysrootOf(Rust!TrustedExecutable([at |-> at(e)], "rustc")),
                    active : BOOLEAN, rustdoc : BOOLEAN]
    BY <1>1 DEF Rust!SearchHosts
  <2>2. /\ h.at = at(e) /\ h.which \in whichs /\ h.snapshot = Nothing
        /\ h.expected = [c \in Rust!Components |-> Nothing]
        /\ h.sysroot \in Rust!SysrootOf(Rust!TrustedExecutable([at |-> at(e)], "rustc"))
    <3> HIDE DEF at, whichs
    <3> QED BY <2>1
  <2>3. /\ e[1] \in Rust!Entries /\ e[3] \in Rust!Entries /\ e[2] \in Rust!Entries
        /\ e[4] \in {Nothing, Rust!Rustup("home")} /\ e[4] \in Rust!Entries /\ Nothing \in Rust!Entries
    <3>1. /\ e[1] \in Rust!Entries /\ e[3] \in Rust!Entries
          /\ e[2] \in {Nothing, Rust!Rustup("home"), Rust!Tool("opt")} /\ e[4] \in {Nothing, Rust!Rustup("home")}
      BY <2>1
    <3> QED BY <3>1 DEF Rust!Entries
  <2>4. \A q \in Rust!Range(Rust!SearchedPlaces) \X (Rust!Components \cup {"rustup"}) : at(e)[q] \in Rust!Entries
    <3> HIDE DEF Rust!Entries
    <3> QED BY <2>3
  <2>5. \A place \in {"system", "home"} :
           <<place, "rustup">> \in Rust!Range(Rust!SearchedPlaces) \X (Rust!Components \cup {"rustup"})
    BY DEF Rust!Range, Rust!SearchedPlaces
  <2>6. \A place \in {"system", "home"} : at(e)[<<place, "rustup">>] \in {Nothing, Rust!Rustup("home")}
    <3>1. /\ at(e)[<<"system", "rustup">>] = Nothing
          /\ at(e)[<<"home", "rustup">>] = e[4]
      BY <2>5
    <3> QED BY <2>3, <3>1
  <2>7. Rust!TrustedExecutable([at |-> at(e)], "rustc") = Rust!TrustedExecutable(h, "rustc")
    <3> HIDE DEF at
    <3>1. [at |-> at(e)].at = h.at
      BY <2>2
    <3> QED BY <3>1, FoundIs
  <2> HIDE DEF at
  <2> QED BY <2>2, <2>4, <2>6, <2>7 DEF Searched
<1>2. CASE h \notin Rust!SearchHosts
  <2>1. h.snapshot \in [root : {"ci"}, inRepository : BOOLEAN,
                        bin : [Rust!Components -> {Rust!Tool("ci"), Rust!Unsafe("ci")}]]
    BY <1>2 DEF Rust!Hosts
  <2>2. /\ h.snapshot.root = "ci"
        /\ \A c \in Rust!Components : h.snapshot.bin[c] \in {Rust!Tool("ci"), Rust!Unsafe("ci")}
    BY <2>1
  <2>3. IsSnapshot(h.snapshot)
    BY <2>2, ToolsAre DEF IsSnapshot
  <2>4. h.snapshot \in Rust!Snapshots
    <3>1. {Rust!Tool("ci"), Rust!Unsafe("ci")} \subseteq Rust!Files
      BY ToolsAreFiles DEF Rust!Places
    <3> QED BY <2>1, <3>1 DEF Rust!Snapshots
  <2> QED BY <2>2, <2>3, <2>4, RustAssumption
<1> QED BY <1>1, <1>2

\* What is pinned is not rustup: its inode is compared, or its place.
LEMMA PinnedAreTools ==
    ASSUME NEW h \in Rust!Hosts, Rust!Discovered(h) # Refused
    PROVE  Rust!Discovered(h).cargo.kind = "tool" /\ Rust!Discovered(h).rustc.kind = "tool"
<1> DEFINE t == Rust!Discovered(h)
<1>1. t = IF h.snapshot # Nothing THEN Rust!BySnapshot(h.snapshot) ELSE Rust!BySearch(h)
  BY DEF Rust!Discovered
<1>2. CASE h.snapshot # Nothing
  <2> DEFINE tools == [c \in Rust!Components |-> Rust!TrustedExactPath(h.snapshot.bin[c])]
  <2>1. /\ \A c \in Rust!Components : tools[c] # Refused
        /\ t = [cargo |-> tools["cargo"], rustc |-> tools["rustc"], root |-> h.snapshot.root]
    BY <1>1, <1>2 DEF Rust!BySnapshot
  <2>2. \A c \in Rust!Components : h.snapshot.bin[c] \in {Rust!Tool("ci"), Rust!Unsafe("ci")}
    BY <1>2, HostsAre DEF Searched
  <2>3. \A c \in Rust!Components : tools[c].kind = "tool"
    <3> TAKE c \in Rust!Components
    <3>1. tools[c] = h.snapshot.bin[c]
      BY <2>1, ExactIsTrusted
    <3> QED BY <2>2, <3>1, ToolsAre
  <2>4. t.cargo = tools["cargo"] /\ t.rustc = tools["rustc"]
    BY <2>1
  <2> HIDE DEF tools, t
  <2> QED BY <2>3, <2>4 DEF Rust!Components, t
<1>3. CASE h.snapshot = Nothing
  <2>0. Searched(h)
    BY <1>3, HostsAre
  <2> DEFINE cargo == Rust!TrustedExecutable(h, "cargo")
             rustc == Rust!TrustedExecutable(h, "rustc")
             rustup == Rust!TrustedExecutable(h, "rustup")
  <2>1. cargo # Refused /\ rustc # Refused
    BY <1>1, <1>3 DEF Rust!BySearch
  <2>2. CASE rustup # Refused /\ t = Rust!ByRustup(h, cargo, rustc, rustup)
    <3> DEFINE pinnedCargo == Rust!RustupWhich(h, "cargo")
               pinnedRustc == Rust!RustupWhich(h, "rustc")
    <3>1. /\ pinnedCargo # Refused /\ pinnedRustc # Refused
          /\ ~Rust!SameInode(pinnedCargo, rustup) /\ ~Rust!SameInode(pinnedRustc, rustup)
          /\ t = [cargo |-> pinnedCargo, rustc |-> pinnedRustc, root |-> pinnedCargo.place]
      BY <2>2 DEF Rust!ByRustup
    <3>2. rustup.inode = "rustup"
      <4>1. rustup \in {Nothing, Rust!Rustup("home")} /\ Rust!Trusted(rustup)
        <5>1. Rust!Trusted(rustup)
          BY <2>2, FoundIsTrusted
        <5>2. rustup \in {h.at[<<"system", "rustup">>], h.at[<<"home", "rustup">>]}
          BY <2>2, FoundIs
        <5> QED BY <2>0, <5>1, <5>2 DEF Searched
      <4>2. rustup = Rust!Rustup("home")
        BY <4>1 DEF Rust!Trusted
      <4> QED BY <4>2, ToolsAre
    <3>3. ASSUME NEW c \in Rust!Components, Rust!RustupWhich(h, c) # Refused,
                 Rust!RustupWhich(h, c).inode # "rustup"
          PROVE  Rust!RustupWhich(h, c).kind = "tool"
      <4>1. Rust!RustupWhich(h, c) = h.which[c] /\ h.which[c] # Nothing
        BY <3>3, ExactIsTrusted DEF Rust!RustupWhich
      <4>2. h.which[c] \in {Nothing, Rust!Tool("t1"), Rust!Tool("t2"), Rust!Tool("opt"), Rust!Rustup("t1")}
        BY <2>0 DEF Searched
      <4>3. h.which[c] # Rust!Rustup("t1")
        BY <3>3, <4>1, ToolsAre
      <4> QED BY <4>1, <4>2, <4>3, ToolsAre
    <3>4. pinnedCargo.kind = "tool" /\ pinnedRustc.kind = "tool"
      BY <3>1, <3>2, <3>3 DEF Rust!SameInode, Rust!Components
    <3> HIDE DEF pinnedCargo, pinnedRustc
    <3>5. t.cargo = pinnedCargo /\ t.rustc = pinnedRustc
      BY <3>1
    <3> QED BY <3>4, <3>5
  <2>3. CASE /\ Rust!SelfContained(h, cargo, rustc)
             /\ t = [cargo |-> cargo, rustc |-> rustc, root |-> h.sysroot]
    <3>1. ASSUME NEW c \in Rust!Components, Rust!TrustedExecutable(h, c) # Refused,
                 Rust!TrustedExecutable(h, c).place \in Rust!ToolchainRoots
          PROVE  Rust!TrustedExecutable(h, c).kind = "tool"
      <4> DEFINE file == Rust!TrustedExecutable(h, c)
      <4>1. Rust!Trusted(file)
        BY <3>1, FoundIsTrusted
      <4>2. file \in {h.at[<<"system", c>>], h.at[<<"home", c>>]}
        BY <3>1, FoundIs
      <4>3. \A place \in {"system", "home"} :
               <<place, c>> \in Rust!Range(Rust!SearchedPlaces) \X (Rust!Components \cup {"rustup"})
        BY DEF Rust!Range, Rust!SearchedPlaces
      <4>4. file \in Rust!Entries
        BY <2>0, <4>2, <4>3 DEF Searched
      <4>5. file # Nothing /\ file.place \in {"t1", "t2", "opt"}
        BY <3>1, <4>1 DEF Rust!Trusted, Rust!ToolchainRoots, Rust!RustupToolchains
      <4> HIDE DEF file
      <4>6. file \in {Nothing, Rust!Rustup("home"), Rust!RustupCopy("home"), Rust!Tool("opt"), Rust!Tool("usr"),
                      Rust!Unsafe("home")}
        BY <4>4 DEF Rust!Entries
      <4>7. file.kind = "tool"
        BY <4>5, <4>6, ToolsAre
      <4> QED BY <4>7 DEF file
    <3>2. cargo.kind = "tool" /\ rustc.kind = "tool"
      BY <2>1, <2>3, <3>1 DEF Rust!SelfContained, Rust!Components
    <3> HIDE DEF cargo, rustc
    <3>3. t.cargo = cargo /\ t.rustc = rustc
      BY <2>3
    <3> QED BY <3>2, <3>3
  <2> QED BY <1>1, <1>3, <2>2, <2>3 DEF Rust!BySearch
<1> QED BY <1>2, <1>3

LEMMA NothingIsMispinned == Rust!Mispinned = {}
<1>1. ASSUME NEW h \in Rust!Hosts, Rust!Discovered(h) # Refused
      PROVE  /\ Rust!OfOneRoot(Rust!Discovered(h), h.expected)
             /\ \A c \in Rust!Components : Rust!Discovered(h)[c].kind = "tool"
  <2>1. h.snapshot # Nothing => IsSnapshot(h.snapshot)
    BY HostsAre DEF Searched
  <2>2. Rust!OfOneRoot(Rust!Discovered(h), h.expected)
    BY <1>1, <2>1, ToolsAreOfOneRoot
  <2>3. Rust!Discovered(h)["cargo"].kind = "tool" /\ Rust!Discovered(h)["rustc"].kind = "tool"
    BY <1>1, PinnedAreTools
  <2> QED BY <2>2, <2>3 DEF Rust!Components
<1> QED BY <1>1 DEF Rust!Mispinned

\* However else the host is: one toolchain by itself, or managed by rustup and
\* active, is pinned.
LEMMA NothingIsPlain == Rust!Plainly = {}
<1>1. ASSUME NEW h \in Rust!Hosts, h.snapshot = Nothing, h.active, h.rustdoc,
             NEW tc \in Rust!RustupToolchains, h.which = [c \in Rust!Components |-> Rust!Tool(tc)],
             NEW f \in {Rust!Rustup("home"), Rust!Tool("opt")},
             \A c \in Rust!Components : Rust!TrustedExecutable(h, c) = f,
             Rust!TrustedExecutable(h, "rustup") # Refused
      PROVE  Rust!Discovered(h) # Refused
  <2> DEFINE rustup == Rust!TrustedExecutable(h, "rustup")
             t == Rust!BySearch(h)
  <2>0. Searched(h)
    BY <1>1, HostsAre
  <2>1. Rust!TrustedExecutable(h, "cargo") = f /\ Rust!TrustedExecutable(h, "rustc") = f
    BY <1>1 DEF Rust!Components
  <2>2. rustup.inode = "rustup"
    <3>1. rustup \in {Nothing, Rust!Rustup("home")} /\ Rust!Trusted(rustup)
      <4>1. Rust!Trusted(rustup)
        BY <1>1, FoundIsTrusted
      <4>2. rustup \in {h.at[<<"system", "rustup">>], h.at[<<"home", "rustup">>]}
        BY <1>1, FoundIs
      <4> QED BY <2>0, <4>1, <4>2 DEF Searched
    <3>2. rustup = Rust!Rustup("home")
      BY <3>1 DEF Rust!Trusted
    <3> QED BY <3>2, ToolsAre
  <2>3. f \in Rust!Files /\ f # Refused
    <3>1. f \in Rust!Files
      BY ToolsAreFiles DEF Rust!Places
    <3> QED BY <3>1, RustAssumption
  <2>4. t # Refused
    <3>1. CASE f = Rust!Rustup("home")
      <4>1. f.inode = "rustup"
        BY <3>1, ToolsAre
      <4>2. t = Rust!ByRustup(h, f, f, rustup)
        BY <1>1, <2>1, <2>2, <2>3, <4>1 DEF Rust!BySearch, Rust!SameInode
      <4>3. tc \in Rust!Places /\ tc # "rustup" /\ tc \in Rust!RustupToolchains
        BY DEF Rust!RustupToolchains, Rust!Places
      <4> DEFINE tool == Rust!Tool(tc)
      <4>4. /\ tool \in Rust!Files /\ tool # Nothing /\ tool # Refused
            /\ tool.place = tc /\ tool.inode = tc /\ tool.safe
        BY <4>3, ToolsAre, ToolsAreFiles, RustAssumption
      <4>5. h.which["cargo"] = tool /\ h.which["rustc"] = tool
        BY <1>1 DEF Rust!Components
      <4> HIDE DEF tool
      <4>6. Rust!RustupWhich(h, "cargo") = tool /\ Rust!RustupWhich(h, "rustc") = tool
        BY <4>3, <4>4, <4>5 DEF Rust!RustupWhich, Rust!TrustedExactPath, Rust!Trusted
      <4>7. /\ Rust!SameInode(f, rustup) /\ ~Rust!SameInode(tool, rustup)
        BY <2>2, <4>1, <4>3, <4>4 DEF Rust!SameInode
      <4>8. Rust!ByRustup(h, f, f, rustup) = [cargo |-> tool, rustc |-> tool, root |-> tool.place]
        BY <1>1, <4>4, <4>6, <4>7 DEF Rust!ByRustup
      <4>9. [cargo |-> tool, rustc |-> tool, root |-> tool.place] \in Rust!Pins
        BY <4>3, <4>4 DEF Rust!Pins
      <4> QED BY <4>2, <4>8, <4>9, RustAssumption
    <3>2. CASE f = Rust!Tool("opt")
      <4>1. f.inode = "opt" /\ f.place = "opt" /\ f.kind = "tool"
        BY <3>2, ToolsAre
      <4>2. ~Rust!SameInode(f, rustup)
        BY <2>2, <4>1 DEF Rust!SameInode
      <4>3. h.sysroot = "opt"
        BY <2>0, <2>1, <2>3, <4>1 DEF Searched, Rust!SysrootOf
      <4>4. Rust!SelfContained(h, f, f)
        BY <1>1, <4>1, <4>3 DEF Rust!SelfContained, Rust!ToolchainRoots
      <4>5. t = [cargo |-> f, rustc |-> f, root |-> h.sysroot]
        BY <2>1, <2>3, <4>2, <4>4 DEF Rust!BySearch
      <4>6. [cargo |-> f, rustc |-> f, root |-> h.sysroot] \in Rust!Pins
        BY <2>3, <4>3 DEF Rust!Pins, Rust!Places
      <4> QED BY <4>5, <4>6, RustAssumption
    <3> QED BY <3>1, <3>2
  <2>5. \A c \in Rust!Components : h.expected[c] = Nothing
    BY <2>0 DEF Searched
  <2> HIDE DEF t
  <2>6. Rust!Discovered(h) = t
    <3>1. ~\E c \in Rust!Components : h.expected[c] \notin {Nothing, t[c].place}
      BY <2>5
    <3> QED BY <1>1, <3>1 DEF Rust!Discovered, t
  <2> QED BY <2>4, <2>6
<1>2. ASSUME NEW h \in Rust!Plainly PROVE FALSE
  <2>1. /\ h \in Rust!Hosts /\ h.snapshot = Nothing /\ h.active /\ h.rustdoc
        /\ h.which \in {[c \in Rust!Components |-> Rust!Tool(tc)] : tc \in Rust!RustupToolchains}
        /\ \E f \in {Rust!Rustup("home"), Rust!Tool("opt")} :
              \A c \in Rust!Components : Rust!TrustedExecutable(h, c) = f
        /\ Rust!TrustedExecutable(h, "rustup") # Refused
        /\ Rust!Discovered(h) = Refused
    BY DEF Rust!Plainly
  <2> QED BY <1>1, <2>1
<1> QED BY <1>2

\* Cardinality, as the toolchain's module has it.
LEMMA RustCardinality == \A S : Rust!Cardinality(S) = Cardinality(S)
BY DEF Rust!Cardinality, Cardinality

LEMMA TreesAreFinite ==
    ASSUME NEW tree \in Rust!Trees
    PROVE  IsFiniteSet(tree) /\ Cardinality(tree) \in Nat
<1> DEFINE file(d, n, w) == [dir |-> d, name |-> n, data |-> w]
           all == {file("bin", "cargo", "now"), file("bin", "rustc", "now"), file("bin", "rustdoc", "now"),
                   file("lib", "std", "now"), file("lib", "std", "link"), file("lib", "cargo", "now"),
                   file("lib", "cargo", "link")}
<1>1. tree \subseteq all
  BY DEF Rust!Trees
<1>2. IsFiniteSet(all)
  <2> HIDE DEF file
  <2>1. IsFiniteSet({file("bin", "cargo", "now")})
    BY FS_Singleton
  <2>2. IsFiniteSet({file("bin", "cargo", "now")} \cup {file("bin", "rustc", "now")})
    BY <2>1, FS_AddElement
  <2>3. IsFiniteSet({file("bin", "cargo", "now")} \cup {file("bin", "rustc", "now")}
                    \cup {file("bin", "rustdoc", "now")})
    BY <2>2, FS_AddElement
  <2>4. IsFiniteSet({file("lib", "std", "now")})
    BY FS_Singleton
  <2>5. IsFiniteSet({file("lib", "std", "now")} \cup {file("lib", "std", "link")})
    BY <2>4, FS_AddElement
  <2>6. IsFiniteSet({file("lib", "std", "now")} \cup {file("lib", "std", "link")}
                    \cup {file("lib", "cargo", "now")})
    BY <2>5, FS_AddElement
  <2>7. IsFiniteSet({file("lib", "std", "now")} \cup {file("lib", "std", "link")}
                    \cup {file("lib", "cargo", "now")} \cup {file("lib", "cargo", "link")})
    BY <2>6, FS_AddElement
  <2> DEFINE inBin == {file("bin", "cargo", "now")} \cup {file("bin", "rustc", "now")}
                    \cup {file("bin", "rustdoc", "now")}
             inLib == {file("lib", "std", "now")} \cup {file("lib", "std", "link")}
                    \cup {file("lib", "cargo", "now")} \cup {file("lib", "cargo", "link")}
  <2>8. all = inBin \cup inLib
    OBVIOUS
  <2>9. IsFiniteSet(inBin) /\ IsFiniteSet(inLib)
    BY <2>3, <2>7
  <2> HIDE DEF all, inBin, inLib
  <2> QED BY <2>8, <2>9, FS_Union
<1> HIDE DEF all
<1>3. IsFiniteSet(tree)
  BY <1>1, <1>2, FS_Subset
<1> QED BY <1>3, FS_CardinalityType

LEMMA TwoTools ==
    ASSUME NEW pinned
    PROVE  /\ Cardinality(Rust!Components) = 2
           /\ Cardinality({[dir |-> "bin", name |-> c, data |-> pinned[c]] : c \in Rust!Components}) = 2
<1> DEFINE tool(c) == [dir |-> "bin", name |-> c, data |-> pinned[c]]
<1>1. ASSUME NEW a, NEW b, a # b
      PROVE  Cardinality({a, b}) = 2
  <2>1. IsFiniteSet({a}) /\ Cardinality({a}) = 1
    BY FS_Singleton
  <2>2. Cardinality({a} \cup {b}) = Cardinality({a}) + 1
    BY <1>1, <2>1, FS_AddElement
  <2>3. {a} \cup {b} = {a, b}
    OBVIOUS
  <2> QED BY <2>1, <2>2, <2>3
<1>2. {tool(c) : c \in Rust!Components} = {tool("cargo"), tool("rustc")}
  <2> HIDE DEF tool
  <2> QED BY DEF Rust!Components
<1>3. tool("cargo") # tool("rustc")
  <2>1. tool("cargo").name = "cargo" /\ tool("rustc").name = "rustc"
    OBVIOUS
  <2> QED BY <2>1
<1>4. Cardinality({tool(c) : c \in Rust!Components}) = 2
  <2> HIDE DEF tool
  <2> QED BY <1>1, <1>2, <1>3
<1>5. Cardinality(Rust!Components) = 2
  BY <1>1 DEF Rust!Components
<1> QED BY <1>4, <1>5

\* A small and complete tree is staged.
LEMMA CompleteIsStaged ==
    ASSUME NEW tree \in Rust!Trees, NEW pinned, \A c \in Rust!Components : pinned[c] = "pinned",
           Rust!Cardinality(tree) <= Rust!MaxStageEntries,
           "link" \notin {e.data : e \in tree}, {"rustdoc", "std"} \subseteq {e.name : e \in tree}
    PROVE  Rust!StagedRuntime(tree, pinned) # Refused
<1> DEFINE tools == {[dir |-> "bin", name |-> c, data |-> pinned[c]] : c \in Rust!Components}
           names == {<<e.dir, e.name>> : e \in Rust!Walked(tree)}
<1>1. \A e \in tree : \/ e.dir = "bin" /\ e.name \in {"cargo", "rustc", "rustdoc"} /\ e.data = "now"
                      \/ e.dir = "lib" /\ e.name \in {"std", "cargo"} /\ e.data \in {"now", "link"}
  BY DEF Rust!Trees
<1>2. \A e \in tree : e.data # "link"
  OBVIOUS
<1>3. PICK doc \in tree : doc.name = "rustdoc"
  OBVIOUS
<1>4. PICK std \in tree : std.name = "std"
  OBVIOUS
<1>5. doc.dir = "bin" /\ std.dir = "lib"
  BY <1>1, <1>3, <1>4
<1>6. ~\E d \in {"bin", "lib"} : \A e \in tree : e.dir # d
  BY <1>3, <1>4, <1>5
<1>7. <<"bin", "rustdoc">> \in names
  BY <1>3, <1>5 DEF Rust!Walked, Rust!Components
<1>8. \A c \in Rust!Components : <<"bin", c>> \notin names
  BY DEF Rust!Walked
<1>9. ~(Rust!Cardinality(tree) + Rust!Cardinality(tools) > Rust!MaxStageEntries + Rust!Cardinality(Rust!Components))
  <2>1. /\ Cardinality(Rust!Components) = 2 /\ Cardinality(tools) = 2
    BY TwoTools
  <2>2. Cardinality(tree) \in Nat
    BY TreesAreFinite
  <2>3. Cardinality(tree) <= Rust!MaxStageEntries
    BY RustCardinality
  <2> HIDE DEF tools
  <2> QED BY <2>1, <2>2, <2>3, RustCardinality DEF Rust!MaxStageEntries
<1>10. Rust!StagedRuntime(tree, pinned) = Rust!Walked(tree) \cup tools
  <2> HIDE DEF tools, names
  <2>1. ~\E e \in tree : e.data = "link"
    BY <1>2
  <2>2. ~\E c \in Rust!Components : <<"bin", c>> \in names
    BY <1>8
  <2> QED BY <1>6, <1>7, <1>9, <2>1, <2>2 DEF Rust!StagedRuntime, tools, names
<1>11. Rust!Walked(tree) \subseteq Rust!StagedFiles
  BY <1>1, <1>2 DEF Rust!Walked, Rust!StagedFiles, Rust!Trees
<1>12. tools \subseteq Rust!StagedFiles
  BY DEF Rust!StagedFiles, Rust!Components
<1> QED BY <1>10, <1>11, <1>12, RustAssumption

LEMMA NothingIsMisstaged == Rust!Misstaged = {}
<1>1. ASSUME NEW tree \in Rust!Misstaged PROVE FALSE
  <2> DEFINE pinned == [c \in Rust!Components |-> "pinned"]
             runtime == Rust!StagedRuntime(tree, pinned)
  <2>1. /\ tree \in Rust!Trees
        /\ IF runtime = Refused
             THEN /\ Rust!Cardinality(tree) <= Rust!MaxStageEntries
                  /\ "link" \notin {e.data : e \in tree}
                  /\ {"rustdoc", "std"} \subseteq {e.name : e \in tree}
             ELSE ~Rust!IsStagedOf(runtime, tree, pinned)
    BY DEF Rust!Misstaged
  <2>2. \A c \in Rust!Components : pinned[c] = "pinned"
    OBVIOUS
  <2> HIDE DEF pinned
  <2>3. runtime # Refused
    BY <2>1, <2>2, CompleteIsStaged
  <2> QED BY <2>1, <2>3, PinnedIsStaged
<1> QED BY <1>1

LEMMA ToolchainIsOne == Rust!OneToolchain
BY NothingIsMispinned, NothingIsPlain, NothingIsMisstaged DEF Rust!OneToolchain

\* Whatever cargo, rustc and rustup a host has, a probe gets two tools of one
\* toolchain and never rustup in their place; a plain host and a small complete
\* toolchain are not refused; and what is staged has the files that were pinned
\* (TOOLCHAIN discovery, stage_rust_toolchain_runtime).
THEOREM PinsTheToolchain == Spec => []PinsOneToolchain
<1>1. PinsOneToolchain
  BY ToolchainIsOne DEF PinsOneToolchain
<1> QED BY <1>1, PTL
=============================================================================
