---------------------------- MODULE MCProbeCgroup ----------------------------
(***************************************************************************)
(* Instances of ProbeCgroup for TLC.                                       *)
(***************************************************************************)
EXTENDS ProbeCgroup

\* Directories move only while they are accounted: what they are before that
\* is one of the initial trees, which a check reads afresh.
Bounded ==
    /\ where' # where => pc \in {"scan", "scanning"}

MCNext == Next /\ Bounded

MCSpec == Init /\ [][MCNext]_vars /\ WF_vars(HarnessStep) /\ WF_vars(Tick)
=============================================================================
