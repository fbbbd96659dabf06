------------------------------ MODULE MCProbeRun ------------------------------
(***************************************************************************)
(* An instance of ProbeLaunch for TLC: a leader, two descendants, one      *)
(* stream; and before its first step, the code and the toolchain it is     *)
(* given.                                                                  *)
(***************************************************************************)
EXTENDS ProbeLaunch
=============================================================================
