----------------------------- MODULE MCService -----------------------------
(***************************************************************************)
(* The small instance of the service: its admission and its limiter.       *)
(* security_middleware lets a request pass or not before a handler sees    *)
(* it, and shares no state with the handlers, so their steps in any order  *)
(* say no more than those of each alone.  Either moves, from its initial   *)
(* state, while the other is in its own.                                   *)
(***************************************************************************)
EXTENDS MCEnvelopeAdmission, MCRateLimiter

MCServiceInit == MCInit /\ LimiterInit

MCServiceNext ==
    \/ LimiterInit /\ MCNext /\ UNCHANGED limiterVars
    \/ MCInit /\ LimiterNext /\ UNCHANGED <<serviceVars, failures>>

\* Requests are interchangeable, in the handlers as in the limiter.
Interchangeable == Permutations(Handler)

MCServiceSpec ==
    MCServiceInit /\ [][MCServiceNext]_<<serviceVars, failures, limiterVars>>
=============================================================================
