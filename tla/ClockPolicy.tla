---------------------------- MODULE ClockPolicy ----------------------------
(***************************************************************************)
(* The clock policy of signed envelopes (src/crypto.rs, ClockPolicy).      *)
(* Times are whole seconds.                                                *)
(***************************************************************************)
EXTENDS Integers

CONSTANTS
    Skew,         \* MAX_CLOCK_SKEW_SECONDS
    Lifetime      \* MAX_SIGNED_MESSAGE_LIFETIME_SECONDS

ASSUME PolicyAssumption == Skew \in Nat /\ Lifetime \in Nat

\* ClockPolicy::validate_envelope of an envelope e at time t.
InTime(e, t) ==
    /\ e.expires > e.issued
    /\ e.expires - e.issued <= Lifetime
    /\ e.issued <= t + Skew
    /\ e.expires >= t - Skew
=============================================================================
