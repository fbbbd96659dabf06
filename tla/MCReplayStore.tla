---------------------------- MODULE MCReplayStore ----------------------------
(***************************************************************************)
(* A small instance of ReplayStore.  Three messages: a and b are signed    *)
(* for the whole allowed lifetime and accepted from the first second of    *)
(* the run, so that a is recorded as early as the skew allows and is       *)
(* presented as late as it allows; c is accepted later.  Two lines fill    *)
(* the log, so a third message compacts it, finds it too full, or follows  *)
(* the pruning of the first two.                                           *)
(***************************************************************************)
EXTENDS ReplayStore, TLC

CONSTANTS a, b, c, MaxTime, MaxTakenBack, MaxUnsynced

MCMsgId == {a, b, c}
MCIssued == (a :> 1) @@ (b :> 1) @@ (c :> 3)
MCExpires == (a :> 2) @@ (b :> 2) @@ (c :> 4)

\* The bounds of the model: the clock stops at MaxTime,
MCTick == now < MaxTime /\ Tick

\* the directory is left unsynced MaxUnsynced times at most until it is synced,
Unsynced ==
    Cardinality(older) + Cardinality(inherited)
        + Cardinality({entry} \cap {"unsynced"})

MCCall(m) == Call(m) /\ Unsynced' <= MaxUnsynced

\* and a crash takes an answer back MaxTakenBack times at most.
MCMachineCrash ==
    MachineCrash /\ \A m \in MsgId : takenBack'[m] <= MaxTakenBack

MCNext ==
    \/ MCTick
    \/ Open
    \/ OpenFails
    \/ \E m \in MsgId : MCCall(m)
    \/ ProcessEnds
    \/ MCMachineCrash

MCSpec == Init /\ [][MCNext]_vars
=============================================================================
