-------------------------- MODULE MCPeerRegistry --------------------------
(***************************************************************************)
(* A small instance of PeerRegistry: the document of an identity and       *)
(* another with another key, lifecycles that rotate the first key or       *)
(* compromise and replace it, and an advertisement by each key.            *)
(***************************************************************************)
EXTENDS PeerRegistry, TLC

CONSTANTS root, k1, k2, s1, s2, MaxTime

MCKey == {root, k1, k2}

MCDocument == {[operational |-> k1, created |-> 0], [operational |-> k2, created |-> 0]}

Compromise ==
    [kind |-> "status", seq |-> 1, key |-> k1, status |-> "compromised",
     effective |-> 1, signers |-> {"root"}]

Rotation ==
    [kind |-> "transition", seq |-> 1, previous |-> k1, next |-> k2,
     from |-> 1, overlap |-> 2, signers |-> {"root", "previous", "next"}]

Recovery ==
    [kind |-> "recovery", seq |-> 2, previous |-> k1, next |-> k2,
     from |-> 1, overlap |-> 1, signers |-> {"root", "next"}]

MCLifecycleRecord == {Rotation, Compromise, Recovery}

MCHistory == {<<>>, <<Rotation>>, <<Compromise>>, <<Compromise, Recovery>>}

\* The snapshots are compared and never told apart.
MCSymmetry == Permutations(Snapshot)

Signed(n, key, issued) ==
    [seq |-> n, key |-> key, signer |-> key, issued |-> issued, expires |-> issued + 1]

MCAdvert == {Signed(1, k1, 0), Signed(2, k2, 1)}

\* The bound of the model: the clock stops at MaxTime.
MCTick == now < MaxTime /\ Tick

MCNext == MCTick \/ Operation \/ Crash

MCSpec == Init /\ [][MCNext]_vars
=============================================================================
