---------------------------- MODULE MCIdentities ----------------------------
(***************************************************************************)
(* The small instance of identities: the registry of a peer's, and the     *)
(* life of one.  For the latter, a root key and four operational keys,     *)
(* enough for a chain of three rotations, over four seconds of which an    *)
(* overlap may last two.  The two share no state: either moves, from its   *)
(* initial state, while the other is in its own.                           *)
(***************************************************************************)
EXTENDS MCPeerRegistry, NodeIdentity

CONSTANTS k3, k4

MCTimes == 0 .. 3
MCAllKeys == MCKey \cup {k3, k4}

MCIdentitiesInit == Init /\ IdentityInit

MCIdentitiesNext ==
    \/ IdentityInit /\ MCNext /\ UNCHANGED identity
    \/ Init /\ IdentityNext /\ UNCHANGED vars

\* Snapshots, and the keys that no record of the registry names.
Interchangeable == MCSymmetry \cup Permutations({k3, k4})

MCIdentitiesSpec ==
    MCIdentitiesInit /\ [][MCIdentitiesNext]_<<vars, identity>>
=============================================================================
