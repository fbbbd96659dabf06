---------------------------- MODULE NodeIdentity ----------------------------
(***************************************************************************)
(* The life of one node identity (src/crypto.rs, IdentityState): the       *)
(* rotations and the key statuses it is asked to apply, admissible or not, *)
(* in any order.                                                           *)
(***************************************************************************)
EXTENDS Identity

CONSTANTS
    Operational,  \* the operational key of the identity document
    Created,      \* created_at of the identity document
    Times,        \* the times the lifecycle records speak of
    MaxSeq        \* the bound of the model: no record after this sequence number

ASSUME DocumentAssumption ==
    /\ Operational \in Key \ {Root}
    /\ Created \in Int
    /\ Times \subseteq Int
    /\ MaxSeq \in Nat

VARIABLE identity   \* an IdentityState

IdentityInit ==
    /\ DocumentAdmitted(Operational)
    /\ identity = FromDocument(Operational, Created)

\* apply_rotation of an admissible record; of any other it changes nothing.
ApplyRotation(r) ==
    /\ RotationAdmitted(identity, r)
    /\ identity' = Rotated(identity, r)

\* apply_key_status of an admissible record; of any other it changes nothing.
ApplyKeyStatus(r) ==
    /\ StatusAdmitted(identity, r)
    /\ identity' = StatusApplied(identity, r)

\* The sequence numbers presented: a replayed one, the next one, a skipped one.
Sequences == {identity.seq, identity.seq + 1, identity.seq + 2}

IdentityNext ==
    /\ identity.seq < MaxSeq
    /\ \/ \E r \in RotationRecord(Times, Sequences) : ApplyRotation(r)
       \/ \E r \in StatusRecord(Times, Sequences) : ApplyKeyStatus(r)

IdentitySpec == IdentityInit /\ [][IdentityNext]_identity

-----------------------------------------------------------------------------
\* The type of an identity; the root key is never an operational key.
IdentityTypeOK == IsIdentity(identity)

(***************************************************************************)
(* Three keys never verify together for longer than one second: what the   *)
(* chain of rotations guarantees although each rotation compares only two  *)
(* windows (ensure_no_other_overlap), statuses and recoveries included.    *)
(***************************************************************************)
NoTripleOverlap ==
    \A k1, k2, k3 \in DOMAIN identity.keys : \A t \in Times :
        /\ k1 # k2 /\ k1 # k3 /\ k2 # k3
        /\ \A k \in {k1, k2, k3} : Verifies(identity, k, t)
        => \E k \in {k1, k2, k3} : ~Verifies(identity, k, t + 1)

(***************************************************************************)
(* Rotation alone never leaves a moment at which no key verifies: while    *)
(* no key was revoked, every time since the document has a key whose       *)
(* window contains it.                                                     *)
(***************************************************************************)
NoGap ==
    (\A k \in DOMAIN identity.keys : identity.keys[k].status = "active") =>
        \A t \in Times : t >= Created =>
            \E k \in DOMAIN identity.keys : Verifies(identity, k, t)

(***************************************************************************)
(* A lifecycle record never makes an envelope acceptable that a known key  *)
(* did not verify before: revoked stays revoked, retired stays retired,    *)
(* and no window of a key that counts is widened, by a recovery either.    *)
(***************************************************************************)
NeverRevalidated ==
    [][\A k \in DOMAIN identity.keys : \A t \in Times :
          (Verifies(identity, k, t))' => Verifies(identity, k, t)]_identity
=============================================================================
