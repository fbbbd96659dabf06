----------------------------- MODULE Lifecycle -----------------------------
(***************************************************************************)
(* An identity rebuilt from what a peer presents: its document and every   *)
(* lifecycle record since (rebuild_peer_identity of src/api.rs and of      *)
(* src/peering.rs, which are the same function).                           *)
(***************************************************************************)
EXTENDS Identity, Sequences

CONSTANT NoIdentity   \* the error: no identity

\* What a document may list: records well formed or not in everything but type.
AnyRecord == RotationRecord(Int, Nat) \cup StatusRecord(Int, Nat)

OneRecord(id, r) ==
    IF id # NoIdentity /\ Admitted(id, r) THEN Applied(id, r) ELSE NoIdentity

\* The identity after each prefix of the lifecycle.
Rebuilding(document, lifecycle) ==
    LET after[n \in 0 .. Len(lifecycle)] ==
            IF n = 0 THEN FromDocument(document.operational, document.created)
                     ELSE OneRecord(after[n - 1], lifecycle[n])
    IN  after

(***************************************************************************)
(* From the document, every lifecycle record in order; one that is not     *)
(* admitted refuses the whole.                                             *)
(***************************************************************************)
Rebuilt(document, lifecycle) ==
    IF DocumentAdmitted(document.operational)
    THEN Rebuilding(document, lifecycle)[Len(lifecycle)]
    ELSE NoIdentity

\* The keys that a lifecycle record revoked or compromised.
Dead(id) == {k \in DOMAIN id.keys : id.keys[k].status # "active"}
=============================================================================
