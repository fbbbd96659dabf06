------------------------------ MODULE Identity ------------------------------
(***************************************************************************)
(* A node identity as a peer holds it (src/crypto.rs): the operational     *)
(* keys the root key has admitted, their validity windows and statuses,    *)
(* the checks a lifecycle record must pass before it is applied, and the   *)
(* verdict on a signed envelope.                                           *)
(*                                                                         *)
(* Key ids, public keys and the private keys behind them are one value: a  *)
(* signature is the name of the key that made it.  Times are seconds.      *)
(***************************************************************************)
EXTENDS ClockPolicy

CONSTANTS
    Key,          \* the key ids
    Root,         \* the key the node id is derived from
    NoTime,       \* valid_until = None
    MaxOverlap    \* MAX_ROTATION_OVERLAP_SECONDS

ASSUME KeyAssumption ==
    /\ Root \in Key
    /\ NoTime \notin Int
    /\ MaxOverlap \in Nat

Status == {"active", "revoked", "compromised"}

KeyState == [from : Int, until : Int \cup {NoTime}, status : Status]

\* IdentityState: keys maps the key ids it knows to their states.
IsIdentity(id) ==
    /\ id = [current |-> id.current, seq |-> id.seq, keys |-> id.keys]
    /\ DOMAIN id.keys \subseteq Key \ {Root}
    /\ id.keys \in [DOMAIN id.keys -> KeyState]
    /\ id.current \in DOMAIN id.keys
    /\ id.seq \in Nat

FreshKey(from) == [from |-> from, until |-> NoTime, status |-> "active"]

\* from_document, of a document whose root signature verifies.
DocumentAdmitted(operational) == operational # Root

FromDocument(operational, created) ==
    [current |-> operational,
     seq     |-> 0,
     keys    |-> [k \in {operational} |-> FreshKey(created)]]

-----------------------------------------------------------------------------
(***************************************************************************)
(* Lifecycle records.  signers are the roles whose signatures over the     *)
(* payload verify: the root key, the previous key and the next key.        *)
(***************************************************************************)
RotationRecord(Times, Seqs) ==
    [kind     : {"transition", "recovery"},
     seq      : Seqs,
     previous : Key,
     next     : Key,
     from     : Times,
     overlap  : Times,
     signers  : SUBSET {"root", "previous", "next"}]

StatusRecord(Times, Seqs) ==
    [kind      : {"status"},
     seq       : Seqs,
     key       : Key,
     status    : {"revoked", "compromised"},
     effective : Times,
     signers   : SUBSET {"root"}]

\* A slip to detect: the comparison the wrong way round.
OtherOverlapReversed(id, k, from) ==
    \E other \in DOMAIN id.keys \ {k} :
        /\ id.keys[other].status = "active"
        /\ id.keys[other].until # NoTime
        /\ id.keys[other].until < from

\* ensure_no_other_overlap: no third key is valid after the next one starts.
OtherOverlap(id, k, from) ==
    \E other \in DOMAIN id.keys \ {k} :
        /\ id.keys[other].status = "active"
        /\ id.keys[other].until # NoTime
        /\ id.keys[other].until > from

\* A slip to detect: a retired key may be the next one.
NextMayBeOld(id, r) == r.next \notin {Root, id.current}

NextIsNew(id, r) == r.next # Root /\ r.next \notin DOMAIN id.keys

\* A slip to detect: the overlap may end before the next key starts.
OverlapUnordered(r) == r.overlap - r.from <= MaxOverlap

OverlapBounded(r) == r.overlap - r.from \in 0 .. MaxOverlap

\* What both modes of apply_rotation check.
RotationWellFormed(id, r) ==
    /\ r.seq = id.seq + 1
    /\ r.previous = id.current
    /\ NextIsNew(id, r)
    /\ OverlapBounded(r)
    /\ ~OtherOverlap(id, r.previous, r.from)
    /\ {"root", "next"} \subseteq r.signers
    /\ r.from >= id.keys[r.previous].from

RotationAdmitted(id, r) ==
    /\ r.kind \in {"transition", "recovery"}
    /\ RotationWellFormed(id, r)
    /\ r.kind = "transition" =>
          /\ id.keys[r.previous].status = "active"
          /\ "previous" \in r.signers
    /\ r.kind = "recovery" =>
          /\ id.keys[r.previous].status \in {"revoked", "compromised"}
          /\ "previous" \notin r.signers
          /\ r.overlap = r.from

Rotated(id, r) ==
    [current |-> r.next,
     seq     |-> r.seq,
     keys    |-> [k \in DOMAIN id.keys \cup {r.next} |->
                    IF k = r.next THEN FreshKey(r.from)
                    ELSE IF k = r.previous
                         THEN [id.keys[k] EXCEPT !.until = r.overlap]
                         ELSE id.keys[k]]]

StatusAdmitted(id, r) ==
    /\ r.kind = "status"
    /\ r.seq = id.seq + 1
    /\ r.key # Root
    /\ "root" \in r.signers
    /\ r.key \in DOMAIN id.keys
    /\ r.effective >= id.keys[r.key].from

Earliest(until, t) == IF until # NoTime /\ until < t THEN until ELSE t

Marked(key, r) ==
    [key EXCEPT !.status = r.status, !.until = Earliest(@, r.effective)]

StatusApplied(id, r) ==
    [current |-> id.current,
     seq     |-> r.seq,
     keys    |-> [id.keys EXCEPT ![r.key] = Marked(@, r)]]

\* One lifecycle record, whichever it is.
Admitted(id, r) == RotationAdmitted(id, r) \/ StatusAdmitted(id, r)

Applied(id, r) ==
    IF r.kind = "status" THEN StatusApplied(id, r) ELSE Rotated(id, r)

-----------------------------------------------------------------------------
(***************************************************************************)
(* verify_signed_envelope: an envelope e names its key, was issued and     *)
(* expires at its times, and was signed by the key e.signer.               *)
(***************************************************************************)
InWindow(key, issued) ==
    /\ issued >= key.from
    /\ key.until # NoTime => issued <= key.until

\* The key k of id verifies an envelope issued at time t.
Verifies(id, k, t) ==
    /\ k \in DOMAIN id.keys
    /\ id.keys[k].status = "active"
    /\ InWindow(id.keys[k], t)

Authentic(id, e, t) ==
    /\ InTime(e, t)
    /\ Verifies(id, e.key, e.issued)
    /\ e.signer = e.key
=============================================================================
