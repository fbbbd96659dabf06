--------------------------- MODULE PeerRegistry ---------------------------
(***************************************************************************)
(* The durable record of one peer (src/peering.rs, PeerRegistry).  Peers   *)
(* have a file each, so one file shows every behaviour.  An operation      *)
(* reads the file, changes the record, validates it, and replaces the file *)
(* by writing a new one, renaming it and syncing the directory.            *)
(*                                                                         *)
(* An operation that is refused, or fails before the rename, changes       *)
(* nothing and is not a step.  One that fails after the rename answers an  *)
(* error although the file has changed, and a crash of the machine may     *)
(* undo the change.                                                        *)
(***************************************************************************)
EXTENDS Lifecycle, FiniteSets, SequencesExt

CONSTANTS
    Document,     \* the identity documents presented: [operational, created]
    LifecycleRecord,  \* the lifecycle records
    History,      \* the lifecycles presented, sequences of records
    Advert,       \* the capability advertisements presented
    Snapshot,     \* the partition snapshots
    None,         \* Option::None
    Absent,       \* the file does not exist
    MaxSurvivors  \* the bound of the model: contents that may survive a crash

State == {"introduced", "admitted", "quarantined", "revoked", "disconnected"}

PeerRecord ==
    [document  : Document,
     lifecycle : History,
     state     : State,
     pre       : State \cup {None},
     snapshot  : Snapshot \cup {None},
     ad        : Advert \cup {None}]

ASSUME HistoryAssumption == History \subseteq Seq(LifecycleRecord)

ASSUME SentinelAssumption ==
    /\ None \notin State /\ None \notin Snapshot /\ None \notin Advert
    /\ Absent \notin PeerRecord

VARIABLES
    now,          \* the time the callers pass
    record,       \* the file: a PeerRecord, or Absent
    survivors,    \* what the file may hold after a crash of the machine
    importing,    \* import_quarantined is between its two writes
    acknowledged, \* the last record whose write was answered Ok
    consent       \* an operator has admitted the peer and not withdrawn it

fileVars == <<record, survivors>>
historyVars == <<acknowledged, consent>>
vars == <<now, fileVars, importing, historyVars>>

-----------------------------------------------------------------------------
\* advertisement_is_active.
Active(ad) == now \in ad.issued .. ad.expires

\* verify_capability_advertisement_signature, under the identity id.
Proven(id, ad) == ad.seq > 0 /\ Authentic(id, ad, ad.issued)

\* A slip to detect: a stored advertisement is not verified again.
ValidUnproven(r) ==
    /\ Rebuilt(r.document, r.lifecycle) # NoIdentity
    /\ r.state = "disconnected" => r.pre # None /\ r.snapshot # None

\* validate_peer_record.
Valid(r) ==
    /\ Rebuilt(r.document, r.lifecycle) # NoIdentity
    /\ r.state = "disconnected" => r.pre # None /\ r.snapshot # None
    /\ r.ad # None => Proven(Rebuilt(r.document, r.lifecycle), r.ad)

(***************************************************************************)
(* write_peer: the record is validated and replaces the file.  The sync of *)
(* the directory succeeds, or fails and the caller sees an error.          *)
(***************************************************************************)
Replace(r) ==
    /\ Valid(r)
    /\ record' = r
    /\ \/ /\ survivors' = {r}
          /\ acknowledged' = r
       \/ /\ Cardinality(survivors) < MaxSurvivors
          /\ survivors' = survivors \cup {r}
          /\ UNCHANGED acknowledged

\* The operation that has just written answers Ok.
AnswersOk == survivors' = {record'}

transitionAllowed ==
    [introduced   |-> State,
     admitted     |-> State \ {"introduced"},
     quarantined  |-> State \ {"introduced"},
     revoked      |-> {"revoked"},
     disconnected |-> {"disconnected"}]

-----------------------------------------------------------------------------
Init ==
    /\ now = 0
    /\ record = Absent
    /\ survivors = {Absent}
    /\ importing = FALSE
    /\ acknowledged = Absent
    /\ consent = FALSE

Tick ==
    /\ now' = now + 1
    /\ UNCHANGED <<fileVars, importing, historyVars>>

\* introduce of a peer that is not known.
NewPeer(document, history, snapshot) ==
    /\ record = Absent
    /\ Replace([document |-> document, lifecycle |-> history,
                state |-> "introduced", pre |-> None,
                snapshot |-> snapshot, ad |-> None])

Known(document) ==
    /\ record # Absent
    /\ record.state # "revoked"
    /\ record.document = document

\* A slip to detect: the stored lifecycle need not be a prefix.
ExtendsByLength(history) == Len(history) > Len(record.lifecycle)

\* A later sequence that keeps every record (require_lifecycle_prefix).
ExtendsStored(history) ==
    /\ Len(history) > Len(record.lifecycle)
    /\ IsPrefix(record.lifecycle, history)

\* A slip to detect: the partition point follows the peer's snapshot.
AdvancedAnyway(history, snapshot) ==
    [record EXCEPT !.lifecycle = history,
                   !.snapshot = IF snapshot = None THEN @ ELSE snapshot]

\* The record with a longer lifecycle; a partition point stays.
Advanced(history, snapshot) ==
    [record EXCEPT !.lifecycle = history,
                   !.snapshot = IF record.state = "disconnected" \/ snapshot = None
                                THEN @ ELSE snapshot]

\* introduce of a known peer with a longer lifecycle.
Advance(document, history, snapshot) ==
    /\ Known(document)
    /\ Rebuilt(document, history) # NoIdentity
    /\ ExtendsStored(history)
    /\ Replace(Advanced(history, snapshot))

\* introduce of what is stored already: Duplicate, nothing is written.
Duplicate(document, history) ==
    /\ Known(document)
    /\ history = record.lifecycle
    /\ UNCHANGED <<fileVars, acknowledged>>

Introduce(document, history, snapshot) ==
    /\ ~importing
    /\ \/ NewPeer(document, history, snapshot)
       \/ Advance(document, history, snapshot)
       \/ Duplicate(document, history)
    /\ UNCHANGED <<now, importing, consent>>

(***************************************************************************)
(* import_quarantined: introduce, and, if the peer was not known and the   *)
(* first write was answered Ok, transition to Quarantined.  A repeated     *)
(* import finds a peer that is known, and does not quarantine it.          *)
(***************************************************************************)
Import(document, history) ==
    /\ ~importing
    /\ \/ /\ NewPeer(document, history, None)
          /\ importing' = AnswersOk
       \/ /\ Advance(document, history, None) \/ Duplicate(document, history)
          /\ UNCHANGED importing
    /\ UNCHANGED <<now, consent>>

\* A slip to detect: what a partition interrupts is forgotten.
MovedForgetful(target) == [record EXCEPT !.state = target, !.pre = "admitted"]

\* The record that transition() writes.
Moved(target) ==
    [record EXCEPT !.state = target,
                   !.pre = IF target = "disconnected" THEN record.state
                           ELSE IF record.state # "disconnected" THEN None
                           ELSE record.pre]

\* The second write of import_quarantined; or it fails before its rename, or
\* the process ends before it.
Quarantine ==
    /\ importing
    /\ importing' = FALSE
    /\ \/ Replace(Moved("quarantined"))
       \/ UNCHANGED <<fileVars, acknowledged>>
    /\ UNCHANGED <<now, consent>>

\* What an operator's transition says about the admission of the peer: a
\* withdrawal counts once it is answered Ok, an admission at once.
Says(target) ==
    consent' = CASE target = "admitted" -> TRUE
                 [] target \in {"quarantined", "revoked"} /\ AnswersOk -> FALSE
                 [] OTHER -> consent

Transition(target) ==
    /\ ~importing
    /\ record # Absent
    /\ target \in transitionAllowed[record.state]
    /\ Replace(Moved(target))
    /\ Says(target)
    /\ UNCHANGED <<now, importing>>

Disconnect(snapshot) ==
    /\ ~importing
    /\ record # Absent
    /\ record.state \notin {"revoked", "disconnected"}
    /\ Replace([record EXCEPT !.pre = record.state,
                              !.state = "disconnected",
                              !.snapshot = snapshot])
    /\ UNCHANGED <<now, importing, consent>>

\* propose_rejoin: the peer comes back with the snapshot of the partition.
Clean(remote) == record.snapshot = remote

ConfirmRejoin(remote, explicit) ==
    /\ ~importing
    /\ record # Absent
    /\ record.state = "disconnected"
    /\ Clean(remote) \/ explicit
    /\ record.pre \notin {"revoked", "disconnected"}
    /\ Replace([record EXCEPT !.state = IF record.pre = None THEN "introduced"
                                                            ELSE record.pre,
                              !.pre = None,
                              !.snapshot = remote])
    /\ UNCHANGED <<now, importing, consent>>

(***************************************************************************)
(* attach_archival_capability_advertisement; an older one is refused, and  *)
(* so is another of the same sequence.                                     *)
(***************************************************************************)
Attach(ad) ==
    /\ ~importing
    /\ record # Absent
    /\ Proven(Rebuilt(record.document, record.lifecycle), ad)
    /\ record.ad # None => ad.seq > record.ad.seq
    /\ Replace([record EXCEPT !.ad = ad])
    /\ UNCHANGED <<now, importing, consent>>

\* record_capability_advertisement: the same of an active advertisement.
RecordAdvert(ad) == Active(ad) /\ Attach(ad)

\* The machine stops: the file is one that survives.
Crash ==
    /\ record' \in survivors
    /\ survivors' = {record'}
    /\ importing' = FALSE
    /\ UNCHANGED <<now, historyVars>>

Operation ==
    \/ \E document \in Document, history \in History :
          \/ \E snapshot \in Snapshot \cup {None} :
                Introduce(document, history, snapshot)
          \/ Import(document, history)
    \/ Quarantine
    \/ \E target \in State : Transition(target)
    \/ \E snapshot \in Snapshot :
          \/ Disconnect(snapshot)
          \/ \E explicit \in BOOLEAN : ConfirmRejoin(snapshot, explicit)
    \/ \E ad \in Advert : Attach(ad) \/ RecordAdvert(ad)

Next == Tick \/ Operation \/ Crash

Spec == Init /\ [][Next]_vars

-----------------------------------------------------------------------------
\* advertised_and_allowed, for a capability that the advertisement names and
\* that the local policy allows.
Permitted ==
    /\ record # Absent
    /\ record.state = "admitted"
    /\ record.ad # None
    /\ Active(record.ad)

\* The types of the variables; every record that the file holds, or may hold
\* after a crash, passes the validation without which nothing reads it.
TypeOK ==
    /\ now \in Int
    /\ record \in PeerRecord \cup {Absent}
    /\ survivors \subseteq PeerRecord \cup {Absent}
    /\ record \in survivors
    /\ \A r \in survivors \ {Absent} : Valid(r)
    /\ importing \in BOOLEAN
    /\ acknowledged \in PeerRecord \cup {Absent}
    /\ consent \in BOOLEAN

(***************************************************************************)
(* What was answered Ok is built upon by everything later, crashes and     *)
(* failed writes included: the document stays, the lifecycle is extended,  *)
(* and a peer whose revocation was answered Ok stays revoked               *)
(* (FEDERATION_STATE.md, "Peers and trust").                               *)
(***************************************************************************)
Builds(r, base) ==
    base # Absent =>
        /\ r # Absent
        /\ r.document = base.document
        /\ IsPrefix(base.lifecycle, r.lifecycle)
        /\ base.state = "revoked" => r.state = "revoked"

AnswersAreKept == Builds(record, acknowledged)

(***************************************************************************)
(* The partition point is immutable while the peer is disconnected         *)
(* (FEDERATION_STATE.md, "Partitions and rejoin"): through lifecycle       *)
(* updates, advertisements and repeated transitions.  A crash may undo an  *)
(* operation that was answered with an error.                              *)
(***************************************************************************)
PartitionPointKept ==
    [][/\ record # Absent /\ record' # Absent
       /\ record.state = "disconnected" /\ record'.state = "disconnected"
       /\ ~Crash
       => record'.snapshot = record.snapshot]_vars

(***************************************************************************)
(* No partition, rejoin, import or crash admits a peer: one that is        *)
(* admitted, or would be after a rejoin, was admitted by an operator who   *)
(* has not withdrawn it since.                                             *)
(***************************************************************************)
AdmissionIsExplicit ==
    record # Absent /\ "admitted" \in {record.state, record.pre} => consent

(***************************************************************************)
(* A permission never rests on an advertisement of a key that the stored   *)
(* lifecycle has revoked, compromised or retired before it was signed,     *)
(* although the lifecycle may have grown since the advertisement was       *)
(* stored.                                                                 *)
(***************************************************************************)
PermissionNeedsLiveKey ==
    Permitted =>
        Verifies(Rebuilt(record.document, record.lifecycle),
                 record.ad.key, record.ad.issued)

(***************************************************************************)
(* A root-signed status "can mark an operational key revoked or            *)
(* compromised" (PROTOCOL.md) and "key lifecycle, compromise/recovery/     *)
(* revocation" remain authoritative (THREAT_MODEL.md): a lifecycle that    *)
(* extends the stored one is never refused for what else is stored.        *)
(***************************************************************************)
ExtensionsAreAdmitted ==
    record # Absent /\ record.state # "revoked" =>
        \A history \in History :
            /\ ExtendsStored(history)
            /\ Rebuilt(record.document, history) # NoIdentity
            => Valid(Advanced(history, None))
=============================================================================
