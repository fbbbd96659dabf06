------------------------ MODULE PeerRegistry_proofs ------------------------
(***************************************************************************)
(* Proofs about PeerRegistry, for all identities, lifecycles,              *)
(* advertisements and snapshots.                                           *)
(***************************************************************************)
EXTENDS PeerRegistry, SequenceTheorems, TLAPS

(***************************************************************************)
(* Lemmas about prefixes.                                                  *)
(***************************************************************************)
LEMMA PrefixElements ==
    ASSUME NEW S, NEW s \in Seq(S), NEW t \in Seq(S)
    PROVE  IsPrefix(s, t) <=>
              Len(s) <= Len(t) /\ \A i \in 1 .. Len(s) : s[i] = t[i]
<1>. /\ Len(s) \in Nat /\ Len(t) \in Nat
     /\ \A i \in 1 .. Len(s) : s[i] \in S
     /\ \A i \in 1 .. Len(t) : t[i] \in S
  OBVIOUS
<1>1. SUFFICES ASSUME Len(s) <= Len(t)
      PROVE  SubSeq(s, 1, Len(s)) = SubSeq(t, 1, Len(s)) <=>
                \A i \in 1 .. Len(s) : s[i] = t[i]
  BY DEF IsPrefix
<1>. DEFINE a == SubSeq(s, 1, Len(s))
            b == SubSeq(t, 1, Len(s))
<1>2. /\ a \in Seq(S) /\ Len(a) = Len(s)
      /\ \A i \in 1 .. Len(s) : a[i] = s[i]
  BY SubSeqProperties
<1>3. /\ b \in Seq(S) /\ Len(b) = Len(s)
      /\ \A i \in 1 .. Len(s) : b[i] = t[i]
  <2>1. \A i \in 1 .. Len(s) : t[i] \in S
    BY <1>1
  <2>. QED
    BY <2>1, SubSeqProperties
<1>. HIDE DEF a, b
<1>4. a = b <=> \A i \in 1 .. Len(s) : a[i] = b[i]
  BY <1>2, <1>3, SeqEqual
<1>5. a = b <=> \A i \in 1 .. Len(s) : s[i] = t[i]
  BY <1>2, <1>3, <1>4
<1>. QED
  BY <1>5 DEF a, b

LEMMA PrefixReflexive ==
    ASSUME NEW S, NEW s \in Seq(S)
    PROVE  IsPrefix(s, s)
BY PrefixElements

LEMMA PrefixTransitive ==
    ASSUME NEW S, NEW s \in Seq(S), NEW t \in Seq(S), NEW u \in Seq(S),
           IsPrefix(s, t), IsPrefix(t, u)
    PROVE  IsPrefix(s, u)
<1>1. Len(s) <= Len(t) /\ \A i \in 1 .. Len(s) : s[i] = t[i]
  BY PrefixElements
<1>2. Len(t) <= Len(u) /\ \A i \in 1 .. Len(t) : t[i] = u[i]
  BY PrefixElements
<1>3. Len(s) <= Len(u) /\ \A i \in 1 .. Len(s) : s[i] = u[i]
  BY <1>1, <1>2
<1>. QED
  BY <1>3, PrefixElements

-----------------------------------------------------------------------------
(***************************************************************************)
(* The strengthening.  The file may be any of survivors after a crash, so  *)
(* each of them must build on what was answered and keep to the operators' *)
(* consent.  An import is interrupted only between its two writes, when    *)
(* the record is there to be quarantined.                                  *)
(***************************************************************************)
Consented(r) == r # Absent /\ "admitted" \in {r.state, r.pre} => consent

IInv ==
    /\ TypeOK
    /\ \A r \in survivors : Builds(r, acknowledged)
    /\ \A r \in survivors : Consented(r)
    /\ importing => record # Absent /\ record.state = "introduced"

LEMMA BuildsTransitive ==
    ASSUME NEW r \in PeerRecord, NEW b \in PeerRecord \cup {Absent},
           NEW c \in PeerRecord \cup {Absent},
           Builds(b, c), Builds(r, b)
    PROVE  Builds(r, c)
<1>. SUFFICES ASSUME c # Absent PROVE Builds(r, c)
  BY DEF Builds
<1>1. b # Absent /\ b \in PeerRecord /\ c \in PeerRecord /\ r # Absent
  BY SentinelAssumption DEF Builds
<1>2. /\ r.lifecycle \in Seq(LifecycleRecord)
      /\ b.lifecycle \in Seq(LifecycleRecord)
      /\ c.lifecycle \in Seq(LifecycleRecord)
  BY <1>1, HistoryAssumption DEF PeerRecord
<1>3. IsPrefix(c.lifecycle, b.lifecycle) /\ IsPrefix(b.lifecycle, r.lifecycle)
  BY <1>1 DEF Builds
<1>4. IsPrefix(c.lifecycle, r.lifecycle)
  BY <1>2, <1>3, PrefixTransitive
<1>. QED
  BY <1>1, <1>4 DEF Builds

LEMMA BuildsReflexive ==
    ASSUME NEW r \in PeerRecord
    PROVE  Builds(r, r)
<1>1. r # Absent /\ r.lifecycle \in Seq(LifecycleRecord)
  BY HistoryAssumption, SentinelAssumption DEF PeerRecord
<1>. QED
  BY <1>1, PrefixReflexive DEF Builds

-----------------------------------------------------------------------------
LEMMA InitIInv == Init => IInv
<1>. SUFFICES ASSUME Init PROVE IInv
  OBVIOUS
<1>1. importing = FALSE /\ importing \in BOOLEAN /\ consent \in BOOLEAN
  BY DEF Init
<1>2. TypeOK
  BY <1>1 DEF Init, TypeOK
<1>3. \A r \in survivors : Builds(r, acknowledged) /\ Consented(r)
  BY DEF Init, Builds, Consented
<1>. QED
  BY <1>1, <1>2, <1>3 DEF IInv

(***************************************************************************)
(* What replacing the file by a record does to the invariant.              *)
(***************************************************************************)
LEMMA ReplaceKeeps ==
    ASSUME IInv, NEW r \in PeerRecord, Replace(r), Builds(r, record),
           now' \in Int, importing' \in BOOLEAN, consent' \in BOOLEAN,
           "admitted" \in {r.state, r.pre} => consent',
           consent /\ ~consent' => survivors' = {r},
           importing' => r.state = "introduced"
    PROVE  IInv'
<1>1. /\ record' = r /\ record' # Absent
      /\ Valid(r)
  BY SentinelAssumption DEF Replace
<1>2. CASE survivors' = {r} /\ acknowledged' = r
  <2>1. TypeOK'
    BY <1>1, <1>2 DEF IInv, TypeOK, Valid, Proven
  <2>2. \A s \in survivors' : Builds(s, acknowledged')
    BY <1>2, BuildsReflexive
  <2>3. \A s \in survivors' : Consented(s)'
    BY <1>2 DEF Consented
  <2>. QED
    BY <1>1, <2>1, <2>2, <2>3 DEF IInv, Builds
<1>3. CASE survivors' = survivors \cup {r} /\ acknowledged' = acknowledged
  <2>1. TypeOK'
    BY <1>1, <1>3 DEF IInv, TypeOK, Valid, Proven
  <2>2. Builds(r, acknowledged)
    BY BuildsTransitive DEF IInv, TypeOK
  <2>3. \A s \in survivors' : Builds(s, acknowledged')
    BY <1>3, <2>2 DEF IInv
  <2>4. \A s \in survivors' : Consented(s)'
    <3>1. CASE consent /\ ~consent'
      BY <3>1, <1>3 DEF Consented
    <3>2. CASE ~(consent /\ ~consent')
      BY <3>2, <1>3 DEF Consented, IInv
    <3>. QED
      BY <3>1, <3>2
  <2>. QED
    BY <1>1, <2>1, <2>3, <2>4 DEF IInv, Builds
<1>. QED
  BY <1>2, <1>3 DEF Replace

\* Nothing of the file changes, nor what was answered.
LEMMA UnchangedKeeps ==
    ASSUME IInv, UNCHANGED <<fileVars, historyVars>>, now' \in Int,
           importing' \in BOOLEAN, importing' => importing
    PROVE  IInv'
<1>1. TypeOK'
  BY DEF IInv, TypeOK, fileVars, historyVars, Valid, Proven
<1>2. \A r \in survivors' : Builds(r, acknowledged')
  BY DEF IInv, fileVars, historyVars
<1>3. \A r \in survivors' : Consented(r)'
  BY DEF IInv, fileVars, historyVars, Consented
<1>4. importing' => record' # Absent /\ record'.state = "introduced"
  BY DEF IInv, fileVars
<1>. QED
  BY <1>1, <1>2, <1>3, <1>4 DEF IInv

-----------------------------------------------------------------------------
(***************************************************************************)
(* The steps.                                                              *)
(***************************************************************************)
LEMMA NewPeerKeeps ==
    ASSUME IInv, NEW document \in Document, NEW history \in History,
           NEW snapshot \in Snapshot \cup {None},
           NewPeer(document, history, snapshot),
           now' = now, consent' = consent, importing' \in BOOLEAN
    PROVE  IInv'
<1>. DEFINE r == [document |-> document, lifecycle |-> history,
                  state |-> "introduced", pre |-> None,
                  snapshot |-> snapshot, ad |-> None]
<1>1. r \in PeerRecord
  BY DEF PeerRecord, State
<1>2. Replace(r) /\ Builds(r, record)
  BY DEF NewPeer, Builds
<1>3. "admitted" \notin {r.state, r.pre} /\ r.state = "introduced"
  BY SentinelAssumption DEF State
<1>4. now' \in Int /\ consent' \in BOOLEAN
  BY DEF IInv, TypeOK
<1>. HIDE DEF r
<1>. QED
  BY <1>1, <1>2, <1>3, <1>4, ReplaceKeeps

LEMMA AdvanceKeeps ==
    ASSUME IInv, NEW document \in Document, NEW history \in History,
           NEW snapshot \in Snapshot \cup {None},
           Advance(document, history, snapshot),
           now' = now, consent' = consent, ~importing, UNCHANGED importing
    PROVE  IInv'
<1>. DEFINE r == Advanced(history, snapshot)
<1>1. /\ record \in PeerRecord /\ record # Absent
      /\ record.state # "revoked"
      /\ IsPrefix(record.lifecycle, history)
  BY DEF IInv, TypeOK, Advance, Known, ExtendsStored
<1>2. /\ r \in PeerRecord
      /\ r.document = record.document
      /\ r.lifecycle = history
      /\ r.state = record.state
      /\ r.pre = record.pre
  BY <1>1 DEF PeerRecord, Advanced
<1>3. Replace(r)
  BY DEF Advance
<1>. HIDE DEF r
<1>4. Builds(r, record)
  BY <1>1, <1>2, SentinelAssumption DEF Builds
<1>5. "admitted" \in {r.state, r.pre} => consent'
  BY <1>1, <1>2 DEF IInv, TypeOK, Consented
<1>6. now' \in Int /\ consent' \in BOOLEAN /\ importing' \in BOOLEAN
  BY DEF IInv, TypeOK
<1>7. ~importing' /\ ~(consent /\ ~consent')
  OBVIOUS
<1>. QED
  BY <1>2, <1>3, <1>4, <1>5, <1>6, <1>7, ReplaceKeeps

LEMMA DuplicateKeeps ==
    ASSUME IInv, NEW document \in Document, NEW history \in History,
           Duplicate(document, history),
           now' = now, consent' = consent, UNCHANGED importing
    PROVE  IInv'
<1>1. UNCHANGED <<fileVars, historyVars>>
  BY DEF Duplicate, historyVars
<1>2. now' \in Int /\ importing' \in BOOLEAN
  BY DEF IInv, TypeOK
<1>3. importing' => importing
  OBVIOUS
<1>. QED
  BY <1>1, <1>2, <1>3, UnchangedKeeps

LEMMA IntroduceKeeps ==
    ASSUME IInv, NEW document \in Document, NEW history \in History,
           NEW snapshot \in Snapshot \cup {None},
           Introduce(document, history, snapshot)
    PROVE  IInv'
<1>1. ~importing /\ now' = now /\ consent' = consent /\ importing' = importing
  BY DEF Introduce
<1>2. importing' \in BOOLEAN
  BY <1>1 DEF IInv, TypeOK
<1>3. CASE NewPeer(document, history, snapshot)
  BY <1>1, <1>2, <1>3, NewPeerKeeps
<1>4. CASE Advance(document, history, snapshot)
  BY <1>1, <1>4, AdvanceKeeps
<1>5. CASE Duplicate(document, history)
  BY <1>1, <1>5, DuplicateKeeps
<1>. QED
  BY <1>3, <1>4, <1>5 DEF Introduce

LEMMA ImportKeeps ==
    ASSUME IInv, NEW document \in Document, NEW history \in History,
           Import(document, history)
    PROVE  IInv'
<1>1. ~importing /\ now' = now /\ consent' = consent
  BY DEF Import
<1>2. None \in Snapshot \cup {None}
  OBVIOUS
<1>3. CASE NewPeer(document, history, None) /\ importing' = AnswersOk
  <2>1. importing' \in BOOLEAN
    BY <1>3 DEF AnswersOk
  <2>. QED
    BY <1>1, <1>2, <1>3, <2>1, NewPeerKeeps
<1>4. CASE Advance(document, history, None) /\ UNCHANGED importing
  BY <1>1, <1>2, <1>4, AdvanceKeeps
<1>5. CASE Duplicate(document, history) /\ UNCHANGED importing
  BY <1>1, <1>5, DuplicateKeeps
<1>. QED
  BY <1>3, <1>4, <1>5 DEF Import

(***************************************************************************)
(* What transition() writes.                                               *)
(***************************************************************************)
LEMMA MovedRecord ==
    ASSUME NEW target \in State, record \in PeerRecord
    PROVE  /\ Moved(target) \in PeerRecord
           /\ Moved(target).document = record.document
           /\ Moved(target).lifecycle = record.lifecycle
           /\ Moved(target).state = target
           /\ Moved(target).pre =
                 IF target = "disconnected" THEN record.state
                 ELSE IF record.state # "disconnected" THEN None
                 ELSE record.pre
           /\ Moved(target).snapshot = record.snapshot
<1>. DEFINE pre == IF target = "disconnected" THEN record.state
                   ELSE IF record.state # "disconnected" THEN None
                   ELSE record.pre
<1>1. pre \in State \cup {None}
  BY DEF PeerRecord
<1>2. Moved(target) = [document |-> record.document, lifecycle |-> record.lifecycle,
                       state |-> target, pre |-> pre,
                       snapshot |-> record.snapshot, ad |-> record.ad]
  <2>1. record = [document |-> record.document, lifecycle |-> record.lifecycle,
                  state |-> record.state, pre |-> record.pre,
                  snapshot |-> record.snapshot, ad |-> record.ad]
    BY DEF PeerRecord
  <2>2. Moved(target) = [record EXCEPT !.state = target, !.pre = pre]
    BY DEF Moved
  <2>. HIDE DEF pre
  <2>. QED
    BY <2>1, <2>2
<1>. HIDE DEF pre
<1>3. Moved(target) \in PeerRecord
  BY <1>1, <1>2 DEF PeerRecord
<1>. QED
  BY <1>2, <1>3 DEF pre

LEMMA MovedBuilds ==
    ASSUME NEW target \in State, record \in PeerRecord,
           record.state = "revoked" => target = "revoked"
    PROVE  Builds(Moved(target), record)
<1>1. record.lifecycle \in Seq(LifecycleRecord)
  BY HistoryAssumption DEF PeerRecord
<1>2. IsPrefix(record.lifecycle, record.lifecycle)
  BY <1>1, PrefixReflexive
<1>3. Moved(target) # Absent
  BY MovedRecord, SentinelAssumption
<1>. QED
  BY <1>2, <1>3, MovedRecord DEF Builds

LEMMA TransitionKeeps ==
    ASSUME IInv, NEW target \in State, Transition(target)
    PROVE  IInv'
<1>. DEFINE r == Moved(target)
<1>1. /\ record \in PeerRecord /\ record \in survivors /\ record # Absent
      /\ ~importing /\ now' = now /\ importing' = importing
      /\ target \in transitionAllowed[record.state]
      /\ Replace(r) /\ record' = r /\ Says(target)
  BY DEF Transition, IInv, TypeOK, Replace
<1>2. /\ record.state \in State
      /\ record.state = "revoked" => target = "revoked"
      /\ record.state = "disconnected" => target = "disconnected"
  BY <1>1 DEF transitionAllowed, PeerRecord, State
<1>3. /\ r \in PeerRecord /\ r.state = target
      /\ r.pre = IF target = "disconnected" THEN record.state
                 ELSE IF record.state # "disconnected" THEN None
                 ELSE record.pre
  BY <1>1, MovedRecord
<1>4. Builds(r, record)
  BY <1>1, <1>2, MovedBuilds
<1>5. consent' \in BOOLEAN
  <2>1. consent \in BOOLEAN
    BY DEF IInv, TypeOK
  <2>. QED
    BY <1>1, <2>1 DEF Says
<1>6. consent /\ ~consent' => survivors' = {r}
  BY <1>1 DEF Says, AnswersOk
<1>7. "admitted" \in {r.state, r.pre} => consent'
  <2>1. CASE target = "admitted"
    BY <1>1, <2>1 DEF Says
  <2>2. CASE target = "disconnected"
    <3>1. consent' = consent
      BY <1>1, <2>2 DEF Says
    <3>2. record.state = "admitted" => consent
      BY <1>1 DEF IInv, Consented
    <3>. QED
      BY <1>3, <2>2, <3>1, <3>2
  <2>3. CASE target \notin {"admitted", "disconnected"}
    BY <1>2, <1>3, <2>3, SentinelAssumption DEF State
  <2>. QED
    BY <2>1, <2>2, <2>3
<1>8. now' \in Int /\ importing' \in BOOLEAN
  BY <1>1 DEF IInv, TypeOK
<1>9. importing' => r.state = "introduced"
  BY <1>1
<1>. HIDE DEF r
<1>. QED
  BY <1>1, <1>3, <1>4, <1>5, <1>6, <1>7, <1>8, <1>9, ReplaceKeeps

LEMMA QuarantineKeeps ==
    ASSUME IInv, Quarantine
    PROVE  IInv'
<1>. DEFINE r == Moved("quarantined")
<1>1. /\ record \in PeerRecord /\ record.state = "introduced"
      /\ record \in survivors /\ record # Absent
      /\ importing' = FALSE /\ now' = now /\ consent' = consent
  BY DEF Quarantine, IInv, TypeOK
<1>2. now' \in Int /\ consent' \in BOOLEAN /\ importing' \in BOOLEAN
  BY <1>1 DEF IInv, TypeOK
<1>3. CASE Replace(r)
  <2>1. "quarantined" \in State
    BY DEF State
  <2>2. r \in PeerRecord /\ r.state = "quarantined" /\ r.pre = None
    BY <1>1, <2>1, MovedRecord
  <2>3. Builds(r, record)
    BY <1>1, <2>1, MovedBuilds
  <2>4. "admitted" \notin {r.state, r.pre}
    BY <2>2, SentinelAssumption DEF State
  <2>5. ~importing' /\ ~(consent /\ ~consent')
    BY <1>1
  <2>. HIDE DEF r
  <2>. QED
    BY <1>2, <1>3, <2>2, <2>3, <2>4, <2>5, ReplaceKeeps
<1>4. CASE UNCHANGED <<fileVars, acknowledged>>
  <2>1. UNCHANGED <<fileVars, historyVars>>
    BY <1>1, <1>4 DEF historyVars
  <2>2. importing' => importing
    BY <1>1
  <2>. QED
    BY <1>2, <2>1, <2>2, UnchangedKeeps
<1>. QED
  BY <1>3, <1>4 DEF Quarantine

(***************************************************************************)
(* What disconnect, confirm_rejoin and a new advertisement write: the      *)
(* identity stays, and whoever is admitted was.                            *)
(***************************************************************************)
LEMMA RewriteKeeps ==
    ASSUME IInv, record \in PeerRecord, NEW r \in PeerRecord,
           r.document = record.document, r.lifecycle = record.lifecycle,
           record.state = "revoked" => r.state = "revoked",
           "admitted" \in {r.state, r.pre} => "admitted" \in {record.state, record.pre},
           Replace(r),
           ~importing, UNCHANGED <<now, importing, consent>>
    PROVE  IInv'
<1>1. record.lifecycle \in Seq(LifecycleRecord) /\ r # Absent
  BY HistoryAssumption, SentinelAssumption DEF PeerRecord
<1>2. Builds(r, record)
  BY <1>1, PrefixReflexive DEF Builds
<1>3. "admitted" \in {r.state, r.pre} => consent'
  <2>1. record \in survivors /\ record # Absent
    BY SentinelAssumption DEF IInv, TypeOK
  <2>2. "admitted" \in {record.state, record.pre} => consent
    BY <2>1 DEF IInv, Consented
  <2>. QED
    BY <2>2
<1>4. now' \in Int /\ consent' \in BOOLEAN /\ importing' \in BOOLEAN
  BY DEF IInv, TypeOK
<1>5. ~importing' /\ ~(consent /\ ~consent')
  OBVIOUS
<1>. QED
  BY <1>2, <1>3, <1>4, <1>5, ReplaceKeeps

LEMMA DisconnectKeeps ==
    ASSUME IInv, NEW snapshot \in Snapshot, Disconnect(snapshot)
    PROVE  IInv'
<1>. DEFINE r == [record EXCEPT !.pre = record.state,
                                !.state = "disconnected",
                                !.snapshot = snapshot]
<1>1. /\ record \in PeerRecord /\ record.state # "revoked" /\ ~importing
      /\ UNCHANGED <<now, importing, consent>>
      /\ Replace(r)
  BY DEF Disconnect, IInv, TypeOK
<1>2. /\ r \in PeerRecord
      /\ r.document = record.document /\ r.lifecycle = record.lifecycle
      /\ r.state = "disconnected" /\ r.pre = record.state
  BY <1>1 DEF PeerRecord, State
<1>. HIDE DEF r
<1>. QED
  BY <1>1, <1>2, RewriteKeeps

LEMMA ConfirmRejoinKeeps ==
    ASSUME IInv, NEW remote \in Snapshot, NEW explicit \in BOOLEAN,
           ConfirmRejoin(remote, explicit)
    PROVE  IInv'
<1>. DEFINE target == IF record.pre = None THEN "introduced" ELSE record.pre
            r == [record EXCEPT !.state = target, !.pre = None,
                                !.snapshot = remote]
<1>1. /\ record \in PeerRecord /\ record.state = "disconnected" /\ ~importing
      /\ UNCHANGED <<now, importing, consent>>
      /\ Replace(r)
  BY DEF ConfirmRejoin, IInv, TypeOK
<1>2. target \in State /\ (target = "admitted" => record.pre = "admitted")
  BY <1>1 DEF State, PeerRecord
<1>. HIDE DEF target
<1>3. /\ r \in PeerRecord
      /\ r.document = record.document /\ r.lifecycle = record.lifecycle
      /\ r.state = target /\ r.pre = None
  BY <1>1, <1>2 DEF PeerRecord
<1>4. None # "admitted"
  BY SentinelAssumption DEF State
<1>. HIDE DEF r
<1>. QED
  BY <1>1, <1>2, <1>3, <1>4, RewriteKeeps

LEMMA AttachKeeps ==
    ASSUME IInv, NEW ad \in Advert, Attach(ad)
    PROVE  IInv'
<1>. DEFINE r == [record EXCEPT !.ad = ad]
<1>1. /\ record \in PeerRecord /\ ~importing
      /\ UNCHANGED <<now, importing, consent>>
      /\ Replace(r)
  BY DEF Attach, IInv, TypeOK
<1>2. /\ r \in PeerRecord
      /\ r.document = record.document /\ r.lifecycle = record.lifecycle
      /\ r.state = record.state /\ r.pre = record.pre
  BY <1>1 DEF PeerRecord
<1>. HIDE DEF r
<1>. QED
  BY <1>1, <1>2, RewriteKeeps

LEMMA CrashKeeps ==
    ASSUME IInv, Crash
    PROVE  IInv'
<1>1. /\ record' \in survivors /\ survivors' = {record'}
      /\ importing' = FALSE /\ importing' \in BOOLEAN
      /\ now' = now /\ acknowledged' = acknowledged /\ consent' = consent
  BY DEF Crash, historyVars
<1>2. TypeOK'
  BY <1>1 DEF IInv, TypeOK, Valid, Proven
<1>3. \A r \in survivors' : Builds(r, acknowledged')
  BY <1>1 DEF IInv
<1>4. \A r \in survivors' : Consented(r)'
  BY <1>1 DEF IInv, Consented
<1>5. ~importing'
  BY <1>1
<1>. QED
  BY <1>2, <1>3, <1>4, <1>5 DEF IInv

LEMMA TickKeeps ==
    ASSUME IInv, Tick
    PROVE  IInv'
<1>1. UNCHANGED <<fileVars, historyVars>> /\ now' = now + 1
      /\ importing' = importing
  BY DEF Tick
<1>2. now' \in Int /\ importing' \in BOOLEAN
  BY <1>1 DEF IInv, TypeOK
<1>. QED
  BY <1>1, <1>2, UnchangedKeeps

LEMMA StepIInv == IInv /\ [Next]_vars => IInv'
<1>. SUFFICES ASSUME IInv, [Next]_vars PROVE IInv'
  OBVIOUS
<1>1. CASE Tick
  BY <1>1, TickKeeps
<1>2. ASSUME NEW document \in Document, NEW history \in History,
             NEW snapshot \in Snapshot \cup {None},
             Introduce(document, history, snapshot)
      PROVE  IInv'
  BY <1>2, IntroduceKeeps
<1>3. ASSUME NEW document \in Document, NEW history \in History,
             Import(document, history)
      PROVE  IInv'
  BY <1>3, ImportKeeps
<1>4. CASE Quarantine
  BY <1>4, QuarantineKeeps
<1>5. ASSUME NEW target \in State, Transition(target) PROVE IInv'
  BY <1>5, TransitionKeeps
<1>6. ASSUME NEW snapshot \in Snapshot, Disconnect(snapshot) PROVE IInv'
  BY <1>6, DisconnectKeeps
<1>7. ASSUME NEW snapshot \in Snapshot, NEW explicit \in BOOLEAN,
             ConfirmRejoin(snapshot, explicit)
      PROVE  IInv'
  BY <1>7, ConfirmRejoinKeeps
<1>8. ASSUME NEW ad \in Advert, Attach(ad) \/ RecordAdvert(ad) PROVE IInv'
  BY <1>8, AttachKeeps DEF RecordAdvert
<1>9. CASE Crash
  BY <1>9, CrashKeeps
<1>10. CASE UNCHANGED vars
  <2>1. UNCHANGED <<fileVars, historyVars>> /\ now' = now /\ importing' = importing
    BY <1>10 DEF vars
  <2>2. now' \in Int /\ importing' \in BOOLEAN
    BY <2>1 DEF IInv, TypeOK
  <2>. QED
    BY <2>1, <2>2, UnchangedKeeps
<1>. QED
  BY <1>1, <1>2, <1>3, <1>4, <1>5, <1>6, <1>7, <1>8, <1>9, <1>10
     DEF Next, Operation

\* The strengthening is an invariant.
THEOREM Inductive == Spec => []IInv
<1>. QED
  BY InitIInv, StepIInv, PTL DEF Spec

-----------------------------------------------------------------------------
(***************************************************************************)
(* What the file holds, or may hold after a crash, has passed              *)
(* validate_peer_record.                                                   *)
(***************************************************************************)
THEOREM TypeCorrect == Spec => []TypeOK
<1>1. IInv => TypeOK
  BY DEF IInv
<1>. QED
  BY <1>1, Inductive, PTL

(***************************************************************************)
(* No crash and no failed write undoes what was answered Ok: the           *)
(* documents, the lifecycle records and the revocations stay.              *)
(***************************************************************************)
THEOREM AnswersKept == Spec => []AnswersAreKept
<1>1. IInv => AnswersAreKept
  BY DEF IInv, TypeOK, AnswersAreKept
<1>. QED
  BY <1>1, Inductive, PTL

(***************************************************************************)
(* Only an operator admits: partitions, rejoins, imports, failed writes    *)
(* and crashes do not.                                                     *)
(***************************************************************************)
THEOREM ExplicitAdmission == Spec => []AdmissionIsExplicit
<1>1. IInv => AdmissionIsExplicit
  BY DEF IInv, TypeOK, Consented, AdmissionIsExplicit
<1>. QED
  BY <1>1, Inductive, PTL

(***************************************************************************)
(* A permission rests on a key that the stored lifecycle lets sign.        *)
(***************************************************************************)
THEOREM LivePermission == Spec => []PermissionNeedsLiveKey
<1>1. IInv => PermissionNeedsLiveKey
  <2>. SUFFICES ASSUME IInv, Permitted
                PROVE  Verifies(Rebuilt(record.document, record.lifecycle),
                                record.ad.key, record.ad.issued)
    BY DEF PermissionNeedsLiveKey
  <2>1. record \in survivors \ {Absent} /\ record.ad # None
    BY DEF IInv, TypeOK, Permitted
  <2>2. Proven(Rebuilt(record.document, record.lifecycle), record.ad)
    BY <2>1 DEF IInv, TypeOK, Valid
  <2>. QED
    BY <2>2 DEF Proven, Authentic
<1>. QED
  BY <1>1, Inductive, PTL

(***************************************************************************)
(* No operation moves the partition point of a disconnected peer.          *)
(***************************************************************************)
THEOREM PartitionPoint == Spec => PartitionPointKept
<1>. DEFINE Kept == /\ record # Absent /\ record' # Absent
                    /\ record.state = "disconnected"
                    /\ record'.state = "disconnected"
                    /\ ~Crash
                    => record'.snapshot = record.snapshot
<1>1. TypeOK /\ [Next]_vars => [Kept]_vars
  <2>. SUFFICES ASSUME TypeOK, [Next]_vars, record # Absent,
                       record.state = "disconnected",
                       record'.state = "disconnected",
                       ~Crash
                PROVE  record'.snapshot = record.snapshot
    OBVIOUS
  <2>1. record \in PeerRecord
    BY DEF TypeOK
  <2>2. \/ record' = record
        \/ \E history \in History, snapshot \in Snapshot \cup {None} :
              record' = Advanced(history, snapshot)
        \/ \E target \in State : record' = Moved(target)
        \/ \E snapshot \in Snapshot : Disconnect(snapshot)
        \/ \E snapshot \in Snapshot, explicit \in BOOLEAN :
              ConfirmRejoin(snapshot, explicit)
        \/ \E ad \in Advert : record' = [record EXCEPT !.ad = ad]
    <3>1. ASSUME NEW document \in Document, NEW history \in History,
                 NEW snapshot \in Snapshot \cup {None},
                 Introduce(document, history, snapshot)
          PROVE  \/ record' = record
                 \/ record' = Advanced(history, snapshot)
      BY <3>1 DEF Introduce, NewPeer, Advance, Duplicate, Replace, fileVars
    <3>2. ASSUME NEW document \in Document, NEW history \in History,
                 Import(document, history)
          PROVE  \/ record' = record
                 \/ record' = Advanced(history, None)
      BY <3>2 DEF Import, NewPeer, Advance, Duplicate, Replace, fileVars
    <3>3. Quarantine => record' = record \/ record' = Moved("quarantined")
      BY DEF Quarantine, Replace, fileVars
    <3>4. "quarantined" \in State
      BY DEF State
    <3>5. ASSUME NEW target \in State, Transition(target)
          PROVE  record' = Moved(target)
      BY <3>5 DEF Transition, Replace
    <3>6. ASSUME NEW ad \in Advert, Attach(ad) \/ RecordAdvert(ad)
          PROVE  record' = [record EXCEPT !.ad = ad]
      BY <3>6 DEF Attach, RecordAdvert, Replace
    <3>7. Tick \/ UNCHANGED vars => record' = record
      BY DEF Tick, vars, fileVars
    <3>. QED
      BY <3>1, <3>2, <3>3, <3>4, <3>5, <3>6, <3>7 DEF Next, Operation
  <2>3. ASSUME NEW history \in History, NEW snapshot \in Snapshot \cup {None},
               record' = Advanced(history, snapshot)
        PROVE  record'.snapshot = record.snapshot
    BY <2>1, <2>3 DEF Advanced, PeerRecord
  <2>4. ASSUME NEW target \in State, record' = Moved(target)
        PROVE  record'.snapshot = record.snapshot
    BY <2>1, <2>4, MovedRecord
  <2>5. ASSUME NEW snapshot \in Snapshot, Disconnect(snapshot)
        PROVE  FALSE
    BY <2>5 DEF Disconnect
  <2>6. ASSUME NEW snapshot \in Snapshot, NEW explicit \in BOOLEAN,
               ConfirmRejoin(snapshot, explicit)
        PROVE  FALSE
    <3>. DEFINE target == IF record.pre = None THEN "introduced" ELSE record.pre
    <3>1. /\ record.pre # "disconnected"
          /\ record' = [record EXCEPT !.state = target, !.pre = None,
                                      !.snapshot = snapshot]
      BY <2>6 DEF ConfirmRejoin, Replace
    <3>2. target # "disconnected"
      BY <3>1
    <3>. HIDE DEF target
    <3>3. record'.state = target
      BY <2>1, <3>1 DEF PeerRecord
    <3>. QED
      BY <3>2, <3>3
  <2>7. ASSUME NEW ad \in Advert, record' = [record EXCEPT !.ad = ad]
        PROVE  record'.snapshot = record.snapshot
    BY <2>1, <2>7 DEF PeerRecord
  <2>. QED
    BY <2>2, <2>3, <2>4, <2>5, <2>6, <2>7
<1>. QED
  BY <1>1, TypeCorrect, PTL DEF Spec, PartitionPointKept
=============================================================================
