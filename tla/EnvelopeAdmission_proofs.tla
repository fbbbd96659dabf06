---------------------- MODULE EnvelopeAdmission_proofs ----------------------
(***************************************************************************)
(* Proofs about the admission of signed envelopes, from the bottom up: the *)
(* identities whose keys sign them (Identity, Lifecycle, NodeIdentity),    *)
(* the durable store that remembers them (ReplayStore), and the service    *)
(* whose handlers share the two (EnvelopeAdmission).  They hold for every  *)
(* set of keys, messages, hellos and handlers, and every clock policy.     *)
(***************************************************************************)
EXTENDS EnvelopeAdmission, NodeIdentity, FiniteSetTheorems,
        WellFoundedInduction, TLAPS

(***************************************************************************)
(* The least element of a set of natural numbers: the form of induction    *)
(* that the lemmas about recursive functions rest on.                      *)
(***************************************************************************)
LEMMA Least ==
    ASSUME NEW S \in SUBSET Nat, S # {}
    PROVE  \E n \in S : \A m \in S : n <= m
<1>. DEFINE R == {ss \in Nat \X Nat : ss[1] < ss[2]}
<1>1. IsWellFoundedOn(R, Nat)
  BY NatLessThanWellFounded DEF OpToRel
<1>. HIDE DEF R
<1>2. PICK n \in S : \A m \in S : ~(<<m, n>> \in R)
  BY <1>1, WFMin
<1>3. \A m \in S : ~(m < n)
  BY <1>2 DEF R
<1>. QED
  BY <1>3

(***************************************************************************)
(* The identity of an admitted document, and what an admitted record makes *)
(* of an identity, are identities.                                         *)
(***************************************************************************)
LEMMA DocumentIsIdentity ==
    ASSUME NEW operational \in Key \ {Root}, NEW created \in Int
    PROVE  IsIdentity(FromDocument(operational, created))
<1>. DEFINE id == FromDocument(operational, created)
<1>1. /\ id = [current |-> id.current, seq |-> id.seq, keys |-> id.keys]
      /\ id.current = operational /\ id.seq = 0
      /\ id.keys = [k \in {operational} |-> FreshKey(created)]
  BY DEF FromDocument
<1>2. FreshKey(created) \in KeyState
  BY DEF FreshKey, KeyState, Status
<1>. HIDE DEF id
<1>3. id.keys \in [{operational} -> KeyState]
  BY <1>1, <1>2
<1>4. IsIdentity(id)
  BY <1>1, <1>3 DEF IsIdentity
<1>. QED
  BY <1>4 DEF id

LEMMA RotatedIsIdentity ==
    ASSUME NEW id, IsIdentity(id), NEW r \in RotationRecord(Int, Int),
           RotationWellFormed(id, r)
    PROVE  IsIdentity(Rotated(id, r)) /\ Rotated(id, r).seq = id.seq + 1
<1>. DEFINE new == Rotated(id, r)
            known == DOMAIN id.keys \cup {r.next}
            window(k) == IF k = r.next THEN FreshKey(r.from)
                         ELSE IF k = r.previous
                              THEN [id.keys[k] EXCEPT !.until = r.overlap]
                              ELSE id.keys[k]
<1>1. /\ r.from \in Int /\ r.overlap \in Int /\ r.next \in Key /\ r.next # Root
      /\ r.seq = id.seq + 1
  BY DEF RotationRecord, RotationWellFormed, NextIsNew
<1>2. \A k \in DOMAIN id.keys : id.keys[k] \in KeyState
  BY DEF IsIdentity
<1>3. FreshKey(r.from) \in KeyState
  BY <1>1 DEF FreshKey, KeyState, Status
<1>4. \A k \in known : window(k) \in KeyState
  BY <1>1, <1>2, <1>3 DEF KeyState
<1>5. /\ new = [current |-> new.current, seq |-> new.seq, keys |-> new.keys]
      /\ new.current = r.next /\ new.seq = r.seq
      /\ new.keys = [k \in known |-> window(k)]
  BY DEF Rotated
<1>6. new.keys \in [known -> KeyState] /\ known \subseteq Key \ {Root}
  BY <1>1, <1>4, <1>5 DEF IsIdentity
<1>. HIDE DEF new, known, window
<1>7. DOMAIN new.keys = known
  BY <1>6
<1>8. r.next \in known /\ id.seq + 1 \in Nat
  BY DEF IsIdentity, known
<1>. QED
  BY <1>1, <1>5, <1>6, <1>7, <1>8 DEF IsIdentity, new

LEMMA MarkedIsIdentity ==
    ASSUME NEW id, IsIdentity(id), NEW r \in StatusRecord(Int, Int),
           StatusAdmitted(id, r)
    PROVE  IsIdentity(StatusApplied(id, r)) /\ StatusApplied(id, r).seq = id.seq + 1
<1>. DEFINE new == StatusApplied(id, r)
            mark == Marked(id.keys[r.key], r)
<1>1. /\ r.effective \in Int /\ r.status \in {"revoked", "compromised"}
      /\ r.key \in DOMAIN id.keys /\ r.seq = id.seq + 1
  BY DEF StatusRecord, StatusAdmitted
<1>2. id.keys \in [DOMAIN id.keys -> KeyState]
  BY DEF IsIdentity
<1>3. id.keys[r.key] \in KeyState
  BY <1>1, <1>2
<1>4. mark \in KeyState
  BY <1>1, <1>3 DEF Marked, Earliest, KeyState, Status
<1>5. /\ new = [current |-> new.current, seq |-> new.seq, keys |-> new.keys]
      /\ new.current = id.current /\ new.seq = r.seq
      /\ new.keys = [id.keys EXCEPT ![r.key] = mark]
  BY DEF StatusApplied
<1>. HIDE DEF new, mark
<1>6. new.keys \in [DOMAIN id.keys -> KeyState]
  BY <1>1, <1>2, <1>4, <1>5
<1>7. DOMAIN new.keys = DOMAIN id.keys /\ id.seq + 1 \in Nat
  BY <1>6 DEF IsIdentity
<1>. QED
  BY <1>1, <1>5, <1>6, <1>7 DEF IsIdentity, new

LEMMA AppliedIsIdentity ==
    ASSUME NEW id, IsIdentity(id), NEW r \in AnyRecord, Admitted(id, r)
    PROVE  IsIdentity(Applied(id, r)) /\ Applied(id, r).seq = id.seq + 1
<1>1. CASE r.kind = "status"
  <2>1. StatusAdmitted(id, r)
    BY <1>1 DEF Admitted, RotationAdmitted
  <2>2. r \in StatusRecord(Int, Int)
    BY <1>1 DEF AnyRecord, RotationRecord, StatusRecord
  <2>. QED
    BY <1>1, <2>1, <2>2, MarkedIsIdentity DEF Applied
<1>2. CASE r.kind # "status"
  <2>1. RotationWellFormed(id, r)
    BY <1>2 DEF Admitted, StatusAdmitted, RotationAdmitted
  <2>2. r \in RotationRecord(Int, Int)
    BY <1>2 DEF AnyRecord, RotationRecord, StatusRecord
  <2>. QED
    BY <1>2, <2>1, <2>2, RotatedIsIdentity DEF Applied
<1>. QED
  BY <1>1, <1>2

(***************************************************************************)
(* The recursive function of Rebuilding exists: from the least prefix that *)
(* has none, one for that prefix can be made.                              *)
(***************************************************************************)
LEMMA RebuildingExists ==
    ASSUME NEW base, NEW lifecycle, NEW length \in Nat
    PROVE  \E f : f = [n \in 0 .. length |->
                          IF n = 0 THEN base ELSE OneRecord(f[n - 1], lifecycle[n])]
<1>. DEFINE Next1(f, n) == IF n = 0 THEN base ELSE OneRecord(f[n - 1], lifecycle[n])
            Upto(n, f) == f = [i \in 0 .. n |-> Next1(f, i)]
            Missing == {n \in Nat : ~ \E f : Upto(n, f)}
<1>1. ASSUME Missing # {} PROVE FALSE
  <2>1. PICK n \in Missing : \A m \in Missing : n <= m
    BY <1>1, Least
  <2>2. n # 0
    <3>. DEFINE f == [i \in 0 .. 0 |-> base]
    <3>1. \A i \in 0 .. 0 : f[i] = Next1(f, i)
      OBVIOUS
    <3>2. f = [i \in 0 .. 0 |-> Next1(f, i)]
      BY <3>1
    <3>. HIDE DEF f
    <3>. QED
      BY <3>2
  <2>3. n - 1 \in Nat /\ n - 1 \notin Missing
    <3>1. n \in Nat
      BY <2>1
    <3>2. n - 1 \in Nat /\ ~(n <= n - 1)
      BY <2>2, <3>1
    <3>. HIDE DEF Missing
    <3>. QED
      BY <2>1, <3>2
  <2>4. PICK f : Upto(n - 1, f)
    BY <2>3
  <2>. DEFINE g == [i \in 0 .. n |->
                       IF i = n THEN OneRecord(f[n - 1], lifecycle[n]) ELSE f[i]]
  <2>5. Upto(n, g)
    <3>1. ASSUME NEW i \in 0 .. n PROVE g[i] = Next1(g, i)
      <4>1. CASE i = n
        <5>1. g[i] = OneRecord(f[n - 1], lifecycle[n]) /\ g[i - 1] = f[n - 1]
          BY <4>1, <2>2, <2>3
        <5>. QED
          BY <5>1, <4>1, <2>2
      <4>2. CASE i # n
        <5>1. i \in 0 .. (n - 1) /\ g[i] = f[i]
          BY <4>2, <2>3
        <5>2. i # 0 => g[i - 1] = f[i - 1]
          BY <5>1, <2>3
        <5>3. f[i] = Next1(f, i)
          BY <2>4, <5>1
        <5>. HIDE DEF g
        <5>. QED
          BY <5>1, <5>2, <5>3
      <4>. QED
        BY <4>1, <4>2
    <3>2. g = [i \in 0 .. n |-> g[i]]
      OBVIOUS
    <3>. HIDE DEF g
    <3>. QED
      BY <3>1, <3>2
  <2>. HIDE DEF g
  <2>. QED
    BY <2>1, <2>5
<1>2. length \notin Missing
  BY <1>1
<1>. QED
  BY <1>2

LEMMA RebuildingUnfolds ==
    ASSUME NEW document, NEW lifecycle, Len(lifecycle) \in Nat
    PROVE  LET f == Rebuilding(document, lifecycle) IN
           \A n \in 0 .. Len(lifecycle) :
               f[n] = IF n = 0
                      THEN FromDocument(document.operational, document.created)
                      ELSE OneRecord(f[n - 1], lifecycle[n])
<1>. DEFINE f == Rebuilding(document, lifecycle)
<1>1. f = [n \in 0 .. Len(lifecycle) |->
              IF n = 0 THEN FromDocument(document.operational, document.created)
                       ELSE OneRecord(f[n - 1], lifecycle[n])]
  BY RebuildingExists DEF Rebuilding
<1>. HIDE DEF f
<1>2. \A n \in 0 .. Len(lifecycle) :
         f[n] = IF n = 0 THEN FromDocument(document.operational, document.created)
                         ELSE OneRecord(f[n - 1], lifecycle[n])
  BY <1>1
<1>. QED
  BY <1>2 DEF f

(***************************************************************************)
(* rebuild_peer_identity, of a history of any length: the error, or an     *)
(* identity whose sequence number counts the records of the history.       *)
(***************************************************************************)
Presented(document, lifecycle) ==
    /\ document.operational \in Key
    /\ document.created \in Int
    /\ lifecycle \in Seq(AnyRecord)

THEOREM RebuiltIdentities ==
    ASSUME NEW document, NEW lifecycle, Presented(document, lifecycle),
           Rebuilt(document, lifecycle) # NoIdentity
    PROVE  /\ IsIdentity(Rebuilt(document, lifecycle))
           /\ Rebuilt(document, lifecycle).seq = Len(lifecycle)
<1>. DEFINE f == Rebuilding(document, lifecycle)
            Right(n) == f[n] # NoIdentity => IsIdentity(f[n]) /\ f[n].seq = n
            Wrong == {n \in 0 .. Len(lifecycle) : ~Right(n)}
<1>1. /\ Len(lifecycle) \in Nat
      /\ \A n \in 1 .. Len(lifecycle) : lifecycle[n] \in AnyRecord
      /\ document.operational \in Key \ {Root} /\ document.created \in Int
  BY DEF Presented, Rebuilt, DocumentAdmitted
<1>2. \A n \in 0 .. Len(lifecycle) :
         f[n] = IF n = 0 THEN FromDocument(document.operational, document.created)
                         ELSE OneRecord(f[n - 1], lifecycle[n])
  BY <1>1, RebuildingUnfolds
<1>. HIDE DEF f
<1>3. ASSUME Wrong # {} PROVE FALSE
  <2>1. PICK n \in Wrong : \A m \in Wrong : n <= m
    <3>1. Wrong \in SUBSET Nat
      BY <1>1
    <3>. HIDE DEF Wrong
    <3>. QED
      BY <3>1, <1>3, Least
  <2>2. n # 0
    <3>1. f[0] = FromDocument(document.operational, document.created)
      BY <1>1, <1>2
    <3>2. f[0].seq = 0
      BY <3>1 DEF FromDocument
    <3>. QED
      BY <1>1, <2>1, <3>1, <3>2, DocumentIsIdentity
  <2>3. n - 1 \in 0 .. Len(lifecycle) /\ Right(n - 1)
    <3>1. n - 1 \in 0 .. Len(lifecycle) /\ ~(n <= n - 1)
      BY <1>1, <2>1, <2>2
    <3>. QED
      BY <2>1, <3>1
  <2>4. f[n] = OneRecord(f[n - 1], lifecycle[n]) /\ f[n] # NoIdentity
    BY <1>2, <2>1, <2>2
  <2>5. /\ f[n - 1] # NoIdentity /\ Admitted(f[n - 1], lifecycle[n])
        /\ f[n] = Applied(f[n - 1], lifecycle[n])
    BY <2>4 DEF OneRecord
  <2>6. lifecycle[n] \in AnyRecord
    BY <1>1, <2>1, <2>2
  <2>7. IsIdentity(f[n]) /\ f[n].seq = n
    BY <2>3, <2>5, <2>6, AppliedIsIdentity
  <2>. QED
    BY <2>1, <2>7
<1>4. Right(Len(lifecycle))
  BY <1>1, <1>3
<1>5. Rebuilt(document, lifecycle) = f[Len(lifecycle)]
  BY DEF Rebuilt, f
<1>. QED
  BY <1>4, <1>5

-----------------------------------------------------------------------------

(***************************************************************************)
(* The strengthening: the current key has no end while it is active, and   *)
(* an active key that is not current has one, which is what                *)
(* ensure_no_other_overlap compares.                                       *)
(***************************************************************************)
OpenEnded ==
    \A k \in DOMAIN identity.keys :
        identity.keys[k].status = "active" =>
            (identity.keys[k].until = NoTime <=> k = identity.current)

IdentityInv == IdentityTypeOK /\ OpenEnded /\ NoTripleOverlap /\ NoGap

(***************************************************************************)
(* What an admitted rotation does to the identity.                         *)
(***************************************************************************)
RotationChange(r) ==
    /\ r.from \in Int /\ r.overlap \in Int
    /\ r.previous = identity.current /\ r.previous \in DOMAIN identity.keys
    /\ r.next \in Key \ {Root} /\ r.next \notin DOMAIN identity.keys
    /\ identity'.current = r.next
    /\ identity'.seq = identity.seq + 1
    /\ DOMAIN identity'.keys = DOMAIN identity.keys \cup {r.next}
    /\ identity'.keys[r.next] = FreshKey(r.from)
    /\ identity'.keys[r.previous] =
          [identity.keys[r.previous] EXCEPT !.until = r.overlap]
    /\ \A k \in DOMAIN identity.keys \ {r.previous} :
          identity'.keys[k] = identity.keys[k]

LEMMA RotationEffect ==
    ASSUME IdentityTypeOK, NEW r \in RotationRecord(Times, Sequences), ApplyRotation(r)
    PROVE  RotationChange(r)
<1>1. /\ r.from \in Int /\ r.overlap \in Int /\ r.next \in Key
  BY DocumentAssumption DEF RotationRecord
<1>2. identity.current \in DOMAIN identity.keys
  BY DEF IdentityTypeOK, IsIdentity
<1>3. RotationWellFormed(identity, r) /\ identity' = Rotated(identity, r)
  BY DEF ApplyRotation, RotationAdmitted
<1>4. /\ r.previous = identity.current
      /\ r.next # Root /\ r.next \notin DOMAIN identity.keys
      /\ r.seq = identity.seq + 1
  BY <1>3 DEF RotationWellFormed, NextIsNew, OverlapBounded
<1>5. /\ identity'.current = r.next /\ identity'.seq = r.seq
      /\ identity'.keys = [k \in DOMAIN identity.keys \cup {r.next} |->
                    IF k = r.next THEN FreshKey(r.from)
                    ELSE IF k = r.previous
                         THEN [identity.keys[k] EXCEPT !.until = r.overlap]
                         ELSE identity.keys[k]]
  BY <1>3 DEF Rotated
<1>. QED
  BY <1>1, <1>2, <1>4, <1>5 DEF RotationChange

(***************************************************************************)
(* What an admitted status does to the identity.                           *)
(***************************************************************************)
StatusChange(r) ==
    /\ r.key \in DOMAIN identity.keys
    /\ identity'.current = identity.current
    /\ identity'.seq = identity.seq + 1
    /\ DOMAIN identity'.keys = DOMAIN identity.keys
    /\ identity'.keys[r.key].status = r.status
    /\ r.status \in {"revoked", "compromised"}
    /\ identity'.keys[r.key] \in KeyState
    /\ \A k \in DOMAIN identity.keys \ {r.key} :
          identity'.keys[k] = identity.keys[k]
    /\ identity' = [current |-> identity'.current, seq |-> identity'.seq,
                    keys |-> identity'.keys]

LEMMA StatusEffect ==
    ASSUME IdentityTypeOK, NEW r \in StatusRecord(Times, Sequences), ApplyKeyStatus(r)
    PROVE  StatusChange(r)
<1>1. /\ r.effective \in Int /\ r.status \in {"revoked", "compromised"}
  BY DocumentAssumption DEF StatusRecord
<1>2. /\ r.key \in DOMAIN identity.keys /\ r.seq = identity.seq + 1
      /\ identity' = StatusApplied(identity, r)
  BY DEF ApplyKeyStatus, StatusAdmitted
<1>3. identity.keys \in [DOMAIN identity.keys -> KeyState]
  BY DEF IdentityTypeOK, IsIdentity
<1>. DEFINE old == identity.keys[r.key]
            new == Marked(old, r)
<1>4. identity' = [current |-> identity.current, seq |-> r.seq,
                   keys |-> [identity.keys EXCEPT ![r.key] = new]]
  BY <1>2 DEF StatusApplied
<1>5. old \in KeyState
  BY <1>2, <1>3
<1>6. new \in KeyState /\ new.status = r.status
  BY <1>1, <1>5 DEF Marked, Earliest, KeyState, Status
<1>. HIDE DEF new
<1>7. /\ identity'.keys = [identity.keys EXCEPT ![r.key] = new]
      /\ identity'.current = identity.current /\ identity'.seq = r.seq
  BY <1>4
<1>. QED
  BY <1>1, <1>2, <1>3, <1>4, <1>6, <1>7 DEF StatusChange

(***************************************************************************)
(* The initial identity, and the types of what a record makes of it.       *)
(***************************************************************************)
LEMMA IdentityInitInv == IdentityInit => IdentityInv
<1>. SUFFICES ASSUME IdentityInit PROVE IdentityInv
  OBVIOUS
<1>1. /\ identity.current = Operational /\ identity.seq = 0
      /\ DOMAIN identity.keys = {Operational}
      /\ identity.keys[Operational] = FreshKey(Created)
      /\ identity.keys \in [{Operational} -> KeyState]
      /\ identity = [current |-> identity.current, seq |-> identity.seq,
                     keys |-> identity.keys]
  BY DocumentAssumption DEF IdentityInit, FromDocument, FreshKey, KeyState, Status
<1>2. IdentityTypeOK
  BY <1>1, DocumentAssumption DEF IdentityTypeOK, IsIdentity
<1>3. OpenEnded
  BY <1>1 DEF OpenEnded, FreshKey
<1>4. NoTripleOverlap
  BY <1>1 DEF NoTripleOverlap
<1>5. ASSUME NEW t \in Times, t >= Created
      PROVE  Verifies(identity, Operational, t)
  BY <1>1, <1>5 DEF Verifies, InWindow, FreshKey
<1>6. NoGap
  BY <1>1, <1>5 DEF NoGap
<1>. QED
  BY <1>2, <1>3, <1>4, <1>6 DEF IdentityInv

LEMMA RotationTypes ==
    ASSUME IdentityTypeOK, NEW r \in RotationRecord(Times, Sequences), ApplyRotation(r)
    PROVE  IdentityTypeOK'
<1>1. Times \subseteq Int /\ Sequences \subseteq Int
  BY DocumentAssumption DEF IdentityTypeOK, IsIdentity, Sequences
<1>2. r \in RotationRecord(Int, Int)
  BY <1>1 DEF RotationRecord
<1>. QED
  BY <1>2, RotatedIsIdentity DEF IdentityTypeOK, ApplyRotation, RotationAdmitted

LEMMA StatusTypes ==
    ASSUME IdentityTypeOK, NEW r \in StatusRecord(Times, Sequences), ApplyKeyStatus(r)
    PROVE  IdentityTypeOK'
<1>1. Times \subseteq Int /\ Sequences \subseteq Int
  BY DocumentAssumption DEF IdentityTypeOK, IsIdentity, Sequences
<1>2. r \in StatusRecord(Int, Int)
  BY <1>1 DEF StatusRecord
<1>. QED
  BY <1>2, MarkedIsIdentity DEF IdentityTypeOK, ApplyKeyStatus

-----------------------------------------------------------------------------
(***************************************************************************)
(* A rotation shortens the window of the previous key or leaves one that   *)
(* is not active; a status takes a key out.  Nothing else changes, so no   *)
(* known key verifies more than it did.                                    *)
(***************************************************************************)
LEMMA RotationShrinks ==
    ASSUME IdentityTypeOK, OpenEnded, NEW r \in RotationRecord(Times, Sequences),
           ApplyRotation(r), NEW k \in DOMAIN identity.keys, NEW t \in Int,
           Verifies(identity', k, t)
    PROVE  Verifies(identity, k, t)
<1>0. RotationChange(r)
  BY RotationEffect
<1>1. CASE k # r.previous
  BY <1>1, <1>0 DEF RotationChange, Verifies
<1>2. CASE k = r.previous
  <2>1. /\ identity'.keys[k].status = identity.keys[k].status
        /\ identity'.keys[k].from = identity.keys[k].from
    BY <1>2, <1>0 DEF RotationChange, IdentityTypeOK, IsIdentity, KeyState
  <2>2. identity.keys[k].status = "active" /\ k = identity.current
    BY <1>2, <2>1, <1>0 DEF RotationChange, Verifies
  <2>3. identity.keys[k].until = NoTime
    BY <2>2 DEF OpenEnded
  <2>. QED
    BY <2>1, <2>2, <2>3 DEF Verifies, InWindow
<1>. QED
  BY <1>1, <1>2

LEMMA StatusShrinks ==
    ASSUME IdentityTypeOK, NEW r \in StatusRecord(Times, Sequences),
           ApplyKeyStatus(r), NEW k \in DOMAIN identity.keys, NEW t \in Int,
           Verifies(identity', k, t)
    PROVE  Verifies(identity, k, t)
<1>0. StatusChange(r)
  BY StatusEffect
<1>. QED
  BY <1>0 DEF StatusChange, Verifies

-----------------------------------------------------------------------------
LEMMA RotationStep ==
    ASSUME IdentityInv, NEW r \in RotationRecord(Times, Sequences), ApplyRotation(r)
    PROVE  IdentityInv'
<1>0. RotationChange(r)
  BY RotationEffect DEF IdentityInv
<1>. USE DEF IdentityInv
<1>1. IdentityTypeOK'
  BY RotationTypes
<1>2. \A k \in DOMAIN identity.keys : \A t \in Int :
         Verifies(identity', k, t) => Verifies(identity, k, t)
  BY RotationShrinks
<1>3. /\ r.from \in Int /\ r.overlap \in Int /\ r.overlap >= r.from
      /\ ~OtherOverlap(identity, r.previous, r.from)
  BY <1>0, KeyAssumption
     DEF RotationChange, ApplyRotation, RotationAdmitted, RotationWellFormed,
         NextIsNew, OverlapBounded
<1>4. OpenEnded'
  <2>1. NoTime \notin Int
    BY KeyAssumption
  <2>2. identity'.keys[r.previous].until = r.overlap
    BY <1>0 DEF RotationChange, IdentityTypeOK, IsIdentity, KeyState
  <2>3. identity'.keys[r.next].until = NoTime
    BY <1>0 DEF RotationChange, FreshKey
  <2>4. ASSUME NEW k \in DOMAIN identity'.keys,
               identity'.keys[k].status = "active"
        PROVE  identity'.keys[k].until = NoTime <=> k = identity'.current
    <3>1. CASE k = r.next
      BY <1>0, <2>3, <3>1 DEF RotationChange
    <3>2. CASE k = r.previous
      BY <1>0, <1>3, <2>1, <2>2, <3>2 DEF RotationChange
    <3>3. CASE k # r.next /\ k # r.previous
      BY <1>0, <2>4, <3>3 DEF RotationChange, OpenEnded
    <3>. QED
      BY <3>1, <3>2, <3>3
  <2>. QED
    BY <2>4 DEF OpenEnded
<1>5. NoTripleOverlap'
  <2>. SUFFICES ASSUME NEW k1 \in DOMAIN identity'.keys,
                       NEW k2 \in DOMAIN identity'.keys,
                       NEW k3 \in DOMAIN identity'.keys,
                       k1 # k2, k1 # k3, k2 # k3, NEW t \in Times,
                       \A k \in {k1, k2, k3} :
                          Verifies(identity', k, t) /\ Verifies(identity', k, t + 1)
                PROVE  FALSE
    BY DEF NoTripleOverlap
  <2>1. t \in Int /\ t + 1 \in Int
    BY DocumentAssumption
  <2>2. CASE r.next \notin {k1, k2, k3}
    <3>1. {k1, k2, k3} \subseteq DOMAIN identity.keys
      BY <2>2, <1>0 DEF RotationChange
    <3>2. \A k \in {k1, k2, k3} :
             Verifies(identity, k, t) /\ Verifies(identity, k, t + 1)
      BY <1>2, <2>1, <3>1
    <3>. QED
      BY <3>1, <3>2 DEF NoTripleOverlap
  <2>3. CASE r.next \in {k1, k2, k3}
    <3>1. PICK k \in {k1, k2, k3} : k # r.next /\ k # r.previous
      BY <2>3
    <3>2. /\ k \in DOMAIN identity.keys /\ k # identity.current
          /\ identity'.keys[k] = identity.keys[k]
      BY <3>1, <1>0 DEF RotationChange
    <3>3. Verifies(identity', k, t + 1) /\ Verifies(identity', r.next, t)
      BY <2>3
    <3>4. /\ identity.keys[k].status = "active"
          /\ identity.keys[k].until # NoTime
          /\ t + 1 <= identity.keys[k].until
      BY <3>2, <3>3 DEF Verifies, InWindow, OpenEnded
    <3>5. identity.keys[k].until \in Int
      BY <3>2, <3>4 DEF IdentityTypeOK, IsIdentity, KeyState
    <3>6. ~(identity.keys[k].until > r.from)
      BY <1>3, <3>1, <3>2, <3>4 DEF OtherOverlap
    <3>7. t >= r.from
      BY <3>3, <1>0 DEF RotationChange, Verifies, InWindow, FreshKey
    <3>. QED
      BY <1>3, <2>1, <3>4, <3>5, <3>6, <3>7
  <2>. QED
    BY <2>2, <2>3
<1>6. NoGap'
  <2>. SUFFICES ASSUME \A k \in DOMAIN identity'.keys :
                          identity'.keys[k].status = "active",
                       NEW t \in Times, t >= Created
                PROVE  \E k \in DOMAIN identity'.keys : Verifies(identity', k, t)
    BY DEF NoGap
  <2>1. t \in Int
    BY DocumentAssumption
  <2>2. \A k \in DOMAIN identity.keys : identity.keys[k].status = "active"
    <3>1. identity'.keys[r.previous].status = identity.keys[r.previous].status
      BY <1>0 DEF RotationChange, IdentityTypeOK, IsIdentity, KeyState
    <3>2. \A k \in DOMAIN identity.keys : k \in DOMAIN identity'.keys
      BY <1>0 DEF RotationChange
    <3>3. \A k \in DOMAIN identity.keys :
             identity'.keys[k].status = identity.keys[k].status
      BY <1>0, <3>1 DEF RotationChange
    <3>. QED
      BY <3>2, <3>3
  <2>3. CASE t >= r.from
    <3>1. Verifies(identity', r.next, t)
      BY <2>3, <1>0 DEF RotationChange, Verifies, InWindow, FreshKey
    <3>. QED
      BY <3>1 DEF Verifies
  <2>4. CASE t < r.from
    <3>1. PICK k \in DOMAIN identity.keys : Verifies(identity, k, t)
      BY <2>2 DEF NoGap
    <3>2. CASE k # r.previous
      <4>1. Verifies(identity', k, t)
        BY <3>1, <3>2, <1>0 DEF RotationChange, Verifies
      <4>. QED
        BY <4>1 DEF Verifies
    <3>3. CASE k = r.previous
      <4>1. /\ identity'.keys[k].status = identity.keys[k].status
            /\ identity'.keys[k].from = identity.keys[k].from
            /\ identity'.keys[k].until = r.overlap
            /\ k \in DOMAIN identity'.keys
        BY <3>3, <1>0 DEF RotationChange, IdentityTypeOK, IsIdentity, KeyState
      <4>2. t <= r.overlap
        BY <1>3, <2>1, <2>4
      <4>3. Verifies(identity', k, t)
        BY <3>1, <4>1, <4>2 DEF Verifies, InWindow
      <4>. QED
        BY <4>1, <4>3
    <3>. QED
      BY <3>2, <3>3
  <2>. QED
    BY <1>3, <2>1, <2>3, <2>4
<1>. QED
  BY <1>1, <1>4, <1>5, <1>6

LEMMA StatusStep ==
    ASSUME IdentityInv, NEW r \in StatusRecord(Times, Sequences), ApplyKeyStatus(r)
    PROVE  IdentityInv'
<1>0. StatusChange(r)
  BY StatusEffect DEF IdentityInv
<1>. USE DEF IdentityInv
<1>1. IdentityTypeOK'
  BY StatusTypes
<1>2. OpenEnded'
  BY <1>0 DEF StatusChange, OpenEnded
<1>3. NoTripleOverlap'
  <2>1. \A k \in DOMAIN identity.keys : \A t \in Int :
           Verifies(identity', k, t) => Verifies(identity, k, t)
    BY StatusShrinks
  <2>2. \A t \in Times : t \in Int /\ t + 1 \in Int
    BY DocumentAssumption
  <2>3. DOMAIN identity'.keys = DOMAIN identity.keys
    BY <1>0 DEF StatusChange
  <2>. QED
    BY <2>1, <2>2, <2>3 DEF NoTripleOverlap
<1>4. NoGap'
  <2>1. r.key \in DOMAIN identity'.keys /\ identity'.keys[r.key].status # "active"
    BY <1>0 DEF StatusChange
  <2>. QED
    BY <2>1 DEF NoGap
<1>. QED
  BY <1>1, <1>2, <1>3, <1>4

LEMMA IdentityNextInv == IdentityInv /\ [IdentityNext]_identity => IdentityInv'
<1>. SUFFICES ASSUME IdentityInv, [IdentityNext]_identity PROVE IdentityInv'
  OBVIOUS
<1>1. CASE UNCHANGED identity
  BY <1>1 DEF IdentityInv, IdentityTypeOK, OpenEnded, NoTripleOverlap, NoGap
<1>. QED
  BY <1>1, RotationStep, StatusStep DEF IdentityNext

-----------------------------------------------------------------------------
(***************************************************************************)
(* The inductive invariant holds in every reachable state.                 *)
(***************************************************************************)
THEOREM IdentityInductive == IdentitySpec => []IdentityInv
BY IdentityInitInv, IdentityNextInv, PTL DEF IdentitySpec

(***************************************************************************)
(* IdentityState is well typed and the root key is never operational.      *)
(***************************************************************************)
THEOREM IdentityTypeCorrect == IdentitySpec => []IdentityTypeOK
<1>1. IdentityInv => IdentityTypeOK
  BY DEF IdentityInv
<1>. QED
  BY <1>1, IdentityInductive, PTL

(***************************************************************************)
(* Rotations, recoveries and statuses never let three keys verify together *)
(* for longer than one second (ensure_no_other_overlap).                   *)
(***************************************************************************)
THEOREM OverlapsAreBounded == IdentitySpec => []NoTripleOverlap
<1>1. IdentityInv => NoTripleOverlap
  BY DEF IdentityInv
<1>. QED
  BY <1>1, IdentityInductive, PTL

(***************************************************************************)
(* While no key was revoked, every time since the document has a key that  *)
(* verifies (apply_rotation).                                              *)
(***************************************************************************)
THEOREM RotationsLeaveNoGap == IdentitySpec => []NoGap
<1>1. IdentityInv => NoGap
  BY DEF IdentityInv
<1>. QED
  BY <1>1, IdentityInductive, PTL

(***************************************************************************)
(* No lifecycle record makes a known key verify an envelope it did not     *)
(* verify before (apply_rotation, apply_key_status).                       *)
(***************************************************************************)
THEOREM NothingIsRevalidated == IdentitySpec => NeverRevalidated
<1>. DEFINE Shrinks == \A k \in DOMAIN identity.keys : \A t \in Times :
                          (Verifies(identity, k, t))' => Verifies(identity, k, t)
<1>1. IdentityInv /\ [IdentityNext]_identity => [Shrinks]_identity
  <2>. SUFFICES ASSUME IdentityInv, IdentityNext,
                       NEW k \in DOMAIN identity.keys, NEW t \in Times,
                       Verifies(identity', k, t)
                PROVE  Verifies(identity, k, t)
    BY DEF Verifies
  <2>1. t \in Int
    BY DocumentAssumption
  <2>. QED
    BY <2>1, RotationShrinks, StatusShrinks DEF IdentityNext, IdentityInv
<1>. QED
  BY <1>1, IdentityInductive, PTL DEF IdentitySpec, NeverRevalidated

(***************************************************************************)
(* The order in which a compaction writes a finite set lists all of it.    *)
(***************************************************************************)
LEMMA OrderOfLists ==
    ASSUME NEW S \in SUBSET MsgId
    PROVE  /\ Cardinality(S) \in Nat
           /\ IsOrder(OrderOf(S), S)
<1>1. IsFiniteSet(S)
  BY SizeAssumption, FS_Subset
<1>2. Cardinality(S) \in Nat /\ ExistsBijection(1 .. Cardinality(S), S)
  BY <1>1, FS_CardinalityType
<1>3. PICK order \in Bijection(1 .. Cardinality(S), S) : TRUE
  BY <1>2 DEF ExistsBijection
<1>4. IsOrder(order, S) /\ order \in [1 .. Cardinality(S) -> S]
  BY <1>3 DEF Bijection, Injection, Surjection, IsOrder, IsInjective
<1>. QED
  BY <1>2, <1>4 DEF OrderOf

(***************************************************************************)
(* The file a compaction writes is well formed, holds every live record    *)
(* and holds it on stable storage.                                         *)
(***************************************************************************)
LEMMA CompactionKeepsLive ==
    ASSUME TypeOK, SeenInWindow, NEW t \in Int
    PROVE  /\ GoodFile(Synced(Compacted(t)))
           /\ \A m \in Live(t) : OnStableStorage(m, Synced(Compacted(t)))
<1>. DEFINE S == Live(t)
            C == Compacted(t)
            n == Cardinality(S)
<1>1. S \in SUBSET MsgId /\ S \subseteq DOMAIN seen
  BY DEF TypeOK, Live
<1>2. n \in Nat /\ IsOrder(OrderOf(S), S)
  BY <1>1, OrderOfLists
<1>3. \A i \in 1 .. n : OrderOf(S)[i] \in S
  BY <1>2 DEF IsOrder
<1>4. /\ C \in Seq(Line)
      /\ Len(C) = n
      /\ \A i \in 1 .. n : C[i] = [id |-> OrderOf(S)[i], at |-> seen[OrderOf(S)[i]]]
  <2>1. C = [i \in 1 .. n |-> [id |-> OrderOf(S)[i], at |-> seen[OrderOf(S)[i]]]]
    BY DEF Compacted
  <2>2. \A i \in 1 .. n : [id |-> OrderOf(S)[i], at |-> seen[OrderOf(S)[i]]] \in Line
    BY <1>1, <1>3 DEF Line, TypeOK
  <2>. HIDE DEF C, S, n
  <2>. QED
    BY <1>2, <2>1, <2>2
<1>5. GoodFile(Synced(C))
  <2>1. \A i \in 1 .. n : Timely(C[i].id, C[i].at)
    BY <1>1, <1>3, <1>4 DEF SeenInWindow
  <2>. HIDE DEF C, S, n
  <2>. QED
    BY <1>2, <1>4, <2>1 DEF GoodFile, Synced, File
<1>6. ASSUME NEW m \in S
      PROVE  OnStableStorage(m, Synced(C))
  <2>1. PICK i \in 1 .. n : OrderOf(S)[i] = m
    BY <1>2, <1>6 DEF IsOrder
  <2>. HIDE DEF C, S, n
  <2>. QED
    BY <1>4, <2>1 DEF OnStableStorage, Synced
<1>. QED
  BY <1>5, <1>6

(***************************************************************************)
(* A successful append puts its record on stable storage with all that was *)
(* there; a failed one loses nothing that was there.                       *)
(***************************************************************************)
LEMMA AppendKeepsFile ==
    ASSUME NEW file, GoodFile(file), NEW m \in MsgId, NEW t \in Int,
           Timely(m, t)
    PROVE  /\ GoodFile(Appended(file, m, t))
           /\ OnStableStorage(m, Appended(file, m, t))
           /\ \A x : OnStableStorage(x, file)
                    => OnStableStorage(x, Appended(file, m, t))
<1>. DEFINE line == [id |-> m, at |-> t]
            new == Append(file.lines, line)
<1>1. /\ file.lines \in Seq(Line) /\ line \in Line
      /\ file.synced \in Nat /\ file.synced <= Len(file.lines)
      /\ file.torn \in {"none", "tail", "sealed"}
  BY DEF GoodFile, File, Line
<1>2. /\ new \in Seq(Line)
      /\ Len(new) = Len(file.lines) + 1
      /\ \A i \in 1 .. Len(file.lines) : new[i] = file.lines[i]
      /\ new[Len(file.lines) + 1] = line
  BY <1>1
<1>3. \A i \in 1 .. Len(new) : Timely(new[i].id, new[i].at)
  <2>1. \A i \in 1 .. Len(file.lines) : Timely(new[i].id, new[i].at)
    BY <1>1, <1>2 DEF GoodFile
  <2>2. Timely(new[Len(file.lines) + 1].id, new[Len(file.lines) + 1].at)
    BY <1>1, <1>2
  <2>. QED
    BY <1>1, <1>2, <2>1, <2>2
<1>4. Appended(file, m, t) =
        [lines |-> new, synced |-> Len(file.lines) + 1,
         torn |-> IF file.torn = "none" THEN "none" ELSE "sealed"]
  BY DEF Appended
<1>. HIDE DEF new
<1>5. GoodFile(Appended(file, m, t))
  BY <1>1, <1>2, <1>3, <1>4 DEF GoodFile, File
<1>6. OnStableStorage(m, Appended(file, m, t))
  BY <1>1, <1>2, <1>4 DEF OnStableStorage
<1>7. ASSUME NEW x, OnStableStorage(x, file)
      PROVE  OnStableStorage(x, Appended(file, m, t))
  BY <1>1, <1>2, <1>4, <1>7 DEF OnStableStorage
<1>. QED
  BY <1>5, <1>6, <1>7

LEMMA FailedAppendKeepsFile ==
    ASSUME NEW file, GoodFile(file), NEW m \in MsgId, NEW t \in Int,
           Timely(m, t), NEW f \in FailedAppends(file, m, t)
    PROVE  /\ GoodFile(f)
           /\ \A x : OnStableStorage(x, file) => OnStableStorage(x, f)
           /\ Len(f.lines) >= Len(file.lines)
<1>. DEFINE line == [id |-> m, at |-> t]
            new == Append(file.lines, line)
<1>1. /\ file.lines \in Seq(Line) /\ line \in Line
      /\ file.synced \in Nat /\ file.synced <= Len(file.lines)
      /\ file.torn \in {"none", "tail", "sealed"}
      /\ file = [lines |-> file.lines, synced |-> file.synced, torn |-> file.torn]
  BY DEF GoodFile, File, Line
<1>2. CASE f = file
  BY <1>1, <1>2
<1>3. CASE f = [file EXCEPT !.torn = IF @ = "none" THEN "tail" ELSE @]
  <2>1. /\ f \in File /\ f.lines = file.lines /\ f.synced = file.synced
    BY <1>1, <1>3 DEF File
  <2>. QED
    BY <1>1, <2>1 DEF GoodFile, OnStableStorage
<1>4. CASE f = [file EXCEPT !.lines = Append(@, line),
                            !.torn = IF @ = "none" THEN "none" ELSE "sealed"]
  <2>1. /\ new \in Seq(Line)
        /\ Len(new) = Len(file.lines) + 1
        /\ \A i \in 1 .. Len(file.lines) : new[i] = file.lines[i]
        /\ new[Len(file.lines) + 1] = line
    BY <1>1
  <2>2. f.lines = new /\ f.synced = file.synced
    BY <1>1, <1>4
  <2>3. f \in File
    BY <1>1, <1>4, <2>1 DEF File
  <2>4. \A i \in 1 .. Len(new) : Timely(new[i].id, new[i].at)
    <3>1. \A i \in 1 .. Len(file.lines) : Timely(new[i].id, new[i].at)
      BY <1>1, <2>1 DEF GoodFile
    <3>2. Timely(new[Len(file.lines) + 1].id, new[Len(file.lines) + 1].at)
      BY <1>1, <2>1
    <3>. QED
      BY <1>1, <2>1, <3>1, <3>2
  <2>. HIDE DEF new
  <2>5. GoodFile(f)
    BY <1>1, <2>1, <2>2, <2>3, <2>4 DEF GoodFile
  <2>6. \A x : OnStableStorage(x, file) => OnStableStorage(x, f)
    BY <1>1, <2>1, <2>2 DEF OnStableStorage
  <2>. QED
    BY <1>1, <2>1, <2>2, <2>5, <2>6
<1>. QED
  BY <1>2, <1>3, <1>4 DEF FailedAppends

(***************************************************************************)
(* A crash keeps what is on stable storage.                                *)
(***************************************************************************)
LEMMA CrashKeepsFile ==
    ASSUME NEW file, GoodFile(file), NEW f \in AfterCrash(file)
    PROVE  /\ GoodFile(f)
           /\ \A x : OnStableStorage(x, file) => OnStableStorage(x, f)
<1>1. /\ file.lines \in Seq(Line)
      /\ file.synced \in Nat /\ file.synced <= Len(file.lines)
  BY DEF GoodFile, File
<1>2. PICK k \in file.synced .. Len(file.lines), torn \in {"none", "tail", "sealed"} :
        f = [lines |-> SubSeq(file.lines, 1, k), synced |-> k, torn |-> torn]
  BY DEF AfterCrash
<1>. DEFINE kept == SubSeq(file.lines, 1, k)
<1>3. /\ kept \in Seq(Line) /\ Len(kept) = k /\ k \in Nat
      /\ \A i \in 1 .. k : kept[i] = file.lines[i]
  BY <1>1
<1>4. f.lines = kept /\ f.synced = k /\ f \in File
  BY <1>2, <1>3 DEF File
<1>. HIDE DEF kept
<1>. QED
  BY <1>1, <1>3, <1>4 DEF GoodFile, OnStableStorage

\* What a crash leaves of a file is all on stable storage.
LEMMA CrashLeavesSynced ==
    ASSUME NEW file, GoodFile(file), NEW f \in AfterCrash(file)
    PROVE  f.synced = Len(f.lines)
<1>1. /\ file.lines \in Seq(Line)
      /\ file.synced \in Nat /\ file.synced <= Len(file.lines)
  BY DEF GoodFile, File
<1>2. PICK k \in file.synced .. Len(file.lines), torn \in {"none", "tail", "sealed"} :
        f = [lines |-> SubSeq(file.lines, 1, k), synced |-> k, torn |-> torn]
  BY DEF AfterCrash
<1>3. Len(SubSeq(file.lines, 1, k)) = k
  BY <1>1
<1>. QED
  BY <1>2, <1>3

\* Nothing is left of an empty file.
LEMMA NothingAfterCrash == \A f \in AfterCrash(EmptyFile) : f = EmptyFile
<1>. SUFFICES ASSUME NEW f \in AfterCrash(EmptyFile) PROVE f = EmptyFile
  OBVIOUS
<1>1. PICK k \in 0 .. Len(<<>>), torn \in {"none", "tail", "sealed"} :
        /\ f = [lines |-> SubSeq(<<>>, 1, k), synced |-> k, torn |-> torn]
        /\ \/ torn = "none"
           \/ k < Len(<<>>)
  BY DEF AfterCrash, EmptyFile
<1>2. k = 0 /\ SubSeq(<<>>, 1, 0) = <<>> /\ torn = "none"
  BY <1>1
<1>. QED
  BY <1>1, <1>2 DEF EmptyFile

\* What is on stable storage is among the lines.
LEMMA StoredIsWritten ==
    ASSUME NEW file, GoodFile(file), NEW m, OnStableStorage(m, file)
    PROVE  m \in IdsOf(file.lines)
BY DEF OnStableStorage, IdsOf, GoodFile, File

(***************************************************************************)
(* The table that open() rebuilds holds every line of the file.            *)
(***************************************************************************)
LEMMA OpenRebuildsSeen ==
    ASSUME NEW file, GoodFile(file)
    PROVE  LET table == SeenFrom(file.lines) IN
           /\ DOMAIN table \subseteq MsgId
           /\ table \in [DOMAIN table -> Int]
           /\ \A m \in DOMAIN table : Timely(m, table[m])
           /\ \A x : OnStableStorage(x, file) => x \in DOMAIN table
<1>. DEFINE L == file.lines
            at(m) == CHOOSE i \in 1 .. Len(L) : L[i].id = m
<1>1. L \in Seq(Line) /\ Len(L) \in Nat
  BY DEF GoodFile, File
<1>2. \A i \in 1 .. Len(L) : L[i].id \in MsgId /\ L[i].at \in Int
  <2>1. \A i \in 1 .. Len(L) : L[i] \in Line
    BY <1>1
  <2>. QED
    BY <2>1 DEF Line
<1>3. \A m \in IdsOf(L) : at(m) \in 1 .. Len(L) /\ L[at(m)].id = m
  BY DEF IdsOf
<1>4. DOMAIN SeenFrom(L) = IdsOf(L) /\ \A m \in IdsOf(L) : SeenFrom(L)[m] = L[at(m)].at
  BY DEF SeenFrom
<1>5. \A m \in IdsOf(L) : Timely(m, L[at(m)].at)
  <2>. SUFFICES ASSUME NEW m \in IdsOf(L)
                PROVE  Timely(m, L[at(m)].at)
    OBVIOUS
  <2>. HIDE DEF at
  <2>. QED
    BY <1>3 DEF GoodFile
<1>6. \A x : OnStableStorage(x, file) => x \in IdsOf(L)
  BY <1>1 DEF OnStableStorage, IdsOf, GoodFile, File
<1>7. IdsOf(L) \subseteq MsgId
  BY <1>2 DEF IdsOf
<1>8. \A m \in IdsOf(L) : SeenFrom(L)[m] \in Int
  BY <1>2, <1>3, <1>4
<1>9. SeenFrom(L) \in [IdsOf(L) -> Int]
  BY <1>8 DEF SeenFrom
<1>. HIDE DEF at
<1>. QED
  BY <1>4, <1>5, <1>6, <1>7, <1>9

-----------------------------------------------------------------------------
(***************************************************************************)
(* The initial state satisfies the invariant.                              *)
(***************************************************************************)
LEMMA InitSound == Init => Sound
<1>. SUFFICES ASSUME Init PROVE Sound
  OBVIOUS
<1>1. EmptyFile \in File /\ Len(EmptyFile.lines) = 0 /\ EmptyFile.synced = 0
  BY DEF EmptyFile, File
<1>2. TypeOK
  <2>1. DOMAIN seen = {} /\ seen \in [DOMAIN seen -> Int]
    BY DEF Init
  <2>2. 0 \in Int /\ fresh \in [MsgId -> Nat] /\ takenBack \in [MsgId -> Nat]
    BY DEF Init
  <2>. QED
    BY <1>1, <2>1, <2>2 DEF Init, TypeOK
<1>3. GoodFiles
  BY <1>1 DEF Init, GoodFiles, GoodFile
<1>4. /\ SeenInWindow /\ HandleOnPath /\ NothingIsEmpty
      /\ LostWereFresh /\ OrphanedHandleIsFull
  BY DEF Init, SeenInWindow, HandleOnPath, NothingIsEmpty, LostWereFresh,
         OrphanedHandleIsFull
<1>5. Remembered
  BY DEF Init, Remembered, StillFresh
<1>. QED
  BY <1>2, <1>3, <1>4, <1>5 DEF Sound

(***************************************************************************)
(* What is kept stays kept: the part of the step lemmas that is about the  *)
(* messages already answered, for a step that changes neither the answers  *)
(* nor the clock.                                                          *)
(***************************************************************************)
LEMMA KeptStaysRemembered ==
    ASSUME Remembered, UNCHANGED <<now, historyVars>>,
           \A m \in MsgId : StillInWindow(m) /\ Kept(m) => Kept(m)'
    PROVE  Remembered'
BY DEF Remembered, StillInWindow, StillFresh, historyVars

(***************************************************************************)
(* A time at which the clock gate passed m: of now, or an older one that a *)
(* caller read before it took the lock of the store.                       *)
(***************************************************************************)
Reading(m, t) == t \in Int /\ t <= now /\ ClockAccepts(m, t)

LEMMA ReadingIsTimely ==
    ASSUME NEW m \in MsgId, NEW t \in Int, ClockAccepts(m, t)
    PROVE  Timely(m, t)
<1>1. Issued[m] \in Int /\ Expires[m] \in Int /\ Skew \in Nat /\ Lifetime \in Nat
  BY ClockAssumption, PolicyAssumption
<1>2. Expires[m] - Issued[m] <= Lifetime /\ Issued[m] <= t + Skew
  BY DEF ClockAccepts, InTime
<1>. QED
  BY <1>1, <1>2 DEF Timely

(***************************************************************************)
(* Pruning at the time of the check, or at an older one, keeps every       *)
(* message still in its window: the arithmetic of the retention interval.  *)
(***************************************************************************)
LEMMA PruningKeepsWindow ==
    ASSUME TypeOK, SeenInWindow, NEW m \in DOMAIN seen, StillInWindow(m),
           NEW t \in Int, t <= now
    PROVE  m \in Live(t)
<1>1. /\ m \in MsgId /\ seen[m] \in Int /\ now \in Int
      /\ Expires[m] \in Int /\ Skew \in Nat /\ Lifetime \in Nat
  BY ClockAssumption, PolicyAssumption DEF TypeOK
<1>2. Expires[m] <= seen[m] + Skew + Lifetime /\ Expires[m] >= now - Skew
  BY DEF SeenInWindow, StillInWindow, Timely
<1>3. seen[m] >= t - Retention
  BY <1>1, <1>2, ClockAssumption
<1>. QED
  BY <1>3 DEF Live

(***************************************************************************)
(* The pruned table is a table, and so is the table with one more entry.   *)
(***************************************************************************)
LEMMA PrunedTable ==
    ASSUME TypeOK, SeenInWindow, NEW m \in MsgId, NEW t \in Int,
           Timely(m, t)
    PROVE  /\ DOMAIN Pruned(t) = Live(t)
           /\ Live(t) \subseteq MsgId
           /\ Pruned(t) \in [Live(t) -> Int]
           /\ \A x \in Live(t) : Timely(x, Pruned(t)[x])
           /\ DOMAIN With(Pruned(t), m, t) = Live(t) \cup {m}
           /\ With(Pruned(t), m, t) \in [Live(t) \cup {m} -> Int]
           /\ \A x \in Live(t) \cup {m} :
                  Timely(x, With(Pruned(t), m, t)[x])
<1>1. /\ DOMAIN Pruned(t) = Live(t)
      /\ Live(t) \subseteq DOMAIN seen
      /\ \A x \in Live(t) : Pruned(t)[x] = seen[x]
  BY DEF Pruned, Live
<1>2. \A x \in DOMAIN seen : seen[x] \in Int
  BY DEF TypeOK
<1>3. Pruned(t) \in [Live(t) -> Int]
  BY <1>1, <1>2 DEF Pruned
<1>4. \A x \in Live(t) : Timely(x, Pruned(t)[x])
  BY <1>1 DEF SeenInWindow
<1>5. /\ DOMAIN With(Pruned(t), m, t) = Live(t) \cup {m}
      /\ \A x \in Live(t) \cup {m} :
            With(Pruned(t), m, t)[x] = IF x = m THEN t ELSE Pruned(t)[x]
  BY <1>1 DEF With
<1>6. With(Pruned(t), m, t) \in [Live(t) \cup {m} -> Int]
  BY <1>1, <1>3 DEF With
<1>. QED
  BY <1>1, <1>3, <1>4, <1>5, <1>6 DEF TypeOK

-----------------------------------------------------------------------------
(***************************************************************************)
(* One lemma per action of the store.                                      *)
(***************************************************************************)
LEMMA TickStep == Sound /\ Tick => Sound'
<1>. SUFFICES ASSUME Sound, Tick PROVE Sound'
  OBVIOUS
<1>. USE DEF Sound, Tick, storeVars, directoryVars, historyVars
<1>1. TypeOK'
  BY DEF TypeOK
<1>2. /\ GoodFiles' /\ SeenInWindow' /\ HandleOnPath' /\ NothingIsEmpty'
      /\ LostWereFresh' /\ OrphanedHandleIsFull'
  BY DEF GoodFiles, GoodFile, SeenInWindow, HandleOnPath, NothingIsEmpty,
         LostWereFresh, OrphanedHandleIsFull, NeedsCompaction
<1>3. ASSUME NEW m \in MsgId, StillFresh(m)', StillInWindow(m)'
      PROVE  Kept(m)'
  <2>1. Expires[m] \in Int /\ now \in Int /\ Skew \in Nat
    BY ClockAssumption, PolicyAssumption DEF TypeOK
  <2>2. StillInWindow(m) /\ StillFresh(m)
    BY <1>3, <2>1 DEF StillInWindow, StillFresh
  <2>. QED
    BY <1>3, <2>2 DEF Remembered, Kept, OnStableStorage
<1>. QED
  BY <1>1, <1>2, <1>3 DEF Remembered

LEMMA OpenStep == Sound /\ Open => Sound'
<1>. SUFFICES ASSUME Sound, Open PROVE Sound'
  OBVIOUS
<1>. USE DEF Sound, Opened, directoryVars, historyVars
<1>1. Opened /\ (UNCHANGED directoryVars \/ DirectorySynced)
  BY DEF Open
<1>2. GoodFile(disk) /\ disk \in File
  BY DEF GoodFiles, GoodFile
<1>3. /\ DOMAIN seen' \subseteq MsgId
      /\ seen' \in [DOMAIN seen' -> Int]
      /\ \A m \in DOMAIN seen' : Timely(m, seen'[m])
      /\ \A x : OnStableStorage(x, disk) => x \in DOMAIN seen'
  BY <1>1, <1>2, OpenRebuildsSeen
<1>4. older' \subseteq older /\ inherited' \subseteq inherited
  BY <1>1 DEF DirectorySynced
<1>5. TypeOK'
  BY <1>1, <1>3, <1>4 DEF TypeOK, DirectorySynced
<1>6. GoodFiles' /\ SeenInWindow'
  BY <1>1, <1>3, <1>4 DEF GoodFiles, GoodFile, SeenInWindow
<1>7. ~open /\ older = {} /\ open' /\ entry' # "absent" /\ ~unlinked' /\ inode' = disk'
  BY <1>1 DEF HandleOnPath, Open, DirectorySynced
<1>8. HandleOnPath' /\ NothingIsEmpty' /\ OrphanedHandleIsFull'
  BY <1>4, <1>7 DEF HandleOnPath, NothingIsEmpty, OrphanedHandleIsFull
<1>9. LostWereFresh'
  BY <1>1 DEF LostWereFresh
<1>10. ASSUME NEW m \in MsgId, Kept(m) PROVE Kept(m)'
  BY <1>1, <1>3, <1>4, <1>10 DEF Kept, OnStableStorage
<1>11. Remembered'
  BY <1>1, <1>10, KeptStaysRemembered
<1>. QED
  BY <1>5, <1>6, <1>8, <1>9, <1>11

\* A created log whose directory was not synced.
LEMMA OpenFailsStep == Sound /\ OpenFails => Sound'
<1>. SUFFICES ASSUME Sound, OpenFails PROVE Sound'
  OBVIOUS
<1>. USE DEF Sound, OpenFails, historyVars
<1>1. TypeOK'
  BY DEF TypeOK
<1>2. /\ GoodFiles' /\ SeenInWindow' /\ HandleOnPath' /\ NothingIsEmpty'
      /\ LostWereFresh' /\ OrphanedHandleIsFull'
  BY DEF GoodFiles, GoodFile, SeenInWindow, HandleOnPath, NothingIsEmpty,
         LostWereFresh, OrphanedHandleIsFull, NeedsCompaction
<1>3. \A m \in MsgId : Kept(m) => Kept(m)'
  BY DEF Kept, OnStableStorage
<1>4. Remembered'
  BY <1>3, KeptStaysRemembered
<1>. QED
  BY <1>1, <1>2, <1>4

LEMMA ProcessEndsStep == Sound /\ ProcessEnds => Sound'
<1>. SUFFICES ASSUME Sound, ProcessEnds PROVE Sound'
  OBVIOUS
<1>. USE DEF Sound, ProcessEnds, historyVars
<1>1. TypeOK'
  <2>1. DOMAIN seen' = {} /\ seen' \in [DOMAIN seen' -> Int]
    OBVIOUS
  <2>. QED
    BY <2>1 DEF TypeOK
<1>2. /\ GoodFiles' /\ SeenInWindow' /\ HandleOnPath' /\ NothingIsEmpty'
      /\ LostWereFresh' /\ OrphanedHandleIsFull'
  BY DEF GoodFiles, GoodFile, SeenInWindow, HandleOnPath, NothingIsEmpty,
         LostWereFresh, OrphanedHandleIsFull
<1>3. \A m \in MsgId : Kept(m) => Kept(m)'
  BY DEF Kept, OnStableStorage
<1>4. Remembered'
  BY <1>3, KeptStaysRemembered
<1>. QED
  BY <1>1, <1>2, <1>4

(***************************************************************************)
(* A crash of the machine.  A file that the live handle replaced holds     *)
(* what it answered; what one of an earlier handle lacks, and what goes    *)
(* with the creation of the log, is taken back.                            *)
(***************************************************************************)
LEMMA MachineCrashStep == Sound /\ MachineCrash => Sound'
<1>. SUFFICES ASSUME Sound, MachineCrash PROVE Sound'
  OBVIOUS
<1>. USE DEF Sound, MachineCrash
<1>. DEFINE Back == \E file \in {disk} \cup older : disk' \in AfterCrash(file)
            Older == \E file \in inherited : disk' \in AfterCrash(file)
<1>1. EmptyFile \in File /\ GoodFile(EmptyFile)
  BY DEF EmptyFile, File, GoodFile
<1>2. GoodFile(disk')
  <2>1. ASSUME NEW file \in {disk} \cup older \cup inherited, disk' \in AfterCrash(file)
        PROVE  GoodFile(disk')
    BY <2>1, CrashKeepsFile DEF GoodFiles
  <2>. QED
    BY <1>1, <2>1
<1>3. /\ \/ UNCHANGED takenBack
         \/ takenBack' = LostWith(disk'.lines)
      /\ entry' \in {"absent", "synced"}
      /\ entry' = "absent" => disk' = EmptyFile
  <2>1. \/ UNCHANGED takenBack
        \/ takenBack' = LostWith(disk'.lines)
    BY DEF EmptyFile
  <2>2. entry' \in {"absent", "synced"}
    BY DEF TypeOK
  <2>3. entry = "absent" => older = {} /\ disk = EmptyFile
    BY DEF NothingIsEmpty, HandleOnPath
  <2>4. entry = "absent" /\ Back => disk' = EmptyFile
    BY <2>3, NothingAfterCrash
  <2>5. entry' = "absent" => disk' = EmptyFile
    BY <2>4
  <2>. QED
    BY <2>1, <2>2, <2>5
<1>4. \A m \in MsgId : takenBack'[m] \in {takenBack[m], fresh[m]}
  BY <1>3 DEF LostWith
<1>5. TypeOK'
  <2>1. DOMAIN seen' = {} /\ seen' \in [DOMAIN seen' -> Int]
    OBVIOUS
  <2>2. takenBack' \in [MsgId -> Nat]
    BY <1>3 DEF LostWith, TypeOK
  <2>3. disk' \in File
    BY <1>2 DEF GoodFile
  <2>. QED
    BY <1>3, <2>1, <2>2, <2>3 DEF TypeOK
<1>6. GoodFiles' /\ SeenInWindow' /\ HandleOnPath' /\ OrphanedHandleIsFull'
  BY <1>2 DEF GoodFiles, GoodFile, SeenInWindow, HandleOnPath, OrphanedHandleIsFull
<1>7. NothingIsEmpty'
  BY <1>3 DEF NothingIsEmpty
<1>8. LostWereFresh'
  BY <1>4 DEF LostWereFresh, TypeOK
<1>9. ASSUME NEW m \in MsgId, StillFresh(m)', StillInWindow(m)'
      PROVE  Kept(m)'
  <2>1. StillFresh(m) /\ StillInWindow(m)
    BY <1>4, <1>9 DEF StillFresh, StillInWindow, TypeOK
  <2>2. Kept(m)
    BY <2>1 DEF Remembered
  <2>3. OnStableStorage(m, disk')
    <3>1. CASE Back
      <4>1. PICK file \in {disk} \cup older : disk' \in AfterCrash(file)
        BY <3>1
      <4>2. GoodFile(file) /\ OnStableStorage(m, file)
        BY <2>2 DEF Kept, GoodFiles
      <4>. QED
        BY <4>1, <4>2, CrashKeepsFile
    <3>2. CASE ~Back
      <4>1. m \in IdsOf(disk.lines)
        BY <2>2, StoredIsWritten DEF Kept, GoodFiles
      <4>2. takenBack' = LostWith(disk'.lines)
        BY <3>2 DEF EmptyFile
      <4>3. takenBack'[m] # fresh[m]
        BY <1>9 DEF StillFresh, TypeOK
      <4>4. m \in IdsOf(disk'.lines)
        BY <4>1, <4>2, <4>3 DEF LostWith
      <4>5. disk'.synced = Len(disk'.lines)
        <5>1. CASE Older
          BY <5>1, CrashLeavesSynced DEF GoodFiles
        <5>2. CASE ~Older
          BY <3>2, <5>2 DEF EmptyFile
        <5>. QED
          BY <5>1, <5>2
      <4>. QED
        BY <4>4, <4>5 DEF IdsOf, OnStableStorage
    <3>. QED
      BY <3>1, <3>2
  <2>. QED
    BY <2>3 DEF Kept, OnStableStorage
<1>10. Remembered'
  BY <1>9 DEF Remembered
<1>. QED
  BY <1>5, <1>6, <1>7, <1>8, <1>10

LEMMA ReplayedStep ==
    ASSUME Sound, NEW m \in MsgId, NEW t, Reading(m, t), Replayed(m, t)
    PROVE  Sound'
<1>. USE DEF Sound, Replayed, directoryVars, historyVars
<1>1. t \in Int /\ t <= now /\ Timely(m, t)
  BY ReadingIsTimely DEF Reading
<1>2. /\ DOMAIN seen' = Live(t) /\ Live(t) \subseteq MsgId
      /\ seen' \in [DOMAIN seen' -> Int]
      /\ \A x \in DOMAIN seen' : Timely(x, seen'[x])
  BY <1>1, PrunedTable
<1>3. TypeOK'
  BY <1>2 DEF TypeOK
<1>4. /\ GoodFiles' /\ SeenInWindow' /\ HandleOnPath' /\ NothingIsEmpty'
      /\ LostWereFresh' /\ OrphanedHandleIsFull'
  BY <1>2 DEF GoodFiles, GoodFile, SeenInWindow, HandleOnPath, NothingIsEmpty,
              LostWereFresh, OrphanedHandleIsFull, NeedsCompaction
<1>5. ASSUME NEW x \in MsgId, StillInWindow(x), Kept(x) PROVE Kept(x)'
  <2>1. open => x \in Live(t)
    BY <1>5, PruningKeepsWindow DEF Kept, Reading
  <2>. QED
    BY <1>2, <1>5, <2>1 DEF Kept, OnStableStorage
<1>6. Remembered'
  BY <1>5, KeptStaysRemembered
<1>. QED
  BY <1>3, <1>4, <1>6

(***************************************************************************)
(* The four outcomes that write: what they share is that the files are     *)
(* good afterwards, that those the path may name hold every record still   *)
(* in its window, and that the handle is on the path again or is on a full *)
(* file.                                                                   *)
(***************************************************************************)
FilesKept ==
    /\ \A file \in {disk', inode'} \cup older' : GoodFile(file)
    /\ unlinked' \in BOOLEAN
    /\ ~unlinked' => inode' = disk' /\ older' = {}
    /\ unlinked' => Len(inode'.lines) >= CompactAt \/ Len(inode'.lines) + 1 > MaxLog
    /\ entry' \in {"unsynced", "synced"}
    /\ inherited' \subseteq inherited
    /\ \A x \in MsgId : StillInWindow(x) /\ Kept(x) =>
            \A file \in {disk'} \cup older' : OnStableStorage(x, file)

LEMMA RewrittenFiles ==
    ASSUME Sound, open, NEW t \in Int, t <= now,
           NEW file, GoodFile(file), Rewritten(file),
           \A x \in Live(t) : OnStableStorage(x, file)
    PROVE  FilesKept
<1>1. \A x \in MsgId : StillInWindow(x) /\ Kept(x) => x \in Live(t)
  BY PruningKeepsWindow DEF Kept, Sound
<1>. QED
  BY <1>1 DEF FilesKept, Rewritten, DirectorySynced

LEMMA AppendedFiles ==
    ASSUME Sound, open, NEW file, GoodFile(file), HandleFile(file),
           ~NeedsCompaction,
           \A x : OnStableStorage(x, inode) => OnStableStorage(x, file)
    PROVE  /\ FilesKept
           /\ inode' = file /\ disk' = file /\ older' = {}
<1>1. /\ unlinked = FALSE /\ inode = disk /\ older = {}
      /\ entry \in {"unsynced", "synced"}
  BY DEF Sound, TypeOK, OrphanedHandleIsFull, HandleOnPath, NothingIsEmpty
<1>2. /\ unlinked' = FALSE /\ inode' = file /\ disk' = file /\ older' = {}
      /\ UNCHANGED <<entry, inherited>>
  BY <1>1 DEF HandleFile
<1>3. \A x : Kept(x) => OnStableStorage(x, file)
  BY <1>1 DEF Kept
<1>. QED
  BY <1>1, <1>2, <1>3 DEF FilesKept

LEMMA FilesKeptStep ==
    ASSUME Sound, FilesKept, open, UNCHANGED <<now, open, historyVars>>,
           NEW t \in Int, t <= now,
           DOMAIN seen' \subseteq MsgId, seen' \in [DOMAIN seen' -> Int],
           \A x \in DOMAIN seen' : Timely(x, seen'[x]),
           Live(t) \subseteq DOMAIN seen'
    PROVE  Sound'
<1>. USE DEF Sound, FilesKept, historyVars
<1>1. TypeOK'
  BY DEF TypeOK, GoodFile
<1>2. /\ GoodFiles' /\ SeenInWindow' /\ HandleOnPath' /\ NothingIsEmpty'
      /\ LostWereFresh' /\ OrphanedHandleIsFull'
  BY DEF GoodFiles, GoodFile, SeenInWindow, HandleOnPath, NothingIsEmpty,
         LostWereFresh, OrphanedHandleIsFull, NeedsCompaction
<1>3. ASSUME NEW x \in MsgId, StillInWindow(x), Kept(x) PROVE Kept(x)'
  <2>1. x \in Live(t)
    BY <1>3, PruningKeepsWindow DEF Kept, Reading
  <2>. QED
    BY <1>3, <2>1 DEF Kept, OnStableStorage
<1>4. Remembered'
  BY <1>3, KeptStaysRemembered
<1>. QED
  BY <1>1, <1>2, <1>4

LEMMA AppendFailsStep ==
    ASSUME Sound, NEW m \in MsgId, NEW t, Reading(m, t), AppendFails(m, t)
    PROVE  Sound'
<1>. USE DEF AppendFails
<1>1. t \in Int /\ t <= now /\ Timely(m, t)
  BY ReadingIsTimely DEF Reading
<1>2. FilesKept
  <2>1. CASE ~NeedsCompaction
    <3>1. PICK file \in FailedAppends(inode, m, t) : HandleFile(file)
      BY <2>1
    <3>2. /\ GoodFile(file)
          /\ \A x : OnStableStorage(x, inode) => OnStableStorage(x, file)
      BY <1>1, <3>1, FailedAppendKeepsFile DEF Sound, GoodFiles
    <3>. QED
      BY <2>1, <3>1, <3>2, AppendedFiles
  <2>2. CASE NeedsCompaction
    <3>1. /\ GoodFile(Synced(Compacted(t)))
          /\ \A x \in Live(t) : OnStableStorage(x, Synced(Compacted(t)))
      BY <1>1, CompactionKeepsLive DEF Sound
    <3>2. PICK file \in FailedAppends(Synced(Compacted(t)), m, t) :
            Rewritten(file)
      BY <2>2
    <3>3. /\ GoodFile(file)
          /\ \A x \in Live(t) : OnStableStorage(x, file)
      BY <1>1, <3>1, <3>2, FailedAppendKeepsFile
    <3>. QED
      BY <1>1, <3>2, <3>3, RewrittenFiles
  <2>. QED
    BY <2>1, <2>2
<1>3. /\ DOMAIN seen' = Live(t) /\ Live(t) \subseteq MsgId
      /\ seen' \in [DOMAIN seen' -> Int]
      /\ \A x \in DOMAIN seen' : Timely(x, seen'[x])
  BY <1>1, PrunedTable DEF Sound
<1>. QED
  BY <1>1, <1>2, <1>3, FilesKeptStep DEF historyVars

LEMMA WindowTooLargeStep ==
    ASSUME Sound, NEW m \in MsgId, NEW t, Reading(m, t), WindowTooLarge(m, t)
    PROVE  Sound'
<1>. USE DEF WindowTooLarge
<1>1. t \in Int /\ t <= now /\ Timely(m, t)
  BY ReadingIsTimely DEF Reading
<1>2. FilesKept
  <2>1. /\ GoodFile(Synced(Compacted(t)))
        /\ \A x \in Live(t) : OnStableStorage(x, Synced(Compacted(t)))
    BY <1>1, CompactionKeepsLive DEF Sound
  <2>. QED
    BY <1>1, <2>1, RewrittenFiles
<1>3. /\ DOMAIN seen' = Live(t) /\ Live(t) \subseteq MsgId
      /\ seen' \in [DOMAIN seen' -> Int]
      /\ \A x \in DOMAIN seen' : Timely(x, seen'[x])
  BY <1>1, PrunedTable DEF Sound
<1>. QED
  BY <1>1, <1>2, <1>3, FilesKeptStep DEF historyVars

LEMMA CompactionFailsStep ==
    ASSUME Sound, NEW m \in MsgId, NEW t, Reading(m, t), CompactionFails(m, t)
    PROVE  Sound'
<1>. USE DEF CompactionFails
<1>1. t \in Int /\ t <= now /\ Timely(m, t)
  BY ReadingIsTimely DEF Reading
<1>2. FilesKept
  <2>1. entry \in {"unsynced", "synced"} /\ GoodFile(inode)
    BY DEF Sound, TypeOK, NothingIsEmpty, GoodFiles
  <2>2. CASE UNCHANGED <<disk, unlinked, directoryVars>>
    BY <2>1, <2>2 DEF FilesKept, Sound, TypeOK, HandleOnPath, GoodFiles,
                      OrphanedHandleIsFull, NeedsCompaction, Kept, directoryVars
  <2>3. CASE Renamed(Synced(Compacted(t)))
    <3>1. /\ GoodFile(disk') /\ unlinked' = TRUE
          /\ \A x \in Live(t) : OnStableStorage(x, disk')
      BY <1>1, <2>3, CompactionKeepsLive DEF Sound, Renamed
    <3>2. \A x \in MsgId : StillInWindow(x) /\ Kept(x) =>
             /\ x \in Live(t)
             /\ \A file \in {disk} \cup older : OnStableStorage(x, file)
      BY PruningKeepsWindow DEF Kept, Reading, Sound
    <3>3. /\ older' \subseteq {disk} \cup older
          /\ entry' \in {"unsynced", "synced"}
          /\ inherited' \subseteq inherited
      BY <2>1, <2>3 DEF DirectorySynced, Sound, TypeOK, directoryVars
    <3>4. \A file \in older' : GoodFile(file)
      BY <3>3 DEF Sound, GoodFiles
    <3>5. UNCHANGED inode /\ NeedsCompaction
      OBVIOUS
    <3>. QED
      BY <2>1, <3>1, <3>2, <3>3, <3>4, <3>5 DEF FilesKept, NeedsCompaction
  <2>. QED
    BY <2>2, <2>3
<1>3. /\ DOMAIN seen' = Live(t) /\ Live(t) \subseteq MsgId
      /\ seen' \in [DOMAIN seen' -> Int]
      /\ \A x \in DOMAIN seen' : Timely(x, seen'[x])
  BY <1>1, PrunedTable DEF Sound
<1>. QED
  BY <1>1, <1>2, <1>3, FilesKeptStep DEF historyVars

(***************************************************************************)
(* The step that answers FreshRecorded.  A message that was answered so    *)
(* before is in the live table while its window is open, so it is answered *)
(* again only once the window has closed.                                  *)
(***************************************************************************)
LEMMA RecordedAgainIsLate ==
    ASSUME Sound, NEW m \in MsgId, NEW t \in Int, t <= now, open, m \notin Live(t),
           StillFresh(m)
    PROVE  ~ClockAccepts(m, now)
<1>1. ~StillInWindow(m)
  BY PruningKeepsWindow DEF Sound, Remembered, Kept
<1>. QED
  BY <1>1 DEF StillInWindow, ClockAccepts, InTime

LEMMA RecordedStep ==
    ASSUME Sound, NEW m \in MsgId, NEW t, Reading(m, t), Recorded(m, t)
    PROVE  Sound'
<1>. USE DEF Recorded
<1>1. t \in Int /\ t <= now /\ Timely(m, t)
  BY ReadingIsTimely DEF Reading
<1>2. /\ FilesKept
      /\ \A file \in {disk'} \cup older' : OnStableStorage(m, file)
  <2>1. CASE ~NeedsCompaction
    <3>1. /\ GoodFile(Appended(inode, m, t))
          /\ OnStableStorage(m, Appended(inode, m, t))
          /\ \A x : OnStableStorage(x, inode)
                   => OnStableStorage(x, Appended(inode, m, t))
      BY <1>1, AppendKeepsFile DEF Sound, GoodFiles
    <3>2. /\ FilesKept
          /\ disk' = Appended(inode, m, t) /\ older' = {}
      BY <2>1, <3>1, AppendedFiles
    <3>. QED
      BY <3>1, <3>2
  <2>2. CASE NeedsCompaction
    <3>. DEFINE base == Synced(Compacted(t))
    <3>1. GoodFile(base) /\ \A x \in Live(t) : OnStableStorage(x, base)
      BY <1>1, CompactionKeepsLive DEF Sound
    <3>2. /\ GoodFile(Appended(base, m, t))
          /\ OnStableStorage(m, Appended(base, m, t))
          /\ \A x \in Live(t) : OnStableStorage(x, Appended(base, m, t))
      BY <1>1, <3>1, AppendKeepsFile
    <3>3. Rewritten(Appended(base, m, t))
      BY <2>2
    <3>4. FilesKept
      BY <1>1, <3>2, <3>3, RewrittenFiles
    <3>. QED
      BY <3>2, <3>3, <3>4 DEF Rewritten, DirectorySynced
  <2>. QED
    BY <2>1, <2>2
<1>3. /\ DOMAIN seen' = Live(t) \cup {m} /\ Live(t) \subseteq MsgId
      /\ seen' \in [DOMAIN seen' -> Int]
      /\ \A x \in DOMAIN seen' : Timely(x, seen'[x])
  BY <1>1, PrunedTable DEF Sound
<1>4. fresh' = [fresh EXCEPT ![m] = fresh[m] + 1] /\ UNCHANGED takenBack
      /\ \A x \in MsgId : fresh[x] \in Nat /\ takenBack[x] \in Nat
  BY DEF Sound, TypeOK
<1>5. TypeOK'
  BY <1>2, <1>3, <1>4 DEF TypeOK, FilesKept, GoodFile, Sound
<1>6. /\ GoodFiles' /\ SeenInWindow' /\ HandleOnPath' /\ NothingIsEmpty'
      /\ OrphanedHandleIsFull'
  BY <1>2, <1>3 DEF FilesKept, GoodFiles, GoodFile, SeenInWindow, HandleOnPath,
                    NothingIsEmpty, OrphanedHandleIsFull, NeedsCompaction, Sound
<1>8. LostWereFresh'
  BY <1>4 DEF LostWereFresh, Sound, TypeOK
<1>7. ASSUME NEW x \in MsgId, StillFresh(x)', StillInWindow(x)'
      PROVE  Kept(x)'
  <2>1. CASE x = m
    BY <1>2, <1>3, <2>1 DEF Kept, OnStableStorage
  <2>2. CASE x # m
    <3>0. StillFresh(x) /\ StillInWindow(x)
      BY <1>4, <1>7, <2>2 DEF Sound, TypeOK, StillInWindow, StillFresh
    <3>1. StillInWindow(x) /\ Kept(x)
      BY <3>0 DEF Sound, Remembered
    <3>2. x \in Live(t)
      BY <1>1, <3>1, PruningKeepsWindow DEF Sound, Kept
    <3>. QED
      BY <1>2, <1>3, <3>1, <3>2 DEF FilesKept, Kept, OnStableStorage
  <2>. QED
    BY <2>1, <2>2
<1>. QED
  BY <1>5, <1>6, <1>7, <1>8 DEF Sound, Remembered

-----------------------------------------------------------------------------
(***************************************************************************)
(* The invariant is inductive.                                             *)
(***************************************************************************)
LEMMA CallStep ==
    ASSUME Sound, NEW m \in MsgId, NEW t, Reading(m, t), CheckAndRecord(m, t)
    PROVE  Sound'
BY ReplayedStep, RecordedStep, AppendFailsStep, WindowTooLargeStep,
   CompactionFailsStep DEF CheckAndRecord

LEMMA StoreStutters == Sound /\ UNCHANGED vars => Sound'
BY DEF vars, storeVars, directoryVars, historyVars, Sound, TypeOK, GoodFiles,
       GoodFile, SeenInWindow, HandleOnPath, NothingIsEmpty, LostWereFresh,
       OrphanedHandleIsFull, NeedsCompaction, Remembered, Kept, StillFresh,
       StillInWindow, OnStableStorage

LEMMA StoreInitInv == Init => IInv
BY InitSound DEF Init, IInv, AtMostOnceFresh

(***************************************************************************)
(* A caller that holds the present time is answered FreshRecorded only for *)
(* a message whose earlier answers were all taken back.                    *)
(***************************************************************************)
LEMMA RecordedIsFirst ==
    ASSUME Sound, NEW m \in MsgId, ClockAccepts(m, now), Recorded(m, now)
    PROVE  fresh[m] = takenBack[m]
<1>1. now \in Int /\ fresh[m] \in Nat /\ takenBack[m] \in Nat /\ takenBack[m] <= fresh[m]
  BY DEF Sound, TypeOK, LostWereFresh
<1>2. open /\ m \notin Live(now)
  BY DEF Recorded
<1>3. StillFresh(m) => ~ClockAccepts(m, now)
  BY <1>1, <1>2, RecordedAgainIsLate
<1>. QED
  BY <1>1, <1>3 DEF StillFresh

LEMMA CallOnce ==
    ASSUME IInv, NEW m \in MsgId, Call(m)
    PROVE  AtMostOnceFresh'
<1>1. Sound /\ AtMostOnceFresh /\ ClockAccepts(m, now) /\ fresh \in [MsgId -> Nat]
      /\ takenBack \in [MsgId -> Nat] /\ UNCHANGED takenBack
  BY DEF IInv, Sound, TypeOK, Call, CheckAndRecord, Replayed, Recorded,
         AppendFails, WindowTooLarge, CompactionFails, historyVars
<1>2. CASE Recorded(m, now)
  <2>1. fresh[m] = takenBack[m]
    BY <1>1, <1>2, RecordedIsFirst
  <2>2. fresh' = [fresh EXCEPT ![m] = fresh[m] + 1]
    BY <1>2 DEF Recorded
  <2>. QED
    BY <1>1, <2>1, <2>2 DEF AtMostOnceFresh
<1>3. CASE UNCHANGED fresh
  BY <1>1, <1>3 DEF AtMostOnceFresh
<1>. QED
  BY <1>2, <1>3 DEF Call, CheckAndRecord, Replayed, AppendFails,
                    WindowTooLarge, CompactionFails, historyVars

LEMMA StoreNextInv == IInv /\ [Next]_vars => IInv'
<1>. SUFFICES ASSUME IInv, [Next]_vars PROVE IInv'
  OBVIOUS
<1>. USE DEF IInv
<1>1. CASE Tick
  BY <1>1, TickStep DEF Tick, storeVars, historyVars, AtMostOnceFresh
<1>2. CASE Open
  BY <1>2, OpenStep DEF Open, Opened, historyVars, AtMostOnceFresh
<1>3. ASSUME NEW m \in MsgId, Call(m) PROVE IInv'
  <2>1. Reading(m, now)
    BY <1>3 DEF Call, Reading, Sound, TypeOK
  <2>2. Sound'
    BY <1>3, <2>1, CallStep DEF Call
  <2>. QED
    BY <1>3, <2>2, CallOnce
<1>4. CASE OpenFails
  BY <1>4, OpenFailsStep DEF OpenFails, historyVars, AtMostOnceFresh
<1>5. CASE ProcessEnds
  BY <1>5, ProcessEndsStep DEF ProcessEnds, historyVars, AtMostOnceFresh
<1>6. CASE MachineCrash
  <2>1. \A m \in MsgId : takenBack'[m] \in {takenBack[m], fresh[m]}
    BY <1>6 DEF MachineCrash, LostWith
  <2>2. fresh' = fresh /\ \A m \in MsgId : fresh[m] \in Nat /\ takenBack[m] \in Nat
    BY <1>6 DEF MachineCrash, Sound, TypeOK
  <2>3. \A m \in MsgId : fresh[m] <= takenBack[m] + 1
    BY DEF AtMostOnceFresh
  <2>4. \A m \in MsgId : fresh'[m] <= takenBack'[m] + 1
    BY <2>1, <2>2, <2>3
  <2>. QED
    BY <1>6, <2>4, MachineCrashStep DEF AtMostOnceFresh
<1>7. CASE UNCHANGED vars
  BY <1>7, StoreStutters DEF vars, storeVars, historyVars, AtMostOnceFresh
<1>. QED
  BY <1>1, <1>2, <1>3, <1>4, <1>5, <1>6, <1>7 DEF Next

(***************************************************************************)
(* The inductive invariant holds in every reachable state of the store.    *)
(***************************************************************************)
THEOREM StoreInductive == Spec => []IInv
BY StoreInitInv, StoreNextInv, PTL DEF Spec

(***************************************************************************)
(* The types of the store's state: DurableReplayStore never holds a value  *)
(* outside them.                                                           *)
(***************************************************************************)
THEOREM StoreTypeCorrect == Spec => []TypeOK
<1>1. IInv => TypeOK
  BY DEF IInv, Sound
<1>. QED
  BY <1>1, StoreInductive, PTL

(***************************************************************************)
(* check_and_record answers FreshRecorded at most once for every message   *)
(* id, across pruning, compaction, failed compaction, crash and restart,   *)
(* and once more for every record that went with an unsynced entry of the  *)
(* directory in a crash of the machine.                                    *)
(***************************************************************************)
THEOREM AnsweredFreshOnce == Spec => []AtMostOnceFresh
<1>1. IInv => AtMostOnceFresh
  BY DEF IInv
<1>. QED
  BY <1>1, StoreInductive, PTL

LEMMA SoundIsDurable == Sound => FreshIsDurable
BY DEF Sound, FreshIsDurable, Remembered, StillInWindow, ClockAccepts, InTime, Kept

(***************************************************************************)
(* A FreshRecorded answer that no crash took back is on stable storage, in *)
(* every file that the handle left the log path to name after a crash,     *)
(* while its message can pass the clock gate.                              *)
(***************************************************************************)
THEOREM Durable == Spec => []FreshIsDurable
<1>1. IInv => FreshIsDurable
  BY SoundIsDurable DEF IInv
<1>. QED
  BY <1>1, StoreInductive, PTL

(***************************************************************************)
(* A handle that a failed compaction left on an unlinked file takes no     *)
(* append before it is back on the file that the path names.               *)
(***************************************************************************)
THEOREM OrphanIsFull == Spec => []OrphanedHandleIsFull
<1>1. IInv => OrphanedHandleIsFull
  BY DEF IInv, Sound
<1>. QED
  BY <1>1, StoreInductive, PTL

(***************************************************************************)
(* DurableReplayStore implements AtMostOnce: initial states map to initial *)
(* states, and every step to a step or a stutter.                          *)
(***************************************************************************)
THEOREM Refinement == Spec => ImplementsAtMostOnce
<1>. DEFINE settled == entry # "unsynced" /\ inherited = {}
            promised == <<now, fresh, takenBack, settled>>
<1>1. Init => Promise!Init
  BY DEF Init, Promise!Init
<1>2. IInv /\ [Next]_vars => [Promise!Next]_promised
  <2>. SUFFICES ASSUME IInv, [Next]_vars
                PROVE  [Promise!Next]_promised
    OBVIOUS
  <2>1. CASE Tick
    BY <2>1 DEF Tick, storeVars, directoryVars, historyVars, Promise!Next, Promise!Pass
  <2>2. CASE UNCHANGED <<now, fresh, takenBack>>
    BY <2>2 DEF Promise!Next, Promise!Sync
  <2>3. ASSUME NEW m \in MsgId, ClockAccepts(m, now), Recorded(m, now)
        PROVE  Promise!Admit(m)
    <3>1. /\ now \in Int /\ Issued[m] \in Int /\ Expires[m] \in Int
          /\ Skew \in Nat
      BY ClockAssumption, PolicyAssumption DEF IInv, Sound, TypeOK
    <3>2. now \in (Issued[m] - Skew) .. (Expires[m] + Skew)
      BY <2>3, <3>1 DEF ClockAccepts, InTime
    <3>3. fresh[m] = takenBack[m]
      BY <2>3, RecordedIsFirst DEF IInv
    <3>4. settled => settled'
      BY <2>3 DEF Recorded, HandleFile, Rewritten, DirectorySynced
    <3>. QED
      BY <2>3, <3>2, <3>3, <3>4 DEF Recorded, Promise!Admit
  <2>4. ASSUME NEW m \in MsgId, Call(m)
        PROVE  [Promise!Next]_promised
    BY <2>2, <2>3, <2>4 DEF Call, CheckAndRecord, Replayed, AppendFails,
       WindowTooLarge, CompactionFails, historyVars, Promise!Next
  <2>5. CASE MachineCrash
    <3>1. CASE UNCHANGED takenBack
      BY <2>2, <2>5, <3>1 DEF MachineCrash
    <3>2. ASSUME NEW lines, takenBack' = LostWith(lines), ~settled, settled'
          PROVE  Promise!Next
      <4>. DEFINE S == MsgId \cap (IdsOf(disk.lines) \ IdsOf(lines))
      <4>1. takenBack' = [m \in MsgId |-> IF m \in S THEN fresh[m] ELSE takenBack[m]]
        BY <3>2 DEF LostWith
      <4>2. S \in SUBSET MsgId
        OBVIOUS
      <4>3. Promise!Forget(S)
        <5>. HIDE DEF S
        <5>. QED
          BY <2>5, <3>2, <4>1 DEF MachineCrash, Promise!Forget
      <4>. QED
        BY <4>2, <4>3 DEF Promise!Next
    <3>. QED
      BY <2>5, <3>1, <3>2 DEF MachineCrash
  <2>. QED
    BY <2>1, <2>2, <2>4, <2>5 DEF Next, Open, Opened, OpenFails, ProcessEnds, vars,
       storeVars, historyVars
<1>. QED
  BY <1>1, <1>2, StoreInductive, PTL DEF Spec, ImplementsAtMostOnce, Promise!Spec

-----------------------------------------------------------------------------
(***************************************************************************)
(* The service: how its requests and their records are counted.            *)
(***************************************************************************)
\* A request keeps its reading of the clock while the clock goes on.
LEMMA ProgressStays ==
    ASSUME NEW request, NEW t \in Int, NEW u \in Int, t <= u,
           InProgress(request, t)
    PROVE  InProgress(request, u)
BY DEF InProgress

\* Only the request of h changes.
LEMMA WorkGoesOn ==
    ASSUME Working, NEW h \in Handler, NEW request,
           job' = [job EXCEPT ![h] = request], UNCHANGED now,
           InProgress(request, now)
    PROVE  Working'
<1>1. job' = [g \in Handler |-> job'[g]] /\ job'[h] = request
  BY DEF Working
<1>2. \A g \in Handler : InProgress(job'[g], now')
  BY <1>1 DEF Working
<1>. QED
  BY <1>1, <1>2 DEF Working

LEMMA IdleIsInProgress == \A t : InProgress(Idle, t)
BY DEF InProgress

\* One more element makes a finite set at most one larger.
LEMMA OneMore ==
    ASSUME NEW S, IsFiniteSet(S), NEW x
    PROVE  Cardinality(S \cup {x}) <= Cardinality(S) + 1
<1>1. Cardinality(S) \in Nat
  BY FS_CardinalityType
<1>2. CASE x \in S
  <2>1. S \cup {x} = S
    BY <1>2
  <2>. QED
    BY <1>1, <2>1
<1>3. CASE x \notin S
  <2>1. Cardinality(S \cup {x}) = Cardinality(S) + 1
    BY <1>3, FS_AddElement
  <2>. QED
    BY <1>1, <2>1
<1>. QED
  BY <1>2, <1>3

\* How the requests at a stage are counted when the request of h changes.
LEMMA StageCounts ==
    ASSUME Working, NEW h \in Handler, NEW request,
           job' = [job EXCEPT ![h] = request],
           NEW stage, NEW m
    PROVE  LET here == [at |-> stage, msg |-> m] IN
           /\ Cardinality(AtStage(stage, m)) \in Nat
           /\ Cardinality(AtStage(stage, m)') \in Nat
           /\ Cardinality(AtStage(stage, m)') <= Cardinality(AtStage(stage, m)) + 1
           /\ request # here =>
                 Cardinality(AtStage(stage, m)') <= Cardinality(AtStage(stage, m))
<1>. DEFINE here == [at |-> stage, msg |-> m]
            S == AtStage(stage, m)
            T == AtStage(stage, m)'
<1>1. S \subseteq Handler /\ T \subseteq Handler
  BY DEF AtStage
<1>2. IsFiniteSet(S) /\ IsFiniteSet(T)
  BY <1>1, ServiceAssumption, FS_Subset
<1>3. Cardinality(S) \in Nat /\ Cardinality(T) \in Nat
  BY <1>2, FS_CardinalityType
<1>4. \A g \in Handler : job'[g] = IF g = h THEN request ELSE job[g]
  BY DEF Working
<1>5. CASE request = here
  <2>1. T = S \cup {h}
    BY <1>4, <1>5 DEF AtStage
  <2>2. Cardinality(S \cup {h}) <= Cardinality(S) + 1
    BY <1>2, OneMore
  <2>. HIDE DEF S, T, here
  <2>. QED
    BY <1>3, <1>5, <2>1, <2>2 DEF S, T, here
<1>6. CASE request # here
  <2>1. T = S \ {h}
    BY <1>4, <1>6 DEF AtStage
  <2>2. Cardinality(S \ {h}) = IF h \in S THEN Cardinality(S) - 1 ELSE Cardinality(S)
    BY <1>2, FS_RemoveElement
  <2>. HIDE DEF S, T, here
  <2>. QED
    BY <1>3, <1>6, <2>1, <2>2 DEF S, T, here
<1>. QED
  BY <1>5, <1>6

LEMMA StageLeft ==
    ASSUME Working, NEW h \in Handler, NEW stage, NEW m,
           h \in AtStage(stage, m),
           AtStage(stage, m)' = AtStage(stage, m) \ {h}
    PROVE  Cardinality(AtStage(stage, m)') = Cardinality(AtStage(stage, m)) - 1
<1>. DEFINE S == AtStage(stage, m)
<1>1. S \subseteq Handler
  BY DEF AtStage
<1>2. IsFiniteSet(S)
  BY <1>1, ServiceAssumption, FS_Subset
<1>. HIDE DEF S
<1>3. Cardinality(S \ {h}) = Cardinality(S) - 1
  BY <1>2, FS_RemoveElement DEF S
<1>. QED
  BY <1>3 DEF S

\* A request that goes on without a record at either stage uses none.
LEMMA NoRecordUsed ==
    ASSUME Working, OneRecordEach, NEW h \in Handler, NEW request,
           job' = [job EXCEPT ![h] = request],
           request.at \notin {"admitted", "audited"},
           UNCHANGED <<audited, unlogged, accepted, fresh>>,
           Tallied, fresh \in [MsgId -> Nat]
    PROVE  OneRecordEach'
<1>. SUFFICES ASSUME NEW m \in MsgId
              PROVE  /\ Cardinality(AtStage("admitted", m)') + (audited[m] + unlogged[m]) <= fresh[m]
                     /\ Cardinality(AtStage("audited", m)') + accepted[m] <= audited[m] + unlogged[m]
  BY DEF OneRecordEach
<1>1. request # [at |-> "admitted", msg |-> m] /\ request # [at |-> "audited", msg |-> m]
  OBVIOUS
<1>2. /\ Cardinality(AtStage("admitted", m)) \in Nat
      /\ Cardinality(AtStage("admitted", m)') \in Nat
      /\ Cardinality(AtStage("admitted", m)') <= Cardinality(AtStage("admitted", m))
  BY <1>1, StageCounts
<1>3. /\ Cardinality(AtStage("audited", m)) \in Nat
      /\ Cardinality(AtStage("audited", m)') \in Nat
      /\ Cardinality(AtStage("audited", m)') <= Cardinality(AtStage("audited", m))
  BY <1>1, StageCounts
<1>. QED
  BY <1>2, <1>3 DEF OneRecordEach, Tallied

LEMMA CountsStay ==
    ASSUME OneRecordEach, UNCHANGED <<job, answerVars, fresh>>
    PROVE  OneRecordEach'
BY DEF OneRecordEach, AtStage, answerVars

\* The copies that the requests verify with, when none is made or replaced.
LEMMA CopiesStay ==
    ASSUME CopiesAreBehind, Working, UNCHANGED peers,
           NEW h \in Handler, NEW request, job' = [job EXCEPT ![h] = request],
           request.at # "authenticating"
    PROVE  CopiesAreBehind'
<1>1. \A g \in Handler : job'[g] = IF g = h THEN request ELSE job[g]
  BY DEF Working
<1>. QED
  BY <1>1 DEF CopiesAreBehind

(***************************************************************************)
(* The end of the process or of the machine ends every request: those that *)
(* waited for their record lose it.                                        *)
(***************************************************************************)
LEMMA RequestsEnd ==
    ASSUME ServiceInv, MemoryLost, Tallied', UNCHANGED <<accepted, fresh>>,
           \A m \in MsgId : audited'[m] + unlogged'[m] = audited[m] + unlogged[m]
    PROVE  Registered' /\ Working' /\ OneRecordEach' /\ CopiesAreBehind'
<1>. USE DEF ServiceInv, ServiceTypeOK, MemoryLost
<1>1. Registered' /\ Working'
  BY IdleIsInProgress DEF Registered, Working
<1>2. CopiesAreBehind'
  BY DEF CopiesAreBehind, Idle
<1>3. ASSUME NEW m \in MsgId
      PROVE  /\ Cardinality(AtStage("admitted", m)') + (audited'[m] + unlogged'[m]) <= fresh'[m]
             /\ Cardinality(AtStage("audited", m)') + accepted'[m] <= audited'[m] + unlogged'[m]
  <2>1. AtStage("admitted", m)' = {} /\ AtStage("audited", m)' = {}
    BY DEF AtStage, Idle
  <2>2. Cardinality({}) = 0
    BY FS_EmptySet
  <2>3. /\ Cardinality(AtStage("admitted", m)) \in Nat
        /\ Cardinality(AtStage("audited", m)) \in Nat
    <3>1. AtStage("admitted", m) \subseteq Handler /\ AtStage("audited", m) \subseteq Handler
      BY DEF AtStage
    <3>. QED
      BY <3>1, ServiceAssumption, FS_Subset, FS_CardinalityType
  <2>4. /\ Cardinality(AtStage("admitted", m)') = 0
        /\ Cardinality(AtStage("audited", m)') = 0
    BY <2>1, <2>2
  <2>5. /\ audited'[m] \in Nat /\ unlogged'[m] \in Nat /\ accepted'[m] \in Nat
        /\ audited[m] \in Nat /\ unlogged[m] \in Nat
        /\ fresh[m] \in Nat /\ fresh'[m] = fresh[m] /\ accepted'[m] = accepted[m]
    BY DEF Tallied, TypeOK
  <2>6. /\ audited[m] + unlogged[m] <= fresh[m]
        /\ accepted[m] <= audited[m] + unlogged[m]
    BY <2>3, <2>5 DEF OneRecordEach
  <2>7. audited'[m] + unlogged'[m] <= fresh'[m] /\ accepted'[m] <= audited'[m] + unlogged'[m]
    BY <2>5, <2>6
  <2>. QED
    BY <2>4, <2>5, <2>7
<1>4. OneRecordEach'
  BY <1>3 DEF OneRecordEach
<1>. QED
  BY <1>1, <1>2, <1>4

-----------------------------------------------------------------------------
(***************************************************************************)
(* One lemma per action of the service.                                    *)
(***************************************************************************)
LEMMA ServiceInitInv == ServiceInit => ServiceInv
<1>. SUFFICES ASSUME ServiceInit PROVE ServiceInv
  OBVIOUS
<1>1. Sound
  BY InitSound DEF ServiceInit
<1>2. Registered /\ Working /\ Tallied
  BY IdleIsInProgress DEF ServiceInit, Registered, Working, Tallied
<1>3. TypeOK
  BY <1>1 DEF Sound
<1>4. \A m \in MsgId : AtStage("admitted", m) = {} /\ AtStage("audited", m) = {}
  BY DEF ServiceInit, AtStage, Idle
<1>5. /\ \A m \in MsgId : Cardinality(AtStage("admitted", m)) = 0
      /\ \A m \in MsgId : Cardinality(AtStage("audited", m)) = 0
  BY <1>4, FS_EmptySet
<1>6. /\ fresh = [m \in MsgId |-> 0]
      /\ audited = [m \in MsgId |-> 0] /\ unlogged = [m \in MsgId |-> 0]
      /\ accepted = [m \in MsgId |-> 0]
  BY DEF ServiceInit, Init
<1>7. OneRecordEach
  BY <1>5, <1>6 DEF OneRecordEach
<1>8. CopiesAreBehind
  BY DEF ServiceInit, CopiesAreBehind, Idle
<1>. QED
  BY <1>1, <1>2, <1>3, <1>7, <1>8 DEF ServiceInv, ServiceTypeOK

LEMMA ServiceTickStep == ServiceInv /\ ServiceTick => ServiceInv'
<1>. SUFFICES ASSUME ServiceInv, ServiceTick PROVE ServiceInv'
  OBVIOUS
<1>. USE DEF ServiceInv, ServiceTypeOK, ServiceTick, answerVars
<1>1. Sound'
  BY TickStep
<1>2. now \in Int /\ now' \in Int /\ now <= now'
  BY DEF Tick, Sound, TypeOK
<1>3. Working'
  BY <1>2, ProgressStays DEF Working
<1>4. Registered' /\ Tallied'
  BY DEF Registered, Tallied
<1>5. OneRecordEach'
  BY CountsStay DEF Tick, storeVars, historyVars
<1>6. CopiesAreBehind'
  BY DEF CopiesAreBehind
<1>. QED
  BY <1>1, <1>3, <1>4, <1>5, <1>6 DEF Sound

LEMMA StartStep == ServiceInv /\ Start => ServiceInv'
<1>. SUFFICES ASSUME ServiceInv, Start PROVE ServiceInv'
  OBVIOUS
<1>. USE DEF ServiceInv, ServiceTypeOK, Start, answerVars
<1>1. Sound'
  BY OpenStep, OpenFailsStep
<1>2. UNCHANGED <<now, fresh>>
  BY DEF Open, Opened, OpenFails, historyVars
<1>3. Registered' /\ Working' /\ Tallied'
  BY <1>2 DEF Registered, Working, Tallied
<1>4. OneRecordEach'
  BY <1>2, CountsStay
<1>5. CopiesAreBehind'
  BY DEF CopiesAreBehind
<1>. QED
  BY <1>1, <1>3, <1>4, <1>5 DEF Sound

LEMMA StopStep == ServiceInv /\ Stop => ServiceInv'
<1>. SUFFICES ASSUME ServiceInv, Stop PROVE ServiceInv'
  OBVIOUS
<1>. USE DEF ServiceInv, ServiceTypeOK, Stop, answerVars
<1>1. Sound'
  BY ProcessEndsStep
<1>2. UNCHANGED <<now, fresh>>
  BY DEF ProcessEnds, historyVars
<1>3. Tallied'
  BY DEF Tallied
<1>4. Registered' /\ Working' /\ OneRecordEach' /\ CopiesAreBehind'
  BY <1>2, <1>3, RequestsEnd
<1>. QED
  BY <1>1, <1>3, <1>4 DEF Sound

\* The audit records that the machine loses are counted as lost.
LEMMA MachineStopsStep == ServiceInv /\ MachineStops => ServiceInv'
<1>. SUFFICES ASSUME ServiceInv, MachineStops PROVE ServiceInv'
  OBVIOUS
<1>. USE DEF ServiceInv, ServiceTypeOK, MachineStops
<1>1. Sound'
  BY MachineCrashStep
<1>2. UNCHANGED <<now, fresh>>
  BY DEF MachineCrash
<1>3. PICK kept \in [MsgId -> UNION {0 .. audited[m] : m \in MsgId}] :
        /\ \A m \in MsgId : kept[m] <= audited[m]
        /\ audited' = kept
        /\ unlogged' = [m \in MsgId |-> unlogged[m] + audited[m] - kept[m]]
  OBVIOUS
<1>4. \A m \in MsgId : audited[m] \in Nat /\ unlogged[m] \in Nat
  BY DEF Tallied
<1>5. \A m \in MsgId : kept[m] \in Nat
  <2>. SUFFICES ASSUME NEW m \in MsgId PROVE kept[m] \in Nat
    OBVIOUS
  <2>1. PICK x \in MsgId : kept[m] \in 0 .. audited[x]
    BY <1>3
  <2>. QED
    BY <1>4, <2>1
<1>6. Tallied'
  <2>1. audited' \in [MsgId -> Nat]
    BY <1>3, <1>5
  <2>2. unlogged' \in [MsgId -> Nat]
    BY <1>3, <1>4, <1>5
  <2>. QED
    BY <2>1, <2>2 DEF Tallied
<1>7. \A m \in MsgId : audited'[m] + unlogged'[m] = audited[m] + unlogged[m]
  BY <1>3, <1>4, <1>5
<1>8. Registered' /\ Working' /\ OneRecordEach' /\ CopiesAreBehind'
  BY <1>2, <1>6, <1>7, RequestsEnd
<1>. QED
  BY <1>1, <1>6, <1>8 DEF Sound

\* The steps that leave the store alone.
LEMMA StoreStays ==
    ASSUME Sound, UNCHANGED <<now, storeVars>>
    PROVE  Sound' /\ UNCHANGED <<now, fresh>>
BY StoreStutters DEF vars, storeVars, historyVars

\* What a request is at each of its stages.
LEMMA Stages ==
    ASSUME NEW request, NEW t, InProgress(request, t)
    PROVE  /\ request.at = "authenticating" =>
                 request.msg \in MsgId /\ IsIdentity(request.identity)
           /\ request.at = "checking" =>
                 /\ request.msg \in MsgId
                 /\ request.time \in Int /\ request.time <= t
                 /\ ClockAccepts(request.msg, request.time)
           /\ request.at \in {"admitted", "audited"} =>
                 /\ request.msg \in MsgId
                 /\ request = [at |-> request.at, msg |-> request.msg]
BY DEF InProgress, Idle

LEMMA PeerHelloStep ==
    ASSUME ServiceInv, NEW hello \in Hello, PeerHello(hello)
    PROVE  ServiceInv'
<1>. USE DEF ServiceInv, ServiceTypeOK, PeerHello, answerVars
<1>1. Sound' /\ UNCHANGED <<now, fresh>>
  BY StoreStays
<1>2. IsIdentity(Introduced(hello))
  BY RebuiltIdentities, ServiceAssumption DEF Introduced, Presented
<1>3. Registered'
  BY <1>2 DEF Registered
<1>4. Working' /\ Tallied' /\ OneRecordEach'
  BY <1>1, CountsStay DEF Working, Tallied
<1>5. ASSUME NEW h \in Handler, job'[h].at = "authenticating"
      PROVE  LET known == peers'[Sender[job'[h].msg]] IN
             /\ known # NoIdentity
             /\ job'[h].identity = known \/ job'[h].identity.seq < known.seq
  <2>. DEFINE copy == job[h].identity
              from == Sender[job[h].msg]
              new == Introduced(hello)
  <2>1. /\ job[h].msg \in MsgId /\ IsIdentity(copy) /\ job'[h] = job[h]
        /\ peers[from] # NoIdentity
        /\ copy = peers[from] \/ copy.seq < peers[from].seq
    BY <1>5, Stages DEF Working, CopiesAreBehind
  <2>2. from \in Peer /\ IsIdentity(peers[from])
    BY <2>1, ServiceAssumption DEF Registered
  <2>3. copy.seq \in Nat /\ peers[from].seq \in Nat /\ new.seq \in Nat
    BY <1>2, <2>1, <2>2 DEF IsIdentity
  <2>4. peers'[from] = IF from = hello.peer THEN new ELSE peers[from]
    BY <2>2 DEF Registered
  <2>5. from = hello.peer => new = peers[from] \/ peers[from].seq < new.seq
    BY <2>1, <2>3 DEF RollsBack
  <2>6. new # NoIdentity
    OBVIOUS
  <2>. HIDE DEF copy, from, new
  <2>7. /\ peers'[from] # NoIdentity
        /\ copy = peers'[from] \/ copy.seq < peers'[from].seq
    BY <2>1, <2>3, <2>4, <2>5, <2>6
  <2>. QED
    BY <2>1, <2>7 DEF copy, from
<1>6. CopiesAreBehind'
  BY <1>5 DEF CopiesAreBehind
<1>. QED
  BY <1>1, <1>3, <1>4, <1>6 DEF Sound

LEMMA LookUpStep ==
    ASSUME ServiceInv, NEW h \in Handler, NEW m \in MsgId, LookUp(h, m)
    PROVE  ServiceInv'
<1>. USE DEF ServiceInv, ServiceTypeOK, LookUp, answerVars
<1>. DEFINE request == [at |-> "authenticating", msg |-> m,
                        identity |-> peers[Sender[m]]]
<1>1. Sound' /\ UNCHANGED <<now, fresh>>
  BY StoreStays
<1>2. InProgress(request, now) /\ request.at \notin {"admitted", "audited"}
  BY ServiceAssumption DEF InProgress, Registered
<1>. HIDE DEF request
<1>3. job' = [job EXCEPT ![h] = request]
  BY DEF request
<1>4. Working'
  BY <1>1, <1>2, <1>3, WorkGoesOn
<1>5. Registered' /\ Tallied'
  BY DEF Registered, Tallied
<1>6. fresh \in [MsgId -> Nat] /\ UNCHANGED <<audited, unlogged, accepted>>
  BY DEF Sound, TypeOK
<1>7. OneRecordEach'
  BY <1>1, <1>2, <1>3, <1>6, NoRecordUsed
<1>8. CopiesAreBehind'
  <2>1. \A g \in Handler : job'[g] = IF g = h THEN request ELSE job[g]
    BY <1>3 DEF Working
  <2>2. request.msg = m /\ request.identity = peers[Sender[m]]
    BY DEF request
  <2>. QED
    BY <2>1, <2>2 DEF CopiesAreBehind
<1>. QED
  BY <1>1, <1>4, <1>5, <1>7, <1>8 DEF Sound

LEMMA AuthenticateStep ==
    ASSUME ServiceInv, NEW h \in Handler, Authenticate(h)
    PROVE  ServiceInv'
<1>. USE DEF ServiceInv, ServiceTypeOK, Authenticate, answerVars
<1>1. Sound' /\ UNCHANGED <<now, fresh>>
  BY StoreStays
<1>2. job[h].msg \in MsgId /\ now \in Int
  BY Stages DEF Working, Sound, TypeOK
<1>3. PICK m \in MsgId : m = job[h].msg
  BY <1>2
<1>. DEFINE request == [at |-> "checking", msg |-> m, time |-> now]
<1>4. \/ job' = [job EXCEPT ![h] = Idle]
      \/ ClockAccepts(m, now) /\ job' = [job EXCEPT ![h] = request]
  <2>1. Authentic(job[h].identity, Envelope(m), now) => ClockAccepts(m, now)
    BY DEF Authentic, Envelope, ClockAccepts, InTime
  <2>. QED
    BY <1>3, <2>1 DEF Refuse
<1>5. ClockAccepts(m, now) => InProgress(request, now)
  BY <1>2 DEF InProgress
<1>6. /\ request.at \notin {"admitted", "audited", "authenticating"}
      /\ Idle.at \notin {"admitted", "audited", "authenticating"}
  BY DEF Idle
<1>. HIDE DEF request
<1>7. Working'
  BY <1>1, <1>4, <1>5, IdleIsInProgress, WorkGoesOn
<1>8. Registered' /\ Tallied'
  BY DEF Registered, Tallied
<1>9. fresh \in [MsgId -> Nat] /\ UNCHANGED <<audited, unlogged, accepted>>
  BY DEF Sound, TypeOK
<1>10. OneRecordEach'
  BY <1>1, <1>4, <1>6, <1>9, NoRecordUsed
<1>11. CopiesAreBehind'
  BY <1>4, <1>6, CopiesStay
<1>. QED
  BY <1>1, <1>7, <1>8, <1>10, <1>11 DEF Sound

(***************************************************************************)
(* The lock of the replay store: whatever the store answers to a reading   *)
(* of the clock that may be old, and whatever record it adds.              *)
(***************************************************************************)
LEMMA CheckReplayStep ==
    ASSUME ServiceInv, NEW h \in Handler, CheckReplay(h)
    PROVE  ServiceInv'
<1>. USE DEF ServiceInv, ServiceTypeOK, CheckReplay, answerVars
<1>1. PICK m \in MsgId, t \in Int :
        m = job[h].msg /\ t = job[h].time /\ Reading(m, t)
  BY Stages DEF Working, Reading
<1>2. CheckAndRecord(m, t)
  BY <1>1 DEF CheckAndRecord
<1>3. Sound' /\ UNCHANGED now
  <2>1. Sound'
    BY <1>1, <1>2, CallStep
  <2>2. UNCHANGED now
    BY <1>2 DEF CheckAndRecord, Replayed, Recorded, AppendFails,
                WindowTooLarge, CompactionFails
  <2>. QED
    BY <2>1, <2>2
<1>4. Registered' /\ Tallied'
  BY <1>1 DEF Registered, Tallied
<1>5. fresh \in [MsgId -> Nat] /\ UNCHANGED <<audited, unlogged, accepted>>
  BY DEF TypeOK
<1>. DEFINE request == [at |-> "admitted", msg |-> m]
<1>6. \/ Refuse(h) /\ UNCHANGED fresh
      \/ Recorded(m, t) /\ job' = [job EXCEPT ![h] = request]
  BY <1>1 DEF Replayed, AppendFails, WindowTooLarge, CompactionFails, historyVars
<1>7. Working'
  <2>1. InProgress(request, now)
    BY DEF InProgress
  <2>. HIDE DEF request
  <2>. QED
    BY <1>3, <1>6, <2>1, IdleIsInProgress, WorkGoesOn DEF Refuse
<1>10. CopiesAreBehind'
  <2>1. request.at # "authenticating" /\ Idle.at # "authenticating"
    BY DEF Idle
  <2>. HIDE DEF request
  <2>. QED
    BY <1>6, <2>1, CopiesStay DEF Refuse
<1>8. CASE Refuse(h) /\ UNCHANGED fresh
  <2>1. Idle.at \notin {"admitted", "audited"}
    BY DEF Idle
  <2>2. OneRecordEach'
    BY <1>5, <1>8, <2>1, NoRecordUsed DEF Refuse
  <2>. QED
    BY <1>3, <1>4, <1>7, <1>10, <2>2 DEF Sound
<1>9. CASE Recorded(m, t) /\ job' = [job EXCEPT ![h] = request]
  <2>1. fresh' = [fresh EXCEPT ![m] = fresh[m] + 1]
    BY <1>9 DEF Recorded
  <2>2. ASSUME NEW x \in MsgId
        PROVE  /\ Cardinality(AtStage("admitted", x)') + (audited'[x] + unlogged'[x]) <= fresh'[x]
               /\ Cardinality(AtStage("audited", x)') + accepted'[x] <= audited'[x] + unlogged'[x]
    <3>1. /\ request # [at |-> "audited", msg |-> x]
          /\ x # m => request # [at |-> "admitted", msg |-> x]
      OBVIOUS
    <3>. HIDE DEF request
    <3>2. /\ Cardinality(AtStage("admitted", x)) \in Nat
          /\ Cardinality(AtStage("admitted", x)') \in Nat
          /\ Cardinality(AtStage("admitted", x)') <= Cardinality(AtStage("admitted", x)) + 1
          /\ x # m => Cardinality(AtStage("admitted", x)') <= Cardinality(AtStage("admitted", x))
      BY <1>9, <3>1, StageCounts
    <3>3. /\ Cardinality(AtStage("audited", x)) \in Nat
          /\ Cardinality(AtStage("audited", x)') \in Nat
          /\ Cardinality(AtStage("audited", x)') <= Cardinality(AtStage("audited", x))
      BY <1>9, <3>1, StageCounts
    <3>4. fresh'[x] = IF x = m THEN fresh[x] + 1 ELSE fresh[x]
      BY <1>5, <2>1
    <3>. QED
      BY <1>5, <3>2, <3>3, <3>4 DEF OneRecordEach, Tallied
  <2>3. OneRecordEach'
    BY <2>2 DEF OneRecordEach
  <2>. QED
    BY <1>3, <1>4, <1>7, <1>10, <2>3 DEF Sound
<1>. QED
  BY <1>6, <1>8, <1>9

\* The record that the request had is the audit record's now.
LEMMA AuditStep ==
    ASSUME ServiceInv, NEW h \in Handler, Audit(h)
    PROVE  ServiceInv'
<1>. USE DEF ServiceInv, ServiceTypeOK, Audit
<1>1. Sound' /\ UNCHANGED <<now, fresh>>
  BY StoreStays
<1>2. PICK m \in MsgId : job[h] = [at |-> "admitted", msg |-> m]
  BY Stages DEF Working
<1>. DEFINE request == [at |-> "audited", msg |-> m]
<1>3. job' = [job EXCEPT ![h] = request] /\ audited' = [audited EXCEPT ![m] = audited[m] + 1]
  <2>1. [job[h] EXCEPT !.at = "audited"] = request
    BY <1>2
  <2>2. job' = [job EXCEPT ![h] = [job[h] EXCEPT !.at = "audited"]] /\ job[h].msg = m
    BY <1>2
  <2>. QED
    BY <2>1, <2>2
<1>4. InProgress(request, now)
  BY DEF InProgress
<1>5. Cardinality(AtStage("admitted", m)') = Cardinality(AtStage("admitted", m)) - 1
  <2>1. h \in AtStage("admitted", m)
    BY <1>2 DEF AtStage
  <2>2. \A g \in Handler : job'[g] = IF g = h THEN request ELSE job[g]
    BY <1>3 DEF Working
  <2>3. request # [at |-> "admitted", msg |-> m]
    BY DEF Idle
  <2>4. AtStage("admitted", m)' = AtStage("admitted", m) \ {h}
    BY <2>2, <2>3 DEF AtStage
  <2>. QED
    BY <2>1, <2>4, StageLeft
<1>6. ASSUME NEW x \in MsgId
      PROVE  /\ Cardinality(AtStage("admitted", x)') + (audited'[x] + unlogged'[x]) <= fresh'[x]
             /\ Cardinality(AtStage("audited", x)') + accepted'[x] <= audited'[x] + unlogged'[x]
  <2>1. /\ request # [at |-> "admitted", msg |-> x]
        /\ x # m => request # [at |-> "audited", msg |-> x]
        /\ x = m => job[h] = [at |-> "admitted", msg |-> x]
    BY <1>2
  <2>. HIDE DEF request
  <2>2. /\ Cardinality(AtStage("admitted", x)) \in Nat
        /\ Cardinality(AtStage("admitted", x)') \in Nat
        /\ Cardinality(AtStage("admitted", x)') <= Cardinality(AtStage("admitted", x))
    BY <1>3, <2>1, StageCounts
  <2>6. x = m => Cardinality(AtStage("admitted", x)') = Cardinality(AtStage("admitted", x)) - 1
    BY <1>5
  <2>3. /\ Cardinality(AtStage("audited", x)) \in Nat
        /\ Cardinality(AtStage("audited", x)') \in Nat
        /\ Cardinality(AtStage("audited", x)') <= Cardinality(AtStage("audited", x)) + 1
        /\ x # m => Cardinality(AtStage("audited", x)') <= Cardinality(AtStage("audited", x))
    BY <1>3, <2>1, StageCounts
  <2>4. audited'[x] = IF x = m THEN audited[x] + 1 ELSE audited[x]
    BY <1>3 DEF Tallied
  <2>5. /\ fresh'[x] = fresh[x] /\ accepted'[x] = accepted[x]
        /\ unlogged'[x] = unlogged[x] /\ fresh[x] \in Nat
    BY <1>1 DEF TypeOK
  <2>. QED
    BY <2>2, <2>3, <2>4, <2>5, <2>6 DEF OneRecordEach, Tallied
<1>10. request.at # "authenticating"
  OBVIOUS
<1>. HIDE DEF request
<1>11. CopiesAreBehind'
  BY <1>3, <1>10, CopiesStay
<1>7. Working'
  BY <1>1, <1>3, <1>4, WorkGoesOn
<1>8. Registered' /\ Tallied'
  BY <1>3 DEF Registered, Tallied
<1>9. OneRecordEach'
  BY <1>6 DEF OneRecordEach
<1>. QED
  BY <1>1, <1>7, <1>8, <1>9, <1>11 DEF Sound

LEMMA AuditFailsStep ==
    ASSUME ServiceInv, NEW h \in Handler, AuditFails(h)
    PROVE  ServiceInv'
<1>. USE DEF ServiceInv, ServiceTypeOK, AuditFails, Refuse, answerVars
<1>1. Sound' /\ UNCHANGED <<now, fresh>>
  BY StoreStays
<1>2. job[h].msg \in MsgId
  BY Stages DEF Working
<1>3. Working'
  BY <1>1, IdleIsInProgress, WorkGoesOn
<1>4. Registered' /\ Tallied'
  BY <1>2 DEF Registered, Tallied
<1>5. Idle.at \notin {"admitted", "audited", "authenticating"} /\ fresh \in [MsgId -> Nat]
  BY DEF Idle, TypeOK
<1>6. OneRecordEach'
  BY <1>1, <1>5, NoRecordUsed
<1>7. CopiesAreBehind'
  BY <1>5, CopiesStay
<1>. QED
  BY <1>1, <1>3, <1>4, <1>6, <1>7 DEF Sound

\* The answer uses the audit record of its request, and the request is over.
LEMMA AnswerStep ==
    ASSUME ServiceInv, NEW h \in Handler, Answer(h)
    PROVE  ServiceInv'
<1>. USE DEF ServiceInv, ServiceTypeOK, Answer
<1>1. Sound' /\ UNCHANGED <<now, fresh>>
  BY StoreStays
<1>2. PICK m \in MsgId : job[h] = [at |-> "audited", msg |-> m]
  BY Stages DEF Working
<1>3. job' = [job EXCEPT ![h] = Idle] /\ accepted' = [accepted EXCEPT ![m] = accepted[m] + 1]
  BY <1>2
<1>4. Cardinality(AtStage("audited", m)') = Cardinality(AtStage("audited", m)) - 1
  <2>1. h \in AtStage("audited", m)
    BY <1>2 DEF AtStage
  <2>2. \A g \in Handler : job'[g] = IF g = h THEN Idle ELSE job[g]
    BY <1>3 DEF Working
  <2>3. Idle # [at |-> "audited", msg |-> m]
    BY DEF Idle
  <2>4. AtStage("audited", m)' = AtStage("audited", m) \ {h}
    BY <2>2, <2>3 DEF AtStage
  <2>. QED
    BY <2>1, <2>4, StageLeft
<1>5. ASSUME NEW x \in MsgId
      PROVE  /\ Cardinality(AtStage("admitted", x)') + (audited'[x] + unlogged'[x]) <= fresh'[x]
             /\ Cardinality(AtStage("audited", x)') + accepted'[x] <= audited'[x] + unlogged'[x]
  <2>1. /\ Idle # [at |-> "admitted", msg |-> x] /\ Idle # [at |-> "audited", msg |-> x]
        /\ x = m => job[h] = [at |-> "audited", msg |-> x]
    BY <1>2 DEF Idle
  <2>2. /\ Cardinality(AtStage("admitted", x)) \in Nat
        /\ Cardinality(AtStage("admitted", x)') \in Nat
        /\ Cardinality(AtStage("admitted", x)') <= Cardinality(AtStage("admitted", x))
    BY <1>3, <2>1, StageCounts
  <2>3. /\ Cardinality(AtStage("audited", x)) \in Nat
        /\ Cardinality(AtStage("audited", x)') \in Nat
        /\ Cardinality(AtStage("audited", x)') <= Cardinality(AtStage("audited", x))
    BY <1>3, <2>1, StageCounts
  <2>7. x = m => Cardinality(AtStage("audited", x)') = Cardinality(AtStage("audited", x)) - 1
    BY <1>4
  <2>4. accepted'[x] = IF x = m THEN accepted[x] + 1 ELSE accepted[x]
    BY <1>3 DEF Tallied
  <2>5. /\ fresh'[x] = fresh[x] /\ audited'[x] = audited[x]
        /\ unlogged'[x] = unlogged[x] /\ fresh[x] \in Nat
    BY <1>1 DEF TypeOK
  <2>. QED
    BY <2>2, <2>3, <2>4, <2>5, <2>7 DEF OneRecordEach, Tallied
<1>6. Working'
  BY <1>1, <1>3, IdleIsInProgress, WorkGoesOn
<1>7. Registered' /\ Tallied'
  BY <1>3 DEF Registered, Tallied
<1>8. OneRecordEach'
  BY <1>5 DEF OneRecordEach
<1>9. Idle.at # "authenticating"
  BY DEF Idle
<1>10. CopiesAreBehind'
  BY <1>3, <1>9, CopiesStay
<1>. QED
  BY <1>1, <1>6, <1>7, <1>8, <1>10 DEF Sound

LEMMA ServiceStutters == ServiceInv /\ UNCHANGED serviceVars => ServiceInv'
<1>. SUFFICES ASSUME ServiceInv, UNCHANGED serviceVars PROVE ServiceInv'
  OBVIOUS
<1>. USE DEF ServiceInv, ServiceTypeOK, serviceVars, answerVars
<1>1. Sound' /\ UNCHANGED <<now, fresh>>
  BY StoreStutters DEF vars, storeVars, historyVars
<1>2. Registered' /\ Working' /\ Tallied' /\ OneRecordEach'
  BY <1>1, CountsStay DEF Registered, Working, Tallied
<1>3. CopiesAreBehind'
  BY DEF CopiesAreBehind
<1>. QED
  BY <1>1, <1>2, <1>3 DEF Sound

LEMMA ServiceNextInv == ServiceInv /\ [ServiceNext]_serviceVars => ServiceInv'
<1>. SUFFICES ASSUME ServiceInv, [ServiceNext]_serviceVars PROVE ServiceInv'
  OBVIOUS
<1>1. ASSUME NEW h \in Handler, Handle(h) PROVE ServiceInv'
  BY <1>1, LookUpStep, AuthenticateStep, CheckReplayStep, AuditStep,
     AuditFailsStep, AnswerStep DEF Handle
<1>. QED
  BY <1>1, ServiceTickStep, StartStep, StopStep, MachineStopsStep,
     PeerHelloStep, ServiceStutters
     DEF ServiceNext

-----------------------------------------------------------------------------
(***************************************************************************)
(* The invariant of the service: its types, a store that is as sound as    *)
(* its callers' old readings of the clock leave it, and a record for every *)
(* request that waits to use one, and copies of identities that no hello   *)
(* since has outrun the other way.                                         *)
(***************************************************************************)
THEOREM ServiceInductive == ServiceSpec => []ServiceInv
BY ServiceInitInv, ServiceNextInv, PTL DEF ServiceSpec

(***************************************************************************)
(* The registry holds identities, a request in progress what its handler   *)
(* has read so far, and every reading of the clock is of now or before.    *)
(***************************************************************************)
THEOREM ServiceTypeCorrect == ServiceSpec => []ServiceTypeOK
<1>1. ServiceInv => ServiceTypeOK
  BY DEF ServiceInv
<1>. QED
  BY <1>1, ServiceInductive, PTL

(***************************************************************************)
(* Every 202 has its own audit record, written before it, and every audit  *)
(* record an answer of FreshRecorded of its own, for any number of         *)
(* handlers and messages; only a crash of the machine loses one.           *)
(***************************************************************************)
THEOREM AnswersAreAudited == ServiceSpec => []AnsweredIsAudited
<1>1. ServiceInv => AnsweredIsAudited
  <2>. SUFFICES ASSUME ServiceInv, NEW m \in MsgId
                PROVE  /\ accepted[m] <= audited[m] + unlogged[m]
                       /\ audited[m] + unlogged[m] <= fresh[m]
    BY DEF AnsweredIsAudited
  <2>1. AtStage("admitted", m) \subseteq Handler /\ AtStage("audited", m) \subseteq Handler
    BY DEF AtStage
  <2>2. /\ Cardinality(AtStage("admitted", m)) \in Nat
        /\ Cardinality(AtStage("audited", m)) \in Nat
    BY <2>1, ServiceAssumption, FS_Subset, FS_CardinalityType
  <2>. QED
    BY <2>2 DEF ServiceInv, ServiceTypeOK, OneRecordEach, Tallied, TypeOK
<1>. QED
  BY <1>1, ServiceInductive, PTL

(***************************************************************************)
(* What was recorded stays on stable storage while its message can pass    *)
(* the clock gate, though the handlers prune with old readings.            *)
(***************************************************************************)
THEOREM RecordsStayDurable == ServiceSpec => []RecordsAreDurable
<1>1. ServiceInv => RecordsAreDurable
  BY SoundIsDurable DEF ServiceInv, RecordsAreDurable
<1>. QED
  BY <1>1, ServiceInductive, PTL

(***************************************************************************)
(* A message whose record was not taken back is admitted a second time     *)
(* only when its window has closed.                                        *)
(***************************************************************************)
THEOREM SecondAdmissionIsLate == ServiceSpec => ReadmittedOnlyLate
<1>. DEFINE Late == \A m \in MsgId :
          StillFresh(m) /\ fresh'[m] > fresh[m] => ~ClockAccepts(m, now)
<1>1. ServiceInv /\ [ServiceNext]_serviceVars => [Late]_serviceVars
  <2>. SUFFICES ASSUME ServiceInv, ServiceNext,
                       NEW m \in MsgId, StillFresh(m), fresh'[m] > fresh[m]
                PROVE  ~ClockAccepts(m, now)
    OBVIOUS
  <2>. USE DEF ServiceInv, ServiceTypeOK
  <2>1. UNCHANGED fresh \/ \E h \in Handler : CheckReplay(h)
    BY DEF ServiceNext, ServiceTick, Tick, Start, Open, Opened, OpenFails, Stop,
           ProcessEnds, MachineStops, MachineCrash, PeerHello, Handle, LookUp,
           Authenticate, Audit, AuditFails, Answer, storeVars, historyVars
  <2>2. fresh[m] \in Nat
    BY DEF TypeOK
  <2>3. PICK h \in Handler : CheckReplay(h)
    BY <2>1, <2>2
  <2>4. PICK x \in MsgId, t \in Int :
          x = job[h].msg /\ t = job[h].time /\ Reading(x, t)
    BY <2>3, Stages DEF Working, Reading, CheckReplay
  <2>5. CheckAndRecord(x, t)
    BY <2>3, <2>4 DEF CheckReplay, CheckAndRecord
  <2>6. Recorded(x, t)
    BY <2>2, <2>5 DEF CheckAndRecord, Replayed, AppendFails, WindowTooLarge,
                      CompactionFails, historyVars
  <2>7. x = m
    BY <2>2, <2>6 DEF Recorded, TypeOK
  <2>8. open /\ m \notin Live(t) /\ t <= now
    BY <2>4, <2>6, <2>7 DEF Recorded, Reading
  <2>. QED
    BY <2>8, RecordedAgainIsLate
<1>2. ServiceSpec => [][Late]_serviceVars
  <2>. HIDE DEF Late
  <2>. QED
    BY <1>1, ServiceInductive, PTL DEF ServiceSpec
<1>. QED
  BY <1>2 DEF ReadmittedOnlyLate

(***************************************************************************)
(* The identity that a request of post_envelope verifies with is the one   *)
(* that is registered or one with a shorter lifecycle, whatever hellos     *)
(* were registered since it was copied, for any number of handlers.        *)
(***************************************************************************)
THEOREM CopiesStayBehind == ServiceSpec => []CopiesAreBehind
<1>1. ServiceInv => CopiesAreBehind
  BY DEF ServiceInv
<1>. QED
  BY <1>1, ServiceInductive, PTL
=============================================================================
