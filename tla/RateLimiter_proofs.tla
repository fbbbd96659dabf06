------------------------- MODULE RateLimiter_proofs -------------------------
(***************************************************************************)
(* Proofs about RateLimiter, for every number of handlers, clients and     *)
(* minutes and for all limits.                                             *)
(***************************************************************************)
EXTENDS RateLimiter, TLAPS

(***************************************************************************)
(* The strengthening: the bucket of a client that was never given back to  *)
(* an earlier minute counts exactly what passed in its minute, and nothing *)
(* has passed in a later one.                                              *)
(***************************************************************************)
Exact(c) ==
    /\ admitted[c][buckets[c].minute] = buckets[c].requests
    /\ posted[c][buckets[c].minute] = buckets[c].posts
    /\ \A m \in Minutes : m > buckets[c].minute =>
          admitted[c][m] = 0 /\ posted[c][m] = 0

IInv ==
    /\ LimiterTypeOK
    /\ \A c \in Client : c \notin behind => Exact(c) /\ WithinLimit(c)

LEMMA InitIInv == LimiterInit => IInv
<1>. SUFFICES ASSUME LimiterInit PROVE IInv
  OBVIOUS
<1>1. LimiterTypeOK
  BY LimitAssumption DEF LimiterInit, LimiterTypeOK, EmptyBucket, Bucket
<1>2. ASSUME NEW c \in Client PROVE Exact(c) /\ WithinLimit(c)
  BY LimitAssumption DEF LimiterInit, Exact, WithinLimit, EmptyBucket
<1>. QED
  BY <1>1, <1>2 DEF IInv

(***************************************************************************)
(* One call of allow() by handler h.                                       *)
(***************************************************************************)
LEMMA AllowStep ==
    ASSUME IInv, NEW h \in Caller, Allow(h),
           NEW c \in Client, NEW m \in Minutes, NEW method \in {"GET", "POST"},
           waiting[h] = [client |-> c, method |-> method, minute |-> m]
    PROVE  IInv'
<1>. DEFINE bucket == Found(c, m)
            passed == ~Full(bucket, method)
            newbucket == IF passed THEN Counted(bucket, method) ELSE bucket
            newadmitted == IF passed THEN [admitted[c] EXCEPT ![m] = @ + 1]
                           ELSE admitted[c]
            newposted == IF passed /\ method = "POST"
                         THEN [posted[c] EXCEPT ![m] = @ + 1]
                         ELSE posted[c]
<1>1. m \in Nat
  BY LimitAssumption
<1>2. /\ bucket \in Bucket /\ bucket.minute = m
      /\ bucket.requests \in Nat /\ bucket.posts \in Nat
  BY <1>1 DEF IInv, LimiterTypeOK, Found, EmptyBucket, Bucket
<1>3. /\ Counted(bucket, method) \in Bucket
      /\ Counted(bucket, method).minute = m
      /\ Counted(bucket, method).requests = bucket.requests + 1
      /\ Counted(bucket, method).posts =
            IF method = "POST" THEN bucket.posts + 1 ELSE bucket.posts
  <2>. HIDE DEF bucket
  <2>. QED
    BY <1>2 DEF Counted, Bucket
<1>4. \A d \in Client :
         /\ admitted[d] \in [Minutes -> Nat] /\ posted[d] \in [Minutes -> Nat]
         /\ buckets[d] \in Bucket
  BY DEF IInv, LimiterTypeOK
<1>5. /\ buckets' = [buckets EXCEPT ![c] = newbucket]
      /\ admitted' = [admitted EXCEPT ![c] = newadmitted]
      /\ posted' = [posted EXCEPT ![c] = newposted]
  <2>1. /\ admitted = [admitted EXCEPT ![c] = admitted[c]]
        /\ posted = [posted EXCEPT ![c] = posted[c]]
    BY DEF IInv, LimiterTypeOK
  <2>2. CASE passed
    <3>1. /\ buckets' = [buckets EXCEPT ![c] = Counted(bucket, method)]
          /\ admitted' = [admitted EXCEPT ![c][m] = @ + 1]
          /\ posted' = IF method = "POST" THEN [posted EXCEPT ![c][m] = @ + 1]
                       ELSE posted
      BY <2>2 DEF Allow
    <3>. QED
      BY <2>1, <2>2, <3>1
  <2>3. CASE ~passed
    BY <2>1, <2>3 DEF Allow
  <2>. QED
    BY <2>2, <2>3
<1>6. /\ newbucket \in Bucket /\ newbucket.minute = m
      /\ newadmitted \in [Minutes -> Nat] /\ newposted \in [Minutes -> Nat]
  BY <1>1, <1>2, <1>3, <1>4
<1>7. /\ behind \subseteq behind' /\ behind' \subseteq Client
      /\ m < buckets[c].minute => c \in behind'
      /\ waiting' \in [Caller -> Request \cup {NoRequest}]
      /\ minute' = minute
  BY <1>1 DEF Allow, IInv, LimiterTypeOK
<1>. HIDE DEF newbucket, newadmitted, newposted, passed, bucket
<1>8. LimiterTypeOK'
  BY <1>1, <1>5, <1>6, <1>7 DEF IInv, LimiterTypeOK
<1>9. ASSUME NEW d \in Client, d \notin behind'
      PROVE  (Exact(d) /\ WithinLimit(d))'
  <2>1. Exact(d) /\ WithinLimit(d)
    BY <1>7, <1>9 DEF IInv
  <2>2. CASE d # c
    <3>1. /\ buckets'[d] = buckets[d]
          /\ admitted'[d] = admitted[d] /\ posted'[d] = posted[d]
      BY <1>5, <2>2 DEF IInv, LimiterTypeOK
    <3>. QED
      BY <2>1, <3>1 DEF Exact, WithinLimit
  <2>3. CASE d = c
    <3>1. /\ buckets'[c] = newbucket /\ admitted'[c] = newadmitted
          /\ posted'[c] = newposted
      BY <1>5 DEF IInv, LimiterTypeOK
    <3>2. buckets[c].minute \in Nat /\ m >= buckets[c].minute
      <4>1. buckets[c].minute \in Nat
        BY <1>4, LimitAssumption DEF Bucket
      <4>. QED
        BY <1>1, <1>7, <1>9, <2>3, <4>1
    <3>3. admitted[c][m] = bucket.requests /\ posted[c][m] = bucket.posts
      BY <1>1, <2>1, <2>3, <3>2 DEF Exact, Found, EmptyBucket, bucket
    <3>4. /\ newadmitted[m] = newbucket.requests
          /\ newposted[m] = newbucket.posts
          /\ newadmitted[m] <= Requests /\ newposted[m] <= Posts
      <4>1. admitted[c][m] <= Requests /\ posted[c][m] <= Posts
        BY <2>1, <2>3 DEF WithinLimit
      <4>2. passed => /\ bucket.requests + 1 <= Requests
                      /\ method = "POST" => bucket.posts + 1 <= Posts
        BY <1>2, LimitAssumption DEF Full, passed
      <4>. QED
        BY <1>1, <1>2, <1>3, <1>4, <3>3, <4>1, <4>2
           DEF newbucket, newadmitted, newposted
    <3>5. \A n \in Minutes : n # m =>
             newadmitted[n] = admitted[c][n] /\ newposted[n] = posted[c][n]
      BY <1>4 DEF newadmitted, newposted
    <3>6. Exact(c)'
      BY <1>1, <1>6, <2>1, <2>3, <3>1, <3>2, <3>4, <3>5, LimitAssumption DEF Exact
    <3>7. WithinLimit(c)'
      BY <2>1, <2>3, <3>1, <3>4, <3>5 DEF WithinLimit
    <3>. QED
      BY <2>3, <3>6, <3>7
  <2>. QED
    BY <2>2, <2>3
<1>. QED
  BY <1>8, <1>9 DEF IInv

LEMMA NextIInv == IInv /\ [LimiterNext]_limiterVars => IInv'
<1>. SUFFICES ASSUME IInv, [LimiterNext]_limiterVars PROVE IInv'
  OBVIOUS
<1>1. CASE NextMinute
  BY <1>1 DEF NextMinute, IInv, LimiterTypeOK, Exact, WithinLimit
<1>2. ASSUME NEW h \in Caller, NEW c \in Client, NEW method \in {"GET", "POST"},
             ReadClock(h, c, method)
      PROVE  IInv'
  <2>1. [client |-> c, method |-> method, minute |-> minute] \in Request
    BY DEF Request, IInv, LimiterTypeOK
  <2>2. LimiterTypeOK'
    BY <1>2, <2>1 DEF ReadClock, IInv, LimiterTypeOK
  <2>. QED
    BY <1>2, <2>2 DEF ReadClock, IInv, Exact, WithinLimit
<1>3. ASSUME NEW h \in Caller, Allow(h) PROVE IInv'
  <2>1. waiting[h] \in Request
    BY <1>3 DEF Allow, IInv, LimiterTypeOK
  <2>2. PICK c \in Client, m \in Minutes, method \in {"GET", "POST"} :
          waiting[h] = [client |-> c, method |-> method, minute |-> m]
    BY <2>1 DEF Request
  <2>. QED
    BY <1>3, <2>2, AllowStep
<1>4. CASE UNCHANGED limiterVars
  BY <1>4 DEF limiterVars, IInv, LimiterTypeOK, Exact, WithinLimit
<1>. QED
  BY <1>1, <1>2, <1>3, <1>4 DEF LimiterNext

-----------------------------------------------------------------------------
(***************************************************************************)
(* The inductive invariant holds in every reachable state.                 *)
(***************************************************************************)
THEOREM Inductive == LimiterSpec => []IInv
BY InitIInv, NextIInv, PTL DEF LimiterSpec

(***************************************************************************)
(* The limiter's state is well typed.                                      *)
(***************************************************************************)
THEOREM TypeCorrect == LimiterSpec => []LimiterTypeOK
<1>1. IInv => LimiterTypeOK
  BY DEF IInv
<1>. QED
  BY <1>1, Inductive, PTL

(***************************************************************************)
(* allow() keeps every client within its limits in every minute, as long   *)
(* as the client's requests reach the bucket in the order of their minutes.*)
(***************************************************************************)
THEOREM LimitsHoldInOrder == LimiterSpec => []LimitedInOrder
<1>1. IInv => LimitedInOrder
  BY DEF IInv, LimitedInOrder
<1>. QED
  BY <1>1, Inductive, PTL
=============================================================================
