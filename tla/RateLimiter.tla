---------------------------- MODULE RateLimiter ----------------------------
(***************************************************************************)
(* The request limiter of the service (src/api.rs, RateLimiter and         *)
(* security_middleware): one bucket for every client, which counts the     *)
(* requests and the posts of one minute.  A request reads the clock before *)
(* it takes the lock of the buckets, so the minutes that reach a bucket    *)
(* may be out of order.                                                    *)
(***************************************************************************)
EXTENDS Integers

CONSTANTS
    Caller,       \* the requests that may be in progress at once
    Client,       \* the addresses that requests are attributed to
    Requests,     \* API_REQUESTS_PER_MINUTE
    Posts,        \* API_POSTS_PER_MINUTE
    NoRequest,    \* an idle handler
    Minutes       \* the minutes the clock may show; the bound of the model

ASSUME LimitAssumption ==
    /\ Minutes \subseteq Nat
    /\ 0 \in Minutes
    /\ Requests \in Nat
    /\ Posts \in Nat
    /\ NoRequest \notin [client : Client, method : {"GET", "POST"}, minute : Minutes]

VARIABLES
    minute,       \* the minute of the host's clock
    buckets,      \* RateLimiter.buckets
    waiting,      \* the request of each caller, waiting for the lock
    admitted,     \* [Client -> [Minutes -> how many requests of a minute passed]]
    posted,       \* the same of posts
    behind        \* clients whose bucket was given back to an earlier minute

limiterVars == <<minute, buckets, waiting, admitted, posted, behind>>

Request == [client : Client, method : {"GET", "POST"}, minute : Minutes]

Bucket == [minute : Minutes, requests : Nat, posts : Nat]

EmptyBucket(m) == [minute |-> m, requests |-> 0, posts |-> 0]

LimiterInit ==
    /\ minute = 0
    /\ buckets = [c \in Client |-> EmptyBucket(0)]
    /\ waiting = [h \in Caller |-> NoRequest]
    /\ admitted = [c \in Client |-> [m \in Minutes |-> 0]]
    /\ posted = [c \in Client |-> [m \in Minutes |-> 0]]
    /\ behind = {}

NextMinute ==
    /\ minute + 1 \in Minutes
    /\ minute' = minute + 1
    /\ UNCHANGED <<buckets, waiting, admitted, posted, behind>>

\* security_middleware reads the clock, before anything else.
ReadClock(h, c, method) ==
    /\ waiting[h] = NoRequest
    /\ waiting' = [waiting EXCEPT ![h] = [client |-> c, method |-> method,
                                          minute |-> minute]]
    /\ UNCHANGED <<minute, buckets, admitted, posted, behind>>

\* The bucket that a request of minute m finds: its own, or a new one.
Found(c, m) == IF buckets[c].minute = m THEN buckets[c] ELSE EmptyBucket(m)

\* A slip to detect: one request more than the limit.
Overfull(bucket, method) ==
    \/ bucket.requests > Requests
    \/ method = "POST" /\ bucket.posts > Posts

Full(bucket, method) ==
    \/ bucket.requests >= Requests
    \/ method = "POST" /\ bucket.posts >= Posts

Counted(bucket, method) ==
    [minute   |-> bucket.minute,
     requests |-> bucket.requests + 1,
     posts    |-> IF method = "POST" THEN bucket.posts + 1 ELSE bucket.posts]

\* allow(), under the lock: the bucket changes its minute even if it refuses.
Allow(h) ==
    /\ waiting[h] # NoRequest
    /\ LET c == waiting[h].client
           m == waiting[h].minute
           method == waiting[h].method
           bucket == Found(c, m)
       IN /\ behind' = IF m < buckets[c].minute THEN behind \cup {c} ELSE behind
          /\ \/ /\ Full(bucket, method)
                /\ buckets' = [buckets EXCEPT ![c] = bucket]
                /\ UNCHANGED <<admitted, posted>>
             \/ /\ ~Full(bucket, method)
                /\ buckets' = [buckets EXCEPT ![c] = Counted(bucket, method)]
                /\ admitted' = [admitted EXCEPT ![c][m] = @ + 1]
                /\ posted' = IF method = "POST" THEN [posted EXCEPT ![c][m] = @ + 1]
                             ELSE posted
    /\ waiting' = [waiting EXCEPT ![h] = NoRequest]
    /\ UNCHANGED minute

LimiterNext ==
    \/ NextMinute
    \/ \E h \in Caller :
          \/ \E c \in Client, method \in {"GET", "POST"} : ReadClock(h, c, method)
          \/ Allow(h)

LimiterSpec == LimiterInit /\ [][LimiterNext]_limiterVars

-----------------------------------------------------------------------------
\* The types of the variables.
LimiterTypeOK ==
    /\ minute \in Minutes
    /\ buckets \in [Client -> Bucket]
    /\ waiting \in [Caller -> Request \cup {NoRequest}]
    /\ admitted \in [Client -> [Minutes -> Nat]]
    /\ posted \in [Client -> [Minutes -> Nat]]
    /\ behind \subseteq Client

WithinLimit(c) ==
    \A m \in Minutes : admitted[c][m] <= Requests /\ posted[c][m] <= Posts

(***************************************************************************)
(* A client whose requests reach the bucket in the order of their minutes  *)
(* has no minute in which more than the limits passed, whatever the        *)
(* interleaving of its requests and those of the others.                   *)
(***************************************************************************)
LimitedInOrder == \A c \in Client : c \notin behind => WithinLimit(c)

(***************************************************************************)
(* "120 total requests / client / minute, 30 POST requests / client /      *)
(* minute" (API.md): no client has more in any minute.                     *)
(***************************************************************************)
Limited == \A c \in Client : WithinLimit(c)
=============================================================================
