------------------------- MODULE EnvelopeAdmission -------------------------
(***************************************************************************)
(* The service (src/api.rs) around the replay store: the registry of       *)
(* introduced peers, post_peer_hello and post_envelope, whose handlers run *)
(* concurrently and share the registry, the clock, the replay store and    *)
(* the audit log.                                                          *)
(*                                                                         *)
(* A request of post_envelope takes four steps, between which others may   *)
(* run: it copies the peer's identity out of the registry, reads the clock *)
(* and verifies, takes the lock of the replay store, and emits the audit   *)
(* record and answers.  The audit log is the file that the program always  *)
(* opens: its records are written and flushed, and never fsynced.          *)
(***************************************************************************)
EXTENDS Lifecycle, ReplayStore

CONSTANTS
    Handler,      \* the requests that may be in progress at once
    Peer,         \* the remote nodes
    Hello,        \* the peer/hello requests that may arrive
    Sender,       \* [MsgId -> Peer]
    KeyOf,        \* [MsgId -> Key], the key that signed each
    Addressed     \* [MsgId -> BOOLEAN], the recipient is the local node

ASSUME ServiceAssumption ==
    /\ IsFiniteSet(Handler)
    /\ Sender \in [MsgId -> Peer]
    /\ KeyOf \in [MsgId -> Key]
    /\ Addressed \in [MsgId -> BOOLEAN]
    /\ \A h \in Hello :
          /\ h.peer \in Peer
          /\ h.operational \in Key /\ h.created \in Int
          /\ h.lifecycle \in Seq(AnyRecord)

VARIABLES
    peers,        \* ApiInner.peers: [Peer -> identity, or NoIdentity]
    job,          \* [Handler -> the request in progress]
    audited       \* how many envelope_admitted records of each id are logged

\* History variables, that only the properties read.
VARIABLES
    unlogged,     \* how many of these records crashes of the machine took
    accepted      \* how many times each id was answered 202

answerVars == <<audited, unlogged, accepted>>
serviceVars == <<vars, peers, job, answerVars>>

Idle == [at |-> "idle"]

Envelope(m) ==
    [key |-> KeyOf[m], signer |-> KeyOf[m],
     issued |-> Issued[m], expires |-> Expires[m]]

\* rebuild_peer_identity; a hello is a document, its lifecycle and its sender.
Introduced(hello) == Rebuilt(hello, hello.lifecycle)

\* A slip to detect: only a state of the same sequence number is compared.
ReplacesInPlace(id, known) ==
    /\ known # NoIdentity
    /\ id.seq = known.seq
    /\ id # known

\* The hello neither rolls back what is registered nor replaces it in place.
RollsBack(id, known) ==
    /\ known # NoIdentity
    /\ \/ id.seq < known.seq
       \/ id.seq = known.seq /\ id # known

-----------------------------------------------------------------------------
ServiceInit ==
    /\ Init
    /\ peers = [p \in Peer |-> NoIdentity]
    /\ job = [h \in Handler |-> Idle]
    /\ audited = [m \in MsgId |-> 0]
    /\ unlogged = [m \in MsgId |-> 0]
    /\ accepted = [m \in MsgId |-> 0]

\* ApiState::new: the replay store is opened and no peer is introduced.
Start ==
    /\ Open \/ OpenFails
    /\ UNCHANGED <<peers, job, answerVars>>

\* What is in memory only: the registry, and the requests in progress.
MemoryLost ==
    /\ peers' = [p \in Peer |-> NoIdentity]
    /\ job' = [h \in Handler |-> Idle]

\* The process ends, in whatever step its handlers are.
Stop ==
    /\ ProcessEnds
    /\ MemoryLost
    /\ UNCHANGED answerVars

\* The machine stops: some of the audit records may not have reached the disk.
MachineStops ==
    /\ MachineCrash
    /\ MemoryLost
    /\ \E kept \in [MsgId -> UNION {0 .. audited[m] : m \in MsgId}] :
          /\ \A m \in MsgId : kept[m] <= audited[m]
          /\ audited' = kept
          /\ unlogged' = [m \in MsgId |-> unlogged[m] + audited[m] - kept[m]]
    /\ UNCHANGED accepted

ServiceTick ==
    /\ Tick
    /\ UNCHANGED <<peers, job, answerVars>>

(***************************************************************************)
(* post_peer_hello, under the write lock of the registry.  The audit       *)
(* record that follows does not undo the introduction when it fails.       *)
(***************************************************************************)
PeerHello(hello) ==
    /\ open
    /\ Introduced(hello) # NoIdentity
    /\ ~RollsBack(Introduced(hello), peers[hello.peer])
    /\ peers' = [peers EXCEPT ![hello.peer] = Introduced(hello)]
    /\ UNCHANGED <<now, storeVars, job, answerVars>>

\* post_envelope copies the sender's identity; an unknown sender is refused.
LookUp(h, m) ==
    /\ open
    /\ job[h].at = "idle"
    /\ peers[Sender[m]] # NoIdentity
    /\ job' = [job EXCEPT ![h] = [at       |-> "authenticating",
                                  msg      |-> m,
                                  identity |-> peers[Sender[m]]]]
    /\ UNCHANGED <<now, storeVars, peers, answerVars>>

\* The request is over and leaves no trace: refused as 400, 401 or 409.
Refuse(h) == job' = [job EXCEPT ![h] = Idle]

(***************************************************************************)
(* post_envelope reads the clock, verifies the envelope under the copied   *)
(* identity, and checks that it is addressed to the local node.            *)
(***************************************************************************)
Authenticate(h) ==
    /\ job[h].at = "authenticating"
    /\ LET m == job[h].msg IN
       IF Authentic(job[h].identity, Envelope(m), now) /\ Addressed[m]
       THEN job' = [job EXCEPT ![h] = [at   |-> "checking",
                                       msg  |-> m,
                                       time |-> now]]
       ELSE Refuse(h)
    /\ UNCHANGED <<now, storeVars, peers, answerVars>>

(***************************************************************************)
(* post_envelope takes the lock of the replay store: a replay is refused,  *)
(* a failure of the store answers 503, and a fresh message goes on to its  *)
(* admission, which accepts every message class as data.                   *)
(***************************************************************************)
CheckReplay(h) ==
    /\ job[h].at = "checking"
    /\ LET m == job[h].msg
           t == job[h].time
       IN \/ /\ \/ Replayed(m, t)
                \/ AppendFails(m, t)
                \/ WindowTooLarge(m, t)
                \/ CompactionFails(m, t)
             /\ Refuse(h)
          \/ /\ Recorded(m, t)
             /\ job' = [job EXCEPT ![h] = [at |-> "admitted", msg |-> m]]
    /\ UNCHANGED <<peers, answerVars>>

\* The audit record is written.
Audit(h) ==
    /\ job[h].at = "admitted"
    /\ audited' = [audited EXCEPT ![job[h].msg] = @ + 1]
    /\ job' = [job EXCEPT ![h].at = "audited"]
    /\ UNCHANGED <<now, storeVars, peers, unlogged, accepted>>

\* A slip to detect: the failure of the audit log is ignored.
AuditFailureIgnored(h) ==
    /\ job[h].at = "admitted"
    /\ job' = [job EXCEPT ![h].at = "audited"]
    /\ UNCHANGED <<now, storeVars, peers, answerVars>>

\* The audit record is not written whole: 500, and no answer of 202.
AuditFails(h) ==
    /\ job[h].at = "admitted"
    /\ Refuse(h)
    /\ UNCHANGED <<now, storeVars, peers, answerVars>>

\* The receipt: 202.
Answer(h) ==
    /\ job[h].at = "audited"
    /\ accepted' = [accepted EXCEPT ![job[h].msg] = @ + 1]
    /\ job' = [job EXCEPT ![h] = Idle]
    /\ UNCHANGED <<now, storeVars, peers, audited, unlogged>>

Handle(h) ==
    \/ \E m \in MsgId : LookUp(h, m)
    \/ Authenticate(h)
    \/ CheckReplay(h)
    \/ Audit(h)
    \/ AuditFails(h)
    \/ Answer(h)

ServiceNext ==
    \/ ServiceTick
    \/ Start
    \/ Stop
    \/ MachineStops
    \/ \E hello \in Hello : PeerHello(hello)
    \/ \E h \in Handler : Handle(h)

ServiceSpec == ServiceInit /\ [][ServiceNext]_serviceVars

-----------------------------------------------------------------------------
\* A request in progress at time t. The time of one that passed the clock gate
\* is a reading of the clock, of t or of before.
InProgress(request, t) ==
    \/ request = Idle
    \/ /\ request.msg \in MsgId
       /\ \/ request.at = "authenticating" /\ IsIdentity(request.identity)
          \/ /\ request.at = "checking"
             /\ request.time \in Int /\ request.time <= t
             /\ ClockAccepts(request.msg, request.time)
          \/ /\ request.at \in {"admitted", "audited"}
             /\ request = [at |-> request.at, msg |-> request.msg]

\* The registry, the requests and the records.
Registered ==
    /\ peers = [p \in Peer |-> peers[p]]
    /\ \A p \in Peer : peers[p] # NoIdentity => IsIdentity(peers[p])

Working ==
    /\ job = [h \in Handler |-> job[h]]
    /\ \A h \in Handler : InProgress(job[h], now)

Tallied ==
    /\ audited \in [MsgId -> Nat]
    /\ unlogged \in [MsgId -> Nat]
    /\ accepted \in [MsgId -> Nat]

\* The types of the service's own variables.
ServiceTypeOK == TypeOK /\ Registered /\ Working /\ Tallied

(***************************************************************************)
(* An audit record was written for every 202 and a replay record for every *)
(* audit record, through ends of the process and audit failures between    *)
(* the three: the order "durable replay check/record, admission, audit,    *)
(* answer" of API.md.  Only a crash of the machine may take an audit       *)
(* record of an answered message away.                                     *)
(***************************************************************************)
AnsweredIsAudited ==
    \A m \in MsgId :
        /\ accepted[m] <= audited[m] + unlogged[m]
        /\ audited[m] + unlogged[m] <= fresh[m]

(***************************************************************************)
(* post_envelope verifies with a copy of the registered identity, made     *)
(* before the read lock was released.  Whatever hellos have taken the      *)
(* write lock since, in whatever order, the copy is what is registered or  *)
(* a state of the same peer with a shorter lifecycle, and never one that   *)
(* the registry does not know yet (peer_lifecycle_rollback_rejected).      *)
(***************************************************************************)
CopiesAreBehind ==
    \A h \in Handler :
        job[h].at = "authenticating" =>
            LET known == peers[Sender[job[h].msg]] IN
            /\ known # NoIdentity
            /\ \/ job[h].identity = known
               \/ job[h].identity.seq < known.seq

(***************************************************************************)
(* What a freshly recorded message proves on disk survives the handlers'   *)
(* stale clock readings: the store prunes with them, but never a message   *)
(* that the clock gate still passes.                                       *)
(***************************************************************************)
RecordsAreDurable == FreshIsDurable

(***************************************************************************)
(* How stale a reading of the clock must be to admit a message twice while *)
(* its first record is kept: a second admission happens only after the     *)
(* message's window has closed, by a handler that read the clock before.   *)
(***************************************************************************)
ReadmittedOnlyLate ==
    [][\A m \in MsgId :
          StillFresh(m) /\ fresh'[m] > fresh[m] => ~ClockAccepts(m, now)]_serviceVars

(***************************************************************************)
(* No message is admitted twice: "that is the complete interval in which a *)
(* previously accepted message could still pass the Phase 2 clock gate.    *)
(* Older records may therefore be pruned safely" (API.md, and the comment  *)
(* of DurableReplayStore).                                                 *)
(***************************************************************************)
AdmittedOnce == AtMostOnceFresh

(***************************************************************************)
(* A later hello "may not roll back" the retained lifecycle state          *)
(* (API.md): a key that the registry holds revoked or compromised is not   *)
(* active in a state that replaces it.                                     *)
(***************************************************************************)
DeadKeysStayDead ==
    [][open /\ open' =>
        \A p \in Peer : peers[p] # NoIdentity /\ peers'[p] # NoIdentity =>
            \A k \in Dead(peers[p]) :
                k \in DOMAIN peers'[p].keys => k \in Dead(peers'[p])]_serviceVars

-----------------------------------------------------------------------------
(***************************************************************************)
(* The inductive strengthening of AnsweredIsAudited: a request that waits  *)
(* for its audit record, or for its answer, has still to use the record it *)
(* has, so the requests at a stage are counted with those that are past it.*)
(***************************************************************************)
AtStage(stage, m) == {h \in Handler : job[h] = [at |-> stage, msg |-> m]}

OneRecordEach ==
    \A m \in MsgId :
        LET written == audited[m] + unlogged[m] IN
        /\ Cardinality(AtStage("admitted", m)) + written <= fresh[m]
        /\ Cardinality(AtStage("audited", m)) + accepted[m] <= written

ServiceInv == ServiceTypeOK /\ Sound /\ OneRecordEach /\ CopiesAreBehind
=============================================================================
