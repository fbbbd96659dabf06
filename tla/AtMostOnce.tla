----------------------------- MODULE AtMostOnce -----------------------------
(***************************************************************************)
(* What replay protection promises, without logs, tables, pruning or       *)
(* restarts (API.md, "Replay retention and compaction"; CRYPTOGRAPHY.md,   *)
(* "Durable replay protection"): a message is admitted inside its time     *)
(* window, and it is admitted once, unless a crash takes admissions back.  *)
(* It can do so only when what was admitted last was left unsynced.        *)
(***************************************************************************)
EXTENDS Integers

CONSTANTS
    MsgId,        \* the message ids
    Opens,        \* [MsgId -> Int], first second of the window of each
    Closes        \* [MsgId -> Int], last second of the window of each

VARIABLES
    now,          \* the time
    admitted,     \* how many times each id was admitted
    lost,         \* how many of these admissions were taken back
    synced        \* no admission can be taken back

Init ==
    /\ now = 0
    /\ admitted = [m \in MsgId |-> 0]
    /\ lost = [m \in MsgId |-> 0]
    /\ synced = TRUE

Pass ==
    /\ now' = now + 1
    /\ UNCHANGED <<admitted, lost, synced>>

\* An admission may sync what the ones before it left unsynced.
Admit(m) ==
    /\ now \in Opens[m] .. Closes[m]
    /\ admitted[m] = lost[m]
    /\ admitted' = [admitted EXCEPT ![m] = @ + 1]
    /\ synced => synced'
    /\ synced' \in BOOLEAN
    /\ UNCHANGED <<now, lost>>

\* A sync fails, or repairs what an earlier one left.
Sync ==
    /\ synced' \in BOOLEAN
    /\ UNCHANGED <<now, admitted, lost>>

\* A crash takes the admissions of some messages back.
Forget(S) ==
    /\ ~synced
    /\ synced' = TRUE
    /\ lost' = [m \in MsgId |-> IF m \in S THEN admitted[m] ELSE lost[m]]
    /\ UNCHANGED <<now, admitted>>

Next ==
    \/ Pass
    \/ Sync
    \/ \E m \in MsgId : Admit(m)
    \/ \E S \in SUBSET MsgId : Forget(S)

Spec == Init /\ [][Next]_<<now, admitted, lost, synced>>
=============================================================================
