------------------------ MODULE MCEnvelopeAdmission ------------------------
(***************************************************************************)
(* A small instance of EnvelopeAdmission: one peer with two keys, and two  *)
(* messages.  a is accepted from the start of the run and may come again;  *)
(* b comes when the record of a can be pruned.                             *)
(***************************************************************************)
EXTENDS EnvelopeAdmission, TLC

CONSTANTS root, k1, k2, k3, p, a, b, MaxTime, MaxFailures

VARIABLE failures   \* how often the machine, the process or a file has failed

MCKey == {root, k1, k2, k3}
MCMsgId == {a, b}
MCSender == [m \in MCMsgId |-> p]
MCKeyOf == [m \in MCMsgId |-> k1]
MCAddressed == [m \in MCMsgId |-> TRUE]
MCIssued == (a :> 1) @@ (b :> 4)
MCExpires == (a :> 2) @@ (b :> 5)

Compromise ==
    [kind |-> "status", seq |-> 1, key |-> k1, status |-> "compromised",
     effective |-> 2, signers |-> {"root"}]

Recovery ==
    [kind |-> "recovery", seq |-> 2, previous |-> k1, next |-> k2,
     from |-> 3, overlap |-> 3, signers |-> {"root", "next"}]

Rotation(n, from, to, t) ==
    [kind |-> "transition", seq |-> n, previous |-> from, next |-> to,
     from |-> t, overlap |-> t + 1, signers |-> {"root", "previous", "next"}]

HelloOf(lifecycle) ==
    [peer |-> p, operational |-> k1, created |-> 0, lifecycle |-> lifecycle]

\* One history in two prefixes, a record out of order, and the document of the root.
MCHello ==
    {HelloOf(<<>>), HelloOf(<<Compromise>>), HelloOf(<<Recovery>>),
     [HelloOf(<<>>) EXCEPT !.operational = root]}

\* One hello, for the runs that are about the clock.
MCOneHello == {HelloOf(<<>>)}

\* A root key that signs a second history beside the first.
MCForkedHello ==
    {HelloOf(<<>>), HelloOf(<<Compromise>>),
     HelloOf(<<Rotation(1, k1, k2, 2)>>),
     HelloOf(<<Rotation(1, k1, k2, 2), Rotation(2, k2, k3, 4)>>)}

\* A step in which the store neither finds the record nor makes it.
StoreFails(h) ==
    /\ job[h].at = "checking"
    /\ job[h].msg \notin Live(job[h].time)
    /\ UNCHANGED fresh

\* The bounds of the model: the clock stops at MaxTime, and MaxFailures steps
\* of a behaviour are the end of the process or of the machine, or a failure
\* of the store or of its directory.
Fail == failures < MaxFailures /\ failures' = failures + 1

MCInit == ServiceInit /\ failures = 0

MCTick ==
    /\ now < MaxTime
    /\ ServiceTick
    /\ UNCHANGED failures

MCNext ==
    \/ MCTick
    \/ Start /\ IF open' THEN UNCHANGED failures ELSE Fail
    \/ (Stop \/ MachineStops) /\ Fail
    \/ \E hello \in Hello : PeerHello(hello) /\ UNCHANGED failures
    \/ \E h \in Handler :
          Handle(h) /\ IF StoreFails(h) THEN Fail ELSE UNCHANGED failures

MCSpec == MCInit /\ [][MCNext]_<<serviceVars, failures>>
=============================================================================
