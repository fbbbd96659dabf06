------------------------------ MODULE Ballots ------------------------------
(***************************************************************************)
(* What the Federation Assembly promises about its decisions: a ballot     *)
(* opens once, with its voters; a voter votes at most once and never       *)
(* changes the vote; the ballot is decided once, by the votes cast until   *)
(* then, and nothing happens to it afterwards.  Members, capacities and    *)
(* the charter are out of sight.                                           *)
(***************************************************************************)
EXTENDS Naturals, FiniteSets

CONSTANTS
    Voter,    \* whoever may vote in some ballot
    Last,     \* ballots are numbered from 1 to Last
    NoVote,   \* has not voted
    Pending   \* has not been decided

Number == 1 .. Last

VARIABLES
    voters,   \* the electorate of each ballot, empty until it opens
    cast,     \* the vote of each voter in each ballot
    decision  \* the outcome of each ballot

vars == <<voters, cast, decision>>

Votes(n, choice) == {v \in Voter : cast[n][v] = choice}

\* A third of the voters may stay away, and a third of the decisive votes may
\* be against.
Carried(n) ==
    LET yes == Cardinality(Votes(n, "yes"))
        no  == Cardinality(Votes(n, "no"))
    IN  /\ 3 * Cardinality(Voter \ Votes(n, NoVote)) >= 2 * Cardinality(voters[n])
        /\ yes > 0
        /\ yes >= 2 * no

Init ==
    /\ voters = [n \in Number |-> {}]
    /\ cast = [n \in Number |-> [v \in Voter |-> NoVote]]
    /\ decision = [n \in Number |-> Pending]

Open(n) ==
    /\ voters[n] = {}
    /\ \E electorate \in SUBSET Voter :
          voters' = [voters EXCEPT ![n] = electorate]
    /\ UNCHANGED <<cast, decision>>

Cast(n, v) ==
    /\ decision[n] = Pending
    /\ v \in voters[n]
    /\ cast[n][v] = NoVote
    /\ \E choice \in {"yes", "no", "abstain"} :
          cast' = [cast EXCEPT ![n][v] = choice]
    /\ UNCHANGED <<voters, decision>>

Decide(n, outcome) ==
    /\ voters[n] # {}
    /\ decision[n] = Pending
    /\ outcome \in {"accepted", "fork_endorsed"} => Carried(n)
    /\ outcome = "rejected" => ~Carried(n)
    /\ decision' = [decision EXCEPT ![n] = outcome]
    /\ UNCHANGED <<voters, cast>>

Next ==
    \E n \in Number :
        \/ Open(n)
        \/ \E v \in Voter : Cast(n, v)
        \/ \E outcome \in {"accepted", "rejected", "withdrawn",
                           "fork_required", "fork_endorsed"} :
              Decide(n, outcome)

Spec == Init /\ [][Next]_vars
=============================================================================
