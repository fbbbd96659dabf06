----------------------------- MODULE MCAssembly -----------------------------
(***************************************************************************)
(* Instances of AssemblyReports for TLC: the Assembly, and the adapter that*)
(* reports to it what councils elsewhere have said.                        *)
(***************************************************************************)
EXTENDS AssemblyReports, FiniteSetsExt, TLC

\* A draft that agrees with the charter, one that conflicts with it, and a
\* fork proposal, which may conflict.
MCDraft ==
    {draft \in [proposer : Member, fork : BOOLEAN, conflict : BOOLEAN] :
        draft.fork => draft.conflict}

CONSTANTS
    MaxVotes,       \* bounds of an instance: the votes in all proposals,
    MaxWithdrawals  \* and the members that withdraw

VotesCast ==
    FoldSet(LAMBDA p, sum : sum + Cardinality({m \in Member : p.votes[m] # NoVote}),
            0, Papers)

\* The later proposals are simple ones, there are fewer votes if there is one,
\* and fewer still while two are open.
Bounded ==
    /\ Cardinality(Recorded \ Active) <= MaxWithdrawals
    /\ VotesCast <= MaxVotes
    /\ next_sequence > 2 => VotesCast < MaxVotes
    /\ Cardinality(DOMAIN proposals) > 1 => VotesCast <= 1
    /\ \A id \in DOMAIN proposals :
          id.sequence > 1 => ~id.draft.conflict /\ proposals[id].advisories = 0

MCNext == Next /\ Bounded'

MCSpec == Init /\ [][MCNext]_vars

MCSymmetry == Permutations(Member) \cup Permutations(Subject)
=============================================================================
