------------------------------ MODULE Assembly ------------------------------
(***************************************************************************)
(* The Federation Assembly (src/assembly.rs): members that stand for       *)
(* representation subjects, proposals with a frozen electorate, votes and  *)
(* governance receipts.  Every operation is one call of a value that its   *)
(* caller owns, so operations follow one another in any order; one that is *)
(* refused changes nothing and is not a step.                              *)
(*                                                                         *)
(* Of a draft the model keeps the proposer, whether it is a fork proposal  *)
(* and whether its declared effects conflict with the charter.  The other  *)
(* kinds and the compatibility only label the receipt.                     *)
(***************************************************************************)
EXTENDS Naturals, FiniteSets

CONSTANTS
    Member,         \* the member ids
    Subject,        \* the normalized representation subjects
    Draft,          \* the drafts that may be submitted
    NotMember,      \* no record of a member id
    NoVote,         \* a member has no vote
    Pending,        \* a proposal has no receipt
    MaxMembers,     \* MAX_ASSEMBLY_MEMBERS
    MaxProposals,   \* MAX_ASSEMBLY_PROPOSALS
    MaxAdvisories,  \* MAX_ASSEMBLY_ADVISORIES
    MaxSequence     \* the last sequence number, u64::MAX - 1 in the code

ASSUME LimitAssumption == MaxAdvisories \in Nat /\ MaxSequence \in Nat

ASSUME MemberAssumption == IsFiniteSet(Member)

ASSUME VoteAssumption == NoVote \notin {"yes", "no", "abstain"}

ASSUME DraftAssumption ==
    Draft \subseteq [proposer : Member, fork : BOOLEAN, conflict : BOOLEAN]

ASSUME NotMemberAssumption == NotMember \notin [subject : Subject, active : BOOLEAN]

\* proposal_identity: what the id of a proposal is the digest of.
Identity ==
    [sequence : Nat \ {0}, draft : Draft, electorate : SUBSET Member]

VARIABLES
    members,        \* the records; a member that withdrew keeps its record
    subjects,       \* representation_subjects, of the active members
    proposals,      \* the proposals that are not finalized, by id
    electorates,    \* their electorate snapshots, by id
    next_sequence,  \* the sequence number of the next proposal
    receipts        \* every receipt that finalize has returned, with the
                    \* votes and the electorate that it counted

memberVars == <<members, subjects>>
proposalVars == <<proposals, electorates, next_sequence, receipts>>
vars == <<memberVars, proposalVars>>

\* BTreeMap::insert and BTreeMap::remove.
Insert(map, key, value) ==
    [k \in DOMAIN map \cup {key} |-> IF k = key THEN value ELSE map[k]]

Remove(map, key) == [k \in DOMAIN map \ {key} |-> map[k]]

Recorded == {m \in Member : members[m] # NotMember}

Active == {m \in Recorded : members[m].active}

-----------------------------------------------------------------------------
Init ==
    /\ members = [m \in Member |-> NotMember]
    /\ subjects = {}
    /\ proposals = [id \in {} |-> id]
    /\ electorates = [id \in {} |-> id]
    /\ next_sequence = 1
    /\ receipts = {}

AdmitMember(m, subject) ==
    /\ Cardinality(Recorded) < MaxMembers
    /\ m \notin Recorded
    /\ subject \notin subjects
    /\ subjects' = subjects \cup {subject}
    /\ members' = [members EXCEPT ![m] = [subject |-> subject, active |-> TRUE]]
    /\ UNCHANGED proposalVars

\* A slip to detect: who withdraws also leaves the frozen electorates.
LeaveEverything(m) ==
    /\ m \in Active
    /\ members' = [members EXCEPT ![m].active = FALSE]
    /\ subjects' = subjects \ {members[m].subject}
    /\ electorates' = [id \in DOMAIN electorates |-> electorates[id] \ {m}]
    /\ UNCHANGED <<proposals, next_sequence, receipts>>

WithdrawMember(m) ==
    /\ m \in Active
    /\ members' = [members EXCEPT ![m].active = FALSE]
    /\ subjects' = subjects \ {members[m].subject}
    /\ UNCHANGED proposalVars

\* A slip to detect: the charter gate does not decide the first status.
Ungated(draft) == "open"

\* The first status of a proposal, after assess_charter_gate.
Gated(draft) ==
    IF draft.conflict /\ ~draft.fork THEN "fork_required" ELSE "open"

\* A slip to detect: the electorate is everybody who was ever admitted.
Everyone == Recorded

\* The electorate of a proposal that is submitted now.
Electorate == Active

SubmitProposal(draft) ==
    LET id == [sequence |-> next_sequence, draft |-> draft,
               electorate |-> Electorate]
    IN  /\ Cardinality(DOMAIN proposals) < MaxProposals
        /\ draft.proposer \in Active
        /\ next_sequence <= MaxSequence
        /\ next_sequence' = next_sequence + 1
        /\ electorates' = Insert(electorates, id, Electorate)
        /\ proposals' = Insert(proposals, id,
                               [status     |-> Gated(draft),
                                votes      |-> [m \in Member |-> NoVote],
                                advisories |-> 0])
        /\ UNCHANGED <<memberVars, receipts>>

RoomForAdvisory(id) == proposals[id].advisories < MaxAdvisories

AttachAdvisory(id) ==
    /\ RoomForAdvisory(id)
    /\ proposals[id].status \in {"open", "fork_required"}
    /\ proposals' = [proposals EXCEPT ![id].advisories = @ + 1]
    /\ UNCHANGED <<memberVars, electorates, next_sequence, receipts>>

CastVote(id, m, choice) ==
    /\ id \in DOMAIN electorates
    /\ m \in electorates[id]
    /\ proposals[id].status = "open"
    /\ proposals[id].votes[m] = NoVote
    /\ proposals' = [proposals EXCEPT ![id].votes[m] = choice]
    /\ UNCHANGED <<memberVars, electorates, next_sequence, receipts>>

WithdrawProposal(id, m) ==
    /\ m = id.draft.proposer
    /\ proposals[id].status \in {"open", "fork_required"}
    /\ proposals' = [proposals EXCEPT ![id].status = "withdrawn"]
    /\ UNCHANGED <<memberVars, electorates, next_sequence, receipts>>

\* A slip to detect: two thirds are rounded down.
TwoThirdsFloor(n) == (2 * n) \div 3

\* two_thirds_ceil.
TwoThirds(n) == IF n = 0 THEN 0 ELSE (2 * n + 2) \div 3

Count(votes, choice) == Cardinality({m \in Member : votes[m] = choice})

\* quorum_met and approval_met.
Carried(votes, electorate) ==
    LET yes      == Count(votes, "yes")
        decisive == yes + Count(votes, "no")
    IN  /\ decisive + Count(votes, "abstain") >= TwoThirds(Cardinality(electorate))
        /\ decisive > 0
        /\ yes >= TwoThirds(decisive)

Outcome(id, electorate) ==
    IF proposals[id].status # "open" THEN proposals[id].status
    ELSE IF ~Carried(proposals[id].votes, electorate) THEN "rejected"
    ELSE IF id.draft.fork THEN "fork_endorsed"
    ELSE "accepted"

Finalize(id) ==
    /\ id \in DOMAIN electorates
    /\ electorates[id] = id.electorate
    /\ receipts' = receipts \cup
           {[id |-> id, outcome |-> Outcome(id, electorates[id]),
             electorate |-> electorates[id], votes |-> proposals[id].votes]}
    /\ proposals' = Remove(proposals, id)
    /\ electorates' = Remove(electorates, id)
    /\ UNCHANGED <<memberVars, next_sequence>>

Next ==
    \/ \E m \in Member :
          \/ \E subject \in Subject : AdmitMember(m, subject)
          \/ WithdrawMember(m)
    \/ \E draft \in Draft : SubmitProposal(draft)
    \/ \E id \in DOMAIN proposals :
          \/ AttachAdvisory(id)
          \/ \E m \in Member :
                \/ \E choice \in {"yes", "no", "abstain"} : CastVote(id, m, choice)
                \/ WithdrawProposal(id, m)
          \/ Finalize(id)

Spec == Init /\ [][Next]_vars

-----------------------------------------------------------------------------
Choice == {"yes", "no", "abstain", NoVote}

Proposal ==
    [status     : {"open", "fork_required", "withdrawn"},
     votes      : [Member -> Choice],
     advisories : 0 .. MaxAdvisories]

Receipt ==
    [id         : Identity,
     outcome    : {"accepted", "rejected", "withdrawn",
                   "fork_required", "fork_endorsed"},
     electorate : SUBSET Member,
     votes      : [Member -> Choice]]

\* The types of the variables.
TypeOK ==
    /\ members \in [Member -> [subject : Subject, active : BOOLEAN] \cup {NotMember}]
    /\ subjects \subseteq Subject
    /\ DOMAIN proposals \subseteq Identity
    /\ proposals \in [DOMAIN proposals -> Proposal]
    /\ electorates \in [DOMAIN proposals -> SUBSET Member]
    /\ next_sequence \in Nat \ {0}
    /\ receipts \subseteq Receipt

\* What is kept of a proposal, finalized or not.
Papers ==
    {[sequence   |-> id.sequence,
      electorate |-> electorates[id],
      votes      |-> proposals[id].votes,
      outcome    |-> Pending] : id \in DOMAIN proposals}
    \cup
    {[sequence   |-> r.id.sequence,
      electorate |-> r.electorate,
      votes      |-> r.votes,
      outcome    |-> r.outcome] : r \in receipts}

(***************************************************************************)
(* One member, one vote, also for the subjects that the members stand for: *)
(* no two votes in a proposal are of the same representation subject, even *)
(* if it withdrew and came back under another member id before or after    *)
(* the proposal was opened (ASSEMBLY.md, "Anti-Sybil assumption").         *)
(***************************************************************************)
OneSubjectOneVote ==
    \A p \in Papers : \A a, b \in {m \in Member : p.votes[m] # NoVote} :
        members[a].subject = members[b].subject => a = b

(***************************************************************************)
(* Finalizing a proposal is never refused for a drift of its electorate:   *)
(* "later joins or withdrawals do not move quorum or voting eligibility"   *)
(* (ASSEMBLY.md, "Proposal lifecycle").                                    *)
(***************************************************************************)
NoDrift ==
    \A id \in DOMAIN proposals :
        id \in DOMAIN electorates /\ electorates[id] = id.electorate

(***************************************************************************)
(* A proposal that conflicts with the charter is not permitted to rewrite  *)
(* the current lineage, however it is voted on (ASSEMBLY.md,               *)
(* "Deterministic Charter Gate"): it is accepted by no vote, and endorsed  *)
(* as a fork only if it was proposed as one.                               *)
(***************************************************************************)
CharterIsKept ==
    \A r \in receipts :
        /\ r.outcome = "accepted" => ~r.id.draft.conflict /\ ~r.id.draft.fork
        /\ r.outcome = "fork_endorsed" => r.id.draft.fork

-----------------------------------------------------------------------------
Unopened(n) ==
    [sequence   |-> n,
     electorate |-> {},
     votes      |-> [m \in Member |-> NoVote],
     outcome    |-> Pending]

\* The paper of the n-th proposal.
Paper(n) ==
    LET papers == {p \in Papers : p.sequence = n}
    IN  IF papers = {} THEN Unopened(n) ELSE CHOOSE p \in papers : TRUE

Ballot == INSTANCE Ballots WITH
    Voter    <- Member,
    Last     <- MaxSequence,
    voters   <- [n \in 1 .. MaxSequence |-> Paper(n).electorate],
    cast     <- [n \in 1 .. MaxSequence |-> Paper(n).votes],
    decision <- [n \in 1 .. MaxSequence |-> Paper(n).outcome]

(***************************************************************************)
(* The Assembly decides as Ballots promises: each proposal has one frozen  *)
(* electorate, its votes are append-only, and it is decided once, by a     *)
(* quorum and an approval of two thirds (ASSEMBLY.md, "Proposal lifecycle" *)
(* and "Quorum and approval").                                             *)
(***************************************************************************)
DecidesByBallot == Ballot!Spec
=============================================================================
