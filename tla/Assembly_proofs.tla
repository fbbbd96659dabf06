-------------------------- MODULE Assembly_proofs --------------------------
(***************************************************************************)
(* Proofs about Assembly, for all members, subjects, drafts and limits:    *)
(* its safety properties, and that it implements Ballots; and about the    *)
(* adapter that reports to it.                                             *)
(***************************************************************************)
EXTENDS AssemblyReports, Sequences, FiniteSetTheorems, TLAPS

-----------------------------------------------------------------------------
(***************************************************************************)
(* The strengthening.  The members of an electorate stand for different    *)
(* subjects because they were active together (subjects holds exactly the  *)
(* subjects of the active members), and a record keeps its subject.        *)
(***************************************************************************)
Distinct(group) ==
    \A a, b \in group : members[a].subject = members[b].subject => a = b

ActiveAreDistinct ==
    /\ Distinct(Active)
    /\ \A m \in Active : members[m].subject \in subjects

ElectoratesAreDistinct ==
    \A id \in DOMAIN proposals :
        /\ electorates[id] = id.electorate
        /\ electorates[id] \subseteq Recorded
        /\ Distinct(electorates[id])

VotersAreElectors ==
    \A id \in DOMAIN proposals : \A m \in Member :
        proposals[id].votes[m] # NoVote => m \in electorates[id]

ReceiptsAreDistinct ==
    \A r \in receipts :
        /\ r.electorate \subseteq Recorded
        /\ Distinct(r.electorate)
        /\ \A m \in Member : r.votes[m] # NoVote => m \in r.electorate

\* A proposal has the status of its draft, unless it was withdrawn.
StatusIsGated ==
    \A id \in DOMAIN proposals :
        proposals[id].status \in {Gated(id.draft), "withdrawn"}

IInv ==
    /\ TypeOK
    /\ ActiveAreDistinct
    /\ ElectoratesAreDistinct
    /\ VotersAreElectors
    /\ ReceiptsAreDistinct
    /\ StatusIsGated
    /\ CharterIsKept

MemberRecord == [subject : Subject, active : BOOLEAN]

LEMMA RecordIsNotNone == \A r \in MemberRecord : r # NotMember
<1>. DEFINE R == MemberRecord
<1>1. NotMember \notin R
  BY NotMemberAssumption DEF MemberRecord
<1>. HIDE DEF R
<1>. QED
  BY <1>1 DEF R

LEMMA InitIInv == Init => IInv
<1>. SUFFICES ASSUME Init PROVE IInv
  OBVIOUS
<1>1. DOMAIN proposals = {} /\ proposals = [id \in {} |-> id]
      /\ electorates = [id \in {} |-> id] /\ receipts = {}
  BY DEF Init
<1>2. Recorded = {} /\ Active = {}
  BY DEF Init, Recorded, Active
<1>3. TypeOK
  BY <1>1 DEF Init, TypeOK
<1>. QED
  BY <1>1, <1>2, <1>3 DEF IInv, ActiveAreDistinct, Distinct,
     ElectoratesAreDistinct, VotersAreElectors, ReceiptsAreDistinct,
     StatusIsGated, CharterIsKept

-----------------------------------------------------------------------------
(***************************************************************************)
(* What the members do: no record is removed, and each keeps its subject.  *)
(***************************************************************************)
RecordsStay ==
    \A m \in Recorded : m \in Recorded' /\ members'[m].subject = members[m].subject

LEMMA RecordsStayKeeps ==
    ASSUME IInv, TypeOK', ActiveAreDistinct', RecordsStay, UNCHANGED proposalVars
    PROVE  IInv'
<1>1. /\ proposals' = proposals /\ electorates' = electorates
      /\ receipts' = receipts
  BY DEF proposalVars
<1>2. ASSUME NEW group, group \subseteq Recorded, Distinct(group)
      PROVE  group \subseteq Recorded' /\ Distinct(group)'
  BY <1>2 DEF RecordsStay, Distinct
<1>3. ElectoratesAreDistinct'
  BY <1>1, <1>2 DEF IInv, ElectoratesAreDistinct
<1>4. ReceiptsAreDistinct'
  BY <1>1, <1>2 DEF IInv, ReceiptsAreDistinct
<1>5. VotersAreElectors' /\ StatusIsGated' /\ CharterIsKept'
  BY <1>1 DEF IInv, VotersAreElectors, StatusIsGated, CharterIsKept, Gated
<1>. QED
  BY <1>3, <1>4, <1>5 DEF IInv

LEMMA AdmitKeeps ==
    ASSUME IInv, NEW m \in Member, NEW subject \in Subject, AdmitMember(m, subject)
    PROVE  IInv'
<1>1. /\ m \notin Recorded /\ subject \notin subjects
      /\ subjects' = subjects \cup {subject}
      /\ members' = [members EXCEPT ![m] = [subject |-> subject, active |-> TRUE]]
      /\ UNCHANGED proposalVars
      /\ members \in [Member -> MemberRecord \cup {NotMember}]
  BY DEF AdmitMember, IInv, TypeOK, MemberRecord
<1>. DEFINE new == [subject |-> subject, active |-> TRUE]
<1>2. new \in MemberRecord /\ new # NotMember
      /\ new.subject = subject /\ new.active = TRUE
  <2>1. new \in MemberRecord
    BY DEF MemberRecord
  <2>. QED
    BY <2>1, RecordIsNotNone
<1>3. /\ members'[m] = new
      /\ \A n \in Member \ {m} : members'[n] = members[n]
      /\ members' \in [Member -> MemberRecord \cup {NotMember}]
  BY <1>1, <1>2
<1>. HIDE DEF new
<1>4. TypeOK'
  BY <1>1, <1>3 DEF IInv, TypeOK, proposalVars, MemberRecord
<1>5. RecordsStay
  BY <1>1, <1>3 DEF RecordsStay, Recorded
<1>6. ActiveAreDistinct'
  <2>1. Active' = Active \cup {m}
    BY <1>1, <1>2, <1>3 DEF Active, Recorded
  <2>2. \A n \in Active : n # m /\ members'[n] = members[n]
    BY <1>1, <1>3 DEF Active, Recorded
  <2>. QED
    BY <1>1, <1>2, <1>3, <2>1, <2>2 DEF IInv, ActiveAreDistinct, Distinct
<1>. QED
  BY <1>1, <1>4, <1>5, <1>6, RecordsStayKeeps

LEMMA WithdrawMemberKeeps ==
    ASSUME IInv, NEW m \in Member, WithdrawMember(m)
    PROVE  IInv'
<1>1. /\ m \in Active /\ m \in Recorded
      /\ subjects' = subjects \ {members[m].subject}
      /\ members' = [members EXCEPT ![m].active = FALSE]
      /\ UNCHANGED proposalVars
      /\ members \in [Member -> MemberRecord \cup {NotMember}]
  BY DEF WithdrawMember, Active, IInv, TypeOK, MemberRecord
<1>2. members[m] \in MemberRecord
  BY <1>1 DEF Recorded
<1>3. /\ members'[m] = [subject |-> members[m].subject, active |-> FALSE]
      /\ \A n \in Member \ {m} : members'[n] = members[n]
      /\ members' \in [Member -> MemberRecord \cup {NotMember}]
  BY <1>1, <1>2 DEF MemberRecord
<1>4. members'[m] # NotMember
  <2>1. members'[m] \in MemberRecord
    BY <1>2, <1>3 DEF MemberRecord
  <2>. QED
    BY <2>1, RecordIsNotNone
<1>5. TypeOK'
  BY <1>1, <1>3 DEF IInv, TypeOK, proposalVars, MemberRecord
<1>6. RecordsStay
  BY <1>1, <1>3, <1>4 DEF RecordsStay, Recorded
<1>7. ActiveAreDistinct'
  <2>1. Active' = Active \ {m}
    BY <1>1, <1>3 DEF Active, Recorded
  <2>2. \A n \in Active \ {m} :
           members'[n] = members[n] /\ members[n].subject # members[m].subject
    BY <1>1, <1>3 DEF Active, Recorded, IInv, ActiveAreDistinct, Distinct
  <2>. QED
    BY <1>1, <2>1, <2>2 DEF IInv, ActiveAreDistinct, Distinct
<1>. QED
  BY <1>1, <1>5, <1>6, <1>7, RecordsStayKeeps

-----------------------------------------------------------------------------
(***************************************************************************)
(* What is done to proposals leaves the members alone.                     *)
(***************************************************************************)
LEMMA MembersStay ==
    ASSUME UNCHANGED memberVars
    PROVE  /\ Recorded' = Recorded /\ Active' = Active
           /\ \A group : Distinct(group)' <=> Distinct(group)
           /\ ActiveAreDistinct' <=> ActiveAreDistinct
<1>1. members' = members /\ subjects' = subjects
  BY DEF memberVars
<1>2. Recorded' = Recorded /\ Active' = Active
  BY <1>1 DEF Recorded, Active
<1>. QED
  BY <1>1, <1>2 DEF Distinct, ActiveAreDistinct

LEMMA SubmitKeeps ==
    ASSUME IInv, NEW draft \in Draft, SubmitProposal(draft)
    PROVE  IInv'
<1>. DEFINE id == [sequence |-> next_sequence, draft |-> draft,
                   electorate |-> Active]
            new == [status |-> Gated(draft), votes |-> [m \in Member |-> NoVote],
                    advisories |-> 0]
<1>1. /\ UNCHANGED memberVars /\ receipts' = receipts
      /\ next_sequence' = next_sequence + 1
      /\ electorates' = Insert(electorates, id, Active)
      /\ proposals' = Insert(proposals, id, new)
  BY DEF SubmitProposal, Electorate
<1>2. /\ id \in Identity /\ id.electorate = Active /\ id.draft = draft
      /\ Active \in SUBSET Member /\ Active \subseteq Recorded
  BY DraftAssumption DEF IInv, TypeOK, Identity, Active, Recorded
<1>3. /\ new \in Proposal
      /\ new.status = Gated(draft)
      /\ \A m \in Member : new.votes[m] = NoVote
  BY LimitAssumption DEF Proposal, Gated, Choice
<1>4. /\ proposals \in [DOMAIN proposals -> Proposal]
      /\ electorates \in [DOMAIN proposals -> SUBSET Member]
      /\ DOMAIN proposals \subseteq Identity
  BY DEF IInv, TypeOK
<1>. HIDE DEF id, new
<1>5. /\ DOMAIN proposals' = DOMAIN proposals \cup {id}
      /\ proposals' \in [DOMAIN proposals' -> Proposal]
      /\ proposals'[id] = new
      /\ \A i \in DOMAIN proposals \ {id} : proposals'[i] = proposals[i]
  BY <1>1, <1>3, <1>4 DEF Insert
<1>6. /\ electorates' \in [DOMAIN proposals' -> SUBSET Member]
      /\ electorates'[id] = Active
      /\ \A i \in DOMAIN proposals \ {id} : electorates'[i] = electorates[i]
  BY <1>1, <1>2, <1>4, <1>5 DEF Insert
<1>7. TypeOK'
  BY <1>1, <1>2, <1>4, <1>5, <1>6 DEF IInv, TypeOK, memberVars
<1>8. Distinct(Active)
  BY DEF IInv, ActiveAreDistinct
<1>9. ElectoratesAreDistinct'
  BY <1>1, <1>2, <1>5, <1>6, <1>8, MembersStay DEF IInv, ElectoratesAreDistinct
<1>10. VotersAreElectors'
  BY <1>3, <1>5, <1>6 DEF IInv, VotersAreElectors
<1>11. ReceiptsAreDistinct'
  BY <1>1, MembersStay DEF IInv, ReceiptsAreDistinct
<1>12. StatusIsGated'
  BY <1>2, <1>3, <1>5 DEF IInv, StatusIsGated, Gated
<1>13. CharterIsKept' /\ ActiveAreDistinct'
  BY <1>1, MembersStay DEF IInv, CharterIsKept
<1>. QED
  BY <1>7, <1>9, <1>10, <1>11, <1>12, <1>13 DEF IInv

(***************************************************************************)
(* A proposal that is still open is changed: its status only to withdrawn, *)
(* its votes only by a member of its electorate.                           *)
(***************************************************************************)
LEMMA RevisedKeeps ==
    ASSUME IInv, NEW id \in DOMAIN proposals, NEW p \in Proposal,
           proposals' = [proposals EXCEPT ![id] = p],
           p.status \in {proposals[id].status, "withdrawn"},
           \A m \in Member : p.votes[m] # NoVote => m \in electorates[id],
           UNCHANGED <<memberVars, electorates, next_sequence, receipts>>
    PROVE  IInv'
<1>1. /\ proposals \in [DOMAIN proposals -> Proposal]
      /\ UNCHANGED memberVars /\ receipts' = receipts
      /\ electorates' = electorates /\ next_sequence' = next_sequence
  BY DEF IInv, TypeOK
<1>2. /\ DOMAIN proposals' = DOMAIN proposals
      /\ proposals'[id] = p
      /\ \A i \in DOMAIN proposals \ {id} : proposals'[i] = proposals[i]
      /\ proposals' \in [DOMAIN proposals' -> Proposal]
  BY <1>1
<1>3. TypeOK'
  BY <1>1, <1>2 DEF IInv, TypeOK, memberVars
<1>4. ElectoratesAreDistinct'
  BY <1>1, <1>2, MembersStay DEF IInv, ElectoratesAreDistinct
<1>5. VotersAreElectors'
  BY <1>1, <1>2 DEF IInv, VotersAreElectors
<1>6. ReceiptsAreDistinct'
  BY <1>1, MembersStay DEF IInv, ReceiptsAreDistinct
<1>7. StatusIsGated'
  BY <1>2 DEF IInv, StatusIsGated, Gated
<1>8. CharterIsKept' /\ ActiveAreDistinct'
  BY <1>1, MembersStay DEF IInv, CharterIsKept
<1>. QED
  BY <1>3, <1>4, <1>5, <1>6, <1>7, <1>8 DEF IInv

LEMMA AdvisoryKeeps ==
    ASSUME IInv, NEW id \in DOMAIN proposals, AttachAdvisory(id)
    PROVE  IInv'
<1>. DEFINE p == [proposals[id] EXCEPT !.advisories = @ + 1]
<1>1. /\ proposals[id] \in Proposal
      /\ proposals[id].advisories < MaxAdvisories
      /\ proposals' = [proposals EXCEPT ![id] = p]
      /\ UNCHANGED <<memberVars, electorates, next_sequence, receipts>>
  BY DEF AttachAdvisory, RoomForAdvisory, IInv, TypeOK
<1>2. /\ p \in Proposal
      /\ p.status = proposals[id].status /\ p.votes = proposals[id].votes
  BY <1>1, LimitAssumption DEF Proposal
<1>3. \A m \in Member : p.votes[m] # NoVote => m \in electorates[id]
  BY <1>2 DEF IInv, VotersAreElectors
<1>. HIDE DEF p
<1>. QED
  BY <1>1, <1>2, <1>3, RevisedKeeps

LEMMA CastKeeps ==
    ASSUME IInv, NEW id \in DOMAIN proposals, NEW m \in Member,
           NEW choice \in {"yes", "no", "abstain"}, CastVote(id, m, choice)
    PROVE  IInv'
<1>. DEFINE votes == [proposals[id].votes EXCEPT ![m] = choice]
            p == [proposals[id] EXCEPT !.votes = votes]
<1>1. /\ proposals[id] \in Proposal
      /\ m \in electorates[id]
      /\ proposals' = [proposals EXCEPT ![id] = p]
      /\ UNCHANGED <<memberVars, electorates, next_sequence, receipts>>
  BY DEF CastVote, IInv, TypeOK
<1>2. /\ votes \in [Member -> Choice]
      /\ \A n \in Member \ {m} : votes[n] = proposals[id].votes[n]
  BY <1>1 DEF Proposal, Choice
<1>. HIDE DEF votes
<1>3. p \in Proposal /\ p.status = proposals[id].status /\ p.votes = votes
  BY <1>1, <1>2 DEF Proposal
<1>4. \A n \in Member : p.votes[n] # NoVote => n \in electorates[id]
  BY <1>1, <1>2, <1>3 DEF IInv, VotersAreElectors
<1>. HIDE DEF p
<1>. QED
  BY <1>1, <1>3, <1>4, RevisedKeeps

LEMMA WithdrawProposalKeeps ==
    ASSUME IInv, NEW id \in DOMAIN proposals, NEW m \in Member,
           WithdrawProposal(id, m)
    PROVE  IInv'
<1>. DEFINE p == [proposals[id] EXCEPT !.status = "withdrawn"]
<1>1. /\ proposals[id] \in Proposal
      /\ proposals' = [proposals EXCEPT ![id] = p]
      /\ UNCHANGED <<memberVars, electorates, next_sequence, receipts>>
  BY DEF WithdrawProposal, IInv, TypeOK
<1>2. p \in Proposal /\ p.status = "withdrawn" /\ p.votes = proposals[id].votes
  BY <1>1 DEF Proposal
<1>3. \A n \in Member : p.votes[n] # NoVote => n \in electorates[id]
  BY <1>2 DEF IInv, VotersAreElectors
<1>. HIDE DEF p
<1>. QED
  BY <1>1, <1>2, <1>3, RevisedKeeps

(***************************************************************************)
(* The outcome of a proposal, whatever the tally.                          *)
(***************************************************************************)
LEMMA OutcomeIsLawful ==
    ASSUME IInv, NEW id \in DOMAIN proposals, NEW electorate
    PROVE  /\ Outcome(id, electorate) \in
                 {"accepted", "rejected", "withdrawn",
                  "fork_required", "fork_endorsed"}
           /\ Outcome(id, electorate) = "accepted" =>
                 ~id.draft.conflict /\ ~id.draft.fork
           /\ Outcome(id, electorate) = "fork_endorsed" => id.draft.fork
<1>1. /\ proposals[id].status \in {"open", "fork_required", "withdrawn"}
      /\ proposals[id].status \in {Gated(id.draft), "withdrawn"}
      /\ id.draft.fork \in BOOLEAN /\ id.draft.conflict \in BOOLEAN
  BY DraftAssumption DEF IInv, TypeOK, Proposal, StatusIsGated, Identity
<1>2. \/ Outcome(id, electorate) = "rejected"
      \/ /\ proposals[id].status # "open"
         /\ Outcome(id, electorate) = proposals[id].status
      \/ /\ proposals[id].status = "open" /\ id.draft.fork
         /\ Outcome(id, electorate) = "fork_endorsed"
      \/ /\ proposals[id].status = "open" /\ ~id.draft.fork
         /\ Outcome(id, electorate) = "accepted"
  BY DEF Outcome
<1>. QED
  BY <1>1, <1>2 DEF Gated

LEMMA FinalizeKeeps ==
    ASSUME IInv, NEW id \in DOMAIN proposals, Finalize(id)
    PROVE  IInv'
<1>. DEFINE outcome == Outcome(id, electorates[id])
            r == [id |-> id, outcome |-> outcome,
                  electorate |-> electorates[id], votes |-> proposals[id].votes]
<1>1. /\ UNCHANGED memberVars /\ next_sequence' = next_sequence
      /\ receipts' = receipts \cup {r}
      /\ proposals' = Remove(proposals, id)
      /\ electorates' = Remove(electorates, id)
  BY DEF Finalize
<1>2. /\ proposals \in [DOMAIN proposals -> Proposal]
      /\ electorates \in [DOMAIN proposals -> SUBSET Member]
      /\ DOMAIN proposals \subseteq Identity
      /\ electorates[id] \in SUBSET Member
      /\ proposals[id].votes \in [Member -> Choice]
  BY DEF IInv, TypeOK, Proposal
<1>3. /\ outcome \in {"accepted", "rejected", "withdrawn",
                      "fork_required", "fork_endorsed"}
      /\ outcome = "accepted" => ~id.draft.conflict /\ ~id.draft.fork
      /\ outcome = "fork_endorsed" => id.draft.fork
  BY OutcomeIsLawful
<1>. HIDE DEF outcome
<1>4. /\ r \in Receipt /\ r.id = id /\ r.outcome = outcome
      /\ r.electorate = electorates[id] /\ r.votes = proposals[id].votes
  BY <1>2, <1>3 DEF Receipt
<1>. HIDE DEF r
<1>5. /\ DOMAIN proposals' = DOMAIN proposals \ {id}
      /\ proposals' \in [DOMAIN proposals' -> Proposal]
      /\ electorates' \in [DOMAIN proposals' -> SUBSET Member]
      /\ \A i \in DOMAIN proposals' :
            proposals'[i] = proposals[i] /\ electorates'[i] = electorates[i]
  BY <1>1, <1>2 DEF Remove
<1>6. TypeOK'
  BY <1>1, <1>4, <1>5 DEF IInv, TypeOK, memberVars
<1>7. ElectoratesAreDistinct'
  BY <1>1, <1>5, MembersStay DEF IInv, ElectoratesAreDistinct
<1>8. VotersAreElectors' /\ StatusIsGated'
  BY <1>5 DEF IInv, VotersAreElectors, StatusIsGated, Gated
<1>9. ReceiptsAreDistinct'
  <2>1. /\ r.electorate \subseteq Recorded /\ Distinct(r.electorate)
        /\ \A m \in Member : r.votes[m] # NoVote => m \in r.electorate
    BY <1>4 DEF IInv, ElectoratesAreDistinct, VotersAreElectors
  <2>. QED
    BY <1>1, <2>1, MembersStay DEF IInv, ReceiptsAreDistinct
<1>10. CharterIsKept' /\ ActiveAreDistinct'
  BY <1>1, <1>3, <1>4, MembersStay DEF IInv, CharterIsKept
<1>. QED
  BY <1>6, <1>7, <1>8, <1>9, <1>10 DEF IInv

-----------------------------------------------------------------------------
LEMMA StepIInv == IInv /\ [Next]_vars => IInv'
<1>. SUFFICES ASSUME IInv, [Next]_vars PROVE IInv'
  OBVIOUS
<1>1. ASSUME NEW m \in Member, NEW subject \in Subject, AdmitMember(m, subject)
      PROVE  IInv'
  BY <1>1, AdmitKeeps
<1>2. ASSUME NEW m \in Member, WithdrawMember(m) PROVE IInv'
  BY <1>2, WithdrawMemberKeeps
<1>3. ASSUME NEW draft \in Draft, SubmitProposal(draft) PROVE IInv'
  BY <1>3, SubmitKeeps
<1>4. ASSUME NEW id \in DOMAIN proposals, AttachAdvisory(id) PROVE IInv'
  BY <1>4, AdvisoryKeeps
<1>5. ASSUME NEW id \in DOMAIN proposals, NEW m \in Member,
             NEW choice \in {"yes", "no", "abstain"}, CastVote(id, m, choice)
      PROVE  IInv'
  BY <1>5, CastKeeps
<1>6. ASSUME NEW id \in DOMAIN proposals, NEW m \in Member,
             WithdrawProposal(id, m)
      PROVE  IInv'
  BY <1>6, WithdrawProposalKeeps
<1>7. ASSUME NEW id \in DOMAIN proposals, Finalize(id) PROVE IInv'
  BY <1>7, FinalizeKeeps
<1>8. CASE UNCHANGED vars
  <2>1. /\ members' = members /\ subjects' = subjects
        /\ UNCHANGED proposalVars
    BY <1>8 DEF vars, memberVars
  <2>2. RecordsStay /\ ActiveAreDistinct'
    BY <2>1 DEF RecordsStay, Recorded, Active, IInv, ActiveAreDistinct, Distinct
  <2>3. TypeOK'
    BY <2>1 DEF IInv, TypeOK, proposalVars
  <2>. QED
    BY <2>1, <2>2, <2>3, RecordsStayKeeps
<1>. QED
  BY <1>1, <1>2, <1>3, <1>4, <1>5, <1>6, <1>7, <1>8 DEF Next

\* The strengthening is an invariant.
THEOREM Inductive == Spec => []IInv
<1>. QED
  BY InitIInv, StepIInv, PTL DEF Spec

(***************************************************************************)
(* The types of the registry, its proposals and receipts; the advisories   *)
(* of a proposal stay within MAX_ASSEMBLY_ADVISORIES.                      *)
(***************************************************************************)
THEOREM TypeCorrect == Spec => []TypeOK
<1>1. IInv => TypeOK
  BY DEF IInv
<1>. QED
  BY <1>1, Inductive, PTL

(***************************************************************************)
(* No representation subject votes twice in a proposal, under one member   *)
(* id or several.                                                          *)
(***************************************************************************)
THEOREM SubjectsVoteOnce == Spec => []OneSubjectOneVote
<1>1. IInv => OneSubjectOneVote
  <2>. SUFFICES ASSUME IInv, NEW p \in Papers,
                       NEW a \in Member, NEW b \in Member,
                       p.votes[a] # NoVote, p.votes[b] # NoVote,
                       members[a].subject = members[b].subject
                PROVE  a = b
    BY DEF OneSubjectOneVote
  <2>1. CASE \E id \in DOMAIN proposals :
                p.votes = proposals[id].votes
    BY <2>1 DEF IInv, VotersAreElectors, ElectoratesAreDistinct, Distinct
  <2>2. CASE \E r \in receipts : p.votes = r.votes
    BY <2>2 DEF IInv, ReceiptsAreDistinct, Distinct
  <2>. QED
    BY <2>1, <2>2 DEF Papers
<1>. QED
  BY <1>1, Inductive, PTL

(***************************************************************************)
(* finalize never reports assembly_electorate_snapshot_drift.              *)
(***************************************************************************)
THEOREM ElectoratesStay == Spec => []NoDrift
<1>1. IInv => NoDrift
  BY DEF IInv, TypeOK, ElectoratesAreDistinct, NoDrift
<1>. QED
  BY <1>1, Inductive, PTL

(***************************************************************************)
(* No vote accepts a proposal that the charter gate sent to a fork.        *)
(***************************************************************************)
THEOREM CharterKept == Spec => []CharterIsKept
<1>1. IInv => CharterIsKept
  BY DEF IInv
<1>. QED
  BY <1>1, Inductive, PTL

-----------------------------------------------------------------------------
(***************************************************************************)
(* Assembly implements Ballots.  The n-th proposal, open or decided, is    *)
(* the n-th ballot, so sequence numbers must tell proposals apart.         *)
(***************************************************************************)
Numbered ==
    /\ \A id \in DOMAIN proposals :
          id.sequence < next_sequence /\ id.sequence <= MaxSequence /\ electorates[id] # {}
    /\ \A r \in receipts : r.id.sequence < next_sequence
    /\ \A id, other \in DOMAIN proposals : id.sequence = other.sequence => id = other
    /\ \A id \in DOMAIN proposals : \A r \in receipts : id.sequence # r.id.sequence
    /\ \A r, other \in receipts : r.id.sequence = other.id.sequence => r = other

LEMMA NumberedInit == Init => Numbered
BY DEF Init, Numbered

LEMMA NumberedSubmit ==
    ASSUME IInv, Numbered, NEW draft \in Draft, SubmitProposal(draft)
    PROVE  Numbered'
<1>. DEFINE id == [sequence |-> next_sequence, draft |-> draft, electorate |-> Active]
<1>1. /\ draft.proposer \in Active /\ next_sequence <= MaxSequence
      /\ next_sequence' = next_sequence + 1 /\ receipts' = receipts
      /\ electorates' = Insert(electorates, id, Active)
      /\ DOMAIN proposals' = DOMAIN proposals \cup {id}
  BY DEF SubmitProposal, Electorate, Insert
<1>2. /\ next_sequence \in Nat /\ DOMAIN electorates = DOMAIN proposals
      /\ \A i \in DOMAIN proposals : i.sequence \in Nat
      /\ \A r \in receipts : r.id.sequence \in Nat
  BY DEF IInv, TypeOK, Identity, Receipt
<1>3. id.sequence = next_sequence /\ id \notin DOMAIN proposals
  BY <1>2 DEF Numbered
<1>. HIDE DEF id
<1>4. /\ electorates'[id] # {}
      /\ \A i \in DOMAIN proposals : electorates'[i] = electorates[i]
  BY <1>1, <1>2, <1>3 DEF Insert
<1>5. \A i \in DOMAIN proposals' :
        i.sequence < next_sequence' /\ i.sequence <= MaxSequence /\ electorates'[i] # {}
  BY <1>1, <1>2, <1>3, <1>4, LimitAssumption DEF Numbered
<1>6. \A r \in receipts' : r.id.sequence < next_sequence'
  BY <1>1, <1>2 DEF Numbered
<1>7. \A i, other \in DOMAIN proposals' : i.sequence = other.sequence => i = other
  BY <1>1, <1>2, <1>3 DEF Numbered
<1>8. \A i \in DOMAIN proposals' : \A r \in receipts' : i.sequence # r.id.sequence
  BY <1>1, <1>2, <1>3 DEF Numbered
<1>. QED
  BY <1>1, <1>5, <1>6, <1>7, <1>8 DEF Numbered

LEMMA NumberedFinalize ==
    ASSUME IInv, Numbered, NEW id \in DOMAIN proposals, Finalize(id)
    PROVE  Numbered'
<1>1. PICK r : r.id = id /\ receipts' = receipts \cup {r}
  BY DEF Finalize
<1>2. /\ DOMAIN proposals' = DOMAIN proposals \ {id}
      /\ \A i \in DOMAIN proposals' : electorates'[i] = electorates[i]
      /\ next_sequence' = next_sequence
  BY DEF Finalize, Remove, IInv, TypeOK
<1>. QED
  BY <1>1, <1>2 DEF Numbered

LEMMA NumberedNext == ASSUME IInv, Numbered, [Next]_vars PROVE Numbered'
<1>1. CASE UNCHANGED <<DOMAIN proposals, electorates, next_sequence, receipts>>
  BY <1>1 DEF Numbered
<1>2. ASSUME NEW m \in Member, (\E subject \in Subject : AdmitMember(m, subject)) \/ WithdrawMember(m)
      PROVE  Numbered'
  BY <1>1, <1>2 DEF AdmitMember, WithdrawMember, proposalVars
<1>3. ASSUME NEW id \in DOMAIN proposals, AttachAdvisory(id)
      PROVE  Numbered'
  BY <1>1, <1>3 DEF AttachAdvisory
<1>4. ASSUME NEW id \in DOMAIN proposals, NEW m \in Member,
             (\E choice \in {"yes", "no", "abstain"} : CastVote(id, m, choice))
               \/ WithdrawProposal(id, m)
      PROVE  Numbered'
  BY <1>1, <1>4 DEF CastVote, WithdrawProposal
<1>5. CASE UNCHANGED vars
  BY <1>1, <1>5 DEF vars, proposalVars
<1>. QED
  BY <1>2, <1>3, <1>4, <1>5, NumberedSubmit, NumberedFinalize DEF Next

-----------------------------------------------------------------------------
(***************************************************************************)
(* The papers of the ballots.                                              *)
(***************************************************************************)
OpenPaper(id) ==
    [sequence |-> id.sequence, electorate |-> electorates[id],
     votes |-> proposals[id].votes, outcome |-> Pending]

DecidedPaper(r) ==
    [sequence |-> r.id.sequence, electorate |-> r.electorate,
     votes |-> r.votes, outcome |-> r.outcome]

Filed ==
    /\ \A id \in DOMAIN proposals : Paper(id.sequence) = OpenPaper(id)
    /\ \A r \in receipts : Paper(r.id.sequence) = DecidedPaper(r)
    /\ \A n \in 1 .. MaxSequence :
          \/ \E id \in DOMAIN proposals : id.sequence = n
          \/ \E r \in receipts : r.id.sequence = n
          \/ Paper(n) = Unopened(n)

LEMMA PapersAreFiled == Numbered => Filed
<1>. SUFFICES ASSUME Numbered PROVE Filed
  OBVIOUS
<1>1. Papers = {OpenPaper(id) : id \in DOMAIN proposals} \cup {DecidedPaper(r) : r \in receipts}
  BY DEF Papers, OpenPaper, DecidedPaper
<1>2. /\ \A id : OpenPaper(id).sequence = id.sequence
      /\ \A r : DecidedPaper(r).sequence = r.id.sequence
  BY DEF OpenPaper, DecidedPaper
<1>3. ASSUME NEW id \in DOMAIN proposals PROVE Paper(id.sequence) = OpenPaper(id)
  <2>1. {p \in Papers : p.sequence = id.sequence} = {OpenPaper(id)}
    BY <1>1, <1>2 DEF Numbered
  <2>. QED
    BY <2>1 DEF Paper
<1>4. ASSUME NEW r \in receipts PROVE Paper(r.id.sequence) = DecidedPaper(r)
  <2>1. {p \in Papers : p.sequence = r.id.sequence} = {DecidedPaper(r)}
    BY <1>1, <1>2 DEF Numbered
  <2>. QED
    BY <2>1 DEF Paper
<1>5. ASSUME NEW n \in 1 .. MaxSequence,
             \A id \in DOMAIN proposals : id.sequence # n,
             \A r \in receipts : r.id.sequence # n
      PROVE  Paper(n) = Unopened(n)
  <2>1. {p \in Papers : p.sequence = n} = {}
    BY <1>1, <1>2, <1>5
  <2>. QED
    BY <2>1 DEF Paper
<1>. QED
  BY <1>3, <1>4, <1>5 DEF Filed

\* A step keeps the papers of the numbers it does not deal with.
Untouched(n) ==
    /\ \A id : id.sequence = n =>
          /\ id \in DOMAIN proposals <=> id \in DOMAIN proposals'
          /\ id \in DOMAIN proposals =>
                electorates'[id] = electorates[id] /\ proposals'[id].votes = proposals[id].votes
    /\ \A r : r.id.sequence = n => (r \in receipts <=> r \in receipts')

LEMMA PaperStays ==
    ASSUME Filed, Filed', NEW n \in 1 .. MaxSequence, Untouched(n)
    PROVE  Paper(n)' = Paper(n)
<1>1. CASE \E id \in DOMAIN proposals : id.sequence = n
  <2>1. PICK id \in DOMAIN proposals : id.sequence = n
    BY <1>1
  <2>2. /\ id \in DOMAIN proposals' /\ electorates'[id] = electorates[id]
        /\ proposals'[id].votes = proposals[id].votes
    BY <2>1 DEF Untouched
  <2>3. Paper(id.sequence) = OpenPaper(id) /\ Paper(id.sequence)' = OpenPaper(id)'
    BY <2>2 DEF Filed
  <2>. QED
    BY <2>1, <2>2, <2>3 DEF OpenPaper
<1>2. CASE \E r \in receipts : r.id.sequence = n
  <2>1. PICK r \in receipts : r.id.sequence = n
    BY <1>2
  <2>2. r \in receipts'
    BY <2>1 DEF Untouched
  <2>3. Paper(r.id.sequence) = DecidedPaper(r) /\ Paper(r.id.sequence)' = DecidedPaper(r)
    BY <2>2 DEF Filed, DecidedPaper
  <2>. QED
    BY <2>1, <2>3
<1>3. CASE /\ ~ \E id \in DOMAIN proposals : id.sequence = n
           /\ ~ \E r \in receipts : r.id.sequence = n
  <2>1. /\ ~ \E id \in DOMAIN proposals' : id.sequence = n
        /\ ~ \E r \in receipts' : r.id.sequence = n
    BY <1>3 DEF Untouched
  <2>. QED
    BY <1>3, <2>1 DEF Filed, Unopened
<1>. QED
  BY <1>1, <1>2, <1>3

-----------------------------------------------------------------------------
(***************************************************************************)
(* Two thirds: the code counts the decisive votes and rounds up, Ballots   *)
(* compares multiples.                                                     *)
(***************************************************************************)
LEMMA CountType ==
    ASSUME NEW votes, NEW choice
    PROVE  /\ IsFiniteSet({m \in Member : votes[m] = choice})
           /\ Count(votes, choice) \in Nat
<1>1. {m \in Member : votes[m] = choice} \in SUBSET Member
  OBVIOUS
<1>2. IsFiniteSet({m \in Member : votes[m] = choice})
  BY <1>1, FS_Subset, MemberAssumption
<1>. QED
  BY <1>2, FS_CardinalityType DEF Count

LEMMA DisjointUnion ==
    ASSUME NEW S, NEW T, IsFiniteSet(S), IsFiniteSet(T), S \cap T = {}
    PROVE  IsFiniteSet(S \cup T) /\ Cardinality(S \cup T) = Cardinality(S) + Cardinality(T)
<1>1. Cardinality(S) \in Nat /\ Cardinality(T) \in Nat
  BY FS_CardinalityType
<1>2. Cardinality(S \cap T) = 0
  BY FS_EmptySet
<1>3. IsFiniteSet(S \cup T) /\ Cardinality(S \cup T) = Cardinality(S) + Cardinality(T) - Cardinality(S \cap T)
  BY FS_Union
<1>. QED
  BY <1>1, <1>2, <1>3

LEMMA Participants ==
    ASSUME NEW votes \in [Member -> Choice]
    PROVE  Cardinality(Member \ {m \in Member : votes[m] = NoVote})
             = Count(votes, "yes") + Count(votes, "no") + Count(votes, "abstain")
<1>. DEFINE of(choice) == {m \in Member : votes[m] = choice}
<1>1. /\ IsFiniteSet(of("yes")) /\ IsFiniteSet(of("no")) /\ IsFiniteSet(of("abstain"))
      /\ Cardinality(of("yes")) \in Nat /\ Cardinality(of("no")) \in Nat
      /\ Cardinality(of("abstain")) \in Nat
  BY CountType DEF Count
<1>2. of("yes") \cap of("no") = {} /\ (of("yes") \cup of("no")) \cap of("abstain") = {}
  OBVIOUS
<1>3. Member \ of(NoVote) = (of("yes") \cup of("no")) \cup of("abstain")
  BY VoteAssumption DEF Choice
<1>4. /\ Count(votes, "yes") = Cardinality(of("yes"))
      /\ Count(votes, "no") = Cardinality(of("no"))
      /\ Count(votes, "abstain") = Cardinality(of("abstain"))
  BY DEF Count
<1>. HIDE DEF of
<1>5. /\ IsFiniteSet(of("yes") \cup of("no"))
      /\ Cardinality(of("yes") \cup of("no")) = Cardinality(of("yes")) + Cardinality(of("no"))
  BY <1>1, <1>2, DisjointUnion
<1>6. Cardinality((of("yes") \cup of("no")) \cup of("abstain"))
        = Cardinality(of("yes") \cup of("no")) + Cardinality(of("abstain"))
  BY <1>1, <1>2, <1>5, DisjointUnion
<1>7. Cardinality(Member \ of(NoVote))
        = Cardinality(of("yes")) + Cardinality(of("no")) + Cardinality(of("abstain"))
  BY <1>1, <1>3, <1>5, <1>6
<1>. QED
  BY <1>4, <1>7 DEF of

LEMMA RoundedUp ==
    ASSUME NEW n \in Nat, NEW k \in Nat
    PROVE  k >= TwoThirds(n) <=> 3 * k >= 2 * n
BY DEF TwoThirds

LEMMA CarriedMatches ==
    ASSUME NEW votes \in [Member -> Choice], NEW electorate \in SUBSET Member
    PROVE  Carried(votes, electorate) <=>
             /\ 3 * Cardinality(Member \ {m \in Member : votes[m] = NoVote})
                  >= 2 * Cardinality(electorate)
             /\ Count(votes, "yes") > 0
             /\ Count(votes, "yes") >= 2 * Count(votes, "no")
<1>. DEFINE yes == Count(votes, "yes")
            no == Count(votes, "no")
            abstain == Count(votes, "abstain")
            size == Cardinality(electorate)
<1>1. yes \in Nat /\ no \in Nat /\ abstain \in Nat
  BY CountType
<1>2. size \in Nat
  <2>1. IsFiniteSet(electorate)
    BY FS_Subset, MemberAssumption
  <2>. QED
    BY <2>1, FS_CardinalityType
<1>3. Cardinality(Member \ {m \in Member : votes[m] = NoVote}) = yes + no + abstain
  BY Participants
<1>4. Carried(votes, electorate) <=>
        yes + no + abstain >= TwoThirds(size) /\ yes + no > 0 /\ yes >= TwoThirds(yes + no)
  BY DEF Carried
<1>. HIDE DEF yes, no, abstain, size
<1>5. yes + no + abstain >= TwoThirds(size) <=> 3 * (yes + no + abstain) >= 2 * size
  <2>1. yes + no + abstain \in Nat
    BY <1>1
  <2>. QED
    BY <1>2, <2>1, RoundedUp
<1>6. yes >= TwoThirds(yes + no) <=> 3 * yes >= 2 * (yes + no)
  <2>1. yes + no \in Nat
    BY <1>1
  <2>. QED
    BY <1>1, <2>1, RoundedUp
<1>7. yes + no > 0 /\ 3 * yes >= 2 * (yes + no) <=> yes > 0 /\ yes >= 2 * no
  BY <1>1
<1>8. Carried(votes, electorate) <=>
        3 * (yes + no + abstain) >= 2 * size /\ yes > 0 /\ yes >= 2 * no
  BY <1>4, <1>5, <1>6, <1>7
<1>. QED
  BY <1>3, <1>8 DEF yes, no, abstain, size

-----------------------------------------------------------------------------
(***************************************************************************)
(* The steps.                                                              *)
(***************************************************************************)
voters == [n \in 1 .. MaxSequence |-> Paper(n).electorate]
cast == [n \in 1 .. MaxSequence |-> Paper(n).votes]
decision == [n \in 1 .. MaxSequence |-> Paper(n).outcome]

\* Only the n-th paper changes.
OnlyPaper(n) == \A k \in 1 .. MaxSequence : k # n => Paper(k)' = Paper(k)

LEMMA NoPaperChanges ==
    ASSUME \A n \in 1 .. MaxSequence : Paper(n)' = Paper(n)
    PROVE  UNCHANGED <<voters, cast, decision>>
BY DEF voters, cast, decision

LEMMA OnePaperChanges ==
    ASSUME NEW n \in 1 .. MaxSequence, OnlyPaper(n)
    PROVE  /\ voters' = [voters EXCEPT ![n] = (Paper(n).electorate)']
           /\ cast' = [cast EXCEPT ![n] = (Paper(n).votes)']
           /\ decision' = [decision EXCEPT ![n] = (Paper(n).outcome)']
<1>1. DOMAIN voters = 1 .. MaxSequence /\ DOMAIN cast = 1 .. MaxSequence
      /\ DOMAIN decision = 1 .. MaxSequence
  BY DEF voters, cast, decision
<1>. QED
  BY <1>1 DEF voters, cast, decision, OnlyPaper

Ready == IInv /\ Numbered /\ Filed

LEMMA QuietStep ==
    ASSUME Ready, Filed', UNCHANGED <<DOMAIN proposals, electorates, receipts>>,
           \A id \in DOMAIN proposals : proposals'[id].votes = proposals[id].votes
    PROVE  UNCHANGED <<voters, cast, decision>>
<1>1. ASSUME NEW n \in 1 .. MaxSequence PROVE Paper(n)' = Paper(n)
  <2>1. Untouched(n)
    BY DEF Untouched
  <2>. QED
    BY <2>1, PaperStays DEF Ready
<1>. QED
  BY <1>1, NoPaperChanges

LEMMA OpenStep ==
    ASSUME Ready, Filed', NEW draft \in Draft, SubmitProposal(draft)
    PROVE  \E n \in 1 .. MaxSequence : Ballot!Open(n)
<1>0. PICK n, id : n = next_sequence
                   /\ id = [sequence |-> n, draft |-> draft, electorate |-> Active]
  OBVIOUS
<1>1. /\ n <= MaxSequence /\ receipts' = receipts
      /\ electorates' = Insert(electorates, id, Active)
      /\ proposals' = Insert(proposals, id, [status |-> Gated(draft),
                                votes |-> [m \in Member |-> NoVote], advisories |-> 0])
      /\ draft.proposer \in Active
  BY <1>0 DEF SubmitProposal, Electorate
<1>2. /\ n \in Nat \ {0} /\ DOMAIN electorates = DOMAIN proposals
      /\ \A i \in DOMAIN proposals : i.sequence \in Nat /\ i.sequence < n
      /\ \A r \in receipts : r.id.sequence \in Nat /\ r.id.sequence < n
  BY <1>0 DEF Ready, Numbered, IInv, TypeOK, Identity, Receipt
<1>3. n \in 1 .. MaxSequence
  BY <1>1, <1>2, LimitAssumption
<1>4. /\ DOMAIN proposals' = DOMAIN proposals \cup {id} /\ id \notin DOMAIN proposals
      /\ id.sequence = n
      /\ electorates'[id] = Active /\ proposals'[id].votes = [m \in Member |-> NoVote]
      /\ \A i \in DOMAIN proposals : electorates'[i] = electorates[i] /\ proposals'[i] = proposals[i]
  <2>1. id.sequence = n
    BY <1>0
  <2>2. id \notin DOMAIN proposals
    BY <1>2, <2>1
  <2>. QED
    BY <1>1, <1>2, <2>1, <2>2 DEF Insert
<1>5. /\ \A i \in DOMAIN proposals : i.sequence # n
      /\ \A r \in receipts : r.id.sequence # n
  BY <1>2
<1>6. Paper(n) = Unopened(n)
  BY <1>3, <1>5 DEF Ready, Filed
<1>7. /\ (Paper(n).electorate)' = Active /\ (Paper(n).votes)' = [m \in Member |-> NoVote]
      /\ (Paper(n).outcome)' = Pending
  <2>1. Paper(id.sequence)' = OpenPaper(id)'
    BY <1>4 DEF Filed
  <2>. QED
    BY <1>4, <2>1 DEF OpenPaper
<1>8. OnlyPaper(n)
  <2>1. ASSUME NEW k \in 1 .. MaxSequence, k # n PROVE Untouched(k)
    BY <1>1, <1>4, <2>1 DEF Untouched
  <2>. QED
    BY <2>1, PaperStays DEF Ready, OnlyPaper
<1>9. Active \in SUBSET Member
  BY DEF Active, Recorded
<1>10. /\ voters[n] = {} /\ voters' = [voters EXCEPT ![n] = Active]
       /\ UNCHANGED <<cast, decision>>
  <2>1. voters[n] = {} /\ cast[n] = [m \in Member |-> NoVote] /\ decision[n] = Pending
    BY <1>3, <1>6 DEF voters, cast, decision, Unopened
  <2>2. /\ voters' = [voters EXCEPT ![n] = Active]
        /\ cast' = [cast EXCEPT ![n] = [m \in Member |-> NoVote]]
        /\ decision' = [decision EXCEPT ![n] = Pending]
    BY <1>3, <1>7, <1>8, OnePaperChanges
  <2>3. cast' = cast /\ decision' = decision
    BY <2>1, <2>2 DEF cast, decision
  <2>. QED
    BY <2>1, <2>2, <2>3
<1>11. Ballot!Open(n)
  BY <1>9, <1>10 DEF Ballot!Open, voters, cast, decision
<1>. QED
  BY <1>3, <1>11

LEMMA CastStep ==
    ASSUME Ready, Filed', NEW id \in DOMAIN proposals, NEW m \in Member,
           NEW choice \in {"yes", "no", "abstain"}, CastVote(id, m, choice)
    PROVE  \E n \in 1 .. MaxSequence : \E v \in Member : Ballot!Cast(n, v)
<1>1. /\ m \in electorates[id] /\ proposals[id].votes[m] = NoVote
      /\ proposals' = [proposals EXCEPT ![id].votes[m] = choice]
      /\ electorates' = electorates /\ receipts' = receipts
  BY DEF CastVote
<1>2. PICK n : n = id.sequence
  OBVIOUS
<1>3. n \in 1 .. MaxSequence
  BY <1>2, LimitAssumption DEF Ready, Numbered, IInv, TypeOK, Identity
<1>4. proposals[id] \in Proposal /\ proposals[id].votes \in [Member -> Choice]
  BY DEF Ready, IInv, TypeOK, Proposal
<1>5. /\ DOMAIN proposals' = DOMAIN proposals
      /\ proposals'[id].votes = [proposals[id].votes EXCEPT ![m] = choice]
      /\ \A i \in DOMAIN proposals : i # id => proposals'[i] = proposals[i]
  BY <1>1, <1>4 DEF Proposal
<1>6. Paper(n) = OpenPaper(id) /\ Paper(n)' = OpenPaper(id)'
  <2>1. Paper(id.sequence) = OpenPaper(id) /\ Paper(id.sequence)' = OpenPaper(id)'
    BY <1>5 DEF Ready, Filed
  <2>. QED
    BY <1>2, <2>1
<1>7. OnlyPaper(n)
  <2>1. ASSUME NEW k \in 1 .. MaxSequence, k # n PROVE Untouched(k)
    BY <1>1, <1>2, <1>5, <2>1 DEF Untouched
  <2>. QED
    BY <2>1, PaperStays DEF Ready, OnlyPaper
<1>8. /\ voters[n] = electorates[id] /\ cast[n] = proposals[id].votes /\ decision[n] = Pending
  BY <1>3, <1>6 DEF voters, cast, decision, OpenPaper
<1>9. /\ (Paper(n).electorate)' = electorates[id]
      /\ (Paper(n).votes)' = [proposals[id].votes EXCEPT ![m] = choice]
      /\ (Paper(n).outcome)' = Pending
  BY <1>1, <1>5, <1>6 DEF OpenPaper
<1>10. /\ voters' = [voters EXCEPT ![n] = electorates[id]]
       /\ cast' = [cast EXCEPT ![n] = [proposals[id].votes EXCEPT ![m] = choice]]
       /\ decision' = [decision EXCEPT ![n] = Pending]
  BY <1>3, <1>7, <1>9, OnePaperChanges
<1>11. UNCHANGED <<voters, decision>> /\ cast' = [cast EXCEPT ![n][m] = choice]
  <2>1. DOMAIN voters = 1 .. MaxSequence /\ DOMAIN decision = 1 .. MaxSequence
    BY DEF voters, decision
  <2>2. voters = [k \in 1 .. MaxSequence |-> voters[k]] /\ decision = [k \in 1 .. MaxSequence |-> decision[k]]
    BY DEF voters, decision
  <2>. QED
    BY <1>8, <1>10, <2>1, <2>2
<1>12. Ballot!Cast(n, m)
  BY <1>1, <1>8, <1>11 DEF Ballot!Cast, voters, cast, decision
<1>. QED
  BY <1>3, <1>12

\* Ballots has its own name for the cardinality of FiniteSets.
LEMMA SameCardinality == ASSUME NEW S PROVE Ballot!Cardinality(S) = Cardinality(S)
BY DEF Ballot!Cardinality, Cardinality

LEMMA DecideStep ==
    ASSUME Ready, Filed', NEW id \in DOMAIN proposals, Finalize(id)
    PROVE  \E n \in 1 .. MaxSequence :
             \E outcome \in {"accepted", "rejected", "withdrawn", "fork_required", "fork_endorsed"} :
               Ballot!Decide(n, outcome)
<1>0. PICK n, outcome, r :
         /\ n = id.sequence /\ outcome = Outcome(id, electorates[id])
         /\ r = [id |-> id, outcome |-> outcome,
                 electorate |-> electorates[id], votes |-> proposals[id].votes]
  OBVIOUS
<1>1. /\ receipts' = receipts \cup {r}
      /\ proposals' = Remove(proposals, id) /\ electorates' = Remove(electorates, id)
  BY <1>0 DEF Finalize
<1>2. /\ n \in 1 .. MaxSequence /\ electorates[id] # {} /\ electorates[id] \in SUBSET Member
      /\ DOMAIN electorates = DOMAIN proposals
  BY <1>0, LimitAssumption DEF Ready, Numbered, IInv, TypeOK, Identity
<1>3. proposals[id].votes \in [Member -> Choice]
  BY DEF Ready, IInv, TypeOK, Proposal
<1>4. r \in receipts' /\ r.id.sequence = n
  BY <1>0, <1>1
<1>5. Paper(n) = OpenPaper(id) /\ Paper(n)' = DecidedPaper(r)
  <2>1. Paper(id.sequence) = OpenPaper(id)
    BY DEF Ready, Filed
  <2>2. Paper(r.id.sequence)' = DecidedPaper(r)
    BY <1>4 DEF Filed, DecidedPaper
  <2>. QED
    BY <1>0, <1>4, <2>1, <2>2
<1>6. OnlyPaper(n)
  <2>1. /\ DOMAIN proposals' = DOMAIN proposals \ {id}
        /\ \A i \in DOMAIN proposals' :
              proposals'[i] = proposals[i] /\ electorates'[i] = electorates[i]
    BY <1>1, <1>2 DEF Remove
  <2>2. ASSUME NEW k \in 1 .. MaxSequence, k # n PROVE Untouched(k)
    BY <1>0, <1>1, <1>4, <2>1, <2>2 DEF Untouched
  <2>. QED
    BY <2>2, PaperStays DEF Ready, OnlyPaper
<1>7. voters[n] = electorates[id] /\ cast[n] = proposals[id].votes /\ decision[n] = Pending
  BY <1>2, <1>5 DEF voters, cast, decision, OpenPaper
<1>8. /\ (Paper(n).electorate)' = electorates[id]
      /\ (Paper(n).votes)' = proposals[id].votes
      /\ (Paper(n).outcome)' = outcome
  BY <1>0, <1>5 DEF DecidedPaper
<1>9. /\ voters' = [voters EXCEPT ![n] = electorates[id]]
      /\ cast' = [cast EXCEPT ![n] = proposals[id].votes]
      /\ decision' = [decision EXCEPT ![n] = outcome]
  BY <1>2, <1>6, <1>8, OnePaperChanges
<1>10. UNCHANGED <<voters, cast>>
  <2>1. /\ voters = [k \in 1 .. MaxSequence |-> voters[k]]
        /\ cast = [k \in 1 .. MaxSequence |-> cast[k]]
    BY DEF voters, cast
  <2>. QED
    BY <1>7, <1>9, <2>1
<1>11. Ballot!Carried(n) <=> Carried(proposals[id].votes, electorates[id])
  <2>1. \A choice : Ballot!Votes(n, choice) = {v \in Member : proposals[id].votes[v] = choice}
    BY <1>7 DEF Ballot!Votes, cast
  <2>2. Ballot!Carried(n) <=>
          /\ 3 * Cardinality(Member \ {v \in Member : proposals[id].votes[v] = NoVote})
               >= 2 * Cardinality(electorates[id])
          /\ Count(proposals[id].votes, "yes") > 0
          /\ Count(proposals[id].votes, "yes") >= 2 * Count(proposals[id].votes, "no")
    <3>1. Ballot!Carried(n) <=>
            /\ 3 * Cardinality(Member \ Ballot!Votes(n, NoVote)) >= 2 * Cardinality(voters[n])
            /\ Cardinality(Ballot!Votes(n, "yes")) > 0
            /\ Cardinality(Ballot!Votes(n, "yes")) >= 2 * Cardinality(Ballot!Votes(n, "no"))
      BY SameCardinality DEF Ballot!Carried, voters
    <3>2. /\ Count(proposals[id].votes, "yes") = Cardinality(Ballot!Votes(n, "yes"))
          /\ Count(proposals[id].votes, "no") = Cardinality(Ballot!Votes(n, "no"))
      BY <2>1 DEF Count
    <3>3. Ballot!Votes(n, NoVote) = {v \in Member : proposals[id].votes[v] = NoVote}
      BY <2>1
    <3>. QED
      BY <1>7, <3>1, <3>2, <3>3
  <2>. QED
    BY <1>2, <1>3, <2>2, CarriedMatches
<1>12. /\ outcome \in {"accepted", "rejected", "withdrawn", "fork_required", "fork_endorsed"}
       /\ outcome \in {"accepted", "fork_endorsed"} => Carried(proposals[id].votes, electorates[id])
       /\ outcome = "rejected" => ~Carried(proposals[id].votes, electorates[id])
  <2>1. proposals[id].status \in {"open", "fork_required", "withdrawn"}
    BY DEF Ready, IInv, TypeOK, Proposal
  <2>. QED
    BY <1>0, <2>1 DEF Outcome
<1>13. Ballot!Decide(n, outcome)
  BY <1>2, <1>7, <1>9, <1>10, <1>11, <1>12 DEF Ballot!Decide, voters, cast, decision
<1>. QED
  BY <1>2, <1>12, <1>13

LEMMA BallotStep ==
    ASSUME Ready, Filed', [Next]_vars
    PROVE  [Ballot!Next]_(Ballot!vars)
<1>0. UNCHANGED <<voters, cast, decision>> => UNCHANGED Ballot!vars
  BY DEF Ballot!vars, voters, cast, decision
<1>1. CASE UNCHANGED proposalVars
  BY <1>0, <1>1, QuietStep DEF proposalVars
<1>2. ASSUME NEW m \in Member, (\E subject \in Subject : AdmitMember(m, subject)) \/ WithdrawMember(m)
      PROVE  UNCHANGED proposalVars
  BY <1>2 DEF AdmitMember, WithdrawMember
<1>3. ASSUME NEW draft \in Draft, SubmitProposal(draft) PROVE Ballot!Next
  BY <1>3, OpenStep DEF Ballot!Next, Ballot!Number
<1>4. ASSUME NEW id \in DOMAIN proposals,
             AttachAdvisory(id) \/ (\E m \in Member : WithdrawProposal(id, m))
      PROVE  UNCHANGED <<voters, cast, decision>>
  <2>1. /\ DOMAIN proposals' = DOMAIN proposals /\ UNCHANGED <<electorates, receipts>>
    BY <1>4 DEF AttachAdvisory, WithdrawProposal
  <2>2. proposals \in [DOMAIN proposals -> Proposal]
    BY DEF Ready, IInv, TypeOK
  <2>3. \A i \in DOMAIN proposals : proposals'[i].votes = proposals[i].votes
    <3>1. proposals[id] \in Proposal
      BY <2>2
    <3>2. proposals[id].votes = [proposals[id] EXCEPT !.status = "withdrawn"].votes
      BY <3>1 DEF Proposal
    <3>3. proposals[id].votes = [proposals[id] EXCEPT !.advisories = @ + 1].votes
      BY <3>1 DEF Proposal
    <3>4. CASE AttachAdvisory(id)
      BY <2>2, <3>3, <3>4 DEF AttachAdvisory
    <3>5. CASE \E m \in Member : WithdrawProposal(id, m)
      BY <2>2, <3>2, <3>5 DEF WithdrawProposal
    <3>. QED
      BY <1>4, <3>4, <3>5
  <2>. QED
    BY <2>1, <2>3, QuietStep
<1>5. ASSUME NEW id \in DOMAIN proposals, NEW m \in Member,
             NEW choice \in {"yes", "no", "abstain"}, CastVote(id, m, choice)
      PROVE  Ballot!Next
  BY <1>5, CastStep DEF Ballot!Next, Ballot!Number
<1>6. ASSUME NEW id \in DOMAIN proposals, Finalize(id) PROVE Ballot!Next
  BY <1>6, DecideStep DEF Ballot!Next, Ballot!Number
<1>7. CASE UNCHANGED vars
  BY <1>1, <1>7 DEF vars
<1>. QED
  BY <1>0, <1>1, <1>2, <1>3, <1>4, <1>5, <1>6, <1>7 DEF Next

(***************************************************************************)
(* The Assembly implements Ballots: every operation of it opens a ballot,  *)
(* casts one vote that was not cast, decides an undecided ballot by two    *)
(* thirds, or is none of a voter's business (assembly.rs).                 *)
(***************************************************************************)
THEOREM ImplementsBallots == Spec => DecidesByBallot
<1>1. Init => Ballot!Init
  <2>1. ASSUME Init, NEW n \in 1 .. MaxSequence PROVE Paper(n) = Unopened(n)
    <3>1. Papers = {}
      BY <2>1 DEF Init, Papers
    <3>. QED
      BY <3>1 DEF Paper
  <2>. QED
    BY <2>1 DEF Ballot!Init, Ballot!Number, Unopened
<1>2. Init => IInv /\ Numbered
  BY InitIInv, NumberedInit
<1>3. (IInv /\ Numbered) /\ [Next]_vars => (IInv /\ Numbered)'
  BY StepIInv, NumberedNext
<1>4. Numbered => Filed
  BY PapersAreFiled
<1>5. IInv /\ Numbered /\ Filed /\ Filed' /\ [Next]_vars => [Ballot!Next]_(Ballot!vars)
  BY BallotStep DEF Ready
<1>. QED
  BY <1>1, <1>2, <1>3, <1>4, <1>5, PTL DEF Spec, DecidesByBallot, Ballot!Spec
-----------------------------------------------------------------------------
(***************************************************************************)
(* The live adapter, from whose reports the Assembly hears of the councils *)
(* of NEXUS: the two promises of NexusAdapter for every export, answer and *)
(* checkout.                                                               *)
(***************************************************************************)
\* What a text becomes is sound, or it is refused.
LEMMA TextsAreSound ==
    ASSUME NEW text, Nexus!NfcText(text) # Refused
    PROVE  /\ Nexus!NfcText(text) = Nexus!Nfc(text)
           /\ Nexus!SoundText(Nexus!NfcText(text))
<1>1. /\ Nexus!NfcText(text) = Nexus!Nfc(text)
      /\ ~Nexus!TooLong(Nexus!Nfc(text)) /\ ~Nexus!ScrubberChanges(Nexus!Nfc(text))
  BY DEF Nexus!NfcText
<1>2. Nexus!Nfc(Nexus!Nfc(text)) = Nexus!Nfc(text)
  <2>1. CASE text = "a~"
    BY <2>1 DEF Nexus!Nfc
  <2>2. CASE text = "s~"
    BY <2>2 DEF Nexus!Nfc
  <2>3. CASE text # "a~" /\ text # "s~"
    <3>1. Nexus!Nfc(text) = text
      BY <2>3 DEF Nexus!Nfc
    <3> QED BY <3>1
  <2> QED BY <2>1, <2>2, <2>3
<1> QED BY <1>1, <1>2 DEF Nexus!SoundText

\* The roster of a session is a list, as it is read from JSON.
IsSession(session) == \E n \in Nat : DOMAIN session.roster = 1 .. n

\* A session that is not refused is reported as it is.
LEMMA ReportIsFaithful ==
    ASSUME NEW session, IsSession(session), NEW answer, NEW copy,
           answer.refs = Nexus!Refs(copy),
           Nexus!CouncilReport(session, answer) # Refused
    PROVE  Nexus!Faithful(Nexus!CouncilReport(session, answer), session, copy)
<1> DEFINE voices == [i \in DOMAIN session.roster |-> Nexus!MemberOf(session.roster[i])]
           evidence == IF session.evidence = Nothing THEN "UNSPECIFIED"
                       ELSE Nexus!NfcText(session.evidence)
           group == Nexus!Range(voices)
           minority == Nexus!MinorityReports(session.minority, group)
           report == Nexus!CouncilReport(session, answer)
<1>1. /\ session.id \in Nexus!Range(answer.refs)
      /\ Refused \notin group
      /\ Nexus!IsInjective(voices)
      /\ Refused \notin {evidence, Nexus!NfcText(session.session)}
      /\ minority # Refused
      /\ report = [session |-> session.id, name |-> Nexus!NfcText(session.session),
                   members |-> voices, evidence |-> evidence, minority |-> minority]
  BY DEF Nexus!CouncilReport
<1>2. /\ report.session = session.id /\ report.name = Nexus!NfcText(session.session)
      /\ report.members = voices /\ report.evidence = evidence /\ report.minority = minority
  BY <1>1
<1>3. PICK n \in Nat : DOMAIN session.roster = 1 .. n
  BY DEF IsSession
<1>4. voices = [i \in 1 .. n |-> voices[i]] /\ DOMAIN voices = 1 .. n
  BY <1>3
<1>5. group = {voices[i] : i \in 1 .. n}
  BY <1>4 DEF Nexus!Range
<1>6. Len(voices) = n /\ Len(session.roster) = n
  BY <1>3, <1>4
<1>7. \A i, j \in 1 .. n : voices[i] = voices[j] => i = j
  <2> HIDE DEF voices
  <2> QED BY <1>1, <1>4 DEF Nexus!IsInjective
<1>8. ASSUME NEW i \in 1 .. n
      PROVE  /\ voices[i] = Nexus!Nfc(session.roster[i].id)
             /\ session.roster[i].weight = 1
             /\ Nexus!SoundText(voices[i])
  <2>1. voices[i] = Nexus!MemberOf(session.roster[i]) /\ voices[i] # Refused
    <3>1. voices[i] \in group
      BY <1>5
    <3> QED BY <1>1, <1>3, <3>1
  <2>2. /\ Nexus!MemberOf(session.roster[i]) = Nexus!NfcText(session.roster[i].id)
        /\ session.roster[i].weight = 1
    BY <2>1 DEF Nexus!MemberOf
  <2> HIDE DEF voices
  <2> QED BY <2>1, <2>2, TextsAreSound
<1>9. Nexus!SoundText(evidence) /\ Nexus!SoundText(Nexus!NfcText(session.session))
  <2>1. Nexus!SoundText("UNSPECIFIED")
    BY DEF Nexus!SoundText, Nexus!Nfc, Nexus!ScrubberChanges, Nexus!TooLong
  <2> QED BY <1>1, <2>1, TextsAreSound
<1>10. ASSUME NEW r \in Nexus!Range(minority)
       PROVE  /\ r.member \in group
              /\ Nexus!SoundText(r.choice) /\ Nexus!SoundText(r.rationale)
  <2> DEFINE raw == session.minority
             said(q) == [member |-> Nexus!NfcText(q.member), choice |-> Nexus!NfcText(q.choice),
                         rationale |-> Nexus!NfcText(q.rationale)]
  <2> HIDE DEF group
  <2>1. /\ minority = [i \in DOMAIN raw |-> said(raw[i])]
        /\ \A q \in Nexus!Range(raw) :
              /\ Refused \notin {said(q).choice, said(q).rationale}
              /\ said(q).member \in group
    BY <1>1 DEF Nexus!MinorityReports
  <2>2. PICK i \in DOMAIN raw : r = said(raw[i])
    BY <2>1 DEF Nexus!Range
  <2>3. raw[i] \in Nexus!Range(raw)
    BY DEF Nexus!Range
  <2>4. /\ Nexus!NfcText(raw[i].choice) # Refused /\ Nexus!NfcText(raw[i].rationale) # Refused
        /\ r.member \in group
    BY <2>1, <2>2, <2>3
  <2>5. r.choice = Nexus!NfcText(raw[i].choice) /\ r.rationale = Nexus!NfcText(raw[i].rationale)
    BY <2>2
  <2> QED BY <2>4, <2>5, TextsAreSound
<1>11. \A m \in group : Nexus!SoundText(m)
  BY <1>5, <1>8
<1> HIDE DEF voices, group, minority, evidence, report
<1>12. /\ Len(report.members) = Len(session.roster)
       /\ \A i \in DOMAIN session.roster :
             /\ report.members[i] = Nexus!Nfc(session.roster[i].id)
             /\ session.roster[i].weight = 1
             /\ \A j \in DOMAIN session.roster : i # j => report.members[i] # report.members[j]
  BY <1>2, <1>3, <1>6, <1>7, <1>8
<1>13. Nexus!Range(report.members) = group
  BY <1>2 DEF group
<1> QED BY <1>1, <1>2, <1>9, <1>10, <1>11, <1>12, <1>13 DEF Nexus!Faithful, report

\* Whatever an export holds and whatever the verifier answers of its copy, a
\* projection has one report of each council session, in order, which says of its
\* members, one for one and under one spelling, and of those who dissent what the
\* session says, in texts without a secret, and of objects the verifier saw
\* (build_council_reports, verified_projection).
THEOREM ProjectionsAreFaithful ==
    ASSUME NEW checkout, NEW loaded, NEW bundle, NEW copy, NEW answer,
           \A i \in Nexus!CouncilSessions(bundle) : IsSession(bundle.objects[i]),
           Nexus!Projection(checkout, loaded, bundle, copy, answer) # Refused
    PROVE  ~Nexus!Distorts(Nexus!Projection(checkout, loaded, bundle, copy, answer), bundle, copy)
<1> DEFINE sessions == Nexus!CouncilSessions(bundle)
           reports == [i \in sessions |-> Nexus!CouncilReport(bundle.objects[i], answer)]
           source == Nexus!SourceManifest(bundle, answer)
           p == Nexus!Projection(checkout, loaded, bundle, copy, answer)
<1>1. /\ Nexus!Verified(copy, answer)
      /\ source # Refused /\ Nexus!CouncilReports(bundle, answer) # Refused
      /\ p = [source |-> source, reports |-> Nexus!CouncilReports(bundle, answer)]
  BY DEF Nexus!Projection
<1>2. answer.refs = Nexus!Refs(copy)
  BY <1>1 DEF Nexus!Verified
<1>3. Nexus!CouncilReports(bundle, answer) = reports /\ Refused \notin Nexus!Range(reports)
  BY <1>1 DEF Nexus!CouncilReports
<1>4. p.source = source /\ p.reports = reports
  BY <1>1, <1>3
<1>5. source.refs = answer.refs
  BY <1>1 DEF Nexus!SourceManifest
<1>6. ASSUME NEW i \in sessions
      PROVE  Nexus!Faithful(reports[i], bundle.objects[i], copy)
  <2>1. reports[i] = Nexus!CouncilReport(bundle.objects[i], answer) /\ reports[i] # Refused
    BY <1>3 DEF Nexus!Range
  <2> HIDE DEF reports, sessions
  <2>2. IsSession(bundle.objects[i])
    BY DEF sessions
  <2> QED BY <1>2, <2>1, <2>2, ReportIsFaithful
<1> QED BY <1>2, <1>4, <1>5, <1>6 DEF Nexus!Distorts

\* packed-refs is a list of lines, and git gives every name one of them.
Packed(checkout) ==
    /\ DOMAIN checkout.packed \subseteq Nat
    /\ \A i, j \in DOMAIN checkout.packed :
          checkout.packed[i].name = checkout.packed[j].name => i = j

\* The verifier is only loaded from the pinned files of a checkout whose HEAD, as
\* git itself reads it, is the pinned commit, and only once (_git_head,
\* _attest_nexus_checkout, _load_native_runtime).
THEOREM OnlyThePinnedVerifies ==
    ASSUME NEW checkout, Packed(checkout), NEW loaded \in BOOLEAN,
           Refused # Nexus!Pinned,
           Nexus!LoadsRuntime(checkout, loaded)
    PROVE  Nexus!IsPinned(checkout, loaded)
<1>1. /\ Nexus!GitHead(checkout) = Nexus!Pinned
      /\ \A f \in Nexus!AttestedFiles : checkout.blob[f] = Nexus!Pinned
      /\ ~loaded
  BY DEF Nexus!LoadsRuntime, Nexus!Attested
<1>2. Nexus!CommitOfGit(checkout) = Nexus!Pinned
  <2>1. CASE checkout.ref = Nothing \/ checkout.loose # Nothing
    BY <1>1, <2>1 DEF Nexus!GitHead, Nexus!CommitOfGit
  <2>2. CASE checkout.ref # Nothing /\ checkout.loose = Nothing
    <3> DEFINE named == {i \in DOMAIN checkout.packed : checkout.packed[i].name = checkout.ref}
               lines == {i \in DOMAIN checkout.packed : /\ checkout.packed[i].name = checkout.ref
                                                        /\ checkout.packed[i].commit # "garbage"}
               first == CHOOSE i \in lines : \A j \in lines : i <= j
               entries == {l \in Nexus!Range(checkout.packed) : l.name = checkout.ref}
    <3>1. lines # {} /\ checkout.packed[first].commit = Nexus!Pinned
      BY <1>1, <2>2 DEF Nexus!GitHead
    <3>2. PICK i \in lines : TRUE
      BY <3>1
    <3>3. i \in Nat /\ lines = {i}
      BY <3>2 DEF Packed
    <3>4. first = i
      <4>1. \A j \in lines : i <= j
        BY <3>3
      <4>2. first \in lines
        BY <3>2, <4>1
      <4> QED BY <3>3, <4>2
    <3>5. entries = {checkout.packed[i]}
      BY <3>2 DEF Packed, Nexus!Range
    <3>6. (CHOOSE l \in entries : TRUE) = checkout.packed[i]
      BY <3>5
    <3>7. entries # {}
      BY <3>5
    <3> HIDE DEF first, entries
    <3>8. Nexus!CommitOfGit(checkout) = (CHOOSE l \in entries : TRUE).commit
      BY <2>2, <3>7 DEF Nexus!CommitOfGit, entries
    <3> QED BY <3>1, <3>4, <3>6, <3>8
  <2> QED BY <2>1, <2>2
<1> QED BY <1>1, <1>2 DEF Nexus!IsPinned

-----------------------------------------------------------------------------
(***************************************************************************)
(* Every export and checkout of the model is one of those the theorems     *)
(* above are about, and a plain council is reported.                       *)
(***************************************************************************)
LEMMA NexusCardinality == \A S : Nexus!Cardinality(S) = Cardinality(S)
BY DEF Nexus!Cardinality, Cardinality

\* One element, two and three.
LEMMA ListsOf ==
    ASSUME NEW a, NEW b, NEW c
    PROVE  /\ DOMAIN <<a>> = {1} /\ Len(<<a>>) = 1 /\ <<a>>[1] = a
           /\ DOMAIN <<a, b>> = {1, 2} /\ Len(<<a, b>>) = 2 /\ <<a, b>>[1] = a /\ <<a, b>>[2] = b
           /\ DOMAIN <<a, b, c>> = {1, 2, 3} /\ Len(<<a, b, c>>) = 3
           /\ <<a, b, c>>[1] = a /\ <<a, b, c>>[2] = b /\ <<a, b, c>>[3] = c
<1>1. DOMAIN <<a>> = {1} /\ Len(<<a>>) = 1 /\ <<a>>[1] = a
  OBVIOUS
<1>2. DOMAIN <<a, b>> = {1, 2} /\ Len(<<a, b>>) = 2 /\ <<a, b>>[1] = a /\ <<a, b>>[2] = b
  OBVIOUS
<1>3. DOMAIN <<a, b, c>> = {1, 2, 3} /\ Len(<<a, b, c>>) = 3
  OBVIOUS
<1>4. <<a, b, c>>[1] = a /\ <<a, b, c>>[2] = b /\ <<a, b, c>>[3] = c
  OBVIOUS
<1> QED BY <1>1, <1>2, <1>3, <1>4

LEMMA RostersAreLists ==
    ASSUME NEW roster \in Nexus!Rosters
    PROVE  \E n \in Nat : DOMAIN roster = 1 .. n
<1>1. CASE roster \in UNION {[1..n -> Nexus!RawMembers] : n \in 0..2}
  <2>1. PICK n \in 0..2 : roster \in [1..n -> Nexus!RawMembers]
    BY <1>1
  <2>2. DOMAIN roster = 1..n /\ n \in Nat
    BY <2>1
  <2> QED BY <2>2
<1>2. CASE roster \notin UNION {[1..n -> Nexus!RawMembers] : n \in 0..2}
  <2>1. roster \in {[i \in 1..3 |-> [id |-> <<"a", "b", "c">>[i], weight |-> 1, privileged |-> FALSE]]}
    BY <1>2 DEF Nexus!Rosters
  <2>2. DOMAIN roster = 1..3
    BY <2>1
  <2> QED BY <2>2
<1> QED BY <1>1, <1>2

\* The sessions of an export have lists of members.
LEMMA MinutesAreSession == IsSession(Nexus!Minutes)
<1> DEFINE member == [id |-> "a~", weight |-> 1, privileged |-> FALSE]
<1>1. Nexus!Minutes.roster = <<member>>
  BY DEF Nexus!Minutes
<1> HIDE DEF member
<1>2. DOMAIN Nexus!Minutes.roster = 1 .. 1
  BY <1>1, ListsOf
<1> QED BY <1>2 DEF IsSession

LEMMA SessionsAre ==
    ASSUME NEW s \in Nexus!Sessions
    PROVE  IsSession(s)
<1>1. s.roster \in Nexus!Rosters
  BY DEF Nexus!Sessions
<1> QED BY <1>1, RostersAreLists DEF IsSession

LEMMA BundleIs ==
    ASSUME NEW objects
    PROVE  /\ Nexus!Bundle(objects).objects = objects
           /\ Nexus!Bundle(objects).schema = "export/1"
           /\ Nexus!Bundle(objects).head = Nothing
           /\ Nexus!Bundle(objects).bundleRef = "b1"
BY DEF Nexus!Bundle

\* What an export holds.
LEMMA ExportsAre ==
    ASSUME NEW e \in Nexus!Exports
    PROVE  \E s \in Nexus!Sessions :
              /\ \/ e.bundle = Nexus!Bundle(<<s>>)
                 \/ e.bundle = Nexus!Bundle(<<s, Nexus!World>>)
                 \/ e.bundle = Nexus!Bundle(<<Nexus!Minutes, s>>)
                 \/ e.bundle = Nexus!Bundle(<<s, Nexus!Minutes, Nexus!Minutes>>)
<1> DEFINE of(s) == {<<<<s>>, <<s>>>>, <<<<s, Nexus!World>>, <<Nexus!World>>>>,
                     <<<<Nexus!Minutes, s>>, <<Nexus!Minutes, s>>>>,
                     <<<<s, Nexus!Minutes, Nexus!Minutes>>, <<s, Nexus!Minutes, Nexus!Minutes>>>>}
<1>1. PICK objects \in UNION {of(s) : s \in Nexus!Sessions} :
         e = [bundle |-> Nexus!Bundle(objects[1]), copy |-> Nexus!Bundle(objects[2])]
  BY DEF Nexus!Exports
<1> HIDE DEF of
<1>2. PICK s \in Nexus!Sessions : objects \in of(s)
  OBVIOUS
<1>3. e.bundle = Nexus!Bundle(objects[1])
  BY <1>1
<1>4. \/ objects[1] = <<s>>
      \/ objects[1] = <<s, Nexus!World>>
      \/ objects[1] = <<Nexus!Minutes, s>>
      \/ objects[1] = <<s, Nexus!Minutes, Nexus!Minutes>>
  BY <1>2 DEF of
<1> QED BY <1>3, <1>4

LEMMA NothingIsDistorted == Nexus!Distorted = {}
<1>1. ASSUME NEW e \in Nexus!Exports, NEW i \in Nexus!CouncilSessions(e.bundle)
      PROVE  IsSession(e.bundle.objects[i])
  <2> DEFINE objects == e.bundle.objects
  <2>1. i \in DOMAIN objects /\ objects[i].type = "council_session"
    BY DEF Nexus!CouncilSessions
  <2>20. PICK s \in Nexus!Sessions :
              \/ e.bundle = Nexus!Bundle(<<s>>)
              \/ e.bundle = Nexus!Bundle(<<s, Nexus!World>>)
              \/ e.bundle = Nexus!Bundle(<<Nexus!Minutes, s>>)
              \/ e.bundle = Nexus!Bundle(<<s, Nexus!Minutes, Nexus!Minutes>>)
    BY ExportsAre
  <2>2. \/ objects = <<s>>
        \/ objects = <<s, Nexus!World>>
        \/ objects = <<Nexus!Minutes, s>>
        \/ objects = <<s, Nexus!Minutes, Nexus!Minutes>>
    BY <2>20, BundleIs
  <2> HIDE DEF objects
  <2>3. objects[i] \in {s, Nexus!World, Nexus!Minutes}
    <3>1. CASE objects = <<s>>
      BY <2>1, <3>1, ListsOf
    <3>2. CASE objects = <<s, Nexus!World>>
      BY <2>1, <3>2, ListsOf
    <3>3. CASE objects = <<Nexus!Minutes, s>>
      BY <2>1, <3>3, ListsOf
    <3>4. CASE objects = <<s, Nexus!Minutes, Nexus!Minutes>>
      BY <2>1, <3>4, ListsOf
    <3> QED BY <2>2, <3>1, <3>2, <3>3, <3>4
  <2>4. Nexus!World.type = "world"
    BY DEF Nexus!World
  <2> QED BY <2>1, <2>3, <2>4, SessionsAre, MinutesAreSession DEF objects
<1> QED BY <1>1, ProjectionsAreFaithful DEF Nexus!Distorted

LEMMA NothingIsUnattested == Nexus!Unattested = {}
<1>1. ASSUME NEW checkout \in Nexus!Checkouts PROVE Packed(checkout)
  <2>1. checkout.packed \in {<<>>} \cup {<<l>> : l \in Nexus!PackedLines}
    BY DEF Nexus!Checkouts
  <2>2. CASE checkout.packed = <<>>
    <3>1. DOMAIN checkout.packed = {}
      BY <2>2
    <3> QED BY <3>1 DEF Packed
  <2>3. ASSUME NEW l, checkout.packed = <<l>>
        PROVE  Packed(checkout)
    <3>1. DOMAIN checkout.packed = {1}
      BY <2>3
    <3> QED BY <3>1 DEF Packed
  <2> QED BY <2>1, <2>2, <2>3
<1>2. ASSUME NEW q \in Nexus!Checkouts \X BOOLEAN, Nexus!LoadsRuntime(q[1], q[2])
      PROVE  Nexus!IsPinned(q[1], q[2])
  <2>1. q[1] \in Nexus!Checkouts /\ q[2] \in BOOLEAN
    OBVIOUS
  <2>2. Packed(q[1]) /\ Refused # Nexus!Pinned
    BY <1>1, <2>1, NexusAssumption
  <2> QED BY <1>2, <2>1, <2>2, OnlyThePinnedVerifies
<1> QED BY <1>2 DEF Nexus!Unattested

\* What becomes of the texts of a plain council.
LEMMA PlainTexts ==
    /\ Nexus!NfcText("a~") = "a" /\ Nexus!NfcText("a") = "a" /\ Nexus!NfcText("b") = "b"
    /\ Refused \notin {"a", "b"} /\ {"a", "b"} = Nexus!Texts
<1>1. Nexus!Nfc("a~") = "a" /\ Nexus!Nfc("a") = "a" /\ Nexus!Nfc("b") = "b"
  BY DEF Nexus!Nfc
<1>2. Nexus!NfcText("a~") = "a" /\ Nexus!NfcText("a") = "a" /\ Nexus!NfcText("b") = "b"
  BY <1>1, NexusAssumption DEF Nexus!NfcText, Nexus!TooLong, Nexus!ScrubberChanges
<1> QED BY <1>2, NexusAssumption DEF Nexus!Texts

LEMMA PlainMembers ==
    ASSUME NEW roster,
           roster = <<[id |-> "a~", weight |-> 1, privileged |-> FALSE],
                      [id |-> "b", weight |-> 1, privileged |-> FALSE]>>
    PROVE  /\ DOMAIN roster = 1..2
           /\ Nexus!MemberOf(roster[1]) = "a" /\ Nexus!MemberOf(roster[2]) = "b"
<1> DEFINE left == [id |-> "a~", weight |-> 1, privileged |-> FALSE]
           right == [id |-> "b", weight |-> 1, privileged |-> FALSE]
<1>1. roster = <<left, right>>
  OBVIOUS
<1>2. Nexus!MemberOf(left) = "a" /\ Nexus!MemberOf(right) = "b"
  BY PlainTexts DEF Nexus!MemberOf
<1> HIDE DEF left, right
<1>3. DOMAIN roster = {1, 2} /\ roster[1] = left /\ roster[2] = right
  BY <1>1, ListsOf
<1>4. 1..2 = {1, 2}
  OBVIOUS
<1> QED BY <1>2, <1>3, <1>4

LEMMA PlainMinority ==
    ASSUME NEW raw \in {<<>>, <<[member |-> "a", choice |-> "b", rationale |-> "a~"]>>},
           NEW group, "a" \in group
    PROVE  /\ Nexus!MinorityReports(raw, group) \in UNION {[1..n -> Nexus!Dissents] : n \in 0..1}
           /\ Nexus!MinorityReports(raw, group) # Refused
<1> DEFINE said(r) == [member |-> Nexus!NfcText(r.member), choice |-> Nexus!NfcText(r.choice),
                       rationale |-> Nexus!NfcText(r.rationale)]
           reports == Nexus!MinorityReports(raw, group)
           dissent == [member |-> "a", choice |-> "b", rationale |-> "a~"]
<1>0. ASSUME Len(raw) <= 1,
             \A r \in Nexus!Range(raw) : Refused \notin {said(r).choice, said(r).rationale}
                                         /\ said(r).member \in group
      PROVE  reports = [i \in DOMAIN raw |-> said(raw[i])]
  <2>1. ~(Len(raw) > Nexus!MaxMinorities)
    BY <1>0 DEF Nexus!MaxMinorities
  <2>2. ~\E r \in Nexus!Range(raw) :
            Refused \in {said(r).choice, said(r).rationale} \/ said(r).member \notin group
    BY <1>0
  <2> QED BY <2>1, <2>2 DEF Nexus!MinorityReports
<1>1. CASE raw = <<>>
  <2>1. DOMAIN raw = {} /\ Len(raw) = 0 /\ Nexus!Range(raw) = {}
    BY <1>1 DEF Nexus!Range
  <2>2. reports = [i \in DOMAIN raw |-> said(raw[i])]
    BY <1>0, <2>1
  <2>3. reports \in [1..0 -> Nexus!Dissents]
    BY <2>1, <2>2
  <2>4. 0 \in 0..1
    OBVIOUS
  <2> HIDE DEF reports
  <2> QED BY <2>3, <2>4, NexusAssumption DEF reports
<1>2. CASE raw = <<dissent>>
  <2>1. /\ said(dissent) = [member |-> "a", choice |-> "b", rationale |-> "a"]
    BY PlainTexts
  <2>2. said(dissent).member = "a" /\ said(dissent).choice = "b" /\ said(dissent).rationale = "a"
    BY <2>1
  <2>3. said(dissent) \in Nexus!Dissents
    BY <2>1, PlainTexts DEF Nexus!Dissents
  <2> HIDE DEF dissent, said
  <2>4. DOMAIN raw = {1} /\ Len(raw) = 1 /\ raw[1] = dissent
    BY <1>2, ListsOf
  <2>5. \A r \in Nexus!Range(raw) : r = dissent
    BY <2>4 DEF Nexus!Range
  <2>6. reports = [i \in DOMAIN raw |-> said(raw[i])]
    <3>1. \A r \in Nexus!Range(raw) : Refused \notin {said(r).choice, said(r).rationale}
                                      /\ said(r).member \in group
      BY <2>2, <2>5, PlainTexts
    <3>2. Len(raw) <= 1
      BY <2>4
    <3> QED BY <1>0, <3>1, <3>2 DEF said
  <2>7. 1..1 = {1}
    OBVIOUS
  <2>8. reports \in [1..1 -> Nexus!Dissents]
    <3> HIDE DEF reports
    <3>1. \A i \in {1} : said(raw[i]) \in Nexus!Dissents
      BY <2>3, <2>4
    <3>2. [i \in {1} |-> said(raw[i])] \in [{1} -> Nexus!Dissents]
      BY <3>1
    <3> QED BY <2>4, <2>6, <2>7, <3>2
  <2>9. 1 \in 0..1
    OBVIOUS
  <2> HIDE DEF reports
  <2> QED BY <2>8, <2>9, NexusAssumption DEF reports
<1> QED BY <1>1, <1>2

LEMMA PlainReport ==
    ASSUME NEW session, NEW answer,
           session.id = Nexus!Ref(1), session.session = "a", session.question = Nexus!Ref(3),
           session.evidence = "b", session.id \in Nexus!Range(answer.refs),
           session.roster = <<[id |-> "a~", weight |-> 1, privileged |-> FALSE],
                              [id |-> "b", weight |-> 1, privileged |-> FALSE]>>,
           session.minority \in {<<>>, <<[member |-> "a", choice |-> "b", rationale |-> "a~"]>>}
    PROVE  Nexus!CouncilReport(session, answer) \in Nexus!Reports
<1> DEFINE voices == [i \in DOMAIN session.roster |-> Nexus!MemberOf(session.roster[i])]
           evidence == IF session.evidence = Nothing THEN "UNSPECIFIED"
                       ELSE Nexus!NfcText(session.evidence)
           group == Nexus!Range(voices)
           minority == Nexus!MinorityReports(session.minority, group)
           report == [session |-> session.id, name |-> Nexus!NfcText(session.session),
                      members |-> voices, evidence |-> evidence, minority |-> minority]
<1>1. /\ DOMAIN session.roster = 1..2
      /\ Nexus!MemberOf(session.roster[1]) = "a" /\ Nexus!MemberOf(session.roster[2]) = "b"
  BY PlainMembers
<1>2. /\ voices \in [1..2 -> Nexus!Texts] /\ DOMAIN voices = 1..2
      /\ voices[1] = "a" /\ voices[2] = "b"
  <2>1. 1 \in 1..2 /\ 2 \in 1..2 /\ \A i \in 1..2 : i = 1 \/ i = 2
    OBVIOUS
  <2>2. voices[1] = "a" /\ voices[2] = "b" /\ DOMAIN voices = 1..2
    BY <1>1, <2>1
  <2>3. voices = [i \in 1..2 |-> voices[i]]
    BY <1>1
  <2> HIDE DEF voices
  <2>4. \A i \in 1..2 : voices[i] \in Nexus!Texts
    BY <2>1, <2>2, PlainTexts
  <2>5. voices \in [1..2 -> Nexus!Texts]
    BY <2>3, <2>4
  <2> QED BY <2>2, <2>5
<1>3. voices # <<>> /\ Len(voices) = 2
  <2>1. Len(voices) = 2
    BY <1>1
  <2>2. DOMAIN voices # {}
    BY <1>1
  <2>3. DOMAIN <<>> = {}
    OBVIOUS
  <2> HIDE DEF voices
  <2> QED BY <2>1, <2>2, <2>3
<1>4. group = {"a", "b"}
  <2> HIDE DEF voices
  <2> QED BY <1>2 DEF Nexus!Range
<1>5. Nexus!IsInjective(voices)
  <2> HIDE DEF voices
  <2>1. \A i, j \in 1..2 : voices[i] = voices[j] => i = j
    BY <1>2
  <2> QED BY <1>2, <2>1 DEF Nexus!IsInjective
<1>6. evidence = "b" /\ Nexus!NfcText(session.session) = "a"
  BY PlainTexts, NexusAssumption
<1> HIDE DEF voices, group
<1>7. minority \in UNION {[1..n -> Nexus!Dissents] : n \in 0..1} /\ minority # Refused
  BY <1>4, PlainMinority
<1>8. session.question # Nothing
  BY NexusAssumption
<1> HIDE DEF minority, evidence
<1>9. Nexus!CouncilReport(session, answer) = report
  <2>1. ~(Len(voices) > Nexus!MaxCouncilMembers)
    BY <1>3 DEF Nexus!MaxCouncilMembers
  <2>2. Refused \notin group
    BY <1>4, PlainTexts
  <2>3. Refused \notin {evidence, Nexus!NfcText(session.session)}
    BY <1>6, PlainTexts
  <2> QED BY <1>3, <1>5, <1>7, <1>8, <2>1, <2>2, <2>3
          DEF Nexus!CouncilReport, voices, group, minority, evidence
<1>10. report \in Nexus!Reports
  <2>1. /\ session.id \in {Nexus!Ref(1)} /\ Nexus!NfcText(session.session) \in Nexus!Texts
        /\ evidence \in Nexus!Texts
    BY <1>6, PlainTexts
  <2> QED BY <1>2, <1>7, <2>1 DEF Nexus!Reports
<1> QED BY <1>9, <1>10

\* A plain council of two, with one that dissents, is reported.
LEMMA NothingIsWithheld == Nexus!Withheld = {}
<1>1. ASSUME NEW e \in Nexus!Exports, e.copy = e.bundle, Len(e.bundle.objects) = 1,
             NEW session, session = e.bundle.objects[1],
             session.roster = <<[id |-> "a~", weight |-> 1, privileged |-> FALSE],
                                [id |-> "b", weight |-> 1, privileged |-> FALSE]>>,
             session.evidence = "b",
             session.minority \in {<<>>, <<[member |-> "a", choice |-> "b", rationale |-> "a~"]>>}
      PROVE  Nexus!Projection(Nexus!Sound, FALSE, e.bundle, e.copy, Nexus!Answer(e.copy)) # Refused
  <2> DEFINE objects == e.bundle.objects
             answer == Nexus!Answer(e.copy)
             source == Nexus!SourceManifest(e.bundle, answer)
             report == Nexus!CouncilReport(session, answer)
             reports == Nexus!CouncilReports(e.bundle, answer)
             p == Nexus!Projection(Nexus!Sound, FALSE, e.bundle, e.copy, answer)
  <2>1. objects = <<session>> /\ session \in Nexus!Sessions
    <3>1. PICK s \in Nexus!Sessions :
              \/ e.bundle = Nexus!Bundle(<<s>>)
              \/ e.bundle = Nexus!Bundle(<<s, Nexus!World>>)
              \/ e.bundle = Nexus!Bundle(<<Nexus!Minutes, s>>)
              \/ e.bundle = Nexus!Bundle(<<s, Nexus!Minutes, Nexus!Minutes>>)
      BY ExportsAre
    <3>2. \/ objects = <<s>>
          \/ objects = <<s, Nexus!World>>
          \/ objects = <<Nexus!Minutes, s>>
          \/ objects = <<s, Nexus!Minutes, Nexus!Minutes>>
      BY <3>1, BundleIs
    <3>3. Len(objects) = 1 /\ session = objects[1]
      BY <1>1
    <3> HIDE DEF objects
    <3>4. objects = <<s>>
      <4>1. objects # <<s, Nexus!World>>
        BY <3>3, ListsOf
      <4>2. objects # <<Nexus!Minutes, s>>
        BY <3>3, ListsOf
      <4>3. objects # <<s, Nexus!Minutes, Nexus!Minutes>>
        BY <3>3, ListsOf
      <4> QED BY <3>2, <4>1, <4>2, <4>3
    <3>5. objects[1] = s
      BY <3>4, ListsOf
    <3> QED BY <3>3, <3>4, <3>5
  <2>2. /\ session.id = Nexus!Ref(1) /\ session.session = "a" /\ session.question = Nexus!Ref(3)
        /\ session.type = "council_session"
    BY <2>1 DEF Nexus!Sessions
  <2>3. e.bundle.schema = "export/1" /\ e.bundle.head = Nothing /\ e.bundle.bundleRef = "b1"
    <3>1. PICK o : e.bundle = Nexus!Bundle(o)
      BY ExportsAre
    <3> QED BY <3>1, BundleIs
  <2> HIDE DEF objects
  <2>4. DOMAIN objects = {1} /\ objects[1] = session
    BY <2>1, ListsOf
  <2>5. Nexus!Refs(e.bundle) = [i \in {1} |-> Nexus!Ref(1)]
    <3>1. Nexus!Refs(e.bundle) = [i \in DOMAIN objects |-> objects[i].id]
      BY DEF Nexus!Refs, objects
    <3>2. \A i \in {1} : objects[i].id = Nexus!Ref(1)
      BY <2>2, <2>4
    <3> QED BY <2>4, <3>1, <3>2
  <2>6. /\ answer.status = "verified" /\ answer.bundleRef = e.copy.bundleRef
        /\ answer.count = e.copy.count /\ answer.refs = Nexus!Refs(e.copy)
    BY DEF Nexus!Answer
  <2> HIDE DEF answer
  <2>7. /\ DOMAIN answer.refs = {1} /\ answer.refs \in [{1} -> {Nexus!Ref(1)}]
        /\ Nexus!Range(answer.refs) = {Nexus!Ref(1)} /\ answer.refs # <<>>
    <3>1. answer.refs = [i \in {1} |-> Nexus!Ref(1)]
      BY <1>1, <2>5, <2>6
    <3>2. DOMAIN answer.refs = {1} /\ answer.refs[1] = Nexus!Ref(1) /\ answer.refs \in [{1} -> {Nexus!Ref(1)}]
      BY <3>1
    <3>3. DOMAIN <<>> = {}
      OBVIOUS
    <3>4. answer.refs # <<>>
      BY <3>2, <3>3
    <3> QED BY <3>2, <3>4 DEF Nexus!Range
  <2>8. source \in Nexus!Sources
    <3>1. Nexus!Ref(1).kind = "object"
      BY DEF Nexus!Ref
    <3>2. source = [bundleRef |-> answer.bundleRef, head |-> e.bundle.head, refs |-> answer.refs]
      BY <2>3, <2>7, <3>1 DEF Nexus!SourceManifest
    <3> HIDE DEF source
    <3>3. answer.bundleRef = "b1"
      BY <1>1, <2>3, <2>6
    <3> QED BY <2>3, <2>7, <3>2, <3>3 DEF Nexus!Sources
  <2>9. report \in Nexus!Reports
    BY <1>1, <2>2, <2>7, PlainReport
  <2>10. reports \in [{1} -> Nexus!Reports]
    <3> DEFINE sessions == Nexus!CouncilSessions(e.bundle)
               each == [i \in sessions |-> Nexus!CouncilReport(e.bundle.objects[i], answer)]
    <3>1. sessions = {1}
      <4>1. sessions = {i \in DOMAIN objects : objects[i].type = "council_session"}
        BY DEF Nexus!CouncilSessions, objects
      <4> QED BY <2>2, <2>4, <4>1
    <3>2. each = [i \in {1} |-> report]
      <4>1. \A i \in {1} : e.bundle.objects[i] = session
        BY <1>1
      <4> HIDE DEF sessions
      <4> QED BY <3>1, <4>1
    <3>3. Nexus!Cardinality(sessions) = 1
      BY <3>1, FS_Singleton, NexusCardinality
    <3>4. Nexus!Range(each) = {report}
      <4> HIDE DEF each, report
      <4> QED BY <3>2 DEF Nexus!Range
    <3>5. Refused \notin Nexus!Range(each)
      BY <2>9, <3>4, NexusAssumption
    <3> HIDE DEF each
    <3>6. reports = IF Refused \in Nexus!Range(each) \/ Nexus!Cardinality(sessions) > Nexus!MaxReports
                      THEN Refused ELSE each
      BY DEF Nexus!CouncilReports, each
    <3>7. ~(Nexus!Cardinality(sessions) > Nexus!MaxReports)
      BY <3>3 DEF Nexus!MaxReports
    <3> HIDE DEF reports, report, sessions
    <3>8. reports = [i \in {1} |-> report]
      BY <3>2, <3>5, <3>6, <3>7
    <3> QED BY <2>9, <3>8
  <2>11. Nexus!Verified(e.copy, answer)
    BY <2>6 DEF Nexus!Verified
  <2>12. Nexus!LoadsRuntime(Nexus!Sound, FALSE)
    BY DEF Nexus!LoadsRuntime, Nexus!Attested, Nexus!GitHead, Nexus!Sound
  <2>13. source # Refused /\ reports # Refused
    BY <2>8, <2>10, NexusAssumption
  <2>14. p = [source |-> source, reports |-> reports]
    BY <2>11, <2>12, <2>13 DEF Nexus!Projection
  <2> HIDE DEF source, reports, p
  <2>15. p \in Nexus!Projections
    BY <2>8, <2>10, <2>14 DEF Nexus!Projections
  <2>16. p # Refused
    BY <2>15, NexusAssumption
  <2> QED BY <2>16 DEF p, answer
<1> QED BY <1>1 DEF Nexus!Withheld

\* Whatever the checkout and the export: a report is only made by the pinned
\* verifier of the commit that is checked out, of a session it has seen, and says
\* of the council what its session says; a plain council is not withheld
\* (verified_projection).
THEOREM ReportsAreFaithful == Spec => []ProjectsFaithfully
<1>1. Nexus!FaithfulProjection
  BY NothingIsDistorted, NothingIsWithheld, NothingIsUnattested DEF Nexus!FaithfulProjection
<1>2. ProjectsFaithfully
  BY <1>1 DEF ProjectsFaithfully
<1> QED BY <1>2, PTL
=============================================================================
