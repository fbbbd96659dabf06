SPECIFICATION MCSpec
CONSTANTS
    m1 = m1
    m2 = m2
    m3 = m3
    s1 = s1
    s2 = s2
    s3 = s3
    Member = {m1, m2, m3}
    Subject = {s1, s2, s3}
    Draft <- MCDraft
    NotMember = NotMember
    NoVote = NoVote
    Pending = Pending
    Refused = Refused
    Nothing = Nothing
    MaxMembers = 3
    MaxProposals = 2
    MaxAdvisories = 1
    MaxSequence = 2
    MaxVotes = 3
    MaxWithdrawals = 1
SYMMETRY MCSymmetry
INVARIANTS
    OneSubjectOneVote
    NoDrift
    CharterIsKept
    ProjectsFaithfully
PROPERTIES
    DecidesByBallot
CHECK_DEADLOCK FALSE
