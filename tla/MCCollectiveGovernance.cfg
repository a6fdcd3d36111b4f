SPECIFICATION Spec
CONSTANTS
    Members = {m1, m2}
    Answers = {"yes", "no"}
    VoteIds = {v1, v2}
    AmendmentIds = {a1}
    Counts = {3}
    BadPayload = bad
    Decisions = {"other"}
    Methods = {"simple_majority", "consensus"}
    Quorums = {50}
    Supermajority = 67
    TracksVotes = TRUE
    MaxVersions = 2
    MaxCrashes = 1
SYMMETRY Symmetric
INVARIANTS
    TypeOK
    NobodyCountsTwice
    BallotsLostOnlyInCrashes
    PassedByItsBallots
    AmendmentsFollowTheirVotes
    AmendedOnce
    RecordedFirst
CHECK_DEADLOCK FALSE
