SPECIFICATION Spec
CONSTANTS
    Requests = {r1, r2}
    Texts = {t1, t2}
    Handlers = {h1, h2}
    Targets = {"approved", "empty"}
    MaxApprovals = 2
    MaxCalls = 3
    MaxRoadmaps = 1
    MaxCrashes = 1
SYMMETRY Symmetry
INVARIANTS
    TypeOK
    NothingExecutesUndecided
    ExecutedOnce
    AwaitingIsItsOwn
    RecordedDecisionsHappened
    RequestsAreAccountedFor
CHECK_DEADLOCK FALSE
