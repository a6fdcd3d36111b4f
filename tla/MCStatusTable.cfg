SPECIFICATION Spec
CONSTANTS
    Requests = {r1, r2}
    Texts = {t1}
    Handlers = {h1, h2}
    Targets = {"approved", "completed"}
    MaxApprovals = 2
    MaxCalls = 3
    MaxRoadmaps = 1
    MaxCrashes = 1
PROPERTY StatusFollowsTable
CHECK_DEADLOCK FALSE
