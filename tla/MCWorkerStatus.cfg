SPECIFICATION Spec
CONSTANTS
    MaxJobs = 2
    Workspaces = {default, w1}
    Default = default
    Agents = {g1, g2}
    Patches = {FALSE}
    Limits = {1, 2}
    MaxCrashes = 0
INVARIANT BusyAgentsAreActive
CHECK_DEADLOCK FALSE
