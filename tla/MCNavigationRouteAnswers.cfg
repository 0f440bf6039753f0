\* Two tasks, commands delivered again; no acknowledgement needs to reach the platform.
SPECIFICATION FairSpec
CONSTANTS
    r1 = r1
    r2 = r2
    w1 = w1
    Routes = {r1, r2}
    Workers = {w1}
    Cancellable = {}
    Restarts = FALSE
    MaxDeliveries = 2
    MaxHandled = 0
    MaxRecent = 2
INVARIANTS
    DrivenOnce
PROPERTIES
    TasksAreAnswered
CHECK_DEADLOCK FALSE
