\* One task, a callback and a cancellation that overlap.
SPECIFICATION Spec
CONSTANTS
    r1 = r1
    w1 = w1
    w2 = w2
    Routes = {r1}
    Workers = {w1, w2}
    Cancellable = {r1}
    Restarts = FALSE
    MaxDeliveries = 1
    MaxHandled = 9
    MaxRecent = 1
PROPERTIES
    TerminalIsFinal
CHECK_DEADLOCK FALSE
