\* One task, two goroutines that overlap, repeated deliveries, a cancellation, restarts.
SPECIFICATION Spec
CONSTANTS
    r1 = r1
    w1 = w1
    w2 = w2
    Routes = {r1}
    Workers = {w1, w2}
    Cancellable = {r1}
    Restarts = TRUE
    MaxDeliveries = 2
    MaxHandled = 9
    MaxRecent = 1
SYMMETRY Symmetry
INVARIANTS
    OnlyTheVehicleConfirms
PROPERTIES
    TasksMoveForward
CHECK_DEADLOCK FALSE
