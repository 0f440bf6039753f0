\* Two vehicles and drivers, two leases, renewed in their grace too; vehicles lose
\* their gateway, capability and liveness and regain them.
CONSTANTS
    Vehicles = {v1, v2}
    Drivers = {d1, d2}
    LeaseIds = {l1, l2}
    RequestIds = {r1}
    LeaseTTL = 1
    Grace = 1
    Standings = {{"gateway", "capability", "live"}, {"capability"}}
    MaxFencing = 2
    Horizon = 3
SPECIFICATION Spec
SYMMETRY Symmetry
CHECK_DEADLOCK FALSE
INVARIANTS
    ExclusiveControl
    EndedLeasesAreFenced
    MessagesMatchLeases
    StandingLimitsControl
PROPERTIES
    LeasesOnlyMoveForward
