\* Two leases, two sessions, two fencing tokens; every actuator outcome, restarts.
\* A lost reply to a minimal-risk request changes nothing the Arbiter or the ECU keeps.
CONSTANTS
    LeaseIds = {l1, l2}
    Sessions = {s1, s2}
    MaxFencing = 2
    MaxSeq = 2
    Horizon = 4
    Watchdog = 1
    TickPeriod = 1
    MaxClockSkew = 0
    LeaseTTL = 1
    CommandTTL = 1
    CallTime = 1
    MotionOutcomes = {"ok", "lost", "refused", "late"}
    RiskOutcomes = {"ok", "refused", "late"}
    Crashes = TRUE
SPECIFICATION Spec
SYMMETRY Symmetry
INVARIANTS
    ControlEndsOnTime
    LossIsFinal
    NoActuationAfterControlLoss
PROPERTIES
    MotionInOrder
    ImplementsFencedControl
