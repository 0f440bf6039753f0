\* Two calls at a time, two messages that come repeatedly.
SPECIFICATION Spec
CONSTANTS
    w1 = w1
    w2 = w2
    n1 = n1
    n2 = n2
    i1 = i1
    Workers = {w1, w2}
    Ips = {i1}
    Nonces = {n1, n2}
    Stamp <- Stamps
    Grants <- Either
    Settings <- SomeSettings
    Defaults <- Standard
    MaxWindow = 2
    NonceTtl = 2
    RateWindow = 2
    Threshold = 2
    FailWindow = 2
    LockTime = 1
    MaxTime = 2
    MaxEvents = 2
SYMMETRY Symmetry
INVARIANTS
    ReplaysAreRefused
    RateIsBounded
    LockStopsGuessing
    AnsweredChangesHold
CHECK_DEADLOCK FALSE
