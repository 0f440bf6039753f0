\* Two requests at a time with one session, and the logins that may open it.
SPECIFICATION Spec
CONSTANTS
    w1 = w1
    w2 = w2
    t1 = t1
    p1 = p1
    c1 = c1
    g1 = g1
    g2 = g2
    Workers = {w1, w2}
    Tokens = {t1}
    Preauths = {p1}
    Captchas = {c1}
    Grants = {g1, g2}
    IdleTtl = 1
    AbsTtl = 1
    LockAfterFails = 2
    LockDuration = 1
    MaxTime = 2
    MaxEvents = 2
SYMMETRY Symmetry
INVARIANTS
    AbsoluteLifetime
    RevocationIsFinal
    GroupChangesReachSessions
CHECK_DEADLOCK FALSE
