\* One session of two messages, handled by two callbacks in any order and again.
SPECIFICATION FairSpec
CONSTANTS
    c1 = c1
    c2 = c2
    g1 = g1
    g2 = g2
    Callbacks = {c1, c2}
    Declarations <- SomeDeclarations
    Groups = {g1}
    Window = 0
    TxTime = 0
    MaxSessions = 1
    MaxSequence = 2
    MaxEnrollments = 2
    MaxJobs = 1
    MaxFaults = 2
INVARIANTS
    MemoryMatchesRow
    RevokedIsQuarantined
    OldEnrollmentsAreDead
PROPERTIES
    NewestTelemetryWins
    SilentIsOffline
