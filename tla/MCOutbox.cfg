\* Two processes, batches that may outlast their claims, two outages.
SPECIFICATION FairOutboxSpec
CONSTANTS
    m1 = m1
    m2 = m2
    f1 = f1
    f2 = f2
    Messages = {m1, m2}
    Instances = {f1, f2}
    BatchSize = 2
    MaxAttempts = 3
    ClaimTimeout = 1
    MaxBackoff = 2
    ItemTime = 2
    MaxOutages = 2
INVARIANTS
    DeliveredWasAccepted
    ClaimsAreExclusive
PROPERTIES
    MessagesSettle
