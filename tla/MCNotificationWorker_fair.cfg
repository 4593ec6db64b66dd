\* Two instances, an e-mail and a reminder, every fault, a crash.
SPECIFICATION FairSpec
CONSTANTS
    w1 = w1
    w2 = w2
    d1 = d1
    d2 = d2
    None = None
    Workers = {w1, w2}
    Deliveries = {d1, d2}
    Reminders = {d2}
    MaxAttempts = 2
    Take = 1
    Moments = {0, 10}
    MaxCrashes = 1
    Faults = {"markSentFails", "closedInData"}
INVARIANTS
    NoConcurrentSending
    DuplicateOnlyAfterFault
    SentWasAccepted
PROPERTIES
    QueueSpec
    EveryDeliverySettles
CHECK_DEADLOCK FALSE
