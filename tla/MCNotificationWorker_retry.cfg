\* Violation: RetryIsSafe, the connection closes during DATA.
SPECIFICATION Spec
CONSTANTS
    w1 = w1
    w2 = w2
    d1 = d1
    d2 = d2
    None = None
    Workers = {w1, w2}
    Deliveries = {d1}
    Reminders = {}
    MaxAttempts = 2
    Take = 1
    Moments = {0, 1}
    MaxCrashes = 0
    Faults = {"closedInData"}
INVARIANTS
    RetryIsSafe
CHECK_DEADLOCK FALSE
