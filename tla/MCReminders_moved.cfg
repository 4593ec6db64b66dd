\* Violation: MovedCanBeReminded.
SPECIFICATION Spec
CONSTANTS
    a1 = a1
    r1 = r1
    r2 = r2
    q1 = q1
    w1 = w1
    None = None
    Appointments = {a1}
    Starts = {1, 2}
    Hours = {2}
    Requests = {r1, r2}
    MaxInFlight = 1
    Schedulers = {q1}
    Workers = {w1}
    MaxAttempts = 1
    Horizon = 1
SYMMETRY InstanceSymmetry
INVARIANTS
    MovedCanBeReminded
CHECK_DEADLOCK FALSE
