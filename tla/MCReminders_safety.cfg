\* Two requests that may overlap, one job, two workers and one retry.
SPECIFICATION Spec
CONSTANTS
    a1 = a1
    r1 = r1
    r2 = r2
    q1 = q1
    w1 = w1
    w2 = w2
    None = None
    Appointments = {a1}
    Starts = {1, 2}
    Hours = {2}
    Requests = {r1, r2}
    MaxInFlight = 2
    Schedulers = {q1}
    Workers = {w1, w2}
    MaxAttempts = 2
    Horizon = 1
SYMMETRY InstanceSymmetry
INVARIANTS
    RepeatsAreFaults
    MarkerMeansSent
    SentIsMarked
CHECK_DEADLOCK FALSE
