\* Violation: CanceledStaysCanceled.
SPECIFICATION Spec
CONSTANTS
    r1 = r1
    r2 = r2
    r3 = r3
    r4 = r4
    e1 = e1
    c1 = c1
    None = None
    Requests = {r1, r2, r3, r4}
    Employees = {e1}
    Clients = {c1}
    WithEmail = {c1}
    Starts = {0, 1}
    Durations = {1, 2}
    Ops = {"create", "public", "status", "cancel", "reschedule"}
PROPERTIES
    CanceledStaysCanceled
