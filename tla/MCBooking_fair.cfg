\* Two employees, one client, fairness: the public page, the staff's clients and the answers.
SPECIFICATION FairSpec
CONSTANTS
    r1 = r1
    r2 = r2
    r3 = r3
    e1 = e1
    e2 = e2
    c1 = c1
    None = None
    Requests = {r1, r2, r3}
    Employees = {e1, e2}
    Clients = {c1}
    WithEmail = {c1}
    Starts = {0, 1}
    Durations = {2}
    Ops = {"create", "public", "status", "cancel", "reschedule", "client"}
INVARIANTS
    PublicClientExclusive
    OneClientPerPhone
PROPERTIES
    EveryRequestReturns
