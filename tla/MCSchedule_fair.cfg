\* Three requests of any kind.
SPECIFICATION FairSpec
CONSTANTS
    r1 = r1
    r2 = r2
    r3 = r3
    None = None
    Requests = {r1, r2, r3}
    Ops = {"replace", "block", "unblock", "duration", "book", "reschedule"}
    Timetables <- MCTimetables
    Intervals <- MCIntervals
    Starts = {0, 1, 4}
    Durations = {4, 6}
    Minute = 2
    SlotInterval = 4
INVARIANTS
    ReplacementIsWhole
    OverlapsAreUnseen
    SlotIsFree
PROPERTIES
    EveryRequestReturns
