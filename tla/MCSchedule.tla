----------------------------- MODULE MCSchedule -----------------------------
(* Instances of Schedule for TLC. A day of 8 units: a minute is 2 units, so    *)
(* that a start can fall within a minute, and a slot begins every 4.           *)
EXTENDS Schedule, TLC

I(s, e) == [start |-> s, end |-> e]

\* No hours, the whole day, two shifts, the morning, and one validateDays refuses.
MCTimetables == {{}, {I(0, 8)}, {I(0, 4), I(4, 8)}, {I(0, 4), I(2, 8)}}
MCIntervals == {I(0, 4), I(3, 5)}
RequestSymmetry == Permutations(Requests)
=============================================================================
