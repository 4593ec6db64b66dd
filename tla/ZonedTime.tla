------------------------------ MODULE ZonedTime ------------------------------
(***************************************************************************)
(* zonedLocalToIso, which the agenda, the public page and the page of an   *)
(* employee's hours have alike: the instant of a wall-clock time.  A zone  *)
(* is the offset of its clocks before and after one change of them; time   *)
(* is an integer, an instant and a wall-clock time on one scale.           *)
(***************************************************************************)
EXTENDS Integers

\* What the clocks of the zone show at an instant (Intl.DateTimeFormat).
Clock(z, instant) == instant + IF instant < z.change THEN z.before ELSE z.after

ZonedLocalToIsoTwice(z, local) ==   \* mutant: adds the offset
    local + (Clock(z, local) - local)

\* The offset is read at an instant that is a guess: the wall-clock time taken as UTC.
ZonedLocalToIso(z, local) == LET offset == Clock(z, local) - local IN local - offset

\* The clocks do not change within the widest offset of the time.
Steady(z, local) == LET reach == {z.before, -z.before, z.after, -z.after} IN
    \A r, s \in reach : (local + r < z.change) = (local + s < z.change)
==============================================================================
