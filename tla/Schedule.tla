------------------------------ MODULE Schedule ------------------------------
(***************************************************************************)
(* One day of one employee: the working hours (availability.service.ts),   *)
(* the blocked times (blocked-times.service.ts) and the appointments that  *)
(* are booked on the slots both leave open.                                *)
(*                                                                         *)
(* Nothing but the database joins the requests.  getAvailableSlots is a    *)
(* row of queries, each seeing what is committed when it runs, before the  *)
(* transaction that writes the appointment; create of a blocked time       *)
(* checks and inserts without a transaction; setAvailability deletes the   *)
(* rows its statement saw and inserts its own.  One action is one query.   *)
(*                                                                         *)
(* The transaction that writes an appointment is one action here: Booking  *)
(* models its locks.  Reading the tables as they are, in one go, is the    *)
(* reference the properties compare with.                                  *)
(***************************************************************************)
EXTENDS Integers

CONSTANTS Requests,      \* HTTP requests, each served once
          Ops,           \* the kinds of request the instance admits
          Timetables,    \* the sets of intervals a manager may send
          Intervals,     \* the intervals a manager may block
          Starts,        \* the instants a client may ask for
          Durations,     \* service durations
          Minute,        \* time units of a minute, what 'HH:mm' cuts off
          SlotInterval,  \* slotIntervalMin
          None

AllOps == {"replace", "block", "unblock", "duration", "book", "reschedule"}

ASSUME OpsAssumption == Ops \subseteq AllOps
ASSUME TimeAssumption ==
    /\ Minute \in Nat \ {0} /\ SlotInterval \in Nat \ {0}
    /\ Starts \subseteq Nat /\ Durations \subseteq Nat \ {0}
    /\ \A i \in Intervals \cup UNION Timetables : i.start \in Nat /\ i.end \in Nat

\* Working hours are given in minutes.
ASSUME AlignmentAssumption == 
    /\ SlotInterval % Minute = 0
    /\ \A i \in UNION Timetables : i.start % Minute = 0 /\ i.end % Minute = 0

VARIABLES 
    rules,   \* committed AvailabilityRule rows; `by` is the request that inserted one
    blocks,  \* committed BlockedTime rows
    appt,    \* the appointment each booking wrote
    dur,     \* the service's durationMin
    pc,      \* where each request is
    arg,     \* what each request has read so far
    raced,   \* history: requests overtaken by a change of rules or blocks
    due      \* history: appointments the present rules and blocks answer for

vars == <<rules, blocks, appt, dur, pc, arg, raced, due>>

----------------------------------------------------------------------------
(* Data *)

Row == [by : Requests \cup {None}, start : Nat, end : Nat]
Hours(rows) == {[start |-> x.start, end |-> x.end] : x \in rows}
RowsOf(r, h) == {[by |-> r, start |-> i.start, end |-> i.end] : i \in h}

\* `asked` is the service duration for which the slot was looked up.
Appointment == [start : Starts, dur : Durations, asked : Durations]

ASSUME NoneAssumption == None \notin Requests /\ None \notin Appointment

PC == {"idle", "delete", "insert", "commit", "create", "remove", 
       "rules", "blocks", "appointments", "write", "done"}
Replacing == {"delete", "insert", "commit"}
Looking == {"rules", "blocks", "appointments", "write"}

\* What a request has read and decided: the rows a statement saw (`seen`) and those
\* it deleted (`gone`); the hours, blocks and durations a slot was looked up with.
ReplaceArg == [new : Timetables, seen : SUBSET Row, gone : SUBSET Row]
BlockArg == [start : Nat, end : Nat, seen : SUBSET Row]
RemoveArg == [block : Row]
LookArg == [id : Requests, start : Starts, dur : Durations, asked : Durations,
            rules : SUBSET [start : Nat, end : Nat], blocks : SUBSET [start : Nat, end : Nat]]

TypeOK ==
    /\ rules \subseteq Row /\ blocks \subseteq Row
    /\ appt \in [Requests -> Appointment \cup {None}]
    /\ dur \in Durations
    /\ pc \in [Requests -> PC]
    /\ arg \in [Requests -> ReplaceArg \cup BlockArg \cup RemoveArg \cup LookArg \cup {None}]
    /\ \A r \in Requests :
         /\ pc[r] \in Replacing => arg[r] \in ReplaceArg
         /\ pc[r] = "create" => arg[r] \in BlockArg
         /\ pc[r] = "remove" => arg[r] \in RemoveArg
         /\ pc[r] \in Looking => arg[r] \in LookArg
    /\ raced \subseteq Requests
    /\ due \subseteq {a \in Requests : appt[a] # None}

Overlap(s1, e1, s2, e2) == s1 < e2 /\ s2 < e1

\* Sorted by start, each interval ends before the next begins.
ValidDays(h) ==
    /\ \A i \in h : i.start < i.end
    /\ \A i, j \in h : i # j => i.end <= j.start \/ j.end <= i.start

Init ==
    /\ \E h \in Timetables : ValidDays(h) /\ rules = RowsOf(None, h)
    /\ blocks = {}
    /\ appt = [a \in Requests |-> None]
    /\ dur \in Durations
    /\ pc = [r \in Requests |-> "idle"]
    /\ arg = [r \in Requests |-> None]
    /\ raced = {} /\ due = {}

Goto(r, label) == pc' = [pc EXCEPT ![r] = label]

----------------------------------------------------------------------------
(* setAvailability: the transaction deletes the employee's rows and inserts *)
(* the new ones.  Timetables that validateDays refuses never get here.      *)

\* The DELETE statement starts: it sees the rows committed now.
BeginReplace(r) ==
    /\ "replace" \in Ops /\ pc[r] = "idle"
    /\ \E h \in Timetables :
          /\ ValidDays(h)
          /\ arg' = [arg EXCEPT ![r] = [new |-> h, seen |-> rules, gone |-> {}]]
    /\ Goto(r, "delete")
    /\ UNCHANGED <<rules, blocks, appt, dur, raced, due>>

\* The rows another transaction has deleted and not yet committed are locked.
LockedBy(q) == IF pc[q] \in {"insert", "commit"} THEN arg[q].gone ELSE {}

DeleteMany(r) ==
    /\ pc[r] = "delete"
    /\ \A q \in Requests \ {r} : LockedBy(q) \cap arg[r].seen = {}
    /\ arg' = [arg EXCEPT ![r].gone = arg[r].seen \cap rules]
    /\ Goto(r, "insert")
    /\ UNCHANGED <<rules, blocks, appt, dur, raced, due>>

\* The rows createMany may collide with: those another transaction inserted or
\* deleted and not committed make it wait, ...
Pending(q) == Hours(LockedBy(q)) \cup (IF pc[q] = "commit" THEN arg[q].new ELSE {})

CreateManyRetrying(r) ==   \* mutant: tries again what breaks the unique key
    /\ pc[r] = "insert"
    /\ \A q \in Requests \ {r} : Pending(q) \cap arg[r].new = {}
    /\ Goto(r, IF arg[r].new \cap Hours(rules \ arg[r].gone) = {} THEN "commit" ELSE "insert")
    /\ UNCHANGED <<rules, blocks, appt, dur, arg, raced, due>>

CreateMany(r) ==
    /\ pc[r] = "insert"
    /\ \A q \in Requests \ {r} : Pending(q) \cap arg[r].new = {}
    \* ... and committed ones break (employee, dayOfWeek, start, end).
    /\ Goto(r, IF arg[r].new \cap Hours(rules \ arg[r].gone) = {} THEN "commit" ELSE "done")
    /\ UNCHANGED <<rules, blocks, appt, dur, arg, raced, due>>

\* The requests that have read the rules, or the blocks, and have yet to write.
Overtaken(labels) == raced \cup {q \in Requests : pc[q] \in labels}

CommitKeepingOld(r) ==   \* mutant: the old rows stay
    /\ pc[r] = "commit"
    /\ rules' = rules \cup RowsOf(r, arg[r].new)
    /\ Goto(r, "done")
    /\ raced' = Overtaken({"blocks", "appointments", "write"}) /\ due' = {}
    /\ UNCHANGED <<blocks, appt, dur, arg>>

CommitReplace(r) ==
    /\ pc[r] = "commit"
    /\ rules' = (rules \ arg[r].gone) \cup RowsOf(r, arg[r].new)
    /\ Goto(r, "done")
    /\ raced' = Overtaken({"blocks", "appointments", "write"}) /\ due' = {}
    /\ UNCHANGED <<blocks, appt, dur, arg>>

\* The transaction runs out of time or loses its connection.
Rollback(r) ==
    /\ pc[r] \in Replacing
    /\ Goto(r, "done")
    /\ UNCHANGED <<rules, blocks, appt, dur, arg, raced, due>>

----------------------------------------------------------------------------
(* Blocked times: create checks, then inserts; remove finds, then deletes. *)

Hit(s, e, rows) == \E b \in rows : Overlap(b.start, b.end, s, e)

BeginBlockByStart(r) ==   \* mutant: compares the starts only
    /\ "block" \in Ops /\ pc[r] = "idle"
    /\ \E i \in Intervals : 
          /\ i.start < i.end
          /\ \A b \in blocks : b.start # i.start
          /\ arg' = [arg EXCEPT ![r] = [start |-> i.start, end |-> i.end, seen |-> blocks]]
    /\ Goto(r, "create")
    /\ UNCHANGED <<rules, blocks, appt, dur, raced, due>>

BeginBlock(r) ==
    /\ "block" \in Ops /\ pc[r] = "idle"
    /\ \E i \in Intervals : 
          /\ i.start < i.end
          /\ ~Hit(i.start, i.end, blocks)
          /\ arg' = [arg EXCEPT ![r] = [start |-> i.start, end |-> i.end, seen |-> blocks]]
    /\ Goto(r, "create")
    /\ UNCHANGED <<rules, blocks, appt, dur, raced, due>>

\* Nothing looks for appointments under the block: what was due is due no more.
CreateBlock(r) ==
    /\ pc[r] = "create"
    /\ blocks' = blocks \cup {[by |-> r, start |-> arg[r].start, end |-> arg[r].end]}
    /\ Goto(r, "done")
    /\ raced' = Overtaken({"appointments", "write"}) /\ due' = {}
    /\ UNCHANGED <<rules, appt, dur, arg>>

BeginRemove(r) ==
    /\ "unblock" \in Ops /\ pc[r] = "idle"
    /\ \E b \in blocks : arg' = [arg EXCEPT ![r] = [block |-> b]]
    /\ Goto(r, "remove")
    /\ UNCHANGED <<rules, blocks, appt, dur, raced, due>>

\* The delete by id of a row another request has deleted fails and changes nothing.
RemoveBlock(r) ==
    /\ pc[r] = "remove"
    /\ blocks' = blocks \ {arg[r].block}
    /\ Goto(r, "done")
    /\ UNCHANGED <<rules, appt, dur, arg, raced, due>>

----------------------------------------------------------------------------
(* The service's duration changes; appointments keep the one they have.     *)

SetDuration(r) ==
    /\ "duration" \in Ops /\ pc[r] = "idle"
    /\ dur' \in Durations
    /\ Goto(r, "done")
    /\ UNCHANGED <<rules, blocks, appt, arg, raced, due>>

----------------------------------------------------------------------------
(* Booking and rescheduling: getAvailableSlots, then the transaction.       *)

BeginBook(r) ==
    /\ "book" \in Ops /\ pc[r] = "idle"
    /\ \E s \in Starts : 
          arg' = [arg EXCEPT ![r] = [id |-> r, start |-> s, dur |-> dur, asked |-> dur,
                                     rules |-> {}, blocks |-> {}]]
    /\ Goto(r, "rules")
    /\ UNCHANGED <<rules, blocks, appt, dur, raced, due>>

\* The appointment keeps its durationMin; the slot is looked up with the service's.
BeginReschedule(r) ==
    /\ "reschedule" \in Ops /\ pc[r] = "idle"
    /\ \E a \in Requests, s \in Starts : 
          /\ appt[a] # None
          /\ arg' = [arg EXCEPT ![r] = [id |-> a, start |-> s, dur |-> appt[a].dur, asked |-> dur,
                                           rules |-> {}, blocks |-> {}]]
    /\ Goto(r, "rules")
    /\ UNCHANGED <<rules, blocks, appt, dur, raced, due>>

ReadRules(r) ==
    /\ pc[r] = "rules"
    /\ arg' = [arg EXCEPT ![r].rules = Hours(rules)]
    /\ Goto(r, "blocks")
    /\ UNCHANGED <<rules, blocks, appt, dur, raced, due>>

ReadBlocks(r) ==
    /\ pc[r] = "blocks"
    /\ arg' = [arg EXCEPT ![r].blocks = Hours(blocks)]
    /\ Goto(r, "appointments")
    /\ UNCHANGED <<rules, blocks, appt, dur, raced, due>>

\* The conflict query of an employee, leaving out appointment `self`.
Taken(self, s, e) == 
    \E a \in Requests \ {self} : 
        appt[a] # None /\ Overlap(appt[a].start, appt[a].start + appt[a].dur, s, e)

SlotsToTheEnd(rule, d) ==   \* mutant: the slot need not end within the interval
    {s \in rule.start .. rule.end - 1 : (s - rule.start) % SlotInterval = 0}

\* The loop over an interval: every SlotInterval from its start, while one fits.
SlotsOf(rule, d) ==
    {s \in rule.start .. rule.end - d : (s - rule.start) % SlotInterval = 0}

\* toFormat('HH:mm')
Label(t) == t - (t % Minute)

\* slots.includes(requestedTime): a slot begins on a whole minute, so it is its label.
Offered(x) == LET s == Label(x.start) IN
    /\ \E i \in x.rules : s \in SlotsOf(i, x.asked)
    /\ ~Hit(s, s + x.asked, x.blocks)
    /\ ~Taken(x.id, s, s + x.asked)

ReadAppointments(r) ==
    /\ pc[r] = "appointments"
    /\ Goto(r, IF Offered(arg[r]) THEN "write" ELSE "done")
    /\ UNCHANGED <<rules, blocks, appt, dur, arg, raced, due>>

WriteAppointment(r) ==
    LET x == arg[r] IN
    /\ pc[r] = "write"
    /\ ~Taken(x.id, x.start, x.start + x.dur)
    /\ appt' = [appt EXCEPT ![x.id] = [start |-> x.start, dur |-> x.dur, asked |-> x.asked]]
    /\ due' = IF r \in raced THEN due \ {x.id} ELSE due \cup {x.id}
    /\ Goto(r, "done")
    /\ UNCHANGED <<rules, blocks, dur, arg, raced>>

\* The instant was taken meanwhile, or the request fails otherwise.
RejectAppointment(r) ==
    /\ pc[r] = "write"
    /\ Goto(r, "done")
    /\ UNCHANGED <<rules, blocks, appt, dur, arg, raced, due>>

----------------------------------------------------------------------------
(* Specification *)

Begin(r) == \/ BeginReplace(r) \/ BeginBlock(r) \/ BeginRemove(r)
            \/ SetDuration(r) \/ BeginBook(r) \/ BeginReschedule(r)

Serve(r) == \/ DeleteMany(r) \/ CreateMany(r) \/ CommitReplace(r)
            \/ CreateBlock(r) \/ RemoveBlock(r)
            \/ ReadRules(r) \/ ReadBlocks(r) \/ ReadAppointments(r) 
            \/ WriteAppointment(r) \/ RejectAppointment(r)

AllServed == (\A r \in Requests : pc[r] = "done") /\ UNCHANGED vars

Next == (\E r \in Requests : Begin(r) \/ Serve(r) \/ Rollback(r)) \/ AllServed

Spec == Init /\ [][Next]_vars

\* The server and the database go on with a request they have started; that a
\* transaction runs out of time is not counted on.
FairSpec == Spec /\ \A r \in Requests : WF_vars(Serve(r))

----------------------------------------------------------------------------
(* Properties *)

Seen(q) == IF q = None THEN {} ELSE arg[q].seen

\* A request that replaces the working hours replaces all it saw: intervals of
\* two requests stand side by side only if each missed the other's.
ReplacementIsWhole ==
    \A x, y \in rules : x.by # y.by => x \notin Seen(y.by) /\ y \notin Seen(x.by)

\* 'Existem horários sobrepostos' and 'Já existe um bloqueio nesse período' fail
\* only for requests that were served at the same time: two intervals that
\* overlap, of the working hours or of the blocked times, come from two requests
\* neither of which saw the other's.
OverlapsAreUnseen ==
    \A table \in {rules, blocks} : \A x, y \in table :
        x # y /\ Overlap(x.start, x.end, y.start, y.end) =>
            x.by # y.by /\ x \notin Seen(y.by) /\ y \notin Seen(x.by)

Free(s, e) == (\E x \in rules : x.start <= s /\ e <= x.end) /\ ~Hit(s, e, blocks)

\* The slot an appointment was booked on, as the client saw it (HH:mm and the
\* service's duration), lies in the working hours and outside the blocked times,
\* unless these changed while it was booked or since.
SlotIsFree == \A a \in due : 
    LET s == Label(appt[a].start) IN Free(s, s + appt[a].asked)

\* No request waits for ever for the locks of another.
EveryRequestReturns == \A r \in Requests : (pc[r] # "idle") ~> (pc[r] = "done")
=============================================================================
