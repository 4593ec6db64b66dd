----------------------------- MODULE HoursPage ------------------------------
(***************************************************************************)
(* The hours of an employee (funcionarios/[id]/horarios/page.tsx) with the *)
(* API behind them: the working week, which is one form and replaced as a  *)
(* whole, and the blocked times, each a request of its own.                *)
(*                                                                         *)
(* The API's part of a request and the page's reaction to the answer are   *)
(* two actions.  Equal intervals of a day, which the API refuses, are left *)
(* out.  Schedule has the API in detail.                                   *)
(***************************************************************************)
EXTENDS FiniteSets, ZonedTime

CONSTANTS Days, Intervals,
          Default, Another,   \* the intervals that toggling and adding offer
          Blocks,             \* the ids of blocked times
          Zones, Times,       \* time zones, and wall-clock times a block may start at
          SessionZone,        \* timezone, as the session remembers it of the company
          MaxRequests,        \* bound: requests in flight
          None

\* What the composition, Panel, assumes of them.
HoursConstants ==
    /\ {Default, Another} \subseteq Intervals /\ Times \subseteq Int /\ MaxRequests \in Nat
    /\ Zones \subseteq [before : Int, after : Int, change : Int] /\ SessionZone \in Zones

VARIABLES ui, net, db
vars == <<ui, net, db>>

Hours == [Days -> SUBSET Intervals]
DaySchedule == [enabled : BOOLEAN, intervals : SUBSET Intervals]

\* History: failed, the hours could not be loaded; edited, the days the user changed;
\* crossed, two lists of blocked times were under way; stale, the last of them failed;
\* gone, the blocked times the page said are removed.
Page == [schedule : [Days -> DaySchedule], saving : BOOLEAN, blocked : SUBSET Blocks,
         failed : BOOLEAN, edited : SUBSET Days, crossed : BOOLEAN, stale : BOOLEAN, 
         gone : SUBSET Blocks]

\* rules are AvailabilityRule, zone the company's; used, the ids there ever were; others,
\* history: the days another user changed while the page was open.
Database == [rules : Hours, blocked : SUBSET Blocks, used : SUBSET Blocks, zone : Zones,
             others : SUBSET Days]

Answers == {"none", "ok", "error"}
PutRequest == [op : {"put"}, hours : Hours, edited : SUBSET Days, answer : Answers]
\* startsAt and endsAt are converted alike: one of them.  local is what was entered.
PostRequest == [op : {"post"}, at : Int, local : Times, answer : Answers]
DeleteRequest == [op : {"delete"}, block : Blocks, answer : Answers]
\* ends: createBlockedTime waits for it; of: what was removed before
ListRequest == [op : {"list"}, ends : BOOLEAN, of : SUBSET Blocks, seen : SUBSET Blocks, 
                answer : Answers]

Saves(q) == q.op \in {"put", "post"} \/ (q.op = "list" /\ q.ends)

TypeOK ==
    /\ ui \in Page /\ db \in Database
    /\ net \subseteq PutRequest \cup PostRequest \cup DeleteRequest \cup ListRequest
    /\ Cardinality({q \in net : Saves(q)}) = IF ui.saving THEN 1 ELSE 0

----------------------------------------------------------------------------
(* initialize *)

CreateEmptySchedule == [d \in Days |-> [enabled |-> FALSE, intervals |-> {Default}]]

GroupedBesideDefault(rules) ==   \* mutant: the interval of the empty schedule stays
    [d \in Days |-> IF rules[d] = {} THEN CreateEmptySchedule[d]
                    ELSE [enabled |-> TRUE, intervals |-> {Default} \cup rules[d]]]

\* A day with rules is enabled, and its interval of the empty schedule dropped.
Grouped(rules) == 
    [d \in Days |-> IF rules[d] = {} THEN CreateEmptySchedule[d]
                    ELSE [enabled |-> TRUE, intervals |-> rules[d]]]

\* The three requests have been answered; when one of them failed, the page shows an
\* empty week and the same buttons.
Init ==
    /\ \E rules \in Hours, blocked \in SUBSET Blocks, zone \in Zones :
          db = [rules |-> rules, blocked |-> blocked, used |-> blocked, zone |-> zone, others |-> {}]
    /\ \E failed \in BOOLEAN :
          ui = [schedule |-> IF failed THEN CreateEmptySchedule ELSE Grouped(db.rules), 
                saving |-> FALSE, blocked |-> IF failed THEN {} ELSE db.blocked,
                failed |-> failed, edited |-> {}, crossed |-> FALSE, stale |-> failed, gone |-> {}]
    /\ net = {}

----------------------------------------------------------------------------
(* The user: OWNER or ADMIN *)

Room == Cardinality(net) < MaxRequests

Edit(d, day) ==
    /\ ui' = [ui EXCEPT !.schedule[d] = day, !.edited = @ \cup {d}] 
    /\ UNCHANGED <<net, db>>

ToggleDay(d) == LET day == ui.schedule[d] IN
    Edit(d, [enabled |-> ~day.enabled, 
             intervals |-> IF day.intervals = {} THEN {Default} ELSE day.intervals])

UpdateInterval(d, i, j) == LET day == ui.schedule[d] IN
    /\ day.enabled /\ i \in day.intervals /\ j \notin day.intervals
    /\ Edit(d, [day EXCEPT !.intervals = (@ \ {i}) \cup {j}])

AddInterval(d) == LET day == ui.schedule[d] IN
    /\ day.enabled /\ Another \notin day.intervals
    /\ Edit(d, [day EXCEPT !.intervals = @ \cup {Another}])

RemoveInterval(d, i) == LET day == ui.schedule[d] IN
    /\ day.enabled /\ i \in day.intervals /\ Cardinality(day.intervals) > 1
    /\ Edit(d, [day EXCEPT !.intervals = @ \ {i}])

SaveSchedule ==
    /\ Room /\ ~ui.saving
    /\ ui' = [ui EXCEPT !.saving = TRUE]
    /\ net' = net \cup {[op |-> "put", answer |-> "none", edited |-> ui.edited, hours |-> 
                [d \in Days |-> IF ui.schedule[d].enabled THEN ui.schedule[d].intervals ELSE {}]]}
    /\ UNCHANGED db

CreateBlockedTime(local) ==
    /\ Room /\ ~ui.saving
    /\ ui' = [ui EXCEPT !.saving = TRUE]
    /\ net' = net \cup {[op |-> "post", answer |-> "none", local |-> local, 
                         at |-> ZonedLocalToIso(SessionZone, local)]}
    /\ UNCHANGED db

LoadBlockedTimes(of, ends) == 
    [op |-> "list", of |-> of, ends |-> ends, seen |-> {}, answer |-> "none"]
Lists == {q \in net : q.op = "list"}

\* deleteBlockedTime; its button is there whatever else is being done.
DeleteBlockedTime(b) ==
    /\ Room /\ b \in ui.blocked
    /\ net' = net \cup {[op |-> "delete", answer |-> "none", block |-> b]}
    /\ UNCHANGED <<ui, db>>

----------------------------------------------------------------------------
(* The API *)

Answered(q, answer) == net' = (net \ {q}) \cup {[q EXCEPT !.answer = answer]}

\* setAvailability
ServePut(q) ==
    /\ q.op = "put" /\ Answered(q, "ok")
    /\ db' = [db EXCEPT !.rules = q.hours]

ServePost(q) ==
    /\ q.op = "post" /\ Answered(q, "ok")
    /\ \E b \in Blocks \ db.used : db' = [db EXCEPT !.blocked = @ \cup {b}, !.used = @ \cup {b}]

\* A blocked time that is gone already is not found.
ServeDelete(q) ==
    /\ q.op = "delete" /\ q.block \in db.blocked /\ Answered(q, "ok")
    /\ db' = [db EXCEPT !.blocked = @ \ {q.block}]

ServeList(q) ==
    /\ q.op = "list"
    /\ net' = (net \ {q}) \cup {[q EXCEPT !.answer = "ok", !.seen = db.blocked]}
    /\ UNCHANGED db

\* Served, or refused.
Serve(q) ==
    /\ q.answer = "none" 
    /\ \/ ServePut(q) \/ ServePost(q) \/ ServeDelete(q) \/ ServeList(q)
       \/ Answered(q, "error") /\ UNCHANGED db
    /\ UNCHANGED ui

\* The answer is lost on its way.
Lose(q) == q.answer = "ok" /\ Answered(q, "error") /\ UNCHANGED <<ui, db>>

\* Another user replaces the hours of a day, or changes the company's time zone.
OtherSaves ==
    /\ \/ \E d \in Days, hours \in SUBSET Intervals : 
             db' = [db EXCEPT !.rules[d] = hours, !.others = @ \cup {d}]
       \/ \E z \in Zones : db' = [db EXCEPT !.zone = z]
    /\ UNCHANGED <<ui, net>>

----------------------------------------------------------------------------
(* The answers *)

Settled(q, p) ==
    /\ ui' = [p EXCEPT !.saving = IF Saves(q) THEN FALSE ELSE @] 
    /\ net' = net \ {q}

ReloadNothing(q, gone) ==   \* mutant: the list on show stays
    /\ ui' = [ui EXCEPT !.gone = @ \cup gone, !.saving = IF Saves(q) THEN FALSE ELSE @]
    /\ net' = net \ {q}

\* createBlockedTime and deleteBlockedTime go on with the list.
Reload(q, gone) ==
    /\ ui' = [ui EXCEPT !.gone = @ \cup gone, !.crossed = Lists # {}]
    /\ net' = (net \ {q}) \cup {LoadBlockedTimes(gone, q.op = "post")}

Receive(q) ==
    /\ \/ q.op = "put" /\ q.answer # "none" /\ Settled(q, ui)
       \/ q.op = "post" /\ q.answer = "ok" /\ Reload(q, {})
       \/ q.op = "delete" /\ q.answer = "ok" /\ Reload(q, {q.block})
       \/ q.op \in {"post", "delete"} /\ q.answer = "error" /\ Settled(q, ui)
       \/ q.op = "list" /\ q.answer = "ok" 
          /\ Settled(q, [ui EXCEPT !.blocked = q.seen, !.stale = FALSE])
       \/ q.op = "list" /\ q.answer = "error" /\ Settled(q, [ui EXCEPT !.stale = TRUE])
    /\ UNCHANGED db

----------------------------------------------------------------------------
(* Specification *)

User == \/ \E d \in Days : \/ ToggleDay(d) \/ AddInterval(d)
                           \/ \E i \in Intervals : RemoveInterval(d, i)
                           \/ \E i, j \in Intervals : UpdateInterval(d, i, j)
        \/ SaveSchedule
        \/ \E t \in Times : CreateBlockedTime(t)
        \/ \E b \in Blocks : DeleteBlockedTime(b)

Next == User \/ OtherSaves \/ \E q \in net : Serve(q) \/ Lose(q) \/ Receive(q)

Spec == Init /\ [][Next]_vars

----------------------------------------------------------------------------
(* Properties *)

\* A save of the week changes no day the user has not changed, unless somebody else changed
\* it meanwhile or, what is worse, the hours could not be loaded when the page was opened.
OnlyEditedDays == \A q \in net \ net' : q.op = "put" /\ q.answer = "none" =>
    \A d \in Days : db'.rules[d] # db.rules[d] => d \in q.edited \cup db.others \/ ui.failed

\* A blocked time the page said is removed is not on show again, once the list has been loaded,
\* unless two lists were under way or the last one failed.
RemovedStaysAway == Lists # {} \/ ui.crossed \/ ui.stale \/ ui.blocked \cap ui.gone = {}

\* A blocked time is stored at the instant at which the company's clocks show what was entered,
\* as long as the session knows the company's zone and the clocks do not change nearby.
BlockedAsEntered == \A q \in net :
    q.op = "post" /\ SessionZone = db.zone /\ Steady(db.zone, q.local) => Clock(db.zone, q.at) = q.local
=============================================================================
