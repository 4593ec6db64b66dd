----------------------------- MODULE AgendaPage -----------------------------
(***************************************************************************)
(* The agenda (apps/web/app/agenda/page.tsx): the appointments of a date,  *)
(* the form that creates one, the section that reschedules one, and the    *)
(* buttons that change a status.                                           *)
(*                                                                         *)
(* A handler goes on, when its request is answered, with the date and the  *)
(* choices of the rendering it was created in, and often with another      *)
(* request: what a request carries is what remains of its handler.  No     *)
(* request is aborted, and every one may fail; two that carry the same are *)
(* one.  The API is Booking.                                               *)
(***************************************************************************)
EXTENDS FiniteSets, Naturals

CONSTANTS Employees, Services, Dates, Appointments,
          MaxRequests,  \* bound: requests in flight
          None

VARIABLES ui, net
vars == <<ui, net>>

\* What slots are looked up for: GET /availability, and the same of an appointment.
Lookup == [employee : Employees, service : Services, date : Dates]
MoveLookup == [appt : Appointments, date : Dates]

\* What the composition, Panel, assumes of the constants: None is none of the values it
\* stands in for.
AgendaConstants ==
    /\ None \notin Employees \cup Services \cup Lookup \cup MoveLookup /\ MaxRequests \in Nat

\* slots and slot name the lookup that the times on show, and the one selected, come from;
\* services the employee whose services are listed.  move, moveSlots, moveSlot: the same of
\* the rescheduling section.  History: listed, the date of the appointments on show;
\* failed, the last load of them; overtaken, crossed and moveCrossed, something older was
\* under way when the date, the lookup or the section changed.
Page == [date : Dates, loading : BOOLEAN, listed : Dates, failed : BOOLEAN, overtaken : BOOLEAN,
         employee : Employees \cup {None}, service : Services \cup {None},
         services : Employees \cup {None},
         slots : Lookup \cup {None}, slot : Lookup \cup {None}, crossed : BOOLEAN,
         move : MoveLookup \cup {None}, moveSlots : MoveLookup \cup {None}, 
         moveSlot : MoveLookup \cup {None}, moveCrossed : BOOLEAN, saving : BOOLEAN]

\* What a handler does after its request: nothing, reset saving, or look the slots up and then
\* reset saving or not.
Rest == [slots : Lookup \cup {None}, ends : BOOLEAN]
Over == [slots |-> None, ends |-> FALSE]

ListRequest == [op : {"list"}, date : Dates, rest : Rest]
ServicesRequest == [op : {"services"}, employee : Employees]
SlotsRequest == [op : {"slots"}, of : Lookup, ends : BOOLEAN]
MoveSlotsRequest == [op : {"moveSlots"}, of : MoveLookup]
\* create, the three changes of status, and cancel, which does not set saving
WriteRequest == [op : {"create", "status", "cancel"}, date : Dates, rest : Rest,
                 slot : Lookup \cup {None}, astray : BOOLEAN]
MoveRequest == [op : {"move"}, of : MoveLookup, slot : MoveLookup, astray : BOOLEAN]
Request == ListRequest \cup ServicesRequest \cup SlotsRequest \cup MoveSlotsRequest
           \cup WriteRequest \cup MoveRequest

\* The request whose handler will reset saving.
Saves(q) == CASE q.op \in {"list", "create", "status", "cancel"} -> q.rest.ends
              [] q.op = "slots" -> q.ends
              [] q.op = "move" -> TRUE
              [] OTHER -> FALSE

TypeOK ==
    /\ ui \in Page /\ net \subseteq Request
    /\ Cardinality({q \in net : Saves(q)}) <= IF ui.saving THEN 1 ELSE 0

\* initialize has been answered.
Init ==
    /\ \E d \in Dates : ui = 
         [date |-> d, loading |-> FALSE, listed |-> d, failed |-> FALSE, overtaken |-> FALSE,
          employee |-> None, service |-> None, services |-> None,
          slots |-> None, slot |-> None, crossed |-> FALSE,
          move |-> None, moveSlots |-> None, moveSlot |-> None, moveCrossed |-> FALSE,
          saving |-> FALSE]
    /\ net = {}

InFlight(ops) == {q \in net : q.op \in ops}
Room == Cardinality(net) < MaxRequests

\* A request that will bring slots of the lookup its handler knows.
BringsSlots(q) == \/ q.op = "slots" 
                  \/ q.op \in {"list", "create", "cancel"} /\ q.rest.slots # None
BringsList(q) == q.op \in {"list", "create", "status", "cancel"}

----------------------------------------------------------------------------
(* Loading *)

LoadAgenda(d, rest) == [op |-> "list", date |-> d, rest |-> rest]
LoadSlots(l, ends) == [op |-> "slots", of |-> l, ends |-> ends]

LookupOf(p) == IF None \in {p.employee, p.service} THEN None
               ELSE [employee |-> p.employee, service |-> p.service, date |-> p.date]

\* The synchronous part of loadSlots.
ClearNothing(p) == p   \* mutant: the slots of before stay until others come
ClearSlots(p) == [p EXCEPT !.slot = None, !.slots = None]

\* useEffect on employee, service and date.
SlotsEffect(p) == IF LookupOf(p) = None THEN [p EXCEPT !.slots = None]
                  ELSE [ClearSlots(p) EXCEPT !.crossed = \E q \in net : BringsSlots(q)]
SlotsEffectSends(p) == IF LookupOf(p) = None THEN {} ELSE {LoadSlots(LookupOf(p), FALSE)}

\* useEffect on the date.
DateEffect(p) == [p EXCEPT !.loading = TRUE, !.overtaken = \E q \in net : BringsList(q)]

----------------------------------------------------------------------------
(* The user *)

ChooseDate(d) ==
    /\ Room /\ d # ui.date
    /\ LET p == [ui EXCEPT !.date = d] IN
       /\ ui' = SlotsEffect(DateEffect(p))
       /\ net' = net \cup {LoadAgenda(d, Over)} \cup SlotsEffectSends(p)

RefreshAgenda ==
    /\ Room /\ ui' = [ui EXCEPT !.loading = TRUE] 
    /\ net' = net \cup {LoadAgenda(ui.date, Over)}

\* The effects run with the service of before, whose slots are looked up for the new
\* employee while the service is being reset.
ChooseEmployee(x) ==
    /\ Room /\ x # ui.employee
    /\ LET p == [ui EXCEPT !.employee = x] IN
       /\ ui' = [SlotsEffect(p) EXCEPT !.services = None, !.service = None, !.slots = None]
       /\ net' = net \cup SlotsEffectSends(p)
                     \cup IF x = None THEN {} ELSE {[op |-> "services", employee |-> x]}

ChooseService(s) ==
    /\ Room /\ s # ui.service
    /\ s # None => ui.employee # None /\ ui.services # None
    /\ LET p == [ui EXCEPT !.service = s] IN
       ui' = SlotsEffect(p) /\ net' = net \cup SlotsEffectSends(p)

ChooseSlot ==
    /\ ui.slots # None /\ ui.service # None /\ ui.slot # ui.slots
    /\ ui' = [ui EXCEPT !.slot = ui.slots] /\ UNCHANGED net

\* handleCreate, with a client; slots are looked up again when it has succeeded.
HandleCreate ==
    /\ Room /\ ~ui.saving /\ LookupOf(ui) # None /\ ui.slot # None
    /\ ui' = [ui EXCEPT !.saving = TRUE]
    /\ net' = net \cup {[op |-> "create", date |-> ui.date, slot |-> ui.slot, 
                         rest |-> [slots |-> LookupOf(ui), ends |-> TRUE],
                         astray |-> ui.slot # LookupOf(ui) /\ ~ui.crossed]}

\* handleConfirm, handleComplete and handleNoShow, of whatever is listed
HandleStatus ==
    /\ Room /\ ~ui.saving
    /\ ui' = [ui EXCEPT !.saving = TRUE]
    /\ net' = net \cup {[op |-> "status", date |-> ui.date, slot |-> None, 
                         rest |-> [slots |-> None, ends |-> TRUE], astray |-> FALSE]}

HandleCancel ==
    /\ Room /\ ~ui.saving /\ UNCHANGED ui
    /\ net' = net \cup {[op |-> "cancel", date |-> ui.date, slot |-> None, 
                         rest |-> [slots |-> LookupOf(ui), ends |-> FALSE], astray |-> FALSE]}

\* loadRescheduleSlots, by openReschedule or by the section's date
LoadMoveSlots(l) ==
    /\ ui' = [ui EXCEPT !.move = l, !.moveSlots = None, !.moveSlot = None, 
                        !.moveCrossed = InFlight({"moveSlots"}) # {}]
    /\ net' = net \cup {[op |-> "moveSlots", of |-> l]}

OpenReschedule(a) == Room /\ ~ui.saving /\ LoadMoveSlots([appt |-> a, date |-> ui.date])

ChooseMoveDate(d) ==
    /\ Room /\ ui.move # None /\ d # ui.move.date
    /\ LoadMoveSlots([ui.move EXCEPT !.date = d])

CloseReschedule ==
    /\ ui.move # None /\ ui' = [ui EXCEPT !.move = None] /\ UNCHANGED net

ChooseMoveSlot ==
    /\ ui.move # None /\ ui.moveSlots # None /\ ui.moveSlot # ui.moveSlots
    /\ ui' = [ui EXCEPT !.moveSlot = ui.moveSlots] /\ UNCHANGED net

HandleReschedule ==
    /\ Room /\ ui.move # None /\ ui.moveSlot # None /\ ~ui.saving
    /\ ui' = [ui EXCEPT !.saving = TRUE]
    /\ net' = net \cup {[op |-> "move", of |-> ui.move, slot |-> ui.moveSlot, 
                         astray |-> ui.moveSlot # ui.move /\ ~ui.moveCrossed]}

----------------------------------------------------------------------------
(* The answers *)

Saved(p, ends) == [p EXCEPT !.saving = IF ends THEN FALSE ELSE @]

\* loadAgenda catches its own error, so that its caller goes on.
AnswerList(q) ==
    LET more == q.rest.slots # None
        End(p) == IF more THEN ClearSlots(p) ELSE Saved(p, q.rest.ends) IN
    /\ q.op = "list"
    /\ net' = (net \ {q}) \cup IF more THEN {LoadSlots(q.rest.slots, q.rest.ends)} ELSE {}
    /\ \/ ui' = End([ui EXCEPT !.loading = FALSE, !.listed = q.date, !.failed = FALSE])
       \/ ui' = End([ui EXCEPT !.loading = FALSE, !.failed = TRUE])

AnswerServices(q) ==
    /\ q.op = "services" /\ net' = net \ {q}
    /\ \/ ui' = [ui EXCEPT !.services = q.employee]
       \/ UNCHANGED ui

AnswerSlots(q) ==
    /\ q.op = "slots" /\ net' = net \ {q}
    /\ \/ ui' = Saved([ui EXCEPT !.slots = q.of], q.ends)
       \/ ui' = Saved(ui, q.ends)

AnswerMoveSlots(q) ==
    /\ q.op = "moveSlots" /\ net' = net \ {q}
    /\ ui' = [ui EXCEPT !.moveSlots = q.of] \/ UNCHANGED ui

\* Success loads the agenda of the date the handler knows; an error only ends saving.
AnswerWrite(q) ==
    /\ q.op \in {"create", "status", "cancel"}
    /\ \/ /\ ui' = [ui EXCEPT !.slot = IF q.op = "create" THEN None ELSE @, !.loading = TRUE]
          /\ net' = (net \ {q}) \cup {LoadAgenda(q.date, q.rest)}
       \/ ui' = Saved(ui, q.rest.ends) /\ net' = net \ {q}

AnswerMoveStaying(q) ==   \* mutant: forgets to set the date
    /\ q.op = "move"
    /\ \/ /\ ui' = [ui EXCEPT !.move = None, !.moveSlot = None, !.loading = TRUE]
          /\ net' = (net \ {q}) \cup {LoadAgenda(q.of.date, [slots |-> None, ends |-> TRUE])}
       \/ ui' = Saved(ui, TRUE) /\ net' = net \ {q}

\* The agenda goes to the new date, and both the effect and the handler load it.
AnswerMove(q) ==
    LET p == [ui EXCEPT !.move = None, !.moveSlot = None, !.date = q.of.date, !.loading = TRUE] IN
    /\ q.op = "move"
    /\ \/ /\ ui' = IF p.date = ui.date THEN p ELSE SlotsEffect(DateEffect(p))
          /\ net' = (net \ {q}) \cup {LoadAgenda(p.date, [slots |-> None, ends |-> TRUE])}
                    \cup IF p.date = ui.date THEN {} 
                         ELSE {LoadAgenda(p.date, Over)} \cup SlotsEffectSends(p)
       \/ ui' = Saved(ui, TRUE) /\ net' = net \ {q}

----------------------------------------------------------------------------
(* Specification *)

User == \/ \E d \in Dates : ChooseDate(d) \/ ChooseMoveDate(d)
        \/ \E x \in Employees \cup {None} : ChooseEmployee(x)
        \/ \E s \in Services \cup {None} : ChooseService(s)
        \/ \E a \in Appointments : OpenReschedule(a)
        \/ RefreshAgenda \/ ChooseSlot \/ HandleCreate \/ HandleStatus \/ HandleCancel
        \/ CloseReschedule \/ ChooseMoveSlot \/ HandleReschedule

Answer(q) == \/ AnswerList(q) \/ AnswerServices(q) \/ AnswerSlots(q) \/ AnswerMoveSlots(q)
             \/ AnswerWrite(q) \/ AnswerMove(q)

Next == User \/ \E q \in net : Answer(q)

Spec == Init /\ [][Next]_vars

----------------------------------------------------------------------------
(* Properties *)

\* The appointments on show are of the date on show, also after one was moved to another
\* date, unless the date changed while something older was under way, or they failed to load.
ListIsOfTheDate == ui.loading \/ ui.failed \/ ui.overtaken \/ ui.listed = ui.date

\* An appointment is created at, and moved to, a time that was looked up for just the
\* employee, service and date it is sent with, unless two lookups crossed.
SlotsAreOfTheForm == \A q \in InFlight({"create", "move"}) : ~q.astray
=============================================================================
