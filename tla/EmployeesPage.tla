---------------------------- MODULE EmployeesPage ---------------------------
(***************************************************************************)
(* The team (apps/web/app/funcionarios/page.tsx) with the API behind it    *)
(* (employees.service.ts): the list under its filter, the form, and the    *)
(* section where the services of an employee are checked.                  *)
(*                                                                         *)
(* A handler that awaits a request goes on, when it is answered, with the  *)
(* state of the rendering it was created in: the request carries it.  No   *)
(* request is aborted.  An answer tells what is in the database when it    *)
(* comes; a late answer is a late read.  What the form holds and whether   *)
(* an employee is active are left out: nothing here depends on them.       *)
(***************************************************************************)
EXTENDS FiniteSets, Naturals

CONSTANTS Employees, Services, 
          Filters,      \* the values of the select 'status'
          MaxRequests,  \* bound: requests in flight
          None

\* What the composition, Panel, assumes of them.
EmployeesConstants == None \notin Employees \cup Filters /\ MaxRequests \in Nat

VARIABLES ui, net, db
vars == <<ui, net, db>>

\* boxes are the services the page loaded, ids what is checked.  listed is the filter
\* the list was loaded for.  History:
\* owner, whose services ids were loaded from; crossed, two employees' were under way.
Page == [filter : Filters, loading : BOOLEAN, listed : Filters,
         form : BOOLEAN, saving : BOOLEAN,
         boxes : SUBSET Services, dialog : Employees \cup {None}, loadingServices : BOOLEAN,
         ids : SUBSET Services, owner : Employees \cup {None}, crossed : BOOLEAN]

\* ends: handleSubmit waits for it
ListRequest == [op : {"list"}, filter : Filters, ends : BOOLEAN]
\* handleSubmit; deactivateEmployee and restoreEmployee
WriteRequest == [op : {"save", "toggle"}, filter : Filters]
ServicesRequest == [op : {"services"}, employee : Employees]
\* hurried: history, lists of services were under way
PutRequest == [op : {"put"}, employee : Employees, ids : SUBSET Services, 
               owner : Employees \cup {None}, hurried : BOOLEAN]
Request == ListRequest \cup WriteRequest \cup ServicesRequest \cup PutRequest

\* The requests whose end resets saving.
Saves(q) == q.op \in {"save", "put"} \/ (q.op = "list" /\ q.ends)

\* EmployeeService and the services that are active
Database == [performs : SUBSET (Employees \X Services), active : SUBSET Services]

TypeOK ==
    /\ ui \in Page /\ net \subseteq Request /\ db \in Database
    /\ Cardinality({q \in net : Saves(q)}) = IF ui.saving THEN 1 ELSE 0

\* initialize has been answered.
Init ==
    /\ db \in [performs : SUBSET (Employees \X Services), active : SUBSET Services]
    /\ \E f \in Filters :
          ui = [filter |-> f, loading |-> FALSE, listed |-> f, 
                form |-> FALSE, saving |-> FALSE,
                boxes |-> db.active, dialog |-> None, loadingServices |-> FALSE, 
                ids |-> {}, owner |-> None, crossed |-> FALSE]
    /\ net = {}

InFlight(ops) == {q \in net : q.op \in ops}
Room == Cardinality(net) < MaxRequests

----------------------------------------------------------------------------
(* The user *)

\* The select: what is under way brings the list of the filter before.
ChooseFilter(f) ==
    /\ Room /\ f # ui.filter
    /\ ui' = [ui EXCEPT !.filter = f, !.loading = TRUE]
    /\ net' = net \cup {[op |-> "list", filter |-> f, ends |-> FALSE]} /\ UNCHANGED db

OpenForm  == ~ui.form /\ ui' = [ui EXCEPT !.form = TRUE] /\ UNCHANGED <<net, db>>
CloseForm ==  ui.form /\ ui' = [ui EXCEPT !.form = FALSE] /\ UNCHANGED <<net, db>>

HandleSubmit ==
    /\ Room /\ ui.form /\ ~ui.saving
    /\ ui' = [ui EXCEPT !.saving = TRUE]
    /\ net' = net \cup {[op |-> "save", filter |-> ui.filter]} /\ UNCHANGED db

\* deactivateEmployee, restoreEmployee
ToggleEmployee ==
    /\ Room /\ net' = net \cup {[op |-> "toggle", filter |-> ui.filter]} 
    /\ UNCHANGED <<ui, db>>

OpenServices(x) ==
    /\ Room
    /\ ui' = [ui EXCEPT !.dialog = x, !.loadingServices = TRUE, 
                        !.crossed = InFlight({"services"}) # {}]
    /\ net' = net \cup {[op |-> "services", employee |-> x]} /\ UNCHANGED db

CloseServices ==
    /\ ui.dialog # None /\ ui' = [ui EXCEPT !.dialog = None] /\ UNCHANGED <<net, db>>

ToggleService(s) ==
    /\ ui.dialog # None /\ ~ui.loadingServices /\ s \in ui.boxes
    /\ ui' = [ui EXCEPT !.ids = IF s \in @ THEN @ \ {s} ELSE @ \cup {s}] 
    /\ UNCHANGED <<net, db>>

\* saveEmployeeServices; the button is there while the list loads.
SaveEmployeeServices ==
    /\ Room /\ ui.dialog # None /\ ~ui.saving
    /\ ui' = [ui EXCEPT !.saving = TRUE]
    /\ net' = net \cup {[op |-> "put", employee |-> ui.dialog, ids |-> ui.ids, owner |-> ui.owner,
                         hurried |-> ui.crossed \/ InFlight({"services"}) # {}]}
    /\ UNCHANGED db

\* Another administrator deactivates or restores a service.
ServiceChanges(s) ==
    /\ db' = [db EXCEPT !.active = IF s \in @ THEN @ \ {s} ELSE @ \cup {s}]
    /\ UNCHANGED <<ui, net>>

----------------------------------------------------------------------------
(* The answers *)

Saved(p, q) == [p EXCEPT !.saving = IF Saves(q) THEN FALSE ELSE @]

\* loadEmployees; when it fails the list stays as it was.
AnswerList(q) ==
    /\ q \in InFlight({"list"}) /\ net' = net \ {q} /\ UNCHANGED db
    /\ \/ ui' = Saved([ui EXCEPT !.loading = FALSE, !.listed = q.filter], q)
       \/ ui' = Saved([ui EXCEPT !.loading = FALSE], q)

\* The list is loaded anew, under the filter of the rendering that sent the write.
Reload(q) == [op |-> "list", filter |-> q.filter, ends |-> q.op = "save"]

\* Success closes the form, whichever it is.
AnswerWrite(q) ==
    /\ q \in InFlight({"save", "toggle"}) /\ UNCHANGED db
    /\ \/ /\ ui' = [ui EXCEPT !.form = IF q.op = "save" THEN FALSE ELSE @, !.loading = TRUE]
          /\ net' = (net \ {q}) \cup {Reload(q)}
       \/ ui' = Saved(ui, q) /\ net' = net \ {q}

AnswerServicesStayingOpen(q) ==   \* mutant: an error leaves the section open
    /\ q \in InFlight({"services"}) /\ net' = net \ {q} /\ UNCHANGED db
    /\ \/ ui' = [ui EXCEPT !.loadingServices = FALSE, !.owner = q.employee,
                           !.ids = {s \in Services : <<q.employee, s>> \in db.performs}]
       \/ ui' = [ui EXCEPT !.loadingServices = FALSE]

\* Whatever section is open now; the services come active or not.
AnswerServices(q) ==
    /\ q \in InFlight({"services"}) /\ net' = net \ {q} /\ UNCHANGED db
    /\ \/ ui' = [ui EXCEPT !.loadingServices = FALSE, !.owner = q.employee,
                           !.ids = {s \in Services : <<q.employee, s>> \in db.performs}]
       \/ ui' = [ui EXCEPT !.loadingServices = FALSE, !.dialog = None]

\* setServices refuses an inactive service; an answer that is lost looks like a refusal.
AnswerPut(q) ==
    /\ q \in InFlight({"put"}) /\ net' = net \ {q}
    /\ \/ /\ q.ids \subseteq db.active
          /\ db' = [db EXCEPT !.performs = {p \in @ : p[1] # q.employee} \cup ({q.employee} \X q.ids)]
          /\ \/ ui' = [ui EXCEPT !.saving = FALSE, !.dialog = None]
             \/ ui' = [ui EXCEPT !.saving = FALSE]
       \/ ui' = [ui EXCEPT !.saving = FALSE] /\ UNCHANGED db

----------------------------------------------------------------------------
(* Specification *)

User == \/ \E f \in Filters : ChooseFilter(f)
        \/ \E x \in Employees : OpenServices(x)
        \/ \E s \in Services : ToggleService(s)
        \/ OpenForm \/ CloseForm \/ HandleSubmit \/ ToggleEmployee
        \/ CloseServices \/ SaveEmployeeServices

Answer == \E q \in net : AnswerList(q) \/ AnswerWrite(q) \/ AnswerServices(q) \/ AnswerPut(q)

Next == User \/ Answer \/ \E s \in Services : ServiceChanges(s)

Spec == Init /\ [][Next]_vars

----------------------------------------------------------------------------
(* Properties *)

\* What is saved for an employee was checked on a list of that employee's services,
\* unless a list was under way when it was saved, or two were when the section was opened.
ServicesAreTheirOwn == \A q \in InFlight({"put"}) :
    q.owner = q.employee \/ q.hurried

\* 'Selecione os serviços que este profissional realiza': services that were checked on
\* the employee's own list, all of them boxes that are still active, can be saved.
CheckedCanBeSaved == \A q \in InFlight({"put"}) :
    q.owner = q.employee /\ ui.boxes \subseteq db.active => q.ids \subseteq db.active
=============================================================================
