------------------------------ MODULE Booking ------------------------------
(***************************************************************************)
(* Appointments and the HTTP requests that change them:                    *)
(* appointments.service.ts (create, updateStatus, cancel, reschedule),     *)
(* appointment-audit.ts and public-booking.service.ts (createAppointment); *)
(* and the staff who add and remove clients (clients.service.ts).          *)
(*                                                                         *)
(* Requests run concurrently.  One action is the code between two points   *)
(* at which another request can be served: the reads that precede the      *)
(* transaction, each pg_advisory_xact_lock, each conflict query, and the   *)
(* writes with their COMMIT.  PostgreSQL runs READ COMMITTED, so a query   *)
(* sees what is committed when it runs and the writes of a transaction     *)
(* (appointment, outbox row, audit row) become visible together.           *)
(*                                                                         *)
(* An appointment has the name of the request that creates it.  Working    *)
(* hours, blocked times, dates and permissions only ever refuse a request  *)
(* and are left to Refuse.                                                 *)
(***************************************************************************)
EXTENDS Integers, Sequences

CONSTANTS Requests,   \* HTTP requests, each served once
          Employees, 
          Clients,    \* clients, told apart by their normalised phone
          WithEmail,  \* the clients whose record has an e-mail address
          Starts,     \* instants at which an appointment may start
          Durations,  \* service durations
          Ops,        \* the kinds of request the instance admits; "client", the staff's
          None        \* no request, no appointment, no value

AllOps == {"create", "public", "status", "cancel", "reschedule"}

ASSUME OpsAssumption   == Ops \subseteq AllOps \cup {"client"}
ASSUME TimeAssumption  == Starts \subseteq Nat /\ Durations \subseteq Nat \ {0}
ASSUME EmailAssumption == WithEmail \subseteq Clients

Status == {"PENDING", "CONFIRMED", "COMPLETED", "CANCELED", "NO_SHOW"}

VARIABLES 
    appt,        \* the Appointment table
    outbox,      \* the dedupe keys of NotificationDelivery
    audit,       \* AppointmentAuditLog, the rows of each appointment in order
    clientRows,  \* the active Client rows of each phone
    cliLock,     \* holder of the advisory lock (tenant, "client:" phone)
    empLock,     \* holder of the advisory lock (tenant, employee)
    pc,          \* where each request is
    arg          \* what each request has read and decided so far

vars == <<appt, outbox, audit, clientRows, cliLock, empLock, pc, arg>>

----------------------------------------------------------------------------
(* Data *)

Appointment == [status : Status, emp : Employees, client : Clients,
                start : Starts, dur : Durations]

\* booked, how many rows bookings have created, or were there; byStaff, whether there is one
\* that the staff has created or restored.
ClientRows == [booked : Nat, byStaff : BOOLEAN]

Snapshot == [status : Status \cup {None}, start : Starts \cup {None}]
NoSnapshot == [status |-> None, start |-> None]

Action == {"CREATED", "CONFIRMED", "RESCHEDULED", "CANCELED", "COMPLETED", "NO_SHOW"}
AuditRow == [action : Action, actor : {"USER", "PUBLIC"}, 
             before : Snapshot, after : Snapshot]

Kind == {"requested", "confirmed", "rescheduled", "canceled"}
Key == [appt : Requests, kind : Kind, at : Starts \cup {None}]

Argument == [op : AllOps, id : Requests, emp : Employees, client : Clients,
             start : Starts, dur : Durations, to : Status,
             seen : Snapshot, newClient : BOOLEAN]

\* None is none of the values it stands in for.
ASSUME NoneAssumption ==
    /\ None \notin Requests /\ None \notin Starts /\ None \notin Status
    /\ None \notin Appointment /\ None \notin Argument

PC == {"idle", "lockClient", "checkClient", "lockEmployee", "checkEmployee",
       "write", "done"}
InTransaction == PC \ {"idle", "done"}

TypeOK ==
    /\ appt \in [Requests -> Appointment \cup {None}]
    /\ outbox \subseteq Key
    /\ audit \in [Requests -> Seq(AuditRow)]
    /\ clientRows \in [Clients -> ClientRows]
    /\ cliLock \in [Clients -> Requests \cup {None}]
    /\ empLock \in [Employees -> Requests \cup {None}]
    /\ pc \in [Requests -> PC]
    /\ arg \in [Requests -> Argument \cup {None}]

Init ==
    /\ appt = [a \in Requests |-> None]
    /\ outbox = {}
    /\ audit = [a \in Requests |-> <<>>]
    /\ \E known \in SUBSET Clients : clientRows = 
          [c \in Clients |-> [booked |-> IF c \in known THEN 1 ELSE 0, byStaff |-> FALSE]]
    /\ cliLock = [c \in Clients |-> None]
    /\ empLock = [e \in Employees |-> None]
    /\ pc = [r \in Requests |-> "idle"]
    /\ arg = [r \in Requests |-> None]

----------------------------------------------------------------------------
(* Queries over the tables *)

\* An active client has the phone.
HasClient(c) == clientRows[c].booked > 0 \/ clientRows[c].byStaff

Overlap(s1, d1, s2, d2) == s1 < s2 + d2 /\ s2 < s1 + d1

\* status: { not: 'CANCELED' }
Occupying(a) == appt[a] # None /\ appt[a].status # "CANCELED"

\* The conflict query of an employee, leaving out appointment `self`.
EmployeeConflict(self, e, s, d) ==
    \E b \in Requests \ {self} :
        /\ Occupying(b)
        /\ appt[b].emp = e
        /\ Overlap(s, d, appt[b].start, appt[b].dur)

ClientConflictOfPending(c, s, d) ==   \* mutant: forgets confirmed appointments
    \E b \in Requests :
        /\ appt[b] # None
        /\ appt[b].status = "PENDING"
        /\ appt[b].client = c
        /\ Overlap(s, d, appt[b].start, appt[b].dur)

\* The conflict query of a client: only PENDING and CONFIRMED count.
ClientConflict(c, s, d) ==
    \E b \in Requests :
        /\ appt[b] # None
        /\ appt[b].status \in {"PENDING", "CONFIRMED"}
        /\ appt[b].client = c
        /\ Overlap(s, d, appt[b].start, appt[b].dur)

AllowedTransitionsToo(from) ==   \* mutant: a request that was never confirmed may be completed
    CASE from = "PENDING"   -> {"CONFIRMED", "COMPLETED", "NO_SHOW"}
      [] from = "CONFIRMED" -> {"COMPLETED", "NO_SHOW"}
      [] OTHER              -> {}

AllowedTransitions(from) ==
    CASE from = "PENDING"   -> {"CONFIRMED"}
      [] from = "CONFIRMED" -> {"COMPLETED", "NO_SHOW"}
      [] OTHER              -> {}

SnapshotOf(a) == [status |-> appt[a].status, start |-> appt[a].start]

----------------------------------------------------------------------------
(* Before the transaction: validation on what is committed now *)

Begin(r, at, argument) ==
    /\ pc[r] = "idle"
    /\ pc' = [pc EXCEPT ![r] = at]
    /\ arg' = [arg EXCEPT ![r] = argument]
    /\ UNCHANGED <<appt, outbox, audit, clientRows, cliLock, empLock>>

\* Internal creation: the client exists and getAvailableSlots offers the slot.
BeginCreate(r) ==
    \E e \in Employees, c \in Clients, s \in Starts, d \in Durations :
        /\ "create" \in Ops
        /\ HasClient(c)
        /\ ~EmployeeConflict(r, e, s, d)
        /\ Begin(r, "lockEmployee",
                 [op |-> "create", id |-> r, emp |-> e, client |-> c, start |-> s,
                  dur |-> d, to |-> "CONFIRMED", seen |-> NoSnapshot,
                  newClient |-> FALSE])

\* A booking from the public page.
BeginPublic(r) ==
    \E e \in Employees, c \in Clients, s \in Starts, d \in Durations :
        /\ "public" \in Ops
        /\ ~EmployeeConflict(r, e, s, d)
        /\ Begin(r, "lockClient",
                 [op |-> "public", id |-> r, emp |-> e, client |-> c, start |-> s,
                  dur |-> d, to |-> "PENDING", seen |-> NoSnapshot,
                  newClient |-> FALSE])

OnExistingMerged(op, a, s, to) ==   \* mutant: the previous values are read after the new are put in
    [op |-> op, id |-> a, emp |-> appt[a].emp, client |-> appt[a].client,
     start |-> s, dur |-> appt[a].dur, to |-> to, seen |-> [status |-> to, start |-> s],
     newClient |-> FALSE]

\* What an operation on the existing appointment a starts from.
OnExisting(op, a, s, to) ==
    [op |-> op, id |-> a, emp |-> appt[a].emp, client |-> appt[a].client,
     start |-> s, dur |-> appt[a].dur, to |-> to, seen |-> SnapshotOf(a),
     newClient |-> FALSE]

BeginStatus(r) ==
    \E a \in Requests :
        /\ "status" \in Ops
        /\ appt[a] # None
        /\ \E to \in AllowedTransitions(appt[a].status) :
              Begin(r, "write", OnExisting("status", a, appt[a].start, to))

BeginCancel(r) ==
    \E a \in Requests :
        /\ "cancel" \in Ops
        /\ appt[a] # None
        /\ appt[a].status \notin {"CANCELED", "COMPLETED", "NO_SHOW"}
        /\ Begin(r, "write", OnExisting("cancel", a, appt[a].start, "CANCELED"))

\* The slot is looked up with the service's present duration, which may
\* differ from the duration the appointment keeps.
BeginReschedule(r) ==
    \E a \in Requests, s \in Starts, d \in Durations :
        /\ "reschedule" \in Ops
        /\ appt[a] # None
        /\ appt[a].status \notin {"CANCELED", "COMPLETED", "NO_SHOW"}
        /\ ~EmployeeConflict(a, appt[a].emp, s, d)
        /\ Begin(r, "lockEmployee", OnExisting("reschedule", a, s, appt[a].status))

\* A request the validation turns away, or that has nothing to do.
Refuse(r) ==
    /\ pc[r] = "idle"
    /\ pc' = [pc EXCEPT ![r] = "done"]
    /\ UNCHANGED <<appt, outbox, audit, clientRows, cliLock, empLock, arg>>

----------------------------------------------------------------------------
(* Inside the transaction *)

LockClientWithoutWaiting(r) ==   \* mutant: goes on when the lock is taken
    /\ pc[r] = "lockClient"
    /\ cliLock' = [cliLock EXCEPT ![arg[r].client] = r]
    /\ pc' = [pc EXCEPT ![r] = "checkClient"]
    /\ UNCHANGED <<appt, outbox, audit, clientRows, empLock, arg>>

LockClient(r) ==
    /\ pc[r] = "lockClient"
    /\ cliLock[arg[r].client] = None
    /\ cliLock' = [cliLock EXCEPT ![arg[r].client] = r]
    /\ pc' = [pc EXCEPT ![r] = "checkClient"]
    /\ UNCHANGED <<appt, outbox, audit, clientRows, empLock, arg>>

\* Finds the client by phone, or decides to create it.
CheckClient(r) ==
    /\ pc[r] = "checkClient"
    /\ ~ClientConflict(arg[r].client, arg[r].start, arg[r].dur)
    /\ arg' = [arg EXCEPT ![r].newClient = ~HasClient(arg[r].client)]
    /\ pc' = [pc EXCEPT ![r] = "lockEmployee"]
    /\ UNCHANGED <<appt, outbox, audit, clientRows, cliLock, empLock>>

LockEmployeeWithoutWaiting(r) ==   \* mutant: goes on when the lock is taken
    /\ pc[r] = "lockEmployee"
    /\ empLock' = [empLock EXCEPT ![arg[r].emp] = r]
    /\ pc' = [pc EXCEPT ![r] = "checkEmployee"]
    /\ UNCHANGED <<appt, outbox, audit, clientRows, cliLock, arg>>

LockEmployee(r) ==
    /\ pc[r] = "lockEmployee"
    /\ empLock[arg[r].emp] = None
    /\ empLock' = [empLock EXCEPT ![arg[r].emp] = r]
    /\ pc' = [pc EXCEPT ![r] = "checkEmployee"]
    /\ UNCHANGED <<appt, outbox, audit, clientRows, cliLock, arg>>

CheckEmployee(r) ==
    /\ pc[r] = "checkEmployee"
    /\ ~EmployeeConflict(arg[r].id, arg[r].emp, arg[r].start, arg[r].dur)
    /\ pc' = [pc EXCEPT ![r] = "write"]
    /\ UNCHANGED <<appt, outbox, audit, clientRows, cliLock, empLock, arg>>

EndTransactionKeepingLocks(r) ==   \* mutant: session locks, never released
    /\ pc' = [pc EXCEPT ![r] = "done"]
    /\ UNCHANGED <<cliLock, empLock, arg>>

\* The transaction ends: its locks go with it.
EndTransaction(r) ==
    /\ cliLock' = [c \in Clients |-> IF cliLock[c] = r THEN None ELSE cliLock[c]]
    /\ empLock' = [e \in Employees |-> IF empLock[e] = r THEN None ELSE empLock[e]]
    /\ pc' = [pc EXCEPT ![r] = "done"]
    /\ UNCHANGED arg

\* An e-mail is put in the outbox only for a client that has an address; the
\* upsert leaves a row with the same key as it is.
Enqueue(a, c, kind, at) ==
    outbox' = outbox \cup 
        (IF c \in WithEmail THEN {[appt |-> a, kind |-> kind, at |-> at]} ELSE {})

\* The four e-mails about an appointment; only the one about a move has the start
\* in its key, so that each move is told.
NotifyRequested(a, c)       == Enqueue(a, c, "requested", None)
NotifyConfirmed(a, c)       == Enqueue(a, c, "confirmed", None)
NotifyRescheduled(a, c, at) == Enqueue(a, c, "rescheduled", at)
NotifyCanceled(a, c)        == Enqueue(a, c, "canceled", None)

RecordStaffOnly(a, action, actor, before, after) ==   \* mutant: skips PUBLIC
    audit' = IF actor = "PUBLIC" THEN audit
             ELSE [audit EXCEPT ![a] = Append(@,
                     [action |-> action, actor |-> actor, 
                      before |-> before, after |-> after])]

Record(a, action, actor, before, after) ==
    audit' = [audit EXCEPT ![a] = Append(@,
                 [action |-> action, actor |-> actor, 
                  before |-> before, after |-> after])]

OnlyStatus(s) == [status |-> s, start |-> None]
OnlyStart(s)  == [status |-> None, start |-> s]

Insert(r) ==
    LET x == arg[r] IN
    /\ appt' = [appt EXCEPT ![r] = [status |-> x.to, emp |-> x.emp,
                 client |-> x.client, start |-> x.start, dur |-> x.dur]]
    /\ IF x.op = "public" THEN NotifyRequested(r, x.client) ELSE NotifyConfirmed(r, x.client)
    /\ Record(r, "CREATED", IF x.op = "public" THEN "PUBLIC" ELSE "USER",
              NoSnapshot, [status |-> x.to, start |-> x.start])

CommitCreate(r) ==
    /\ pc[r] = "write" /\ arg[r].op = "create"
    /\ Insert(r)
    /\ EndTransaction(r)
    /\ UNCHANGED clientRows

CommitPublic(r) ==
    /\ pc[r] = "write" /\ arg[r].op = "public"
    /\ Insert(r)
    /\ clientRows' = [clientRows EXCEPT ![arg[r].client].booked = 
                         IF arg[r].newClient THEN @ + 1 ELSE @]
    /\ EndTransaction(r)

\* The update names the appointment by id only: the status it replaces is the
\* committed one, whatever the request had read.
CommitStatus(r) ==
    LET x == arg[r] IN
    /\ pc[r] = "write" /\ x.op = "status"
    /\ appt' = [appt EXCEPT ![x.id].status = x.to]
    /\ IF x.to = "CONFIRMED" THEN NotifyConfirmed(x.id, x.client)
                             ELSE UNCHANGED outbox
    /\ Record(x.id, x.to, "USER", OnlyStatus(x.seen.status), OnlyStatus(x.to))
    /\ EndTransaction(r)
    /\ UNCHANGED clientRows

CommitCancel(r) ==
    LET x == arg[r] IN
    /\ pc[r] = "write" /\ x.op = "cancel"
    /\ appt' = [appt EXCEPT ![x.id].status = "CANCELED"]
    /\ NotifyCanceled(x.id, x.client)
    /\ Record(x.id, "CANCELED", "USER", OnlyStatus(x.seen.status), OnlyStatus("CANCELED"))
    /\ EndTransaction(r)
    /\ UNCHANGED clientRows

\* startsAtChanged compares with the start read before the transaction.
CommitReschedule(r) ==
    LET x == arg[r] IN
    /\ pc[r] = "write" /\ x.op = "reschedule"
    /\ appt' = [appt EXCEPT ![x.id].start = x.start]
    /\ IF x.start # x.seen.start
       THEN /\ NotifyRescheduled(x.id, x.client, x.start)
            /\ Record(x.id, "RESCHEDULED", "USER", OnlyStart(x.seen.start), OnlyStart(x.start))
       ELSE UNCHANGED <<outbox, audit>>
    /\ EndTransaction(r)
    /\ UNCHANGED clientRows

Rollback(r) ==
    /\ EndTransaction(r)
    /\ UNCHANGED <<appt, outbox, audit, clientRows>>

\* 409: a conflict query found an appointment.
RejectConflict(r) ==
    LET x == arg[r] IN
    /\ \/ pc[r] = "checkClient" /\ ClientConflict(x.client, x.start, x.dur)
       \/ pc[r] = "checkEmployee" /\ EmployeeConflict(x.id, x.emp, x.start, x.dur)
    /\ Rollback(r)

FailSwallowingOutboxError(r) ==   \* mutant: cancels although no e-mail was queued
    LET x == arg[r] IN
    /\ pc[r] = "write" /\ x.op = "cancel"
    /\ appt' = [appt EXCEPT ![x.id].status = "CANCELED"]
    /\ Record(x.id, "CANCELED", "USER", OnlyStatus(x.seen.status), OnlyStatus("CANCELED"))
    /\ EndTransaction(r)
    /\ UNCHANGED <<outbox, clientRows>>

\* The outbox or the audit write throws, the transaction times out, or the
\* connection or the process is lost.
Fail(r) ==
    /\ pc[r] \in InTransaction
    /\ Rollback(r)

----------------------------------------------------------------------------
(* The staff's clients: clients.service.ts takes none of the locks *)

\* A client with the phone is created, or restored, whoever has it already.
AddClient(c) ==
    /\ "client" \in Ops
    /\ clientRows' = [clientRows EXCEPT ![c].byStaff = TRUE]
    /\ UNCHANGED <<appt, outbox, audit, cliLock, empLock, pc, arg>>

\* A client is deactivated; his appointments stay.
RemoveClient(c) ==
    /\ "client" \in Ops
    /\ \/ clientRows' = [clientRows EXCEPT ![c].byStaff = FALSE]
       \/ /\ clientRows[c].booked > 0
          /\ clientRows' = [clientRows EXCEPT ![c].booked = @ - 1]
    /\ UNCHANGED <<appt, outbox, audit, cliLock, empLock, pc, arg>>

----------------------------------------------------------------------------

Serve(r) == \/ LockClient(r) \/ CheckClient(r) \/ LockEmployee(r) \/ CheckEmployee(r)
            \/ CommitCreate(r) \/ CommitPublic(r) \/ CommitStatus(r)
            \/ CommitCancel(r) \/ CommitReschedule(r) \/ RejectConflict(r)

Arrive(r) == \/ BeginCreate(r) \/ BeginPublic(r) \/ BeginStatus(r)
             \/ BeginCancel(r) \/ BeginReschedule(r) \/ Refuse(r)

AllServed == (\A r \in Requests : pc[r] = "done") /\ UNCHANGED vars

Next == \/ \E r \in Requests : Arrive(r) \/ Serve(r) \/ Fail(r)
        \/ \E c \in Clients : AddClient(c) \/ RemoveClient(c)
        \/ AllServed

Spec == Init /\ [][Next]_vars

\* The server and the database keep working on a request they have started;
\* nothing obliges a client to send one.
FairSpec == Spec /\ \A r \in Requests : WF_vars(Serve(r))

----------------------------------------------------------------------------
(* Properties *)

Logged(a, action) == \E i \in DOMAIN audit[a] : audit[a][i].action = action

Clash(a, b) ==
    /\ a # b
    /\ Occupying(a) /\ Occupying(b)
    /\ appt[a].emp = appt[b].emp
    /\ Overlap(appt[a].start, appt[a].dur, appt[b].start, appt[b].dur)

\* Two appointments of one employee occupy overlapping intervals only if one of
\* them had been cancelled: between the employee's lock, the conflict query and
\* the write of create, createAppointment and reschedule, no other path leads to
\* a double booking.
DoubleBookingOnlyByRevival ==
    \A a, b \in Requests :
        Clash(a, b) => Logged(a, "CANCELED") \/ Logged(b, "CANCELED")

\* Two appointments booked on the public page for one client are never live at
\* overlapping times, even with different employees, as long as the staff only
\* confirms them (createAppointment's client lock and client conflict query).
PublicClientExclusive ==
    \A a, b \in Requests :
        /\ a # b
        /\ appt[a] # None /\ appt[b] # None
        /\ appt[a].client = appt[b].client
        /\ Overlap(appt[a].start, appt[a].dur, appt[b].start, appt[b].dur)
        /\ audit[a][1].actor = "PUBLIC" /\ audit[b][1].actor = "PUBLIC"
        => \E x \in {a, b} : \E act \in Action \ {"CREATED", "CONFIRMED"} : Logged(x, act)

\* Concurrent first bookings of one phone create one client, not one each, whatever the staff
\* does with the clients of the phone meanwhile (createAppointment looks the client up and
\* creates it under the client lock).
OneClientPerPhone == \A c \in Clients : clientRows[c].booked <= 1

\* The outbox holds exactly the e-mails the committed audit rows call for:
\* neither an e-mail of a transaction that rolled back, nor a change committed
\* without its e-mail (enqueueing with client: tx and throwOnError).
OutboxMatchesAudit ==
    \A a \in Requests, k \in Kind, t \in Starts \cup {None} :
        [appt |-> a, kind |-> k, at |-> t] \in outbox <=>
            /\ appt[a] # None
            /\ appt[a].client \in WithEmail
            /\ \E i \in DOMAIN audit[a] : LET row == audit[a][i] IN
                  \/ k = "requested" /\ t = None /\ row.after.status = "PENDING"
                  \/ k = "confirmed" /\ t = None /\ row.after.status = "CONFIRMED"
                  \/ k = "canceled" /\ t = None /\ row.after.status = "CANCELED"
                  \/ k = "rescheduled" /\ row.action = "RESCHEDULED" /\ t = row.after.start

\* The last status the audit log shows is the status of the appointment.
LoggedStatusIsCurrent ==
    \A a \in Requests :
        LET shown == {i \in DOMAIN audit[a] : audit[a][i].after.status # None} IN
        /\ appt[a] = None <=> shown = {}
        /\ \A i \in shown : (\A j \in shown : j <= i) => audit[a][i].after.status = appt[a].status

\* The audit log is a chain: the status or the start a row gives as the previous one is
\* what an earlier row of the appointment had set, and the row changes it.  A row written
\* on a stale read may skip rows, never make values up.
LoggedPreviousWasCurrent ==
    \A a \in Requests : \A i \in DOMAIN audit[a] :
        LET row == audit[a][i] 
            Sets(field) == row.after[field] # None => \E j \in 1..(i - 1) : 
                              /\ audit[a][j].after[field] = row.before[field]
                              /\ row.before[field] # row.after[field] 
        IN i > 1 => Sets("status") /\ Sets("start")

\* Every request that starts gets its answer: locks are always taken in the order
\* client, employee and always released, so no set of requests waits for itself.
EveryRequestReturns == \A r \in Requests : pc[r] # "idle" ~> pc[r] = "done"

\* Each transaction takes effect as one step: whatever overlaps in time, the tables change
\* as if every operation had been served alone, on a version of its appointment that the
\* audit log shows (the locks, the conflict queries, the transitions updateStatus allows, the
\* outbox and the audit log in one transaction).
Agenda == INSTANCE Calendar WITH
    Appointments <- Requests,
    book   <- appt,
    public <- {a \in Requests : appt[a] # None /\ audit[a][1].actor = "PUBLIC"},
    log    <- [a \in Requests |-> 
                 {[action |-> audit[a][i].action, status |-> audit[a][i].after.status, 
                   start |-> audit[a][i].after.start] : i \in DOMAIN audit[a]}],
    mails  <- outbox

CalendarSpec == Agenda!Spec

----------------------------------------------------------------------------
(* What the documentation says and the code does not keep *)

\* README.md:225: a cancelled appointment does not return to an active status.
CanceledStaysCanceled ==
    [][\A a \in Requests :
          appt[a] # None /\ appt[a].status = "CANCELED" => appt'[a].status = "CANCELED"]_vars
=============================================================================
