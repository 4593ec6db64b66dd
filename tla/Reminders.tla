------------------------------ MODULE Reminders ------------------------------
(***************************************************************************)
(* Appointment reminders: appointment-reminders.service.ts prepares them,  *)
(* notification-worker.service.ts checks and sends them, and the           *)
(* appointment, its dedupe keys and its reminderSentAt marker change       *)
(* meanwhile (appointments.service.ts, tenants.service.ts).                *)
(*                                                                         *)
(* The module has one company.  Time is counted in hours.  Rows of         *)
(* NotificationDelivery are named by what their dedupeKey is made of, the  *)
(* appointment and the start it had when the reminder was prepared.  The   *)
(* retry times and the age of abandoned rows are in NotificationWorker:    *)
(* here a row may be retried or given up at any time.                      *)
(***************************************************************************)
EXTENDS Integers, FiniteSets

CONSTANTS Appointments,
          Starts,         \* instants an appointment may be moved to
          Hours,          \* values of appointmentReminderHoursBefore
          Requests,       \* business operations, each served once
          MaxInFlight,    \* bound: requests between their read and their write
          Schedulers,     \* instances that run the reminder job
          Workers,        \* instances that run the notification worker
          MaxAttempts,
          Horizon,        \* bound: the last hour
          None

ASSUME ReminderAssumption ==
    /\ Starts \subseteq Nat \ {0} /\ Hours \subseteq Nat /\ Horizon \in Nat
    /\ MaxAttempts \in Nat \ {0} /\ MaxInFlight \in Nat \ {0}
    /\ None \notin Appointments \X Starts

VARIABLES
    appt,      \* status, startsAt and whether reminderSentAt is set
    tenant,    \* appointmentRemindersEnabled, appointmentReminderHoursBefore
    row,       \* the reminder rows of NotificationDelivery
    sched,     \* what each reminder job is doing
    worker,    \* what each notification worker is doing
    req,       \* what each request has read
    clock,
    mails,     \* how often each reminder was accepted by the SMTP server
    faults,    \* how often a reminder was accepted and the worker took it for a failure
    left,      \* the reminders whose appointment was moved away from their start
    lost       \* the appointments written over a change the request had not seen

vars == <<appt, tenant, row, sched, worker, req, clock, mails, faults, left, lost>>

----------------------------------------------------------------------------
(* Data *)

Key == Appointments \X Starts

Status == {"PENDING", "CONFIRMED", "COMPLETED", "CANCELED", "NO_SHOW"}
Appointment == [status : Status, start : Starts, sent : BOOLEAN]
Tenant == [enabled : BOOLEAN, hours : Hours]
Row == [status : {"NONE", "PENDING", "PROCESSING", "SENT", "FAILED", "CANCELED", "UNCERTAIN"}, 
        tries : 0..MaxAttempts]
NoRow == [status |-> "NONE", tries |-> 0]

Scheduler == [running : BOOLEAN, now : Nat, todo : SUBSET Appointments]
IdleScheduler == [running |-> FALSE, now |-> 0, todo |-> {}]

\* key and tries are the claim the worker holds.
Worker == [pc : {"idle", "claim", "validate", "cancel", "send", "markSent", "markFailure"}, 
           now : Nat, key : Key \cup {None}, tries : 0..MaxAttempts]
IdleWorker == [pc |-> "idle", now |-> 0, key |-> None, tries |-> 0]

Request == [pc : {"write"}, op : {"status", "reschedule", "settings"}, id : Appointments,
            seen : Starts, was : Status, start : Starts,
            status : {"CONFIRMED", "COMPLETED", "CANCELED", "NO_SHOW"}, tenant : Tenant]
NewRequest  == [pc |-> "idle"]
DoneRequest == [pc |-> "done"]

TypeOK ==
    /\ appt \in [Appointments -> Appointment]
    /\ tenant \in Tenant
    /\ row \in [Key -> Row]
    /\ sched \in [Schedulers -> Scheduler]
    /\ worker \in [Workers -> Worker]
    /\ req \in [Requests -> Request \cup {NewRequest, DoneRequest}]
    /\ clock \in 0..Horizon
    /\ mails \in [Key -> Nat] /\ faults \in [Key -> Nat]
    /\ left \subseteq Key
    /\ lost \subseteq Appointments

Init ==
    /\ appt \in [Appointments -> [status : {"PENDING", "CONFIRMED"}, start : Starts, sent : {FALSE}]]
    /\ tenant \in Tenant
    /\ row = [k \in Key |-> NoRow]
    /\ sched = [q \in Schedulers |-> IdleScheduler]
    /\ worker = [w \in Workers |-> IdleWorker]
    /\ req = [r \in Requests |-> NewRequest]
    /\ clock = 0
    /\ mails = [k \in Key |-> 0] /\ faults = [k \in Key |-> 0]
    /\ left = {} /\ lost = {}

Tick == clock < Horizon /\ clock' = clock + 1 
        /\ UNCHANGED <<appt, tenant, row, sched, worker, req, mails, faults, left, lost>>

----------------------------------------------------------------------------
(* Business operations: a read, then a write that may come late *)

Begin(r, fields) ==
    /\ req[r].pc = "idle"
    /\ Cardinality({q \in Requests : req[q].pc = "write"}) < MaxInFlight
    /\ req' = [req EXCEPT ![r] = fields]
    /\ UNCHANGED <<appt, tenant, row, sched, worker, clock, mails, faults, left, lost>>

Operation(op, a, s, status, t) ==
    [pc |-> "write", op |-> op, id |-> a, seen |-> appt[a].start, was |-> appt[a].status,
     start |-> s, status |-> status, tenant |-> t]

\* updateStatus and cancel.
NextStatus(status) ==
    CASE status = "PENDING"   -> {"CONFIRMED", "CANCELED"}
      [] status = "CONFIRMED" -> {"COMPLETED", "NO_SHOW", "CANCELED"}
      [] OTHER                -> {}

BeginStatus(r) ==
    \E a \in Appointments : \E to \in NextStatus(appt[a].status) :
        Begin(r, Operation("status", a, appt[a].start, to, tenant))

BeginReschedule(r) ==
    \E a \in Appointments, s \in Starts :
        /\ appt[a].status \in {"PENDING", "CONFIRMED"}
        /\ Begin(r, Operation("reschedule", a, s, "CONFIRMED", tenant))

BeginSettings(r) ==
    \E a \in Appointments, t \in Tenant :
        Begin(r, Operation("settings", a, appt[a].start, "CONFIRMED", t))

\* Both update the appointment by id, whatever became of what was read.
Overwrites(x) == appt[x.id].status # x.was \/ appt[x.id].start # x.seen
Lost(x) == lost' = IF Overwrites(x) THEN lost \cup {x.id} ELSE lost

CommitStatus(r) ==
    /\ req[r].pc = "write" /\ req[r].op = "status"
    /\ appt' = [appt EXCEPT ![req[r].id].status = req[r].status]
    /\ Lost(req[r])
    /\ req' = [req EXCEPT ![r] = DoneRequest]
    /\ UNCHANGED <<tenant, row, sched, worker, clock, mails, faults, left>>

\* The marker is reset when the start differs from the one the request had read.
CommitReschedule(r) ==
    LET x == req[r] IN
    /\ x.pc = "write" /\ x.op = "reschedule"
    /\ appt' = [appt EXCEPT ![x.id].start = x.start, 
                            ![x.id].sent = @ /\ x.start = x.seen]
    /\ left' = IF x.start # appt[x.id].start THEN left \cup {<<x.id, appt[x.id].start>>} ELSE left
    /\ Lost(x)
    /\ req' = [req EXCEPT ![r] = DoneRequest]
    /\ UNCHANGED <<tenant, row, sched, worker, clock, mails, faults>>

CommitSettings(r) ==
    /\ req[r].pc = "write" /\ req[r].op = "settings"
    /\ tenant' = req[r].tenant
    /\ req' = [req EXCEPT ![r] = DoneRequest]
    /\ UNCHANGED <<appt, row, sched, worker, clock, mails, faults, left, lost>>

----------------------------------------------------------------------------
(* The reminder job *)

NormalizeReminderHours(h) == IF h < 1 THEN 1 ELSE IF h > 168 THEN 168 ELSE h

\* CONFIRMED, without a marker, in the window that starts at the job's `now`.
Due(a, now) ==
    /\ appt[a].status = "CONFIRMED"
    /\ ~appt[a].sent
    /\ appt[a].start > now
    /\ appt[a].start <= now + NormalizeReminderHours(tenant.hours)

ProcessDueReminders(q) ==
    /\ ~sched[q].running
    /\ tenant.enabled
    /\ sched' = [sched EXCEPT ![q] = [running |-> TRUE, now |-> clock,
                                      todo |-> {a \in Appointments : Due(a, clock)}]]
    /\ UNCHANGED <<appt, tenant, row, worker, req, clock, mails, faults, left, lost>>

Upsert(k) == row' = IF row[k].status = "NONE" 
                    THEN [row EXCEPT ![k].status = "PENDING"] ELSE row
UpsertOverwriting(k) ==   \* mutant: the upsert updates an existing row
    row' = [row EXCEPT ![k] = [status |-> "PENDING", tries |-> 0]]

\* The reminder's key is the appointment and the start it has now.
NotifyReminder(a) == Upsert(<<a, appt[a].start>>)

\* The transaction of one candidate, which looks again at company and appointment.
ProcessAppointmentReminderUpdating(q) ==   \* mutant: see UpsertOverwriting
    \E a \in sched[q].todo :
        /\ IF tenant.enabled /\ Due(a, sched[q].now)
           THEN UpsertOverwriting(<<a, appt[a].start>>) ELSE UNCHANGED row
        /\ sched' = [sched EXCEPT ![q].todo = @ \ {a}]
        /\ UNCHANGED <<appt, tenant, worker, req, clock, mails, faults, left, lost>>

ProcessAppointmentReminder(q) ==
    \E a \in sched[q].todo :
        /\ IF tenant.enabled /\ Due(a, sched[q].now)
           THEN NotifyReminder(a) ELSE UNCHANGED row
        /\ sched' = [sched EXCEPT ![q].todo = @ \ {a}]
        /\ UNCHANGED <<appt, tenant, worker, req, clock, mails, faults, left, lost>>

\* Another instance holds the appointment's advisory lock, or the transaction fails.
SkipAppointmentReminder(q) ==
    \E a \in sched[q].todo :
        /\ sched' = [sched EXCEPT ![q].todo = @ \ {a}]
        /\ UNCHANGED <<appt, tenant, row, worker, req, clock, mails, faults, left, lost>>

EndReminders(q) ==
    /\ sched[q].running /\ sched[q].todo = {}
    /\ sched' = [sched EXCEPT ![q] = IdleScheduler]
    /\ UNCHANGED <<appt, tenant, row, worker, req, clock, mails, faults, left, lost>>

----------------------------------------------------------------------------
(* The notification worker *)

StartBatch(w) ==
    /\ worker[w].pc = "idle"
    /\ worker' = [worker EXCEPT ![w] = [IdleWorker EXCEPT !.pc = "claim", !.now = clock]]
    /\ UNCHANGED <<appt, tenant, row, sched, req, clock, mails, faults, left, lost>>

EndBatch(w) ==
    /\ worker[w].pc = "claim"
    /\ worker' = [worker EXCEPT ![w] = IdleWorker]
    /\ UNCHANGED <<appt, tenant, row, sched, req, clock, mails, faults, left, lost>>

ClaimReminder(w) ==
    \E k \in Key :
        /\ worker[w].pc = "claim"
        /\ row[k].status = "PENDING"
        /\ row' = [row EXCEPT ![k] = [status |-> "PROCESSING", tries |-> @.tries + 1]]
        /\ worker' = [worker EXCEPT ![w] = [@ EXCEPT !.pc = "validate", !.key = k,
                                                     !.tries = row[k].tries + 1]]
        /\ UNCHANGED <<appt, tenant, sched, req, clock, mails, faults, left, lost>>

Goto(w, at) == worker' = [worker EXCEPT ![w].pc = at]
NextReminder(w) == 
    worker' = [worker EXCEPT ![w] = [@ EXCEPT !.pc = "claim", !.key = None, !.tries = 0]]

\* validateReminderBeforeSend
StillWanted(k, now) ==
    /\ tenant.enabled
    /\ appt[k[1]].status = "CONFIRMED"
    /\ ~appt[k[1]].sent
    /\ appt[k[1]].start > now
    /\ appt[k[1]].start = k[2]

Validate(w) ==
    /\ worker[w].pc = "validate"
    /\ Goto(w, IF StillWanted(worker[w].key, worker[w].now) THEN "send" ELSE "cancel")
    /\ UNCHANGED <<appt, tenant, row, sched, req, clock, mails, faults, left, lost>>

Owns(w) == row[worker[w].key] = [status |-> "PROCESSING", tries |-> worker[w].tries]

SetOwned(w, status) ==
    row' = IF Owns(w) THEN [row EXCEPT ![worker[w].key].status = status] ELSE row

CancelDelivery(w) ==
    /\ worker[w].pc = "cancel"
    /\ SetOwned(w, "CANCELED")
    /\ NextReminder(w)
    /\ UNCHANGED <<appt, tenant, sched, req, clock, mails, faults, left, lost>>

Accept(w) == mails' = [mails EXCEPT ![worker[w].key] = @ + 1]
Fault(w) == faults' = [faults EXCEPT ![worker[w].key] = @ + 1]

SmtpAccepts(w) ==
    /\ worker[w].pc = "send"
    /\ Accept(w)
    /\ Goto(w, "markSent")
    /\ UNCHANGED <<appt, tenant, row, sched, req, clock, faults, left, lost>>

SmtpRefuses(w) ==
    /\ worker[w].pc = "send"
    /\ Goto(w, "markFailure")
    /\ UNCHANGED <<appt, tenant, row, sched, req, clock, mails, faults, left, lost>>

\* The server has the message and the connection is lost in DATA with another code
\* than ETIMEDOUT: an ordinary failure for the worker.
SmtpClosesInData(w) ==
    /\ worker[w].pc = "send"
    /\ Accept(w) /\ Fault(w)
    /\ Goto(w, "markFailure")
    /\ UNCHANGED <<appt, tenant, row, sched, req, clock, left, lost>>

MarkSentIgnoringStart(w) ==   \* mutant: marks the appointment wherever it is now
    LET k == worker[w].key IN
    /\ worker[w].pc = "markSent"
    /\ SetOwned(w, "SENT")
    /\ appt' = IF Owns(w) /\ appt[k[1]].status = "CONFIRMED"
               THEN [appt EXCEPT ![k[1]].sent = TRUE] ELSE appt
    /\ NextReminder(w)
    /\ UNCHANGED <<tenant, sched, req, clock, mails, faults, left, lost>>

MarkSentUnlessStarted(w) ==   \* mutant: does not mark once the appointment started
    LET k == worker[w].key IN
    /\ worker[w].pc = "markSent"
    /\ SetOwned(w, "SENT")
    /\ appt' = IF Owns(w) /\ appt[k[1]].status = "CONFIRMED" /\ appt[k[1]].start = k[2]
                  /\ appt[k[1]].start > clock
               THEN [appt EXCEPT ![k[1]].sent = TRUE] ELSE appt
    /\ NextReminder(w)
    /\ UNCHANGED <<tenant, sched, req, clock, mails, faults, left, lost>>

\* One transaction: the row and, if the appointment still is what the row
\* announced, its marker.
MarkSent(w) ==
    LET k == worker[w].key IN
    /\ worker[w].pc = "markSent"
    /\ SetOwned(w, "SENT")
    /\ appt' = IF Owns(w) /\ appt[k[1]].status = "CONFIRMED" /\ appt[k[1]].start = k[2]
               THEN [appt EXCEPT ![k[1]].sent = TRUE] ELSE appt
    /\ NextReminder(w)
    /\ UNCHANGED <<tenant, sched, req, clock, mails, faults, left, lost>>

\* The transaction of markSent throws inside the try: the catch clause takes the
\* error for a failed sending.
MarkSentFails(w) ==
    /\ worker[w].pc = "markSent"
    /\ Fault(w)
    /\ Goto(w, "markFailure")
    /\ UNCHANGED <<appt, tenant, row, sched, req, clock, mails, left, lost>>

MarkFailure(w) ==
    /\ worker[w].pc = "markFailure"
    /\ SetOwned(w, IF worker[w].tries >= MaxAttempts THEN "FAILED" ELSE "PENDING")
    /\ NextReminder(w)
    /\ UNCHANGED <<appt, tenant, sched, req, clock, mails, faults, left, lost>>

\* recoverStaleProcessing, or an SMTP timeout in DATA.
GiveUpUncertain ==
    \E k \in Key :
        /\ row[k].status = "PROCESSING"
        /\ row' = [row EXCEPT ![k].status = "UNCERTAIN"]
        /\ UNCHANGED <<appt, tenant, sched, worker, req, clock, mails, faults, left, lost>>

----------------------------------------------------------------------------

Next ==
    \/ Tick \/ GiveUpUncertain
    \/ \E r \in Requests : \/ BeginStatus(r) \/ BeginReschedule(r) \/ BeginSettings(r)
                           \/ CommitStatus(r) \/ CommitReschedule(r) \/ CommitSettings(r)
    \/ \E q \in Schedulers : \/ ProcessDueReminders(q) \/ ProcessAppointmentReminder(q)
                             \/ SkipAppointmentReminder(q) \/ EndReminders(q)
    \/ \E w \in Workers : \/ StartBatch(w) \/ EndBatch(w) \/ ClaimReminder(w) \/ Validate(w)
                          \/ CancelDelivery(w) \/ SmtpAccepts(w) \/ SmtpRefuses(w)
                          \/ SmtpClosesInData(w) \/ MarkSent(w) \/ MarkSentFails(w)
                          \/ MarkFailure(w)

Spec == Init /\ [][Next]_vars

----------------------------------------------------------------------------
(* Properties *)

\* However many jobs prepare it and however often the appointment leaves a start
\* and returns to it, only a fault repeats a reminder: each one sent again for the
\* same start is paid for by an accepted message that processNotification took for
\* a failure and left to the retries.
RepeatsAreFaults == \A k \in Key : mails[k] <= 1 + faults[k]

\* README.md:840: reminderSentAt stands for a confirmed sending of the reminder for
\* the start the appointment has now; a late answer for another start cannot set
\* it, nor can a move keep it, unless the move was written over another one.
MarkerMeansSent == \A a \in Appointments \ lost : appt[a].sent => mails[<<a, appt[a].start>>] > 0

\* The row and the marker agree: a reminder that is SENT for the start at which a
\* confirmed appointment has stayed is marked, so the job does not select it again,
\* unless a cancellation was written over.
SentIsMarked ==
    \A k \in Key :
        /\ row[k].status = "SENT" /\ k \notin left /\ k[1] \notin lost
        /\ appt[k[1]].start = k[2] /\ appt[k[1]].status = "CONFIRMED"
        => appt[k[1]].sent

\* The table implements the queue README.md draws under a job that may prepare a
\* reminder again and a recovery that may give up a row its worker still holds: a
\* settled row never moves again, and a row fails for good on its last attempt.
Queue == INSTANCE Delivery WITH
    Deliveries <- Key,
    state <- [k \in Key |-> row[k].status],
    tries <- [k \in Key |-> row[k].tries]

QueueSpec == Queue!Spec

----------------------------------------------------------------------------
(* What the documentation says and the code does not keep *)

\* README.md:842: an effective move resets the marker so that a reminder can be
\* prepared for the new start; so the row of that start is not one that was
\* already cancelled, which the upsert would leave as it is.
MovedCanBeReminded ==
    \A k \in Key :
        /\ appt[k[1]].status = "CONFIRMED" /\ ~appt[k[1]].sent
        /\ appt[k[1]].start = k[2] /\ k \in left
        => row[k].status # "CANCELED"
=============================================================================
