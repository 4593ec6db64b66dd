-------------------------- MODULE RemindersProofs --------------------------
(***************************************************************************)
(* What holds of Reminders for any number of appointments, starts,         *)
(* requests, jobs and workers.                                             *)
(***************************************************************************)
EXTENDS Reminders, TLAPS

USE ReminderAssumption

----------------------------------------------------------------------------
(* The inductive invariant *)

Busy(w) == worker[w].pc \notin {"idle", "claim"}
Owned == {"PROCESSING", "UNCERTAIN"}

\* The row a worker has claimed does not come back before the worker is through with it, and
\* only a fault hides from the worker that the server has the message.
WorkerInv(w) == Busy(w) =>
    /\ worker[w].key \in Key
    /\ row[worker[w].key].status \in Owned
    /\ worker[w].pc = "markSent" => mails[worker[w].key] = 1 + faults[worker[w].key]
    /\ worker[w].pc # "markSent" => mails[worker[w].key] = faults[worker[w].key]

Apart(v, w) == Busy(v) /\ Busy(w) => worker[v].key # worker[w].key

\* A row that waits has no message but those faults hid, and has attempts left.
RowInv(k) ==
    /\ mails[k] <= 1 + faults[k]
    /\ row[k].status \in {"NONE", "PENDING"} => mails[k] = faults[k] /\ row[k].tries < MaxAttempts

\* A reminder is prepared for a confirmed appointment at the start it has; what comes after
\* either stays there or is on record.
PreparedInv(k) == row[k].status # "NONE" =>
    /\ appt[k[1]].status # "PENDING"
    /\ k \in left \/ appt[k[1]].start = k[2]

\* Only what was read as PENDING is confirmed.
ConfirmInv(r) == req[r].pc = "write" /\ req[r].op = "status" /\ req[r].status = "CONFIRMED" =>
    req[r].was = "PENDING"

Marked(k) == row[k].status = "SENT" /\ k \notin left /\ k[1] \notin lost /\ appt[k[1]].start = k[2] 
             /\ appt[k[1]].status = "CONFIRMED" => appt[k[1]].sent

WorkInv == /\ \A w \in Workers : WorkerInv(w)
           /\ \A v, w \in Workers : v # w => Apart(v, w)
           /\ \A k \in Key : RowInv(k)

MarkInv == /\ \A k \in Key : PreparedInv(k) /\ Marked(k)
           /\ \A r \in Requests : ConfirmInv(r)
           /\ MarkerMeansSent

Inv == TypeOK /\ WorkInv /\ MarkInv

LEMMA Keys == \A k \in Key : k = <<k[1], k[2]>> /\ k[1] \in Appointments /\ k[2] \in Starts
  BY DEF Key

LEMMA InitInv == Init => Inv
<1> SUFFICES ASSUME Init PROVE Inv
  OBVIOUS
<1>1. TypeOK
  <2>1. IdleScheduler \in Scheduler /\ IdleWorker \in Worker
    BY DEF IdleScheduler, Scheduler, IdleWorker, Worker
  <2>2. NoRow \in Row
    BY DEF NoRow, Row
  <2>3. appt \in [Appointments -> Appointment] /\ clock \in 0..Horizon
    <3>1. [status : {"PENDING", "CONFIRMED"}, start : Starts, sent : {FALSE}] \subseteq Appointment
      <4> SUFFICES ASSUME NEW x \in [status : {"PENDING", "CONFIRMED"}, start : Starts, sent : {FALSE}]
                   PROVE  x \in Appointment
        OBVIOUS
      <4>1. x = [status |-> x.status, start |-> x.start, sent |-> x.sent]
        OBVIOUS
      <4>2. x.status \in Status /\ x.start \in Starts
        BY DEF Status
      <4>3. x.sent \in BOOLEAN
        BY Zenon
      <4> QED
        BY <4>1, <4>2, <4>3 DEF Appointment
    <3>2. appt \in [Appointments -> Appointment]
      BY <3>1 DEF Init
    <3>3. clock = 0 /\ Horizon \in Nat
      BY DEF Init
    <3> QED
      BY <3>2, <3>3
  <2>4. req \in [Requests -> Request \cup {NewRequest, DoneRequest}]
    BY DEF Init
  <2> QED
    BY <2>1, <2>2, <2>3, <2>4 DEF Init, TypeOK
<1>2. \A w \in Workers : ~Busy(w)
  BY DEF Init, Busy, IdleWorker
<1>3. \A k \in Key : row[k].status = "NONE" /\ row[k].tries = 0 /\ mails[k] = 0 /\ faults[k] = 0
  BY DEF Init, NoRow
<1>4. WorkInv
  BY <1>2, <1>3 DEF WorkInv, WorkerInv, Apart, RowInv
<1>5. \A a \in Appointments : appt[a].sent = FALSE
  BY DEF Init
<1>6. MarkInv
  <2>1. \A k \in Key : PreparedInv(k) /\ Marked(k)
    BY <1>3 DEF PreparedInv, Marked
  <2>2. \A r \in Requests : ConfirmInv(r)
    BY DEF Init, NewRequest, ConfirmInv
  <2> QED
    BY <1>5, <2>1, <2>2 DEF MarkInv, MarkerMeansSent
<1> QED
  BY <1>1, <1>4, <1>6 DEF Inv

----------------------------------------------------------------------------
(* Type correctness *)

\* A request that is to write has read what it works on.
LEMMA ReadRequest ==
    ASSUME TypeOK, NEW r \in Requests, req[r].pc = "write"
    PROVE  req[r] \in Request
  BY DEF TypeOK, NewRequest, DoneRequest

LEMMA OperationType ==
    ASSUME TypeOK, NEW op \in {"status", "reschedule", "settings"}, NEW a \in Appointments,
           NEW s \in Starts, NEW status \in {"CONFIRMED", "COMPLETED", "CANCELED", "NO_SHOW"},
           NEW t \in Tenant
    PROVE  Operation(op, a, s, status, t) \in Request
<1>1. appt[a].start \in Starts /\ appt[a].status \in Status
  BY DEF TypeOK, Appointment
<1> QED
  BY <1>1 DEF Operation, Request

\* Begin starts an operation that has its type.
LEMMA BeginType ==
    ASSUME TypeOK, NEW r \in Requests, BeginStatus(r) \/ BeginReschedule(r) \/ BeginSettings(r)
    PROVE  \E x \in Request : 
              /\ Begin(r, x)
              /\ x.op = "status" /\ x.status = "CONFIRMED" => x.was = "PENDING"
<1>1. \A a \in Appointments : appt[a].start \in Starts /\ appt[a].status \in Status
  BY DEF TypeOK, Appointment
<1>2. CASE BeginStatus(r)
  <2>0. PICK a \in Appointments : \E to \in NextStatus(appt[a].status) :
             Begin(r, Operation("status", a, appt[a].start, to, tenant))
    BY <1>2 DEF BeginStatus
  <2>1. PICK to \in NextStatus(appt[a].status) :
             Begin(r, Operation("status", a, appt[a].start, to, tenant))
    BY <2>0
  <2>2. /\ to \in {"CONFIRMED", "COMPLETED", "CANCELED", "NO_SHOW"}
        /\ to = "CONFIRMED" => appt[a].status = "PENDING"
    BY <1>1, <2>1 DEF NextStatus
  <2>3. Operation("status", a, appt[a].start, to, tenant) \in Request
    BY <1>1, <2>2, OperationType DEF TypeOK
  <2>4. to = "CONFIRMED" => Operation("status", a, appt[a].start, to, tenant).was = "PENDING"
    BY <2>2 DEF Operation
  <2>5. Operation("status", a, appt[a].start, to, tenant).status = to
    BY DEF Operation
  <2> QED
    BY <2>1, <2>3, <2>4, <2>5
<1>3. CASE BeginReschedule(r)
  <2>1. PICK a \in Appointments, s \in Starts : 
             Begin(r, Operation("reschedule", a, s, "CONFIRMED", tenant))
    BY <1>3 DEF BeginReschedule
  <2>2. Operation("reschedule", a, s, "CONFIRMED", tenant) \in Request
    BY OperationType DEF TypeOK
  <2>3. Operation("reschedule", a, s, "CONFIRMED", tenant).op = "reschedule"
    BY DEF Operation
  <2> QED
    BY <2>1, <2>2, <2>3
<1>4. CASE BeginSettings(r)
  <2>1. PICK a \in Appointments, t \in Tenant :
             Begin(r, Operation("settings", a, appt[a].start, "CONFIRMED", t))
    BY <1>4 DEF BeginSettings
  <2>2. Operation("settings", a, appt[a].start, "CONFIRMED", t) \in Request
    BY <1>1, OperationType
  <2>3. Operation("settings", a, appt[a].start, "CONFIRMED", t).op = "settings"
    BY DEF Operation
  <2> QED
    BY <2>1, <2>2, <2>3
<1> QED
  BY <1>2, <1>3, <1>4

LEMMA RequestType ==
    ASSUME TypeOK, NEW r \in Requests, 
           \/ BeginStatus(r) \/ BeginReschedule(r) \/ BeginSettings(r)
           \/ CommitStatus(r) \/ CommitReschedule(r) \/ CommitSettings(r)
    PROVE  TypeOK'
<1>1. CASE BeginStatus(r) \/ BeginReschedule(r) \/ BeginSettings(r)
  <2>1. PICK x \in Request : Begin(r, x)
    BY <1>1, BeginType
  <2> QED
    BY <2>1 DEF Begin, TypeOK
<1>2. ASSUME req[r].pc = "write"
      PROVE  req[r] \in Request /\ req[r].id \in Appointments /\ appt[req[r].id] \in Appointment
  BY <1>2, ReadRequest DEF Request, TypeOK
<1>3. CASE CommitStatus(r)
  <2>1. /\ req[r] \in Request /\ req[r].id \in Appointments /\ appt[req[r].id] \in Appointment
        /\ req[r].status \in Status
    BY <1>2, <1>3 DEF CommitStatus, Request, Status
  <2>2. appt' \in [Appointments -> Appointment]
    BY <1>3, <2>1 DEF CommitStatus, TypeOK, Appointment
  <2>3. lost' \subseteq Appointments /\ req' \in [Requests -> Request \cup {NewRequest, DoneRequest}]
    BY <1>3, <2>1 DEF CommitStatus, TypeOK, Lost
  <2> QED
    BY <1>3, <2>2, <2>3 DEF CommitStatus, TypeOK
<1>4. CASE CommitReschedule(r)
  <2>1. /\ req[r] \in Request /\ req[r].id \in Appointments /\ appt[req[r].id] \in Appointment
        /\ req[r].start \in Starts /\ appt[req[r].id].start \in Starts
    BY <1>2, <1>4 DEF CommitReschedule, Request, Appointment
  <2>2. appt' \in [Appointments -> Appointment]
    <3>1. (appt[req[r].id].sent /\ req[r].start = req[r].seen) \in BOOLEAN
      BY Zenon
    <3> QED
      BY <1>4, <2>1, <3>1 DEF CommitReschedule, TypeOK, Appointment
  <2>3. lost' \subseteq Appointments /\ req' \in [Requests -> Request \cup {NewRequest, DoneRequest}]
    BY <1>4, <2>1 DEF CommitReschedule, TypeOK, Lost
  <2>4. left' \subseteq Key
    BY <1>4, <2>1 DEF CommitReschedule, TypeOK, Key
  <2> QED
    BY <1>4, <2>2, <2>3, <2>4 DEF CommitReschedule, TypeOK
<1>5. CASE CommitSettings(r)
  <2>1. req[r].tenant \in Tenant
    BY <1>2, <1>5 DEF CommitSettings, Request
  <2> QED
    BY <1>5, <2>1 DEF CommitSettings, TypeOK
<1> QED
  BY <1>1, <1>3, <1>4, <1>5

LEMMA JobType ==
    ASSUME TypeOK, NEW q \in Schedulers,
           \/ ProcessDueReminders(q) \/ ProcessAppointmentReminder(q)
           \/ SkipAppointmentReminder(q) \/ EndReminders(q)
    PROVE  TypeOK'
<1>1. sched[q] \in Scheduler /\ clock \in Nat
  BY DEF TypeOK
<1>2. CASE ProcessDueReminders(q)
  <2>1. [running |-> TRUE, now |-> clock, todo |-> {a \in Appointments : Due(a, clock)}] \in Scheduler
    BY <1>1 DEF Scheduler
  <2> QED
    BY <1>2, <2>1 DEF ProcessDueReminders, TypeOK
<1>3. ASSUME NEW a \in sched[q].todo
      PROVE  a \in Appointments /\ [sched[q] EXCEPT !.todo = @ \ {a}] \in Scheduler
  BY <1>1 DEF Scheduler
<1>4. CASE ProcessAppointmentReminder(q)
  <2>1. PICK a \in sched[q].todo :
           /\ UNCHANGED row \/ Upsert(<<a, appt[a].start>>)
           /\ sched' = [sched EXCEPT ![q].todo = @ \ {a}]
    BY <1>4 DEF ProcessAppointmentReminder, NotifyReminder
  <2>2. <<a, appt[a].start>> \in Key
    BY <1>3 DEF TypeOK, Appointment, Key
  <2>3. row' \in [Key -> Row]
    <3> DEFINE k == <<a, appt[a].start>>
    <3>1. row[k] \in Row /\ row \in [Key -> Row]
      BY <2>2 DEF TypeOK
    <3>2. [row[k] EXCEPT !.status = "PENDING"] \in Row
      BY <3>1 DEF Row
    <3>3. UNCHANGED row \/ row' = [row EXCEPT ![k] = [row[k] EXCEPT !.status = "PENDING"]]
      BY <2>1 DEF Upsert
    <3> HIDE DEF k
    <3> QED
      BY <3>1, <3>2, <3>3
  <2>4. sched' \in [Schedulers -> Scheduler]
    BY <1>3, <2>1 DEF TypeOK
  <2> QED
    BY <1>4, <2>3, <2>4 DEF ProcessAppointmentReminder, TypeOK
<1>5. CASE SkipAppointmentReminder(q)
  <2>1. sched' \in [Schedulers -> Scheduler]
    BY <1>3, <1>5 DEF SkipAppointmentReminder, TypeOK
  <2> QED
    BY <1>5, <2>1 DEF SkipAppointmentReminder, TypeOK
<1>6. CASE EndReminders(q)
  <2>1. IdleScheduler \in Scheduler
    BY DEF IdleScheduler, Scheduler
  <2> QED
    BY <1>6, <2>1 DEF EndReminders, TypeOK
<1> QED
  BY <1>2, <1>4, <1>5, <1>6

----------------------------------------------------------------------------
(* The work: rows, workers and messages *)

\* A step that leaves the workers alone and moves one row that nobody needs.
LEMMA RowStep ==
    ASSUME WorkInv, UNCHANGED <<worker, mails, faults>>, NEW k \in Key, 
           \A j \in Key \ {k} : row'[j] = row[j],
           \/ row'[k] = row[k]
           \/ /\ row[k].status = "NONE" /\ row'[k].status = "PENDING" 
              /\ row'[k].tries = row[k].tries
           \/ row[k].status = "PROCESSING" /\ row'[k].status = "UNCERTAIN"
    PROVE  WorkInv'
<1>1. \A w \in Workers : WorkerInv(w)'
  BY DEF WorkInv, WorkerInv, Busy, Owned
<1>2. \A v, w \in Workers : v # w => Apart(v, w)'
  BY DEF WorkInv, Apart, Busy
<1>3. \A j \in Key : RowInv(j)'
  BY DEF WorkInv, RowInv
<1> QED
  BY <1>1, <1>2, <1>3 DEF WorkInv

SameRow(k) == row'[k] = row[k] /\ mails'[k] = mails[k] /\ faults'[k] = faults[k]

\* A step of one worker, on the row it has claimed or claims.
LEMMA WorkerStep ==
    ASSUME TypeOK, WorkInv, NEW w \in Workers, NEW x \in Worker,
           worker' = [worker EXCEPT ![w] = x], NEW k \in Key, 
           \A j \in Key \ {k} : SameRow(j),
           \/ Busy(w) /\ worker[w].key = k
           \/ row[k].status = "PENDING"
           \/ SameRow(k),
           WorkerInv(w)', RowInv(k)', 
           Busy(w)' => \/ Busy(w) /\ x.key = worker[w].key
                       \/ row[x.key].status = "PENDING"
    PROVE  WorkInv'
<1>1. worker'[w] = x /\ \A v \in Workers \ {w} : worker'[v] = worker[v]
  BY DEF TypeOK
<1>2. ASSUME NEW v \in Workers \ {w} PROVE WorkerInv(v)'
  <2>1. WorkerInv(v) /\ Apart(v, w) /\ worker'[v] = worker[v]
    BY <1>1 DEF WorkInv
  <2>2. CASE Busy(v)
    <3>1. worker[v].key \in Key /\ row[worker[v].key].status \in Owned
      BY <2>1, <2>2 DEF WorkerInv
    <3>2. SameRow(worker[v].key)
      BY <2>1, <2>2, <3>1 DEF Apart, Owned
    <3> QED
      BY <2>1, <3>1, <3>2 DEF WorkerInv, Busy, SameRow
  <2>3. CASE ~Busy(v)
    BY <2>1, <2>3 DEF WorkerInv, Busy
  <2> QED
    BY <2>2, <2>3
<1>3. ASSUME NEW v \in Workers \ {w} PROVE Apart(v, w)' /\ Apart(w, v)'
  <2>1. Busy(v)' => Busy(v) /\ row[worker[v].key].status \in Owned /\ Apart(v, w)
    BY <1>1 DEF WorkInv, WorkerInv, Busy
  <2> QED
    BY <1>1, <2>1 DEF Apart, Busy, Owned
<1>4. \A u, v \in Workers : u # v => Apart(u, v)'
  BY <1>1, <1>3 DEF WorkInv, Apart, Busy
<1>5. \A j \in Key : RowInv(j)'
  BY DEF WorkInv, RowInv, SameRow
<1> QED
  BY <1>2, <1>4, <1>5 DEF WorkInv

\* What a busy worker goes by.
LEMMA BusyReads ==
    ASSUME TypeOK, WorkInv, NEW w \in Workers
    PROVE  /\ worker[w] \in Worker 
           /\ Busy(w) => /\ worker[w].key \in Key /\ row[worker[w].key] \in Row
                         /\ row[worker[w].key].status \in Owned
                         /\ mails[worker[w].key] \in Nat /\ faults[worker[w].key] \in Nat
                         /\ RowInv(worker[w].key) /\ WorkerInv(w)
<1>1. worker[w] \in Worker /\ WorkerInv(w)
  BY DEF TypeOK, WorkInv
<1> QED
  BY <1>1 DEF TypeOK, WorkInv, WorkerInv

\* A worker goes on with its row: nothing happens to the message, the server takes it, or a
\* fault hides that it took it.
LEMMA GotoWork ==
    ASSUME TypeOK, WorkInv, NEW w \in Workers, Busy(w),
           NEW at \in {"cancel", "send", "markSent", "markFailure"}, Goto(w, at), UNCHANGED row,
           NEW k \in Key, k = worker[w].key,
           \/ at # "markSent" /\ worker[w].pc # "markSent" /\ UNCHANGED <<mails, faults>>
           \/ at = "markSent" /\ worker[w].pc = "send" /\ Accept(w) /\ UNCHANGED faults
           \/ at # "markSent" /\ worker[w].pc = "send" /\ Accept(w) /\ Fault(w)
           \/ at # "markSent" /\ worker[w].pc = "markSent" /\ UNCHANGED mails /\ Fault(w)
    PROVE  /\ WorkInv' /\ worker' \in [Workers -> Worker] 
           /\ mails' \in [Key -> Nat] /\ faults' \in [Key -> Nat]
<1> DEFINE x == [worker[w] EXCEPT !.pc = at]
<1>1. x \in Worker /\ x.pc = at /\ x.key = k /\ worker' = [worker EXCEPT ![w] = x]
  BY BusyReads DEF Worker, Goto
<1> HIDE DEF x
<1>2. worker'[w] = x /\ worker' \in [Workers -> Worker]
  BY <1>1 DEF TypeOK
<1>3. mails \in [Key -> Nat] /\ faults \in [Key -> Nat]
  BY DEF TypeOK
<1>4. /\ UNCHANGED mails \/ mails' = [mails EXCEPT ![k] = mails[k] + 1]
      /\ UNCHANGED faults \/ faults' = [faults EXCEPT ![k] = faults[k] + 1]
  BY DEF Accept, Fault
<1>5. /\ mails' \in [Key -> Nat] /\ faults' \in [Key -> Nat] 
      /\ \A j \in Key \ {k} : SameRow(j)
  BY <1>3, <1>4 DEF SameRow
<1>6. /\ worker[w].pc = "markSent" => mails[k] = 1 + faults[k]
      /\ worker[w].pc # "markSent" => mails[k] = faults[k]
  BY BusyReads DEF WorkerInv
<1>7. /\ Accept(w) => mails'[k] = mails[k] + 1
      /\ Fault(w) => faults'[k] = faults[k] + 1
  BY <1>3 DEF Accept, Fault
<1>8. mails[k] \in Nat /\ faults[k] \in Nat
  BY <1>3
<1>9. /\ at = "markSent" => mails'[k] = 1 + faults'[k]
      /\ at # "markSent" => mails'[k] = faults'[k]
  BY <1>6, <1>7, <1>8
<1>10. WorkerInv(w)'
  BY <1>1, <1>2, <1>9, BusyReads DEF WorkerInv, Busy
<1>11. RowInv(k)'
  <2>1. mails'[k] <= 1 + faults'[k]
    BY <1>5, <1>9
  <2>2. row[k].status \in Owned
    BY BusyReads
  <2> QED
    BY <2>1, <2>2 DEF RowInv, Owned
<1>12. WorkInv'
  BY <1>1, <1>2, <1>5, <1>10, <1>11, WorkerStep
<1> QED
  BY <1>2, <1>5, <1>12

LEMMA SetOwnedWork ==
    ASSUME TypeOK, WorkInv, NEW w \in Workers, Busy(w), NEW k \in Key, k = worker[w].key,
           NEW status \in {"PENDING", "SENT", "FAILED", "CANCELED"}, SetOwned(w, status), 
           NextReminder(w), UNCHANGED <<mails, faults>>,
           status = "PENDING" => mails[k] = faults[k] /\ worker[w].tries < MaxAttempts
    PROVE  /\ WorkInv' /\ worker' \in [Workers -> Worker] /\ row' \in [Key -> Row]
           /\ \A j \in Key \ {k} : row'[j] = row[j]
           /\ UNCHANGED row \/ (Owns(w) /\ row'[k].status = status)
<1> DEFINE x == [worker[w] EXCEPT !.pc = "claim", !.key = None, !.tries = 0]
<1>1. x \in Worker /\ x.pc = "claim" /\ worker' = [worker EXCEPT ![w] = x]
  <2>1. 0 \in 0..MaxAttempts /\ worker[w] \in Worker
    BY BusyReads
  <2>2. worker' = [worker EXCEPT ![w] = x]
    BY DEF NextReminder
  <2> QED
    BY <2>1, <2>2 DEF Worker
<1> HIDE DEF x
<1>2. worker'[w] = x /\ worker' \in [Workers -> Worker]
  BY <1>1 DEF TypeOK
<1>3. WorkerInv(w)' /\ ~Busy(w)'
  BY <1>1, <1>2 DEF WorkerInv, Busy
<1>4. CASE Owns(w)
  <2>1. row[k] \in Row /\ row[k].tries = worker[w].tries /\ row \in [Key -> Row]
    BY <1>4 DEF Owns, TypeOK
  <2>2. row' = [row EXCEPT ![k].status = status]
    BY <1>4 DEF SetOwned
  <2>3. /\ row' \in [Key -> Row] /\ row'[k].status = status /\ row'[k].tries = row[k].tries
        /\ \A j \in Key \ {k} : row'[j] = row[j]
    BY <2>1, <2>2 DEF Row
  <2>4. RowInv(k)'
    BY <2>1, <2>3, BusyReads DEF RowInv
  <2> QED
    BY <1>1, <1>2, <1>3, <1>4, <2>3, <2>4, WorkerStep DEF SameRow
<1>5. CASE ~Owns(w)
  <2>1. UNCHANGED row
    BY <1>5 DEF SetOwned
  <2>2. RowInv(k)'
    BY <2>1, BusyReads DEF RowInv
  <2> QED
    BY <1>1, <1>2, <1>3, <2>1, <2>2, WorkerStep DEF TypeOK, SameRow
<1> QED
  BY <1>4, <1>5

LEMMA ClaimWork ==
    ASSUME TypeOK, WorkInv, NEW w \in Workers, ClaimReminder(w)
    PROVE  TypeOK' /\ WorkInv' /\ \A k \in Key : row'[k] # row[k] => 
               row[k].status # "NONE" /\ row'[k].status = "PROCESSING"
<1>1. PICK k \in Key :
        /\ worker[w].pc = "claim"
        /\ row[k].status = "PENDING"
        /\ row' = [row EXCEPT ![k] = [status |-> "PROCESSING", tries |-> @.tries + 1]]
        /\ worker' = [worker EXCEPT ![w] = [@ EXCEPT !.pc = "validate", !.key = k,
                                                     !.tries = row[k].tries + 1]]
  BY DEF ClaimReminder
<1>2. RowInv(k) /\ row[k] \in Row /\ worker[w] \in Worker /\ row[k].tries < MaxAttempts
  BY <1>1 DEF WorkInv, TypeOK, RowInv
<1>3. PICK n \in 0..MaxAttempts : n = row[k].tries + 1
  <2>1. row[k].tries \in 0..MaxAttempts /\ MaxAttempts \in Nat
    BY <1>2 DEF Row
  <2>2. row[k].tries + 1 \in 0..MaxAttempts
    BY <1>2, <2>1
  <2> QED
    BY <2>2
<1> DEFINE x == [worker[w] EXCEPT !.pc = "validate", !.key = k, !.tries = n]
           y == [status |-> "PROCESSING", tries |-> n]
<1>4. x \in Worker /\ x.pc = "validate" /\ x.key = k
  BY <1>2 DEF Worker
<1>5. y \in Row /\ y.status = "PROCESSING"
  BY DEF Row
<1>6. row' = [row EXCEPT ![k] = y] /\ worker' = [worker EXCEPT ![w] = x]
  BY <1>1, <1>3
<1> HIDE DEF x, y
<1>7. TypeOK'
  BY <1>4, <1>5, <1>6 DEF ClaimReminder, TypeOK
<1>8. /\ worker'[w] = x /\ row'[k] = y /\ UNCHANGED <<mails, faults>>
      /\ \A j \in Key \ {k} : SameRow(j)
  BY <1>6 DEF ClaimReminder, TypeOK, SameRow
<1>9. WorkerInv(w)'
  BY <1>1, <1>2, <1>4, <1>5, <1>8 DEF WorkerInv, RowInv, Owned
<1>10. RowInv(k)'
  BY <1>2, <1>5, <1>8 DEF RowInv
<1>11. WorkInv'
  BY <1>1, <1>4, <1>6, <1>8, <1>9, <1>10, WorkerStep
<1> QED
  BY <1>1, <1>5, <1>7, <1>8, <1>11

\* Which steps keep the work in order, and what they do to the rows.
LEMMA WorkerWork ==
    ASSUME TypeOK, WorkInv, NEW w \in Workers,
           \/ StartBatch(w) \/ EndBatch(w) \/ Validate(w) \/ CancelDelivery(w) \/ SmtpAccepts(w)
           \/ SmtpRefuses(w) \/ SmtpClosesInData(w) \/ MarkSent(w) \/ MarkSentFails(w)
           \/ MarkFailure(w)
    PROVE  /\ WorkInv' /\ worker' \in [Workers -> Worker] /\ row' \in [Key -> Row]
           /\ mails' \in [Key -> Nat] /\ faults' \in [Key -> Nat]
<1>1. /\ row \in [Key -> Row] /\ mails \in [Key -> Nat] /\ faults \in [Key -> Nat] 
      /\ worker[w] \in Worker /\ clock \in Nat
  BY DEF TypeOK
<1>2. CASE StartBatch(w) \/ EndBatch(w)
  <2>1. PICK x \in Worker : worker' = [worker EXCEPT ![w] = x] /\ x.pc \in {"idle", "claim"}
    <3>1. 0 \in 0..MaxAttempts /\ None \in Key \cup {None}
      OBVIOUS
    <3>2. /\ [IdleWorker EXCEPT !.pc = "claim", !.now = clock] \in Worker
          /\ IdleWorker \in Worker
      BY <1>1, <3>1 DEF IdleWorker, Worker
    <3>3. /\ [IdleWorker EXCEPT !.pc = "claim", !.now = clock].pc = "claim"
          /\ IdleWorker.pc = "idle"
      BY DEF IdleWorker
    <3> QED
      BY <1>2, <3>2, <3>3 DEF StartBatch, EndBatch
  <2>2. worker'[w] = x /\ worker' \in [Workers -> Worker] /\ UNCHANGED <<row, mails, faults>>
    BY <1>2, <2>1 DEF TypeOK, StartBatch, EndBatch
  <2>3. /\ \A v \in Workers \ {w} : worker'[v] = worker[v]
        /\ ~Busy(w)'
    BY <2>1, <2>2 DEF TypeOK, Busy
  <2>4. WorkInv'
    <3>1. \A v \in Workers : WorkerInv(v)'
      BY <2>2, <2>3 DEF WorkInv, WorkerInv, Busy
    <3>2. \A u, v \in Workers : u # v => Apart(u, v)'
      BY <2>3 DEF WorkInv, Apart, Busy
    <3>3. \A k \in Key : RowInv(k)'
      BY <2>2 DEF WorkInv, RowInv
    <3> QED
      BY <3>1, <3>2, <3>3 DEF WorkInv
  <2> QED
    BY <1>1, <2>2, <2>4
<1>3. CASE ~(StartBatch(w) \/ EndBatch(w))
  <2>1. Busy(w)
    BY <1>3 DEF Validate, CancelDelivery, SmtpAccepts, SmtpRefuses, SmtpClosesInData,
              MarkSent, MarkSentFails, MarkFailure, Busy
  <2>2. PICK k \in Key : k = worker[w].key
    BY <2>1, BusyReads
  <2>3. worker[w].pc # "markSent" => mails[k] = faults[k]
    BY <2>1, <2>2, BusyReads DEF WorkerInv
  <2>4. CASE Validate(w)
    BY <1>1, <2>1, <2>2, <2>4, GotoWork DEF Validate
  <2>5. CASE SmtpAccepts(w)
    BY <1>1, <2>1, <2>2, <2>5, GotoWork DEF SmtpAccepts
  <2>6. CASE SmtpRefuses(w)
    BY <1>1, <2>1, <2>2, <2>6, GotoWork DEF SmtpRefuses
  <2>10. CASE SmtpClosesInData(w)
    BY <1>1, <2>1, <2>2, <2>10, GotoWork DEF SmtpClosesInData
  <2>11. CASE MarkSentFails(w)
    BY <1>1, <2>1, <2>2, <2>11, GotoWork DEF MarkSentFails
  <2>7. CASE CancelDelivery(w)
    BY <1>1, <2>1, <2>2, <2>7, SetOwnedWork DEF CancelDelivery
  <2>8. CASE MarkSent(w)
    BY <1>1, <2>1, <2>2, <2>8, SetOwnedWork DEF MarkSent
  <2>9. CASE MarkFailure(w)
    <3>1. worker[w].tries \in Nat
      BY <1>1 DEF Worker
    <3>2. CASE worker[w].tries >= MaxAttempts
      <4>1. SetOwned(w, "FAILED")
        BY <2>9, <3>2 DEF MarkFailure
      <4> QED
        BY <1>1, <2>1, <2>2, <2>9, <4>1, SetOwnedWork DEF MarkFailure
    <3>3. CASE worker[w].tries < MaxAttempts
      <4>1. SetOwned(w, "PENDING")
        BY <2>9, <3>1, <3>3 DEF MarkFailure
      <4> QED
        BY <1>1, <2>1, <2>2, <2>3, <2>9, <3>3, <4>1, SetOwnedWork DEF MarkFailure
    <3> QED
      BY <3>1, <3>2, <3>3
  <2> QED
    BY <1>3, <2>4, <2>5, <2>6, <2>7, <2>8, <2>9, <2>10, <2>11
<1> QED
  BY <1>2, <1>3

LEMMA WorkerKeeps ==
    ASSUME TypeOK, WorkInv, NEW w \in Workers,
           \/ StartBatch(w) \/ EndBatch(w) \/ Validate(w) \/ CancelDelivery(w) \/ SmtpAccepts(w)
           \/ SmtpRefuses(w) \/ SmtpClosesInData(w) \/ MarkSent(w) \/ MarkSentFails(w)
           \/ MarkFailure(w)
    PROVE  TypeOK'
<1>1. /\ WorkInv' /\ worker' \in [Workers -> Worker] /\ row' \in [Key -> Row] 
      /\ mails' \in [Key -> Nat] /\ faults' \in [Key -> Nat]
  BY WorkerWork
<1>2. appt' \in [Appointments -> Appointment]
  <2>1. CASE MarkSent(w)
    <3>1. worker[w].key \in Key
      BY <2>1, BusyReads DEF MarkSent, Busy
    <3>2. worker[w].key[1] \in Appointments /\ appt[worker[w].key[1]] \in Appointment
      BY <3>1, Keys DEF TypeOK
    <3>3. [appt[worker[w].key[1]] EXCEPT !.sent = TRUE] \in Appointment
      BY <3>2 DEF Appointment
    <3> QED
      BY <2>1, <3>2, <3>3 DEF MarkSent, TypeOK
  <2> QED
    BY <2>1 DEF StartBatch, EndBatch, Validate, CancelDelivery, SmtpAccepts, SmtpRefuses, 
                SmtpClosesInData, MarkSentFails, MarkFailure, TypeOK
<1> QED
  BY <1>1, <1>2 DEF TypeOK, StartBatch, EndBatch, Validate, CancelDelivery, SmtpAccepts,
                    SmtpRefuses, SmtpClosesInData, MarkSent, MarkSentFails, MarkFailure

LEMMA JobWork ==
    ASSUME TypeOK, WorkInv, NEW q \in Schedulers,
           \/ ProcessDueReminders(q) \/ ProcessAppointmentReminder(q)
           \/ SkipAppointmentReminder(q) \/ EndReminders(q)
    PROVE  WorkInv'
<1>1. CASE UNCHANGED <<worker, mails, faults, row>>
  BY <1>1 DEF WorkInv, WorkerInv, Apart, RowInv, Busy
<1>2. CASE ProcessAppointmentReminder(q)
  <2>1. PICK a \in sched[q].todo : 
           UNCHANGED row \/ (row[<<a, appt[a].start>>].status = "NONE" /\
               row' = [row EXCEPT ![<<a, appt[a].start>>].status = "PENDING"])
    BY <1>2 DEF ProcessAppointmentReminder, NotifyReminder, Upsert
  <2>2. PICK k \in Key : k = <<a, appt[a].start>>
    BY DEF TypeOK, Scheduler, Appointment, Key
  <2>3. row[k] \in Row /\ row \in [Key -> Row] /\ UNCHANGED <<worker, mails, faults>>
    BY <1>2 DEF TypeOK, ProcessAppointmentReminder
  <2>4. CASE row' = [row EXCEPT ![k].status = "PENDING"] /\ row[k].status = "NONE"
    <3>1. /\ row'[k].status = "PENDING" /\ row'[k].tries = row[k].tries
          /\ \A j \in Key \ {k} : row'[j] = row[j]
      BY <2>3, <2>4 DEF Row
    <3> QED
      BY <2>3, <2>4, <3>1, RowStep
  <2> QED
    BY <1>1, <2>1, <2>2, <2>3, <2>4
<1> QED
  BY <1>1, <1>2 DEF ProcessDueReminders, SkipAppointmentReminder, EndReminders

LEMMA GiveUpWork ==
    ASSUME TypeOK, WorkInv, GiveUpUncertain
    PROVE  TypeOK' /\ WorkInv'
<1>1. PICK k \in Key : 
         row[k].status = "PROCESSING" /\ row' = [row EXCEPT ![k].status = "UNCERTAIN"]
  BY DEF GiveUpUncertain
<1>2. row[k] \in Row /\ row \in [Key -> Row] /\ UNCHANGED <<worker, mails, faults>>
  BY DEF TypeOK, GiveUpUncertain
<1>3. /\ row' \in [Key -> Row] /\ row'[k].status = "UNCERTAIN" 
      /\ \A j \in Key \ {k} : row'[j] = row[j]
  BY <1>1, <1>2 DEF Row
<1>4. WorkInv'
  BY <1>1, <1>2, <1>3, RowStep
<1> QED
  BY <1>3, <1>4 DEF GiveUpUncertain, TypeOK

----------------------------------------------------------------------------
(* The marker *)

\* A step that changes neither appointments nor requests, and sends no row.
LEMMA StillMarked ==
    ASSUME TypeOK, MarkInv, UNCHANGED <<appt, left, lost, req>>,
           \A k \in Key : mails'[k] >= mails[k],
           mails \in [Key -> Nat], mails' \in [Key -> Nat],
           \A k \in Key : /\ row'[k].status = "SENT" => row[k].status = "SENT"
                          /\ row'[k].status # "NONE" => row[k].status # "NONE"
    PROVE  MarkInv'
<1>1. \A k \in Key : PreparedInv(k)' /\ Marked(k)'
  BY DEF MarkInv, PreparedInv, Marked
<1>2. \A r \in Requests : ConfirmInv(r)'
  BY DEF MarkInv, ConfirmInv
<1>3. MarkerMeansSent'
  <2> SUFFICES ASSUME NEW a \in Appointments \ lost, appt[a].sent 
               PROVE  mails'[<<a, appt[a].start>>] > 0
    BY DEF MarkerMeansSent
  <2>1. <<a, appt[a].start>> \in Key /\ mails[<<a, appt[a].start>>] > 0
    BY DEF MarkInv, MarkerMeansSent, TypeOK, Appointment, Key
  <2> QED
    BY <2>1
<1> QED
  BY <1>1, <1>2, <1>3 DEF MarkInv

\* Preparing a reminder: the appointment is confirmed, at the start of the row.
LEMMA PrepareMark ==
    ASSUME TypeOK, MarkInv, NEW q \in Schedulers, ProcessAppointmentReminder(q)
    PROVE  MarkInv'
<1>1. UNCHANGED <<appt, mails, left, lost, req>>
  BY DEF ProcessAppointmentReminder
<1>2. CASE UNCHANGED row
  BY <1>1, <1>2, StillMarked DEF TypeOK
<1>3. CASE ~UNCHANGED row
  <2>1. PICK a \in sched[q].todo : 
           /\ Due(a, sched[q].now)
           /\ row[<<a, appt[a].start>>].status = "NONE"
           /\ row' = [row EXCEPT ![<<a, appt[a].start>>].status = "PENDING"]
    BY <1>3 DEF ProcessAppointmentReminder, NotifyReminder, Upsert
  <2>2. PICK k \in Key : k = <<a, appt[a].start>>
    BY DEF TypeOK, Scheduler, Appointment, Key
  <2>3. row[k] \in Row /\ row \in [Key -> Row]
    BY DEF TypeOK
  <2>4. row'[k].status = "PENDING" /\ \A j \in Key \ {k} : row'[j] = row[j]
    BY <2>1, <2>2, <2>3 DEF Row
  <2>5. \A j \in Key : PreparedInv(j)' /\ Marked(j)'
    <3>1. PreparedInv(k)' /\ Marked(k)'
      BY <1>1, <2>1, <2>2, <2>4 DEF Due, PreparedInv, Marked
    <3>2. ASSUME NEW j \in Key \ {k} PROVE PreparedInv(j)' /\ Marked(j)'
      BY <1>1, <2>4 DEF MarkInv, PreparedInv, Marked
    <3> QED
      BY <3>1, <3>2
  <2> QED
    BY <1>1, <2>5 DEF MarkInv, ConfirmInv, MarkerMeansSent
<1> QED
  BY <1>2, <1>3

\* A message that was sent marks the appointment if it still is where it was.
LEMMA MarkSentMark ==
    ASSUME TypeOK, WorkInv, MarkInv, NEW w \in Workers, MarkSent(w)
    PROVE  MarkInv'
<1>1. Busy(w) /\ UNCHANGED <<mails, left, lost, req>>
  BY DEF MarkSent, Busy
<1>2. PICK k \in Key : k = worker[w].key
  BY <1>1, BusyReads
<1>3. /\ mails[k] > 0 /\ row[k].status \in Owned
      /\ k = <<k[1], k[2]>> /\ k[1] \in Appointments
      /\ appt \in [Appointments -> Appointment]
  BY <1>1, <1>2, BusyReads, Keys DEF MarkSent, WorkerInv, TypeOK
<1>4. /\ \A j \in Key \ {k} : row'[j] = row[j]
      /\ UNCHANGED row \/ Owns(w)
  BY <1>1, <1>2, SetOwnedWork DEF MarkSent
<1>5. /\ \A a \in Appointments \ {k[1]} : appt'[a] = appt[a]
      /\ appt'[k[1]].start = appt[k[1]].start /\ appt'[k[1]].status = appt[k[1]].status
      /\ \A a \in Appointments : appt[a].sent => appt'[a].sent
      /\ appt'[k[1]].sent => appt[k[1]].sent \/ appt[k[1]].start = k[2]
      /\ Owns(w) /\ appt[k[1]].status = "CONFIRMED" /\ appt[k[1]].start = k[2] => appt'[k[1]].sent
  BY <1>2, <1>3 DEF MarkSent, Appointment
<1>6. ASSUME NEW j \in Key PROVE PreparedInv(j)'
  <2>1. /\ appt'[j[1]].start = appt[j[1]].start /\ appt'[j[1]].status = appt[j[1]].status
        /\ row'[j].status # "NONE" => row[j].status # "NONE"
    BY <1>3, <1>4, <1>5, Keys DEF Owned
  <2> QED
    BY <1>1, <2>1 DEF MarkInv, PreparedInv
<1>7. ASSUME NEW j \in Key PROVE Marked(j)'
  <2>1. /\ appt'[j[1]].start = appt[j[1]].start /\ appt'[j[1]].status = appt[j[1]].status
        /\ appt[j[1]].sent => appt'[j[1]].sent
    BY <1>5, Keys
  <2>2. CASE row'[j] = row[j]
    BY <1>1, <2>1, <2>2 DEF MarkInv, Marked
  <2>3. CASE j = k /\ Owns(w)
    BY <1>1, <1>5, <2>3 DEF Marked
  <2> QED
    BY <1>4, <2>2, <2>3
<1>8. MarkerMeansSent'
  <2> SUFFICES ASSUME NEW a \in Appointments \ lost, appt'[a].sent 
               PROVE  mails[<<a, appt'[a].start>>] > 0
    BY <1>1 DEF MarkerMeansSent
  <2>1. CASE appt[a].sent
    BY <1>5, <2>1 DEF MarkInv, MarkerMeansSent
  <2>2. CASE ~appt[a].sent
    <3>1. a = k[1] /\ appt'[a].start = k[2]
      BY <1>5, <2>2
    <3> QED
      BY <1>3, <3>1
  <2> QED
    BY <2>1, <2>2
<1> QED
  BY <1>1, <1>6, <1>7, <1>8 DEF MarkInv, ConfirmInv

LEMMA StatusMark ==
    ASSUME TypeOK, MarkInv, NEW r \in Requests, CommitStatus(r)
    PROVE  MarkInv'
<1>1. PICK x \in Request : x = req[r] /\ x.op = "status" /\ x.pc = "write"
  BY ReadRequest DEF CommitStatus
<1>2. /\ x.id \in Appointments /\ x.status \in {"CONFIRMED", "COMPLETED", "CANCELED", "NO_SHOW"}
      /\ appt[x.id] \in Appointment /\ appt \in [Appointments -> Appointment]
  BY DEF Request, TypeOK
<1>3. /\ \A a \in Appointments \ {x.id} : appt'[a] = appt[a]
      /\ appt'[x.id].status = x.status /\ appt'[x.id].start = appt[x.id].start
      /\ appt'[x.id].sent = appt[x.id].sent
  BY <1>1, <1>2 DEF CommitStatus, Appointment
<1>4. UNCHANGED <<row, mails, left>> /\ lost \subseteq lost'
  BY DEF CommitStatus, Lost
<1>5. x.id \notin lost' /\ x.status = "CONFIRMED" => appt[x.id].status = "PENDING"
  <2>1. x.status = "CONFIRMED" => x.was = "PENDING"
    BY <1>1 DEF MarkInv, ConfirmInv
  <2>2. x.id \notin lost' => appt[x.id].status = x.was
    BY <1>1 DEF CommitStatus, Lost, Overwrites
  <2> QED
    BY <2>1, <2>2
<1>6. ASSUME NEW k \in Key PROVE PreparedInv(k)' /\ Marked(k)'
  <2>1. k[1] \in Appointments /\ PreparedInv(k) /\ Marked(k)
    BY Keys DEF MarkInv
  <2>2. CASE k[1] = x.id
    BY <1>2, <1>3, <1>4, <1>5, <2>1, <2>2 DEF PreparedInv, Marked
  <2>3. CASE k[1] # x.id
    BY <1>3, <1>4, <2>1, <2>3 DEF PreparedInv, Marked
  <2> QED
    BY <2>2, <2>3
<1>7. ASSUME NEW q \in Requests PROVE ConfirmInv(q)'
  BY DEF MarkInv, ConfirmInv, CommitStatus, DoneRequest, TypeOK
<1>8. MarkerMeansSent'
  <2> SUFFICES ASSUME NEW a \in Appointments \ lost', appt'[a].sent 
               PROVE  mails[<<a, appt'[a].start>>] > 0
    BY <1>4 DEF MarkerMeansSent
  <2>1. a \in Appointments \ lost /\ appt'[a].sent = appt[a].sent /\ appt'[a].start = appt[a].start
    BY <1>3, <1>4
  <2> QED
    BY <2>1 DEF MarkInv, MarkerMeansSent
<1> QED
  BY <1>6, <1>7, <1>8 DEF MarkInv

LEMMA RescheduleMark ==
    ASSUME TypeOK, MarkInv, NEW r \in Requests, CommitReschedule(r)
    PROVE  MarkInv'
<1>1. PICK x \in Request : x = req[r] /\ x.op = "reschedule" /\ x.pc = "write"
  BY ReadRequest DEF CommitReschedule
<1>2. /\ x.id \in Appointments
      /\ appt[x.id] \in Appointment /\ appt \in [Appointments -> Appointment]
  BY DEF Request, TypeOK
<1>3. /\ \A a \in Appointments \ {x.id} : appt'[a] = appt[a]
      /\ appt'[x.id].status = appt[x.id].status /\ appt'[x.id].start = x.start
      /\ appt'[x.id].sent => appt[x.id].sent /\ x.start = x.seen
      /\ appt[x.id].sent /\ x.start = x.seen => appt'[x.id].sent
  BY <1>1, <1>2 DEF CommitReschedule, Appointment
<1>4. UNCHANGED <<row, mails>> /\ lost \subseteq lost' /\ left \subseteq left'
  BY DEF CommitReschedule, Lost
<1>5. x.id \notin lost' => appt[x.id].start = x.seen
  BY <1>1 DEF CommitReschedule, Lost, Overwrites
<1>6. x.start # appt[x.id].start => <<x.id, appt[x.id].start>> \in left'
  BY <1>1 DEF CommitReschedule
<1>7. ASSUME NEW k \in Key PROVE PreparedInv(k)' /\ Marked(k)'
  <2>1. k[1] \in Appointments /\ k = <<k[1], k[2]>> /\ PreparedInv(k) /\ Marked(k)
    BY Keys DEF MarkInv
  <2>2. CASE k[1] = x.id
    BY <1>3, <1>4, <1>5, <1>6, <2>1, <2>2 DEF PreparedInv, Marked
  <2>3. CASE k[1] # x.id
    BY <1>3, <1>4, <2>1, <2>3 DEF PreparedInv, Marked
  <2> QED
    BY <2>2, <2>3
<1>8. ASSUME NEW q \in Requests PROVE ConfirmInv(q)'
  BY DEF MarkInv, ConfirmInv, CommitReschedule, DoneRequest, TypeOK
<1>9. MarkerMeansSent'
  <2> SUFFICES ASSUME NEW a \in Appointments \ lost', appt'[a].sent 
               PROVE  mails[<<a, appt'[a].start>>] > 0
    BY <1>4 DEF MarkerMeansSent
  <2>1. a \in Appointments \ lost /\ appt[a].sent /\ appt'[a].start = appt[a].start
    BY <1>3, <1>4, <1>5
  <2> QED
    BY <2>1 DEF MarkInv, MarkerMeansSent
<1> QED
  BY <1>7, <1>8, <1>9 DEF MarkInv

\* Requests that begin, and the settings.
LEMMA OtherRequestsMark ==
    ASSUME TypeOK, MarkInv, NEW r \in Requests, 
           BeginStatus(r) \/ BeginReschedule(r) \/ BeginSettings(r) \/ CommitSettings(r)
    PROVE  MarkInv'
<1>1. UNCHANGED <<appt, row, mails, left, lost>>
  BY DEF BeginStatus, BeginReschedule, BeginSettings, Begin, CommitSettings
<1>2. \A q \in Requests : ConfirmInv(q)'
  <2>1. CASE CommitSettings(r)
    BY <2>1 DEF MarkInv, ConfirmInv, CommitSettings, DoneRequest, TypeOK
  <2>2. CASE ~CommitSettings(r)
    <3>1. PICK x \in Request : 
             /\ Begin(r, x)
             /\ x.op = "status" /\ x.status = "CONFIRMED" => x.was = "PENDING"
      BY <2>2, BeginType
    <3>2. req'[r] = x /\ \A q \in Requests \ {r} : req'[q] = req[q]
      BY <3>1 DEF Begin, TypeOK
    <3> QED
      BY <3>1, <3>2 DEF MarkInv, ConfirmInv
  <2> QED
    BY <2>1, <2>2
<1> QED
  BY <1>1, <1>2 DEF MarkInv, PreparedInv, Marked, MarkerMeansSent

LEMMA QuietMark ==
    ASSUME TypeOK, WorkInv, MarkInv, mails' \in [Key -> Nat],
           \/ Tick \/ GiveUpUncertain
           \/ \E q \in Schedulers : ProcessDueReminders(q) \/ SkipAppointmentReminder(q) 
                                       \/ EndReminders(q)
           \/ \E w \in Workers : \/ StartBatch(w) \/ EndBatch(w) \/ ClaimReminder(w) \/ Validate(w)
                                 \/ CancelDelivery(w) \/ SmtpAccepts(w) \/ SmtpRefuses(w)
                                 \/ SmtpClosesInData(w) \/ MarkSentFails(w) \/ MarkFailure(w)
    PROVE  MarkInv'
<1>1. UNCHANGED <<appt, left, lost, req>>
  BY DEF Tick, GiveUpUncertain, ProcessDueReminders, SkipAppointmentReminder, EndReminders,
         StartBatch, EndBatch, ClaimReminder, Validate, CancelDelivery, SmtpAccepts, SmtpRefuses,
         SmtpClosesInData, MarkSentFails, MarkFailure
<1>2. row \in [Key -> Row] /\ mails \in [Key -> Nat]
  BY DEF TypeOK
<1>3. CASE UNCHANGED <<row, mails>>
  BY <1>1, <1>2, <1>3, StillMarked
<1>4. CASE GiveUpUncertain
  <2>1. PICK k \in Key : 
           row[k].status = "PROCESSING" /\ row' = [row EXCEPT ![k].status = "UNCERTAIN"]
    BY <1>4 DEF GiveUpUncertain
  <2>2. row[k] \in Row
    BY <1>2
  <2>3. row'[k].status = "UNCERTAIN" /\ \A j \in Key \ {k} : row'[j] = row[j]
    BY <1>2, <2>1, <2>2 DEF Row
  <2>4. UNCHANGED mails
    BY <1>4 DEF GiveUpUncertain
  <2> QED
    BY <1>1, <1>2, <2>1, <2>3, <2>4, StillMarked
<1>5. ASSUME NEW w \in Workers, ClaimReminder(w) PROVE MarkInv'
  <2>1. UNCHANGED mails /\ \A k \in Key : row'[k] # row[k] => 
               row[k].status # "NONE" /\ row'[k].status = "PROCESSING"
    BY <1>5, ClaimWork DEF ClaimReminder
  <2> QED
    BY <1>1, <1>2, <2>1, StillMarked
<1>6. ASSUME NEW w \in Workers, CancelDelivery(w) \/ MarkFailure(w) PROVE MarkInv'
  <2>1. Busy(w) /\ UNCHANGED mails
    BY <1>6 DEF CancelDelivery, MarkFailure, Busy
  <2>2. PICK k \in Key : k = worker[w].key /\ row[k].status # "NONE" /\ row[k] \in Row
    BY <2>1, BusyReads DEF Owned
  <2>3. PICK status \in {"CANCELED", "FAILED", "PENDING"} : SetOwned(w, status)
    <3>1. CASE CancelDelivery(w)
      BY <3>1 DEF CancelDelivery
    <3>2. CASE MarkFailure(w)
      BY <3>2 DEF MarkFailure
    <3> QED
      BY <1>6, <3>1, <3>2
  <2>4. UNCHANGED row \/ row' = [row EXCEPT ![k].status = status]
    BY <2>2, <2>3 DEF SetOwned
  <2>5. /\ \A j \in Key \ {k} : row'[j] = row[j]
        /\ row'[k] = row[k] \/ row'[k].status = status
    BY <1>2, <2>2, <2>4 DEF Row
  <2> QED
    BY <1>1, <1>2, <2>1, <2>2, <2>5, StillMarked
<1>7. ASSUME NEW w \in Workers, SmtpAccepts(w) \/ SmtpClosesInData(w) PROVE MarkInv'
  <2>1. PICK k \in Key : k = worker[w].key
    BY <1>7, BusyReads DEF SmtpAccepts, SmtpClosesInData, Busy
  <2>2. UNCHANGED row /\ mails' = [mails EXCEPT ![k] = @ + 1]
    BY <1>7, <2>1 DEF SmtpAccepts, SmtpClosesInData, Accept
  <2>3. \A j \in Key : mails'[j] >= mails[j]
    BY <1>2, <2>2
  <2> QED
    BY <1>1, <1>2, <2>2, <2>3, StillMarked
<1> QED
  BY <1>3, <1>4, <1>5, <1>6, <1>7 DEF Tick, ProcessDueReminders, SkipAppointmentReminder, 
     EndReminders, StartBatch, EndBatch, Validate, SmtpRefuses, MarkSentFails

----------------------------------------------------------------------------
(* Every step *)

LEMMA StepInv == Inv /\ [Next]_vars => Inv'
<1> SUFFICES ASSUME TypeOK, WorkInv, MarkInv, [Next]_vars PROVE TypeOK' /\ WorkInv' /\ MarkInv'
  BY DEF Inv
<1>1. CASE UNCHANGED vars
  BY <1>1 DEF vars, TypeOK, WorkInv, WorkerInv, Apart, RowInv, Busy, MarkInv, PreparedInv, Marked,
              ConfirmInv, MarkerMeansSent
<1>2. ASSUME UNCHANGED <<worker, mails, faults, row>> PROVE WorkInv'
  BY <1>2 DEF WorkInv, WorkerInv, Apart, RowInv, Busy
<1>3. CASE Tick
  <2>1. TypeOK'
    BY <1>3 DEF Tick, TypeOK
  <2> QED
    BY <1>2, <1>3, <2>1, QuietMark DEF Tick, TypeOK
<1>4. CASE GiveUpUncertain
  <2>1. TypeOK' /\ WorkInv'
    BY <1>4, GiveUpWork
  <2> QED
    BY <1>4, <2>1, QuietMark DEF TypeOK
<1>5. ASSUME NEW r \in Requests, 
             \/ BeginStatus(r) \/ BeginReschedule(r) \/ BeginSettings(r)
             \/ CommitStatus(r) \/ CommitReschedule(r) \/ CommitSettings(r)
      PROVE  TypeOK' /\ WorkInv' /\ MarkInv'
  <2>1. UNCHANGED <<worker, mails, faults, row>>
    BY <1>5 DEF BeginStatus, BeginReschedule, BeginSettings, Begin, CommitStatus,
                CommitReschedule, CommitSettings
  <2> QED
    BY <1>2, <1>5, <2>1, RequestType, StatusMark, RescheduleMark, OtherRequestsMark
<1>6. ASSUME NEW q \in Schedulers, 
             \/ ProcessDueReminders(q) \/ ProcessAppointmentReminder(q)
             \/ SkipAppointmentReminder(q) \/ EndReminders(q)
      PROVE  TypeOK' /\ WorkInv' /\ MarkInv'
  <2>1. TypeOK' /\ WorkInv'
    BY <1>6, JobType, JobWork
  <2>2. mails' \in [Key -> Nat]
    BY <2>1 DEF TypeOK
  <2> QED
    BY <1>6, <2>1, <2>2, PrepareMark, QuietMark
<1>7. ASSUME NEW w \in Workers, 
             \/ StartBatch(w) \/ EndBatch(w) \/ Validate(w) \/ CancelDelivery(w) \/ SmtpAccepts(w)
             \/ SmtpRefuses(w) \/ SmtpClosesInData(w) \/ MarkSent(w) \/ MarkSentFails(w)
           \/ MarkFailure(w)
      PROVE  TypeOK' /\ WorkInv' /\ MarkInv'
  <2>1. TypeOK' /\ WorkInv'
    BY <1>7, WorkerKeeps, WorkerWork
  <2>2. mails' \in [Key -> Nat]
    BY <2>1 DEF TypeOK
  <2> QED
    BY <1>7, <2>1, <2>2, MarkSentMark, QuietMark
<1>8. ASSUME NEW w \in Workers, ClaimReminder(w) PROVE TypeOK' /\ WorkInv' /\ MarkInv'
  <2>1. TypeOK' /\ WorkInv'
    BY <1>8, ClaimWork
  <2>2. mails' \in [Key -> Nat]
    BY <2>1 DEF TypeOK
  <2> QED
    BY <1>8, <2>1, <2>2, QuietMark
<1> QED
  BY <1>1, <1>3, <1>4, <1>5, <1>6, <1>7, <1>8 DEF Next

LEMMA Correct == Spec => []Inv
  BY InitInv, StepInv, PTL DEF Spec

\* Appointments, rows, jobs, workers and requests have their types
\* (appointment-reminders.service.ts, notification-worker.service.ts).
THEOREM TypeCorrect == Spec => []TypeOK
<1>1. Inv => TypeOK
  BY DEF Inv
<1> QED
  BY <1>1, Correct, PTL

\* A reminder is sent again for one start only after a fault hid that the server had
\* taken it, once for each such fault (processDueReminders, claimNotification,
\* processNotification, isUncertainSmtpError).
THEOREM OnlyFaultsRepeat == Spec => []RepeatsAreFaults
<1>1. Inv => RepeatsAreFaults
  BY DEF Inv, WorkInv, RowInv, RepeatsAreFaults
<1> QED
  BY <1>1, Correct, PTL

\* The marker stands for a reminder that was sent for the start the appointment
\* has, unless a change was written over one it had not seen (markSent, reschedule).
THEOREM MarkerIsTrue == Spec => []MarkerMeansSent
<1>1. Inv => MarkerMeansSent
  BY DEF Inv, MarkInv
<1> QED
  BY <1>1, Correct, PTL

\* A reminder that is SENT for the start at which a confirmed appointment has
\* stayed is marked (markSent, processDueReminders).
THEOREM SentReminderIsMarked == Spec => []SentIsMarked
<1>1. Inv => SentIsMarked
  BY DEF Inv, MarkInv, Marked, SentIsMarked
<1> QED
  BY <1>1, Correct, PTL

----------------------------------------------------------------------------
(* The table implements the queue *)

QueueVars == <<[k \in Key |-> row[k].status], [k \in Key |-> row[k].tries]>>

\* One row moves, and the queue with it.
LEMMA OneMoves ==
    ASSUME NEW k \in Key, \A c \in Key \ {k} : row'[c] = row[c],
           NEW from, row[k].status = from, NEW to, row'[k].status = to, 
           NEW n, row'[k].tries = n
    PROVE  /\ Queue!Move(k, from, to)
           /\ [c \in Key |-> row[c].tries]' = [[c \in Key |-> row[c].tries] EXCEPT ![k] = n]
<1>1. [c \in Key |-> row[c].status]' = [[c \in Key |-> row[c].status] EXCEPT ![k] = to]
  OBVIOUS
<1>2. [c \in Key |-> row[c].tries]' = [[c \in Key |-> row[c].tries] EXCEPT ![k] = n]
  OBVIOUS
<1> QED
  BY <1>1, <1>2 DEF Queue!Move

\* A row that only changes its status keeps its tries.
LEMMA StatusMoves ==
    ASSUME TypeOK, NEW k \in Key, NEW from, row[k].status = from, NEW to,
           row' = [row EXCEPT ![k].status = to]
    PROVE  /\ Queue!Move(k, from, to)
           /\ UNCHANGED [c \in Key |-> row[c].tries]
<1>1. row \in [Key -> Row] /\ row[k] \in Row
  BY DEF TypeOK
<1>2. \A c \in Key \ {k} : row'[c] = row[c]
  BY <1>1
<1>3. row'[k].status = to /\ row'[k].tries = row[k].tries
  BY <1>1 DEF Row
<1>4. Queue!Move(k, from, to)
  BY <1>2, <1>3, OneMoves
<1>5. [c \in Key |-> row[c].tries]' = [c \in Key |-> row[c].tries]
  BY <1>2, <1>3
<1> QED
  BY <1>4, <1>5

\* What a worker does with the row it owns is a retry or the end of the row.
LEMMA OwnerMoves ==
    ASSUME TypeOK, NEW w \in Workers, worker[w].key \in Key, NEW status, SetOwned(w, status),
           \/ status \in {"SENT", "CANCELED"}
           \/ status = "FAILED" /\ worker[w].tries >= MaxAttempts
           \/ status = "PENDING" /\ worker[w].tries < MaxAttempts
    PROVE  UNCHANGED row \/ Queue!Next
<1> SUFFICES ASSUME Owns(w) PROVE Queue!Next
  BY DEF SetOwned
<1> PICK k \in Key : k = worker[w].key
  OBVIOUS
<1>1. row' = [row EXCEPT ![k].status = status]
  BY DEF SetOwned
<1>2. row[k].status = "PROCESSING" /\ row[k].tries = worker[w].tries /\ worker[w].tries \in 0..MaxAttempts
  BY DEF Owns, TypeOK, Worker
<1>3. Queue!Move(k, "PROCESSING", status) /\ UNCHANGED [c \in Key |-> row[c].tries]
  BY <1>1, <1>2, StatusMoves
<1>4. [c \in Key |-> row[c].tries][k] = worker[w].tries
  BY <1>2
<1>5. CASE status = "PENDING"
  <2>1. Queue!Retry(k)
    BY <1>3, <1>4, <1>5 DEF Queue!Retry
  <2> QED
    BY <2>1 DEF Queue!Next
<1>6. CASE status # "PENDING"
  <2>1. status \in Queue!Final
    BY <1>6 DEF Queue!Final
  <2>2. status = "FAILED" => worker[w].tries = MaxAttempts
    BY <1>2
  <2>3. Queue!Settle(k)
    BY <1>3, <1>4, <2>1, <2>2 DEF Queue!Settle
  <2> QED
    BY <2>3 DEF Queue!Next
<1> QED
  BY <1>5, <1>6

LEMMA ClaimMoves ==
    ASSUME Inv, NEW w \in Workers, ClaimReminder(w)
    PROVE  Queue!Next
<1>1. PICK k \in Key : /\ row[k].status = "PENDING"
                       /\ row' = [row EXCEPT ![k] = [status |-> "PROCESSING", tries |-> @.tries + 1]]
  BY DEF ClaimReminder
<1>2. row \in [Key -> Row]
  BY DEF Inv, TypeOK
<1>3. row'[k] = [status |-> "PROCESSING", tries |-> row[k].tries + 1] 
        /\ \A c \in Key \ {k} : row'[c] = row[c]
  BY <1>1, <1>2
<1>4. row[k].tries < MaxAttempts
  BY <1>1 DEF Inv, WorkInv, RowInv
<1>5. row'[k].status = "PROCESSING" /\ row'[k].tries = row[k].tries + 1
  BY <1>3
<1>6. /\ Queue!Move(k, "PENDING", "PROCESSING")
      /\ [c \in Key |-> row[c].tries]' = 
            [[c \in Key |-> row[c].tries] EXCEPT ![k] = row[k].tries + 1]
  BY <1>1, <1>3, <1>5, OneMoves
<1>7. Queue!Claim(k)
  BY <1>4, <1>6 DEF Queue!Claim
<1> QED
  BY <1>7 DEF Queue!Next

\* The upsert of the job queues a row or leaves it as it is.
LEMMA PrepareMoves ==
    ASSUME Inv, NEW q \in Schedulers, ProcessAppointmentReminder(q)
    PROVE  UNCHANGED row \/ Queue!Next
<1>1. PICK a \in sched[q].todo : IF tenant.enabled /\ Due(a, sched[q].now)
                                 THEN NotifyReminder(a) ELSE UNCHANGED row
  BY DEF ProcessAppointmentReminder
<1>2. <<a, appt[a].start>> \in Key
  BY DEF Inv, TypeOK, Scheduler, Appointment, Key
<1> PICK k \in Key : k = <<a, appt[a].start>>
  BY <1>2
<1> SUFFICES ASSUME ~UNCHANGED row PROVE Queue!Next
  OBVIOUS
<1>3. row[k].status = "NONE" /\ row' = [row EXCEPT ![k].status = "PENDING"]
  BY <1>1 DEF NotifyReminder, Upsert
<1>4. Queue!Enqueue(k)
  BY <1>3, StatusMoves DEF Queue!Enqueue, Inv
<1> QED
  BY <1>4 DEF Queue!Next

LEMMA GiveUpMoves ==
    ASSUME Inv, GiveUpUncertain
    PROVE  Queue!Next
<1>1. PICK k \in Key : row[k].status = "PROCESSING" /\ row' = [row EXCEPT ![k].status = "UNCERTAIN"]
  BY DEF GiveUpUncertain
<1>2. Queue!Move(k, "PROCESSING", "UNCERTAIN") /\ UNCHANGED [c \in Key |-> row[c].tries]
  BY <1>1, StatusMoves DEF Inv
<1>3. Queue!Settle(k)
  BY <1>2 DEF Queue!Settle, Queue!Final
<1> QED
  BY <1>3 DEF Queue!Next

LEMMA StepMoves == Inv /\ [Next]_vars => UNCHANGED row \/ Queue!Next
<1> SUFFICES ASSUME Inv, [Next]_vars PROVE UNCHANGED row \/ Queue!Next
  OBVIOUS
<1>1. CASE UNCHANGED vars \/ Tick
  BY <1>1 DEF vars, Tick
<1>2. CASE GiveUpUncertain
  BY <1>2, GiveUpMoves
<1>3. ASSUME NEW r \in Requests, 
             \/ BeginStatus(r) \/ BeginReschedule(r) \/ BeginSettings(r)
             \/ CommitStatus(r) \/ CommitReschedule(r) \/ CommitSettings(r)
      PROVE  UNCHANGED row
  BY <1>3 DEF BeginStatus, BeginReschedule, BeginSettings, Begin,
              CommitStatus, CommitReschedule, CommitSettings
<1>4. ASSUME NEW q \in Schedulers, 
             \/ ProcessDueReminders(q) \/ ProcessAppointmentReminder(q)
             \/ SkipAppointmentReminder(q) \/ EndReminders(q)
      PROVE  UNCHANGED row \/ Queue!Next
  <2>1. CASE ProcessAppointmentReminder(q)
    BY <2>1, PrepareMoves
  <2>2. CASE ProcessDueReminders(q) \/ SkipAppointmentReminder(q) \/ EndReminders(q)
    BY <2>2 DEF ProcessDueReminders, SkipAppointmentReminder, EndReminders
  <2> QED
    BY <1>4, <2>1, <2>2
<1>5. ASSUME NEW w \in Workers,
             \/ StartBatch(w) \/ EndBatch(w) \/ ClaimReminder(w) \/ Validate(w)
             \/ CancelDelivery(w) \/ SmtpAccepts(w) \/ SmtpRefuses(w) \/ SmtpClosesInData(w)
             \/ MarkSent(w) \/ MarkSentFails(w) \/ MarkFailure(w)
      PROVE  UNCHANGED row \/ Queue!Next
  <2>1. CASE ClaimReminder(w)
    BY <2>1, ClaimMoves
  <2>2. CASE StartBatch(w) \/ EndBatch(w) \/ Validate(w) \/ SmtpAccepts(w) \/ SmtpRefuses(w)
             \/ SmtpClosesInData(w) \/ MarkSentFails(w)
    BY <2>2 DEF StartBatch, EndBatch, Validate, SmtpAccepts, SmtpRefuses, SmtpClosesInData,
                MarkSentFails
  <2>3. CASE CancelDelivery(w) \/ MarkSent(w) \/ MarkFailure(w)
    <3>1. TypeOK /\ worker[w].key \in Key
      BY <2>3 DEF Inv, WorkInv, WorkerInv, Busy, CancelDelivery, MarkSent, MarkFailure
    <3>2. CASE CancelDelivery(w)
      BY <3>1, <3>2, OwnerMoves DEF CancelDelivery
    <3>3. CASE MarkSent(w)
      BY <3>1, <3>3, OwnerMoves DEF MarkSent
    <3>4. CASE MarkFailure(w)
      <4> DEFINE to == IF worker[w].tries >= MaxAttempts THEN "FAILED" ELSE "PENDING"
      <4>1. worker[w].tries \in Int /\ MaxAttempts \in Int
        BY <3>1 DEF TypeOK, Worker
      <4>2. SetOwned(w, to)
        BY <3>4 DEF MarkFailure
      <4>3. \/ to = "FAILED" /\ worker[w].tries >= MaxAttempts
            \/ to = "PENDING" /\ worker[w].tries < MaxAttempts
        BY <4>1
      <4> HIDE DEF to
      <4> QED
        BY <3>1, <4>2, <4>3, OwnerMoves
    <3> QED
      BY <2>3, <3>2, <3>3, <3>4
  <2> QED
    BY <1>5, <2>1, <2>2, <2>3
<1> QED
  BY <1>1, <1>2, <1>3, <1>4, <1>5 DEF Next

\* The reminders' rows follow the life cycle of README.md, whatever job, worker,
\* recovery or change of the appointment meets them (notifyReminder,
\* claimNotification, markSent, markFailure, recoverStaleProcessing).
THEOREM ImplementsQueue == Spec => QueueSpec
<1>1. Init => Queue!Init
  BY DEF Init, NoRow, Queue!Init
<1>2. Inv /\ [Next]_vars => [Queue!Next]_QueueVars
  <2> SUFFICES ASSUME Inv, [Next]_vars PROVE Queue!Next \/ UNCHANGED QueueVars
    OBVIOUS
  <2>1. UNCHANGED row => UNCHANGED QueueVars
    BY DEF QueueVars
  <2> QED
    BY <2>1, StepMoves
<1> QED
  BY <1>1, <1>2, Correct, PTL DEF Spec, QueueSpec, Queue!Spec, QueueVars
=============================================================================
