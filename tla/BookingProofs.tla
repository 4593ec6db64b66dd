--------------------------- MODULE BookingProofs ---------------------------
(***************************************************************************)
(* What holds of Booking for any number of requests, employees, clients    *)
(* and instants.                                                           *)
(***************************************************************************)
EXTENDS Booking, TLAPS

----------------------------------------------------------------------------
(* Type correctness *)

Creates(r) == arg[r].op \in {"create", "public"}

\* A request inside its transaction has read what it works on, and the
\* appointment it changes exists; a status change has an audit action.
Started == 
    \A r \in Requests : pc[r] \in InTransaction => 
        /\ arg[r] # None
        /\ ~Creates(r) => appt[arg[r].id] # None
        /\ arg[r].op = "status" => arg[r].to \in Action

\* No step deletes an appointment.
Kept == \A a \in Requests : appt[a] # None => appt'[a] # None

TypeInv == TypeOK /\ Started

USE OpsAssumption, TimeAssumption, EmailAssumption, NoneAssumption

\* Started depends only on what a request does, to which appointment.
LEMMA StartedKept ==
    ASSUME TypeInv, Kept,
           \A q \in Requests : pc'[q] \in InTransaction =>
              /\ pc[q] \in InTransaction
              /\ arg'[q] # None
              /\ arg'[q].op = arg[q].op /\ arg'[q].id = arg[q].id /\ arg'[q].to = arg[q].to
    PROVE  Started'
<1>1. ASSUME NEW q \in Requests, pc[q] \in InTransaction
      PROVE  arg[q].id \in Requests
  BY <1>1 DEF TypeInv, TypeOK, Started, Argument
<1> QED
  BY <1>1 DEF TypeInv, Started, Kept, Creates

\* The end of a transaction keeps the lock tables and the program counters typed.
LEMMA EndTransactionType ==
    ASSUME TypeInv, NEW r \in Requests, EndTransaction(r), Kept
    PROVE  /\ cliLock' \in [Clients -> Requests \cup {None}]
           /\ empLock' \in [Employees -> Requests \cup {None}]
           /\ pc' \in [Requests -> PC]
           /\ arg' \in [Requests -> Argument \cup {None}]
           /\ Started'
<1>1. /\ cliLock' \in [Clients -> Requests \cup {None}]
      /\ empLock' \in [Employees -> Requests \cup {None}]
      /\ pc' \in [Requests -> PC]
      /\ arg' \in [Requests -> Argument \cup {None}]
  BY DEF TypeInv, TypeOK, EndTransaction, PC
<1>2. ASSUME NEW q \in Requests, pc'[q] \in InTransaction
      PROVE  pc[q] \in InTransaction /\ arg'[q] = arg[q]
  BY <1>2 DEF TypeInv, TypeOK, EndTransaction, InTransaction, PC
<1>3. Started'
  BY <1>2, StartedKept DEF TypeInv, Started
<1> QED BY <1>1, <1>3

\* Writing one audit row keeps the log typed.
LEMMA RecordType ==
    ASSUME TypeInv, NEW a \in Requests, NEW act \in Action,
           NEW who \in {"USER", "PUBLIC"}, 
           NEW before \in Snapshot, NEW after \in Snapshot,
           Record(a, act, who, before, after)
    PROVE  audit' \in [Requests -> Seq(AuditRow)]
<1> DEFINE row == [action |-> act, actor |-> who, before |-> before, after |-> after]
<1>1. row \in AuditRow
  BY DEF AuditRow
<1>2. audit[a] \in Seq(AuditRow) /\ audit \in [Requests -> Seq(AuditRow)]
  BY DEF TypeInv, TypeOK
<1>3. Append(audit[a], row) \in Seq(AuditRow)
  BY <1>1, <1>2
<1> QED
  BY <1>2, <1>3 DEF Record

\* Queueing one e-mail keeps the outbox typed.
LEMMA EnqueueType ==
    ASSUME TypeInv, NEW a \in Requests, NEW c \in Clients, NEW k \in Kind,
           NEW at \in Starts \cup {None}, Enqueue(a, c, k, at)
    PROVE  outbox' \subseteq Key
  BY DEF TypeInv, TypeOK, Enqueue, Key

\* What a request has read is typed.
LEMMA ArgumentType ==
    ASSUME TypeInv, NEW r \in Requests, pc[r] \in InTransaction
    PROVE  arg[r] \in Argument
  BY DEF TypeInv, TypeOK, Started

LEMMA SnapshotTypes ==
    /\ NoSnapshot \in Snapshot
    /\ \A s \in Status \cup {None} : OnlyStatus(s) \in Snapshot
    /\ \A s \in Starts \cup {None} : OnlyStart(s) \in Snapshot
  BY DEF NoSnapshot, Snapshot, OnlyStatus, OnlyStart

LEMMA OnExistingType ==
    ASSUME TypeInv, NEW op \in AllOps, NEW a \in Requests, appt[a] # None,
           NEW s \in Starts, NEW to \in Status
    PROVE  /\ OnExisting(op, a, s, to) \in Argument 
           /\ OnExisting(op, a, s, to).op = op
           /\ OnExisting(op, a, s, to).id = a
           /\ OnExisting(op, a, s, to).to = to
<1>1. appt[a] \in Appointment
  BY DEF TypeInv, TypeOK
<1> QED
  BY <1>1 DEF OnExisting, SnapshotOf, Argument, Appointment, Snapshot

LEMMA BeginType ==
    ASSUME TypeInv, NEW r \in Requests, NEW at \in InTransaction,
           NEW x \in Argument, Begin(r, at, x),
           x.op \notin {"create", "public"} => appt[x.id] # None,
           x.op = "status" => x.to \in Action
    PROVE  TypeInv'
<1>1. TypeOK'
  BY DEF TypeInv, TypeOK, Begin, PC, InTransaction
<1>2. Started'
  BY DEF TypeInv, TypeOK, Started, Creates, Begin, PC, InTransaction
<1> QED BY <1>1, <1>2 DEF TypeInv

\* A request on an existing appointment begins typed.
LEMMA BeginOnExistingType ==
    ASSUME TypeInv, NEW r \in Requests, NEW at \in InTransaction,
           NEW op \in AllOps, op \notin {"create", "public"},
           NEW a \in Requests, appt[a] # None, NEW s \in Starts, NEW to \in Status,
           op = "status" => to \in Action,
           Begin(r, at, OnExisting(op, a, s, to))
    PROVE  TypeInv'
<1> DEFINE x == OnExisting(op, a, s, to)
<1>1. x \in Argument /\ x.op = op /\ x.id = a /\ x.to = to
  BY OnExistingType
<1>2. Begin(r, at, x)
  OBVIOUS
<1> HIDE DEF x
<1> QED
  BY <1>1, <1>2, BeginType

LEMMA ArriveType ==
    ASSUME TypeInv, NEW r \in Requests, Arrive(r)
    PROVE  TypeInv'
<1>1. CASE BeginCreate(r)
  BY <1>1, BeginType DEF BeginCreate, Argument, InTransaction, PC, AllOps, Status, 
     NoSnapshot, Snapshot
<1>2. CASE BeginPublic(r)
  BY <1>2, BeginType DEF BeginPublic, Argument, InTransaction, PC, AllOps, Status,
     NoSnapshot, Snapshot
<1>3. CASE BeginStatus(r)
  <2>1. PICK a \in Requests : 
          /\ appt[a] # None
          /\ \E to \in AllowedTransitions(appt[a].status) :
                Begin(r, "write", OnExisting("status", a, appt[a].start, to))
    BY <1>3 DEF BeginStatus
  <2>2. appt[a] \in Appointment
    BY <2>1 DEF TypeInv, TypeOK
  <2>3. appt[a].start \in Starts /\ appt[a].status \in Status
    BY <2>2 DEF Appointment
  <2>4. PICK to \in AllowedTransitions(appt[a].status) :
             Begin(r, "write", OnExisting("status", a, appt[a].start, to))
    BY <2>1
  <2>5. to \in Status /\ to \in Action
    BY <2>4 DEF AllowedTransitions, Status, Action
  <2>6. "status" \in AllOps /\ "write" \in InTransaction
    BY DEF AllOps, InTransaction, PC
  <2> QED
    BY <2>1, <2>3, <2>4, <2>5, <2>6, BeginOnExistingType
<1>4. CASE BeginCancel(r)
  <2>1. PICK a \in Requests : 
          /\ appt[a] # None
          /\ Begin(r, "write", OnExisting("cancel", a, appt[a].start, "CANCELED"))
    BY <1>4 DEF BeginCancel
  <2>2. appt[a].start \in Starts
    BY <2>1 DEF TypeInv, TypeOK, Appointment
  <2>3. "cancel" \in AllOps /\ "CANCELED" \in Status /\ "write" \in InTransaction
    BY DEF AllOps, InTransaction, PC, Status
  <2> QED
    BY <2>1, <2>2, <2>3, BeginOnExistingType
<1>5. CASE BeginReschedule(r)
  <2>1. PICK a \in Requests, s \in Starts : 
          /\ appt[a] # None
          /\ Begin(r, "lockEmployee", OnExisting("reschedule", a, s, appt[a].status))
    BY <1>5 DEF BeginReschedule
  <2>2. appt[a].status \in Status
    BY <2>1 DEF TypeInv, TypeOK, Appointment
  <2>3. "reschedule" \in AllOps /\ "lockEmployee" \in InTransaction
    BY DEF AllOps, InTransaction, PC
  <2> QED
    BY <2>1, <2>2, <2>3, BeginOnExistingType
<1>6. CASE Refuse(r)
  <2>1. TypeOK'
    BY <1>6 DEF Refuse, TypeInv, TypeOK, PC
  <2>2. Started'
    BY <1>6, StartedKept DEF Refuse, TypeInv, TypeOK, Started, Kept, InTransaction
  <2> QED BY <2>1, <2>2 DEF TypeInv
<1> QED
  BY <1>1, <1>2, <1>3, <1>4, <1>5, <1>6 DEF Arrive

LEMMA InsertType ==
    ASSUME TypeInv, NEW r \in Requests, pc[r] = "write", Insert(r)
    PROVE  /\ appt' \in [Requests -> Appointment \cup {None}]
           /\ Kept
           /\ outbox' \subseteq Key
           /\ audit' \in [Requests -> Seq(AuditRow)]
<1>1. arg[r] \in Argument
  BY ArgumentType DEF InTransaction, PC
<1>2. appt' \in [Requests -> Appointment \cup {None}] /\ Kept
  <2> DEFINE new == [status |-> arg[r].to, emp |-> arg[r].emp, client |-> arg[r].client, 
                     start |-> arg[r].start, dur |-> arg[r].dur]
  <2>1. new \in Appointment /\ new # None
    BY <1>1 DEF Argument, Appointment
  <2>2. appt' = [appt EXCEPT ![r] = new]
    BY DEF Insert
  <2> HIDE DEF new
  <2> QED
    BY <2>1, <2>2 DEF TypeInv, TypeOK, Kept
<1>3. outbox' \subseteq Key
  <2>1. CASE arg[r].op = "public"
    BY <1>1, <2>1, EnqueueType DEF Insert, Argument, Kind, NotifyRequested, NotifyConfirmed
  <2>2. CASE arg[r].op # "public"
    BY <1>1, <2>2, EnqueueType DEF Insert, Argument, Kind, NotifyRequested, NotifyConfirmed
  <2> QED BY <2>1, <2>2
<1>4. [status |-> arg[r].to, start |-> arg[r].start] \in Snapshot
  BY <1>1 DEF Argument, Snapshot
<1>5. audit' \in [Requests -> Seq(AuditRow)]
  BY <1>4, RecordType, SnapshotTypes DEF Insert, Action
<1> QED BY <1>2, <1>3, <1>5

LEMMA ServeType ==
    ASSUME TypeInv, NEW r \in Requests, Serve(r)
    PROVE  TypeInv'
<1> USE DEF InTransaction, PC
<1>1. CASE LockClient(r)
  <2>1. TypeOK'
    BY <1>1, ArgumentType DEF LockClient, TypeInv, TypeOK, Argument
  <2>2. Started'
    BY <1>1, StartedKept DEF LockClient, TypeInv, TypeOK, Started, Kept
  <2> QED BY <2>1, <2>2 DEF TypeInv
<1>2. CASE CheckClient(r)
  <2>1. arg[r] \in Argument
    BY <1>2, ArgumentType DEF CheckClient
  <2>2. [arg[r] EXCEPT !.newClient = ~HasClient(arg[r].client)] \in Argument
    BY <2>1 DEF Argument, HasClient
  <2>3. arg' \in [Requests -> Argument \cup {None}]
    BY <1>2, <2>1, <2>2 DEF CheckClient, TypeInv, TypeOK
  <2>4. Started'
    <3>1. \A q \in Requests \ {r} : pc'[q] = pc[q] /\ arg'[q] = arg[q]
      BY <1>2 DEF CheckClient, TypeInv, TypeOK
    <3>2. arg'[r] = [arg[r] EXCEPT !.newClient = ~HasClient(arg[r].client)]
      BY <1>2 DEF CheckClient, TypeInv, TypeOK
    <3>3. /\ arg'[r] # None
          /\ arg'[r].op = arg[r].op /\ arg'[r].id = arg[r].id /\ arg'[r].to = arg[r].to
      BY <2>1, <2>2, <3>2 DEF Argument
    <3>4. pc[r] \in InTransaction /\ Kept
      BY <1>2 DEF CheckClient, Kept
    <3> QED
      BY <3>1, <3>3, <3>4, StartedKept DEF TypeInv, Started
  <2> QED
    BY <1>2, <2>3, <2>4 DEF CheckClient, TypeInv, TypeOK
<1>3. CASE LockEmployee(r)
  <2>1. TypeOK'
    BY <1>3, ArgumentType DEF LockEmployee, TypeInv, TypeOK, Argument
  <2>2. Started'
    BY <1>3, StartedKept DEF LockEmployee, TypeInv, TypeOK, Started, Kept
  <2> QED BY <2>1, <2>2 DEF TypeInv
<1>4. CASE CheckEmployee(r)
  <2>1. TypeOK'
    BY <1>4 DEF CheckEmployee, TypeInv, TypeOK
  <2>2. Started'
    BY <1>4, StartedKept DEF CheckEmployee, TypeInv, TypeOK, Started, Kept
  <2> QED BY <2>1, <2>2 DEF TypeInv
<1>5. CASE CommitCreate(r)
  BY <1>5, InsertType, EndTransactionType DEF CommitCreate, TypeInv, TypeOK
<1>6. CASE CommitPublic(r)
  <2>1. arg[r].client \in Clients
    BY <1>6, ArgumentType DEF CommitPublic, Argument
  <2>2. clientRows' \in [Clients -> ClientRows]
    <3> DEFINE c == arg[r].client
               n == IF arg[r].newClient THEN clientRows[c].booked + 1 ELSE clientRows[c].booked
    <3>1. clientRows \in [Clients -> ClientRows]
      BY DEF TypeInv, TypeOK
    <3>2. n \in Nat
      BY <2>1, <3>1 DEF ClientRows
    <3>3. clientRows' = [clientRows EXCEPT ![c] = [clientRows[c] EXCEPT !.booked = n]]
      BY <1>6 DEF CommitPublic
    <3> HIDE DEF n, c
    <3>4. c \in Clients
      BY <2>1 DEF c
    <3>5. [clientRows[c] EXCEPT !.booked = n] \in ClientRows
      BY <3>1, <3>2, <3>4 DEF ClientRows
    <3> QED
      BY <3>1, <3>3, <3>4, <3>5
  <2> QED
    BY <1>6, <2>2, InsertType, EndTransactionType DEF CommitPublic, TypeInv, TypeOK
<1>7. CASE CommitStatus(r)
  <2>1. arg[r] \in Argument /\ pc[r] = "write"
    BY <1>7, ArgumentType DEF CommitStatus
  <2>2. appt[arg[r].id] \in Appointment
    BY <1>7, <2>1 DEF CommitStatus, TypeInv, TypeOK, Started, Creates, Argument
  <2>3. [appt[arg[r].id] EXCEPT !.status = arg[r].to] \in Appointment
    BY <2>1, <2>2 DEF Argument, Appointment, Status
  <2>4. appt' = [appt EXCEPT ![arg[r].id] = [appt[arg[r].id] EXCEPT !.status = arg[r].to]]
    BY <1>7 DEF CommitStatus
  <2>5. appt' \in [Requests -> Appointment \cup {None}] /\ Kept
    BY <2>1, <2>3, <2>4 DEF TypeInv, TypeOK, Kept, Argument
  <2>6. /\ arg[r].id \in Requests /\ arg[r].client \in Clients 
        /\ arg[r].start \in Starts \cup {None}
        /\ OnlyStatus(arg[r].seen.status) \in Snapshot
        /\ OnlyStatus(arg[r].to) \in Snapshot
    BY <2>1, SnapshotTypes DEF Argument, Snapshot, Status
  <2>9. arg[r].to \in Action
    BY <1>7 DEF CommitStatus, TypeInv, Started
  <2>7. outbox' \subseteq Key
    BY <1>7, <2>6, EnqueueType DEF CommitStatus, NotifyConfirmed, Kind, TypeInv, TypeOK
  <2>8. audit' \in [Requests -> Seq(AuditRow)]
    BY <1>7, <2>6, <2>9, RecordType DEF CommitStatus, Action, TypeInv, TypeOK
  <2> QED
    BY <1>7, <2>5, <2>7, <2>8, EndTransactionType DEF CommitStatus, TypeInv, TypeOK
<1>8. CASE CommitCancel(r)
  <2>1. arg[r] \in Argument /\ pc[r] = "write"
    BY <1>8, ArgumentType DEF CommitCancel
  <2>2. appt[arg[r].id] \in Appointment
    BY <1>8, <2>1 DEF CommitCancel, TypeInv, TypeOK, Started, Creates, Argument
  <2>3. [appt[arg[r].id] EXCEPT !.status = "CANCELED"] \in Appointment
    BY <2>1, <2>2 DEF Argument, Appointment, Status
  <2>4. appt' = [appt EXCEPT ![arg[r].id] = [appt[arg[r].id] EXCEPT !.status = "CANCELED"]]
    BY <1>8 DEF CommitCancel
  <2>5. appt' \in [Requests -> Appointment \cup {None}] /\ Kept
    BY <2>1, <2>3, <2>4 DEF TypeInv, TypeOK, Kept, Argument
  <2>6. /\ arg[r].id \in Requests /\ arg[r].client \in Clients 
        /\ arg[r].start \in Starts \cup {None}
        /\ OnlyStatus(arg[r].seen.status) \in Snapshot
        /\ OnlyStatus("CANCELED") \in Snapshot
    BY <2>1, SnapshotTypes DEF Argument, Snapshot, Status
  <2>7. outbox' \subseteq Key
    BY <1>8, <2>6, EnqueueType DEF CommitCancel, NotifyCanceled, Kind, TypeInv, TypeOK
  <2>8. audit' \in [Requests -> Seq(AuditRow)]
    BY <1>8, <2>6, RecordType DEF CommitCancel, Action, TypeInv, TypeOK
  <2> QED
    BY <1>8, <2>5, <2>7, <2>8, EndTransactionType DEF CommitCancel, TypeInv, TypeOK
<1>9. CASE CommitReschedule(r)
  <2>1. arg[r] \in Argument /\ pc[r] = "write"
    BY <1>9, ArgumentType DEF CommitReschedule
  <2>2. appt[arg[r].id] \in Appointment
    BY <1>9, <2>1 DEF CommitReschedule, TypeInv, TypeOK, Started, Creates, Argument
  <2>3. [appt[arg[r].id] EXCEPT !.start = arg[r].start] \in Appointment
    BY <2>1, <2>2 DEF Argument, Appointment, Status
  <2>4. appt' = [appt EXCEPT ![arg[r].id] = [appt[arg[r].id] EXCEPT !.start = arg[r].start]]
    BY <1>9 DEF CommitReschedule
  <2>5. appt' \in [Requests -> Appointment \cup {None}] /\ Kept
    BY <2>1, <2>3, <2>4 DEF TypeInv, TypeOK, Kept, Argument
  <2>6. /\ arg[r].id \in Requests /\ arg[r].client \in Clients 
        /\ arg[r].start \in Starts \cup {None}
        /\ OnlyStart(arg[r].seen.start) \in Snapshot
        /\ OnlyStart(arg[r].start) \in Snapshot
    BY <2>1, SnapshotTypes DEF Argument, Snapshot, Status
  <2>7. outbox' \subseteq Key
    BY <1>9, <2>6, EnqueueType DEF CommitReschedule, NotifyRescheduled, Kind, TypeInv, TypeOK
  <2>8. audit' \in [Requests -> Seq(AuditRow)]
    BY <1>9, <2>6, RecordType DEF CommitReschedule, Action, TypeInv, TypeOK
  <2> QED
    BY <1>9, <2>5, <2>7, <2>8, EndTransactionType DEF CommitReschedule, TypeInv, TypeOK
<1>10. CASE RejectConflict(r)
  BY <1>10, EndTransactionType DEF RejectConflict, Rollback, TypeInv, TypeOK, Kept
<1> QED
  BY <1>1, <1>2, <1>3, <1>4, <1>5, <1>6, <1>7, <1>8, <1>9, <1>10 DEF Serve

\* The staff changes the clients and nothing else.
LEMMA StaffQuiet ==
    ASSUME NEW c \in Clients, AddClient(c) \/ RemoveClient(c)
    PROVE  UNCHANGED <<appt, outbox, audit, cliLock, empLock, pc, arg>>
  BY DEF AddClient, RemoveClient

LEMMA StaffType ==
    ASSUME TypeInv, NEW c \in Clients, AddClient(c) \/ RemoveClient(c)
    PROVE  TypeInv'
<1>1. clientRows \in [Clients -> ClientRows]
  BY DEF TypeInv, TypeOK
<1>2. clientRows' \in [Clients -> ClientRows]
  <2>1. CASE AddClient(c) 
    BY <1>1, <2>1 DEF AddClient, ClientRows
  <2>2. CASE RemoveClient(c)
    <3>1. clientRows[c] \in [booked : Nat, byStaff : BOOLEAN]
      BY <1>1 DEF ClientRows
    <3>2. [clientRows[c] EXCEPT !.byStaff = FALSE] \in ClientRows
      BY <3>1 DEF ClientRows
    <3>3. clientRows[c].booked > 0 => [clientRows[c] EXCEPT !.booked = @ - 1] \in ClientRows
      BY <3>1 DEF ClientRows
    <3> QED
      BY <1>1, <2>2, <3>2, <3>3 DEF RemoveClient
  <2> QED BY <2>1, <2>2
<1> QED
  BY <1>2, StaffQuiet DEF TypeInv, TypeOK, Started, Creates

LEMMA StepType == TypeInv /\ [Next]_vars => TypeInv'
<1> SUFFICES ASSUME TypeInv, [Next]_vars PROVE TypeInv'
  OBVIOUS
<1>1. ASSUME NEW r \in Requests, Arrive(r) PROVE TypeInv'
  BY <1>1, ArriveType
<1>2. ASSUME NEW r \in Requests, Serve(r) PROVE TypeInv'
  BY <1>2, ServeType
<1>3. ASSUME NEW r \in Requests, Fail(r) PROVE TypeInv'
  BY <1>3, EndTransactionType DEF Fail, Rollback, TypeInv, TypeOK, Kept
<1>4. CASE UNCHANGED vars
  BY <1>4 DEF vars, TypeInv, TypeOK, Started, Creates
<1>5. ASSUME NEW c \in Clients, AddClient(c) \/ RemoveClient(c) PROVE TypeInv'
  BY <1>5, StaffType
<1> QED
  BY <1>1, <1>2, <1>3, <1>4, <1>5 DEF Next, AllServed

LEMMA InitType == Init => TypeInv
<1> SUFFICES ASSUME Init PROVE TypeInv
  OBVIOUS
<1>1. TypeOK
  BY DEF Init, TypeOK, PC, ClientRows
<1>2. Started
  BY DEF Init, Started, InTransaction
<1> QED BY <1>1, <1>2 DEF TypeInv

\* The tables, the locks and what each request remembers keep their types.
THEOREM TypeCorrect == Spec => []TypeOK
<1>1. TypeInv => TypeOK
  BY DEF TypeInv
<1> QED
  BY <1>1, InitType, StepType, PTL DEF Spec

----------------------------------------------------------------------------
(* Double booking *)

Locking(r) == arg[r].op \in {"create", "public", "reschedule"}

\* A request that has passed its employee's lock still holds it.
Held ==
    \A r \in Requests :
        /\ pc[r] \in {"lockClient", "checkClient", "lockEmployee", "checkEmployee"} => Locking(r)
        /\ pc[r] \in {"checkEmployee", "write"} /\ Locking(r) => empLock[arg[r].emp] = r

\* An appointment exists once its request is done; employee and duration of an
\* appointment never change, so what a request has read of them stays true.
Target ==
    \A r \in Requests :
        /\ appt[r] # None => pc[r] = "done"
        /\ pc[r] \in InTransaction /\ Creates(r) => arg[r].id = r /\ arg[r].to # "CANCELED"
        /\ pc[r] \in InTransaction /\ ~Creates(r) =>
              /\ appt[arg[r].id].emp = arg[r].emp
              /\ appt[arg[r].id].dur = arg[r].dur

CanceledIsLogged ==
    \A a \in Requests :
        appt[a] # None /\ appt[a].status = "CANCELED" => Logged(a, "CANCELED")

\* b stands in the way of what r is about to write.
InTheWay(r, b) ==
    /\ b # arg[r].id
    /\ Occupying(b)
    /\ appt[b].emp = arg[r].emp
    /\ Overlap(arg[r].start, arg[r].dur, appt[b].start, appt[b].dur)

\* Once the conflict query has found nothing, only an appointment brought back
\* from cancellation can get in the way before the commit.
Checked ==
    \A r, b \in Requests :
        pc[r] = "write" /\ Locking(r) /\ InTheWay(r, b) => Logged(b, "CANCELED")

BookInv == Held /\ Target /\ CanceledIsLogged /\ Checked /\ DoubleBookingOnlyByRevival

IInv == TypeInv /\ BookInv

\* Rows are only added to the log.
LogKept == \A a \in Requests, act \in Action : Logged(a, act) => Logged(a, act)'

LEMMA RecordLogs ==
    ASSUME TypeInv, NEW x \in Requests, NEW act \in Action, NEW who, NEW before, NEW after,
           Record(x, act, who, before, after)
    PROVE  LogKept /\ Logged(x, act)'
<1> DEFINE row == [action |-> act, actor |-> who, before |-> before, after |-> after]
<1>1. row.action = act
  OBVIOUS
<1> HIDE DEF row
<1>2. audit \in [Requests -> Seq(AuditRow)] /\ audit' = [audit EXCEPT ![x] = Append(@, row)]
  BY DEF TypeInv, TypeOK, Record, row
<1>3. audit'[x] = Append(audit[x], row) /\ audit[x] \in Seq(AuditRow)
  BY <1>2
<1>4. /\ Len(audit[x]) \in Nat
      /\ DOMAIN audit'[x] = 1 .. Len(audit[x]) + 1
      /\ audit'[x][Len(audit[x]) + 1] = row
      /\ DOMAIN audit[x] = 1 .. Len(audit[x])
      /\ \A i \in DOMAIN audit[x] : i \in DOMAIN audit'[x] /\ audit'[x][i] = audit[x][i]
  BY <1>3
<1>5. Logged(x, act)'
  BY <1>1, <1>4 DEF Logged
<1>6. \A m \in Action : Logged(x, m) => Logged(x, m)'
  BY <1>4 DEF Logged
<1>7. \A a \in Requests \ {x} : audit'[a] = audit[a]
  BY <1>2
<1>8. \A a \in Requests \ {x}, m \in Action : Logged(a, m) => Logged(a, m)'
  BY <1>7 DEF Logged
<1> QED
  BY <1>5, <1>6, <1>8 DEF LogKept

\* Steps that write nothing keep what is said of the tables alone.
LEMMA QuietTables ==
    ASSUME IInv, UNCHANGED <<appt, audit>>
    PROVE  CanceledIsLogged' /\ DoubleBookingOnlyByRevival'
  BY DEF IInv, BookInv, CanceledIsLogged, DoubleBookingOnlyByRevival, Clash, Occupying, Logged

\* A request that ends its transaction leaves the locks of the others alone.
LEMMA EndTransactionHeld ==
    ASSUME IInv, NEW r \in Requests, EndTransaction(r)
    PROVE  /\ Held'
           /\ \A q \in Requests \ {r} : pc'[q] = pc[q] /\ arg'[q] = arg[q]
           /\ pc'[r] = "done"
<1>1. /\ \A q \in Requests \ {r} : pc'[q] = pc[q] /\ arg'[q] = arg[q]
      /\ pc'[r] = "done"
      /\ arg' = arg
  BY DEF IInv, BookInv, TypeInv, TypeOK, EndTransaction
<1>2. ASSUME NEW q \in Requests \ {r}, pc[q] \in {"checkEmployee", "write"}, Locking(q)
      PROVE  empLock'[arg[q].emp] = q
  <2>1. arg[q].emp \in Employees /\ empLock[arg[q].emp] = q
    BY <1>2, ArgumentType DEF IInv, BookInv, Held, Argument, InTransaction, PC
  <2> QED
    BY <2>1 DEF EndTransaction
<1>3. Held'
  BY <1>1, <1>2 DEF IInv, BookInv, Held, Locking
<1> QED BY <1>1, <1>3

LEMMA RollbackInv ==
    ASSUME IInv, NEW r \in Requests, pc[r] \in InTransaction, Rollback(r)
    PROVE  BookInv'
<1>1. /\ Held'
      /\ \A q \in Requests \ {r} : pc'[q] = pc[q] /\ arg'[q] = arg[q]
      /\ pc'[r] = "done"
  BY EndTransactionHeld DEF Rollback
<1>2. appt' = appt /\ audit' = audit
  BY DEF Rollback
<1>3. Target'
  BY <1>1, <1>2 DEF IInv, BookInv, Target, InTransaction, Creates
<1>4. Checked'
  BY <1>1, <1>2 DEF IInv, BookInv, Checked, InTheWay, Occupying, Locking, Logged
<1> QED
  BY <1>1, <1>2, <1>3, <1>4, QuietTables DEF BookInv

LEMMA BeginInv ==
    ASSUME IInv, NEW r \in Requests, NEW at \in InTransaction, NEW x \in Argument, Begin(r, at, x),
           \/ /\ at \in {"lockClient", "lockEmployee"} 
              /\ x.op \in {"create", "public", "reschedule"}
           \/ /\ at = "write"
              /\ x.op \in {"status", "cancel"},
           x.op \in {"create", "public"} => x.id = r /\ x.to # "CANCELED",
           x.op \notin {"create", "public"} => appt[x.id].emp = x.emp /\ appt[x.id].dur = x.dur
    PROVE  BookInv'
<1>1. /\ \A q \in Requests \ {r} : pc'[q] = pc[q] /\ arg'[q] = arg[q]
      /\ pc'[r] = at /\ arg'[r] = x /\ pc[r] = "idle"
      /\ appt' = appt /\ audit' = audit /\ empLock' = empLock
  BY DEF IInv, BookInv, TypeInv, TypeOK, Begin
<1>2. Held'
  BY <1>1 DEF IInv, BookInv, Held, Locking
<1>3. Target'
  BY <1>1 DEF IInv, BookInv, Target, InTransaction, Creates
<1>4. Checked'
  BY <1>1 DEF IInv, BookInv, Checked, InTheWay, Occupying, Locking, Logged
<1> QED
  BY <1>1, <1>2, <1>3, <1>4, QuietTables DEF BookInv

LEMMA ArriveInv ==
    ASSUME IInv, NEW r \in Requests, Arrive(r)
    PROVE  BookInv'
<1>1. ASSUME NEW op \in {"create", "public"}, NEW at \in {"lockClient", "lockEmployee"}, 
             NEW e \in Employees, NEW c \in Clients, NEW s \in Starts, NEW d \in Durations, 
             NEW to \in {"PENDING", "CONFIRMED"},
             Begin(r, at, [op |-> op, id |-> r, emp |-> e, client |-> c, start |-> s,
                           dur |-> d, to |-> to, seen |-> NoSnapshot, newClient |-> FALSE])
      PROVE  BookInv'
  <2> DEFINE x == [op |-> op, id |-> r, emp |-> e, client |-> c, start |-> s,
                   dur |-> d, to |-> to, seen |-> NoSnapshot, newClient |-> FALSE]
  <2>1. /\ x \in Argument /\ x.op \in {"create", "public"} 
        /\ x.id = r /\ x.to # "CANCELED" /\ Begin(r, at, x)
    BY <1>1, SnapshotTypes DEF Argument, AllOps, Status
  <2>2. at \in InTransaction
    BY DEF InTransaction, PC
  <2> HIDE DEF x
  <2>3. at \in {"lockClient", "lockEmployee"} /\ x.op \in {"create", "public", "reschedule"}
    BY <2>1
  <2> QED
    BY <2>1, <2>2, <2>3, BeginInv
<1>2. ASSUME NEW op \in {"status", "cancel", "reschedule"}, NEW a \in Requests, NEW s \in Starts, 
             NEW to \in Status, NEW at \in {"lockEmployee", "write"}, appt[a] # None,
             at = "lockEmployee" <=> op = "reschedule",
             Begin(r, at, OnExisting(op, a, s, to))
      PROVE  BookInv'
  <2> DEFINE x == OnExisting(op, a, s, to)
  <2>1. x \in Argument /\ x.op = op /\ x.id = a
    BY <1>2, OnExistingType DEF IInv, BookInv, AllOps
  <2>2. x.emp = appt[a].emp /\ x.dur = appt[a].dur
    BY DEF OnExisting
  <2>3. at \in InTransaction /\ Begin(r, at, x)
    BY <1>2 DEF InTransaction, PC
  <2> HIDE DEF x
  <2>4. \/ /\ at \in {"lockClient", "lockEmployee"} 
           /\ x.op \in {"create", "public", "reschedule"}
        \/ /\ at = "write"
           /\ x.op \in {"status", "cancel"}
    BY <1>2, <2>1
  <2>5. x.op \notin {"create", "public"} /\ appt[x.id].emp = x.emp /\ appt[x.id].dur = x.dur
    BY <2>1, <2>2
  <2> QED
    BY <2>1, <2>3, <2>4, <2>5, BeginInv
<1>3. \A a \in Requests : appt[a] # None => appt[a].status \in Status /\ appt[a].start \in Starts
  BY DEF IInv, BookInv, TypeInv, TypeOK, Appointment
<1>4. CASE BeginCreate(r)
  BY <1>1, <1>4 DEF BeginCreate
<1>5. CASE BeginPublic(r)
  BY <1>1, <1>5 DEF BeginPublic
<1>6. CASE BeginStatus(r)
  <2>1. PICK a \in Requests : 
          /\ appt[a] # None
          /\ \E to \in AllowedTransitions(appt[a].status) :
                Begin(r, "write", OnExisting("status", a, appt[a].start, to))
    BY <1>6 DEF BeginStatus
  <2>2. PICK to \in AllowedTransitions(appt[a].status) : 
          Begin(r, "write", OnExisting("status", a, appt[a].start, to))
    BY <2>1
  <2>3. to \in Status
    BY <2>2 DEF AllowedTransitions, Status
  <2> QED
    BY <1>2, <1>3, <2>1, <2>2, <2>3
<1>7. CASE BeginCancel(r)
  <2>1. PICK a \in Requests : 
          /\ appt[a] # None
          /\ Begin(r, "write", OnExisting("cancel", a, appt[a].start, "CANCELED"))
    BY <1>7 DEF BeginCancel
  <2>2. "CANCELED" \in Status
    BY DEF Status
  <2> QED
    BY <1>2, <1>3, <2>1, <2>2
<1>8. CASE BeginReschedule(r)
  <2>1. PICK a \in Requests, s \in Starts : 
          /\ appt[a] # None
          /\ Begin(r, "lockEmployee", OnExisting("reschedule", a, s, appt[a].status))
    BY <1>8 DEF BeginReschedule
  <2> QED
    BY <1>2, <1>3, <2>1
<1>9. CASE Refuse(r)
  <2>1. /\ \A q \in Requests \ {r} : pc'[q] = pc[q]
        /\ pc'[r] = "done" /\ arg' = arg
        /\ appt' = appt /\ audit' = audit /\ empLock' = empLock
    BY <1>9 DEF Refuse, IInv, BookInv, TypeInv, TypeOK
  <2>2. Held' /\ Target'
    BY <2>1 DEF IInv, BookInv, Held, Target, Locking, InTransaction, Creates
  <2>3. Checked'
    BY <2>1 DEF IInv, BookInv, Checked, InTheWay, Occupying, Locking, Logged
  <2> QED
    BY <2>1, <2>2, <2>3, QuietTables DEF BookInv
<1> QED
  BY <1>4, <1>5, <1>6, <1>7, <1>8, <1>9 DEF Arrive

\* Taking a lock or passing a query: only LockEmployee touches the employees'
\* locks, and only CheckEmployee lets a request that needs the lock write.
LEMMA CheckInv ==
    ASSUME IInv, NEW r \in Requests,
           LockClient(r) \/ CheckClient(r) \/ LockEmployee(r) \/ CheckEmployee(r)
    PROVE  BookInv'
<1>1. arg[r] \in Argument /\ pc[r] \in InTransaction
  BY ArgumentType DEF IInv, BookInv, LockClient, CheckClient, LockEmployee, CheckEmployee, InTransaction, PC
<1>2. /\ \A q \in Requests \ {r} : pc'[q] = pc[q] /\ arg'[q] = arg[q]
      /\ appt' = appt /\ audit' = audit
      /\ arg'[r].op = arg[r].op /\ arg'[r].id = arg[r].id /\ arg'[r].emp = arg[r].emp
      /\ arg'[r].start = arg[r].start /\ arg'[r].dur = arg[r].dur /\ arg'[r].to = arg[r].to
  BY <1>1 DEF IInv, BookInv, TypeInv, TypeOK, Argument, LockClient, CheckClient, LockEmployee, CheckEmployee
<1>3. Locking(r)
  BY DEF IInv, BookInv, Held, LockClient, CheckClient, LockEmployee, CheckEmployee
<1>4. Target'
  BY <1>1, <1>2 DEF IInv, BookInv, Target, Creates, LockClient, CheckClient, LockEmployee, CheckEmployee,
     TypeInv, TypeOK, InTransaction
<1>5. CASE LockClient(r) \/ CheckClient(r)
  <2>1. empLock' = empLock /\ pc'[r] \in {"checkClient", "lockEmployee"}
    BY <1>5 DEF LockClient, CheckClient, IInv, BookInv, TypeInv, TypeOK
  <2>2. Held'
    BY <1>2, <1>3, <2>1 DEF IInv, BookInv, Held, Locking
  <2>3. Checked'
    BY <1>2, <2>1 DEF IInv, BookInv, Checked, InTheWay, Occupying, Locking, Logged
  <2> QED
    BY <1>2, <1>4, <2>2, <2>3, QuietTables DEF BookInv
<1>6. CASE LockEmployee(r)
  <2>1. pc'[r] = "checkEmployee" /\ empLock'[arg[r].emp] = r
    BY <1>1, <1>6 DEF LockEmployee, IInv, BookInv, TypeInv, TypeOK, Argument
  <2>2. ASSUME NEW q \in Requests \ {r}, pc[q] \in {"checkEmployee", "write"}, Locking(q)
        PROVE  empLock'[arg[q].emp] = q
    <3>1. arg[q].emp \in Employees /\ empLock[arg[q].emp] = q
      BY <2>2, ArgumentType DEF IInv, BookInv, Held, Argument, InTransaction, PC
    <3>2. arg[q].emp # arg[r].emp
      BY <1>6, <3>1 DEF LockEmployee
    <3> QED
      BY <1>1, <1>6, <3>1, <3>2 DEF LockEmployee, IInv, BookInv, TypeInv, TypeOK
  <2>3. Held'
    BY <1>2, <1>3, <2>1, <2>2 DEF IInv, BookInv, Held, Locking
  <2>4. Checked'
    BY <1>2, <2>1 DEF IInv, BookInv, Checked, InTheWay, Occupying, Locking, Logged
  <2> QED
    BY <1>2, <1>4, <2>3, <2>4, QuietTables DEF BookInv
<1>7. CASE CheckEmployee(r)
  <2>1. pc'[r] = "write" /\ empLock' = empLock /\ arg' = arg /\ pc[r] = "checkEmployee"
    BY <1>7 DEF CheckEmployee, IInv, BookInv, TypeInv, TypeOK
  <2>2. Held'
    BY <1>2, <1>3, <2>1 DEF IInv, BookInv, Held, Locking
  <2>3. \A b \in Requests : ~InTheWay(r, b)
    BY <1>7 DEF CheckEmployee, EmployeeConflict, InTheWay
  <2>4. Checked'
    BY <1>2, <2>1, <2>3 DEF IInv, BookInv, Checked, InTheWay, Occupying, Locking, Logged
  <2> QED
    BY <1>2, <1>4, <2>2, <2>4, QuietTables DEF BookInv
<1> QED
  BY <1>5, <1>6, <1>7

\* A request that writes under its employee's lock: nobody else is writing for
\* that employee.
LEMMA OneWriter ==
    ASSUME IInv, NEW r \in Requests, NEW q \in Requests \ {r},
           pc[r] = "write", Locking(r), pc[q] = "write", Locking(q)
    PROVE  arg[q].emp # arg[r].emp
  BY DEF IInv, BookInv, Held

\* The new row is the only one that may get in the way of others or clash, and
\* the conflict query has looked at what it could clash with.
LEMMA PlaceInv ==
    ASSUME IInv, NEW r \in Requests, pc[r] = "write", Locking(r), EndTransaction(r), LogKept,
           NEW x \in Requests, x = arg[r].id,
           \A b \in Requests \ {x} : appt'[b] = appt[b],
           appt'[x] # None,
           appt'[x].emp = arg[r].emp, appt'[x].start = arg[r].start, appt'[x].dur = arg[r].dur
    PROVE  Checked' /\ DoubleBookingOnlyByRevival'
<1>1. /\ \A q \in Requests \ {r} : pc'[q] = pc[q] /\ arg'[q] = arg[q]
      /\ pc'[r] = "done"
  BY EndTransactionHeld
<1>2. "CANCELED" \in Action
  BY DEF Action
<1>3. ASSUME NEW q \in Requests, NEW b \in Requests,
             (pc[q] = "write" /\ Locking(q) /\ InTheWay(q, b))'
      PROVE  Logged(b, "CANCELED")'
  <2>1. q # r /\ pc[q] = "write" /\ Locking(q) /\ arg'[q] = arg[q]
    BY <1>1, <1>3 DEF Locking
  <2>2. b # x
    BY <2>1, <1>3, OneWriter DEF InTheWay
  <2>3. InTheWay(q, b)
    BY <1>3, <2>1, <2>2 DEF InTheWay, Occupying
  <2> QED
    BY <1>2, <2>1, <2>3 DEF IInv, BookInv, Checked, LogKept
<1>4. Checked'
  BY <1>3 DEF Checked
<1>5. ASSUME NEW b \in Requests, Clash(x, b)' \/ Clash(b, x)'
      PROVE  Logged(b, "CANCELED")'
  <2>1. InTheWay(r, b)
    <3>1. b # x /\ appt'[b] = appt[b]
      BY <1>5 DEF Clash
    <3>2. Occupying(b) /\ appt[b].emp = arg[r].emp
      BY <1>5, <3>1 DEF Clash, Occupying
    <3>3. Overlap(arg[r].start, arg[r].dur, appt[b].start, appt[b].dur)
      BY <1>5, <3>1 DEF Clash, Overlap
    <3> QED
      BY <3>1, <3>2, <3>3 DEF InTheWay
  <2> QED
    BY <1>2, <2>1 DEF IInv, BookInv, Checked, LogKept
<1>6. ASSUME NEW a \in Requests \ {x}, NEW b \in Requests \ {x}, Clash(a, b)'
      PROVE  Logged(a, "CANCELED")' \/ Logged(b, "CANCELED")'
  <2>1. Clash(a, b)
    BY <1>6 DEF Clash, Occupying
  <2> QED
    BY <1>2, <2>1 DEF IInv, BookInv, DoubleBookingOnlyByRevival, LogKept
<1>7. DoubleBookingOnlyByRevival'
  BY <1>5, <1>6 DEF DoubleBookingOnlyByRevival
<1> QED BY <1>4, <1>7

\* A change of status brings an appointment back only if it was cancelled.
LEMMA ChangeStatusInv ==
    ASSUME IInv, NEW r \in Requests, pc[r] = "write", ~Locking(r), EndTransaction(r), LogKept,
           NEW x \in Requests, appt[x] # None, appt'[x] # None,
           \A b \in Requests \ {x} : appt'[b] = appt[b],
           appt'[x].emp = appt[x].emp, appt'[x].start = appt[x].start, appt'[x].dur = appt[x].dur,
           appt'[x].status = "CANCELED" => Logged(x, "CANCELED")'
    PROVE  CanceledIsLogged' /\ Checked' /\ DoubleBookingOnlyByRevival'
<1>1. /\ \A q \in Requests \ {r} : pc'[q] = pc[q] /\ arg'[q] = arg[q]
      /\ pc'[r] = "done"
  BY EndTransactionHeld
<1>2. "CANCELED" \in Action
  BY DEF Action
<1>3. CanceledIsLogged'
  BY <1>2 DEF IInv, BookInv, CanceledIsLogged, LogKept
<1>4. ASSUME NEW b \in Requests, Occupying(b)'
      PROVE  Occupying(b) \/ Logged(b, "CANCELED")'
  BY <1>2, <1>4 DEF Occupying, IInv, BookInv, CanceledIsLogged, LogKept
<1>5. \A b \in Requests : Occupying(b) /\ Occupying(b)' =>
         /\ appt'[b].emp = appt[b].emp /\ appt'[b].start = appt[b].start 
         /\ appt'[b].dur = appt[b].dur
  BY DEF Occupying
<1>6. Checked'
  <2> SUFFICES ASSUME NEW q \in Requests, NEW b \in Requests,
                      (pc[q] = "write" /\ Locking(q) /\ InTheWay(q, b))'
               PROVE  Logged(b, "CANCELED")'
    BY DEF Checked
  <2>1. q # r /\ pc[q] = "write" /\ Locking(q) /\ arg'[q] = arg[q]
    BY <1>1 DEF Locking
  <2>2. CASE Occupying(b)
    <3>1. InTheWay(q, b)
      BY <1>5, <2>1, <2>2 DEF InTheWay
    <3> QED
      BY <1>2, <2>1, <3>1 DEF IInv, BookInv, Checked, LogKept
  <2> QED
    BY <1>4, <2>2 DEF InTheWay
<1>7. DoubleBookingOnlyByRevival'
  <2> SUFFICES ASSUME NEW a \in Requests, NEW b \in Requests, Clash(a, b)'
               PROVE  Logged(a, "CANCELED")' \/ Logged(b, "CANCELED")'
    BY DEF DoubleBookingOnlyByRevival
  <2>1. CASE Occupying(a) /\ Occupying(b)
    <3>1. Clash(a, b)
      BY <1>5, <2>1 DEF Clash
    <3> QED
      BY <1>2, <3>1 DEF IInv, BookInv, DoubleBookingOnlyByRevival, LogKept
  <2> QED
    BY <1>4, <2>1 DEF Clash
<1> QED BY <1>3, <1>6, <1>7

LEMMA InsertInv ==
    ASSUME IInv, NEW r \in Requests, pc[r] = "write", Creates(r), Insert(r), EndTransaction(r)
    PROVE  BookInv'
<1>1. arg[r] \in Argument /\ arg[r].id = r /\ Locking(r)
  BY ArgumentType DEF IInv, BookInv, Target, Creates, Locking, InTransaction, PC
<1>2. /\ Held'
      /\ \A q \in Requests \ {r} : pc'[q] = pc[q] /\ arg'[q] = arg[q]
      /\ pc'[r] = "done"
  BY EndTransactionHeld
<1>3. LogKept
  BY RecordLogs DEF IInv, BookInv, Insert, Action
<1> DEFINE new == [status |-> arg[r].to, emp |-> arg[r].emp, client |-> arg[r].client, 
                   start |-> arg[r].start, dur |-> arg[r].dur]
<1>4. new \in Appointment /\ new # None
  BY <1>1 DEF Argument, Appointment
<1>5. appt' = [appt EXCEPT ![r] = new]
  BY DEF Insert
<1>6. new.status = arg[r].to /\ new.emp = arg[r].emp /\ new.start = arg[r].start /\ new.dur = arg[r].dur
  OBVIOUS
<1> HIDE DEF new
<1>7. appt'[r] = new /\ \A b \in Requests \ {r} : appt'[b] = appt[b]
  BY <1>5 DEF IInv, BookInv, TypeInv, TypeOK
<1>8. arg[r].to # "CANCELED"
  BY DEF IInv, BookInv, Target, InTransaction, PC
<1>9. CanceledIsLogged'
  BY <1>3, <1>6, <1>7, <1>8 DEF IInv, BookInv, CanceledIsLogged, LogKept, Action
<1>10. appt[r] = None
  BY DEF IInv, BookInv, Target
<1>11. \A q \in Requests \ {r} : pc[q] \in InTransaction /\ ~Creates(q) => arg[q].id \in Requests \ {r}
  BY <1>10, ArgumentType DEF IInv, BookInv, TypeInv, Started, Argument
<1>12. Target'
  BY <1>2, <1>7, <1>11 DEF IInv, BookInv, Target, InTransaction, Creates
<1>13. Checked' /\ DoubleBookingOnlyByRevival'
  BY <1>1, <1>3, <1>4, <1>6, <1>7, PlaceInv
<1> QED
  BY <1>2, <1>9, <1>12, <1>13 DEF BookInv

\* A write that changes the status or the start of appointment x of request r.
LEMMA UpdateTarget ==
    ASSUME IInv, NEW r \in Requests, pc[r] = "write", ~Creates(r), EndTransaction(r),
           NEW x \in Requests, x = arg[r].id,
           \A b \in Requests \ {x} : appt'[b] = appt[b],
           appt'[x].emp = appt[x].emp, appt'[x].dur = appt[x].dur
    PROVE  Target'
<1>1. /\ \A q \in Requests \ {r} : pc'[q] = pc[q] /\ arg'[q] = arg[q]
      /\ pc'[r] = "done"
  BY EndTransactionHeld
<1>2. appt[x] # None
  BY DEF IInv, BookInv, TypeInv, Started, InTransaction, PC
<1>3. \A q \in Requests : pc[q] \in InTransaction => arg[q].id \in Requests
  BY ArgumentType DEF IInv, BookInv, Argument
<1> QED
  BY <1>1, <1>2, <1>3 DEF IInv, BookInv, Target, InTransaction, Creates

LEMMA UpdateInv ==
    ASSUME IInv, NEW r \in Requests, CommitStatus(r) \/ CommitCancel(r) \/ CommitReschedule(r)
    PROVE  BookInv'
<1>0. arg[r] \in Argument
  BY ArgumentType DEF IInv, BookInv, CommitStatus, CommitCancel, CommitReschedule, InTransaction, PC
<1> PICK x \in Requests : x = arg[r].id
  BY <1>0 DEF Argument
<1>1. arg[r] \in Argument /\ x \in Requests /\ pc[r] = "write" /\ ~Creates(r) /\ EndTransaction(r)
  BY ArgumentType DEF IInv, BookInv, CommitStatus, CommitCancel, CommitReschedule, Creates, InTransaction, 
     PC, Argument
<1>2. appt[x] \in Appointment
  BY <1>1 DEF IInv, BookInv, TypeInv, TypeOK, Started, InTransaction, PC
<1>3. Held'
  BY <1>1, EndTransactionHeld
<1>4. appt[x].emp = arg[r].emp /\ appt[x].dur = arg[r].dur
  BY <1>1 DEF IInv, BookInv, Target, InTransaction, PC
<1>5. "CANCELED" \in Action
  BY DEF Action
<1>6. CASE CommitStatus(r) \/ CommitCancel(r)
  <2>1. PICK to \in Status :
           /\ appt' = [appt EXCEPT ![x] = [appt[x] EXCEPT !.status = to]]
           /\ LogKept
           /\ to = "CANCELED" => Logged(x, "CANCELED")'
    <3>1. CASE CommitStatus(r)
      <4> PICK act \in Action \cap Status : act = arg[r].to
        BY <1>1, <3>1 DEF CommitStatus, IInv, BookInv, TypeInv, Started, Argument, InTransaction, PC
      <4>1. Record(x, act, "USER", OnlyStatus(arg[r].seen.status), OnlyStatus(act))
        BY <3>1 DEF CommitStatus
      <4>2. LogKept /\ Logged(x, act)'
        BY <4>1, RecordLogs DEF IInv
      <4>3. appt' = [appt EXCEPT ![x] = [appt[x] EXCEPT !.status = act]]
        BY <3>1 DEF CommitStatus
      <4> QED
        BY <4>2, <4>3
    <3>2. CASE CommitCancel(r)
      <4>1. Record(x, "CANCELED", "USER", OnlyStatus(arg[r].seen.status), OnlyStatus("CANCELED"))
        BY <3>2 DEF CommitCancel
      <4>2. LogKept /\ Logged(x, "CANCELED")'
        BY <1>5, <4>1, RecordLogs DEF IInv
      <4>3. appt' = [appt EXCEPT ![x] = [appt[x] EXCEPT !.status = "CANCELED"]]
        BY <3>2 DEF CommitCancel
      <4>4. "CANCELED" \in Status
        BY DEF Status
      <4> QED
        BY <4>2, <4>3, <4>4
    <3> QED BY <1>6, <3>1, <3>2
  <2>2. ~Locking(r)
    BY <1>6 DEF CommitStatus, CommitCancel, Locking
  <2>3. appt'[x] = [appt[x] EXCEPT !.status = to] /\ \A b \in Requests \ {x} : appt'[b] = appt[b]
    BY <1>1, <2>1 DEF IInv, BookInv, TypeInv, TypeOK
  <2>4. /\ appt'[x].emp = appt[x].emp /\ appt'[x].start = appt[x].start
        /\ appt'[x].dur = appt[x].dur /\ appt'[x].status = to
        /\ appt'[x] \in Appointment
    BY <1>2, <2>3 DEF Appointment
  <2>5. appt[x] # None /\ appt'[x] # None
    BY <1>2, <2>4
  <2>6. CanceledIsLogged' /\ Checked' /\ DoubleBookingOnlyByRevival'
    BY <1>1, <2>1, <2>2, <2>3, <2>4, <2>5, ChangeStatusInv
  <2>7. Target'
    BY <1>1, <2>3, <2>4, UpdateTarget
  <2> QED
    BY <1>3, <2>6, <2>7 DEF BookInv
<1>7. CASE CommitReschedule(r)
  <2>1. appt' = [appt EXCEPT ![x] = [appt[x] EXCEPT !.start = arg[r].start]]
    BY <1>7 DEF CommitReschedule
  <2>2. LogKept
    <3>1. CASE arg[r].start # arg[r].seen.start
      BY <1>1, <1>7, <3>1, RecordLogs DEF CommitReschedule, IInv, BookInv, Action
    <3>2. CASE arg[r].start = arg[r].seen.start
      BY <1>7, <3>2 DEF CommitReschedule, LogKept, Logged
    <3> QED BY <3>1, <3>2
  <2>3. Locking(r)
    BY <1>7 DEF CommitReschedule, Locking
  <2>4. appt'[x] = [appt[x] EXCEPT !.start = arg[r].start] /\ \A b \in Requests \ {x} : appt'[b] = appt[b]
    BY <1>1, <2>1 DEF IInv, BookInv, TypeInv, TypeOK
  <2>5. /\ appt'[x].emp = appt[x].emp /\ appt'[x].start = arg[r].start
        /\ appt'[x].dur = appt[x].dur /\ appt'[x].status = appt[x].status
        /\ appt'[x] \in Appointment
    BY <1>1, <1>2, <2>4 DEF Appointment, Argument
  <2>6. appt[x] # None /\ appt'[x] # None
    BY <1>2, <2>5
  <2>7. \A b \in Requests \ {x} : appt'[b] = appt[b]
    BY <2>4
  <2>8. Checked' /\ DoubleBookingOnlyByRevival'
    BY <1>1, <1>4, <2>2, <2>3, <2>5, <2>6, <2>7, PlaceInv
  <2>9. Target'
    BY <1>1, <2>5, <2>7, UpdateTarget
  <2>10. ASSUME NEW a \in Requests, appt'[a] # None, appt'[a].status = "CANCELED"
         PROVE  Logged(a, "CANCELED")'
    <3>1. appt[a] # None /\ appt[a].status = "CANCELED"
      BY <2>5, <2>6, <2>7, <2>10
    <3> QED
      BY <1>5, <2>2, <3>1 DEF IInv, BookInv, CanceledIsLogged, LogKept
  <2>11. CanceledIsLogged'
    BY <2>10 DEF CanceledIsLogged
  <2> QED
    BY <1>3, <2>8, <2>9, <2>11 DEF BookInv
<1> QED
  BY <1>6, <1>7

LEMMA StepInv == IInv /\ [Next]_vars => IInv'
<1> SUFFICES ASSUME IInv, [Next]_vars PROVE IInv'
  OBVIOUS
<1>1. TypeInv'
  BY StepType DEF IInv, BookInv
<1>2. ASSUME NEW r \in Requests, Arrive(r) PROVE BookInv'
  BY <1>2, ArriveInv
<1>3. ASSUME NEW r \in Requests, Serve(r) PROVE BookInv'
  <2>1. CASE LockClient(r) \/ CheckClient(r) \/ LockEmployee(r) \/ CheckEmployee(r)
    BY <2>1, CheckInv
  <2>2. CASE CommitCreate(r) \/ CommitPublic(r)
    BY <2>2, InsertInv DEF CommitCreate, CommitPublic, Creates
  <2>3. CASE CommitStatus(r) \/ CommitCancel(r) \/ CommitReschedule(r)
    BY <2>3, UpdateInv
  <2>4. CASE RejectConflict(r)
    BY <2>4, RollbackInv DEF RejectConflict, InTransaction, PC
  <2> QED
    BY <1>3, <2>1, <2>2, <2>3, <2>4 DEF Serve
<1>4. ASSUME NEW r \in Requests, Fail(r) PROVE BookInv'
  BY <1>4, RollbackInv DEF Fail
<1>5. ASSUME UNCHANGED <<appt, outbox, audit, cliLock, empLock, pc, arg>> PROVE BookInv'
  <2>1. Held' /\ Target' /\ Checked'
    BY <1>5 DEF IInv, BookInv, Held, Target, Checked, InTheWay, Occupying, Locking, Creates, Logged
  <2> QED
    BY <1>5, <2>1, QuietTables DEF BookInv
<1>6. BookInv'
  BY <1>2, <1>3, <1>4, <1>5, StaffQuiet DEF Next, AllServed, vars
<1> QED
  BY <1>1, <1>6 DEF IInv, BookInv

LEMMA InitInv == Init => IInv
<1> SUFFICES ASSUME Init PROVE IInv
  OBVIOUS
<1>1. Held /\ Target /\ CanceledIsLogged /\ Checked /\ DoubleBookingOnlyByRevival
  BY DEF Init, Held, Target, CanceledIsLogged, Checked, DoubleBookingOnlyByRevival, Clash, 
     Occupying, InTransaction
<1> QED
  BY <1>1, InitType DEF IInv, BookInv

\* No interleaving of creations, public bookings and reschedules gives one employee
\* two appointments at once: any such pair has a cancelled appointment in it that a
\* status update brought back.
THEOREM NoOtherDoubleBooking == Spec => []DoubleBookingOnlyByRevival
<1>1. IInv => DoubleBookingOnlyByRevival
  BY DEF IInv, BookInv
<1> QED
  BY <1>1, InitInv, StepInv, PTL DEF Spec

----------------------------------------------------------------------------
(* The audit log, the outbox and what a request has read: the inductive    *)
(* invariant, on top of IInv                                               *)

ShowsStatus(a, s) == \E i \in DOMAIN audit[a] : audit[a][i].after.status = s
ShowsStart(a, s)  == \E i \in DOMAIN audit[a] : audit[a][i].after.start = s

\* The log of an appointment begins with the appointment and shows its values.
Shown ==
    \A a \in Requests :
        /\ appt[a] = None => Len(audit[a]) = 0
        /\ appt[a] # None => /\ Len(audit[a]) > 0
                             /\ ShowsStatus(a, appt[a].status) 
                             /\ ShowsStart(a, appt[a].start)

\* What a request is about to write fits what it had read, and that is in the log.
Fitting ==
    \A r \in Requests : pc[r] \in InTransaction =>
        LET x == arg[r] IN
        /\ x.op = "create" => x.to = "CONFIRMED"
        /\ x.op = "public" => x.to = "PENDING"
        /\ x.op = "status" => x.to \in {"CONFIRMED", "COMPLETED", "NO_SHOW"}
        /\ x.op = "cancel" => x.to = "CANCELED"
        /\ ~Creates(r) => appt[x.id].client = x.client
        /\ x.op \in {"status", "cancel"} => /\ x.seen.status # x.to 
                                            /\ ShowsStatus(x.id, x.seen.status)
        /\ x.op = "reschedule" => ShowsStart(x.id, x.seen.start)

\* A row of the log asks for e-mail k at t.
Calls(row, k, t) ==
    \/ k = "requested" /\ t = None /\ row.after.status = "PENDING"
    \/ k = "confirmed" /\ t = None /\ row.after.status = "CONFIRMED"
    \/ k = "canceled" /\ t = None /\ row.after.status = "CANCELED"
    \/ k = "rescheduled" /\ row.action = "RESCHEDULED" /\ t = row.after.start

KeyOf(a, k, t) == [appt |-> a, kind |-> k, at |-> t]

\* OutboxMatchesAudit, in these terms.
Queued ==
    \A a \in Requests, k \in Kind, t \in Starts \cup {None} :
        KeyOf(a, k, t) \in outbox <=>
            /\ appt[a] # None /\ appt[a].client \in WithEmail
            /\ \E i \in DOMAIN audit[a] : Calls(audit[a][i], k, t)

LogInv == Shown /\ Fitting /\ LoggedStatusIsCurrent /\ LoggedPreviousWasCurrent /\ Queued

JInv == IInv /\ LogInv

----------------------------------------------------------------------------
(* One row is written *)

LEMMA AppendRow ==
    ASSUME TypeInv, NEW x \in Requests, NEW act \in Action, NEW who \in {"USER", "PUBLIC"}, 
           NEW before \in Snapshot, NEW after \in Snapshot,
           Record(x, act, who, before, after)
    PROVE  /\ \A a \in Requests \ {x} : audit'[a] = audit[a]
           /\ audit[x] \in Seq(AuditRow) /\ audit'[x] \in Seq(AuditRow)
           /\ Len(audit[x]) \in Nat 
           /\ Len(audit'[x]) = Len(audit[x]) + 1
           /\ DOMAIN audit[x] = 1 .. Len(audit[x])
           /\ DOMAIN audit'[x] = 1 .. Len(audit[x]) + 1
           /\ \A i \in 1 .. Len(audit[x]) : audit'[x][i] = audit[x][i]
           /\ audit'[x][Len(audit[x]) + 1].action = act
           /\ audit'[x][Len(audit[x]) + 1].actor = who
           /\ audit'[x][Len(audit[x]) + 1].before = before
           /\ audit'[x][Len(audit[x]) + 1].after = after
<1> DEFINE row == [action |-> act, actor |-> who, before |-> before, after |-> after]
<1>1. row \in AuditRow
  BY DEF AuditRow
<1>2. row.action = act /\ row.actor = who /\ row.before = before /\ row.after = after
  OBVIOUS
<1>3. audit \in [Requests -> Seq(AuditRow)] /\ audit' = [audit EXCEPT ![x] = Append(@, row)]
  BY DEF TypeInv, TypeOK, Record
<1> HIDE DEF row
<1>4. audit[x] \in Seq(AuditRow) /\ audit'[x] = Append(audit[x], row)
  BY <1>3
<1>5. \A a \in Requests \ {x} : audit'[a] = audit[a]
  BY <1>3
<1> QED
  BY <1>1, <1>2, <1>4, <1>5

\* The last status shown stays that of the appointment.
LEMMA StatusStays ==
    ASSUME TypeInv, Shown, LoggedStatusIsCurrent,
           NEW x \in Requests, NEW act \in Action, NEW who \in {"USER", "PUBLIC"}, 
           NEW before \in Snapshot, NEW after \in Snapshot,
           Record(x, act, who, before, after),
           \A b \in Requests \ {x} : appt'[b] = appt[b],
           appt'[x] # None,
           after.status # None => appt'[x].status = after.status,
           after.status = None => appt[x] # None /\ appt'[x].status = appt[x].status
    PROVE  LoggedStatusIsCurrent'
<1> PICK n \in Nat : n = Len(audit[x])
  BY AppendRow
<1>1. /\ \A a \in Requests \ {x} : audit'[a] = audit[a]
      /\ DOMAIN audit[x] = 1 .. n
      /\ DOMAIN audit'[x] = 1 .. n + 1
      /\ \A i \in 1 .. n : audit'[x][i] = audit[x][i]
      /\ audit'[x][n + 1].after = after
  BY AppendRow
<1> SUFFICES ASSUME NEW a \in Requests
             PROVE  /\ appt'[a] = None <=> \A i \in DOMAIN audit'[a] : audit'[a][i].after.status = None
                    /\ \A i \in DOMAIN audit'[a] : 
                          /\ audit'[a][i].after.status # None
                          /\ \A j \in DOMAIN audit'[a] : audit'[a][j].after.status # None => j <= i
                          => audit'[a][i].after.status = appt'[a].status
  BY Zenon DEF LoggedStatusIsCurrent
<1>2. /\ appt[a] = None <=> \A i \in DOMAIN audit[a] : audit[a][i].after.status = None
      /\ \A i \in DOMAIN audit[a] : 
            /\ audit[a][i].after.status # None
            /\ \A j \in DOMAIN audit[a] : audit[a][j].after.status # None => j <= i
            => audit[a][i].after.status = appt[a].status
  BY Zenon DEF LoggedStatusIsCurrent
<1>3. CASE a # x
  BY <1>1, <1>2, <1>3
<1>4. CASE a = x /\ after.status = None
  <2>1. \A i \in 1 .. n + 1 : i = n + 1 \/ i \in 1 .. n
    OBVIOUS
  <2>2. \A i \in 1 .. n : i \in DOMAIN audit'[x] /\ i \in DOMAIN audit[x]
    BY <1>1
  <2>3. appt[x] # None /\ appt'[x].status = appt[x].status
    BY <1>4
  <2>4. ~ \A i \in DOMAIN audit'[x] : audit'[x][i].after.status = None
    BY <1>1, <1>2, <1>4, <2>2, <2>3
  <2>5. ASSUME NEW i \in DOMAIN audit'[x], audit'[x][i].after.status # None,
               \A j \in DOMAIN audit'[x] : audit'[x][j].after.status # None => j <= i
        PROVE  audit'[x][i].after.status = appt'[x].status
    <3>1. i \in 1 .. n
      BY <1>1, <1>4, <2>1, <2>5
    <3>2. \A j \in DOMAIN audit[x] : audit[x][j].after.status # None => j <= i
      BY <1>1, <2>2, <2>5
    <3> QED
      BY <1>1, <1>2, <1>4, <2>2, <2>3, <2>5, <3>1, <3>2
  <2> QED
    BY <1>4, <2>4, <2>5
<1>5. CASE a = x /\ after.status # None
  <2>1. n + 1 \in DOMAIN audit'[x]
    BY <1>1
  <2>2. \A i \in 1 .. n + 1 : n + 1 <= i => i = n + 1
    OBVIOUS
  <2> QED
    BY <1>1, <1>5, <2>1, <2>2
<1> QED BY <1>3, <1>4, <1>5

\* What the log shows, it goes on showing; the new row is shown too.
LEMMA ShownStays ==
    ASSUME TypeInv, NEW x \in Requests, NEW act \in Action, NEW who \in {"USER", "PUBLIC"}, 
           NEW before \in Snapshot, NEW after \in Snapshot,
           Record(x, act, who, before, after)
    PROVE  /\ \A a \in Requests, s \in Status \cup {None} : ShowsStatus(a, s) => ShowsStatus(a, s)'
           /\ \A a \in Requests, s \in Starts \cup {None} : ShowsStart(a, s) => ShowsStart(a, s)'
           /\ ShowsStatus(x, after.status)' /\ ShowsStart(x, after.start)'
           /\ \A a \in Requests : Len(audit[a]) > 0 => Len(audit'[a]) > 0
           /\ Len(audit'[x]) > 0
<1> PICK n \in Nat : n = Len(audit[x])
  BY AppendRow
<1>1. /\ \A a \in Requests \ {x} : audit'[a] = audit[a]
      /\ DOMAIN audit[x] = 1 .. n
      /\ DOMAIN audit'[x] = 1 .. n + 1
      /\ \A i \in 1 .. n : audit'[x][i] = audit[x][i]
      /\ audit'[x][n + 1].after = after
      /\ Len(audit'[x]) = n + 1
  BY AppendRow
<1>2. \A i \in 1 .. n : i \in 1 .. n + 1
  OBVIOUS
<1>3. n + 1 \in 1 .. n + 1
  OBVIOUS
<1>4. \A s \in Status \cup {None} : ShowsStatus(x, s) => ShowsStatus(x, s)'
  BY <1>1, <1>2 DEF ShowsStatus
<1>5. \A s \in Starts \cup {None} : ShowsStart(x, s) => ShowsStart(x, s)'
  BY <1>1, <1>2 DEF ShowsStart
<1>6. ShowsStatus(x, after.status)' /\ ShowsStart(x, after.start)'
  BY <1>1, <1>3 DEF ShowsStatus, ShowsStart
<1>7. \A a \in Requests \ {x} : 
         /\ \A s \in Status \cup {None} : ShowsStatus(a, s) => ShowsStatus(a, s)'
         /\ \A s \in Starts \cup {None} : ShowsStart(a, s) => ShowsStart(a, s)'
  BY <1>1 DEF ShowsStatus, ShowsStart
<1>8. \A a \in Requests : Len(audit[a]) > 0 => Len(audit'[a]) > 0
  BY <1>1
<1> QED
  BY <1>1, <1>4, <1>5, <1>6, <1>7, <1>8

\* The previous values of the new row are those of an earlier row.
LEMMA ChainStays ==
    ASSUME TypeInv, LoggedPreviousWasCurrent,
           NEW x \in Requests, NEW act \in Action, NEW who \in {"USER", "PUBLIC"}, 
           NEW before \in Snapshot, NEW after \in Snapshot,
           Record(x, act, who, before, after),
           Len(audit[x]) > 0 /\ after.status # None =>
              ShowsStatus(x, before.status) /\ before.status # after.status,
           Len(audit[x]) > 0 /\ after.start # None =>
              ShowsStart(x, before.start) /\ before.start # after.start
    PROVE  LoggedPreviousWasCurrent'
<1> PICK n \in Nat : n = Len(audit[x])
  BY AppendRow
<1>1. /\ \A a \in Requests \ {x} : audit'[a] = audit[a]
      /\ DOMAIN audit[x] = 1 .. n
      /\ DOMAIN audit'[x] = 1 .. n + 1
      /\ \A i \in 1 .. n : audit'[x][i] = audit[x][i]
      /\ audit'[x][n + 1].before = before
      /\ audit'[x][n + 1].after = after
  BY AppendRow
<1>2. \A a \in Requests : \A i \in DOMAIN audit[a] : i > 1 =>
         /\ audit[a][i].after.status # None => \E j \in 1..(i - 1) :
               /\ audit[a][j].after.status = audit[a][i].before.status
               /\ audit[a][i].before.status # audit[a][i].after.status
         /\ audit[a][i].after.start # None => \E j \in 1..(i - 1) :
               /\ audit[a][j].after.start = audit[a][i].before.start
               /\ audit[a][i].before.start # audit[a][i].after.start
  BY DEF LoggedPreviousWasCurrent
<1>3. ASSUME NEW a \in Requests, NEW i \in DOMAIN audit'[a], i > 1
      PROVE  /\ audit'[a][i].after.status # None => \E j \in 1..(i - 1) :
                   /\ audit'[a][j].after.status = audit'[a][i].before.status
                   /\ audit'[a][i].before.status # audit'[a][i].after.status
             /\ audit'[a][i].after.start # None => \E j \in 1..(i - 1) :
                   /\ audit'[a][j].after.start = audit'[a][i].before.start
                   /\ audit'[a][i].before.start # audit'[a][i].after.start
  <2>1. CASE a # x
    BY <1>1, <1>2, <1>3, <2>1
  <2>2. CASE a = x /\ i \in 1 .. n
    <3>1. \A j \in 1 .. i - 1 : j \in 1 .. n
      BY <2>2
    <3>2. i \in DOMAIN audit[x] /\ audit'[x][i] = audit[x][i]
      BY <1>1, <2>2
    <3>3. /\ audit[x][i].after.status # None => \E j \in 1..(i - 1) :
               /\ audit[x][j].after.status = audit[x][i].before.status
               /\ audit[x][i].before.status # audit[x][i].after.status
          /\ audit[x][i].after.start # None => \E j \in 1..(i - 1) :
               /\ audit[x][j].after.start = audit[x][i].before.start
               /\ audit[x][i].before.start # audit[x][i].after.start
      BY <1>2, <1>3, <3>2
    <3>4. \A j \in 1 .. i - 1 : audit'[x][j] = audit[x][j]
      BY <1>1, <3>1
    <3>5. audit[x][i].after.status # None => \E j \in 1..(i - 1) :
               /\ audit'[x][j].after.status = audit[x][i].before.status
               /\ audit[x][i].before.status # audit[x][i].after.status
      BY <3>3, <3>4
    <3>6. audit[x][i].after.start # None => \E j \in 1..(i - 1) :
               /\ audit'[x][j].after.start = audit[x][i].before.start
               /\ audit[x][i].before.start # audit[x][i].after.start
      BY <3>3, <3>4
    <3> QED
      BY <2>2, <3>2, <3>5, <3>6
  <2>3. CASE a = x /\ i = n + 1
    <3>1. n > 0 /\ i - 1 = n
      BY <1>3, <2>3
    <3>2. after.status # None => \E j \in 1 .. n : 
             audit[x][j].after.status = before.status /\ before.status # after.status
      BY <1>1, <3>1 DEF ShowsStatus
    <3>3. after.start # None => \E j \in 1 .. n : 
             audit[x][j].after.start = before.start /\ before.start # after.start
      BY <1>1, <3>1 DEF ShowsStart
    <3>4. after.status # None => \E j \in 1 .. n : 
             audit'[x][j].after.status = before.status /\ before.status # after.status
      BY <1>1, <3>2
    <3>5. after.start # None => \E j \in 1 .. n : 
             audit'[x][j].after.start = before.start /\ before.start # after.start
      BY <1>1, <3>3
    <3> QED
      BY <1>1, <2>3, <3>1, <3>4, <3>5
  <2> QED
    BY <1>1, <1>3, <2>1, <2>2, <2>3
<1> QED
  BY <1>3 DEF LoggedPreviousWasCurrent

\* The outbox and the log grow together: exactly by what the new row asks for.
LEMMA OutboxStays ==
    ASSUME TypeInv, Queued,
           NEW x \in Requests, NEW act \in Action, NEW who \in {"USER", "PUBLIC"}, 
           NEW before \in Snapshot, NEW after \in Snapshot,
           Record(x, act, who, before, after),
           \A b \in Requests \ {x} : appt'[b] = appt[b],
           appt'[x] # None,
           appt[x] = None => Len(audit[x]) = 0,
           appt[x] # None => appt'[x].client = appt[x].client,
           \A a \in Requests, k \in Kind, t \in Starts \cup {None} :
              KeyOf(a, k, t) \in outbox' <=> 
                 \/ KeyOf(a, k, t) \in outbox
                 \/ /\ a = x /\ appt'[x].client \in WithEmail 
                    /\ Calls([action |-> act, after |-> after], k, t)
    PROVE  Queued'
<1> PICK n \in Nat : n = Len(audit[x])
  BY AppendRow
<1>1. /\ \A a \in Requests \ {x} : audit'[a] = audit[a]
      /\ DOMAIN audit[x] = 1 .. n
      /\ DOMAIN audit'[x] = 1 .. n + 1
      /\ \A i \in 1 .. n : audit'[x][i] = audit[x][i]
      /\ audit'[x][n + 1].action = act
      /\ audit'[x][n + 1].after = after
  BY AppendRow
<1>2. \A a \in Requests, k \in Kind, t \in Starts \cup {None} :
         KeyOf(a, k, t) \in outbox <=>
            /\ appt[a] # None /\ appt[a].client \in WithEmail
            /\ \E i \in DOMAIN audit[a] : Calls(audit[a][i], k, t)
  BY DEF Queued
<1>3. ASSUME NEW a \in Requests, NEW k \in Kind, NEW t \in Starts \cup {None}
      PROVE  KeyOf(a, k, t) \in outbox' <=>
                /\ appt'[a] # None /\ appt'[a].client \in WithEmail
                /\ \E i \in DOMAIN audit'[a] : Calls(audit'[a][i], k, t)
  <2>1. CASE a # x
    BY <1>1, <1>2, <2>1
  <2>2. CASE a = x
    <3>1. Calls(audit'[x][n + 1], k, t) <=> Calls([action |-> act, after |-> after], k, t)
      BY <1>1 DEF Calls
    <3>2. \A i \in 1 .. n + 1 : i \in 1 .. n \/ i = n + 1
      OBVIOUS
    <3>3. n + 1 \in 1 .. n + 1 /\ \A i \in 1 .. n : i \in 1 .. n + 1
      OBVIOUS
    <3>4. (\E i \in DOMAIN audit'[x] : Calls(audit'[x][i], k, t)) <=>
             \/ \E i \in DOMAIN audit[x] : Calls(audit[x][i], k, t)
             \/ Calls([action |-> act, after |-> after], k, t)
      BY <1>1, <3>1, <3>2, <3>3
    <3>5. appt[x] = None => ~ \E i \in DOMAIN audit[x] : Calls(audit[x][i], k, t)
      BY <1>1
    <3> QED
      BY <1>2, <2>2, <3>4, <3>5
  <2> QED BY <2>1, <2>2
<1> QED
  BY <1>3 DEF Queued

----------------------------------------------------------------------------
(* Every step *)

LEMMA QuietLog ==
    ASSUME JInv, UNCHANGED <<appt, audit, outbox>>
    PROVE  /\ Shown' /\ LoggedStatusIsCurrent' /\ LoggedPreviousWasCurrent' /\ Queued'
           /\ \A a \in Requests, s \in Status \cup {None} : ShowsStatus(a, s) => ShowsStatus(a, s)'
           /\ \A a \in Requests, s \in Starts \cup {None} : ShowsStart(a, s) => ShowsStart(a, s)'
<1>1. Shown'
  BY DEF JInv, LogInv, Shown, ShowsStatus, ShowsStart
<1>2. LoggedStatusIsCurrent'
  BY DEF JInv, LogInv, LoggedStatusIsCurrent
<1>3. LoggedPreviousWasCurrent'
  BY DEF JInv, LogInv, LoggedPreviousWasCurrent
<1>0. outbox' = outbox /\ audit' = audit /\ appt' = appt
  OBVIOUS
<1>4. Queued'
  BY <1>0 DEF JInv, LogInv, Queued, Calls
<1> QED
  BY <1>1, <1>2, <1>3, <1>4 DEF ShowsStatus, ShowsStart

\* What a request has read stays in the log while others write.
LEMMA FittingKept ==
    ASSUME JInv,
           \A q \in Requests : pc'[q] \in InTransaction =>
              /\ pc[q] \in InTransaction
              /\ arg'[q].op = arg[q].op /\ arg'[q].id = arg[q].id /\ arg'[q].to = arg[q].to
              /\ arg'[q].client = arg[q].client /\ arg'[q].seen = arg[q].seen,
           \A a \in Requests, s \in Status \cup {None} : ShowsStatus(a, s) => ShowsStatus(a, s)',
           \A a \in Requests, s \in Starts \cup {None} : ShowsStart(a, s) => ShowsStart(a, s)',
           \A a \in Requests : appt[a] # None => appt'[a].client = appt[a].client
    PROVE  Fitting'
<1> SUFFICES ASSUME NEW r \in Requests, pc'[r] \in InTransaction
             PROVE  /\ arg'[r].op = "create" => arg'[r].to = "CONFIRMED"
                    /\ arg'[r].op = "public" => arg'[r].to = "PENDING"
                    /\ arg'[r].op = "status" => arg'[r].to \in {"CONFIRMED", "COMPLETED", "NO_SHOW"}
                    /\ arg'[r].op = "cancel" => arg'[r].to = "CANCELED"
                    /\ ~Creates(r)' => appt'[arg'[r].id].client = arg'[r].client
                    /\ arg'[r].op \in {"status", "cancel"} => 
                          /\ arg'[r].seen.status # arg'[r].to
                          /\ ShowsStatus(arg[r].id, arg[r].seen.status)'
                    /\ arg'[r].op = "reschedule" => ShowsStart(arg[r].id, arg[r].seen.start)'
  BY DEF Fitting
<1>1. /\ pc[r] \in InTransaction
      /\ arg'[r].op = arg[r].op /\ arg'[r].id = arg[r].id /\ arg'[r].to = arg[r].to
      /\ arg'[r].client = arg[r].client /\ arg'[r].seen = arg[r].seen
  OBVIOUS
<1>2. arg[r] \in Argument
  BY <1>1, ArgumentType DEF JInv, IInv
<1>3. /\ arg[r].id \in Requests /\ arg[r].seen.status \in Status \cup {None}
      /\ arg[r].seen.start \in Starts \cup {None}
  BY <1>2 DEF Argument, Snapshot
<1>4. /\ arg[r].op = "create" => arg[r].to = "CONFIRMED"
      /\ arg[r].op = "public" => arg[r].to = "PENDING"
      /\ arg[r].op = "status" => arg[r].to \in {"CONFIRMED", "COMPLETED", "NO_SHOW"}
      /\ arg[r].op = "cancel" => arg[r].to = "CANCELED"
      /\ arg[r].op \notin {"create", "public"} => appt[arg[r].id].client = arg[r].client
      /\ arg[r].op \in {"status", "cancel"} => /\ arg[r].seen.status # arg[r].to 
                                               /\ ShowsStatus(arg[r].id, arg[r].seen.status)
      /\ arg[r].op = "reschedule" => ShowsStart(arg[r].id, arg[r].seen.start)
  BY <1>1 DEF JInv, LogInv, Fitting, Creates
<1>5. arg[r].op \notin {"create", "public"} => appt[arg[r].id] # None
  BY <1>1 DEF JInv, IInv, TypeInv, Started, Creates
<1>6. Creates(r)' <=> Creates(r)
  BY <1>1 DEF Creates
<1>7. ~Creates(r) => appt'[arg[r].id].client = arg[r].client
  BY <1>3, <1>4, <1>5 DEF Creates
<1> QED
  BY <1>1, <1>3, <1>4, <1>6, <1>7

\* A request that arrives with an argument that fits.
LEMMA BeginLog ==
    ASSUME JInv, NEW r \in Requests, NEW at \in InTransaction, NEW x \in Argument, Begin(r, at, x),
           x.op = "create" => x.to = "CONFIRMED",
           x.op = "public" => x.to = "PENDING",
           x.op = "status" => x.to \in {"CONFIRMED", "COMPLETED", "NO_SHOW"},
           x.op = "cancel" => x.to = "CANCELED",
           x.op \notin {"create", "public"} => appt[x.id].client = x.client,
           x.op \in {"status", "cancel"} => /\ x.seen.status # x.to 
                                            /\ ShowsStatus(x.id, x.seen.status),
           x.op = "reschedule" => ShowsStart(x.id, x.seen.start)
    PROVE  LogInv'
<1>1. /\ \A q \in Requests \ {r} : pc'[q] = pc[q] /\ arg'[q] = arg[q]
      /\ arg'[r] = x
      /\ appt' = appt /\ audit' = audit /\ outbox' = outbox
  BY DEF JInv, IInv, TypeInv, TypeOK, Begin
<1>2. Fitting'
  BY <1>1 DEF JInv, LogInv, Fitting, Creates, ShowsStatus, ShowsStart
<1> QED
  BY <1>1, <1>2, QuietLog DEF LogInv

\* A request on an appointment fits: it has read what the log shows.
LEMMA BeginOnExistingLog ==
    ASSUME JInv, NEW r \in Requests, NEW at \in InTransaction, 
           NEW op \in {"status", "cancel", "reschedule"}, NEW a \in Requests, appt[a] # None,
           NEW s \in Starts, NEW to \in Status,
           op = "status" => to \in {"CONFIRMED", "COMPLETED", "NO_SHOW"},
           op = "cancel" => to = "CANCELED",
           op \in {"status", "cancel"} => appt[a].status # to,
           Begin(r, at, OnExisting(op, a, s, to))
    PROVE  LogInv'
<1> DEFINE x == OnExisting(op, a, s, to)
<1>1. x \in Argument /\ x.op = op /\ x.id = a /\ x.to = to
  BY OnExistingType DEF JInv, IInv, AllOps
<1>2. /\ x.client = appt[a].client
      /\ x.seen.status = appt[a].status /\ x.seen.start = appt[a].start
  BY DEF OnExisting, SnapshotOf
<1>3. Begin(r, at, x)
  OBVIOUS
<1>4. ShowsStatus(a, appt[a].status) /\ ShowsStart(a, appt[a].start)
  BY DEF JInv, LogInv, Shown
<1> HIDE DEF x
<1>5. ShowsStatus(x.id, x.seen.status) /\ ShowsStart(x.id, x.seen.start)
  BY <1>1, <1>2, <1>4
<1>6. x.op \in {"status", "cancel"} => x.seen.status # x.to 
  BY <1>1, <1>2
<1>7. /\ x.op = "create" => x.to = "CONFIRMED"
      /\ x.op = "public" => x.to = "PENDING"
      /\ x.op = "status" => x.to \in {"CONFIRMED", "COMPLETED", "NO_SHOW"}
      /\ x.op = "cancel" => x.to = "CANCELED"
      /\ x.op \notin {"create", "public"} => appt[x.id].client = x.client
  BY <1>1, <1>2
<1> QED
  BY <1>1, <1>3, <1>5, <1>6, <1>7, BeginLog

LEMMA ArriveLog ==
    ASSUME JInv, NEW r \in Requests, Arrive(r)
    PROVE  LogInv'
<1>1. ASSUME NEW op \in {"create", "public"}, NEW at \in {"lockClient", "lockEmployee"}, 
             NEW e \in Employees, NEW c \in Clients, NEW s \in Starts, NEW d \in Durations, 
             NEW to \in {"PENDING", "CONFIRMED"},
             op = "create" <=> to = "CONFIRMED",
             Begin(r, at, [op |-> op, id |-> r, emp |-> e, client |-> c, start |-> s,
                           dur |-> d, to |-> to, seen |-> NoSnapshot, newClient |-> FALSE])
      PROVE  LogInv'
  <2> DEFINE x == [op |-> op, id |-> r, emp |-> e, client |-> c, start |-> s,
                   dur |-> d, to |-> to, seen |-> NoSnapshot, newClient |-> FALSE]
  <2>1. x \in Argument /\ x.op = op /\ x.to = to /\ Begin(r, at, x)
    BY <1>1, SnapshotTypes DEF Argument, AllOps, Status
  <2>2. at \in InTransaction
    BY DEF InTransaction, PC
  <2> HIDE DEF x
  <2>3. /\ x.op = "create" => x.to = "CONFIRMED"
        /\ x.op = "public" => x.to = "PENDING"
        /\ x.op \in {"create", "public"}
    BY <1>1, <2>1
  <2> QED
    BY <2>1, <2>2, <2>3, BeginLog
<1>2. "write" \in InTransaction /\ "lockEmployee" \in InTransaction
  BY DEF InTransaction, PC
<1>3. \A a \in Requests : appt[a] # None => appt[a].status \in Status /\ appt[a].start \in Starts
  BY DEF JInv, IInv, TypeInv, TypeOK, Appointment
<1>4. CASE BeginCreate(r)
  BY <1>1, <1>4 DEF BeginCreate
<1>5. CASE BeginPublic(r)
  BY <1>1, <1>5 DEF BeginPublic
<1>6. CASE BeginStatus(r)
  <2>1. PICK a \in Requests : 
          /\ appt[a] # None
          /\ \E to \in AllowedTransitions(appt[a].status) :
                Begin(r, "write", OnExisting("status", a, appt[a].start, to))
    BY <1>6 DEF BeginStatus
  <2>2. PICK to \in AllowedTransitions(appt[a].status) : 
          Begin(r, "write", OnExisting("status", a, appt[a].start, to))
    BY <2>1
  <2>3. to \in Status /\ to \in {"CONFIRMED", "COMPLETED", "NO_SHOW"} /\ to # appt[a].status
    BY <1>3, <2>1, <2>2 DEF AllowedTransitions, Status
  <2> QED
    BY <1>2, <1>3, <2>1, <2>2, <2>3, BeginOnExistingLog
<1>7. CASE BeginCancel(r)
  <2>1. PICK a \in Requests : 
          /\ appt[a] # None /\ appt[a].status \notin {"CANCELED", "COMPLETED", "NO_SHOW"}
          /\ Begin(r, "write", OnExisting("cancel", a, appt[a].start, "CANCELED"))
    BY <1>7 DEF BeginCancel
  <2>2. "CANCELED" \in Status
    BY DEF Status
  <2> QED
    BY <1>2, <1>3, <2>1, <2>2, BeginOnExistingLog
<1>8. CASE BeginReschedule(r)
  <2>1. PICK a \in Requests, s \in Starts : 
          /\ appt[a] # None
          /\ Begin(r, "lockEmployee", OnExisting("reschedule", a, s, appt[a].status))
    BY <1>8 DEF BeginReschedule
  <2> QED
    BY <1>2, <1>3, <2>1, BeginOnExistingLog
<1>9. CASE Refuse(r)
  <2>1. /\ \A q \in Requests \ {r} : pc'[q] = pc[q]
        /\ pc'[r] = "done" /\ arg' = arg
        /\ appt' = appt /\ audit' = audit /\ outbox' = outbox
    BY <1>9 DEF Refuse, JInv, IInv, TypeInv, TypeOK
  <2>2. \A q \in Requests : pc'[q] \in InTransaction => pc[q] \in InTransaction
    BY <2>1 DEF InTransaction
  <2>3. Fitting'
    BY <2>1, <2>2, QuietLog, FittingKept
  <2> QED
    BY <2>1, <2>3, QuietLog DEF LogInv
<1> QED
  BY <1>4, <1>5, <1>6, <1>7, <1>8, <1>9 DEF Arrive

\* Steps that only take locks, look or give up.
LEMMA IdleLog ==
    ASSUME JInv, NEW r \in Requests, UNCHANGED <<appt, audit, outbox>>,
           \/ LockClient(r) \/ CheckClient(r) \/ LockEmployee(r) \/ CheckEmployee(r)
           \/ EndTransaction(r)
    PROVE  LogInv'
<1>1. \A q \in Requests : pc'[q] \in InTransaction =>
         /\ pc[q] \in InTransaction
         /\ arg'[q].op = arg[q].op /\ arg'[q].id = arg[q].id /\ arg'[q].to = arg[q].to
         /\ arg'[q].client = arg[q].client /\ arg'[q].seen = arg[q].seen
  <2>1. CASE LockClient(r)
    BY <2>1 DEF LockClient, JInv, IInv, TypeInv, TypeOK, InTransaction, PC
  <2>2. CASE CheckClient(r)
    <3>1. arg[r] \in Argument
      BY <2>2, ArgumentType DEF CheckClient, JInv, IInv, InTransaction, PC
    <3>2. /\ arg'[r].op = arg[r].op /\ arg'[r].id = arg[r].id /\ arg'[r].to = arg[r].to
          /\ arg'[r].client = arg[r].client /\ arg'[r].seen = arg[r].seen
      BY <2>2, <3>1 DEF CheckClient, JInv, IInv, TypeInv, TypeOK, Argument
    <3>3. \A q \in Requests \ {r} : pc'[q] = pc[q] /\ arg'[q] = arg[q]
      BY <2>2 DEF CheckClient, JInv, IInv, TypeInv, TypeOK
    <3>4. pc[r] \in InTransaction
      BY <2>2 DEF CheckClient, InTransaction, PC
    <3> QED BY <3>2, <3>3, <3>4
  <2>3. CASE LockEmployee(r)
    BY <2>3 DEF LockEmployee, JInv, IInv, TypeInv, TypeOK, InTransaction, PC
  <2>4. CASE CheckEmployee(r)
    BY <2>4 DEF CheckEmployee, JInv, IInv, TypeInv, TypeOK, InTransaction, PC
  <2>5. CASE EndTransaction(r)
    BY <2>5 DEF EndTransaction, JInv, IInv, TypeInv, TypeOK, InTransaction, PC
  <2> QED BY <2>1, <2>2, <2>3, <2>4, <2>5
<1>2. Fitting'
  BY <1>1, QuietLog, FittingKept
<1> QED
  BY <1>2, QuietLog DEF LogInv

\* A commit whose audit row tells what it wrote and whose e-mail is what the row
\* asks for.
LEMMA CommitLog ==
    ASSUME JInv, NEW r \in Requests, pc[r] = "write", EndTransaction(r),
           NEW x \in Requests, NEW act \in Action, NEW who \in {"USER", "PUBLIC"}, 
           NEW before \in Snapshot, NEW after \in Snapshot,
           Record(x, act, who, before, after),
           \A b \in Requests \ {x} : appt'[b] = appt[b],
           appt'[x] # None,
           appt[x] # None => appt'[x].client = appt[x].client,
           after.status # None => appt'[x].status = after.status,
           after.status = None => appt[x] # None /\ appt'[x].status = appt[x].status,
           after.start # None => appt'[x].start = after.start,
           after.start = None => appt[x] # None /\ appt'[x].start = appt[x].start,
           appt[x] # None /\ after.status # None =>
              ShowsStatus(x, before.status) /\ before.status # after.status,
           appt[x] # None /\ after.start # None =>
              ShowsStart(x, before.start) /\ before.start # after.start,
           \A a \in Requests, k \in Kind, t \in Starts \cup {None} :
              KeyOf(a, k, t) \in outbox' <=> 
                 \/ KeyOf(a, k, t) \in outbox
                 \/ /\ a = x /\ appt'[x].client \in WithEmail 
                    /\ Calls([action |-> act, after |-> after], k, t)
    PROVE  LogInv'
<1>1. TypeInv /\ Shown /\ LoggedStatusIsCurrent /\ LoggedPreviousWasCurrent /\ Queued
  BY DEF JInv, LogInv, IInv
<1>2. appt[x] = None => Len(audit[x]) = 0
  BY <1>1 DEF Shown
<1>3. /\ \A a \in Requests, s \in Status \cup {None} : ShowsStatus(a, s) => ShowsStatus(a, s)'
      /\ \A a \in Requests, s \in Starts \cup {None} : ShowsStart(a, s) => ShowsStart(a, s)'
      /\ ShowsStatus(x, after.status)' /\ ShowsStart(x, after.start)'
      /\ \A a \in Requests : Len(audit[a]) > 0 => Len(audit'[a]) > 0
      /\ Len(audit'[x]) > 0
      /\ \A a \in Requests \ {x} : audit'[a] = audit[a]
  BY <1>1, ShownStays, AppendRow
<1>4. LoggedStatusIsCurrent'
  BY <1>1, StatusStays
<1>5. LoggedPreviousWasCurrent'
  <2>1. /\ Len(audit[x]) > 0 /\ after.status # None =>
              ShowsStatus(x, before.status) /\ before.status # after.status
        /\ Len(audit[x]) > 0 /\ after.start # None =>
              ShowsStart(x, before.start) /\ before.start # after.start
    BY <1>2
  <2> QED
    BY <1>1, <2>1, ChainStays
<1>6. Queued'
  BY <1>1, <1>2, OutboxStays
<1>7. Shown'
  <2>1. ASSUME NEW a \in Requests \ {x}
        PROVE  /\ appt'[a] = None => Len(audit'[a]) = 0
               /\ appt'[a] # None => /\ Len(audit'[a]) > 0
                                     /\ ShowsStatus(a, appt[a].status)'
                                     /\ ShowsStart(a, appt[a].start)'
    <3>1. appt[a] # None => appt[a].status \in Status /\ appt[a].start \in Starts
      BY <1>1 DEF TypeInv, TypeOK, Appointment
    <3> QED
      BY <1>1, <1>3, <3>1 DEF Shown
  <2>2. appt[x] # None => appt[x].status \in Status /\ appt[x].start \in Starts
    BY <1>1 DEF TypeInv, TypeOK, Appointment
  <2>3. appt[x] # None => ShowsStatus(x, appt[x].status)' /\ ShowsStart(x, appt[x].start)'
    BY <1>1, <1>3, <2>2 DEF Shown
  <2>4. \E i \in DOMAIN audit'[x] : audit'[x][i].after.status = appt'[x].status
    BY <1>3, <2>3 DEF ShowsStatus
  <2>5. \E i \in DOMAIN audit'[x] : audit'[x][i].after.start = appt'[x].start
    BY <1>3, <2>3 DEF ShowsStart
  <2>6. \A a \in Requests \ {x} : appt'[a] # None =>
           /\ \E i \in DOMAIN audit'[a] : audit'[a][i].after.status = appt'[a].status
           /\ \E i \in DOMAIN audit'[a] : audit'[a][i].after.start = appt'[a].start
    BY <2>1 DEF ShowsStatus, ShowsStart
  <2> QED
    BY <1>3, <2>1, <2>4, <2>5, <2>6 DEF Shown, ShowsStatus, ShowsStart
<1>8. Fitting'
  <2>1. /\ \A q \in Requests \ {r} : pc'[q] = pc[q] /\ arg'[q] = arg[q]
        /\ pc'[r] = "done"
    BY EndTransactionHeld DEF JInv
  <2>2. \A q \in Requests : pc'[q] \in InTransaction =>
         /\ pc[q] \in InTransaction
         /\ arg'[q].op = arg[q].op /\ arg'[q].id = arg[q].id /\ arg'[q].to = arg[q].to
         /\ arg'[q].client = arg[q].client /\ arg'[q].seen = arg[q].seen
    BY <2>1 DEF InTransaction
  <2>3. \A a \in Requests : appt[a] # None => appt'[a].client = appt[a].client
    OBVIOUS
  <2> QED
    BY <1>3, <2>2, <2>3, FittingKept
<1> QED
  BY <1>4, <1>5, <1>6, <1>7, <1>8 DEF LogInv

LEMMA InsertLog ==
    ASSUME JInv, NEW r \in Requests, pc[r] = "write", Creates(r), Insert(r), EndTransaction(r)
    PROVE  LogInv'
<1> DEFINE new == [status |-> arg[r].to, emp |-> arg[r].emp, client |-> arg[r].client, 
                   start |-> arg[r].start, dur |-> arg[r].dur]
           after == [status |-> arg[r].to, start |-> arg[r].start]
<1>1. arg[r] \in Argument /\ pc[r] \in InTransaction
  BY ArgumentType DEF JInv, IInv, InTransaction, PC
<1>2. /\ arg[r].op = "create" => arg[r].to = "CONFIRMED"
      /\ arg[r].op = "public" => arg[r].to = "PENDING"
      /\ arg[r].op \in {"create", "public"}
  BY <1>1 DEF JInv, LogInv, Fitting, Creates
<1>3. /\ arg[r].to \in Status /\ arg[r].start \in Starts /\ arg[r].client \in Clients
  BY <1>1 DEF Argument
<1> PICK c \in Clients : c = arg[r].client
  BY <1>3
<1>4. appt[r] = None
  BY DEF JInv, IInv, BookInv, Target
<1>5. new \in Appointment /\ new # None
  BY <1>1 DEF Argument, Appointment
<1>6. new.status = arg[r].to /\ new.client = arg[r].client /\ new.start = arg[r].start
  OBVIOUS
<1>7. after \in Snapshot /\ after.status = arg[r].to /\ after.start = arg[r].start
  BY <1>3 DEF Snapshot
<1>8. PICK who \in {"USER", "PUBLIC"} : Record(r, "CREATED", who, NoSnapshot, after)
  BY DEF Insert
<1>9. appt' = [appt EXCEPT ![r] = new]
  BY DEF Insert
<1> HIDE DEF new
<1>10. appt'[r] = new /\ \A b \in Requests \ {r} : appt'[b] = appt[b]
  BY <1>9 DEF JInv, IInv, TypeInv, TypeOK
<1>11. PICK kind \in {"requested", "confirmed"} :
          /\ Enqueue(r, c, kind, None)
          /\ kind = "requested" <=> arg[r].op = "public"
  BY <1>2 DEF Insert, NotifyRequested, NotifyConfirmed
<1>12. kind \in Kind /\ None \in Starts \cup {None} /\ "CREATED" \in Action /\ NoSnapshot \in Snapshot
  BY SnapshotTypes DEF Kind, Action
<1>13. \A k \in Kind, t \in Starts \cup {None} : 
          Calls([action |-> "CREATED", after |-> after], k, t) <=> k = kind /\ t = None
  BY <1>2, <1>7, <1>11 DEF Calls
<1> HIDE DEF after
<1>14. \A a \in Requests, k \in Kind, t \in Starts \cup {None} :
          KeyOf(a, k, t) \in outbox' <=>
             \/ KeyOf(a, k, t) \in outbox
             \/ a = r /\ c \in WithEmail /\ k = kind /\ t = None
  BY <1>11 DEF Enqueue, KeyOf
<1>15. \A a \in Requests, k \in Kind, t \in Starts \cup {None} :
          KeyOf(a, k, t) \in outbox' <=>
             \/ KeyOf(a, k, t) \in outbox
             \/ /\ a = r /\ appt'[r].client \in WithEmail 
                /\ Calls([action |-> "CREATED", after |-> after], k, t)
  BY <1>6, <1>10, <1>13, <1>14
<1>16. /\ after.status # None /\ after.start # None
       /\ appt'[r].status = after.status /\ appt'[r].start = after.start /\ appt'[r] # None
  BY <1>3, <1>5, <1>6, <1>7, <1>10
<1> QED
  BY <1>4, <1>7, <1>8, <1>10, <1>12, <1>15, <1>16, CommitLog

\* A change of status, with the e-mail it asks for.
LEMMA StatusLog ==
    ASSUME JInv, NEW r \in Requests, CommitStatus(r) \/ CommitCancel(r)
    PROVE  LogInv'
<1>1. arg[r] \in Argument /\ pc[r] = "write" /\ pc[r] \in InTransaction /\ EndTransaction(r)
  BY ArgumentType DEF CommitStatus, CommitCancel, JInv, IInv, InTransaction, PC
<1> PICK x \in Requests, to \in Status : x = arg[r].id /\ to = arg[r].to
  BY <1>1 DEF Argument
<1>2. /\ arg[r].op \in {"status", "cancel"}
      /\ arg[r].op = "status" => to \in {"CONFIRMED", "COMPLETED", "NO_SHOW"}
      /\ arg[r].op = "cancel" => to = "CANCELED"
      /\ appt[x] # None
      /\ appt[x].client = arg[r].client
      /\ arg[r].seen.status # to
      /\ ShowsStatus(x, arg[r].seen.status)
  BY <1>1 DEF CommitStatus, CommitCancel, JInv, LogInv, Fitting, Creates, IInv, TypeInv, Started
<1>3. /\ arg[r].client \in Clients /\ arg[r].seen.status \in Status \cup {None} 
      /\ appt[x] \in Appointment
  BY <1>1, <1>2 DEF Argument, Snapshot, JInv, IInv, TypeInv, TypeOK
<1> PICK c \in Clients : c = arg[r].client
  BY <1>3
<1>4. to \in Action /\ to # None
  BY <1>2 DEF Action
<1> DEFINE before == OnlyStatus(arg[r].seen.status)
           after  == OnlyStatus(to)
<1>5. /\ before \in Snapshot /\ after \in Snapshot
      /\ before.status = arg[r].seen.status /\ after.status = to /\ after.start = None
  BY <1>3, SnapshotTypes DEF OnlyStatus
<1>6. appt' = [appt EXCEPT ![x] = [appt[x] EXCEPT !.status = to]]
  BY <1>1, <1>2 DEF CommitStatus, CommitCancel
<1>7. Record(x, to, "USER", before, after)
  BY <1>1, <1>2 DEF CommitStatus, CommitCancel
<1>8. /\ appt'[x] = [appt[x] EXCEPT !.status = to]
      /\ \A b \in Requests \ {x} : appt'[b] = appt[b]
  BY <1>6 DEF JInv, IInv, TypeInv, TypeOK
<1>9. /\ appt'[x].status = to /\ appt'[x].client = appt[x].client /\ appt'[x].start = appt[x].start
      /\ appt'[x] \in Appointment
  BY <1>3, <1>8 DEF Appointment
<1>10. appt'[x] # None
  BY <1>9
<1> HIDE DEF before, after
<1>11. \A a \in Requests, k \in Kind, t \in Starts \cup {None} :
          KeyOf(a, k, t) \in outbox' <=>
             \/ KeyOf(a, k, t) \in outbox
             \/ /\ a = x /\ appt'[x].client \in WithEmail 
                /\ Calls([action |-> to, after |-> after], k, t)
  <2>1. to # "RESCHEDULED" /\ to # "PENDING"
    BY <1>2
  <2>2. ASSUME NEW k \in Kind, NEW t \in Starts \cup {None}
        PROVE  Calls([action |-> to, after |-> after], k, t) <=>
                  \/ to = "CONFIRMED" /\ k = "confirmed" /\ t = None
                  \/ to = "CANCELED" /\ k = "canceled" /\ t = None
    BY <1>5, <2>1 DEF Calls
  <2>3. CASE to = "CONFIRMED" \/ to = "CANCELED"
    <3> PICK kind \in {"confirmed", "canceled"} : kind = "confirmed" <=> to = "CONFIRMED"
      OBVIOUS
    <3>1. Enqueue(x, c, kind, None)
      BY <1>1, <1>2, <2>3 DEF CommitStatus, CommitCancel, NotifyConfirmed, NotifyCanceled
    <3>2. kind \in Kind /\ None \in Starts \cup {None}
      BY DEF Kind
    <3>3. \A a \in Requests, k \in Kind, t \in Starts \cup {None} :
             KeyOf(a, k, t) \in outbox' <=>
                \/ KeyOf(a, k, t) \in outbox
                \/ a = x /\ c \in WithEmail /\ k = kind /\ t = None
      BY <3>1 DEF Enqueue, KeyOf
    <3>4. \A k \in Kind, t \in Starts \cup {None} :
             Calls([action |-> to, after |-> after], k, t) <=> k = kind /\ t = None
      BY <2>2, <2>3
    <3> QED
      BY <1>2, <1>9, <3>3, <3>4
  <2>4. CASE to # "CONFIRMED" /\ to # "CANCELED"
    <3>1. outbox' = outbox
      BY <1>1, <1>2, <2>4 DEF CommitStatus, CommitCancel
    <3>2. \A k \in Kind, t \in Starts \cup {None} : ~Calls([action |-> to, after |-> after], k, t)
      BY <2>2, <2>4
    <3> QED BY <3>1, <3>2
  <2> QED BY <2>3, <2>4
<1>12. /\ after.status # None => appt'[x].status = after.status
       /\ after.status = None => appt[x] # None /\ appt'[x].status = appt[x].status
       /\ after.start # None => appt'[x].start = after.start
       /\ after.start = None => appt[x] # None /\ appt'[x].start = appt[x].start
       /\ appt[x] # None /\ after.status # None =>
              ShowsStatus(x, before.status) /\ before.status # after.status
       /\ appt[x] # None /\ after.start # None =>
              ShowsStart(x, before.start) /\ before.start # after.start
  BY <1>2, <1>4, <1>5, <1>9
<1> QED
  BY <1>1, <1>4, <1>5, <1>7, <1>8, <1>9, <1>10, <1>11, <1>12, CommitLog

\* A move: told and logged with the new start, unless the start read was the same.
LEMMA RescheduleLog ==
    ASSUME JInv, NEW r \in Requests, CommitReschedule(r)
    PROVE  LogInv'
<1>1. arg[r] \in Argument /\ pc[r] = "write" /\ pc[r] \in InTransaction /\ EndTransaction(r)
  BY ArgumentType DEF CommitReschedule, JInv, IInv, InTransaction, PC
<1> PICK x \in Requests, s \in Starts : x = arg[r].id /\ s = arg[r].start
  BY <1>1 DEF Argument
<1>2. /\ appt[x] # None
      /\ appt[x].client = arg[r].client
      /\ ShowsStart(x, arg[r].seen.start)
  BY <1>1 DEF CommitReschedule, JInv, LogInv, Fitting, Creates, IInv, TypeInv, Started
<1>3. /\ arg[r].client \in Clients /\ arg[r].seen.start \in Starts \cup {None} 
      /\ appt[x] \in Appointment
  BY <1>1, <1>2 DEF Argument, Snapshot, JInv, IInv, TypeInv, TypeOK
<1> PICK c \in Clients : c = arg[r].client
  BY <1>3
<1>4. s # None
  BY DEF JInv
<1>5. appt' = [appt EXCEPT ![x] = [appt[x] EXCEPT !.start = s]]
  BY DEF CommitReschedule
<1>6. /\ appt'[x] = [appt[x] EXCEPT !.start = s]
      /\ \A b \in Requests \ {x} : appt'[b] = appt[b]
  BY <1>5 DEF JInv, IInv, TypeInv, TypeOK
<1>7. /\ appt'[x].start = s /\ appt'[x].client = appt[x].client /\ appt'[x].status = appt[x].status
      /\ appt'[x] \in Appointment
  BY <1>3, <1>6 DEF Appointment
<1>8. appt'[x] # None
  BY <1>7
<1>9. CASE s # arg[r].seen.start
  <2> DEFINE before == OnlyStart(arg[r].seen.start)
             after  == OnlyStart(s)
  <2>1. /\ before \in Snapshot /\ after \in Snapshot
        /\ before.start = arg[r].seen.start /\ after.start = s /\ after.status = None
    BY <1>3, SnapshotTypes DEF OnlyStart
  <2>2. Record(x, "RESCHEDULED", "USER", before, after) /\ Enqueue(x, c, "rescheduled", s)
    BY <1>9 DEF CommitReschedule, NotifyRescheduled
  <2>3. "RESCHEDULED" \in Action /\ "rescheduled" \in Kind
    BY DEF Action, Kind
  <2> HIDE DEF before, after
  <2>4. \A a \in Requests, k \in Kind, t \in Starts \cup {None} :
           KeyOf(a, k, t) \in outbox' <=>
              \/ KeyOf(a, k, t) \in outbox
              \/ a = x /\ c \in WithEmail /\ k = "rescheduled" /\ t = s
    <3>1. outbox' = outbox \cup (IF c \in WithEmail THEN {KeyOf(x, "rescheduled", s)} ELSE {})
      BY <2>2 DEF Enqueue, KeyOf
    <3>2. \A a \in Requests, k \in Kind, t \in Starts \cup {None} :
             KeyOf(a, k, t) = KeyOf(x, "rescheduled", s) <=> a = x /\ k = "rescheduled" /\ t = s
      BY DEF KeyOf
    <3> QED
      BY <3>1, <3>2
  <2>5. \A k \in Kind, t \in Starts \cup {None} :
           Calls([action |-> "RESCHEDULED", after |-> after], k, t) <=> k = "rescheduled" /\ t = s
    BY <2>1 DEF Calls, Status
  <2>6. \A a \in Requests, k \in Kind, t \in Starts \cup {None} :
           KeyOf(a, k, t) \in outbox' <=>
              \/ KeyOf(a, k, t) \in outbox
              \/ /\ a = x /\ appt'[x].client \in WithEmail 
                 /\ Calls([action |-> "RESCHEDULED", after |-> after], k, t)
    BY <1>2, <1>7, <2>4, <2>5
  <2>7. /\ after.status # None => appt'[x].status = after.status
        /\ after.status = None => appt[x] # None /\ appt'[x].status = appt[x].status
        /\ after.start # None => appt'[x].start = after.start
        /\ after.start = None => appt[x] # None /\ appt'[x].start = appt[x].start
        /\ appt[x] # None /\ after.status # None =>
               ShowsStatus(x, before.status) /\ before.status # after.status
        /\ appt[x] # None /\ after.start # None =>
               ShowsStart(x, before.start) /\ before.start # after.start
    BY <1>2, <1>4, <1>7, <1>9, <2>1
  <2> QED
    BY <1>1, <1>6, <1>7, <1>8, <2>1, <2>2, <2>3, <2>6, <2>7, CommitLog
<1>10. CASE s = arg[r].seen.start
  <2>1. outbox' = outbox /\ audit' = audit
    BY <1>10 DEF CommitReschedule
  <2>2. Shown'
    <3>1. Shown
      BY DEF JInv, LogInv
    <3>2. ShowsStart(x, s) /\ ShowsStatus(x, appt[x].status) /\ Len(audit[x]) > 0
      BY <1>2, <1>10, <3>1 DEF Shown
    <3>3. /\ Len(audit'[x]) > 0
          /\ \E i \in DOMAIN audit'[x] : audit'[x][i].after.status = appt'[x].status
          /\ \E i \in DOMAIN audit'[x] : audit'[x][i].after.start = appt'[x].start
      BY <1>7, <2>1, <3>2 DEF ShowsStatus, ShowsStart
    <3>4. ASSUME NEW a \in Requests \ {x}
          PROVE  /\ appt'[a] = None => Len(audit'[a]) = 0
                 /\ appt'[a] # None => 
                       /\ Len(audit'[a]) > 0
                       /\ \E i \in DOMAIN audit'[a] : audit'[a][i].after.status = appt'[a].status
                       /\ \E i \in DOMAIN audit'[a] : audit'[a][i].after.start = appt'[a].start
      BY <1>6, <2>1, <3>1 DEF Shown, ShowsStatus, ShowsStart
    <3> QED
      BY <1>8, <3>3, <3>4 DEF Shown, ShowsStatus, ShowsStart
  <2>3. LoggedStatusIsCurrent'
    <3>1. /\ \A a \in Requests : appt'[a] = None <=> appt[a] = None
          /\ \A a \in Requests : appt[a] # None => appt'[a].status = appt[a].status
      BY <1>2, <1>6, <1>7, <1>8
    <3>2. ASSUME NEW a \in Requests
          PROVE  /\ appt[a] = None <=> \A i \in DOMAIN audit[a] : audit[a][i].after.status = None
                 /\ \A i \in DOMAIN audit[a] : 
                       /\ audit[a][i].after.status # None
                       /\ \A j \in DOMAIN audit[a] : audit[a][j].after.status # None => j <= i
                       => audit[a][i].after.status = appt[a].status
      BY DEF JInv, LogInv, LoggedStatusIsCurrent
    <3> SUFFICES ASSUME NEW a \in Requests
                 PROVE  /\ appt'[a] = None <=> \A i \in DOMAIN audit[a] : audit[a][i].after.status = None
                        /\ \A i \in DOMAIN audit[a] : 
                              /\ audit[a][i].after.status # None
                              /\ \A j \in DOMAIN audit[a] : audit[a][j].after.status # None => j <= i
                              => audit[a][i].after.status = appt'[a].status
      BY <2>1 DEF LoggedStatusIsCurrent
    <3>3. CASE appt[a] = None
      BY <3>1, <3>2, <3>3
    <3>4. CASE appt[a] # None
      BY <3>1, <3>2, <3>4
    <3> QED BY <3>3, <3>4
  <2>4. LoggedPreviousWasCurrent'
    BY <2>1 DEF JInv, LogInv, LoggedPreviousWasCurrent
  <2>5. Queued'
    <3> SUFFICES ASSUME NEW a \in Requests, NEW k \in Kind, NEW t \in Starts \cup {None}
                 PROVE  KeyOf(a, k, t) \in outbox <=>
                           /\ appt'[a] # None /\ appt'[a].client \in WithEmail
                           /\ \E i \in DOMAIN audit[a] : Calls(audit[a][i], k, t)
      BY <2>1 DEF Queued
    <3> DEFINE called == \E i \in DOMAIN audit[a] : Calls(audit[a][i], k, t)
    <3>1. KeyOf(a, k, t) \in outbox <=> appt[a] # None /\ appt[a].client \in WithEmail /\ called
      BY DEF JInv, LogInv, Queued
    <3> HIDE DEF called
    <3>2. CASE a = x
      <4>1. appt[a] # None /\ appt'[a] # None /\ appt'[a].client = appt[a].client
        BY <1>2, <1>7, <1>8, <3>2
      <4> QED
        BY <3>1, <4>1 DEF called
    <3>3. CASE a # x
      <4>1. appt'[a] = appt[a]
        BY <1>6, <3>3
      <4> QED
        BY <3>1, <4>1 DEF called
    <3> QED
      BY <3>2, <3>3
  <2>6. Fitting'
    <3>1. /\ \A q \in Requests \ {r} : pc'[q] = pc[q] /\ arg'[q] = arg[q]
          /\ pc'[r] = "done"
      BY <1>1, EndTransactionHeld DEF JInv
    <3>2. \A q \in Requests : pc'[q] \in InTransaction =>
           /\ pc[q] \in InTransaction
           /\ arg'[q].op = arg[q].op /\ arg'[q].id = arg[q].id /\ arg'[q].to = arg[q].to
           /\ arg'[q].client = arg[q].client /\ arg'[q].seen = arg[q].seen
      BY <3>1 DEF InTransaction
    <3>3. /\ \A a \in Requests, t \in Status \cup {None} : ShowsStatus(a, t) => ShowsStatus(a, t)'
          /\ \A a \in Requests, t \in Starts \cup {None} : ShowsStart(a, t) => ShowsStart(a, t)'
          /\ \A a \in Requests : appt[a] # None => appt'[a].client = appt[a].client
      BY <1>6, <1>7, <2>1 DEF ShowsStatus, ShowsStart
    <3> QED
      BY <3>2, <3>3, FittingKept
  <2> QED
    BY <2>2, <2>3, <2>4, <2>5, <2>6 DEF LogInv
<1> QED
  BY <1>9, <1>10

LEMMA StepLog == JInv /\ [Next]_vars => JInv'
<1> SUFFICES ASSUME JInv, [Next]_vars PROVE JInv'
  OBVIOUS
<1>1. IInv'
  BY StepInv DEF JInv
<1>2. ASSUME NEW r \in Requests, Arrive(r) PROVE LogInv'
  BY <1>2, ArriveLog
<1>3. ASSUME NEW r \in Requests, Serve(r) PROVE LogInv'
  <2>1. CASE LockClient(r) \/ CheckClient(r) \/ LockEmployee(r) \/ CheckEmployee(r)
    BY <2>1, IdleLog DEF LockClient, CheckClient, LockEmployee, CheckEmployee
  <2>2. CASE CommitCreate(r) \/ CommitPublic(r)
    BY <2>2, InsertLog DEF CommitCreate, CommitPublic, Creates
  <2>3. CASE CommitStatus(r) \/ CommitCancel(r)
    BY <2>3, StatusLog
  <2>4. CASE CommitReschedule(r)
    BY <2>4, RescheduleLog
  <2>5. CASE RejectConflict(r)
    BY <2>5, IdleLog DEF RejectConflict, Rollback
  <2> QED
    BY <1>3, <2>1, <2>2, <2>3, <2>4, <2>5 DEF Serve
<1>4. ASSUME NEW r \in Requests, Fail(r) PROVE LogInv'
  BY <1>4, IdleLog DEF Fail, Rollback
<1>5. ASSUME UNCHANGED <<appt, outbox, audit, cliLock, empLock, pc, arg>> PROVE LogInv'
  <2>1. appt' = appt /\ audit' = audit /\ outbox' = outbox /\ pc' = pc /\ arg' = arg
    BY <1>5
  <2>2. Fitting'
    BY <2>1, QuietLog, FittingKept
  <2> QED
    BY <2>1, <2>2, QuietLog DEF LogInv
<1>6. LogInv'
  BY <1>2, <1>3, <1>4, <1>5, StaffQuiet DEF Next, AllServed, vars
<1> QED
  BY <1>1, <1>6 DEF JInv

LEMMA InitLog == Init => JInv
<1> SUFFICES ASSUME Init PROVE JInv
  OBVIOUS
<1>1. \A a \in Requests : appt[a] = None /\ audit[a] = <<>> /\ pc[a] = "idle"
  BY DEF Init
<1>2. outbox = {}
  BY DEF Init
<1>3. \A a \in Requests : DOMAIN audit[a] = {} /\ Len(audit[a]) = 0
  <2>1. DOMAIN <<>> = {} /\ Len(<<>>) = 0
    OBVIOUS
  <2> QED
    BY <1>1, <2>1, Zenon
<1>4. Shown /\ Fitting
  BY <1>1, <1>3 DEF Shown, Fitting, InTransaction
<1>5. LoggedStatusIsCurrent
  <2>1. \A a \in Requests : {i \in DOMAIN audit[a] : audit[a][i].after.status # None} = {}
    BY <1>3
  <2> QED
    BY <1>1, <2>1, Zenon DEF LoggedStatusIsCurrent
<1>6. LoggedPreviousWasCurrent
  BY <1>3 DEF LoggedPreviousWasCurrent
<1>7. Queued
  BY <1>1, <1>2 DEF Queued
<1> QED
  BY <1>4, <1>5, <1>6, <1>7, InitInv DEF JInv, LogInv

\* For any number of requests that fail or overtake each other, the outbox holds the
\* e-mails the committed audit rows call for and no other.
THEOREM OutboxFollowsLog == Spec => []OutboxMatchesAudit
<1>1. ASSUME Queued, NEW a \in Requests, NEW k \in Kind, NEW t \in Starts \cup {None}
      PROVE  [appt |-> a, kind |-> k, at |-> t] \in outbox <=>
                /\ appt[a] # None
                /\ appt[a].client \in WithEmail
                /\ \E i \in DOMAIN audit[a] : LET row == audit[a][i] IN
                      \/ k = "requested" /\ t = None /\ row.after.status = "PENDING"
                      \/ k = "confirmed" /\ t = None /\ row.after.status = "CONFIRMED"
                      \/ k = "canceled" /\ t = None /\ row.after.status = "CANCELED"
                      \/ k = "rescheduled" /\ row.action = "RESCHEDULED" /\ t = row.after.start
  BY <1>1 DEF Queued, KeyOf, Calls
<1>2. JInv => OutboxMatchesAudit
  BY <1>1, Zenon DEF JInv, LogInv, OutboxMatchesAudit
<1> QED
  BY <1>2, InitLog, StepLog, PTL DEF Spec

\* Whatever stale status the writers had read, the last status in the log is the
\* appointment's.
THEOREM LogEndsInStatus == Spec => []LoggedStatusIsCurrent
<1>1. JInv => LoggedStatusIsCurrent
  BY DEF JInv, LogInv
<1> QED
  BY <1>1, InitLog, StepLog, PTL DEF Spec

\* The previous values of every row are those of an earlier row of the appointment.
THEOREM LogIsChain == Spec => []LoggedPreviousWasCurrent
<1>1. JInv => LoggedPreviousWasCurrent
  BY DEF JInv, LogInv
<1> QED
  BY <1>1, InitLog, StepLog, PTL DEF Spec

----------------------------------------------------------------------------
(* What the client's advisory lock of the public page achieves: the        *)
(* inductive invariant, on top of JInv                                     *)

\* A public booking that has passed its client's conflict query.
Passed(r) == pc[r] \in {"lockEmployee", "checkEmployee", "write"} /\ arg[r].op = "public"

\* Only public bookings take the client's lock, and they hold it to the end.
ClientHeld ==
    \A r \in Requests :
        /\ pc[r] \in {"lockClient", "checkClient"} => arg[r].op = "public"
        /\ pc[r] = "checkClient" \/ Passed(r) => cliLock[arg[r].client] = r

\* A client that was not found is still missing when its booking creates it.
StillMissing ==
    \A r \in Requests : Passed(r) /\ arg[r].newClient => clientRows[arg[r].client].booked = 0

\* Something other than a confirmation has happened to a.
Touched(a) == \E act \in Action \ {"CREATED", "CONFIRMED"} : Logged(a, act)

Booked(a) == appt[a] # None /\ audit[a][1].actor = "PUBLIC"

\* An appointment nobody touched is one the client's conflict query sees.
Live == \A a \in Requests : appt[a] # None /\ ~Touched(a) => appt[a].status \in {"PENDING", "CONFIRMED"}

\* An appointment nobody touched is where a request to move it has read it.
Unmoved ==
    \A r \in Requests : 
        pc[r] \in InTransaction /\ arg[r].op = "reschedule" /\ ~Touched(arg[r].id) =>
            appt[arg[r].id].start = arg[r].seen.start

\* Public appointment b is live for the client at the time r wants.
Meets(r, b) ==
    /\ Booked(b)
    /\ appt[b].client = arg[r].client
    /\ Overlap(arg[r].start, arg[r].dur, appt[b].start, appt[b].dur)

\* What the client's conflict query has found stays true until the commit.
ClientChecked == \A r, b \in Requests : Passed(r) /\ Meets(r, b) => Touched(b)

ClientInv == /\ ClientHeld /\ StillMissing /\ OneClientPerPhone
             /\ Live /\ Unmoved /\ ClientChecked /\ PublicClientExclusive

KInv == JInv /\ ClientInv

----------------------------------------------------------------------------
(* The locks *)

\* A request that is past its client's lock is alone with that client.
LEMMA AloneWithClient ==
    ASSUME KInv, NEW r \in Requests, NEW q \in Requests \ {r},
           pc[r] = "checkClient" \/ Passed(r), pc[q] = "checkClient" \/ Passed(q)
    PROVE  arg[q].client # arg[r].client
  BY DEF KInv, ClientInv, ClientHeld

\* The end of a transaction leaves the others their clients' locks.
LEMMA EndTransactionClient ==
    ASSUME KInv, NEW r \in Requests, EndTransaction(r)
    PROVE  /\ ClientHeld'
           /\ \A q \in Requests \ {r} : pc'[q] = pc[q] /\ arg'[q] = arg[q] /\ (Passed(q)' <=> Passed(q))
           /\ pc'[r] = "done" /\ ~Passed(r)'
<1>1. /\ \A q \in Requests \ {r} : pc'[q] = pc[q] /\ arg'[q] = arg[q]
      /\ pc'[r] = "done"
  BY EndTransactionHeld DEF KInv, JInv
<1>2. /\ \A q \in Requests \ {r} : Passed(q)' <=> Passed(q)
      /\ ~Passed(r)'
  BY <1>1 DEF Passed
<1>3. ASSUME NEW q \in Requests \ {r}, pc[q] = "checkClient" \/ Passed(q)
      PROVE  cliLock'[arg[q].client] = q
  <2>1. arg[q].client \in Clients /\ cliLock[arg[q].client] = q
    BY <1>3, ArgumentType DEF KInv, JInv, IInv, ClientInv, ClientHeld, Passed, Argument, InTransaction, PC
  <2> QED
    BY <2>1 DEF EndTransaction
<1>4. ClientHeld'
  BY <1>1, <1>2, <1>3 DEF KInv, ClientInv, ClientHeld
<1> QED BY <1>1, <1>2, <1>4

\* Steps that write neither appointment nor log keep what is said of them.
LEMMA QuietClient ==
    ASSUME KInv, UNCHANGED <<appt, audit>>
    PROVE  /\ Live' /\ PublicClientExclusive'
           /\ \A a \in Requests : Touched(a)' <=> Touched(a)
           /\ \A a \in Requests : Booked(a)' <=> Booked(a)
<1>1. /\ \A a \in Requests : Touched(a)' <=> Touched(a)
      /\ \A a \in Requests : Booked(a)' <=> Booked(a)
  BY DEF Touched, Logged, Booked
<1>2. Live'
  BY <1>1 DEF KInv, ClientInv, Live
<1>3. PublicClientExclusive'
  BY DEF KInv, ClientInv, PublicClientExclusive, Logged
<1> QED BY <1>1, <1>2, <1>3

\* A transaction that ends without writing.
LEMMA RollbackClient ==
    ASSUME KInv, NEW r \in Requests, Rollback(r)
    PROVE  ClientInv'
<1>1. /\ ClientHeld'
      /\ \A q \in Requests \ {r} : pc'[q] = pc[q] /\ arg'[q] = arg[q] /\ (Passed(q)' <=> Passed(q))
      /\ pc'[r] = "done" /\ ~Passed(r)'
  BY EndTransactionClient DEF Rollback
<1>2. appt' = appt /\ audit' = audit /\ clientRows' = clientRows
  BY DEF Rollback
<1>3. StillMissing' /\ OneClientPerPhone'
  BY <1>1, <1>2 DEF KInv, ClientInv, StillMissing, OneClientPerPhone
<1>4. Unmoved'
  <2>1. \A q \in Requests : pc'[q] \in InTransaction => 
           q # r /\ pc[q] \in InTransaction /\ arg[q].id \in Requests
    BY <1>1, ArgumentType DEF KInv, JInv, IInv, InTransaction, Argument
  <2> QED
    BY <1>1, <1>2, <2>1, QuietClient DEF KInv, ClientInv, Unmoved
<1>5. \A q \in Requests \ {r}, b \in Requests : Meets(q, b)' => Meets(q, b)
  BY <1>1, <1>2 DEF Meets, Booked, Overlap
<1>6. ClientChecked'
  <2>1. \A b \in Requests : Touched(b) => Touched(b)'
    BY <1>2, QuietClient
  <2>2. ClientChecked
    BY DEF KInv, ClientInv
  <2> QED
    BY <1>1, <1>5, <2>1, <2>2 DEF ClientChecked
<1>7. Live' /\ PublicClientExclusive'
  BY <1>2, QuietClient
<1> QED
  BY <1>1, <1>3, <1>4, <1>6, <1>7 DEF ClientInv

----------------------------------------------------------------------------
(* Arriving *)

LEMMA BeginClient ==
    ASSUME KInv, NEW r \in Requests, NEW at \in InTransaction, NEW x \in Argument, Begin(r, at, x),
           \/ at = "lockClient" /\ x.op = "public"
           \/ at \in {"lockEmployee", "write"} /\ x.op # "public",
           x.op = "reschedule" => appt[x.id].start = x.seen.start
    PROVE  ClientInv'
<1>1. /\ \A q \in Requests \ {r} : pc'[q] = pc[q] /\ arg'[q] = arg[q]
      /\ pc'[r] = at /\ arg'[r] = x
      /\ appt' = appt /\ audit' = audit /\ cliLock' = cliLock /\ clientRows' = clientRows
  BY DEF KInv, JInv, IInv, TypeInv, TypeOK, Begin
<1>2. /\ \A q \in Requests \ {r} : Passed(q)' <=> Passed(q)
      /\ ~Passed(r)' /\ pc'[r] # "checkClient"
  BY <1>1 DEF Passed
<1>3. ClientHeld'
  BY <1>1, <1>2 DEF KInv, ClientInv, ClientHeld
<1>4. StillMissing' /\ OneClientPerPhone'
  BY <1>1, <1>2 DEF KInv, ClientInv, StillMissing, OneClientPerPhone
<1>5. \A a \in Requests : Touched(a)' <=> Touched(a)
  BY <1>1, QuietClient
<1>6. Unmoved'
  <2>1. \A q \in Requests : pc'[q] \in InTransaction => arg'[q].id \in Requests
    BY <1>1, ArgumentType DEF KInv, JInv, IInv, Argument
  <2> QED
    BY <1>1, <1>5, <2>1 DEF KInv, ClientInv, Unmoved
<1>7. \A q \in Requests \ {r}, b \in Requests : Meets(q, b)' => Meets(q, b)
  BY <1>1 DEF Meets, Booked, Overlap
<1>8. ClientChecked'
  BY <1>2, <1>5, <1>7 DEF KInv, ClientInv, ClientChecked
<1>9. Live' /\ PublicClientExclusive'
  BY <1>1, QuietClient
<1> QED
  BY <1>3, <1>4, <1>6, <1>8, <1>9 DEF ClientInv

LEMMA BeginOnExistingClient ==
    ASSUME KInv, NEW r \in Requests, NEW at \in {"lockEmployee", "write"}, 
           NEW op \in {"status", "cancel", "reschedule"}, NEW a \in Requests, appt[a] # None,
           NEW s \in Starts, NEW to \in Status, Begin(r, at, OnExisting(op, a, s, to))
    PROVE  ClientInv'
<1> DEFINE x == OnExisting(op, a, s, to)
<1>1. x \in Argument /\ x.op = op /\ x.id = a
  BY OnExistingType DEF KInv, JInv, IInv, AllOps
<1>2. x.seen.start = appt[a].start
  BY DEF OnExisting, SnapshotOf
<1>3. Begin(r, at, x) /\ at \in InTransaction
  BY DEF InTransaction, PC
<1> HIDE DEF x
<1> QED
  BY <1>1, <1>2, <1>3, BeginClient

LEMMA ArriveClient ==
    ASSUME KInv, NEW r \in Requests, Arrive(r)
    PROVE  ClientInv'
<1>1. ASSUME NEW op \in {"create", "public"}, NEW at \in {"lockClient", "lockEmployee"}, 
             NEW e \in Employees, NEW c \in Clients, NEW s \in Starts, NEW d \in Durations, 
             NEW to \in {"PENDING", "CONFIRMED"},
             op = "public" <=> at = "lockClient",
             Begin(r, at, [op |-> op, id |-> r, emp |-> e, client |-> c, start |-> s,
                           dur |-> d, to |-> to, seen |-> NoSnapshot, newClient |-> FALSE])
      PROVE  ClientInv'
  <2> DEFINE x == [op |-> op, id |-> r, emp |-> e, client |-> c, start |-> s,
                   dur |-> d, to |-> to, seen |-> NoSnapshot, newClient |-> FALSE]
  <2>1. x \in Argument /\ x.op = op /\ Begin(r, at, x)
    BY <1>1, SnapshotTypes DEF Argument, AllOps, Status
  <2>2. at \in InTransaction
    BY DEF InTransaction, PC
  <2> HIDE DEF x
  <2> QED
    BY <1>1, <2>1, <2>2, BeginClient
<1>2. \A a \in Requests : appt[a] # None => appt[a].status \in Status /\ appt[a].start \in Starts
  BY DEF KInv, JInv, IInv, TypeInv, TypeOK, Appointment
<1>3. CASE BeginCreate(r)
  BY <1>1, <1>3 DEF BeginCreate
<1>4. CASE BeginPublic(r)
  BY <1>1, <1>4 DEF BeginPublic
<1>5. CASE BeginStatus(r)
  <2>1. PICK a \in Requests : 
          /\ appt[a] # None
          /\ \E to \in AllowedTransitions(appt[a].status) :
                Begin(r, "write", OnExisting("status", a, appt[a].start, to))
    BY <1>5 DEF BeginStatus
  <2>2. PICK to \in AllowedTransitions(appt[a].status) : 
          Begin(r, "write", OnExisting("status", a, appt[a].start, to))
    BY <2>1
  <2>3. to \in Status
    BY <2>2 DEF AllowedTransitions, Status
  <2> QED
    BY <1>2, <2>1, <2>2, <2>3, BeginOnExistingClient
<1>6. CASE BeginCancel(r)
  <2>1. PICK a \in Requests : 
          /\ appt[a] # None
          /\ Begin(r, "write", OnExisting("cancel", a, appt[a].start, "CANCELED"))
    BY <1>6 DEF BeginCancel
  <2>2. "CANCELED" \in Status
    BY DEF Status
  <2> QED
    BY <1>2, <2>1, <2>2, BeginOnExistingClient
<1>7. CASE BeginReschedule(r)
  <2>1. PICK a \in Requests, s \in Starts : 
          /\ appt[a] # None
          /\ Begin(r, "lockEmployee", OnExisting("reschedule", a, s, appt[a].status))
    BY <1>7 DEF BeginReschedule
  <2> QED
    BY <1>2, <2>1, BeginOnExistingClient
<1>8. CASE Refuse(r)
  <2>1. /\ \A q \in Requests \ {r} : pc'[q] = pc[q]
        /\ pc'[r] = "done" /\ arg' = arg
        /\ appt' = appt /\ audit' = audit /\ cliLock' = cliLock /\ clientRows' = clientRows
    BY <1>8 DEF Refuse, KInv, JInv, IInv, TypeInv, TypeOK
  <2>2. /\ \A q \in Requests \ {r} : Passed(q)' <=> Passed(q)
        /\ ~Passed(r)' 
    BY <2>1 DEF Passed
  <2>3. ClientHeld'
    BY <2>1, <2>2 DEF KInv, ClientInv, ClientHeld
  <2>4. StillMissing' /\ OneClientPerPhone'
    BY <2>1, <2>2 DEF KInv, ClientInv, StillMissing, OneClientPerPhone
  <2>5. \A a \in Requests : Touched(a)' <=> Touched(a)
    BY <2>1, QuietClient
  <2>6. Unmoved'
    <3>1. \A q \in Requests : pc'[q] \in InTransaction => pc[q] \in InTransaction /\ arg[q].id \in Requests
      BY <2>1, ArgumentType DEF KInv, JInv, IInv, Argument, InTransaction
    <3> QED
      BY <2>1, <2>5, <3>1 DEF KInv, ClientInv, Unmoved
  <2>7. \A q \in Requests \ {r}, b \in Requests : Meets(q, b)' => Meets(q, b)
    BY <2>1 DEF Meets, Booked, Overlap
  <2>8. ClientChecked'
    BY <2>2, <2>5, <2>7 DEF KInv, ClientInv, ClientChecked
  <2>9. Live' /\ PublicClientExclusive'
    BY <2>1, QuietClient
  <2> QED
    BY <2>3, <2>4, <2>6, <2>8, <2>9 DEF ClientInv
<1> QED
  BY <1>3, <1>4, <1>5, <1>6, <1>7, <1>8 DEF Arrive

----------------------------------------------------------------------------
(* Locking and looking *)

LEMMA LookClient ==
    ASSUME KInv, NEW r \in Requests,
           LockClient(r) \/ CheckClient(r) \/ LockEmployee(r) \/ CheckEmployee(r)
    PROVE  ClientInv'
<1>1. arg[r] \in Argument /\ pc[r] \in InTransaction
  BY ArgumentType DEF KInv, JInv, IInv, LockClient, CheckClient, LockEmployee, CheckEmployee, InTransaction, PC
<1>2. /\ \A q \in Requests \ {r} : pc'[q] = pc[q] /\ arg'[q] = arg[q]
      /\ appt' = appt /\ audit' = audit /\ clientRows' = clientRows
      /\ arg'[r].op = arg[r].op /\ arg'[r].id = arg[r].id /\ arg'[r].client = arg[r].client
      /\ arg'[r].start = arg[r].start /\ arg'[r].dur = arg[r].dur /\ arg'[r].seen = arg[r].seen
  BY <1>1 DEF KInv, JInv, IInv, TypeInv, TypeOK, Argument, LockClient, CheckClient, LockEmployee, CheckEmployee
<1>3. \A a \in Requests : Touched(a)' <=> Touched(a)
  BY <1>2, QuietClient
<1>4. Live' /\ PublicClientExclusive' /\ OneClientPerPhone'
  BY <1>2, QuietClient DEF KInv, ClientInv, OneClientPerPhone
<1>5. Unmoved'
  <2>1. \A q \in Requests : pc'[q] \in InTransaction => pc[q] \in InTransaction /\ arg[q].id \in Requests
    BY <1>1, <1>2, ArgumentType DEF KInv, JInv, IInv, Argument
  <2> QED
    BY <1>2, <1>3, <2>1 DEF KInv, ClientInv, Unmoved
<1>6. \A q, b \in Requests : Meets(q, b)' => Meets(q, b)
  BY <1>2 DEF Meets, Booked, Overlap
<1>7. \A q \in Requests \ {r} : Passed(q)' <=> Passed(q)
  BY <1>2 DEF Passed
<1>8. CASE LockClient(r)
  <2>1. pc'[r] = "checkClient" /\ cliLock'[arg[r].client] = r /\ ~Passed(r)' /\ arg[r].op = "public"
    BY <1>1, <1>8 DEF LockClient, KInv, JInv, IInv, TypeInv, TypeOK, Argument, Passed, ClientInv, ClientHeld
  <2>2. ASSUME NEW q \in Requests \ {r}, pc[q] = "checkClient" \/ Passed(q)
        PROVE  cliLock'[arg[q].client] = q
    <3>1. arg[q].client \in Clients /\ cliLock[arg[q].client] = q
      BY <2>2, ArgumentType DEF KInv, JInv, IInv, ClientInv, ClientHeld, Passed, Argument, InTransaction, PC
    <3>2. arg[q].client # arg[r].client
      BY <1>8, <3>1 DEF LockClient
    <3> QED
      BY <1>1, <1>8, <3>1, <3>2 DEF LockClient, KInv, JInv, IInv, TypeInv, TypeOK
  <2>3. ClientHeld'
    BY <1>2, <1>7, <2>1, <2>2 DEF KInv, ClientInv, ClientHeld
  <2>4. StillMissing'
    BY <1>2, <1>7, <2>1 DEF KInv, ClientInv, StillMissing
  <2>5. ClientChecked'
    BY <1>3, <1>6, <1>7, <2>1 DEF KInv, ClientInv, ClientChecked
  <2> QED
    BY <1>4, <1>5, <2>3, <2>4, <2>5 DEF ClientInv
<1>9. CASE CheckClient(r)
  <2>1. /\ pc'[r] = "lockEmployee" /\ cliLock' = cliLock 
        /\ pc[r] = "checkClient" /\ arg[r].op = "public" /\ cliLock[arg[r].client] = r
    BY <1>9 DEF CheckClient, KInv, JInv, IInv, TypeInv, TypeOK, ClientInv, ClientHeld
  <2>2. ClientHeld'
    BY <1>2, <1>7, <2>1 DEF KInv, ClientInv, ClientHeld
  <2>3. StillMissing'
    <3>1. arg'[r] = [arg[r] EXCEPT !.newClient = ~HasClient(arg[r].client)]
      BY <1>9 DEF CheckClient, KInv, JInv, IInv, TypeInv, TypeOK
    <3>2. arg'[r].newClient = ~HasClient(arg[r].client)
      BY <1>1, <3>1, Zenon DEF Argument
    <3>3. ~HasClient(arg[r].client) => clientRows[arg[r].client].booked = 0
      BY <1>1 DEF HasClient, KInv, JInv, IInv, TypeInv, TypeOK, ClientRows, Argument
    <3> QED
      BY <1>1, <1>2, <1>7, <3>2, <3>3 DEF KInv, ClientInv, StillMissing
  <2>4. ASSUME NEW b \in Requests, Meets(r, b)
        PROVE  Touched(b)
    <3>1. ~ClientConflict(arg[r].client, arg[r].start, arg[r].dur)
      BY <1>9 DEF CheckClient
    <3>2. appt[b].status \notin {"PENDING", "CONFIRMED"}
      BY <2>4, <3>1 DEF ClientConflict, Meets, Booked
    <3> QED
      BY <2>4, <3>2 DEF KInv, ClientInv, Live, Meets, Booked
  <2>5. ClientChecked'
    BY <1>3, <1>6, <1>7, <2>4 DEF KInv, ClientInv, ClientChecked
  <2> QED
    BY <1>4, <1>5, <2>2, <2>3, <2>5 DEF ClientInv
<1>10. CASE LockEmployee(r) \/ CheckEmployee(r)
  <2>1. /\ pc'[r] \in {"checkEmployee", "write"} /\ cliLock' = cliLock /\ arg' = arg
        /\ pc[r] \in {"lockEmployee", "checkEmployee"}
    BY <1>10 DEF LockEmployee, CheckEmployee, KInv, JInv, IInv, TypeInv, TypeOK
  <2>2. Passed(r)' <=> Passed(r)
    BY <2>1 DEF Passed
  <2>3. ClientHeld'
    BY <1>2, <1>7, <2>1, <2>2 DEF KInv, ClientInv, ClientHeld
  <2>4. StillMissing'
    BY <1>2, <1>7, <2>1, <2>2 DEF KInv, ClientInv, StillMissing
  <2>5. ClientChecked'
    BY <1>3, <1>6, <1>7, <2>2 DEF KInv, ClientInv, ClientChecked
  <2> QED
    BY <1>4, <1>5, <2>3, <2>4, <2>5 DEF ClientInv
<1> QED
  BY <1>8, <1>9, <1>10

----------------------------------------------------------------------------
(* Committing *)

LEMMA TouchedStays ==
    ASSUME LogKept
    PROVE  \A a \in Requests : Touched(a) => Touched(a)'
  BY DEF LogKept, Touched

\* A new appointment: a public one is alone with its client.
LEMMA InsertClient ==
    ASSUME KInv, NEW r \in Requests, pc[r] = "write", Insert(r), EndTransaction(r),
           \/ /\ arg[r].op = "public" 
              /\ clientRows' = [clientRows EXCEPT ![arg[r].client].booked = IF arg[r].newClient THEN @ + 1 ELSE @]
           \/ arg[r].op = "create" /\ clientRows' = clientRows
    PROVE  ClientInv'
<1> DEFINE new == [status |-> arg[r].to, emp |-> arg[r].emp, client |-> arg[r].client, 
                   start |-> arg[r].start, dur |-> arg[r].dur]
           after == [status |-> arg[r].to, start |-> arg[r].start]
<1>1. /\ arg[r] \in Argument /\ pc[r] \in InTransaction /\ Creates(r)
      /\ IInv /\ TypeInv /\ JInv
  BY ArgumentType DEF KInv, JInv, IInv, InTransaction, PC, Creates
<1>2. arg[r].to \in {"PENDING", "CONFIRMED"} /\ arg[r].start \in Starts /\ arg[r].client \in Clients
  BY <1>1 DEF Argument, JInv, LogInv, Fitting
<1>3. appt[r] = None /\ Len(audit[r]) = 0
  BY <1>1 DEF JInv, IInv, BookInv, Target, LogInv, Shown
<1>4. new \in Appointment /\ new # None
  BY <1>1 DEF Argument, Appointment
<1>5. /\ new.status = arg[r].to /\ new.client = arg[r].client 
      /\ new.start = arg[r].start /\ new.dur = arg[r].dur
  OBVIOUS
<1>6. after \in Snapshot
  BY <1>2 DEF Snapshot, Status
<1>7. PICK who \in {"USER", "PUBLIC"} : 
          /\ Record(r, "CREATED", who, NoSnapshot, after)
          /\ who = "PUBLIC" <=> arg[r].op = "public"
  BY DEF Insert
<1>8. appt' = [appt EXCEPT ![r] = new]
  BY DEF Insert
<1> HIDE DEF new, after
<1>9. appt'[r] = new /\ \A b \in Requests \ {r} : appt'[b] = appt[b]
  BY <1>1, <1>8 DEF TypeInv, TypeOK
<1>10. "CREATED" \in Action /\ NoSnapshot \in Snapshot
  BY SnapshotTypes DEF Action
<1>11. LogKept
  BY <1>1, <1>7, <1>10, RecordLogs
<1>12. \A a \in Requests : Touched(a) => Touched(a)'
  BY <1>11, TouchedStays
<1>13. (\A a \in Requests \ {r} : audit'[a] = audit[a]) /\ audit'[r][1].actor = who
  BY <1>1, <1>3, <1>6, <1>7, <1>10, AppendRow
<1>14. /\ ClientHeld'
       /\ \A q \in Requests \ {r} : pc'[q] = pc[q] /\ arg'[q] = arg[q] /\ (Passed(q)' <=> Passed(q))
       /\ pc'[r] = "done" /\ ~Passed(r)'
  BY EndTransactionClient
<1>15. arg[r].op = "public" => 
          /\ Passed(r)
          /\ \A q \in Requests \ {r} : Passed(q) => arg[q].client # arg[r].client
  BY AloneWithClient DEF Passed
<1>16. StillMissing' /\ OneClientPerPhone'
  <2>1. clientRows \in [Clients -> ClientRows]
    BY <1>1 DEF TypeInv, TypeOK
  <2>2. /\ \A c \in Clients \ {arg[r].client} : clientRows'[c] = clientRows[c]
        /\ clientRows'[arg[r].client].booked # clientRows[arg[r].client].booked =>
              /\ arg[r].op = "public" /\ arg[r].newClient
              /\ clientRows'[arg[r].client].booked = clientRows[arg[r].client].booked + 1
    BY <1>2, <2>1 DEF ClientRows
  <2>3. StillMissing /\ OneClientPerPhone
    BY DEF KInv, ClientInv
  <2>4. OneClientPerPhone'
    <3>1. clientRows'[arg[r].client].booked # clientRows[arg[r].client].booked => 
             clientRows'[arg[r].client].booked = 1
      BY <1>2, <1>15, <2>1, <2>2, <2>3 DEF StillMissing
    <3> QED
      BY <2>2, <2>3, <3>1 DEF OneClientPerPhone
  <2>5. ASSUME NEW q \in Requests, Passed(q)', arg'[q].newClient
        PROVE  clientRows'[arg'[q].client].booked = 0
    <3>1. q # r /\ Passed(q) /\ arg'[q] = arg[q]
      BY <1>14, <2>5
    <3>2. clientRows[arg[q].client].booked = 0
      BY <2>3, <2>5, <3>1 DEF StillMissing
    <3>3. arg[q].client \in Clients
      BY <1>1, <3>1, ArgumentType DEF Passed, Argument, InTransaction, PC
    <3>4. clientRows'[arg[q].client].booked = clientRows[arg[q].client].booked
      BY <1>15, <2>2, <3>1, <3>3
    <3> QED BY <3>1, <3>2, <3>4
  <2>6. StillMissing'
    BY <2>5 DEF StillMissing
  <2> QED BY <2>4, <2>6
<1>17. Live'
  BY <1>2, <1>5, <1>9, <1>12 DEF KInv, ClientInv, Live
<1>18. Unmoved'
  <2> SUFFICES ASSUME NEW q \in Requests, pc'[q] \in InTransaction, arg'[q].op = "reschedule", 
                      ~Touched(arg[q].id)'
               PROVE  appt'[arg'[q].id].start = arg'[q].seen.start
    BY DEF Unmoved
  <2>1. q # r /\ pc[q] \in InTransaction /\ arg'[q] = arg[q]
    BY <1>14 DEF InTransaction
  <2>2. arg[q].id \in Requests /\ arg[q].id # r
    BY <1>1, <1>3, <2>1, ArgumentType DEF TypeInv, Started, Creates, Argument
  <2>3. ~Touched(arg[q].id)
    <3> PICK y \in Requests : y = arg[q].id
      BY <2>2
    <3>1. ~Touched(y)'
      BY <2>1 DEF Touched, Logged
    <3> QED
      BY <1>12, <3>1
  <2> QED
    BY <1>9, <2>1, <2>2, <2>3 DEF KInv, ClientInv, Unmoved
<1>19. ClientChecked'
  <2> SUFFICES ASSUME NEW q \in Requests, NEW b \in Requests, Passed(q)', Meets(q, b)'
               PROVE  Touched(b)'
    BY DEF ClientChecked
  <2>1. q # r /\ Passed(q) /\ arg'[q] = arg[q]
    BY <1>14
  <2>2. CASE b = r
    <3>1. arg[r].op = "public"
      BY <1>7, <1>13, <2>2 DEF Meets, Booked
    <3>2. arg[q].client = arg[r].client
      BY <1>5, <1>9, <2>1, <2>2 DEF Meets
    <3> QED BY <1>15, <2>1, <3>1, <3>2
  <2>3. CASE b # r
    <3>1. Meets(q, b)
      BY <1>9, <1>13, <2>1, <2>3 DEF Meets, Booked
    <3> QED
      BY <1>12, <2>1, <3>1 DEF KInv, ClientInv, ClientChecked
  <2> QED BY <2>2, <2>3
<1>20. PublicClientExclusive'
  <2>1. ASSUME NEW o \in Requests \ {r}, appt'[o] # None, audit'[o][1].actor = "PUBLIC",
               audit'[r][1].actor = "PUBLIC", appt'[o].client = appt'[r].client,
               \/ Overlap(appt'[o].start, appt'[o].dur, appt'[r].start, appt'[r].dur)
               \/ Overlap(appt'[r].start, appt'[r].dur, appt'[o].start, appt'[o].dur)
        PROVE  Touched(o)'
    <3>1. arg[r].op = "public" /\ Passed(r)
      BY <1>7, <1>13, <1>15, <2>1
    <3>2. Overlap(arg[r].start, arg[r].dur, appt[o].start, appt[o].dur)
      BY <1>5, <1>9, <2>1 DEF Overlap
    <3>3. Meets(r, o)
      BY <1>5, <1>9, <1>13, <2>1, <3>2 DEF Meets, Booked
    <3> QED
      BY <1>12, <3>1, <3>3 DEF KInv, ClientInv, ClientChecked
  <2>2. ASSUME NEW a \in Requests \ {r}, NEW b \in Requests \ {r}, a # b,
               appt'[a] # None, appt'[b] # None, appt'[a].client = appt'[b].client,
               Overlap(appt'[a].start, appt'[a].dur, appt'[b].start, appt'[b].dur),
               audit'[a][1].actor = "PUBLIC", audit'[b][1].actor = "PUBLIC"
        PROVE  Touched(a)' \/ Touched(b)'
    <3>1. \E x \in {a, b} : \E act \in Action \ {"CREATED", "CONFIRMED"} : Logged(x, act)
      BY <1>9, <1>13, <2>2 DEF KInv, ClientInv, PublicClientExclusive
    <3>2. Touched(a) \/ Touched(b)
      BY <3>1 DEF Touched
    <3> QED BY <1>12, <3>2
  <2>3. ASSUME NEW a \in Requests, NEW b \in Requests, a # b,
               appt'[a] # None, appt'[b] # None, appt'[a].client = appt'[b].client,
               Overlap(appt'[a].start, appt'[a].dur, appt'[b].start, appt'[b].dur),
               audit'[a][1].actor = "PUBLIC", audit'[b][1].actor = "PUBLIC"
        PROVE  \E x \in {a, b} : \E act \in Action \ {"CREATED", "CONFIRMED"} : Logged(x, act)'
    <3>1. CASE a = r
      BY <2>1, <2>3, <3>1 DEF Touched
    <3>2. CASE b = r
      BY <2>1, <2>3, <3>2 DEF Touched
    <3>3. CASE a # r /\ b # r
      <4>1. Touched(a)' \/ Touched(b)'
        BY <2>2, <2>3, <3>3
      <4> QED BY <4>1 DEF Touched
    <3> QED BY <3>1, <3>2, <3>3
  <2> QED
    BY <2>3 DEF PublicClientExclusive
<1> QED
  BY <1>14, <1>16, <1>17, <1>18, <1>19, <1>20 DEF ClientInv

\* A write to an existing appointment x: what moves it or ends it is logged.
LEMMA UpdateClient ==
    ASSUME KInv, NEW r \in Requests, pc[r] = "write", EndTransaction(r), clientRows' = clientRows,
           NEW x \in Requests, appt[x] # None, appt'[x] # None,
           \A b \in Requests \ {x} : appt'[b] = appt[b],
           \A a \in Requests : appt[a] # None => audit'[a][1] = audit[a][1],
           LogKept,
           appt'[x].client = appt[x].client, appt'[x].dur = appt[x].dur,
           Touched(x)' \/ appt'[x].start = appt[x].start,
           Touched(x)' \/ appt'[x].status \in {"PENDING", "CONFIRMED"}
    PROVE  ClientInv'
<1>1. \A a \in Requests : Touched(a) => Touched(a)'
  BY TouchedStays
<1>2. /\ ClientHeld'
      /\ \A q \in Requests \ {r} : pc'[q] = pc[q] /\ arg'[q] = arg[q] /\ (Passed(q)' <=> Passed(q))
      /\ pc'[r] = "done" /\ ~Passed(r)'
  BY EndTransactionClient
<1>3. StillMissing' /\ OneClientPerPhone'
  BY <1>2 DEF KInv, ClientInv, StillMissing, OneClientPerPhone
<1>4. ASSUME NEW a \in Requests, appt'[a] # None
      PROVE  /\ appt[a] # None /\ audit'[a][1] = audit[a][1]
             /\ appt'[a].client = appt[a].client /\ appt'[a].dur = appt[a].dur
             /\ Touched(a)' \/ appt'[a].start = appt[a].start
             /\ a # x => appt'[a] = appt[a]
  BY <1>4
<1>5. Live'
  <2> SUFFICES ASSUME NEW a \in Requests, appt'[a] # None, ~Touched(a)'
               PROVE  appt'[a].status \in {"PENDING", "CONFIRMED"}
    BY DEF Live
  <2>1. CASE a = x
    BY <2>1
  <2>2. CASE a # x
    BY <1>1, <2>2 DEF KInv, ClientInv, Live
  <2> QED BY <2>1, <2>2
<1>6. Unmoved'
  <2> SUFFICES ASSUME NEW q \in Requests, pc'[q] \in InTransaction, arg'[q].op = "reschedule", 
                      ~Touched(arg[q].id)'
               PROVE  appt'[arg'[q].id].start = arg'[q].seen.start
    BY DEF Unmoved
  <2>1. q # r /\ pc[q] \in InTransaction /\ arg'[q] = arg[q]
    BY <1>2 DEF InTransaction
  <2> PICK y \in Requests : y = arg[q].id
    BY <2>1, ArgumentType DEF KInv, JInv, IInv, Argument
  <2>2. ~Touched(y)'
    BY <2>1 DEF Touched, Logged
  <2>3. ~Touched(arg[q].id)
    BY <1>1, <2>2
  <2>4. appt'[y].start = appt[y].start
    <3>1. CASE y = x
      BY <2>2, <3>1
    <3>2. CASE y # x
      BY <3>2
    <3> QED BY <3>1, <3>2
  <2> QED
    BY <2>1, <2>3, <2>4 DEF KInv, ClientInv, Unmoved
<1>7. ClientChecked'
  <2> SUFFICES ASSUME NEW q \in Requests, NEW b \in Requests, Passed(q)', Meets(q, b)'
               PROVE  Touched(b)'
    BY DEF ClientChecked
  <2>1. q # r /\ Passed(q) /\ arg'[q] = arg[q]
    BY <1>2
  <2>2. Touched(b)' \/ appt'[b].start = appt[b].start
    BY <1>4 DEF Meets, Booked
  <2>3. appt'[b].start = appt[b].start => Meets(q, b)
    BY <1>4, <2>1 DEF Meets, Booked
  <2> QED
    BY <1>1, <2>1, <2>2, <2>3 DEF KInv, ClientInv, ClientChecked
<1>8. PublicClientExclusive'
  <2>1. ASSUME NEW a \in Requests, NEW b \in Requests, a # b,
               appt'[a] # None, appt'[b] # None, appt'[a].client = appt'[b].client,
               Overlap(appt'[a].start, appt'[a].dur, appt'[b].start, appt'[b].dur),
               audit'[a][1].actor = "PUBLIC", audit'[b][1].actor = "PUBLIC"
        PROVE  \E z \in {a, b} : \E act \in Action \ {"CREATED", "CONFIRMED"} : Logged(z, act)'
    <3>1. CASE Touched(a)' \/ Touched(b)'
      BY <3>1 DEF Touched
    <3>2. CASE ~Touched(a)' /\ ~Touched(b)'
      <4>1. /\ appt'[a].start = appt[a].start /\ appt'[b].start = appt[b].start
            /\ appt'[a].dur = appt[a].dur /\ appt'[b].dur = appt[b].dur
            /\ appt'[a].client = appt[a].client /\ appt'[b].client = appt[b].client
            /\ appt[a] # None /\ appt[b] # None
            /\ audit[a][1].actor = "PUBLIC" /\ audit[b][1].actor = "PUBLIC"
        BY <1>4, <2>1, <3>2
      <4>2. \E z \in {a, b} : \E act \in Action \ {"CREATED", "CONFIRMED"} : Logged(z, act)
        <5>1. PublicClientExclusive
          BY DEF KInv, ClientInv
        <5>2. Overlap(appt[a].start, appt[a].dur, appt[b].start, appt[b].dur)
          BY <2>1, <4>1
        <5>3. appt[a].client = appt[b].client
          BY <2>1, <4>1
        <5> QED
          BY <2>1, <4>1, <5>1, <5>2, <5>3, Zenon DEF PublicClientExclusive
      <4>3. Touched(a) \/ Touched(b)
        BY <4>2 DEF Touched
      <4> QED BY <1>1, <3>2, <4>3
    <3> QED BY <3>1, <3>2
  <2> QED
    BY <2>1 DEF PublicClientExclusive
<1> QED
  BY <1>2, <1>3, <1>5, <1>6, <1>7, <1>8 DEF ClientInv

\* Writing a row to a log that has one leaves its first row.
LEMMA FirstRowStays ==
    ASSUME KInv, NEW x \in Requests, NEW act \in Action, 
           NEW before \in Snapshot, NEW after \in Snapshot,
           Record(x, act, "USER", before, after)
    PROVE  /\ \A a \in Requests : appt[a] # None => audit'[a][1] = audit[a][1]
           /\ LogKept /\ Logged(x, act)'
           /\ act \notin {"CREATED", "CONFIRMED"} => Touched(x)'
<1>1. TypeInv /\ \A a \in Requests : appt[a] # None => Len(audit[a]) > 0
  BY DEF KInv, JInv, IInv, LogInv, Shown
<1>2. /\ \A a \in Requests \ {x} : audit'[a] = audit[a]
      /\ Len(audit[x]) \in Nat
      /\ \A i \in 1 .. Len(audit[x]) : audit'[x][i] = audit[x][i]
  BY <1>1, AppendRow
<1>3. LogKept /\ Logged(x, act)'
  BY <1>1, RecordLogs
<1>4. act \notin {"CREATED", "CONFIRMED"} => Touched(x)'
  BY <1>3 DEF Touched
<1> QED
  BY <1>1, <1>2, <1>3, <1>4

LEMMA CommitUpdateClient ==
    ASSUME KInv, NEW r \in Requests, CommitStatus(r) \/ CommitCancel(r) \/ CommitReschedule(r)
    PROVE  ClientInv'
<1>1. /\ arg[r] \in Argument /\ pc[r] = "write" /\ pc[r] \in InTransaction /\ EndTransaction(r)
      /\ clientRows' = clientRows /\ ~Creates(r)
  BY ArgumentType DEF CommitStatus, CommitCancel, CommitReschedule, KInv, JInv, IInv, InTransaction, PC, 
     Creates
<1> PICK x \in Requests, to \in Status, s \in Starts : x = arg[r].id /\ to = arg[r].to /\ s = arg[r].start
  BY <1>1 DEF Argument
<1>2. appt[x] # None /\ appt[x] \in Appointment
  BY <1>1 DEF KInv, JInv, IInv, TypeInv, TypeOK, Started
<1>3. /\ arg[r].op = "status" => to \in {"CONFIRMED", "COMPLETED", "NO_SHOW"}
      /\ arg[r].op = "cancel" => to = "CANCELED"
  BY <1>1 DEF KInv, JInv, LogInv, Fitting
<1>4. /\ arg[r].seen.status \in Status \cup {None} /\ arg[r].seen.start \in Starts \cup {None}
  BY <1>1 DEF Argument, Snapshot
<1>5. /\ OnlyStatus(arg[r].seen.status) \in Snapshot /\ OnlyStatus(to) \in Snapshot
      /\ OnlyStart(arg[r].seen.start) \in Snapshot /\ OnlyStart(s) \in Snapshot
  BY <1>4, SnapshotTypes
<1>6. CASE CommitStatus(r) \/ CommitCancel(r)
  <2>1. appt' = [appt EXCEPT ![x] = [appt[x] EXCEPT !.status = to]]
    BY <1>3, <1>6 DEF CommitStatus, CommitCancel
  <2>2. /\ appt'[x] = [appt[x] EXCEPT !.status = to]
        /\ \A b \in Requests \ {x} : appt'[b] = appt[b]
    BY <2>1 DEF KInv, JInv, IInv, TypeInv, TypeOK
  <2>3. /\ appt'[x].status = to /\ appt'[x].client = appt[x].client 
        /\ appt'[x].start = appt[x].start /\ appt'[x].dur = appt[x].dur
        /\ appt'[x] \in Appointment
    BY <1>2, <2>2 DEF Appointment
  <2>4. appt'[x] # None
    BY <2>3
  <2>5. to \in {"CONFIRMED", "COMPLETED", "NO_SHOW", "CANCELED"} /\ to \in Action
    BY <1>3, <1>6 DEF CommitStatus, CommitCancel, Action
  <2>6. Record(x, to, "USER", OnlyStatus(arg[r].seen.status), OnlyStatus(to))
    BY <1>3, <1>6 DEF CommitStatus, CommitCancel
  <2>7. /\ \A a \in Requests : appt[a] # None => audit'[a][1] = audit[a][1]
        /\ LogKept
        /\ to \notin {"CREATED", "CONFIRMED"} => Touched(x)'
    BY <1>5, <2>5, <2>6, FirstRowStays
  <2>8. Touched(x)' \/ appt'[x].status \in {"PENDING", "CONFIRMED"}
    BY <2>3, <2>5, <2>7
  <2> QED
    BY <1>1, <1>2, <2>2, <2>3, <2>4, <2>7, <2>8, UpdateClient
<1>7. CASE CommitReschedule(r)
  <2>1. appt' = [appt EXCEPT ![x] = [appt[x] EXCEPT !.start = s]]
    BY <1>7 DEF CommitReschedule
  <2>2. /\ appt'[x] = [appt[x] EXCEPT !.start = s]
        /\ \A b \in Requests \ {x} : appt'[b] = appt[b]
    BY <2>1 DEF KInv, JInv, IInv, TypeInv, TypeOK
  <2>3. /\ appt'[x].status = appt[x].status /\ appt'[x].client = appt[x].client 
        /\ appt'[x].start = s /\ appt'[x].dur = appt[x].dur
        /\ appt'[x] \in Appointment
    BY <1>2, <2>2 DEF Appointment
  <2>4. appt'[x] # None
    BY <2>3
  <2>5. Live /\ Unmoved
    BY DEF KInv, ClientInv
  <2>6. /\ \A a \in Requests : appt[a] # None => audit'[a][1] = audit[a][1]
        /\ LogKept
        /\ Touched(x)' \/ (appt'[x].start = appt[x].start /\ ~Touched(x))
    <3>1. CASE s # arg[r].seen.start
      <4>1. Record(x, "RESCHEDULED", "USER", OnlyStart(arg[r].seen.start), OnlyStart(s))
        BY <1>7, <3>1 DEF CommitReschedule
      <4>2. "RESCHEDULED" \in Action
        BY DEF Action
      <4> QED
        BY <1>5, <4>1, <4>2, FirstRowStays
    <3>2. CASE s = arg[r].seen.start
      <4>1. audit' = audit
        BY <1>7, <3>2 DEF CommitReschedule
      <4>2. LogKept /\ (Touched(x) => Touched(x)')
        BY <4>1 DEF LogKept, Logged, Touched
      <4>3. ~Touched(x) => appt[x].start = s
        BY <1>1, <1>7, <2>5, <3>2 DEF Unmoved, CommitReschedule
      <4> QED
        BY <2>3, <4>1, <4>2, <4>3
    <3> QED BY <3>1, <3>2
  <2>7. Touched(x)' \/ appt'[x].status \in {"PENDING", "CONFIRMED"}
    BY <1>2, <2>3, <2>5, <2>6 DEF Live
  <2> QED
    BY <1>1, <1>2, <2>2, <2>3, <2>4, <2>6, <2>7, UpdateClient
<1> QED
  BY <1>6, <1>7

----------------------------------------------------------------------------

\* No more rows that bookings created than before.
Fewer == \A c \in Clients : /\ clientRows[c].booked \in Nat /\ clientRows'[c].booked \in Nat
                             /\ clientRows'[c].booked <= clientRows[c].booked

LEMMA StaffFewer ==
    ASSUME TypeInv, NEW c \in Clients, AddClient(c) \/ RemoveClient(c)
    PROVE  Fewer
<1>1. clientRows \in [Clients -> ClientRows]
  BY DEF TypeInv, TypeOK
<1>2. CASE AddClient(c) 
  BY <1>1, <1>2 DEF AddClient, ClientRows, Fewer
<1>3. CASE RemoveClient(c)
  BY <1>1, <1>3 DEF RemoveClient, ClientRows, Fewer
<1> QED BY <1>2, <1>3

LEMMA FewerMissing ==
    ASSUME KInv, Fewer, pc' = pc, arg' = arg
    PROVE  StillMissing' /\ OneClientPerPhone'
<1>1. OneClientPerPhone'
  BY DEF KInv, ClientInv, OneClientPerPhone, Fewer
<1>2. ASSUME NEW q \in Requests, Passed(q)', arg'[q].newClient
      PROVE  clientRows'[arg'[q].client].booked = 0
  <2>1. Passed(q) /\ arg[q].newClient
    BY <1>2 DEF Passed
  <2>2. arg[q].client \in Clients
    BY <2>1, ArgumentType DEF KInv, JInv, IInv, Passed, Argument, InTransaction, PC
  <2>3. clientRows[arg[q].client].booked = 0
    BY <2>1 DEF KInv, ClientInv, StillMissing
  <2> QED
    BY <2>2, <2>3 DEF Fewer
<1>3. StillMissing'
  BY <1>2 DEF StillMissing
<1> QED BY <1>1, <1>3

LEMMA StepClient == KInv /\ [Next]_vars => KInv'
<1> SUFFICES ASSUME KInv, [Next]_vars PROVE KInv'
  OBVIOUS
<1>1. JInv'
  BY StepLog DEF KInv
<1>2. ASSUME NEW r \in Requests, Arrive(r) PROVE ClientInv'
  BY <1>2, ArriveClient
<1>3. ASSUME NEW r \in Requests, Serve(r) PROVE ClientInv'
  <2>1. CASE LockClient(r) \/ CheckClient(r) \/ LockEmployee(r) \/ CheckEmployee(r)
    BY <2>1, LookClient
  <2>2. CASE CommitCreate(r) \/ CommitPublic(r)
    BY <2>2, InsertClient DEF CommitCreate, CommitPublic
  <2>3. CASE CommitStatus(r) \/ CommitCancel(r) \/ CommitReschedule(r)
    BY <2>3, CommitUpdateClient
  <2>4. CASE RejectConflict(r)
    BY <2>4, RollbackClient DEF RejectConflict
  <2> QED
    BY <1>3, <2>1, <2>2, <2>3, <2>4 DEF Serve
<1>4. ASSUME NEW r \in Requests, Fail(r) PROVE ClientInv'
  BY <1>4, RollbackClient DEF Fail
<1>5. ASSUME UNCHANGED <<appt, outbox, audit, cliLock, empLock, pc, arg>>, Fewer PROVE ClientInv'
  <2>1. /\ appt' = appt /\ audit' = audit /\ pc' = pc /\ arg' = arg /\ cliLock' = cliLock
    BY <1>5
  <2>2. \A a \in Requests : Touched(a)' <=> Touched(a)
    BY <2>1, QuietClient
  <2>3. ClientHeld'
    BY <2>1 DEF KInv, ClientInv, ClientHeld, Passed
  <2>7. StillMissing' /\ OneClientPerPhone'
    BY <1>5, <2>1, FewerMissing DEF KInv
  <2>4. Unmoved'
    BY <2>1 DEF KInv, ClientInv, Unmoved, Touched, Logged
  <2>5. ClientChecked'
    BY <2>1 DEF KInv, ClientInv, ClientChecked, Passed, Meets, Booked, Touched, Logged
  <2>6. Live' /\ PublicClientExclusive'
    BY <2>1, QuietClient
  <2> QED
    BY <2>3, <2>4, <2>5, <2>6, <2>7 DEF ClientInv
<1>7. ASSUME NEW c \in Clients, AddClient(c) \/ RemoveClient(c) PROVE Fewer
  BY <1>7, StaffFewer DEF KInv, JInv, IInv
<1>8. UNCHANGED vars => Fewer
  BY DEF vars, Fewer, KInv, JInv, IInv, TypeInv, TypeOK, ClientRows
<1>6. ClientInv'
  BY <1>2, <1>3, <1>4, <1>5, <1>7, <1>8, StaffQuiet DEF Next, AllServed, vars
<1> QED
  BY <1>1, <1>6 DEF KInv

LEMMA InitClient == Init => KInv
<1> SUFFICES ASSUME Init PROVE KInv
  OBVIOUS
<1>1. \A a \in Requests : appt[a] = None /\ pc[a] = "idle"
  BY DEF Init
<1>2. ClientHeld /\ StillMissing /\ Unmoved /\ ClientChecked
  BY <1>1 DEF ClientHeld, StillMissing, Unmoved, ClientChecked, Passed, InTransaction
<1>3. Live /\ PublicClientExclusive
  BY <1>1 DEF Live, PublicClientExclusive
<1>4. OneClientPerPhone
  <2>1. \A c \in Clients : clientRows[c].booked \in {0, 1}
    BY DEF Init
  <2> QED
    BY <2>1 DEF OneClientPerPhone
<1> QED
  BY <1>2, <1>3, <1>4, InitLog DEF KInv, ClientInv

\* However many first bookings of a phone run at once, they create one client.
THEOREM PhoneHasOneClient == Spec => []OneClientPerPhone
<1>1. KInv => OneClientPerPhone
  BY DEF KInv, ClientInv
<1> QED
  BY <1>1, InitClient, StepClient, PTL DEF Spec

\* Two public appointments of a client overlap only if one was moved or ended.
THEOREM ClientsAreNotDoubleBooked == Spec => []PublicClientExclusive
<1>1. KInv => PublicClientExclusive
  BY DEF KInv, ClientInv
<1> QED
  BY <1>1, InitClient, StepClient, PTL DEF Spec

----------------------------------------------------------------------------
(* Requests that wait for each other *)

\* r waits for the advisory lock q holds: the guards of LockClient and LockEmployee are
\* that it waits for nobody.
WaitsFor(r, q) ==
    \/ pc[r] = "lockClient" /\ cliLock[arg[r].client] = q
    \/ pc[r] = "lockEmployee" /\ empLock[arg[r].emp] = q

\* Who is waited for is another one and in its transaction, and who is waited for by one that
\* is waited for does not wait: nobody waits in a circle, or for a lock left behind.
WaitsEnd ==
    /\ \A r, q \in Requests : WaitsFor(r, q) => q # r /\ pc[q] \in InTransaction
    /\ \A a, b, c, d \in Requests : ~(WaitsFor(a, b) /\ WaitsFor(b, c) /\ WaitsFor(c, d))

\* A lock is held by a request that has taken it and has not ended: the client's by one that
\* may still have to take the employee's, the employee's by one that needs no more.
ClientHolders == \A c \in Clients, q \in Requests : cliLock[c] = q => 
    pc[q] \in InTransaction \ {"lockClient"}
EmployeeHolders == \A e \in Employees, q \in Requests : empLock[e] = q => 
    pc[q] \in {"checkEmployee", "write"}

HoldersInv == ClientHolders /\ EmployeeHolders

\* The request that moves holds its locks still, and the others are where they were.
LEMMA HoldersMove ==
    ASSUME TypeOK, HoldersInv, NEW r \in Requests, NEW l \in PC,
           pc' = [pc EXCEPT ![r] = l],
           \A c \in Clients : cliLock'[c] = cliLock[c] \/ (cliLock'[c] = r /\ l # "lockClient"),
           \A e \in Employees : empLock'[e] = empLock[e] \/ (empLock'[e] = r /\ l = "checkEmployee"),
           pc[r] = "idle" \/ l \in InTransaction \ {"lockClient"},
           pc[r] \in {"checkEmployee", "write"} => l \in {"checkEmployee", "write"},
           l \in InTransaction
    PROVE  HoldersInv'
<1>1. pc'[r] = l /\ \A q \in Requests \ {r} : pc'[q] = pc[q]
  BY DEF TypeOK
<1>2. ClientHolders'
  <2> SUFFICES ASSUME NEW c \in Clients, NEW q \in Requests, cliLock'[c] = q
               PROVE  pc'[q] \in InTransaction \ {"lockClient"}
    BY DEF ClientHolders
  <2>1. CASE q = r
    BY <1>1, <2>1 DEF HoldersInv, ClientHolders, InTransaction, PC
  <2>2. CASE q # r
    BY <1>1, <2>2 DEF HoldersInv, ClientHolders
  <2> QED
    BY <2>1, <2>2
<1>3. EmployeeHolders'
  <2> SUFFICES ASSUME NEW e \in Employees, NEW q \in Requests, empLock'[e] = q
               PROVE  pc'[q] \in {"checkEmployee", "write"}
    BY DEF EmployeeHolders
  <2>1. CASE q = r
    BY <1>1, <2>1 DEF HoldersInv, EmployeeHolders
  <2>2. CASE q # r
    BY <1>1, <2>2 DEF HoldersInv, EmployeeHolders
  <2> QED
    BY <2>1, <2>2
<1> QED
  BY <1>2, <1>3 DEF HoldersInv

\* A transaction that ends leaves no lock behind.
LEMMA HoldersEnd ==
    ASSUME TypeOK, HoldersInv, NEW r \in Requests, EndTransaction(r)
    PROVE  HoldersInv'
<1>1. \A q \in Requests \ {r} : pc'[q] = pc[q]
  BY DEF TypeOK, EndTransaction
<1>2. \A c \in Clients, q \in Requests : cliLock'[c] = q => q # r /\ cliLock[c] = q
  BY DEF EndTransaction
<1>3. \A e \in Employees, q \in Requests : empLock'[e] = q => q # r /\ empLock[e] = q
  BY DEF EndTransaction
<1> QED
  BY <1>1, <1>2, <1>3 DEF HoldersInv, ClientHolders, EmployeeHolders

LEMMA ArriveHolders ==
    ASSUME TypeOK, HoldersInv, NEW r \in Requests, Arrive(r)
    PROVE  HoldersInv'
<1>1. ASSUME NEW at \in {"lockClient", "lockEmployee", "write"}, NEW x, Begin(r, at, x)
      PROVE  HoldersInv'
  BY <1>1, HoldersMove DEF Begin, PC, InTransaction
<1>2. CASE Refuse(r)
  <2>1. \A q \in Requests \ {r} : pc'[q] = pc[q]
    BY <1>2 DEF Refuse, TypeOK
  <2>2. \A c \in Clients : cliLock[c] # r
    BY <1>2 DEF Refuse, HoldersInv, ClientHolders, InTransaction
  <2>3. \A e \in Employees : empLock[e] # r
    BY <1>2 DEF Refuse, HoldersInv, EmployeeHolders
  <2> QED
    BY <1>2, <2>1, <2>2, <2>3 DEF Refuse, HoldersInv, ClientHolders, EmployeeHolders
<1> QED
  BY <1>1, <1>2 DEF Arrive, BeginCreate, BeginPublic, BeginStatus, BeginCancel, BeginReschedule

LEMMA ServeHolders ==
    ASSUME TypeOK, HoldersInv, NEW r \in Requests, Serve(r) \/ Fail(r)
    PROVE  HoldersInv'
<1>1. CASE LockClient(r)
  BY <1>1, HoldersMove DEF LockClient, TypeOK, PC, InTransaction
<1>2. CASE CheckClient(r)
  BY <1>2, HoldersMove DEF CheckClient, PC, InTransaction
<1>3. CASE LockEmployee(r)
  BY <1>3, HoldersMove DEF LockEmployee, TypeOK, PC, InTransaction
<1>4. CASE CheckEmployee(r)
  BY <1>4, HoldersMove DEF CheckEmployee, PC, InTransaction
<1>5. CASE \/ CommitCreate(r) \/ CommitPublic(r) \/ CommitStatus(r) \/ CommitCancel(r)
           \/ CommitReschedule(r) \/ RejectConflict(r) \/ Fail(r)
  <2>1. EndTransaction(r)
    BY <1>5 DEF CommitCreate, CommitPublic, CommitStatus, CommitCancel, CommitReschedule,
       RejectConflict, Fail, Rollback
  <2> QED
    BY <2>1, HoldersEnd
<1> QED
  BY <1>1, <1>2, <1>3, <1>4, <1>5 DEF Serve

LEMMA StepHolders == TypeOK /\ HoldersInv /\ [Next]_vars => HoldersInv'
<1> SUFFICES ASSUME TypeOK, HoldersInv, [Next]_vars PROVE HoldersInv'
  OBVIOUS
<1>1. ASSUME NEW c \in Clients, AddClient(c) \/ RemoveClient(c) 
      PROVE  UNCHANGED <<cliLock, empLock, pc>>
  BY <1>1 DEF AddClient, RemoveClient
<1>2. CASE UNCHANGED <<cliLock, empLock, pc>>
  BY <1>2 DEF HoldersInv, ClientHolders, EmployeeHolders
<1> QED
  BY <1>1, <1>2, ArriveHolders, ServeHolders DEF Next, AllServed, vars

\* The client's lock is taken before the employee's, by everyone.
LEMMA WaitsAreShort ==
    ASSUME TypeInv, HoldersInv
    PROVE  WaitsEnd
<1>1. ASSUME NEW r \in Requests, NEW q \in Requests, WaitsFor(r, q)
      PROVE  /\ pc[r] \in {"lockClient", "lockEmployee"}
             /\ pc[q] \in InTransaction \ {"lockClient"}
             /\ pc[r] = "lockEmployee" => pc[q] \in {"checkEmployee", "write"}
             /\ q # r
  <2>1. arg[r].client \in Clients /\ arg[r].emp \in Employees
    BY <1>1, ArgumentType DEF WaitsFor, InTransaction, PC, Argument
  <2>2. CASE pc[r] = "lockClient"
    BY <1>1, <2>1, <2>2 DEF WaitsFor, HoldersInv, ClientHolders
  <2>3. CASE pc[r] = "lockEmployee"
    BY <1>1, <2>1, <2>3 DEF WaitsFor, HoldersInv, EmployeeHolders, InTransaction, PC
  <2> QED
    BY <1>1, <2>2, <2>3 DEF WaitsFor
<1>2. ASSUME NEW a \in Requests, NEW b \in Requests, NEW c \in Requests, NEW d \in Requests,
             WaitsFor(a, b), WaitsFor(b, c), WaitsFor(c, d)
      PROVE  FALSE
  <2>1. pc[b] = "lockEmployee"
    BY <1>1, <1>2
  <2>2. pc[c] \in {"checkEmployee", "write"}
    BY <1>1, <1>2, <2>1
  <2> QED
    BY <1>1, <1>2, <2>2
<1> QED
  BY <1>1, <1>2 DEF WaitsEnd

\* Requests never wait for each other's advisory locks in a circle, nor for the lock of one
\* that is through, which is why those that start also end: createAppointment, the only one
\* to take two, takes the client's before the employee's, and both go with the transaction.
THEOREM NobodyWaitsInACircle == Spec => []WaitsEnd
<1>1. Init => HoldersInv
  BY DEF Init, HoldersInv, ClientHolders, EmployeeHolders
<1>2. TypeInv /\ HoldersInv => WaitsEnd
  BY WaitsAreShort
<1>3. TypeInv => TypeOK
  BY DEF TypeInv
<1> QED
  BY <1>1, <1>2, <1>3, InitType, StepType, StepHolders, PTL DEF Spec
=============================================================================
