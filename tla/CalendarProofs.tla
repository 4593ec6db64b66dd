--------------------------- MODULE CalendarProofs ---------------------------
(***************************************************************************)
(* Booking implements Calendar for any number of requests, employees,      *)
(* clients and instants, and what Calendar promises by itself.             *)
(***************************************************************************)
EXTENDS BookingProofs

USE OpsAssumption, TimeAssumption, EmailAssumption, NoneAssumption

----------------------------------------------------------------------------
(* The inductive invariant: a status is changed as the one that was read   *)
(* allows, and a move has read a start                                     *)

Allowed ==
    \A r \in Requests : pc[r] \in InTransaction =>
        /\ arg[r].op = "status" => arg[r].to \in AllowedTransitions(arg[r].seen.status)
        /\ arg[r].op = "reschedule" => arg[r].seen.start \in Starts

MInv == KInv /\ Allowed

LEMMA AllowedKept ==
    ASSUME Allowed,
           \A q \in Requests : pc'[q] \in InTransaction =>
              /\ pc[q] \in InTransaction
              /\ arg'[q].op = arg[q].op /\ arg'[q].to = arg[q].to /\ arg'[q].seen = arg[q].seen
    PROVE  Allowed'
  BY DEF Allowed, AllowedTransitions

LEMMA BeginAllowed ==
    ASSUME MInv, NEW r \in Requests, NEW at, NEW x, Begin(r, at, x),
           x.op = "status" => x.to \in AllowedTransitions(x.seen.status),
           x.op = "reschedule" => x.seen.start \in Starts
    PROVE  Allowed'
<1>1. \A q \in Requests : q # r => pc'[q] = pc[q] /\ arg'[q] = arg[q]
  BY DEF Begin, MInv, KInv, JInv, IInv, TypeInv, TypeOK
<1>2. arg'[r] = x
  BY DEF Begin, MInv, KInv, JInv, IInv, TypeInv, TypeOK
<1> QED
  BY <1>1, <1>2 DEF MInv, Allowed, AllowedTransitions

LEMMA ArriveAllowed ==
    ASSUME MInv, NEW r \in Requests, Arrive(r)
    PROVE  Allowed'
<1>1. CASE BeginCreate(r)
  <2> PICK e \in Employees, c \in Clients, s \in Starts, d \in Durations :
        Begin(r, "lockEmployee", [op |-> "create", id |-> r, emp |-> e, client |-> c, start |-> s,
                  dur |-> d, to |-> "CONFIRMED", seen |-> NoSnapshot, newClient |-> FALSE])
    BY <1>1 DEF BeginCreate
  <2> QED BY BeginAllowed
<1>2. CASE BeginPublic(r)
  <2> PICK e \in Employees, c \in Clients, s \in Starts, d \in Durations :
        Begin(r, "lockClient", [op |-> "public", id |-> r, emp |-> e, client |-> c, start |-> s,
                  dur |-> d, to |-> "PENDING", seen |-> NoSnapshot, newClient |-> FALSE])
    BY <1>2 DEF BeginPublic
  <2> QED BY BeginAllowed
<1>3. CASE BeginStatus(r)
  <2> PICK a \in Requests : \E to \in AllowedTransitions(appt[a].status) :
        Begin(r, "write", OnExisting("status", a, appt[a].start, to))
    BY <1>3 DEF BeginStatus
  <2> PICK to \in AllowedTransitions(appt[a].status) :
        Begin(r, "write", OnExisting("status", a, appt[a].start, to))
    OBVIOUS
  <2> DEFINE x == OnExisting("status", a, appt[a].start, to)
  <2>1. x.op = "status" /\ x.to = to /\ x.seen.status = appt[a].status /\ Begin(r, "write", x)
    BY DEF OnExisting, SnapshotOf
  <2> HIDE DEF x
  <2>2. x.to \in AllowedTransitions(x.seen.status)
    BY <2>1
  <2> QED BY <2>1, <2>2, BeginAllowed
<1>4. CASE BeginCancel(r)
  <2> PICK a \in Requests : Begin(r, "write", OnExisting("cancel", a, appt[a].start, "CANCELED"))
    BY <1>4 DEF BeginCancel
  <2>1. OnExisting("cancel", a, appt[a].start, "CANCELED").op = "cancel"
    BY DEF OnExisting
  <2> QED BY <2>1, BeginAllowed
<1>5. CASE BeginReschedule(r)
  <2> PICK a \in Requests, s \in Starts : 
        /\ appt[a] # None
        /\ Begin(r, "lockEmployee", OnExisting("reschedule", a, s, appt[a].status))
    BY <1>5 DEF BeginReschedule
  <2> DEFINE x == OnExisting("reschedule", a, s, appt[a].status)
  <2>1. x.op = "reschedule" /\ x.seen.start = appt[a].start /\ Begin(r, "lockEmployee", x)
    BY DEF OnExisting, SnapshotOf
  <2>2. appt[a].start \in Starts
    BY DEF MInv, KInv, JInv, IInv, TypeInv, TypeOK, Appointment
  <2> HIDE DEF x
  <2> QED BY <2>1, <2>2, BeginAllowed
<1>6. CASE Refuse(r)
  <2>1. \A q \in Requests : pc'[q] \in InTransaction => pc'[q] = pc[q]
    BY <1>6 DEF Refuse, MInv, KInv, JInv, IInv, TypeInv, TypeOK, InTransaction
  <2>2. arg' = arg
    BY <1>6 DEF Refuse
  <2> QED BY <2>1, <2>2, AllowedKept DEF MInv
<1> QED
  BY <1>1, <1>2, <1>3, <1>4, <1>5, <1>6 DEF Arrive

LEMMA ServeAllowed ==
    ASSUME MInv, NEW r \in Requests, Serve(r) \/ Fail(r)
    PROVE  Allowed'
<1>0. TypeInv /\ pc \in [Requests -> PC]
  BY DEF MInv, KInv, JInv, IInv, TypeInv, TypeOK
<1>1. CASE CheckClient(r)
  <2>1. arg[r] \in Argument /\ pc[r] \in InTransaction
    BY <1>0, <1>1, ArgumentType DEF CheckClient, InTransaction, PC
  <2>2. /\ arg'[r].op = arg[r].op /\ arg'[r].to = arg[r].to /\ arg'[r].seen = arg[r].seen
        /\ \A q \in Requests \ {r} : pc'[q] = pc[q] /\ arg'[q] = arg[q]
    BY <1>0, <1>1, <2>1 DEF CheckClient, TypeInv, TypeOK, Argument
  <2> QED BY <2>1, <2>2, AllowedKept DEF MInv
<1>2. CASE LockClient(r) \/ LockEmployee(r) \/ CheckEmployee(r)
  <2>1. arg' = arg /\ \A q \in Requests : pc'[q] \in InTransaction => pc[q] \in InTransaction
    BY <1>0, <1>2 DEF LockClient, LockEmployee, CheckEmployee, InTransaction, PC
  <2> QED BY <2>1, AllowedKept DEF MInv
<1>3. CASE EndTransaction(r)
  <2>1. arg' = arg /\ \A q \in Requests : pc'[q] \in InTransaction => pc[q] \in InTransaction
    BY <1>0, <1>3 DEF EndTransaction, InTransaction, PC
  <2> QED BY <2>1, AllowedKept DEF MInv
<1> QED
  BY <1>1, <1>2, <1>3 DEF Serve, Fail, RejectConflict, Rollback, CommitCreate, CommitPublic,
     CommitStatus, CommitCancel, CommitReschedule

LEMMA StepAllowed == MInv /\ [Next]_vars => MInv'
<1> SUFFICES ASSUME MInv, [Next]_vars PROVE MInv'
  OBVIOUS
<1>1. KInv'
  BY StepClient DEF MInv
<1>2. ASSUME UNCHANGED <<appt, outbox, audit, cliLock, empLock, pc, arg>> PROVE Allowed'
  BY <1>2, AllowedKept DEF MInv
<1>3. Allowed'
  BY <1>2, ArriveAllowed, ServeAllowed, StaffQuiet DEF Next, AllServed, vars
<1> QED
  BY <1>1, <1>3 DEF MInv

LEMMA InitAllowed == Init => MInv
<1>1. Init => Allowed
  BY DEF Init, Allowed, InTransaction
<1> QED
  BY <1>1, InitClient DEF MInv
----------------------------------------------------------------------------
(* What the tables show of the calendar *)

RowOf(row) == [action |-> row.action, status |-> row.after.status, start |-> row.after.start]
LogOf(a) == {[action |-> audit[a][i].action, status |-> audit[a][i].after.status, 
              start |-> audit[a][i].after.start] : i \in DOMAIN audit[a]}
Log == [a \in Requests |-> LogOf(a)]
Public == {a \in Requests : appt[a] # None /\ audit[a][1].actor = "PUBLIC"}

CalendarVars == <<appt, Public, Log, outbox>>

\* A row of the audit log is a note in the calendar.
LEMMA RecordNotes ==
    ASSUME TypeInv, NEW x \in Requests, NEW act \in Action, NEW who \in {"USER", "PUBLIC"}, 
           NEW before \in Snapshot, NEW after \in Snapshot,
           Record(x, act, who, before, after),
           NEW status, status = after.status, NEW start, start = after.start
    PROVE  Agenda!Note(x, act, status, start)
<1> DEFINE n == Len(audit[x])
           new == [action |-> act, status |-> status, start |-> start]
<1>1. /\ \A a \in Requests \ {x} : audit'[a] = audit[a]
      /\ n \in Nat /\ DOMAIN audit[x] = 1 .. n /\ DOMAIN audit'[x] = 1 .. n + 1
      /\ \A i \in 1 .. n : audit'[x][i] = audit[x][i]
      /\ audit'[x][n + 1].action = act
      /\ audit'[x][n + 1].after = after
  BY AppendRow
<1>2. \A a \in Requests \ {x} : LogOf(a)' = LogOf(a)
  BY <1>1 DEF LogOf
<1> HIDE DEF n, new
<1>3. ASSUME NEW h \in LogOf(x)' PROVE h \in LogOf(x) \cup {new}
  <2> PICK i \in 1 .. n + 1 : h = [action |-> audit'[x][i].action, 
                 status |-> audit'[x][i].after.status, start |-> audit'[x][i].after.start]
    BY <1>1, <1>3 DEF LogOf
  <2>1. CASE i = n + 1
    BY <1>1, <2>1 DEF new
  <2>2. CASE i \in 1 .. n
    BY <1>1, <2>2 DEF LogOf
  <2> QED BY <1>1, <2>1, <2>2
<1>4. LogOf(x) \subseteq LogOf(x)'
  <2> SUFFICES ASSUME NEW i \in 1 .. n
               PROVE  [action |-> audit[x][i].action, status |-> audit[x][i].after.status, 
                       start |-> audit[x][i].after.start] \in LogOf(x)'
    BY <1>1 DEF LogOf
  <2>1. i \in 1 .. n + 1 /\ audit'[x][i] = audit[x][i]
    BY <1>1
  <2> QED BY <1>1, <2>1 DEF LogOf
<1>5. new \in LogOf(x)'
  <2>1. n + 1 \in 1 .. n + 1
    BY <1>1
  <2> QED BY <1>1, <2>1 DEF LogOf, new
<1>6. LogOf(x)' = LogOf(x) \cup {new}
  BY <1>3, <1>4, <1>5
<1>7. Log' = [Log EXCEPT ![x] = @ \cup {new}]
  BY <1>2, <1>6 DEF Log
<1> QED
  BY <1>7 DEF Agenda!Note, Log, LogOf, new

LEMMA RowIsNoted ==
    ASSUME NEW a, NEW i \in DOMAIN audit[a]
    PROVE  /\ RowOf(audit[a][i]) \in LogOf(a)
           /\ RowOf(audit[a][i]).action = audit[a][i].action
           /\ RowOf(audit[a][i]).status = audit[a][i].after.status
           /\ RowOf(audit[a][i]).start = audit[a][i].after.start
<1>1. RowOf(audit[a][i]) \in LogOf(a)
  BY DEF RowOf, LogOf
<1> QED BY <1>1 DEF RowOf

\* What has been logged has happened.
LEMMA LoggedHappened ==
    ASSUME NEW a \in Requests
    PROVE  /\ \A act : Logged(a, act) => Agenda!Happened(a, act)
           /\ Touched(a) => Agenda!Changed(a)
<1>1. Log[a] = LogOf(a)
  BY DEF Log
<1>2. ASSUME NEW act, Logged(a, act) PROVE \E h \in LogOf(a) : h.action = act
  <2> PICK i \in DOMAIN audit[a] : audit[a][i].action = act
    BY <1>2 DEF Logged
  <2>1. RowOf(audit[a][i]) \in LogOf(a) /\ RowOf(audit[a][i]).action = audit[a][i].action
    BY RowIsNoted
  <2> QED BY <2>1
<1>3. \A act : Agenda!Happened(a, act) <=> \E h \in Log[a] : h.action = act
  BY DEF Agenda!Happened, Log, LogOf
<1>4. Touched(a) => \E h \in LogOf(a) : h.action \notin {"CREATED", "CONFIRMED"}
  BY <1>2 DEF Touched
<1>5. Agenda!Changed(a) <=> \E h \in Log[a] : h.action \notin {"CREATED", "CONFIRMED"}
  BY DEF Agenda!Changed, Log, LogOf
<1> QED BY <1>1, <1>2, <1>3, <1>4, <1>5

\* What a request has read is noted.
LEMMA ShownIsNoted ==
    ASSUME NEW a \in Requests
    PROVE  /\ \A s : ShowsStatus(a, s) => \E h \in Log[a] : h.status = s
           /\ \A s : ShowsStart(a, s) => \E h \in Log[a] : h.start = s
<1>1. Log[a] = LogOf(a)
  BY DEF Log
<1>2. ASSUME NEW i \in DOMAIN audit[a] 
      PROVE  \E h \in LogOf(a) : h.status = audit[a][i].after.status /\ h.start = audit[a][i].after.start
  BY RowIsNoted
<1>3. ASSUME NEW s, ShowsStatus(a, s) PROVE \E h \in LogOf(a) : h.status = s
  BY <1>2, <1>3 DEF ShowsStatus
<1>4. ASSUME NEW s, ShowsStart(a, s) PROVE \E h \in LogOf(a) : h.start = s
  BY <1>2, <1>4 DEF ShowsStart
<1> QED
  BY <1>1, <1>3, <1>4

LEMMA EnqueueTells ==
    ASSUME NEW a, NEW c, NEW kind, NEW at, Enqueue(a, c, kind, at)
    PROVE  Agenda!Tell(a, c, kind, at)
<1>1. CASE c \in WithEmail
  <2>1. WithEmail \cap {c} = {c}
    BY <1>1
  <2> QED BY <1>1, <2>1 DEF Enqueue, Agenda!Tell
<1>2. CASE c \notin WithEmail
  <2>1. WithEmail \cap {c} = {}
    BY <1>2
  <2> QED BY <1>2, <2>1 DEF Enqueue, Agenda!Tell
<1> QED BY <1>1, <1>2

----------------------------------------------------------------------------
(* What the conflict queries have found is true in the calendar *)

LEMMA EmployeeFree ==
    ASSUME IInv, NEW r \in Requests, pc[r] = "write", Locking(r)
    PROVE  Agenda!EmployeeIsFree(arg[r].id, arg[r].emp, arg[r].start, arg[r].dur)
<1> SUFFICES ASSUME NEW b \in Requests \ {arg[r].id}, appt[b] # None, appt[b].emp = arg[r].emp, 
                    appt[b].status # "CANCELED", Agenda!At(b, arg[r].start, arg[r].dur)
             PROVE  Agenda!Happened(b, "CANCELED")
  BY DEF Agenda!EmployeeIsFree
<1>1. InTheWay(r, b)
  BY DEF InTheWay, Occupying, Overlap, Agenda!At
<1>2. Logged(b, "CANCELED")
  BY <1>1 DEF IInv, BookInv, Checked
<1> QED BY <1>2, LoggedHappened

LEMMA ClientFree ==
    ASSUME KInv, NEW r \in Requests, pc[r] = "write", arg[r].op = "public"
    PROVE  Agenda!ClientIsFree(r, arg[r].client, arg[r].start, arg[r].dur)
<1> SUFFICES ASSUME NEW b \in Public \ {r}, appt[b].client = arg[r].client, 
                    Agenda!At(b, arg[r].start, arg[r].dur)
             PROVE  Agenda!Changed(b)
  BY DEF Agenda!ClientIsFree, Public
<1>1. b \in Requests /\ Booked(b)
  BY DEF Public, Booked
<1>2. Passed(r) /\ Meets(r, b)
  BY <1>1 DEF Passed, Meets, Overlap, Agenda!At
<1>3. Touched(b)
  BY <1>1, <1>2 DEF KInv, ClientInv, ClientChecked
<1> QED BY <1>1, <1>3, LoggedHappened
----------------------------------------------------------------------------
(* A commit is a step of the calendar *)

LEMMA InsertMoves ==
    ASSUME KInv, NEW r \in Requests, CommitCreate(r) \/ CommitPublic(r)
    PROVE  Agenda!Create(r) \/ Agenda!Request(r)
<1>1. /\ pc[r] = "write" /\ Insert(r)
      /\ CommitCreate(r) => arg[r].op = "create"
      /\ CommitPublic(r) => arg[r].op = "public"
  BY DEF CommitCreate, CommitPublic
<1>2. JInv /\ IInv /\ TypeInv
  BY DEF KInv, JInv, IInv
<1>3. pc[r] \in InTransaction /\ Creates(r) /\ Locking(r)
  BY <1>1 DEF InTransaction, PC, Creates, Locking
<1>4. /\ arg[r] \in Argument /\ arg[r].id = r /\ appt[r] = None /\ Len(audit[r]) = 0
      /\ arg[r].op = "create" => arg[r].to = "CONFIRMED"
      /\ arg[r].op = "public" => arg[r].to = "PENDING"
  BY <1>1, <1>2, <1>3, ArgumentType DEF JInv, IInv, BookInv, Target, LogInv, Shown, Fitting
<1> PICK new \in Appointment : new = [status |-> arg[r].to, emp |-> arg[r].emp, 
             client |-> arg[r].client, start |-> arg[r].start, dur |-> arg[r].dur]
  BY <1>4 DEF Argument, Appointment
<1> PICK after \in Snapshot : after = [status |-> arg[r].to, start |-> arg[r].start]
  BY <1>4 DEF Argument, Snapshot
<1>5. new \in Agenda!Entry /\ new # None
  BY DEF Appointment, Agenda!Entry, Status
<1>7. PICK who \in {"USER", "PUBLIC"} : 
          /\ Record(r, "CREATED", who, NoSnapshot, after)
          /\ who = "PUBLIC" <=> arg[r].op = "public"
  BY <1>1 DEF Insert
<1>8. appt' = [appt EXCEPT ![r] = new]
  BY <1>1 DEF Insert
<1>9. /\ new.status = arg[r].to /\ new.emp = arg[r].emp /\ new.client = arg[r].client
      /\ new.start = arg[r].start /\ new.dur = arg[r].dur
      /\ after.status = arg[r].to /\ after.start = arg[r].start
  OBVIOUS
<1>10. "CREATED" \in Action /\ NoSnapshot \in Snapshot
  BY SnapshotTypes DEF Action
<1>11. Agenda!Note(r, "CREATED", new.status, new.start)
  BY <1>2, <1>7, <1>9, <1>10, RecordNotes
<1>12. Agenda!EmployeeIsFree(r, new.emp, new.start, new.dur)
  BY <1>1, <1>2, <1>3, <1>4, <1>9, EmployeeFree
<1>13. Agenda!Place(r, new)
  BY <1>4, <1>8, <1>11, <1>12 DEF Agenda!Place
<1>14. /\ \A a \in Requests \ {r} : appt'[a] = appt[a] /\ audit'[a] = audit[a]
       /\ appt'[r] # None /\ audit'[r][1].actor = who
  BY <1>2, <1>4, <1>5, <1>7, <1>8, <1>10, AppendRow DEF TypeInv, TypeOK
<1>15. CASE arg[r].op = "create"
  <2>1. Public' = Public
    BY <1>4, <1>7, <1>14, <1>15 DEF Public
  <2>2. new.status = "CONFIRMED"
    BY <1>4, <1>9, <1>15
  <2>3. Agenda!Tell(r, new.client, "confirmed", None)
    BY <1>1, <1>9, <1>15, EnqueueTells DEF Insert, NotifyConfirmed
  <2>4. Agenda!Create(r)
    BY <1>5, <1>13, <2>1, <2>2, <2>3 DEF Agenda!Create, Public
  <2> QED BY <2>4
<1>16. CASE arg[r].op = "public"
  <2>1. Public' = Public \cup {r}
    BY <1>7, <1>14, <1>16 DEF Public
  <2>2. new.status = "PENDING"
    BY <1>4, <1>9, <1>16
  <2>3. Agenda!Tell(r, new.client, "requested", None)
    BY <1>1, <1>9, <1>16, EnqueueTells DEF Insert, NotifyRequested
  <2>4. Agenda!ClientIsFree(r, new.client, new.start, new.dur)
    BY <1>1, <1>9, <1>16, ClientFree
  <2>5. Agenda!Request(r)
    BY <1>5, <1>13, <2>1, <2>2, <2>3, <2>4 DEF Agenda!Request, Public
  <2> QED BY <2>5
<1> QED
  BY <1>3, <1>15, <1>16 DEF Creates

\* A request that updates an appointment works on one that exists.
LEMMA UpdatesExisting ==
    ASSUME MInv, NEW r \in Requests, pc[r] = "write", ~Creates(r)
    PROVE  /\ IInv /\ TypeInv /\ arg[r] \in Argument
           /\ arg[r].id \in Requests /\ appt[arg[r].id] # None 
           /\ appt[arg[r].id].client = arg[r].client
           /\ appt[arg[r].id].emp = arg[r].emp /\ appt[arg[r].id].dur = arg[r].dur
           /\ arg[r].op \in {"status", "cancel"} => ShowsStatus(arg[r].id, arg[r].seen.status)
           /\ arg[r].op = "reschedule" => /\ ShowsStart(arg[r].id, arg[r].seen.start)
                                          /\ arg[r].seen.start # None
           /\ arg[r].op = "status" => /\ arg[r].to \in {"CONFIRMED", "COMPLETED", "NO_SHOW"}
                                      /\ arg[r].to \in AllowedTransitions(arg[r].seen.status)
<1>1. pc[r] \in InTransaction /\ JInv /\ IInv /\ TypeInv
  BY DEF InTransaction, PC, MInv, KInv, JInv, IInv
<1>2. arg[r] \in Argument /\ arg[r].id \in Requests /\ appt[arg[r].id] # None
  BY <1>1, ArgumentType DEF TypeInv, Started, Argument
<1>3. Fitting /\ Target /\ Allowed
  BY <1>1 DEF JInv, LogInv, IInv, BookInv, MInv
<1> QED
  BY <1>1, <1>2, <1>3 DEF Fitting, Target, Allowed

\* An update leaves alone who booked on the public page.
LEMMA PublicStays ==
    ASSUME KInv, NEW x \in Requests, appt[x] # None, appt'[x] # None,
           \A a \in Requests \ {x} : appt'[a] = appt[a],
           \A a \in Requests : appt[a] # None => audit'[a][1] = audit[a][1]
    PROVE  Public' = Public
  BY DEF Public

LEMMA StatusMoves ==
    ASSUME MInv, NEW r \in Requests, CommitStatus(r)
    PROVE  \E a \in Requests : Agenda!UpdateStatus(a)
<1>1. pc[r] = "write" /\ arg[r].op = "status" /\ ~Creates(r)
  BY DEF CommitStatus, Creates
<1> PICK x \in Requests, to \in {"CONFIRMED", "COMPLETED", "NO_SHOW"} : x = arg[r].id /\ to = arg[r].to
  BY <1>1, UpdatesExisting
<1>2. /\ TypeInv /\ KInv /\ appt[x] # None /\ appt[x].client = arg[r].client
      /\ arg[r] \in Argument /\ ShowsStatus(x, arg[r].seen.status)
      /\ to \in AllowedTransitions(arg[r].seen.status)
  BY <1>1, UpdatesExisting DEF MInv
<1>3. /\ Record(x, to, "USER", OnlyStatus(arg[r].seen.status), OnlyStatus(to))
      /\ appt' = [appt EXCEPT ![x].status = to]
      /\ IF to = "CONFIRMED" THEN NotifyConfirmed(x, arg[r].client) ELSE UNCHANGED outbox
  BY DEF CommitStatus
<1>4. /\ OnlyStatus(arg[r].seen.status) \in Snapshot /\ OnlyStatus(to) \in Snapshot
      /\ OnlyStatus(to).status = to /\ OnlyStatus(to).start = None
      /\ to \in Action
  BY <1>2, SnapshotTypes DEF Argument, Snapshot, OnlyStatus, Action, Status
<1>5. Agenda!Note(x, to, to, None)
  BY <1>2, <1>3, <1>4, RecordNotes
<1>6. IF to = "CONFIRMED" THEN Agenda!Tell(x, appt[x].client, "confirmed", None) 
                          ELSE UNCHANGED outbox
  BY <1>2, <1>3, EnqueueTells DEF NotifyConfirmed
<1>7. appt'[x] # None /\ \A a \in Requests \ {x} : appt'[a] = appt[a]
  <2>1. appt[x] \in Appointment /\ appt'[x] = [appt[x] EXCEPT !.status = to]
    BY <1>2, <1>3 DEF TypeInv, TypeOK
  <2>2. [appt[x] EXCEPT !.status = to] \in Appointment
    BY <1>2, <2>1 DEF Appointment, Status
  <2> QED
    BY <1>2, <1>3, <2>1, <2>2 DEF TypeInv, TypeOK
<1>8. \A a \in Requests : appt[a] # None => audit'[a][1] = audit[a][1]
  BY <1>2, <1>3, <1>4, FirstRowStays
<1>9. Public' = Public
  BY <1>2, <1>7, <1>8, PublicStays
<1>10. PICK h \in Log[x] : h.status = arg[r].seen.status
  BY <1>2, ShownIsNoted
<1>11. to \in Agenda!Transitions(h.status)
  BY <1>2, <1>10 DEF AllowedTransitions, Agenda!Transitions
<1>12. Agenda!UpdateStatus(x)
  BY <1>3, <1>5, <1>6, <1>9, <1>10, <1>11 DEF Agenda!UpdateStatus, Log, LogOf, Public
<1> QED BY <1>12

LEMMA CancelMoves ==
    ASSUME MInv, NEW r \in Requests, CommitCancel(r)
    PROVE  \E a \in Requests : Agenda!Cancel(a)
<1>1. pc[r] = "write" /\ arg[r].op = "cancel" /\ ~Creates(r)
  BY DEF CommitCancel, Creates
<1> PICK x \in Requests : x = arg[r].id
  BY <1>1, UpdatesExisting
<1>2. /\ TypeInv /\ KInv /\ appt[x] # None /\ appt[x].client = arg[r].client
      /\ arg[r] \in Argument
  BY <1>1, UpdatesExisting DEF MInv
<1>3. /\ Record(x, "CANCELED", "USER", OnlyStatus(arg[r].seen.status), OnlyStatus("CANCELED"))
      /\ appt' = [appt EXCEPT ![x].status = "CANCELED"]
      /\ NotifyCanceled(x, arg[r].client)
  BY DEF CommitCancel
<1>4. /\ OnlyStatus(arg[r].seen.status) \in Snapshot /\ OnlyStatus("CANCELED") \in Snapshot
      /\ OnlyStatus("CANCELED").status = "CANCELED" /\ OnlyStatus("CANCELED").start = None
      /\ "CANCELED" \in Action
  BY <1>2, SnapshotTypes DEF Argument, Snapshot, OnlyStatus, Action, Status
<1>5. Agenda!Note(x, "CANCELED", "CANCELED", None)
  BY <1>2, <1>3, <1>4, RecordNotes
<1>6. Agenda!Tell(x, appt[x].client, "canceled", None)
  BY <1>2, <1>3, EnqueueTells DEF NotifyCanceled
<1>7. appt'[x] # None /\ \A a \in Requests \ {x} : appt'[a] = appt[a]
  <2>1. appt[x] \in Appointment /\ appt'[x] = [appt[x] EXCEPT !.status = "CANCELED"]
    BY <1>2, <1>3 DEF TypeInv, TypeOK
  <2>2. [appt[x] EXCEPT !.status = "CANCELED"] \in Appointment
    BY <1>2, <2>1 DEF Appointment, Status
  <2> QED
    BY <1>2, <1>3, <2>1, <2>2 DEF TypeInv, TypeOK
<1>8. \A a \in Requests : appt[a] # None => audit'[a][1] = audit[a][1]
  BY <1>2, <1>3, <1>4, FirstRowStays
<1>9. Public' = Public
  BY <1>2, <1>7, <1>8, PublicStays
<1>10. Agenda!Cancel(x)
  BY <1>2, <1>3, <1>5, <1>6, <1>9 DEF Agenda!Cancel, Public
<1> QED BY <1>10
LEMMA RescheduleMoves ==
    ASSUME MInv, NEW r \in Requests, CommitReschedule(r)
    PROVE  \E a \in Requests : Agenda!Reschedule(a)
<1>1. pc[r] = "write" /\ arg[r].op = "reschedule" /\ ~Creates(r) /\ Locking(r)
  BY DEF CommitReschedule, Creates, Locking
<1> PICK x \in Requests, start \in Starts, seen \in Snapshot : 
        x = arg[r].id /\ start = arg[r].start /\ seen = arg[r].seen
  BY <1>1, UpdatesExisting DEF Argument
<1>2. /\ IInv /\ TypeInv /\ KInv /\ appt[x] # None /\ appt[x].client = arg[r].client
      /\ appt[x].emp = arg[r].emp /\ appt[x].dur = arg[r].dur
      /\ ShowsStart(x, seen.start) /\ seen.start # None
  BY <1>1, UpdatesExisting DEF MInv
<1>3. /\ appt' = [appt EXCEPT ![x].start = start]
      /\ IF start # seen.start
         THEN /\ NotifyRescheduled(x, arg[r].client, start)
              /\ Record(x, "RESCHEDULED", "USER", OnlyStart(seen.start), OnlyStart(start))
         ELSE UNCHANGED <<outbox, audit>>
  BY DEF CommitReschedule
<1>4. /\ OnlyStart(seen.start) \in Snapshot /\ OnlyStart(start) \in Snapshot
      /\ OnlyStart(start).status = None /\ OnlyStart(start).start = start
      /\ "RESCHEDULED" \in Action
  BY SnapshotTypes DEF Snapshot, OnlyStart, Action
<1>5. Agenda!EmployeeIsFree(x, appt[x].emp, start, appt[x].dur)
  BY <1>1, <1>2, EmployeeFree
<1>6. appt'[x] # None /\ \A a \in Requests \ {x} : appt'[a] = appt[a]
  <2>1. appt[x] \in Appointment /\ appt'[x] = [appt[x] EXCEPT !.start = start]
    BY <1>2, <1>3 DEF TypeInv, TypeOK
  <2>2. [appt[x] EXCEPT !.start = start] \in Appointment
    BY <2>1 DEF Appointment
  <2> QED
    BY <1>2, <1>3, <2>1, <2>2 DEF TypeInv, TypeOK
<1>7. \A a \in Requests : appt[a] # None => audit'[a][1] = audit[a][1]
  <2>1. CASE start # seen.start
    BY <1>2, <1>3, <1>4, <2>1, FirstRowStays
  <2>2. CASE start = seen.start
    BY <1>3, <2>2
  <2> QED BY <2>1, <2>2
<1>8. Public' = Public
  BY <1>2, <1>6, <1>7, PublicStays
<1>9. PICK h \in Log[x] : h.start = seen.start
  BY <1>2, ShownIsNoted
<1>10. IF start # h.start
       THEN /\ Agenda!Note(x, "RESCHEDULED", None, start) 
            /\ Agenda!Tell(x, appt[x].client, "rescheduled", start)
       ELSE UNCHANGED <<Log, outbox>>
  <2>1. CASE start # h.start
    <3>1. Agenda!Note(x, "RESCHEDULED", None, start)
      BY <1>2, <1>3, <1>4, <1>9, <2>1, RecordNotes
    <3>2. Agenda!Tell(x, appt[x].client, "rescheduled", start)
      BY <1>2, <1>3, <1>9, <2>1, EnqueueTells DEF NotifyRescheduled
    <3> QED BY <2>1, <3>1, <3>2
  <2>2. CASE start = h.start
    BY <1>3, <1>9, <2>2 DEF Log, LogOf
  <2> QED BY <2>1, <2>2
<1>11. h.start # None
  BY <1>2, <1>9
<1>12. Agenda!Reschedule(x)
  BY <1>3, <1>5, <1>8, <1>9, <1>10, <1>11 DEF Agenda!Reschedule, Log, LogOf, Public
<1> QED BY <1>12

----------------------------------------------------------------------------
(* Every step *)

LEMMA StepMoves ==
    ASSUME MInv, [Next]_vars
    PROVE  Agenda!Next \/ UNCHANGED CalendarVars
<1>1. UNCHANGED <<appt, audit, outbox>> => UNCHANGED CalendarVars
  BY DEF CalendarVars, Public, Log, LogOf
<1>2. ASSUME NEW r \in Requests, Arrive(r) PROVE UNCHANGED <<appt, audit, outbox>>
  BY <1>2 DEF Arrive, BeginCreate, BeginPublic, BeginStatus, BeginCancel, BeginReschedule, Begin, Refuse
<1>3. ASSUME NEW r \in Requests, Serve(r) PROVE Agenda!Next \/ UNCHANGED <<appt, audit, outbox>>
  <2>1. CASE CommitCreate(r) \/ CommitPublic(r)
    BY <2>1, InsertMoves DEF Agenda!Next, MInv
  <2>2. CASE CommitStatus(r)
    BY <2>2, StatusMoves DEF Agenda!Next
  <2>3. CASE CommitCancel(r)
    BY <2>3, CancelMoves DEF Agenda!Next
  <2>4. CASE CommitReschedule(r)
    BY <2>4, RescheduleMoves DEF Agenda!Next
  <2>5. CASE \/ LockClient(r) \/ CheckClient(r) \/ LockEmployee(r) \/ CheckEmployee(r) 
             \/ RejectConflict(r)
    BY <2>5 DEF LockClient, CheckClient, LockEmployee, CheckEmployee, RejectConflict, Rollback
  <2> QED
    BY <1>3, <2>1, <2>2, <2>3, <2>4, <2>5 DEF Serve
<1>4. ASSUME NEW r \in Requests, Fail(r) PROVE UNCHANGED <<appt, audit, outbox>>
  BY <1>4 DEF Fail, Rollback
<1>5. UNCHANGED vars => UNCHANGED <<appt, audit, outbox>>
  BY DEF vars
<1> QED
  BY <1>1, <1>2, <1>3, <1>4, <1>5, StaffQuiet DEF Next, AllServed

LEMMA InitMoves == Init => Agenda!Init
<1> SUFFICES ASSUME Init PROVE Agenda!Init
  OBVIOUS
<1>1. \A a \in Requests : appt[a] = None /\ LogOf(a) = {}
  <2>1. \A a \in Requests : appt[a] = None /\ audit[a] = <<>>
    BY DEF Init
  <2>2. DOMAIN <<>> = {}
    OBVIOUS
  <2>3. \A a \in Requests : DOMAIN audit[a] = {}
    BY <2>1, <2>2, Zenon
  <2> QED BY <2>1, <2>3 DEF LogOf
<1>2. Public = {} /\ Log = [a \in Requests |-> {}]
  BY <1>1 DEF Public, Log
<1>3. appt = [a \in Requests |-> None] /\ outbox = {}
  BY DEF Init
<1> QED
  BY <1>2, <1>3 DEF Agenda!Init, Public, Log, LogOf

\* Whatever requests overlap in time, fail or read what is already replaced, the tables change
\* as if every operation were one step of Calendar: with the employee and the client free, by
\* an allowed transition of a status the log shows, and together with its audit row and e-mail.
THEOREM ImplementsCalendar == Spec => CalendarSpec
<1>1. MInv /\ [Next]_vars => [Agenda!Next]_CalendarVars
  BY StepMoves
<1> QED
  BY <1>1, InitMoves, InitAllowed, StepAllowed, PTL 
     DEF Spec, CalendarSpec, Agenda!Spec, Agenda!vars, CalendarVars, Public, Log, LogOf
----------------------------------------------------------------------------
(* What Calendar promises *)

CalendarInv ==
    /\ appt \in [Requests -> Agenda!Entry \cup {None}]
    /\ \A a \in Requests : Log[a] # {} => appt[a] # None
    /\ \A a \in Requests : appt[a] # None /\ appt[a].status = "CANCELED" => 
          \E h \in Log[a] : h.action = "CANCELED"
    /\ Agenda!OneAtATime /\ Agenda!FinishedWasConfirmed

LEMMA HappenedIs ==
    ASSUME NEW a \in Requests, NEW act
    PROVE  /\ Agenda!Happened(a, act) <=> \E h \in Log[a] : h.action = act
           /\ Agenda!Happened(a, act)' <=> \E h \in Log'[a] : h.action = act
  BY DEF Agenda!Happened, Log, LogOf

LEMMA NoteAdds ==
    ASSUME NEW x \in Requests, NEW act, NEW status, NEW start, Agenda!Note(x, act, status, start)
    PROVE  /\ Log'[x] = Log[x] \cup {[action |-> act, status |-> status, start |-> start]}
           /\ \A a \in Requests \ {x} : Log'[a] = Log[a]
<1>1. Log' = [Log EXCEPT ![x] = @ \cup {[action |-> act, status |-> status, start |-> start]}]
  BY DEF Agenda!Note, Log, LogOf
<1>2. Log = [a \in Requests |-> LogOf(a)]
  BY DEF Log
<1> QED BY <1>1, <1>2

\* A new appointment x, or x moved, where the employee is free.
LEMMA PlacedIsExclusive ==
    ASSUME CalendarInv, NEW x \in Requests, appt'[x] \in Agenda!Entry,
           \A a \in Requests \ {x} : appt'[a] = appt[a],
           \A a \in Requests : Log[a] \subseteq Log'[a],
           Agenda!EmployeeIsFree(x, appt'[x].emp, appt'[x].start, appt'[x].dur)
    PROVE  Agenda!OneAtATime'
<1>1. \A a \in Requests : Agenda!Happened(a, "CANCELED") => Agenda!Happened(a, "CANCELED")'
  BY HappenedIs
<1>2. ASSUME NEW b \in Requests \ {x}, appt[b] # None, appt[b].status # "CANCELED",
             appt[b].emp = appt'[x].emp, 
             /\ appt'[x].start < appt[b].start + appt[b].dur 
             /\ appt[b].start < appt'[x].start + appt'[x].dur
      PROVE  Agenda!Happened(b, "CANCELED")'
  BY <1>1, <1>2 DEF Agenda!EmployeeIsFree, Agenda!At
<1> SUFFICES ASSUME NEW a \in Requests, NEW b \in Requests, a # b,
                    appt'[a] # None, appt'[a].status # "CANCELED",
                    appt'[b] # None, appt'[b].status # "CANCELED",
                    appt'[a].emp = appt'[b].emp,
                    appt'[b].start < appt'[a].start + appt'[a].dur,
                    appt'[a].start < appt'[b].start + appt'[b].dur
             PROVE  Agenda!Happened(a, "CANCELED")' \/ Agenda!Happened(b, "CANCELED")'
  BY DEF Agenda!OneAtATime, Agenda!At
<1>3. CASE a = x
  BY <1>2, <1>3
<1>4. CASE b = x
  BY <1>2, <1>4
<1>5. CASE a # x /\ b # x
  <2>1. Agenda!Happened(a, "CANCELED") \/ Agenda!Happened(b, "CANCELED")
    BY <1>5 DEF CalendarInv, Agenda!OneAtATime, Agenda!At
  <2> QED BY <1>1, <2>1
<1> QED BY <1>3, <1>4, <1>5

\* A change of the status that is logged: a cancelled appointment that comes back is one
\* that was cancelled.
LEMMA StatusIsExclusive ==
    ASSUME CalendarInv, NEW x \in Requests, appt[x] # None, 
           NEW to \in {"CONFIRMED", "COMPLETED", "NO_SHOW", "CANCELED"},
           appt' = [appt EXCEPT ![x].status = to],
           to \in {"COMPLETED", "NO_SHOW"} => \E h \in Log[x] : h.status = "CONFIRMED",
           Agenda!Note(x, to, to, None)
    PROVE  CalendarInv'
<1>1. appt[x] \in Agenda!Entry /\ appt'[x] = [appt[x] EXCEPT !.status = to]
  BY DEF CalendarInv
<1>2. /\ appt'[x] \in Agenda!Entry /\ appt'[x].status = to /\ appt'[x].emp = appt[x].emp
      /\ appt'[x].start = appt[x].start /\ appt'[x].dur = appt[x].dur
  BY <1>1 DEF Agenda!Entry
<1>3. /\ appt' \in [Requests -> Agenda!Entry \cup {None}]
      /\ \A a \in Requests \ {x} : appt'[a] = appt[a]
  BY <1>1, <1>2 DEF CalendarInv
<1>4. /\ Log'[x] = Log[x] \cup {[action |-> to, status |-> to, start |-> None]}
      /\ \A a \in Requests \ {x} : Log'[a] = Log[a]
  BY NoteAdds
<1>5. \A a \in Requests : Log[a] \subseteq Log'[a]
  BY <1>4
<1>6. appt'[x] # None
  BY <1>2 DEF Agenda!Entry, Appointment, Status
<1>7. \A a \in Requests : Log'[a] # {} => appt'[a] # None
  BY <1>3, <1>4, <1>6 DEF CalendarInv
<1>8. to = "CANCELED" => \E h \in Log'[x] : h.action = "CANCELED"
  <2> DEFINE new == [action |-> to, status |-> to, start |-> None]
  <2>1. new \in Log'[x] /\ new.action = to
    BY <1>4
  <2> QED BY <2>1
<1>9. \A a \in Requests : appt'[a] # None /\ appt'[a].status = "CANCELED" => 
         \E h \in Log'[a] : h.action = "CANCELED"
  BY <1>2, <1>3, <1>4, <1>8 DEF CalendarInv
<1>10. Agenda!FinishedWasConfirmed'
  <2>1. \A a \in Requests : appt[a] # None /\ appt[a].status \in {"COMPLETED", "NO_SHOW"} =>
           \E h \in Log[a] : h.status = "CONFIRMED"
    BY DEF CalendarInv, Agenda!FinishedWasConfirmed, Log, LogOf
  <2>2. \A a \in Requests : appt'[a] # None /\ appt'[a].status \in {"COMPLETED", "NO_SHOW"} =>
           \E h \in Log'[a] : h.status = "CONFIRMED"
    BY <1>2, <1>3, <1>5, <2>1
  <2> QED
    BY <2>2 DEF Agenda!FinishedWasConfirmed, Log, LogOf
<1>11. Agenda!OneAtATime'
  <2>1. \A a \in Requests : Agenda!Happened(a, "CANCELED") => Agenda!Happened(a, "CANCELED")'
    BY <1>5, HappenedIs
  <2>2. \A a \in Requests : appt[a] # None /\ appt[a].status = "CANCELED" => Agenda!Happened(a, "CANCELED")'
    <3>1. \A a \in Requests : appt[a] # None /\ appt[a].status = "CANCELED" => Agenda!Happened(a, "CANCELED")
      BY HappenedIs DEF CalendarInv
    <3> QED BY <2>1, <3>1
  <2> SUFFICES ASSUME NEW a \in Requests, NEW b \in Requests, a # b,
                      appt'[a] # None, appt'[a].status # "CANCELED",
                      appt'[b] # None, appt'[b].status # "CANCELED",
                      appt'[a].emp = appt'[b].emp, 
                      appt'[b].start < appt'[a].start + appt'[a].dur,
                      appt'[a].start < appt'[b].start + appt'[b].dur
               PROVE  Agenda!Happened(a, "CANCELED")' \/ Agenda!Happened(b, "CANCELED")'
    BY DEF Agenda!OneAtATime, Agenda!At
  <2>3. \A c \in {a, b} : appt[c] # None /\ appt'[c].emp = appt[c].emp 
                          /\ appt'[c].start = appt[c].start /\ appt'[c].dur = appt[c].dur
    BY <1>2, <1>3
  <2>4. CASE appt[a].status = "CANCELED" \/ appt[b].status = "CANCELED"
    BY <2>2, <2>3, <2>4
  <2>5. CASE appt[a].status # "CANCELED" /\ appt[b].status # "CANCELED"
    <3>1. Agenda!Happened(a, "CANCELED") \/ Agenda!Happened(b, "CANCELED")
      BY <2>3, <2>5 DEF CalendarInv, Agenda!OneAtATime, Agenda!At
    <3> QED BY <2>1, <3>1
  <2> QED BY <2>4, <2>5
<1> QED
  BY <1>3, <1>7, <1>9, <1>10, <1>11 DEF CalendarInv
\* A new appointment, or one that is moved.
LEMMA PlacedKeeps ==
    ASSUME CalendarInv, NEW x \in Requests, NEW new \in Agenda!Entry, 
           appt' = [appt EXCEPT ![x] = new],
           \/ new.status \in {"PENDING", "CONFIRMED"}
           \/ appt[x] # None /\ new.status = appt[x].status,
           Agenda!EmployeeIsFree(x, new.emp, new.start, new.dur),
           Log[x] \subseteq Log'[x], \A a \in Requests \ {x} : Log'[a] = Log[a]
    PROVE  CalendarInv'
<1>1. appt'[x] = new /\ \A a \in Requests \ {x} : appt'[a] = appt[a]
  BY DEF CalendarInv
<1>2. new # None /\ appt' \in [Requests -> Agenda!Entry \cup {None}]
  BY DEF CalendarInv, Agenda!Entry, Appointment, Status
<1>3. \A a \in Requests : Log[a] \subseteq Log'[a]
  OBVIOUS
<1>4. Agenda!OneAtATime'
  BY <1>1, <1>3, PlacedIsExclusive
<1>5. \A a \in Requests : Log'[a] # {} => appt'[a] # None
  BY <1>1, <1>2 DEF CalendarInv
<1>6. \A a \in Requests : appt'[a] # None /\ appt'[a].status \in {"CANCELED", "COMPLETED", "NO_SHOW"} =>
         appt[a] # None /\ appt[a].status = appt'[a].status
  BY <1>1
<1>7. \A a \in Requests : appt'[a] # None /\ appt'[a].status = "CANCELED" => 
         \E h \in Log'[a] : h.action = "CANCELED"
  BY <1>3, <1>6 DEF CalendarInv
<1>8. Agenda!FinishedWasConfirmed'
  <2>1. \A a \in Requests : appt[a] # None /\ appt[a].status \in {"COMPLETED", "NO_SHOW"} =>
           \E h \in Log[a] : h.status = "CONFIRMED"
    BY DEF CalendarInv, Agenda!FinishedWasConfirmed, Log, LogOf
  <2>2. \A a \in Requests : appt'[a] # None /\ appt'[a].status \in {"COMPLETED", "NO_SHOW"} =>
           \E h \in Log'[a] : h.status = "CONFIRMED"
    BY <1>3, <1>6, <2>1
  <2> QED
    BY <2>2 DEF Agenda!FinishedWasConfirmed, Log, LogOf
<1> QED
  BY <1>2, <1>4, <1>5, <1>7, <1>8 DEF CalendarInv

LEMMA CalendarStep == CalendarInv /\ [Agenda!Next]_CalendarVars => CalendarInv'
<1> SUFFICES ASSUME CalendarInv, [Agenda!Next]_CalendarVars PROVE CalendarInv'
  OBVIOUS
<1>1. ASSUME NEW a \in Requests, Agenda!Create(a) \/ Agenda!Request(a) PROVE CalendarInv'
  <2> PICK x \in Agenda!Entry : x.status \in {"PENDING", "CONFIRMED"} /\ Agenda!Place(a, x)
    BY <1>1 DEF Agenda!Create, Agenda!Request
  <2>1. /\ Agenda!EmployeeIsFree(a, x.emp, x.start, x.dur)
        /\ appt' = [appt EXCEPT ![a] = x]
        /\ Agenda!Note(a, "CREATED", x.status, x.start)
    BY DEF Agenda!Place
  <2>2. Log[a] \subseteq Log'[a] /\ \A b \in Requests \ {a} : Log'[b] = Log[b]
    BY <2>1, NoteAdds
  <2> QED
    BY <2>1, <2>2, PlacedKeeps
<1>2. ASSUME NEW a \in Requests, Agenda!UpdateStatus(a) PROVE CalendarInv'
  <2>1. PICK h \in Log[a] : \E to \in Agenda!Transitions(h.status) :
            appt' = [appt EXCEPT ![a].status = to] /\ Agenda!Note(a, to, to, None)
    BY <1>2 DEF Agenda!UpdateStatus, Log, LogOf
  <2>2. PICK to \in Agenda!Transitions(h.status) :
            appt' = [appt EXCEPT ![a].status = to] /\ Agenda!Note(a, to, to, None)
    BY <2>1
  <2>3. /\ to \in {"CONFIRMED", "COMPLETED", "NO_SHOW"}
        /\ to \in {"COMPLETED", "NO_SHOW"} => h.status = "CONFIRMED"
    BY DEF Agenda!Transitions
  <2>4. appt[a] # None
    BY DEF CalendarInv
  <2> QED
    BY <2>2, <2>3, <2>4, StatusIsExclusive
<1>3. ASSUME NEW a \in Requests, Agenda!Cancel(a) PROVE CalendarInv'
  BY <1>3, StatusIsExclusive DEF Agenda!Cancel
<1>4. ASSUME NEW a \in Requests, Agenda!Reschedule(a) PROVE CalendarInv'
  <2>1. PICK start \in Starts :
            /\ Log[a] # {}
            /\ Agenda!EmployeeIsFree(a, appt[a].emp, start, appt[a].dur)
            /\ appt' = [appt EXCEPT ![a].start = start]
            /\ Agenda!Note(a, "RESCHEDULED", None, start) \/ Log' = Log
    BY <1>4 DEF Agenda!Reschedule, Log, LogOf
  <2>2. appt[a] # None /\ appt[a] \in Agenda!Entry
    BY <2>1 DEF CalendarInv
  <2> PICK new \in Agenda!Entry : new = [appt[a] EXCEPT !.start = start]
    BY <2>2 DEF Agenda!Entry
  <2>3. /\ new.emp = appt[a].emp /\ new.start = start /\ new.dur = appt[a].dur
        /\ new.status = appt[a].status
    BY <2>2 DEF Agenda!Entry
  <2>4. appt' = [appt EXCEPT ![a] = new]
    BY <2>1
  <2>5. Log[a] \subseteq Log'[a] /\ \A b \in Requests \ {a} : Log'[b] = Log[b]
    <3>1. CASE Agenda!Note(a, "RESCHEDULED", None, start)
      BY <3>1, NoteAdds
    <3>2. CASE Log' = Log
      BY <3>2
    <3> QED BY <2>1, <3>1, <3>2
  <2>6. Agenda!EmployeeIsFree(a, new.emp, new.start, new.dur)
    BY <2>1, <2>3
  <2> QED
    BY <2>2, <2>3, <2>4, <2>5, <2>6, PlacedKeeps
<1>5. CASE UNCHANGED CalendarVars
  <2>1. appt' = appt /\ Log' = Log
    BY <1>5 DEF CalendarVars
  <2>2. Agenda!OneAtATime'
    <3>1. \A a \in Requests : Agenda!Happened(a, "CANCELED") => Agenda!Happened(a, "CANCELED")'
      BY <2>1, HappenedIs
    <3> QED
      BY <2>1, <3>1 DEF CalendarInv, Agenda!OneAtATime, Agenda!At
  <2>3. Agenda!FinishedWasConfirmed'
    BY <2>1 DEF CalendarInv, Agenda!FinishedWasConfirmed, Log, LogOf
  <2> QED
    BY <2>1, <2>2, <2>3 DEF CalendarInv
<1> QED
  BY <1>1, <1>2, <1>3, <1>4, <1>5 DEF Agenda!Next

LEMMA CalendarInit == Agenda!Init => CalendarInv
<1> SUFFICES ASSUME Agenda!Init PROVE CalendarInv
  OBVIOUS
<1>1. \A a \in Requests : appt[a] = None /\ Log[a] = {}
  <2>1. appt = [a \in Requests |-> None] /\ Log = [a \in Requests |-> {}]
    BY DEF Agenda!Init, Log, LogOf
  <2> QED BY <2>1
<1>2. appt \in [Requests -> Agenda!Entry \cup {None}]
  BY DEF Agenda!Init
<1> QED
  BY <1>1, <1>2 DEF CalendarInv, Agenda!OneAtATime, Agenda!FinishedWasConfirmed

\* The promise is strong enough: whoever keeps to Calendar books an employee twice only by
\* bringing a cancelled appointment back.
THEOREM CalendarIsExclusive == CalendarSpec => []Agenda!OneAtATime
<1>1. CalendarInv => Agenda!OneAtATime
  BY DEF CalendarInv
<1> QED
  BY <1>1, CalendarInit, CalendarStep, PTL 
     DEF CalendarSpec, Agenda!Spec, Agenda!vars, CalendarVars, Public, Log, LogOf

\* However updates of the status overtake each other, an appointment that is COMPLETED or
\* NO_SHOW has been CONFIRMED, and its audit log says so (allowedTransitions of updateStatus).
THEOREM FinishedWereConfirmed == Spec => []Agenda!FinishedWasConfirmed
<1>1. CalendarInv => Agenda!FinishedWasConfirmed
  BY DEF CalendarInv
<1> QED
  BY <1>1, ImplementsCalendar, CalendarInit, CalendarStep, PTL 
     DEF CalendarSpec, Agenda!Spec, Agenda!vars, CalendarVars, Public, Log, LogOf
=============================================================================
