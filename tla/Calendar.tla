------------------------------ MODULE Calendar ------------------------------
(***************************************************************************)
(* What the API promises of appointments when each operation is one step:  *)
(* who is where and when, what has happened to each appointment, and which *)
(* e-mails are called for.  Requests, locks and transactions are Booking's.*)
(*                                                                         *)
(* The promise is as strong as the code keeps it.  An operation on an      *)
(* appointment is decided on a version that the appointment has had, which *)
(* need not be the present one; and whoever looks for a free interval may  *)
(* overlook an appointment that was cancelled once and has come back.      *)
(***************************************************************************)
EXTENDS Integers

CONSTANTS Appointments, Employees, Clients,
          WithEmail,    \* the clients that have an e-mail address
          Starts, Durations,
          None          \* no appointment, no value

VARIABLES book,         \* the appointments
          public,       \* those that were booked on the public page
          log,          \* what has happened to each, without its order
          mails         \* the e-mails that are called for

vars == <<book, public, log, mails>>

Entry == [status : {"PENDING", "CONFIRMED", "COMPLETED", "CANCELED", "NO_SHOW"},
          emp : Employees, client : Clients, start : Starts, dur : Durations]

Init ==
    /\ book = [a \in Appointments |-> None]
    /\ public = {}
    /\ log = [a \in Appointments |-> {}]
    /\ mails = {}

----------------------------------------------------------------------------
(* Free intervals *)

Happened(a, action) == \E h \in log[a] : h.action = action

\* Something other than a confirmation has happened to a.
Changed(a) == \E h \in log[a] : h.action \notin {"CREATED", "CONFIRMED"}

\* a is held during the interval.
At(a, start, dur) == start < book[a].start + book[a].dur /\ book[a].start < start + dur

\* Nobody else is with the employee, but for an appointment that came back.
EmployeeIsFree(a, emp, start, dur) ==
    \A b \in Appointments \ {a} :
        /\ book[b] # None
        /\ book[b].emp = emp /\ book[b].status # "CANCELED"
        /\ At(b, start, dur)
        => Happened(b, "CANCELED")

\* No other public booking of the client is then, but for one that was moved or has ended.
ClientIsFree(a, client, start, dur) ==
    \A b \in public \ {a} : book[b].client = client /\ At(b, start, dur) => Changed(b)

----------------------------------------------------------------------------
(* The operations *)

Note(a, action, status, start) ==
    log' = [log EXCEPT ![a] = @ \cup {[action |-> action, status |-> status, start |-> start]}]

Tell(a, client, kind, at) ==
    mails' = mails \cup {[appt |-> a, kind |-> kind, at |-> at] : c \in WithEmail \cap {client}}

Place(a, x) ==
    /\ book[a] = None
    /\ EmployeeIsFree(a, x.emp, x.start, x.dur)
    /\ book' = [book EXCEPT ![a] = x]
    /\ Note(a, "CREATED", x.status, x.start)

\* The staff books.
Create(a) == \E x \in Entry :
    /\ x.status = "CONFIRMED"
    /\ Place(a, x)
    /\ Tell(a, x.client, "confirmed", None)
    /\ UNCHANGED public

\* A visitor of the public page books.
Request(a) == \E x \in Entry :
    /\ x.status = "PENDING"
    /\ ClientIsFree(a, x.client, x.start, x.dur)
    /\ Place(a, x)
    /\ Tell(a, x.client, "requested", None)
    /\ public' = public \cup {a}

Transitions(status) ==
    CASE status = "PENDING"   -> {"CONFIRMED"}
      [] status = "CONFIRMED" -> {"COMPLETED", "NO_SHOW"}
      [] OTHER                -> {}

\* The transition is one of a status the appointment has or had.
UpdateStatus(a) == \E h \in log[a] : \E to \in Transitions(h.status) :
    /\ book' = [book EXCEPT ![a].status = to]
    /\ Note(a, to, to, None)
    /\ IF to = "CONFIRMED" THEN Tell(a, book[a].client, "confirmed", None) ELSE UNCHANGED mails
    /\ UNCHANGED public

\* Every appointment was open once.
Cancel(a) ==
    /\ book[a] # None
    /\ book' = [book EXCEPT ![a].status = "CANCELED"]
    /\ Note(a, "CANCELED", "CANCELED", None)
    /\ Tell(a, book[a].client, "canceled", None)
    /\ UNCHANGED public

\* The start is compared with one the appointment has or had: a move back to that one,
\* which another move has replaced, is made without a word.
Reschedule(a) == \E h \in log[a], start \in Starts :
    /\ h.start # None
    /\ EmployeeIsFree(a, book[a].emp, start, book[a].dur)
    /\ book' = [book EXCEPT ![a].start = start]
    /\ IF start # h.start
       THEN Note(a, "RESCHEDULED", None, start) /\ Tell(a, book[a].client, "rescheduled", start)
       ELSE UNCHANGED <<log, mails>>
    /\ UNCHANGED public

Next == \E a \in Appointments :
    Create(a) \/ Request(a) \/ UpdateStatus(a) \/ Cancel(a) \/ Reschedule(a)

Spec == Init /\ [][Next]_vars

----------------------------------------------------------------------------
(* What follows from it *)

\* An employee is at two appointments at once only if one of them had been cancelled.
OneAtATime == \A a, b \in Appointments :
    /\ a # b
    /\ book[a] # None /\ book[a].status # "CANCELED"
    /\ book[b] # None /\ book[b].status # "CANCELED"
    /\ book[a].emp = book[b].emp /\ At(a, book[b].start, book[b].dur)
    => Happened(a, "CANCELED") \/ Happened(b, "CANCELED")

\* Who came, or did not come, had been confirmed: no order of stale updates skips it.
FinishedWasConfirmed == \A a \in Appointments :
    book[a] # None /\ book[a].status \in {"COMPLETED", "NO_SHOW"} =>
        \E h \in log[a] : h.status = "CONFIRMED"
=============================================================================
