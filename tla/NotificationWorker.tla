------------------------- MODULE NotificationWorker -------------------------
(***************************************************************************)
(* The e-mail queue and the workers that empty it:                         *)
(* notification-worker.service.ts and notification-queue.service.ts, with  *)
(* the outcomes of email.service.ts.                                       *)
(*                                                                         *)
(* Every instance of the API runs the cron job once a minute, one batch at *)
(* a time.  A batch takes its `now` when it starts and uses it for every   *)
(* row.  One action is the code between two awaits: a query, a             *)
(* transaction, or the SMTP conversation, which runs outside any           *)
(* transaction.  Time is counted in minutes and jumps between Moments.     *)
(***************************************************************************)
EXTENDS Integers, FiniteSets

CONSTANTS Workers,      \* instances of the API
          Deliveries,   \* rows of NotificationDelivery, by dedupeKey
          Reminders,    \* the rows of type APPOINTMENT_REMINDER
          MaxAttempts,  \* maxAttempts of a row
          Take,         \* the most candidates of a batch
          Moments,      \* the minutes at which something is observed
          MaxCrashes,   \* bound: how many batches are lost
          Faults,       \* which faults of Fault the instance admits
          None

Fault == {"markSentFails", "closedInData"}

ASSUME WorkerAssumption ==
    /\ Reminders \subseteq Deliveries
    /\ MaxAttempts \in Nat \ {0} /\ Take \in Nat \ {0} /\ MaxCrashes \in Nat
    /\ Moments \subseteq Nat /\ 0 \in Moments
    /\ Faults \subseteq Fault
    /\ None \notin Nat

VARIABLES
    row,      \* the NotificationDelivery table
    worker,   \* what each instance is doing
    clock,    \* the present minute
    mails,    \* how many copies of each row the SMTP server has accepted
    faulty,   \* the rows that met one of the Faults
    crashes   \* batches lost so far

vars == <<row, worker, clock, mails, faulty, crashes>>

----------------------------------------------------------------------------
(* Data *)

Status == {"NONE", "PENDING", "PROCESSING", "SENT", "FAILED", "CANCELED", "UNCERTAIN"}

\* failed: failedAt is set.  started: processingStartedAt.
Row == [status : Status, attempts : Nat, due : Nat, started : Nat \cup {None}, failed : BOOLEAN]
NoRow == [status |-> "NONE", attempts |-> 0, due |-> 0, started |-> None, failed |-> FALSE]

Claim == [id : Deliveries, attempts : Nat, started : Nat]

PC == {"idle", "recover", "claim", "take", "validate", "send", "markSent", "markFailure", "markUncertain"}

Worker == [pc : PC, now : Nat, stale : SUBSET Deliveries, todo : SUBSET Deliveries,
           held : Deliveries \cup {None}, claim : Claim \cup {None}]
IdleWorker == [pc |-> "idle", now |-> 0, stale |-> {}, todo |-> {}, held |-> None,
               claim |-> None]

TypeOK ==
    /\ row \in [Deliveries -> Row]
    /\ worker \in [Workers -> Worker]
    /\ clock \in Moments
    /\ mails \in [Deliveries -> Nat]
    /\ faulty \subseteq Deliveries
    /\ crashes \in 0..MaxCrashes

Init ==
    /\ row = [d \in Deliveries |-> NoRow]
    /\ worker = [w \in Workers |-> IdleWorker]
    /\ clock = 0
    /\ mails = [d \in Deliveries |-> 0]
    /\ faulty = {}
    /\ crashes = 0

----------------------------------------------------------------------------
(* Rows *)

\* getRetryDelayMs, in minutes.
RetryDelay(attempts) ==
    CASE attempts = 1 -> 1
      [] attempts = 2 -> 5
      [] attempts = 3 -> 15
      [] attempts = 4 -> 60
      [] OTHER        -> 180

StaleAfter == 10

Eligible(d, now) ==
    /\ \/ row[d].status = "PENDING"
       \/ row[d].status = "FAILED" /\ ~row[d].failed
    /\ row[d].due <= now

StaleLater(d, now) ==   \* mutant: lt instead of lte
    row[d].status = "PROCESSING" /\ row[d].started < now - StaleAfter

Stale(d, now) == row[d].status = "PROCESSING" /\ row[d].started <= now - StaleAfter

\* The first Take eligible rows by nextAttemptAt.
Batch(now) ==
    LET eligible == {d \in Deliveries : Eligible(d, now)} IN
    {S \in SUBSET eligible :
        /\ Cardinality(S) <= Take
        /\ S # eligible => Cardinality(S) = Take
        /\ \A d \in S, e \in eligible \ S : row[d].due <= row[e].due}

----------------------------------------------------------------------------
(* The business transactions and time *)

\* enqueueEmail: an upsert that leaves an existing row as it is.
EnqueueEmail(d) ==
    /\ row[d].status = "NONE"
    /\ row' = [row EXCEPT ![d] = [status |-> "PENDING", attempts |-> 0, due |-> clock,
                                  started |-> None, failed |-> FALSE]]
    /\ UNCHANGED <<worker, clock, mails, faulty, crashes>>

Tick ==
    /\ \E t \in Moments : 
          /\ t > clock
          /\ \A u \in Moments : u > clock => t <= u
          /\ clock' = t
    /\ UNCHANGED <<row, worker, mails, faulty, crashes>>

----------------------------------------------------------------------------
(* A batch *)

StartBatch(w) ==
    /\ worker[w].pc = "idle"
    /\ worker' = [worker EXCEPT ![w] = [IdleWorker EXCEPT 
                     !.pc = "recover", !.now = clock,
                     !.stale = {d \in Deliveries : Stale(d, clock)}]]
    /\ UNCHANGED <<row, clock, mails, faulty, crashes>>

RecoverStaleForRetry(w) ==   \* mutant: an abandoned row is tried again
    \E d \in worker[w].stale :
        /\ worker[w].pc = "recover"
        /\ row' = IF Stale(d, worker[w].now) /\ row[d].attempts < MaxAttempts
                  THEN [row EXCEPT ![d].status = "FAILED", ![d].started = None]
                  ELSE row
        /\ worker' = [worker EXCEPT ![w].stale = @ \ {d}]
        /\ UNCHANGED <<clock, mails, faulty, crashes>>

\* recoverStaleProcessing asks again, in the update, for what made the row stale.
RecoverStale(w) ==
    \E d \in worker[w].stale :
        /\ worker[w].pc = "recover"
        /\ row' = IF Stale(d, worker[w].now)
                  THEN [row EXCEPT ![d].status = "UNCERTAIN", ![d].started = None, 
                                   ![d].failed = FALSE]
                  ELSE row
        /\ worker' = [worker EXCEPT ![w].stale = @ \ {d}]
        /\ UNCHANGED <<clock, mails, faulty, crashes>>

SelectCandidates(w) ==
    /\ worker[w].pc = "recover" /\ worker[w].stale = {}
    /\ \E S \in Batch(worker[w].now) :
          worker' = [worker EXCEPT ![w].pc = "claim", ![w].todo = S]
    /\ UNCHANGED <<row, clock, mails, faulty, crashes>>

Holds(w, d) == worker[w].pc = "take" /\ worker[w].held = d

LockIgnoringOthers(w) ==   \* mutant: goes on without the advisory lock
    \E d \in worker[w].todo :
        /\ worker[w].pc = "claim"
        /\ Eligible(d, worker[w].now)
        /\ worker' = [worker EXCEPT ![w].pc = "take", ![w].held = d, ![w].todo = @ \ {d}]
        /\ UNCHANGED <<row, clock, mails, faulty, crashes>>

\* pg_try_advisory_xact_lock and the query for the row, still eligible.
LockNotification(w) ==
    \E d \in worker[w].todo :
        /\ worker[w].pc = "claim"
        /\ \A v \in Workers : ~Holds(v, d)
        /\ Eligible(d, worker[w].now)
        /\ worker' = [worker EXCEPT ![w].pc = "take", ![w].held = d, ![w].todo = @ \ {d}]
        /\ UNCHANGED <<row, clock, mails, faulty, crashes>>

\* Another instance holds the lock, or the row is no longer eligible.
SkipNotification(w) ==
    \E d \in worker[w].todo :
        /\ worker[w].pc = "claim"
        /\ ~Eligible(d, worker[w].now) \/ \E v \in Workers : Holds(v, d)
        /\ worker' = [worker EXCEPT ![w].todo = @ \ {d}]
        /\ UNCHANGED <<row, clock, mails, faulty, crashes>>

\* The updates name the row by id: only the lock keeps others from it.  A row
\* whose attempts are used up would be given up here.
ClaimNotification(w) ==
    LET d == worker[w].held
        now == worker[w].now
        taken == [worker[w] EXCEPT !.held = None,
                     !.pc = IF d \in Reminders THEN "validate" ELSE "send",
                     !.claim = [id |-> d, attempts |-> row[d].attempts + 1, started |-> now]] IN
    /\ worker[w].pc = "take"
    /\ IF row[d].attempts < MaxAttempts
       THEN /\ row' = [row EXCEPT ![d].status = "PROCESSING", ![d].started = now,
                                  ![d].attempts = @ + 1]
            /\ worker' = [worker EXCEPT ![w] = taken]
       ELSE /\ row' = [row EXCEPT ![d].status = "FAILED", ![d].started = None, ![d].failed = TRUE]
            /\ worker' = [worker EXCEPT ![w].pc = "claim", ![w].held = None]
    /\ UNCHANGED <<clock, mails, faulty, crashes>>

EndBatch(w) ==
    /\ worker[w].pc = "claim" /\ worker[w].todo = {}
    /\ worker' = [worker EXCEPT ![w] = IdleWorker]
    /\ UNCHANGED <<row, clock, mails, faulty, crashes>>

----------------------------------------------------------------------------
(* One delivery *)

Goto(w, at) == worker' = [worker EXCEPT ![w].pc = at]
NextNotification(w) == worker' = [worker EXCEPT ![w].pc = "claim", ![w].claim = None]

OwnsById(w) == row[worker[w].claim.id].status # "NONE"   \* mutant: updates by id only

\* The row is still the one this attempt claimed.
Owns(w) ==
    LET c == worker[w].claim IN
    /\ row[c.id].status = "PROCESSING"
    /\ row[c.id].attempts = c.attempts
    /\ row[c.id].started = c.started

\* updateMany under the claim: the row moves on only if the attempt owns it.
UpdateOwned(w, status, due, failed) ==
    row' = IF Owns(w)
           THEN [row EXCEPT ![worker[w].claim.id] = [@ EXCEPT !.status = status, 
                    !.due = due, !.started = None, !.failed = failed]]
           ELSE row

DueOf(w) == row[worker[w].claim.id].due

\* The appointment still wants this reminder.
ReminderIsValid(w) ==
    /\ worker[w].pc = "validate"
    /\ Goto(w, "send")
    /\ UNCHANGED <<row, clock, mails, faulty, crashes>>

CancelDelivery(w) ==
    /\ worker[w].pc = "validate"
    /\ UpdateOwned(w, "CANCELED", DueOf(w), FALSE)
    /\ NextNotification(w)
    /\ UNCHANGED <<clock, mails, faulty, crashes>>

Accept(w) == mails' = [mails EXCEPT ![worker[w].claim.id] = @ + 1]

\* sendMail returns true: the server accepted the message.
SmtpAccepts(w) ==
    /\ worker[w].pc = "send"
    /\ Accept(w)
    /\ Goto(w, "markSent")
    /\ UNCHANGED <<row, clock, faulty, crashes>>

SmtpRefusesUnnoticed(w) ==   \* mutant: the result of sendMail is not looked at
    /\ worker[w].pc = "send"
    /\ Goto(w, "markSent")
    /\ UNCHANGED <<row, clock, mails, faulty, crashes>>

\* sendMail returns false or throws before the message was handed over.
SmtpRefuses(w) ==
    /\ worker[w].pc = "send"
    /\ Goto(w, "markFailure")
    /\ UNCHANGED <<row, clock, mails, faulty, crashes>>

\* ETIMEDOUT during DATA: nobody knows whether the server took the message.
SmtpTimesOutInData(w) ==
    /\ worker[w].pc = "send"
    /\ Accept(w) \/ UNCHANGED mails
    /\ Goto(w, "markUncertain")
    /\ UNCHANGED <<row, clock, faulty, crashes>>

\* The connection is lost in DATA with another code than ETIMEDOUT:
\* isUncertainSmtpError says no and the error is an ordinary one.
SmtpClosesInData(w) ==
    /\ "closedInData" \in Faults
    /\ worker[w].pc = "send"
    /\ Accept(w)
    /\ Goto(w, "markFailure")
    /\ faulty' = faulty \cup {worker[w].claim.id}
    /\ UNCHANGED <<row, clock, crashes>>

MarkSent(w) ==
    /\ worker[w].pc = "markSent"
    /\ UpdateOwned(w, "SENT", DueOf(w), FALSE)
    /\ NextNotification(w)
    /\ UNCHANGED <<clock, mails, faulty, crashes>>

\* The transaction of markSent throws inside the try: the catch clause takes the
\* error for a failed sending.
MarkSentFails(w) ==
    /\ "markSentFails" \in Faults
    /\ worker[w].pc = "markSent"
    /\ Goto(w, "markFailure")
    /\ faulty' = faulty \cup {worker[w].claim.id}
    /\ UNCHANGED <<row, clock, mails, crashes>>

MarkFailure(w) ==
    LET c == worker[w].claim
        exhausted == c.attempts >= MaxAttempts IN
    /\ worker[w].pc = "markFailure"
    /\ UpdateOwned(w, "FAILED", 
          worker[w].now + (IF exhausted THEN 0 ELSE RetryDelay(c.attempts)), exhausted)
    /\ NextNotification(w)
    /\ UNCHANGED <<clock, mails, faulty, crashes>>

MarkUncertain(w) ==
    /\ worker[w].pc = "markUncertain"
    /\ UpdateOwned(w, "UNCERTAIN", DueOf(w), FALSE)
    /\ NextNotification(w)
    /\ UNCHANGED <<clock, mails, faulty, crashes>>

\* The process dies, or a query outside the try throws and ends the batch; a
\* message on its way may still arrive.
Crash(w) ==
    /\ worker[w].pc # "idle"
    /\ crashes < MaxCrashes
    /\ crashes' = crashes + 1
    /\ worker' = [worker EXCEPT ![w] = IdleWorker]
    /\ \/ UNCHANGED mails
       \/ worker[w].pc = "send" /\ Accept(w)
    /\ UNCHANGED <<row, clock, faulty>>

----------------------------------------------------------------------------

Work(w) ==
    \/ RecoverStale(w) \/ SelectCandidates(w) \/ LockNotification(w) \/ SkipNotification(w)
    \/ ClaimNotification(w) \/ EndBatch(w) \/ ReminderIsValid(w) \/ CancelDelivery(w)
    \/ SmtpAccepts(w) \/ SmtpRefuses(w) \/ SmtpTimesOutInData(w) \/ SmtpClosesInData(w)
    \/ MarkSent(w) \/ MarkSentFails(w) \/ MarkFailure(w) \/ MarkUncertain(w)

Next == \/ \E d \in Deliveries : EnqueueEmail(d)
        \/ Tick
        \/ \E w \in Workers : StartBatch(w) \/ Work(w) \/ Crash(w)

Spec == Init /\ [][Next]_vars

\* Time passes, the cron job of every instance keeps firing and a batch goes on
\* until it ends or crashes.
FairSpec == Spec /\ WF_vars(Tick) 
                 /\ \A w \in Workers : WF_vars(StartBatch(w)) /\ WF_vars(Work(w))

----------------------------------------------------------------------------
(* Properties *)

Settled(d) == \/ row[d].status \in {"SENT", "CANCELED", "UNCERTAIN"}
              \/ row[d].status = "FAILED" /\ row[d].failed

\* The table implements the queue README.md draws: a settled row never moves
\* again, whatever late answer or other instance touches it, and no row is
\* claimed more than MaxAttempts times.
Queue == INSTANCE Delivery WITH
    state <- [d \in Deliveries |-> 
                IF row[d].status = "FAILED" /\ ~row[d].failed THEN "PENDING" ELSE row[d].status],
    tries <- [d \in Deliveries |-> row[d].attempts]

QueueSpec == Queue!Spec

Sending(w) == worker[w].pc \in {"validate", "send", "markSent", "markFailure", "markUncertain"}

\* Two instances never send the same row at the same time: one claims it, and
\* a row taken away from a slow instance is not given to another.
NoConcurrentSending ==
    \A v, w \in Workers : 
        v # w /\ Sending(v) /\ Sending(w) => worker[v].claim.id # worker[w].claim.id

\* However instances crash and however late answers come, a row whose message the
\* server accepted is sent again only after one of the Faults, an answer of the
\* server or of the database that the code takes for a failed sending.
DuplicateOnlyAfterFault == \A d \in Deliveries : mails[d] > 1 => d \in faulty

\* SENT and the sentAt it stands for mean that the server accepted the message.
SentWasAccepted == \A d \in Deliveries : row[d].status = "SENT" => mails[d] > 0

\* Within the horizon of Moments no row is forgotten: it is settled, unless its
\* next attempt or its recovery falls after the last moment.
Beyond(d) == LET last == CHOOSE t \in Moments : \A u \in Moments : u <= t IN
    \/ row[d].status \in {"PENDING", "FAILED"} /\ ~row[d].failed /\ row[d].due > last
    \/ row[d].status = "PROCESSING" /\ row[d].started + StaleAfter > last
EveryDeliverySettles ==
    \A d \in Deliveries : row[d].status = "PENDING" ~> Settled(d) \/ Beyond(d)

----------------------------------------------------------------------------
(* What the documentation says and the code does not keep *)

\* README.md:739: a retry is scheduled only when that is safe.
RetryIsSafe ==
    \A d \in Deliveries : row[d].status = "FAILED" /\ ~row[d].failed => mails[d] = 0
=============================================================================
