---------------------- MODULE NotificationWorkerProofs ----------------------
(***************************************************************************)
(* What holds of NotificationWorker for any number of instances and rows,  *)
(* any moments, and any number of crashes and faults.                      *)
(***************************************************************************)
EXTENDS NotificationWorker, TLAPS

USE WorkerAssumption

----------------------------------------------------------------------------
(* The inductive invariant *)

\* A row that may be claimed.
Open(d) == \/ row[d].status = "PENDING" 
           \/ row[d].status = "FAILED" /\ ~row[d].failed

\* What a worker relies on: the row it has locked is open, the row it sends was taken from
\* the queue and has not come back, and it knows whether the server has the message.
WorkerInv(w) ==
    /\ worker[w].pc = "take" => worker[w].held \in Deliveries /\ Open(worker[w].held)
    /\ Sending(w) => /\ worker[w].claim \in Claim
                     /\ row[worker[w].claim.id].status \in {"PROCESSING", "UNCERTAIN"}
    /\ worker[w].pc = "markSent" => mails[worker[w].claim.id] > 0
    /\ worker[w].pc \in {"validate", "send", "markFailure"} =>
          worker[w].claim.id \in faulty \/ mails[worker[w].claim.id] = 0

\* Only a row without a message is open, but for the Faults.
RowInv(d) ==
    /\ row[d].attempts <= MaxAttempts
    /\ row[d].status = "NONE" => row[d].attempts = 0
    /\ Open(d) => row[d].attempts < MaxAttempts
    /\ row[d].status = "SENT" => mails[d] > 0
    /\ d \in faulty \/ mails[d] <= 1
    /\ row[d].status = "NONE" \/ Open(d) => d \in faulty \/ mails[d] = 0

\* Two workers never hold or send the same row.
Apart(v, w) ==
    /\ worker[v].pc = "take" /\ worker[w].pc = "take" => worker[v].held # worker[w].held
    /\ Sending(v) /\ Sending(w) => worker[v].claim.id # worker[w].claim.id

Inv == /\ TypeOK
       /\ \A w \in Workers : WorkerInv(w)
       /\ \A d \in Deliveries : RowInv(d)
       /\ \A v, w \in Workers : v # w => Apart(v, w)

\* A step of w leaves the other workers alone, and changes at most the row d and the
\* messages of d.
Only(w, d) ==
    /\ \A v \in Workers \ {w} : worker'[v] = worker[v]
    /\ \A e \in Deliveries \ {d} : row'[e] = row[e] /\ mails'[e] = mails[e]
    /\ faulty \subseteq faulty'

\* It does so to the row it holds or sends, or gives up one that was abandoned.
Mine(w, d) ==
    \/ row'[d] = row[d] /\ mails'[d] = mails[d]
    \/ row[d].status = "NONE" /\ mails'[d] = mails[d]
    \/ row[d].status = "PROCESSING" /\ row'[d].status = "UNCERTAIN" /\ mails'[d] = mails[d]
    \/ worker[w].pc = "take" /\ worker[w].held = d
    \/ Sending(w) /\ worker[w].claim.id = d

LEMMA OthersInv ==
    ASSUME Inv, TypeOK', NEW w \in Workers, NEW d \in Deliveries, Only(w, d), Mine(w, d),
           NEW v \in Workers \ {w}
    PROVE  WorkerInv(v)'
<1>1. worker'[v] = worker[v] /\ WorkerInv(v) /\ WorkerInv(w) /\ Apart(v, w)
  BY DEF Inv, Only
<1>2. ASSUME NEW e \in Deliveries, 
             \/ worker[v].pc = "take" /\ e = worker[v].held
             \/ Sending(v) /\ e = worker[v].claim.id
      PROVE  /\ mails'[e] = mails[e]
             /\ \/ row'[e] = row[e] 
                \/ row[e].status = "PROCESSING" /\ row'[e].status = "UNCERTAIN"
  <2>1. CASE e # d
    BY <2>1 DEF Only
  <2>2. CASE e = d
    BY <1>1, <1>2, <2>2 DEF Mine, Apart, WorkerInv, Open, Sending
  <2> QED
    BY <2>1, <2>2
<1>3. CASE worker[v].pc = "take"
  BY <1>1, <1>2, <1>3 DEF WorkerInv, Open, Sending
<1>4. CASE Sending(v)
  <2>1. worker[v].claim \in Claim /\ worker[v].claim.id \in Deliveries /\ worker[v].pc # "take"
    BY <1>1, <1>4 DEF WorkerInv, Claim, Sending
  <2>2. /\ mails'[worker[v].claim.id] = mails[worker[v].claim.id]
        /\ row'[worker[v].claim.id].status \in {"PROCESSING", "UNCERTAIN"}
    BY <1>1, <1>2, <1>4, <2>1 DEF WorkerInv
  <2> QED
    BY <1>1, <2>1, <2>2 DEF WorkerInv, Only
<1>5. CASE ~Sending(v) /\ worker[v].pc # "take"
  BY <1>1, <1>5 DEF WorkerInv, Sending
<1> QED
  BY <1>3, <1>4, <1>5

\* What is left to show of a step of w that touches d.
LEMMA StepInv ==
    ASSUME Inv, TypeOK', NEW w \in Workers, NEW d \in Deliveries, Only(w, d), Mine(w, d),
           WorkerInv(w)', RowInv(d)',
           \A v \in Workers \ {w} : Apart(v, w)'
    PROVE  Inv'
<1>1. \A v \in Workers : WorkerInv(v)'
  BY OthersInv
<1>2. \A e \in Deliveries : RowInv(e)'
  BY DEF Inv, RowInv, Open, Only
<1>3. ASSUME NEW u \in Workers, NEW v \in Workers, u # v PROVE Apart(u, v)'
  BY <1>3 DEF Inv, Only, Apart, Sending
<1> QED
  BY <1>1, <1>2, <1>3 DEF Inv

----------------------------------------------------------------------------
(* Type correctness *)

LEMMA InitInv == Init => Inv
<1> SUFFICES ASSUME Init PROVE Inv
  OBVIOUS
<1>1. TypeOK
  BY DEF Init, TypeOK, Row, NoRow, Status, Worker, IdleWorker, PC
<1>2. \A w \in Workers : worker[w].pc = "idle"
  BY DEF Init, IdleWorker
<1>3. \A d \in Deliveries : 
         row[d].status = "NONE" /\ row[d].attempts = 0 /\ mails[d] = 0
  BY DEF Init, NoRow
<1>4. \A w \in Workers : WorkerInv(w)
  BY <1>2 DEF WorkerInv, Sending
<1>5. \A d \in Deliveries : RowInv(d)
  BY <1>3 DEF RowInv, Open
<1>6. \A v, w \in Workers : Apart(v, w)
  BY <1>2 DEF Apart, Sending
<1> QED
  BY <1>1, <1>4, <1>5, <1>6 DEF Inv

\* The parts of a worker and of a row keep their types one by one.
LEMMA WorkerType ==
    ASSUME TypeOK, NEW w \in Workers
    PROVE  /\ \A at \in PC : [worker[w] EXCEPT !.pc = at] \in Worker
           /\ \A at \in PC, S \in SUBSET Deliveries : 
                 /\ [worker[w] EXCEPT !.pc = at, !.todo = S] \in Worker
                 /\ [worker[w] EXCEPT !.todo = S] \in Worker
                 /\ [worker[w] EXCEPT !.stale = S] \in Worker
           /\ \A at \in PC, S \in SUBSET Deliveries, d \in Deliveries \cup {None} :
                 /\ [worker[w] EXCEPT !.pc = at, !.held = d] \in Worker
                 /\ [worker[w] EXCEPT !.pc = at, !.held = d, !.todo = S] \in Worker
           /\ \A at \in PC, c \in Claim \cup {None} : 
                 /\ [worker[w] EXCEPT !.pc = at, !.claim = c] \in Worker
                 /\ [worker[w] EXCEPT !.held = None, !.pc = at, !.claim = c] \in Worker
<1>1. worker[w] \in Worker
  BY DEF TypeOK
<1> QED
  BY <1>1 DEF Worker

\* A step that changes nothing but the worker and takes up no row.
LEMMA QuietInv ==
    ASSUME Inv, NEW w \in Workers, NEW x \in Worker, worker' = [worker EXCEPT ![w] = x],
           x.pc \in {"idle", "recover", "claim"}, UNCHANGED <<row, mails, faulty>>,
           clock' \in Moments, crashes' \in 0..MaxCrashes
    PROVE  Inv'
<1>1. TypeOK'
  BY DEF Inv, TypeOK
<1>2. \A v \in Workers \ {w} : worker'[v] = worker[v]
  BY DEF Inv, TypeOK
<1>3. worker'[w] = x
  BY DEF Inv, TypeOK
<1>4. WorkerInv(w)' /\ \A v \in Workers : Apart(v, w)'
  BY <1>3 DEF WorkerInv, Apart, Sending
<1>5. CASE Deliveries = {}
  <2>1. \A v \in Workers : Inv => ~Sending(v) /\ worker[v].pc # "take"
    BY <1>5 DEF Inv, WorkerInv, Claim
  <2> QED
    BY <1>1, <1>2, <1>3, <1>5, <2>1 DEF Inv, WorkerInv, Apart, Sending
<1>6. CASE Deliveries # {}
  <2>1. PICK d \in Deliveries : TRUE
    BY <1>6
  <2>2. Only(w, d) /\ Mine(w, d)
    BY <1>2 DEF Only, Mine
  <2>3. RowInv(d)'
    BY DEF Inv, RowInv, Open
  <2> QED
    BY <1>1, <1>4, <2>2, <2>3, StepInv
<1> QED
  BY <1>5, <1>6

LEMMA StartBatchInv ==
    ASSUME Inv, NEW w \in Workers, StartBatch(w)
    PROVE  Inv'
<1> DEFINE x == [IdleWorker EXCEPT !.pc = "recover", !.now = clock,
                    !.stale = {d \in Deliveries : Stale(d, clock)}]
<1>1. clock \in Nat /\ clock \in Moments /\ crashes \in 0..MaxCrashes
  BY DEF Inv, TypeOK
<1>2. x \in Worker /\ x.pc = "recover"
  BY <1>1 DEF IdleWorker, Worker, PC
<1>3. worker' = [worker EXCEPT ![w] = x] /\ UNCHANGED <<row, clock, mails, faulty, crashes>>
  BY DEF StartBatch
<1> HIDE DEF x
<1> QED
  BY <1>1, <1>2, <1>3, QuietInv

LEMMA SelectCandidatesInv ==
    ASSUME Inv, NEW w \in Workers, SelectCandidates(w)
    PROVE  Inv'
<1>1. PICK S \in Batch(worker[w].now) : 
           worker' = [worker EXCEPT ![w].pc = "claim", ![w].todo = S]
  BY DEF SelectCandidates
<1> DEFINE x == [worker[w] EXCEPT !.pc = "claim", !.todo = S]
<1>2. S \in SUBSET Deliveries
  BY DEF Batch
<1>3. x \in Worker /\ worker[w] \in Worker
  BY <1>2, WorkerType DEF Inv, PC, TypeOK
<1>4. x.pc = "claim"
  BY <1>3 DEF Worker
<1>5. worker' = [worker EXCEPT ![w] = x]
  BY <1>1
<1>6. UNCHANGED <<row, clock, mails, faulty, crashes>>
  BY DEF SelectCandidates
<1>7. clock \in Moments /\ crashes \in 0..MaxCrashes
  BY DEF Inv, TypeOK
<1> HIDE DEF x
<1> QED
  BY <1>3, <1>4, <1>5, <1>6, <1>7, QuietInv

LEMMA SkipInv ==
    ASSUME Inv, NEW w \in Workers, SkipNotification(w)
    PROVE  Inv'
<1>1. PICK d \in worker[w].todo : 
           worker[w].pc = "claim" /\ worker' = [worker EXCEPT ![w].todo = @ \ {d}]
  BY DEF SkipNotification
<1> DEFINE x == [worker[w] EXCEPT !.todo = @ \ {d}]
<1>2. worker[w] \in Worker /\ worker[w].todo \ {d} \in SUBSET Deliveries
  BY DEF Inv, TypeOK, Worker
<1>3. x \in Worker
  BY <1>2, WorkerType DEF Inv, PC
<1>4. x.pc = "claim"
  BY <1>1, <1>2 DEF Worker
<1>5. worker' = [worker EXCEPT ![w] = x]
  BY <1>1
<1>6. UNCHANGED <<row, clock, mails, faulty, crashes>>
  BY DEF SkipNotification
<1>7. clock \in Moments /\ crashes \in 0..MaxCrashes
  BY DEF Inv, TypeOK
<1> HIDE DEF x
<1> QED
  BY <1>3, <1>4, <1>5, <1>6, <1>7, QuietInv

LEMMA EndBatchInv ==
    ASSUME Inv, NEW w \in Workers, EndBatch(w)
    PROVE  Inv'
<1>1. IdleWorker \in Worker /\ IdleWorker.pc = "idle"
  BY DEF IdleWorker, Worker, PC
<1>2. clock \in Moments /\ crashes \in 0..MaxCrashes
  BY DEF Inv, TypeOK
<1> QED
  BY <1>1, <1>2, QuietInv DEF EndBatch

----------------------------------------------------------------------------
(* A row is locked and taken *)

LEMMA LockInv ==
    ASSUME Inv, NEW w \in Workers, LockNotification(w)
    PROVE  Inv'
<1>1. PICK d \in worker[w].todo : 
           /\ worker[w].pc = "claim"
           /\ \A v \in Workers : ~Holds(v, d)
           /\ Eligible(d, worker[w].now)
           /\ worker' = [worker EXCEPT ![w].pc = "take", ![w].held = d, ![w].todo = @ \ {d}]
  BY DEF LockNotification
<1> DEFINE x == [worker[w] EXCEPT !.pc = "take", !.held = d, !.todo = @ \ {d}]
<1>2. worker[w] \in Worker /\ d \in Deliveries /\ worker[w].todo \ {d} \in SUBSET Deliveries
  BY DEF Inv, TypeOK, Worker
<1>3. x \in Worker
  BY <1>2, WorkerType DEF Inv, PC
<1>4. x.pc = "take" /\ x.held = d
  BY <1>2 DEF Worker
<1>5. worker' = [worker EXCEPT ![w] = x]
  BY <1>1
<1>6. UNCHANGED <<row, clock, mails, faulty, crashes>>
  BY DEF LockNotification
<1> HIDE DEF x
<1>7. TypeOK'
  BY <1>3, <1>5, <1>6 DEF Inv, TypeOK
<1>8. worker'[w] = x /\ \A v \in Workers \ {w} : worker'[v] = worker[v]
  BY <1>5 DEF Inv, TypeOK
<1>9. Only(w, d) /\ Mine(w, d)
  BY <1>6, <1>8 DEF Only, Mine
<1>10. WorkerInv(w)'
  BY <1>1, <1>2, <1>4, <1>6, <1>8 DEF WorkerInv, Sending, Eligible, Open
<1>11. RowInv(d)'
  BY <1>2, <1>6 DEF Inv, RowInv, Open
<1>12. \A v \in Workers \ {w} : Apart(v, w)'
  BY <1>1, <1>4, <1>8 DEF Apart, Sending, Holds
<1> QED
  BY <1>2, <1>7, <1>9, <1>10, <1>11, <1>12, StepInv

LEMMA ClaimInv ==
    ASSUME Inv, NEW w \in Workers, ClaimNotification(w)
    PROVE  Inv'
<1>1. /\ worker[w].pc = "take" /\ UNCHANGED <<clock, mails, faulty, crashes>>
      /\ WorkerInv(w) /\ worker[w] \in Worker
  BY DEF ClaimNotification, Inv, TypeOK
<1>2. PICK d \in Deliveries : d = worker[w].held /\ Open(d)
  BY <1>1 DEF WorkerInv
<1>3. RowInv(d) /\ row[d] \in Row
  BY <1>1, <1>2 DEF Inv, TypeOK, Worker
<1>4. row[d].attempts < MaxAttempts /\ row[d].attempts \in Nat
  BY <1>2, <1>3 DEF RowInv, Row
<1>5. PICK now \in Nat : now = worker[w].now
  BY <1>1 DEF Worker
<1> DEFINE c == [id |-> d, attempts |-> row[d].attempts + 1, started |-> now]
           x == [worker[w] EXCEPT !.held = None, 
                    !.pc = IF d \in Reminders THEN "validate" ELSE "send", !.claim = c]
           taken == [row[d] EXCEPT !.status = "PROCESSING", !.started = now, 
                      !.attempts = row[d].attempts + 1]
<1>6. row' = [row EXCEPT ![d] = taken] /\ worker' = [worker EXCEPT ![w] = x]
  BY <1>2, <1>4, <1>5 DEF ClaimNotification
<1>7. c \in Claim
  BY <1>4 DEF Claim
<1>8. x \in Worker
  <2>1. (IF d \in Reminders THEN "validate" ELSE "send") \in PC
    BY DEF PC
  <2> HIDE DEF c
  <2> QED
    BY <1>7, <2>1, WorkerType DEF Inv
<1>9. x.pc \in {"validate", "send"} /\ x.claim = c /\ c.id = d
  BY <1>1 DEF Worker
<1>10. taken \in Row /\ taken.status = "PROCESSING" /\ taken.attempts = row[d].attempts + 1
  <2>1. row[d].attempts + 1 \in Nat /\ now \in Nat \cup {None} /\ "PROCESSING" \in Status
    BY <1>4 DEF Status
  <2> QED
    BY <1>3, <2>1 DEF Row
<1>11. worker'[w] = x /\ \A v \in Workers \ {w} : worker'[v] = worker[v]
  BY <1>6 DEF Inv, TypeOK
<1>12. row'[d] = taken /\ \A e \in Deliveries \ {d} : row'[e] = row[e]
  BY <1>6 DEF Inv, TypeOK
<1> HIDE DEF c, x, taken
<1>13. TypeOK'
  BY <1>1, <1>6, <1>8, <1>10 DEF Inv, TypeOK
<1>14. Only(w, d) /\ Mine(w, d)
  BY <1>1, <1>2, <1>11, <1>12 DEF Only, Mine
<1>15. d \in faulty \/ mails[d] = 0
  BY <1>2, <1>3 DEF RowInv
<1>16. WorkerInv(w)'
  BY <1>1, <1>7, <1>9, <1>10, <1>11, <1>12, <1>15 DEF WorkerInv
<1>17. RowInv(d)'
  <2>1. row'[d].status = "PROCESSING" /\ row'[d].attempts = row[d].attempts + 1
    BY <1>10, <1>12
  <2> QED
    BY <1>1, <1>3, <1>4, <2>1 DEF RowInv, Open
<1>18. ASSUME NEW v \in Workers \ {w} PROVE Apart(v, w)'
  <2>1. Sending(v) => worker[v].claim.id # d
    BY <1>2 DEF Inv, WorkerInv, Open
  <2> QED
    BY <2>1, <1>9, <1>11 DEF Apart, Sending
<1> QED
  BY <1>13, <1>14, <1>16, <1>17, <1>18, StepInv

LEMMA RecoverInv ==
    ASSUME Inv, NEW w \in Workers, RecoverStale(w)
    PROVE  Inv'
<1>1. PICK d \in worker[w].stale : 
           /\ worker[w].pc = "recover"
           /\ row' = IF Stale(d, worker[w].now)
                     THEN [row EXCEPT ![d].status = "UNCERTAIN", ![d].started = None, 
                                      ![d].failed = FALSE]
                     ELSE row
           /\ worker' = [worker EXCEPT ![w].stale = @ \ {d}]
  BY DEF RecoverStale
<1> DEFINE x == [worker[w] EXCEPT !.stale = @ \ {d}]
<1>2. worker[w] \in Worker /\ d \in Deliveries /\ worker[w].stale \ {d} \in SUBSET Deliveries
  BY DEF Inv, TypeOK, Worker
<1>3. x \in Worker
  BY <1>2, WorkerType DEF Inv, PC
<1>4. x.pc = "recover"
  BY <1>1, <1>2 DEF Worker
<1>5. worker' = [worker EXCEPT ![w] = x]
  BY <1>1
<1>6. UNCHANGED <<clock, mails, faulty, crashes>>
  BY DEF RecoverStale
<1>7. clock \in Moments /\ crashes \in 0..MaxCrashes
  BY DEF Inv, TypeOK
<1> HIDE DEF x
<1>8. CASE UNCHANGED row
  BY <1>3, <1>4, <1>5, <1>6, <1>7, <1>8, QuietInv
<1>9. CASE Stale(d, worker[w].now)
  <2>1. row[d] \in Row /\ row[d].status = "PROCESSING" /\ RowInv(d)
    BY <1>2, <1>9 DEF Stale, Inv, TypeOK
  <2>2. /\ row' \in [Deliveries -> Row] 
        /\ row'[d].status = "UNCERTAIN" /\ row'[d].attempts = row[d].attempts
        /\ \A e \in Deliveries \ {d} : row'[e] = row[e]
    BY <1>1, <1>2, <1>9, <2>1 DEF Inv, TypeOK, Row, Status
  <2>3. TypeOK'
    BY <1>3, <1>5, <1>6, <2>2 DEF Inv, TypeOK
  <2>4. worker'[w] = x /\ \A v \in Workers \ {w} : worker'[v] = worker[v]
    BY <1>5 DEF Inv, TypeOK
  <2>5. Only(w, d) /\ Mine(w, d)
    BY <1>6, <2>1, <2>2, <2>4 DEF Only, Mine
  <2>6. WorkerInv(w)' /\ \A v \in Workers : Apart(v, w)'
    BY <1>4, <2>4 DEF WorkerInv, Apart, Sending
  <2>7. RowInv(d)'
    BY <1>6, <2>1, <2>2 DEF RowInv, Open
  <2> QED
    BY <1>2, <2>3, <2>5, <2>6, <2>7, StepInv
<1> QED
  BY <1>1, <1>8, <1>9

----------------------------------------------------------------------------
(* One delivery *)

\* A worker that sends goes on with the same row or turns to the next.
LEMMA SendingInv ==
    ASSUME Inv, NEW w \in Workers, Sending(w), NEW d \in Deliveries, d = worker[w].claim.id,
           NEW x \in Worker, worker' = [worker EXCEPT ![w] = x], x.pc # "take",
           x.pc \in {"idle", "claim"} \/ x.claim = worker[w].claim,
           row' \in [Deliveries -> Row], mails' \in [Deliveries -> Nat],
           \A e \in Deliveries \ {d} : row'[e] = row[e] /\ mails'[e] = mails[e],
           faulty \subseteq faulty', faulty' \subseteq Deliveries,
           clock' \in Moments, crashes' \in 0..MaxCrashes,
           WorkerInv(w)', RowInv(d)'
    PROVE  Inv'
<1>1. TypeOK'
  BY DEF Inv, TypeOK
<1>2. worker'[w] = x /\ \A v \in Workers \ {w} : worker'[v] = worker[v]
  BY DEF Inv, TypeOK
<1>3. Only(w, d) /\ Mine(w, d)
  BY <1>2 DEF Only, Mine
<1>4. ASSUME NEW v \in Workers \ {w} PROVE Apart(v, w)'
  BY <1>2 DEF Inv, Apart, Sending
<1> QED
  BY <1>1, <1>3, <1>4, StepInv

\* What a worker that sends goes by.
LEMMA SendingReads ==
    ASSUME Inv, NEW w \in Workers, Sending(w)
    PROVE  /\ worker[w] \in Worker /\ worker[w].claim \in Claim 
           /\ worker[w].claim.id \in Deliveries
           /\ row[worker[w].claim.id].status \in {"PROCESSING", "UNCERTAIN"}
           /\ RowInv(worker[w].claim.id) /\ WorkerInv(w)
           /\ clock \in Moments /\ crashes \in 0..MaxCrashes
           /\ row \in [Deliveries -> Row] /\ mails \in [Deliveries -> Nat] 
           /\ faulty \subseteq Deliveries
<1>1. worker[w] \in Worker /\ WorkerInv(w)
  BY DEF Inv, TypeOK
<1>2. worker[w].claim \in Claim /\ row[worker[w].claim.id].status \in {"PROCESSING", "UNCERTAIN"}
  BY <1>1 DEF WorkerInv
<1> QED
  BY <1>1, <1>2 DEF Inv, TypeOK, Claim

\* It goes from one place to another, and perhaps the message is accepted or a fault met.
LEMMA GotoInv ==
    ASSUME Inv, NEW w \in Workers, Sending(w), NEW d \in Deliveries, d = worker[w].claim.id,
           NEW at \in {"send", "markSent", "markFailure", "markUncertain"}, Goto(w, at),
           UNCHANGED <<row, clock, crashes>>,
           UNCHANGED mails \/ (mails' = [mails EXCEPT ![d] = @ + 1] /\ worker[w].pc = "send"),
           faulty' = faulty \/ faulty' = faulty \cup {d},
           at = "markSent" => mails'[d] > 0,
           at \in {"send", "markFailure"} => d \in faulty' \/ mails'[d] = 0
    PROVE  Inv'
<1> DEFINE x == [worker[w] EXCEPT !.pc = at]
<1>1. x \in Worker /\ worker' = [worker EXCEPT ![w] = x]
  BY WorkerType DEF Inv, Goto, PC
<1>2. x.pc = at /\ x.claim = worker[w].claim
  BY SendingReads DEF Worker
<1>3. worker'[w] = x
  BY <1>1 DEF Inv, TypeOK
<1> HIDE DEF x
<1>4. /\ mails' \in [Deliveries -> Nat] 
      /\ \A e \in Deliveries \ {d} : mails'[e] = mails[e]
      /\ d \in faulty' \/ mails'[d] <= 1
  <2>1. worker[w].pc = "send" => d \in faulty \/ mails[d] = 0
    BY SendingReads DEF WorkerInv
  <2>2. mails[d] \in Nat /\ (d \in faulty \/ mails[d] <= 1)
    BY SendingReads DEF RowInv
  <2> QED
    BY <2>1, <2>2, SendingReads
<1>5. WorkerInv(w)'
  BY <1>2, <1>3, SendingReads DEF WorkerInv, Sending
<1>6. RowInv(d)'
  BY <1>4, SendingReads DEF RowInv, Open
<1> QED
  BY <1>1, <1>2, <1>4, <1>5, <1>6, SendingReads, SendingInv

LEMMA ConversationInv ==
    ASSUME Inv, NEW w \in Workers, 
           \/ ReminderIsValid(w) \/ SmtpAccepts(w) \/ SmtpRefuses(w) \/ SmtpTimesOutInData(w)
           \/ SmtpClosesInData(w) \/ MarkSentFails(w)
    PROVE  Inv'
<1>1. Sending(w)
  BY DEF ReminderIsValid, SmtpAccepts, SmtpRefuses, SmtpTimesOutInData, SmtpClosesInData,
         MarkSentFails, Sending
<1>2. PICK d \in Deliveries : d = worker[w].claim.id
  BY <1>1, SendingReads
<1>3. /\ worker[w].pc \in {"validate", "send"} => d \in faulty \/ mails[d] = 0
      /\ mails \in [Deliveries -> Nat]
  BY <1>1, <1>2, SendingReads DEF WorkerInv
<1>4. CASE ReminderIsValid(w)
  BY <1>1, <1>2, <1>3, <1>4, GotoInv DEF ReminderIsValid
<1>5. CASE SmtpAccepts(w)
  <2>1. mails' = [mails EXCEPT ![d] = @ + 1] /\ mails'[d] > 0
    BY <1>2, <1>3, <1>5 DEF SmtpAccepts, Accept
  <2> QED
    BY <1>1, <1>2, <1>5, <2>1, GotoInv DEF SmtpAccepts
<1>6. CASE SmtpRefuses(w)
  BY <1>1, <1>2, <1>3, <1>6, GotoInv DEF SmtpRefuses
<1>7. CASE SmtpTimesOutInData(w)
  BY <1>1, <1>2, <1>7, GotoInv DEF SmtpTimesOutInData, Accept
<1>8. CASE SmtpClosesInData(w)
  BY <1>1, <1>2, <1>8, GotoInv DEF SmtpClosesInData, Accept
<1>9. CASE MarkSentFails(w)
  BY <1>1, <1>2, <1>9, GotoInv DEF MarkSentFails
<1> QED
  BY <1>4, <1>5, <1>6, <1>7, <1>8, <1>9

\* The end of a delivery, under the claim.
LEMMA UpdateInv ==
    ASSUME Inv, NEW w \in Workers, Sending(w), NEW d \in Deliveries, d = worker[w].claim.id,
           NEW status \in {"SENT", "FAILED", "CANCELED", "UNCERTAIN"}, NEW due \in Nat,
           NEW failed \in BOOLEAN, UpdateOwned(w, status, due, failed), NextNotification(w),
           UNCHANGED <<clock, mails, faulty, crashes>>,
           status = "SENT" => mails[d] > 0,
           status = "FAILED" /\ ~failed => /\ worker[w].claim.attempts < MaxAttempts
                                           /\ d \in faulty \/ mails[d] = 0
    PROVE  Inv'
<1> DEFINE x == [worker[w] EXCEPT !.pc = "claim", !.claim = None]
<1>1. x \in Worker /\ worker' = [worker EXCEPT ![w] = x]
  BY WorkerType DEF Inv, NextNotification, PC
<1>2. x.pc = "claim"
  BY SendingReads DEF Worker
<1>3. worker'[w] = x
  BY <1>1 DEF Inv, TypeOK
<1> HIDE DEF x
<1>4. WorkerInv(w)'
  BY <1>2, <1>3 DEF WorkerInv, Sending
<1>5. CASE Owns(w)
  <2>1. row[d] \in Row /\ row[d].attempts = worker[w].claim.attempts /\ RowInv(d)
    BY <1>5, SendingReads DEF Owns
  <2>2. row' = [row EXCEPT ![d] = [@ EXCEPT !.status = status, !.due = due, !.started = None,
                                           !.failed = failed]]
    BY <1>5 DEF UpdateOwned
  <2>3. /\ row' \in [Deliveries -> Row]
        /\ row'[d].status = status /\ row'[d].attempts = row[d].attempts 
        /\ row'[d].failed = failed
        /\ \A e \in Deliveries \ {d} : row'[e] = row[e]
    BY <2>1, <2>2, SendingReads DEF Row, Status
  <2>4. RowInv(d)'
    BY <2>1, <2>3 DEF RowInv, Open
  <2> QED
    BY <1>1, <1>2, <1>4, <2>3, <2>4, SendingReads, SendingInv
<1>6. CASE ~Owns(w)
  <2>1. UNCHANGED row
    BY <1>6 DEF UpdateOwned
  <2>2. RowInv(d)'
    BY <2>1, SendingReads DEF RowInv, Open
  <2> QED
    BY <1>1, <1>2, <1>4, <2>1, <2>2, SendingReads, SendingInv
<1> QED
  BY <1>5, <1>6

LEMMA RetryLater == \A n \in Nat : RetryDelay(n) \in Nat
  BY DEF RetryDelay

\* A failed attempt is the last one or is followed by another.
LEMMA FailureUpdates ==
    ASSUME Inv, NEW w \in Workers, MarkFailure(w)
    PROVE  \E then \in Nat : 
              \/ worker[w].claim.attempts >= MaxAttempts /\ UpdateOwned(w, "FAILED", then, TRUE)
              \/ worker[w].claim.attempts < MaxAttempts /\ UpdateOwned(w, "FAILED", then, FALSE)
<1>1. Sending(w)
  BY DEF MarkFailure, Sending
<1>2. PICK n \in Nat : n = worker[w].claim.attempts
  BY <1>1, SendingReads DEF Claim
<1>3. PICK then \in Nat : 
          then = worker[w].now + (IF n >= MaxAttempts THEN 0 ELSE RetryDelay(n))
  BY <1>1, <1>2, RetryLater, SendingReads DEF Worker
<1>4. UpdateOwned(w, "FAILED", then, n >= MaxAttempts)
  BY <1>2, <1>3 DEF MarkFailure
<1>5. CASE n >= MaxAttempts
  <2>1. UpdateOwned(w, "FAILED", then, TRUE)
    BY <1>4, <1>5
  <2> QED
    BY <1>2, <1>5, <2>1
<1>6. CASE ~(n >= MaxAttempts)
  <2>1. (n >= MaxAttempts) = FALSE
    BY <1>6
  <2>2. UpdateOwned(w, "FAILED", then, FALSE)
    BY <1>4, <2>1, Zenon
  <2>3. n < MaxAttempts
    BY <1>6
  <2> QED
    BY <1>2, <2>2, <2>3
<1> QED
  BY <1>5, <1>6

LEMMA MarkInv ==
    ASSUME Inv, NEW w \in Workers, 
           CancelDelivery(w) \/ MarkSent(w) \/ MarkFailure(w) \/ MarkUncertain(w)
    PROVE  Inv'
<1>1. Sending(w)
  BY DEF CancelDelivery, MarkSent, MarkFailure, MarkUncertain, Sending
<1>2. PICK d \in Deliveries : d = worker[w].claim.id
  BY <1>1, SendingReads
<1>3. PICK due \in Nat : due = DueOf(w)
  BY <1>1, SendingReads DEF DueOf, Row
<1>4. CASE CancelDelivery(w)
  BY <1>1, <1>2, <1>3, <1>4, UpdateInv DEF CancelDelivery
<1>5. CASE MarkSent(w)
  <2>1. mails[d] > 0
    BY <1>1, <1>2, <1>5, SendingReads DEF MarkSent, WorkerInv
  <2> QED
    BY <1>1, <1>2, <1>3, <1>5, <2>1, UpdateInv DEF MarkSent
<1>6. CASE MarkUncertain(w)
  BY <1>1, <1>2, <1>3, <1>6, UpdateInv DEF MarkUncertain
<1>7. CASE MarkFailure(w)
  <2>1. NextNotification(w) /\ UNCHANGED <<clock, mails, faulty, crashes>>
    BY <1>7 DEF MarkFailure
  <2>2. d \in faulty \/ mails[d] = 0
    BY <1>1, <1>2, <1>7, SendingReads DEF MarkFailure, WorkerInv
  <2>3. PICK then \in Nat : 
           \/ UpdateOwned(w, "FAILED", then, TRUE)
           \/ worker[w].claim.attempts < MaxAttempts /\ UpdateOwned(w, "FAILED", then, FALSE)
    BY <1>7, FailureUpdates
  <2> QED
    BY <1>1, <1>2, <2>1, <2>2, <2>3, UpdateInv
<1> QED
  BY <1>4, <1>5, <1>6, <1>7

LEMMA CrashInv ==
    ASSUME Inv, NEW w \in Workers, Crash(w)
    PROVE  Inv'
<1>1. IdleWorker \in Worker /\ IdleWorker.pc = "idle"
  BY DEF IdleWorker, Worker, PC
<1>2. /\ worker' = [worker EXCEPT ![w] = IdleWorker] /\ UNCHANGED <<row, clock, faulty>>
      /\ clock' \in Moments /\ crashes' \in 0..MaxCrashes
  BY DEF Crash, Inv, TypeOK
<1> HIDE DEF IdleWorker
<1>3. CASE UNCHANGED mails
  BY <1>1, <1>2, <1>3, QuietInv
<1>4. CASE worker[w].pc = "send" /\ Accept(w)
  <2>1. Sending(w)
    BY <1>4 DEF Sending
  <2>2. PICK d \in Deliveries : d = worker[w].claim.id
    BY <2>1, SendingReads
  <2>3. /\ d \in faulty \/ mails[d] = 0
        /\ mails \in [Deliveries -> Nat] /\ faulty \subseteq Deliveries
        /\ row \in [Deliveries -> Row]
    BY <1>4, <2>1, <2>2, SendingReads DEF WorkerInv
  <2>4. /\ mails' \in [Deliveries -> Nat] /\ mails'[d] = mails[d] + 1
        /\ \A e \in Deliveries \ {d} : mails'[e] = mails[e]
    BY <1>4, <2>2, <2>3 DEF Accept
  <2>5. WorkerInv(w)'
    BY <1>1, <1>2 DEF Inv, TypeOK, WorkerInv, Sending
  <2>6. RowInv(d)'
    <3>1. RowInv(d) /\ row[d].status \in {"PROCESSING", "UNCERTAIN"}
      BY <2>1, <2>2, SendingReads
    <3>2. row' = row /\ faulty' = faulty
      BY <1>2
    <3>3. d \in faulty \/ mails'[d] <= 1
      BY <2>3, <2>4
    <3> QED
      BY <3>1, <3>2, <3>3 DEF RowInv, Open
  <2> QED
    BY <1>1, <1>2, <2>1, <2>2, <2>3, <2>4, <2>5, <2>6, SendingInv
<1> QED
  BY <1>3, <1>4 DEF Crash

----------------------------------------------------------------------------
(* Every step *)

LEMMA EnqueueInv ==
    ASSUME Inv, NEW d \in Deliveries, EnqueueEmail(d)
    PROVE  Inv'
<1> DEFINE x == [status |-> "PENDING", attempts |-> 0, due |-> clock, started |-> None, 
                 failed |-> FALSE]
<1>1. x \in Row /\ x.status = "PENDING" /\ x.attempts = 0 /\ x.failed = FALSE
  BY DEF Inv, TypeOK, Row, Status
<1>2. /\ row[d].status = "NONE" /\ row' = [row EXCEPT ![d] = x] 
      /\ UNCHANGED <<worker, clock, mails, faulty, crashes>>
  BY DEF EnqueueEmail
<1> HIDE DEF x
<1>3. /\ row'[d] = x /\ \A e \in Deliveries \ {d} : row'[e] = row[e]
      /\ TypeOK'
  BY <1>1, <1>2 DEF Inv, TypeOK
<1>4. \A e \in Deliveries : RowInv(e)'
  <2>1. RowInv(d)'
    BY <1>1, <1>2, <1>3 DEF Inv, RowInv, Open
  <2>2. ASSUME NEW e \in Deliveries \ {d} PROVE RowInv(e)'
    BY <1>2, <1>3 DEF Inv, RowInv, Open
  <2> QED
    BY <2>1, <2>2
<1>5. ASSUME NEW w \in Workers PROVE WorkerInv(w)'
  <2>1. WorkerInv(w)
    BY DEF Inv
  <2>2. CASE worker[w].pc = "take"
    <3>1. worker[w].held \in Deliveries \ {d} /\ Open(worker[w].held)
      BY <1>2, <2>1, <2>2 DEF WorkerInv, Open
    <3> QED
      BY <1>2, <1>3, <2>2, <3>1 DEF WorkerInv, Sending, Open
  <2>3. CASE Sending(w)
    <3>1. worker[w].claim.id \in Deliveries \ {d}
      BY <1>2, <2>1, <2>3 DEF WorkerInv, Claim
    <3>2. row'[worker[w].claim.id] = row[worker[w].claim.id] /\ worker[w].pc # "take"
      BY <1>3, <2>3, <3>1 DEF Sending
    <3> QED
      BY <1>2, <2>1, <3>2 DEF WorkerInv, Sending
  <2>4. CASE ~Sending(w) /\ worker[w].pc # "take"
    BY <1>2, <2>4 DEF WorkerInv, Sending
  <2> QED
    BY <2>2, <2>3, <2>4
<1> QED
  BY <1>2, <1>3, <1>4, <1>5 DEF Inv, Apart, Sending

LEMMA NextInv == Inv /\ [Next]_vars => Inv'
<1> SUFFICES ASSUME Inv, [Next]_vars PROVE Inv'
  OBVIOUS
<1>1. CASE UNCHANGED <<row, worker, mails, faulty>> /\ clock' \in Moments /\ UNCHANGED crashes
  BY <1>1 DEF Inv, TypeOK, WorkerInv, RowInv, Apart, Sending, Open
<1>2. CASE Tick \/ UNCHANGED vars
  BY <1>1, <1>2 DEF Tick, vars, Inv, TypeOK
<1>3. CASE \E d \in Deliveries : EnqueueEmail(d)
  BY <1>3, EnqueueInv
<1>4. ASSUME NEW w \in Workers, StartBatch(w) \/ Work(w) \/ Crash(w) PROVE Inv'
  BY <1>4, StartBatchInv, SelectCandidatesInv, SkipInv, EndBatchInv, LockInv, ClaimInv,
     RecoverInv, ConversationInv, MarkInv, CrashInv DEF Work
<1> QED
  BY <1>2, <1>3, <1>4 DEF Next

LEMMA Correct == Spec => []Inv
  BY InitInv, NextInv, PTL DEF Spec

\* Rows, workers and counters have their types (notification-worker.service.ts).
THEOREM TypeCorrect == Spec => []TypeOK
<1>1. Inv => TypeOK
  BY DEF Inv
<1> QED
  BY <1>1, Correct, PTL

\* Two instances never send the same row at the same time (claimNotification,
\* recoverStaleProcessing).
THEOREM OneSender == Spec => []NoConcurrentSending
<1>1. Inv => NoConcurrentSending
  BY DEF Inv, Apart, NoConcurrentSending
<1> QED
  BY <1>1, Correct, PTL

\* A message the server accepted is sent again only after one of the Faults
\* (processNotification, markUncertain, recoverStaleProcessing).
THEOREM NoOtherDuplicate == Spec => []DuplicateOnlyAfterFault
<1>1. Inv => DuplicateOnlyAfterFault
  BY DEF Inv, TypeOK, RowInv, DuplicateOnlyAfterFault
<1> QED
  BY <1>1, Correct, PTL

\* A row that is SENT was accepted by the server (markSent).
THEOREM SentIsAccepted == Spec => []SentWasAccepted
<1>1. Inv => SentWasAccepted
  BY DEF Inv, RowInv, SentWasAccepted
<1> QED
  BY <1>1, Correct, PTL

----------------------------------------------------------------------------
(* The table implements the queue *)

State(d) == IF row[d].status = "FAILED" /\ ~row[d].failed THEN "PENDING" ELSE row[d].status

QueueVars == <<[d \in Deliveries |-> 
                   IF row[d].status = "FAILED" /\ ~row[d].failed THEN "PENDING" ELSE row[d].status],
               [d \in Deliveries |-> row[d].attempts]>>

\* One row moves, and the queue with it.
LEMMA OneMoves ==
    ASSUME NEW d \in Deliveries, \A e \in Deliveries \ {d} : row'[e] = row[e],
           NEW from, State(d) = from, NEW to, State(d)' = to, NEW n, row'[d].attempts = n
    PROVE  /\ Queue!Move(d, from, to)
           /\ [e \in Deliveries |-> row[e].attempts]' = 
                 [[e \in Deliveries |-> row[e].attempts] EXCEPT ![d] = n]
  BY DEF Queue!Move, State

LEMMA UpdateMoves ==
    ASSUME Inv, NEW w \in Workers, Sending(w), NEW d \in Deliveries, d = worker[w].claim.id,
           NEW status \in {"SENT", "FAILED", "CANCELED", "UNCERTAIN"}, NEW due \in Nat,
           NEW failed \in BOOLEAN, UpdateOwned(w, status, due, failed),
           status = "FAILED" /\ failed => worker[w].claim.attempts >= MaxAttempts,
           status = "FAILED" /\ ~failed => worker[w].claim.attempts < MaxAttempts
    PROVE  UNCHANGED row \/ Queue!Retry(d) \/ Queue!Settle(d)
<1>1. CASE ~Owns(w)
  BY <1>1 DEF UpdateOwned
<1>2. CASE Owns(w)
  <2>1. /\ row[d] \in Row /\ row[d].attempts = worker[w].claim.attempts /\ RowInv(d)
        /\ row[d].status = "PROCESSING"
    BY <1>2, SendingReads DEF Owns
  <2>2. row' = [row EXCEPT ![d] = [@ EXCEPT !.status = status, !.due = due, !.started = None,
                                           !.failed = failed]]
    BY <1>2 DEF UpdateOwned
  <2>3. /\ row'[d].status = status /\ row'[d].attempts = row[d].attempts 
        /\ row'[d].failed = failed
        /\ \A e \in Deliveries \ {d} : row'[e] = row[e]
    BY <2>1, <2>2, SendingReads DEF Row
  <2>4. UNCHANGED [e \in Deliveries |-> row[e].attempts]
    BY <2>3
  <2>5. State(d) = "PROCESSING"
    BY <2>1 DEF State
  <2>6. CASE status = "FAILED" /\ ~failed
    <3>1. State(d)' = "PENDING" /\ row[d].attempts < MaxAttempts
      BY <2>1, <2>3, <2>6 DEF State, Row
    <3>2. Queue!Move(d, "PROCESSING", "PENDING")
      BY <2>3, <2>5, <3>1, OneMoves
    <3> QED
      BY <2>4, <3>1, <3>2 DEF Queue!Retry
  <2>7. CASE ~(status = "FAILED" /\ ~failed)
    <3>1. State(d)' = status /\ status \in Queue!Final
      BY <2>3, <2>7 DEF State, Queue!Final
    <3>2. Queue!Move(d, "PROCESSING", status)
      BY <2>3, <2>5, <3>1, OneMoves
    <3>3. status = "FAILED" => row[d].attempts = MaxAttempts
      BY <2>1, <2>7 DEF Row, RowInv
    <3> QED
      BY <2>4, <3>1, <3>2, <3>3 DEF Queue!Settle
  <2> QED
    BY <2>6, <2>7
<1> QED
  BY <1>1, <1>2

LEMMA ClaimMoves ==
    ASSUME Inv, NEW w \in Workers, ClaimNotification(w)
    PROVE  \E d \in Deliveries : Queue!Claim(d)
<1>1. worker[w].pc = "take" /\ WorkerInv(w)
  BY DEF ClaimNotification, Inv
<1>2. PICK d \in Deliveries : d = worker[w].held /\ Open(d)
  BY <1>1 DEF WorkerInv
<1>3. RowInv(d) /\ row[d] \in Row /\ row \in [Deliveries -> Row]
  BY DEF Inv, TypeOK
<1>4. row[d].attempts < MaxAttempts /\ State(d) = "PENDING"
  BY <1>2, <1>3 DEF RowInv, State, Open
<1>5. row' = [row EXCEPT ![d].status = "PROCESSING", ![d].started = worker[w].now, 
                         ![d].attempts = @ + 1]
  BY <1>2, <1>4 DEF ClaimNotification
<1>6. /\ row'[d].attempts = row[d].attempts + 1 /\ row'[d].status = "PROCESSING"
      /\ \A e \in Deliveries \ {d} : row'[e] = row[e]
  BY <1>3, <1>5 DEF Row
<1>7. State(d)' = "PROCESSING"
  BY <1>6 DEF State
<1>8. /\ Queue!Move(d, "PENDING", "PROCESSING")
      /\ [e \in Deliveries |-> row[e].attempts]' = 
            [[e \in Deliveries |-> row[e].attempts] EXCEPT ![d] = row[d].attempts + 1]
  BY <1>4, <1>6, <1>7, OneMoves
<1> QED
  BY <1>4, <1>8 DEF Queue!Claim

LEMMA RecoverMoves ==
    ASSUME Inv, NEW w \in Workers, RecoverStale(w)
    PROVE  UNCHANGED row \/ \E d \in Deliveries : Queue!Settle(d)
<1>1. PICK d \in worker[w].stale : 
           row' = IF Stale(d, worker[w].now)
                  THEN [row EXCEPT ![d].status = "UNCERTAIN", ![d].started = None, 
                                   ![d].failed = FALSE]
                  ELSE row
  BY DEF RecoverStale
<1>2. d \in Deliveries /\ row[d] \in Row /\ row \in [Deliveries -> Row]
  BY DEF Inv, TypeOK, Worker
<1>3. CASE Stale(d, worker[w].now)
  <2>1. /\ row[d].status = "PROCESSING" /\ row'[d].status = "UNCERTAIN" 
        /\ row'[d].attempts = row[d].attempts
        /\ \A e \in Deliveries \ {d} : row'[e] = row[e]
    BY <1>1, <1>2, <1>3 DEF Stale, Row
  <2>2. State(d) = "PROCESSING" /\ State(d)' = "UNCERTAIN"
    BY <2>1 DEF State
  <2>3. Queue!Move(d, "PROCESSING", "UNCERTAIN")
    BY <1>2, <2>1, <2>2, OneMoves
  <2>4. UNCHANGED [e \in Deliveries |-> row[e].attempts]
    BY <2>1
  <2>5. "UNCERTAIN" \in Queue!Final
    BY DEF Queue!Final
  <2> QED
    BY <1>2, <2>3, <2>4, <2>5 DEF Queue!Settle
<1> QED
  BY <1>1, <1>3

LEMMA EnqueueMoves ==
    ASSUME Inv, NEW d \in Deliveries, EnqueueEmail(d)
    PROVE  Queue!Enqueue(d)
<1>1. /\ row[d].status = "NONE" /\ row \in [Deliveries -> Row] /\ RowInv(d)
      /\ row' = [row EXCEPT ![d] = [status |-> "PENDING", attempts |-> 0, due |-> clock, 
                                    started |-> None, failed |-> FALSE]]
  BY DEF EnqueueEmail, Inv, TypeOK
<1>2. /\ row'[d].status = "PENDING" /\ row'[d].attempts = 0
      /\ \A e \in Deliveries \ {d} : row'[e] = row[e]
  BY <1>1
<1>3. State(d) = "NONE" /\ State(d)' = "PENDING"
  BY <1>1, <1>2 DEF State
<1>4. Queue!Move(d, "NONE", "PENDING")
  BY <1>2, <1>3, OneMoves
<1>5. UNCHANGED [e \in Deliveries |-> row[e].attempts]
  BY <1>1, <1>2 DEF RowInv
<1> QED
  BY <1>4, <1>5 DEF Queue!Enqueue

LEMMA UpdatesMove ==
    ASSUME Inv, NEW w \in Workers, 
           CancelDelivery(w) \/ MarkSent(w) \/ MarkFailure(w) \/ MarkUncertain(w)
    PROVE  UNCHANGED row \/ \E d \in Deliveries : Queue!Retry(d) \/ Queue!Settle(d)
<1>1. Sending(w)
  BY DEF CancelDelivery, MarkSent, MarkFailure, MarkUncertain, Sending
<1>2. PICK d \in Deliveries : d = worker[w].claim.id
  BY <1>1, SendingReads
<1>3. PICK due \in Nat : due = DueOf(w)
  BY <1>1, SendingReads DEF DueOf, Row
<1>4. CASE CancelDelivery(w)
  BY <1>1, <1>2, <1>3, <1>4, UpdateMoves DEF CancelDelivery
<1>5. CASE MarkSent(w)
  BY <1>1, <1>2, <1>3, <1>5, UpdateMoves DEF MarkSent
<1>6. CASE MarkUncertain(w)
  BY <1>1, <1>2, <1>3, <1>6, UpdateMoves DEF MarkUncertain
<1>7. CASE MarkFailure(w)
  <2>1. PICK then \in Nat : 
           \/ worker[w].claim.attempts >= MaxAttempts /\ UpdateOwned(w, "FAILED", then, TRUE)
           \/ worker[w].claim.attempts < MaxAttempts /\ UpdateOwned(w, "FAILED", then, FALSE)
    BY <1>7, FailureUpdates
  <2> QED
    BY <1>1, <1>2, <2>1, UpdateMoves
<1> QED
  BY <1>4, <1>5, <1>6, <1>7

LEMMA StepMoves ==
    ASSUME Inv, Next
    PROVE  UNCHANGED row \/ Queue!Next
<1>1. CASE \E d \in Deliveries : EnqueueEmail(d)
  BY <1>1, EnqueueMoves DEF Queue!Next
<1>2. CASE Tick
  BY <1>2 DEF Tick
<1>3. ASSUME NEW w \in Workers, StartBatch(w) \/ Work(w) \/ Crash(w) 
      PROVE UNCHANGED row \/ Queue!Next
  <2>1. CASE ClaimNotification(w)
    BY <2>1, ClaimMoves DEF Queue!Next
  <2>2. CASE RecoverStale(w)
    BY <2>2, RecoverMoves DEF Queue!Next
  <2>3. CASE CancelDelivery(w) \/ MarkSent(w) \/ MarkFailure(w) \/ MarkUncertain(w)
    BY <2>3, UpdatesMove DEF Queue!Next
  <2>4. CASE StartBatch(w) \/ Crash(w)
    BY <2>4 DEF StartBatch, Crash
  <2> QED
    BY <1>3, <2>1, <2>2, <2>3, <2>4 DEF Work, SelectCandidates, LockNotification,
       SkipNotification, EndBatch, ReminderIsValid, SmtpAccepts, SmtpRefuses, SmtpTimesOutInData,
       SmtpClosesInData, MarkSentFails
<1> QED
  BY <1>1, <1>2, <1>3 DEF Next

\* The table implements the queue of Delivery: whatever the instances do, a row moves only as
\* README.md "Estados da fila" says (claimNotification, markSent, markFailed, markUncertain,
\* cancelDelivery, recoverStaleProcessing).
THEOREM ImplementsQueue == Spec => QueueSpec
<1>1. Init => Queue!Init
  BY DEF Init, NoRow, Queue!Init
<1>2. Inv /\ [Next]_vars => [Queue!Next]_QueueVars
  <2> SUFFICES ASSUME Inv, [Next]_vars PROVE Queue!Next \/ UNCHANGED QueueVars
    OBVIOUS
  <2>1. UNCHANGED row => UNCHANGED QueueVars
    BY DEF QueueVars
  <2> QED
    BY <2>1, StepMoves DEF vars
<1> QED
  BY <1>1, <1>2, Correct, PTL DEF Spec, QueueSpec, Queue!Spec, QueueVars

----------------------------------------------------------------------------
(* No row is forgotten *)

\* The longest a row waits for its next attempt, of getRetryDelayMs.
LongestWait == 180

\* A row that is not settled is one that the queries of a batch find, from a minute on that
\* is at most three hours away: as a candidate, or as one to give up.
EveryRowIsFound == \A d \in Deliveries : row[d].status # "NONE" /\ ~Settled(d) =>
    \E t \in Nat : t <= clock + LongestWait /\ (Eligible(d, t) \/ Stale(d, t))

\* Why: a row is due, and was claimed, at a time that some batch has read.
InTime(d) ==
    \/ row[d].status = "NONE" \/ Settled(d)
    \/ Open(d) /\ row[d].due <= clock + LongestWait
    \/ row[d].status = "PROCESSING" /\ row[d].started \in Nat /\ row[d].started <= clock

TimeInv == /\ \A w \in Workers : worker[w].now <= clock
           /\ \A d \in Deliveries : InTime(d)

\* A step that leaves every row as it is or in time.
LEMMA TimeStep ==
    ASSUME TypeOK, TimeInv, clock' \in Nat, clock <= clock',
           \A w \in Workers : worker'[w].now \in {worker[w].now, clock, 0},
           \A d \in Deliveries : row'[d] = row[d] \/ InTime(d)'
    PROVE  TimeInv'
<1>1. clock \in Nat /\ \A w \in Workers : worker[w].now \in Nat /\ worker[w].now <= clock
  BY DEF TypeOK, TimeInv, Worker
<1>2. \A w \in Workers : worker'[w].now <= clock'
  BY <1>1
<1>3. ASSUME NEW d \in Deliveries, row'[d] = row[d] PROVE InTime(d)'
  <2>1. row[d].due \in Nat /\ InTime(d)
    BY DEF TypeOK, TimeInv, Row
  <2> QED
    BY <1>1, <1>3, <2>1 DEF InTime, Settled, Open, LongestWait
<1> QED
  BY <1>2, <1>3 DEF TimeInv

\* A worker goes on with its batch, begins one, or leaves it.
LEMMA SameNow ==
    ASSUME TypeOK, NEW w \in Workers, NEW x, worker' = [worker EXCEPT ![w] = x],
           x.now \in {worker[w].now, clock, 0}
    PROVE  \A v \in Workers : worker'[v].now \in {worker[v].now, clock, 0}
  BY DEF TypeOK

LEMMA NowKept ==
    ASSUME TypeOK, NEW w \in Workers, StartBatch(w) \/ Work(w) \/ Crash(w)
    PROVE  \A v \in Workers : worker'[v].now \in {worker[v].now, clock, 0}
<1>1. clock \in Nat /\ worker[w] \in Worker
  BY DEF TypeOK
<1>2. CASE StartBatch(w)
  <2> DEFINE x == [IdleWorker EXCEPT !.pc = "recover", !.now = clock,
                      !.stale = {d \in Deliveries : Stale(d, clock)}]
  <2>1. worker' = [worker EXCEPT ![w] = x] /\ x.now = clock
    BY <1>2 DEF StartBatch, IdleWorker
  <2> HIDE DEF x
  <2> QED
    BY <1>1, <2>1, SameNow
<1>3. CASE Crash(w) \/ EndBatch(w)
  <2>1. worker' = [worker EXCEPT ![w] = IdleWorker] /\ IdleWorker.now = 0
    BY <1>3 DEF Crash, EndBatch, IdleWorker
  <2> QED
    BY <2>1, SameNow
<1>4. CASE RecoverStale(w)
  <2>1. PICK d \in worker[w].stale : worker' = [worker EXCEPT ![w].stale = @ \ {d}]
    BY <1>4 DEF RecoverStale
  <2> QED
    BY <1>1, <2>1 DEF TypeOK, Worker
<1>5. CASE SkipNotification(w)
  <2>1. PICK d \in worker[w].todo : worker' = [worker EXCEPT ![w].todo = @ \ {d}]
    BY <1>5 DEF SkipNotification
  <2> QED
    BY <1>1, <2>1 DEF TypeOK, Worker
<1>6. CASE SelectCandidates(w)
  BY <1>1, <1>6 DEF TypeOK, Worker, SelectCandidates
<1>7. CASE LockNotification(w)
  BY <1>1, <1>7 DEF TypeOK, Worker, LockNotification
<1>8. CASE ClaimNotification(w)
  <2> DEFINE d == worker[w].held
             x == [worker[w] EXCEPT !.held = None,
                     !.pc = IF d \in Reminders THEN "validate" ELSE "send",
                     !.claim = [id |-> d, attempts |-> row[d].attempts + 1, 
                                started |-> worker[w].now]]
             y == [worker[w] EXCEPT !.pc = "claim", !.held = None]
  <2>1. \/ worker' = [worker EXCEPT ![w] = x]
        \/ worker' = [worker EXCEPT ![w] = y]
    BY <1>1, <1>8 DEF TypeOK, ClaimNotification
  <2>2. x.now = worker[w].now /\ y.now = worker[w].now
    BY <1>1 DEF Worker
  <2> HIDE DEF x, y
  <2> QED
    BY <2>1, <2>2, SameNow
<1>9. CASE (\E at \in PC : Goto(w, at)) \/ NextNotification(w)
  BY <1>1, <1>9 DEF TypeOK, Worker, Goto, NextNotification
<1>10. CASE \/ ReminderIsValid(w) \/ CancelDelivery(w) \/ SmtpAccepts(w) \/ SmtpRefuses(w)
           \/ SmtpTimesOutInData(w) \/ SmtpClosesInData(w) \/ MarkSent(w) \/ MarkSentFails(w)
           \/ MarkFailure(w) \/ MarkUncertain(w)
  BY <1>9, <1>10 DEF PC, ReminderIsValid, CancelDelivery, SmtpAccepts, SmtpRefuses, 
     SmtpTimesOutInData, SmtpClosesInData, MarkSent, MarkSentFails, MarkFailure, MarkUncertain
<1> QED
  BY <1>2, <1>3, <1>4, <1>5, <1>6, <1>7, <1>8, <1>10 DEF Work

LEMMA RetryIsInTime == \A n \in Nat : RetryDelay(n) \in 0..LongestWait
  BY DEF RetryDelay, LongestWait

\* An attempt that ends settles its row or makes it due again.
LEMMA UpdateInTime ==
    ASSUME TypeOK, NEW w \in Workers, worker[w].claim \in Claim, NEW status, NEW due \in Nat,
           NEW failed \in BOOLEAN, UpdateOwned(w, status, due, failed), clock' = clock,
           \/ status \in {"SENT", "CANCELED", "UNCERTAIN"}
           \/ status = "FAILED" /\ (failed \/ due <= clock + LongestWait),
           NEW d \in Deliveries
    PROVE  row'[d] = row[d] \/ InTime(d)'
<1> DEFINE c == worker[w].claim.id
           x == [row[c] EXCEPT !.status = status, !.due = due, !.started = None, 
                               !.failed = failed]
<1>1. c \in Deliveries /\ row[c] \in Row
  BY DEF TypeOK, Claim
<1>2. x.status = status /\ x.due = due /\ x.failed = failed
  BY <1>1 DEF Row
<1>3. row' = IF Owns(w) THEN [row EXCEPT ![c] = x] ELSE row
  BY DEF UpdateOwned
<1> HIDE DEF x
<1>4. row'[d] = row[d] \/ (d = c /\ row'[d] = x)
  BY <1>1, <1>3 DEF TypeOK
<1> QED
  BY <1>2, <1>4 DEF InTime, Settled, Open

LEMMA RowsInTime ==
    ASSUME Inv, TimeInv, NEW w \in Workers, StartBatch(w) \/ Work(w) \/ Crash(w),
           NEW d \in Deliveries
    PROVE  row'[d] = row[d] \/ InTime(d)'
<1>1. /\ TypeOK /\ clock \in Nat /\ worker[w].now \in Nat /\ worker[w].now <= clock
      /\ row[d] \in Row
  BY DEF Inv, TypeOK, TimeInv, Worker
<1>2. CASE RecoverStale(w)
  <2>1. PICK e \in Deliveries : row' = IF Stale(e, worker[w].now)
                  THEN [row EXCEPT ![e].status = "UNCERTAIN", ![e].started = None, 
                                   ![e].failed = FALSE]
                  ELSE row
    BY <1>1, <1>2 DEF RecoverStale, TypeOK, Worker
  <2>2. row'[d] = row[d] \/ row'[d].status = "UNCERTAIN"
    BY <1>1, <2>1 DEF TypeOK, Row
  <2> QED
    BY <2>2 DEF InTime, Settled
<1>3. CASE ClaimNotification(w)
  <2> DEFINE e == worker[w].held
  <2>1. CASE row[e].attempts < MaxAttempts
    <3>1. row' = [row EXCEPT ![e].status = "PROCESSING", ![e].started = worker[w].now,
                             ![e].attempts = @ + 1]
      BY <1>3, <2>1 DEF ClaimNotification
    <3>2. \/ row'[d] = row[d]
          \/ row'[d].status = "PROCESSING" /\ row'[d].started = worker[w].now
      BY <1>1, <3>1 DEF TypeOK, Row
    <3>3. clock' = clock
      BY <1>3 DEF ClaimNotification
    <3> QED
      BY <1>1, <3>2, <3>3 DEF InTime
  <2>2. CASE ~(row[e].attempts < MaxAttempts)
    <3>1. row' = [row EXCEPT ![e].status = "FAILED", ![e].started = None, ![e].failed = TRUE]
      BY <1>3, <2>2 DEF ClaimNotification
    <3>2. row'[d] = row[d] \/ (row'[d].status = "FAILED" /\ row'[d].failed)
      BY <1>1, <3>1 DEF TypeOK, Row
    <3> QED
      BY <3>2 DEF InTime, Settled
  <2> QED
    BY <2>1, <2>2
<1>4. ASSUME Sending(w)
      PROVE  worker[w].claim \in Claim /\ DueOf(w) \in Nat /\ worker[w].claim.attempts \in Nat
  BY <1>1, <1>4 DEF Inv, WorkerInv, DueOf, Claim, TypeOK, Row
<1>5. CASE CancelDelivery(w)
  BY <1>1, <1>4, <1>5, UpdateInTime DEF CancelDelivery, Sending
<1>6. CASE MarkSent(w)
  BY <1>1, <1>4, <1>6, UpdateInTime DEF MarkSent, Sending
<1>7. CASE MarkUncertain(w)
  BY <1>1, <1>4, <1>7, UpdateInTime DEF MarkUncertain, Sending
<1>8. CASE MarkFailure(w)
  <2> DEFINE exhausted == worker[w].claim.attempts >= MaxAttempts
             wait == IF exhausted THEN 0 ELSE RetryDelay(worker[w].claim.attempts)
  <2>1. /\ UpdateOwned(w, "FAILED", worker[w].now + wait, exhausted) /\ clock' = clock
        /\ Sending(w) /\ exhausted \in BOOLEAN
    BY <1>8 DEF MarkFailure, Sending
  <2>2. wait \in 0..LongestWait
    BY <1>4, <2>1, RetryIsInTime DEF LongestWait
  <2> HIDE DEF wait, exhausted
  <2>3. worker[w].now + wait \in Nat /\ worker[w].now + wait <= clock + LongestWait
    BY <1>1, <2>2 DEF LongestWait
  <2> QED
    BY <1>1, <1>4, <2>1, <2>3, UpdateInTime
<1>9. CASE \/ StartBatch(w) \/ SelectCandidates(w) \/ LockNotification(w) \/ SkipNotification(w)
           \/ EndBatch(w) \/ ReminderIsValid(w) \/ SmtpAccepts(w) \/ SmtpRefuses(w) 
           \/ SmtpTimesOutInData(w) \/ SmtpClosesInData(w) \/ MarkSentFails(w) \/ Crash(w)
  BY <1>9 DEF StartBatch, SelectCandidates, LockNotification, SkipNotification, EndBatch,
     ReminderIsValid, SmtpAccepts, SmtpRefuses, SmtpTimesOutInData, SmtpClosesInData, 
     MarkSentFails, Crash
<1> QED
  BY <1>2, <1>3, <1>5, <1>6, <1>7, <1>8, <1>9 DEF Work

LEMMA TimeNext == Inv /\ TimeInv /\ [Next]_vars => TimeInv'
<1> SUFFICES ASSUME Inv, TimeInv, [Next]_vars PROVE TimeInv'
  OBVIOUS
<1>1. TypeOK /\ clock \in Nat
  BY DEF Inv, TypeOK
<1>2. ASSUME NEW w \in Workers, StartBatch(w) \/ Work(w) \/ Crash(w) PROVE TimeInv'
  <2>1. clock' = clock
    BY <1>2 DEF StartBatch, Crash, Work, RecoverStale, SelectCandidates, LockNotification,
       SkipNotification, ClaimNotification, EndBatch, ReminderIsValid, CancelDelivery, 
       SmtpAccepts, SmtpRefuses, SmtpTimesOutInData, SmtpClosesInData, MarkSent, MarkSentFails, 
       MarkFailure, MarkUncertain
  <2>2. \A v \in Workers : worker'[v].now \in {worker[v].now, clock, 0}
    BY <1>1, <1>2, NowKept
  <2>3. \A d \in Deliveries : row'[d] = row[d] \/ InTime(d)'
    BY <1>2, RowsInTime
  <2> QED
    BY <1>1, <2>1, <2>2, <2>3, TimeStep
<1>3. ASSUME NEW d \in Deliveries, EnqueueEmail(d) PROVE TimeInv'
  <2>1. /\ worker' = worker /\ clock' = clock
        /\ \A e \in Deliveries : row'[e] = row[e] \/ (row'[e].status = "PENDING" /\ row'[e].due = clock)
    BY <1>1, <1>3 DEF EnqueueEmail, TypeOK
  <2>2. \A e \in Deliveries : row'[e] = row[e] \/ InTime(e)'
    BY <1>1, <2>1 DEF InTime, Open, LongestWait
  <2> QED
    BY <1>1, <2>1, <2>2, TimeStep
<1>4. CASE Tick
  <2>1. clock' \in Nat /\ clock < clock' /\ worker' = worker /\ row' = row
    BY <1>4 DEF Tick
  <2> QED
    BY <1>1, <2>1, TimeStep
<1>5. CASE UNCHANGED vars
  BY <1>1, <1>5, TimeStep DEF vars
<1> QED
  BY <1>2, <1>3, <1>4, <1>5 DEF Next

\* Whatever crashes, no row is left where no batch would find it: neither waiting for more
\* than the longest delay, nor in PROCESSING without the time by which it is given up
\* (findCandidates, recoverStaleProcessing).
THEOREM NoRowIsForgotten == Spec => []EveryRowIsFound
<1>1. Init => TimeInv
  BY DEF Init, TimeInv, InTime, NoRow, IdleWorker
<1>2. ASSUME Inv, TimeInv PROVE EveryRowIsFound
  <2> SUFFICES ASSUME NEW d \in Deliveries, row[d].status # "NONE", ~Settled(d)
               PROVE  \E t \in Nat : t <= clock + LongestWait /\ (Eligible(d, t) \/ Stale(d, t))
    BY DEF EveryRowIsFound
  <2>1. row[d].due \in Nat /\ clock \in Nat /\ InTime(d)
    BY <1>2 DEF Inv, TypeOK, Row, TimeInv
  <2>2. CASE Open(d) /\ row[d].due <= clock + LongestWait
    BY <2>1, <2>2 DEF Open, Eligible
  <2>3. CASE row[d].status = "PROCESSING" /\ row[d].started \in Nat /\ row[d].started <= clock
    <3>1. row[d].started + StaleAfter \in Nat
      BY <2>3 DEF StaleAfter
    <3>2. Stale(d, row[d].started + StaleAfter)
      BY <2>3 DEF Stale, StaleAfter
    <3> QED
      BY <2>1, <2>3, <3>1, <3>2 DEF StaleAfter, LongestWait
  <2> QED
    BY <2>1, <2>2, <2>3 DEF InTime
<1>3. Inv /\ TimeInv => EveryRowIsFound
  BY <1>2
<1> QED
  BY <1>1, <1>3, TimeNext, Correct, PTL DEF Spec
=============================================================================
