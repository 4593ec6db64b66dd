------------------------------ MODULE Delivery ------------------------------
(***************************************************************************)
(* What the e-mail queue promises of one NotificationDelivery row: the     *)
(* states of README.md "Estados da fila" and the moves between them.  A    *)
(* failed attempt that may be repeated is "PENDING" again, as the README   *)
(* draws it; the table writes it as FAILED without failedAt.               *)
(***************************************************************************)
EXTENDS Integers

CONSTANTS Deliveries,   \* the rows of the queue
          MaxAttempts   \* maxAttempts of a row

VARIABLES state,        \* the state of each row, "NONE" before it is queued
          tries         \* how often each row was claimed for sending

Final == {"SENT", "FAILED", "CANCELED", "UNCERTAIN"}
State == Final \cup {"NONE", "PENDING", "PROCESSING"}

Init == state = [d \in Deliveries |-> "NONE"] /\ tries = [d \in Deliveries |-> 0]

Move(d, from, to) == state[d] = from /\ state' = [state EXCEPT ![d] = to]

Enqueue(d) == Move(d, "NONE", "PENDING") /\ UNCHANGED tries

Claim(d) ==
    /\ Move(d, "PENDING", "PROCESSING")
    /\ tries[d] < MaxAttempts
    /\ tries' = [tries EXCEPT ![d] = @ + 1]

Retry(d) ==
    /\ Move(d, "PROCESSING", "PENDING")
    /\ tries[d] < MaxAttempts
    /\ UNCHANGED tries

\* A row fails for good only when its attempts are used up.
Settle(d) ==
    /\ \E to \in Final : 
          /\ Move(d, "PROCESSING", to)
          /\ to = "FAILED" => tries[d] = MaxAttempts
    /\ UNCHANGED tries

Next == \E d \in Deliveries : Enqueue(d) \/ Claim(d) \/ Retry(d) \/ Settle(d)

Spec == Init /\ [][Next]_<<state, tries>>
=============================================================================
