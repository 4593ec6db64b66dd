----------------------------- MODULE MCReminders -----------------------------
(* Instances of Reminders for TLC. *)
EXTENDS Reminders, TLC

InstanceSymmetry == Permutations(Requests) \cup Permutations(Workers) 
                        \cup Permutations(Schedulers)
=============================================================================
