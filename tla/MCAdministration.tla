-------------------------- MODULE MCAdministration --------------------------
(* Instances of Administration for TLC. *)
EXTENDS Administration, TLC

RequestSymmetry == Permutations(Requests)
MCSymmetry == Permutations(Requests) \cup Permutations(Employees) \cup Permutations(Emails \ {Owner}) \cup Permutations(Services)
=============================================================================
