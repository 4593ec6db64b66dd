----------------------------- MODULE MCBooking -----------------------------
(* Instances of Booking for TLC. *)
EXTENDS Booking, TLC

\* Requests are interchangeable.
RequestSymmetry == Permutations(Requests)
=============================================================================
