----------------------------- MODULE MCBooking -----------------------------
(* Instances of Booking for TLC. *)
EXTENDS Booking, TLC

(* A single day; two days of one month; and a third day of the next month. *)
OneDay    == [d \in 1 .. 1 |-> 1]
SameMonth == [d \in 1 .. 2 |-> 1]
TwoAndOne == [d \in 1 .. 3 |-> IF d = 3 THEN 2 ELSE 1]

(* Devices, identifiers and times are interchangeable. *)
BookingSymmetry ==
  Permutations(Clients) \cup Permutations(Ids) \cup Permutations(Times)
=============================================================================
