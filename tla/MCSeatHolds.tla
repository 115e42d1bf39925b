---------------------------- MODULE MCSeatHolds ----------------------------
(* SeatHolds on small instances: orders, and seats, are interchangeable.   *)
EXTENDS SeatHolds, TLC

Symmetry == Permutations(Orders) \union Permutations(Seats)
=============================================================================
