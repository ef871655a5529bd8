----------------------------- MODULE MCBooking ------------------------------
(* Small instances of Booking for TLC. *)
EXTENDS Booking, TLC

(* One seat, which two members want and may want again. *)
MCCapacity == [e \in Event |-> 1]
MCOptions == [e \in Event |-> "BOTH"]
MCClosesAt == [e \in Event |-> 2]

MCSymmetry ==
    Permutations(BookingId) \cup Permutations(Account) \cup Permutations(Key)
=============================================================================
