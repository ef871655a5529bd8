-------------------------- MODULE MCBookingPayment --------------------------
(* A small instance of BookingPayment for TLC: one seat, one member who    *)
(* may want it twice, and a provider that is paid, refuses, or sends       *)
(* something that does not match.                                          *)
EXTENDS BookingPayment, TLC

MCCapacity == [e \in Event |-> 1]
MCOptions == [e \in Event |-> "BOTH"]
MCClosesAt == [e \in Event |-> 2]
MCAnswer == {[status |-> "2", valid |-> TRUE], [status |-> "-1", valid |-> TRUE],
             [status |-> "2", valid |-> FALSE]}

MCSymmetry ==
    Permutations(BookingId) \cup Permutations(BookingKey)
=============================================================================
