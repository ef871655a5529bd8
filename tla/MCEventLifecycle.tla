--------------------------- MODULE MCEventLifecycle ---------------------------
(* An instance for TLC: one event, two commands at once, two capacities    *)
(* and a window that opens and closes within the time there is.            *)
EXTENDS EventLifecycle, TLC

MCWindow == {[opens |-> 1, closes |-> 2]}
MCSymmetry == Permutations(Worker)
=============================================================================
