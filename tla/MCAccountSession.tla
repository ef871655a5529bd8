--------------------------- MODULE MCAccountSession ---------------------------
(* An instance for TLC: two requests at once over three sessions, enough   *)
(* for a family of three, the last inserted while a reuse ends the others. *)
EXTENDS AccountSession, TLC

MCSymmetry == Permutations(Session) \cup Permutations(Worker)
=============================================================================
