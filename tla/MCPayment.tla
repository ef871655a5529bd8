----------------------------- MODULE MCPayment ------------------------------
(* A small instance of Payment for TLC: every answer the service can tell  *)
(* from another.                                                           *)
EXTENDS Payment

MCAnswer == [status: {"2", "0", "-1"}, valid: BOOLEAN]
=============================================================================
