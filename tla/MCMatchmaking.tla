---------------------------- MODULE MCMatchmaking ----------------------------
(* A small event for TLC: two people of one group, one of the other, so    *)
(* that two runs compete for the latter.                                   *)
EXTENDS Matchmaking, TLC

(* Keys and UUIDs are only compared, and so may change places. *)
MCSymmetry ==
    Permutations(RunId) \cup Permutations(Key) \cup Permutations(AnswerKey)
        \cup Permutations(ConsentKey)
=============================================================================
