----------------------------- MODULE MCModeration -----------------------------
(* An instance for TLC: two cases that act on the same target at once, and *)
(* actions enough for one that follows two that ended.                     *)
EXTENDS Moderation, TLC

MCSymmetry ==
    Permutations(Case) \cup Permutations(Content) \cup Permutations(Action)
        \cup Permutations(Worker)
=============================================================================
