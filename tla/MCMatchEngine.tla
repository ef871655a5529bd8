---------------------------- MODULE MCMatchEngine ----------------------------
(* Small events for TLC: up to three people against three, drawn from a    *)
(* few kinds of people whose pairs score from far below the minimum to the *)
(* full hundred, with ties, and one of whom blocks somebody.               *)
EXTENDS MatchEngine, TLC

None == [k \in {} |-> ""]

Person(id, group) ==
    [id |-> id, group |-> group, accepted |-> {1, 2}, active |-> TRUE,
     approved |-> TRUE, confirmed |-> TRUE, excluded |-> FALSE,
     age |-> 30, minAge |-> 25, maxAge |-> 40, blocked |-> {}, prior |-> {},
     dealBreakers |-> None, lifestyle |-> None, intent |-> "",
     personality |-> [k \in {} |-> 0], interests |-> {}, values |-> {},
     languages |-> {}, location |-> ""]

(* On the left side. *)
LeftKinds(id) ==
    LET q == Person(id, 1) IN
    {[q EXCEPT !.intent = "casual", !.interests = {"art"},
               !.blocked = {13}],
     [q EXCEPT !.intent = "casual", !.interests = {"art", "music"},
               !.lifestyle = [k \in {"smoking"} |-> "yes"]],
     [q EXCEPT !.intent = "serious", !.personality = [k \in {"open"} |-> 1]],
     [q EXCEPT !.location = "north", !.maxAge = 29]}

(* On the right side. *)
RightKinds(id) ==
    LET q == Person(id, 2) IN
    {[q EXCEPT !.intent = "casual", !.interests = {"art"},
               !.dealBreakers = [k \in {"smoking"} |-> "yes"]],
     [q EXCEPT !.intent = "serious", !.interests = {"art", "music"},
               !.personality = [k \in {"open"} |-> 4], !.age = 28],
     [q EXCEPT !.interests = {"sport"}, !.location = "south",
               !.languages = {"si"}, !.age = 27]}

MCInputs ==
    {{x, y, z} : x \in LeftKinds(1), y \in LeftKinds(2), z \in RightKinds(11)}
      \cup
    {S \cup T : S \in {{x, y, z} : x \in LeftKinds(1), y \in LeftKinds(2),
                                   z \in LeftKinds(3)},
                T \in {{x, y, z} : x \in RightKinds(11), y \in RightKinds(12),
                                   z \in RightKinds(13)}}

(* The weights and the minimum of the ruleset prototype-v1. *)
MCWeights ==
    [c \in Component |->
        CASE c = "relationship" -> 25
          [] c \in {"personality", "interests"} -> 20
          [] c = "lifestyle" -> 15
          [] OTHER -> 10]
=============================================================================
