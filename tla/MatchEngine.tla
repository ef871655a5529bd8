----------------------------- MODULE MatchEngine -----------------------------
(***************************************************************************)
(* The pairing engine: from the participants of an event to the suggested  *)
(* pairs (engine.Generate).  The people who pass the hard rules and reach  *)
(* the least score together are the edges between two groups; the edges    *)
(* become the weights of an assignment problem, Hungarian solves it, and   *)
(* the pairs that are edges are suggested.                                 *)
(***************************************************************************)
EXTENDS Hungarian, MatchRules, Sequences, FiniteSetsExt

CONSTANT Inputs     \* sets of participants; ids and groups are integers

(* Generate is called with participants that it does not refuse.           *)
ASSUME EngineAssumption ==
    \A P \in Inputs :
        /\ IsFiniteSet(P)
        /\ \A a \in P : IsParticipant(a)
        /\ ValidParticipants(P)

VARIABLE people     \* the participants the engine was called with

vars == <<hvars, people>>

-----------------------------------------------------------------------------
GroupsOf(P) == {a.group : a \in P}

(* The members of a group in the order of their ids: so many come before   *)
(* each of them.                                                           *)
Group(P, g) == {a \in P : a.group = g}
Before(P, a) == {b \in Group(P, a.group) : b.id < a.id}
Members(P, g) ==
    [r \in 1..Cardinality(Group(P, g)) |->
        CHOOSE a \in Group(P, g) : Cardinality(Before(P, a)) = r - 1]
LeftOf(P) == Members(P, Min(GroupsOf(P)))
RightOf(P) == Members(P, Max(GroupsOf(P)))
SizeOf(P) == Max({Len(LeftOf(P)), Len(RightOf(P))})

(* More than all the scores of the largest event together.                 *)
EdgeBonus == MaxPrototypePeople * 100 + 1

EdgeWeight(a, b) ==
    IF Pairable(a, b) THEN EdgeBonus + Evaluate(a, b).score ELSE 0

(* The smaller group is padded with nobody.                                *)
WeightsOf(P) ==
    LET left == LeftOf(P)
        right == RightOf(P) IN
    [r \in 1..SizeOf(P) |-> [c \in 1..SizeOf(P) |->
        IF r <= Len(left) /\ c <= Len(right)
          THEN EdgeWeight(left[r], right[c]) ELSE 0]]

(* Anything but two groups is refused before the assignment begins.        *)
EngineInit ==
    /\ people \in {P \in Inputs : TwoGroups(P)}
    /\ Start(SizeOf(people), WeightsOf(people))

EngineStep == Step /\ UNCHANGED people

EngineSpec == EngineInit /\ [][EngineStep]_vars

-----------------------------------------------------------------------------
(* The answer *)

Left == LeftOf(people)
Right == RightOf(people)
Edge(r, c) == r \in DOMAIN Left /\ c \in DOMAIN Right /\ Pairable(Left[r], Right[c])

(* Row and column of each suggested pair.                                  *)
Suggested == {<<p[c], c>> : c \in {d \in Lines : Edge(p[d], d)}}

Paired == {Left[e[1]] : e \in Suggested} \cup {Right[e[2]] : e \in Suggested}

(* Why somebody was left out.                                              *)
UnmatchedReason(a) ==
    LET Others == {b \in people : b.group # a.group} IN
    IF ~\E b \in Others : Evaluate(a, b).eligible THEN "NO_ELIGIBLE_CANDIDATE"
    ELSE IF ~\E b \in Others : Pairable(a, b) THEN "BELOW_MINIMUM_SCORE"
    ELSE "GROUP_CAPACITY_IMBALANCE"

Unmatched == [a \in people \ Paired |-> UnmatchedReason(a)]

-----------------------------------------------------------------------------
(* Properties *)

(* "maximize number of valid pairings", then "total compatibility":        *)
(* whoever else might be matched, no set of pairable couples in which      *)
(* nobody appears twice is larger, or as large with a better total.        *)
Edges == {e \in (DOMAIN Left) \X (DOMAIN Right) : Edge(e[1], e[2])}
IsMatching(M) ==
    \A e, f \in M : e[1] = f[1] \/ e[2] = f[2] => e = f
Score == [e \in Edges |-> Evaluate(Left[e[1]], Right[e[2]]).score]
Total(M) == SumFunctionOnSet(Score, M)

PairingsAreOptimal ==
    phase = "done" =>
        /\ Suggested \subseteq Edges
        /\ IsMatching(Suggested)
        /\ \A M \in SUBSET Edges : IsMatching(M) =>
              \/ Cardinality(M) < Cardinality(Suggested)
              \/ /\ Cardinality(M) = Cardinality(Suggested)
                 /\ Total(M) <= Total(Suggested)

(* "Edge weight first maximizes valid pairing count, then total            *)
(* compatibility score, then deterministic lexicographic order": of the    *)
(* matchings that are as good, read in the order of the left ids, none     *)
(* differs from the one suggested first by an earlier partner.             *)
Partner(M, r) ==
    IF \E e \in M : e[1] = r THEN (CHOOSE e \in M : e[1] = r)[2] ELSE n + 1
Earlier(M, S) ==
    \E r \in DOMAIN Left :
        /\ Partner(M, r) < Partner(S, r)
        /\ \A q \in 1..(r - 1) : Partner(M, q) = Partner(S, q)

TiesFollowIds ==
    phase = "done" =>
        ~\E M \in SUBSET Edges :
            /\ IsMatching(M)
            /\ Cardinality(M) = Cardinality(Suggested)
            /\ Total(M) = Total(Suggested)
            /\ Earlier(M, Suggested)

(* What an administrator reads of somebody left out is true of the pairs   *)
(* suggested: who is told of an imbalance has a possible partner, and      *)
(* every one of those is taken.                                            *)
ReasonsAreTrue ==
    phase = "done" => \A a \in DOMAIN Unmatched :
        LET Possible == {b \in people : Pairable(a, b) \/ Pairable(b, a)} IN
        /\ Possible \subseteq Paired
        /\ Possible = {} <=> Unmatched[a] # "GROUP_CAPACITY_IMBALANCE"
=============================================================================
