------------------------------ MODULE MatchRules ------------------------------
(***************************************************************************)
(* The rules of the pairing engine: who may be paired with whom, and how   *)
(* well two people suit each other.  A participant is a record with the    *)
(* fields of domain.Participant; an unknown text is "", an unknown map or  *)
(* list is empty, and active stands for Active and Verified, of which the  *)
(* rules want both.                                                        *)
(***************************************************************************)
EXTENDS Integers, FiniteSets, Functions

CONSTANTS
    Weights,        \* weight of each component
    MinimumScore,   \* the least total score of a pair
    AllowRepeats    \* whether prior partners may meet again

Component == {"relationship", "personality", "interests", "lifestyle",
              "values", "language_location"}

(* ValidateRuleset: a generation under another ruleset fails.              *)
ASSUME RulesAssumption ==
    /\ Weights \in [Component -> Nat]
    /\ SumFunction(Weights) = 100
    /\ MinimumScore \in 0..100
    /\ AllowRepeats \in BOOLEAN

-----------------------------------------------------------------------------
(* Hard rules *)

(* A key the other has no value for reads as "".                           *)
Breaks(owner, other) ==
    \E key \in DOMAIN owner.dealBreakers :
        owner.dealBreakers[key] = IF key \in DOMAIN other.lifestyle
                                    THEN other.lifestyle[key] ELSE ""

AgeFits(a, b) == b.age \in a.minAge..a.maxAge

(* Mutant: only the first one's list is looked at. *)
BlockedOneWay(a, b) == b.id \in a.blocked

Blocked(a, b) == b.id \in a.blocked \/ a.id \in b.blocked

HardRules(a, b) ==
    {code \in {"EVENT_POLICY_MISMATCH", "ACCOUNT_INELIGIBLE",
               "PROFILE_INCOMPLETE", "BOOKING_NOT_CONFIRMED",
               "PARTNER_PREFERENCE_MISMATCH", "AGE_RANGE_MISMATCH",
               "BLOCKED_RELATIONSHIP", "SAFETY_EXCLUSION",
               "DEAL_BREAKER_MISMATCH", "REPEAT_PAIR_NOT_ALLOWED"} :
        CASE code = "EVENT_POLICY_MISMATCH" -> a.id = b.id \/ a.group = b.group
          [] code = "ACCOUNT_INELIGIBLE" -> ~(a.active /\ b.active)
          [] code = "PROFILE_INCOMPLETE" -> ~(a.approved /\ b.approved)
          [] code = "BOOKING_NOT_CONFIRMED" -> ~(a.confirmed /\ b.confirmed)
          [] code = "PARTNER_PREFERENCE_MISMATCH" ->
                b.group \notin a.accepted \/ a.group \notin b.accepted
          [] code = "AGE_RANGE_MISMATCH" -> ~(AgeFits(a, b) /\ AgeFits(b, a))
          [] code = "BLOCKED_RELATIONSHIP" -> Blocked(a, b)
          [] code = "SAFETY_EXCLUSION" -> a.excluded \/ b.excluded
          [] code = "DEAL_BREAKER_MISMATCH" -> Breaks(a, b) \/ Breaks(b, a)
          [] OTHER -> /\ ~AllowRepeats
                      /\ b.id \in a.prior \/ a.id \in b.prior}

-----------------------------------------------------------------------------
(* Scores *)

Clamp(x) == IF x < 0 THEN 0 ELSE IF x > 100 THEN 100 ELSE x

(* math.Round of x/y, for x >= 0. *)
Round(x, y) == (2 * x + y) \div (2 * y)

(* A score that is not known is Unknown and counts for nothing.            *)
Unknown == -1

Relationship(a, b) ==
    IF a.intent = "" \/ b.intent = "" THEN Unknown
    ELSE IF a.intent = b.intent THEN 100 ELSE 60

Distance(x, y) == IF x < y THEN y - x ELSE x - y

Personality(x, y) ==
    LET Shared == DOMAIN x \cap DOMAIN y
        Total  == SumFunction([k \in Shared |-> Distance(x[k], y[k])]) IN
    IF Shared = {} THEN Unknown
    ELSE Clamp(100 - (Total * 25) \div Cardinality(Shared))

MapSimilarity(x, y) ==
    LET Shared == DOMAIN x \cap DOMAIN y IN
    IF Shared = {} THEN Unknown
    ELSE (Cardinality({k \in Shared : x[k] = y[k]}) * 100)
             \div Cardinality(Shared)

Jaccard(x, y) ==
    IF x = {} \/ y = {} THEN Unknown
    ELSE Round(Cardinality(x \cap y) * 100, Cardinality(x \cup y))

LanguageLocation(a, b) ==
    LET language == Jaccard(a.languages, b.languages)
        known == a.location # "" /\ b.location # ""
        same == a.location = b.location IN
    IF language = Unknown
      THEN IF ~known THEN Unknown ELSE IF same THEN 100 ELSE 40
      ELSE Clamp(IF ~known THEN language
                 ELSE (language * 70) \div 100 + IF same THEN 30 ELSE 10)

Components(a, b) ==
    [c \in Component |->
        CASE c = "relationship" -> Relationship(a, b)
          [] c = "personality" -> Personality(a.personality, b.personality)
          [] c = "interests" -> Jaccard(a.interests, b.interests)
          [] c = "lifestyle" -> MapSimilarity(a.lifestyle, b.lifestyle)
          [] c = "values" -> Jaccard(a.values, b.values)
          [] OTHER -> LanguageLocation(a, b)]

(* The weights of the known components are renormalised.                   *)
Weighted(scores) ==
    LET Known  == {c \in Component : scores[c] # Unknown}
        Sum    == SumFunctionOnSet([c \in Known |-> scores[c] * Weights[c]], Known)
        Active == SumFunctionOnSet(Weights, Known) IN
    IF Active = 0 THEN 0 ELSE Round(Sum, Active)

(* What Evaluate says of a and b.  The reasons shown to members are wording. *)
Evaluate(a, b) ==
    LET codes == HardRules(a, b) IN
    [codes |-> codes, eligible |-> codes = {},
     score |-> IF codes = {} THEN Weighted(Components(a, b)) ELSE 0]

Pairable(a, b) ==
    /\ Evaluate(a, b).eligible
    /\ Evaluate(a, b).score >= MinimumScore

-----------------------------------------------------------------------------
(* What the lists and maps of a participant are in any case: finite.       *)
IsParticipant(a) ==
    /\ a.id \in Int /\ a.group \in Int
    /\ IsFiniteSet(a.interests) /\ IsFiniteSet(a.values) /\ IsFiniteSet(a.languages)
    /\ IsFiniteSet(DOMAIN a.personality) /\ IsFiniteSet(DOMAIN a.lifestyle)

(* The largest event that the prototype takes.                             *)
MaxPrototypePeople == 10000

(* validateParticipants, as far as it concerns the fields modelled.        *)
ValidParticipants(people) ==
    /\ Cardinality(people) >= 2
    /\ Cardinality(people) <= MaxPrototypePeople
    /\ \A a, b \in people : a.id = b.id => a = b
    /\ \A a \in people :
          /\ a.age \in 18..120
          /\ 18 <= a.minAge /\ a.minAge <= a.maxAge /\ a.maxAge <= 120
          /\ \A k \in DOMAIN a.personality : a.personality[k] \in 1..5

(* Generate refuses people who are not in exactly two groups.              *)
TwoGroups(people) == Cardinality({a.group : a \in people}) = 2
=============================================================================
