----------------------------- MODULE Matchmaking -----------------------------
(***************************************************************************)
(* The matchmaking service for one event: administrators generate, review, *)
(* override, lock and publish runs; the members of a published pair answer *)
(* whether they are interested, and, when both are, decide whether to      *)
(* reveal themselves.                                                      *)
(*                                                                         *)
(* Commands on a run lock its row and are one step.  Commands of a member  *)
(* lock a key made of the match and that member, so the two members of a   *)
(* match run side by side, at READ COMMITTED: an answer is two steps, one  *)
(* that inserts it and counts the answers it can see, and the commit that  *)
(* lets others see it.                                                     *)
(***************************************************************************)
EXTENDS Naturals, FiniteSets, Sequences

CONSTANTS
    Left, Right,    \* the members of the two groups of the event
    RunId,          \* the UUIDs the service may draw
    Key,            \* Idempotency-Key values of generation requests
    OverrideKey,    \* of overrides
    AnswerKey,      \* of members answering
    ConsentKey,     \* of members deciding
    FeedbackKey,    \* of members giving feedback
    Policy          \* policy versions of a reveal decision

ASSUME MatchmakingAssumption ==
    /\ IsFiniteSet(Left) /\ IsFiniteSet(Right)
    /\ Left \cap Right = {}

Member == Left \cup Right
Pair == {{a, b} : a \in Left, b \in Right}
MatchSide == {s \in Pair \X Member : s[2] \in s[1]}

VARIABLES
    rating,      \* participant_projection: what the engine would say now
    run,         \* tables matching_run, candidate and pairing_selection
    overrides,   \* table pairing_override
    locked,      \* tables locked_pairing and locked_participant
    answer,      \* table match_response, with the open transactions
    consents,    \* table reveal_consent_history, per match and member
    consent,     \* table reveal_consent
    feedback,    \* table match_feedback
    facts,       \* table outbox, the facts about each match
    raced        \* history: matches whose answers were counted side by side

runVars == <<run, overrides, locked>>
memberVars == <<answer, consents, consent, feedback, facts, raced>>
vars == <<rating, runVars, memberVars>>

-----------------------------------------------------------------------------
(* Types *)

(* A pair is refused by a hard rule, below the minimum score, or fit.      *)
Rating == {"refused", "weak", "fit"}
Status == {"GENERATED", "UNDER_REVIEW", "LOCKED", "PUBLISHED"}

NoRun == [status |-> "NONE"]
RunRow == [status: Status, version: Nat \ {0}, key: Key,
           candidates: SUBSET Pair, selected: SUBSET Pair]

NoAnswer == [state |-> "NONE"]
AnswerRow == [state: {"OPEN", "RECORDED"}, response: {"INTERESTED", "PASS"},
              key: AnswerKey, mutual: BOOLEAN]

Decision == [decision: {"GRANTED", "REVOKED"}, policy: Policy]
NoDecision == [decision |-> "NONE"]
ConsentRow == [decision: {"GRANTED", "REVOKED"}, policy: Policy, key: ConsentKey]

(* The facts of a match; the answers and feedback are told too, in facts   *)
(* that nobody's state depends on.                                         *)
MatchFact == [type: {"MutualInterestEstablished"}] \cup
             [type: {"RevealConsentGranted", "RevealConsentRevoked"},
              member: Member, policy: Policy]

TypeOK ==
    /\ rating \in [Pair -> Rating]
    /\ run \in [RunId -> RunRow \cup {NoRun}]
    /\ overrides \subseteq [run: RunId, key: OverrideKey]
    /\ locked \subseteq [run: RunId, pair: Pair]
    /\ answer \in [MatchSide -> AnswerRow \cup {NoAnswer}]
    /\ consents \in [MatchSide -> Seq(ConsentRow)]
    /\ consent \in [MatchSide -> Decision \cup {NoDecision}]
    /\ feedback \subseteq [side: MatchSide, key: FeedbackKey]
    /\ facts \in [Pair -> Seq(MatchFact)]
    /\ raced \subseteq Pair

-----------------------------------------------------------------------------
(* Queries *)

Exists(r) == run[r] # NoRun
Disjoint(S) == \A p, q \in S : p = q \/ p \cap q = {}

(* What the engine may suggest: as many pairs as can be formed.            *)
Matchings(S) == {M \in SUBSET S : Disjoint(M)}
Suggestions(S) ==
    {M \in Matchings(S) : \A N \in Matchings(S) :
        Cardinality(N) <= Cardinality(M)}

Fit == {p \in Pair : rating[p] = "fit"}

(* The two people of a pair are not both free among the pairs S.           *)
Taken(p, S) == \E q \in S : q \cap p # {}

LockedPairs == {x.pair : x \in locked}
PublishedPairs == {x.pair : x \in {y \in locked : run[y.run].status = "PUBLISHED"}}

(* A match that its members may see and act on.                            *)
Open(s) == s[1] \in PublishedPairs

Recorded(s) == answer[s].state = "RECORDED"
Interested(s) == Recorded(s) /\ answer[s].response = "INTERESTED"
Mutual(p) == \A m \in p : Interested(<<p, m>>)
Other(s) == <<s[1], CHOOSE m \in s[1] : m # s[2]>>

Init ==
    /\ rating \in [Pair -> Rating]
    /\ run = [r \in RunId |-> NoRun]
    /\ overrides = {}
    /\ locked = {}
    /\ answer = [s \in MatchSide |-> NoAnswer]
    /\ consents = [s \in MatchSide |-> <<>>]
    /\ consent = [s \in MatchSide |-> NoDecision]
    /\ feedback = {}
    /\ facts = [p \in Pair |-> <<>>]
    /\ raced = {}

-----------------------------------------------------------------------------
(* Participants' projections follow facts of other services; nothing in    *)
(* the service but its seed command writes them.                           *)
Reproject(p, x) ==
    /\ rating[p] # x
    /\ rating' = [rating EXCEPT ![p] = x]
    /\ UNCHANGED <<runVars, memberVars>>

-----------------------------------------------------------------------------
(* POST /api/v1/events/{id}/matching-runs.  The key is looked up before    *)
(* the event's advisory lock is taken; the unique constraint on event and  *)
(* key repeats the lookup, so that one guard stands for both.              *)
KeyUsed(k) == \E r \in RunId : Exists(r) /\ run[r].key = k

Generate(r, k, M) ==
    /\ ~Exists(r)
    /\ ~KeyUsed(k)
    /\ M \in Suggestions(Fit)
    /\ run' = [run EXCEPT ![r] =
           [status |-> "GENERATED", version |-> 1, key |-> k,
            candidates |-> Fit, selected |-> M]]
    /\ UNCHANGED <<rating, overrides, locked, memberVars>>

(* POST .../review and .../publish.  The version the client expects is the *)
(* current one, or the command is refused; a run that is already there is  *)
(* answered without a write.                                               *)
Transition(r, from, to) ==
    /\ run[r].status = from
    /\ run' = [run EXCEPT ![r].status = to, ![r].version = @ + 1]
    /\ UNCHANGED <<rating, overrides, locked, memberVars>>

Review(r) == Transition(r, "GENERATED", "UNDER_REVIEW")
Publish(r) == Transition(r, "LOCKED", "PUBLISHED")

(* Mutant: an override leaves the version alone. *)
OverriddenSilently(r, S) == [run[r] EXCEPT !.selected = S]

Overridden(r, S) == [run[r] EXCEPT !.selected = S, !.version = @ + 1]

(* POST .../overrides: at most one selection is removed, and a candidate   *)
(* of the run takes its place.                                             *)
Override(r, removed, p, k) ==
    /\ run[r].status = "UNDER_REVIEW"
    /\ [run |-> r, key |-> k] \notin overrides
    /\ p \in run[r].candidates
    /\ removed \subseteq run[r].selected /\ Cardinality(removed) <= 1
    /\ ~Taken(p, run[r].selected \ removed)
    /\ run' = [run EXCEPT ![r] =
           Overridden(r, (run[r].selected \ removed) \cup {p})]
    /\ overrides' = overrides \cup {[run |-> r, key |-> k]}
    /\ UNCHANGED <<rating, locked, memberVars>>

(* Mutant: locked_participant has no unique constraint. *)
AnyoneLocked(S) == FALSE

(* Somebody of these pairs is locked for the event already.                *)
SomeoneLocked(S) == \E p \in S : Taken(p, LockedPairs)

(* POST .../lock: the selections become pairings for good, if the hard     *)
(* rules still accept each of them; the minimum score is not looked at     *)
(* again.                                                                  *)
Lock(r) ==
    LET S == run[r].selected IN
    /\ run[r].status = "UNDER_REVIEW"
    /\ S # {}
    /\ \A p \in S : rating[p] # "refused"
    /\ ~SomeoneLocked(S)
    /\ run' = [run EXCEPT ![r].status = "LOCKED", ![r].version = @ + 1]
    /\ locked' = locked \cup {[run |-> r, pair |-> p] : p \in S}
    /\ UNCHANGED <<rating, overrides, memberVars>>

-----------------------------------------------------------------------------
(* POST /api/v1/matches/{id}/response, the transaction up to its commit:   *)
(* the answer is inserted, and the answers in sight are counted.           *)
Uses(k) == \E s \in MatchSide : answer[s] # NoAnswer /\ answer[s].key = k

(* Mutant: every answer of the other side counts. *)
CountsAny(s, response) == response = "INTERESTED" /\ Recorded(Other(s))

CountsTwo(s, response) == response = "INTERESTED" /\ Interested(Other(s))

Respond(s, response, k) ==
    /\ Open(s)
    /\ answer[s] = NoAnswer
    /\ ~Uses(k)
    /\ answer' = [answer EXCEPT ![s] =
           [state |-> "OPEN", response |-> response, key |-> k,
            mutual |-> CountsTwo(s, response)]]
    /\ raced' = IF answer[Other(s)].state = "OPEN"
                  THEN raced \cup {s[1]} ELSE raced
    /\ UNCHANGED <<rating, runVars, consents, consent, feedback, facts>>

(* Its commit, with the facts it wrote.  A service that dies before leaves *)
(* no trace of it.                                                         *)
Answered(s) ==
    /\ answer[s].state = "OPEN"
    /\ answer' = [answer EXCEPT ![s].state = "RECORDED"]
    /\ facts' = IF answer[s].mutual
                  THEN [facts EXCEPT ![s[1]] =
                           Append(@, [type |-> "MutualInterestEstablished"])]
                  ELSE facts
    /\ UNCHANGED <<rating, runVars, consents, consent, feedback, raced>>

Lost(s) ==
    /\ answer[s].state = "OPEN"
    /\ answer' = [answer EXCEPT ![s] = NoAnswer]
    /\ raced' = raced \ {s[1]}
    /\ UNCHANGED <<rating, runVars, consents, consent, feedback, facts>>

-----------------------------------------------------------------------------
(* POST /api/v1/matches/{id}/reveal-consent.                               *)

(* Mutant: the answers are not looked at. *)
MayRevealUnasked(s) == Open(s)

MayReveal(s) == Open(s) /\ Mutual(s[1])
Decided(k) ==
    \E s \in MatchSide : \E j \in DOMAIN consents[s] : consents[s][j].key = k

ConsentFact(s, d) ==
    [type |-> IF d.decision = "GRANTED" THEN "RevealConsentGranted"
                                        ELSE "RevealConsentRevoked",
     member |-> s[2], policy |-> d.policy]

(* Mutant: a decision under the policy already decided on is a repetition. *)
RepeatsPolicy(s, d) == consent[s] # NoDecision /\ consent[s].policy = d.policy

RepeatsCurrent(s, d) == consent[s] = d

(* Every decision under a new key goes into the history; one that repeats  *)
(* the current one goes no further.                                        *)
Consent(s, d, k) ==
    /\ MayReveal(s)
    /\ ~Decided(k)
    /\ consents' = [consents EXCEPT ![s] = Append(@,
           [decision |-> d.decision, policy |-> d.policy, key |-> k])]
    /\ IF RepeatsCurrent(s, d)
         THEN UNCHANGED <<consent, facts>>
         ELSE /\ consent' = [consent EXCEPT ![s] = d]
              /\ facts' = [facts EXCEPT ![s[1]] = Append(@, ConsentFact(s, d))]
    /\ UNCHANGED <<rating, runVars, answer, feedback, raced>>

(* POST /api/v1/matches/{id}/feedback, once per member and match.          *)
Feedback(s, k) ==
    /\ Open(s)
    /\ \A f \in feedback : f.side # s /\ f.key # k
    /\ feedback' = feedback \cup {[side |-> s, key |-> k]}
    /\ UNCHANGED <<rating, runVars, answer, consents, consent, facts, raced>>

-----------------------------------------------------------------------------
RunStep ==
    \/ \E r \in RunId, k \in Key : \E M \in Suggestions(Fit) : Generate(r, k, M)
    \/ \E r \in RunId : Review(r) \/ Lock(r) \/ Publish(r)
    \/ \E r \in RunId, p \in Pair, k \in OverrideKey :
          \E R \in SUBSET Pair : Override(r, R, p, k)

MemberStep ==
    \E s \in MatchSide :
        \/ \E x \in {"INTERESTED", "PASS"}, k \in AnswerKey : Respond(s, x, k)
        \/ Answered(s)
        \/ Lost(s)
        \/ \E d \in Decision, k \in ConsentKey : Consent(s, d, k)
        \/ \E k \in FeedbackKey : Feedback(s, k)

Next ==
    \/ RunStep
    \/ MemberStep
    \/ \E p \in Pair, x \in Rating : Reproject(p, x)

Spec == Init /\ [][Next]_vars

-----------------------------------------------------------------------------
(* Properties *)

(* "Enforces one pairing per event participant/round": whatever runs were  *)
(* generated and overridden side by side, nobody is locked into two        *)
(* matches, nor selected twice in a run, and whoever is locked together    *)
(* was a candidate of the run when it was generated.                       *)
PairsAreExclusive ==
    /\ Disjoint(LockedPairs)
    /\ \A x, y \in locked : x.pair = y.pair => x = y
    /\ \A r \in RunId : Exists(r) => Disjoint(run[r].selected)
    /\ \A x \in locked : x.pair \in run[x.run].candidates

(* The version an administrator has read identifies what he has read:      *)
(* selections change only under a new version, and a run that is locked    *)
(* keeps what was selected, which is what its members are shown.           *)
ReviewedIsLocked ==
    [][/\ \A r \in RunId : Exists(r) /\ run'[r] # run[r] =>
             /\ run'[r].version > run[r].version
             /\ run[r].status \in {"LOCKED", "PUBLISHED"} =>
                   /\ run'[r].selected = run[r].selected
                   /\ run'[r].status = "PUBLISHED"
       /\ locked \subseteq locked'
       /\ \A x \in locked' \ locked : /\ x.pair \in run[x.run].selected
                                      /\ rating[x.pair] # "refused"]_vars

(* What a pair is shown of each other: both have agreed to reveal only if  *)
(* both are interested, and the latest decision of each, not an earlier    *)
(* one, is to reveal.                                                      *)
LastOf(seq) == seq[Len(seq)]
BothReveal(p) == \A m \in p : consent[<<p, m>>].decision = "GRANTED"

RevealIsAgreed ==
    /\ \A p \in Pair : BothReveal(p) => Mutual(p)
    /\ \A s \in MatchSide :
          IF consents[s] = <<>>
            THEN consent[s] = NoDecision
            ELSE /\ consent[s].decision = LastOf(consents[s]).decision
                 /\ consent[s].policy = LastOf(consents[s]).policy

(* Mutual interest is told at most once and only when it is there; and     *)
(* when it is there it has been told, but for the two answers that were    *)
(* given side by side, when neither transaction sees the other's and both  *)
(* commit.                                                                 *)
ToldMutual(p) ==
    {i \in DOMAIN facts[p] : facts[p][i].type = "MutualInterestEstablished"}
MutualInterestIsTold ==
    \A p \in Pair :
        /\ \A i, j \in ToldMutual(p) : i = j
        /\ ToldMutual(p) # {} => Mutual(p)
        /\ Mutual(p) => (ToldMutual(p) # {} <=> p \notin raced)
=============================================================================
