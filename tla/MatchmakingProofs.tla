--------------------------- MODULE MatchmakingProofs ---------------------------
(***************************************************************************)
(* What TLAPS proves of Matchmaking, for any two groups of members, any    *)
(* number of runs and any keys.                                            *)
(***************************************************************************)
EXTENDS Matchmaking, SequenceTheorems, TLAPS

-----------------------------------------------------------------------------
(* The inductive invariant *)

(* What is selected was a candidate, and what is locked was selected by a  *)
(* run that is settled.                                                    *)
SoundRuns ==
    /\ \A r \in RunId : Exists(r) => run[r].selected \subseteq run[r].candidates
    /\ \A x \in locked :
          /\ Exists(x.run)
          /\ run[x.run].status \in {"LOCKED", "PUBLISHED"}
          /\ x.pair \in run[x.run].selected

(* Nobody decides before both are interested. *)
DecidedAreMutual ==
    \A s \in MatchSide : consent[s] # NoDecision => Mutual(s[1])

RunInv == TypeOK /\ SoundRuns /\ PairsAreExclusive

MatchInv == RunInv /\ DecidedAreMutual /\ RevealIsAgreed

-----------------------------------------------------------------------------
(* Pairs and their sides *)

LEMMA PairNonempty ==
    ASSUME NEW p \in Pair
    PROVE  \E m \in Member : m \in p /\ <<p, m>> \in MatchSide
<1>1. PICK a \in Left, b \in Right : p = {a, b}
  BY DEF Pair
<1> QED
  BY <1>1 DEF MatchSide, Member

LEMMA SideTypes ==
    ASSUME NEW s \in MatchSide
    PROVE  s[1] \in Pair /\ s[2] \in s[1] /\ s[2] \in Member /\ s = <<s[1], s[2]>>
BY DEF MatchSide

LEMMA SidesOfPair ==
    ASSUME NEW p \in Pair, NEW m \in p
    PROVE  <<p, m>> \in MatchSide
<1>1. PICK a \in Left, b \in Right : p = {a, b}
  BY DEF Pair
<1> QED
  BY <1>1 DEF MatchSide, Member

(* Rows that are there have their columns. *)
LEMMA RunTypes ==
    ASSUME TypeOK
    PROVE  /\ \A r \in RunId : Exists(r) => run[r] \in RunRow
           /\ NoRun.status = "NONE"
           /\ \A r \in RunId : run[r].status \in Status => Exists(r)
           /\ NoRun \notin RunRow
BY DEF TypeOK, Exists, NoRun, RunRow, Status

(* A run that moves on has a row under the next version. *)
LEMMA RunRowStep ==
    ASSUME NEW row \in RunRow, NEW to \in Status, NEW S \in SUBSET Pair
    PROVE  /\ [row EXCEPT !.status = to, !.version = row.version + 1] \in RunRow
           /\ [row EXCEPT !.selected = S, !.version = row.version + 1] \in RunRow
           /\ row.version + 1 > row.version
<1>1. row.version \in Nat
  BY DEF RunRow
<1>2. row.version + 1 \in Nat \ {0} /\ row.version + 1 > row.version
  BY <1>1
<1>3. \A n \in Nat \ {0} : /\ [row EXCEPT !.status = to, !.version = n] \in RunRow
                           /\ [row EXCEPT !.selected = S, !.version = n] \in RunRow
  BY DEF RunRow
<1> QED
  BY <1>2, <1>3

-----------------------------------------------------------------------------
(* Types *)

(* Which of the tables of runs a step of a member touches: none. *)
LEMMA MemberLeavesRuns ==
    ASSUME MemberStep
    PROVE  UNCHANGED <<rating, runVars>>
BY DEF MemberStep, Respond, Answered, Lost, Consent, Feedback

LEMMA RunLeavesMembers ==
    ASSUME RunStep
    PROVE  UNCHANGED <<rating, memberVars>>
BY DEF RunStep, Generate, Review, Publish, Transition, Lock, Override

LEMMA RunTypeStep ==
    ASSUME RunInv, RunStep
    PROVE  /\ run' \in [RunId -> RunRow \cup {NoRun}]
           /\ overrides' \subseteq [run: RunId, key: OverrideKey]
           /\ locked' \subseteq [run: RunId, pair: Pair]
<1> USE DEF RunInv
<1>1. ASSUME NEW r \in RunId, NEW k \in Key, NEW M \in Suggestions(Fit), Generate(r, k, M)
      PROVE  run' \in [RunId -> RunRow \cup {NoRun}] /\ UNCHANGED <<overrides, locked>>
  <2>1. Fit \subseteq Pair /\ M \subseteq Pair
    BY DEF Fit, Suggestions, Matchings
  <2>2. [status |-> "GENERATED", version |-> 1, key |-> k,
         candidates |-> Fit, selected |-> M] \in RunRow
    BY <2>1 DEF RunRow, Status
  <2> QED
    BY <1>1, <2>2 DEF Generate, TypeOK
<1>2. ASSUME NEW r \in RunId, NEW from \in Status, NEW to \in Status, Transition(r, from, to)
      PROVE  run' \in [RunId -> RunRow \cup {NoRun}] /\ UNCHANGED <<overrides, locked>>
  <2>1. run[r] \in RunRow
    BY <1>2, RunTypes DEF Transition
  <2>2. [run[r] EXCEPT !.status = to, !.version = run[r].version + 1] \in RunRow
    BY <2>1, RunRowStep DEF RunRow
  <2> QED
    BY <1>2, <2>2 DEF Transition, TypeOK
<1>3. ASSUME NEW r \in RunId, NEW p \in Pair, NEW k \in OverrideKey, NEW R \in SUBSET Pair,
             Override(r, R, p, k)
      PROVE  /\ run' \in [RunId -> RunRow \cup {NoRun}]
             /\ overrides' \subseteq [run: RunId, key: OverrideKey]
             /\ UNCHANGED locked
  <2>1. run[r] \in RunRow
    BY <1>3, RunTypes DEF Override, Status
  <2>2. [run[r] EXCEPT !.selected = (run[r].selected \ R) \cup {p},
                       !.version = run[r].version + 1] \in RunRow
    BY <2>1, RunRowStep DEF RunRow
  <2>3. Overridden(r, (run[r].selected \ R) \cup {p}) \in RunRow
    BY <2>2 DEF Overridden
  <2> QED
    BY <1>3, <2>3 DEF Override, TypeOK
<1>4. ASSUME NEW r \in RunId, Lock(r)
      PROVE  /\ run' \in [RunId -> RunRow \cup {NoRun}]
             /\ locked' \subseteq [run: RunId, pair: Pair]
             /\ UNCHANGED overrides
  <2>1. run[r] \in RunRow
    BY <1>4, RunTypes DEF Lock, Status
  <2>2. [run[r] EXCEPT !.status = "LOCKED", !.version = run[r].version + 1] \in RunRow
    BY <2>1, RunRowStep DEF Status
  <2>3. run[r].selected \subseteq Pair
    BY <2>1 DEF RunRow
  <2> QED
    BY <1>4, <2>2, <2>3 DEF Lock, TypeOK
<1> QED
  BY <1>1, <1>2, <1>3, <1>4 DEF RunStep, Review, Publish, Status, TypeOK

LEMMA MemberTypeStep ==
    ASSUME TypeOK, MemberStep
    PROVE  /\ answer' \in [MatchSide -> AnswerRow \cup {NoAnswer}]
           /\ consents' \in [MatchSide -> Seq(ConsentRow)]
           /\ consent' \in [MatchSide -> Decision \cup {NoDecision}]
           /\ feedback' \subseteq [side: MatchSide, key: FeedbackKey]
           /\ facts' \in [Pair -> Seq(MatchFact)]
           /\ raced' \subseteq Pair
<1> PICK s \in MatchSide :
        \/ \E x \in {"INTERESTED", "PASS"}, k \in AnswerKey : Respond(s, x, k)
        \/ Answered(s)
        \/ Lost(s)
        \/ \E d \in Decision, k \in ConsentKey : Consent(s, d, k)
        \/ \E k \in FeedbackKey : Feedback(s, k)
  BY DEF MemberStep
<1> DEFINE Goal ==
           /\ answer' \in [MatchSide -> AnswerRow \cup {NoAnswer}]
           /\ consents' \in [MatchSide -> Seq(ConsentRow)]
           /\ consent' \in [MatchSide -> Decision \cup {NoDecision}]
           /\ feedback' \subseteq [side: MatchSide, key: FeedbackKey]
           /\ facts' \in [Pair -> Seq(MatchFact)]
           /\ raced' \subseteq Pair
<1>0. s[1] \in Pair /\ s[2] \in Member
  BY SideTypes
<1>1. ASSUME NEW x \in {"INTERESTED", "PASS"}, NEW k \in AnswerKey, Respond(s, x, k)
      PROVE  Goal
  <2>1. CountsTwo(s, x) \in BOOLEAN
    BY DEF CountsTwo, Interested
  <2>2. [state |-> "OPEN", response |-> x, key |-> k, mutual |-> CountsTwo(s, x)] \in AnswerRow
    BY <2>1 DEF AnswerRow
  <2>3. answer' \in [MatchSide -> AnswerRow \cup {NoAnswer}]
    BY <1>1, <2>2 DEF Respond, TypeOK
  <2>4. raced' \subseteq Pair
    BY <1>0, <1>1 DEF Respond, TypeOK
  <2> QED
    BY <1>1, <2>3, <2>4 DEF Respond, TypeOK
<1>2. ASSUME Answered(s)
      PROVE  Goal
  <2>1. answer[s] \in AnswerRow
    BY <1>2 DEF Answered, TypeOK, NoAnswer
  <2>2. [answer[s] EXCEPT !.state = "RECORDED"] \in AnswerRow
    BY <2>1 DEF AnswerRow
  <2>3. answer' \in [MatchSide -> AnswerRow \cup {NoAnswer}]
    BY <1>2, <2>2 DEF Answered, TypeOK
  <2>4. Append(facts[s[1]], [type |-> "MutualInterestEstablished"]) \in Seq(MatchFact)
    BY <1>0 DEF TypeOK, MatchFact
  <2>5. facts' \in [Pair -> Seq(MatchFact)]
    BY <1>0, <1>2, <2>4 DEF Answered, TypeOK
  <2> QED
    BY <1>2, <2>3, <2>5 DEF Answered, TypeOK
<1>3. ASSUME Lost(s)
      PROVE  Goal
  BY <1>3 DEF Lost, TypeOK
<1>4. ASSUME NEW d \in Decision, NEW k \in ConsentKey, Consent(s, d, k)
      PROVE  Goal
  <2>1. [decision |-> d.decision, policy |-> d.policy, key |-> k] \in ConsentRow
    BY DEF Decision, ConsentRow
  <2>2. consents' \in [MatchSide -> Seq(ConsentRow)]
    BY <1>4, <2>1 DEF Consent, TypeOK
  <2>3. consent' \in [MatchSide -> Decision \cup {NoDecision}]
    BY <1>4 DEF Consent, TypeOK
  <2>4. ConsentFact(s, d) \in MatchFact
    BY <1>0 DEF ConsentFact, MatchFact, Decision
  <2>5. facts' \in [Pair -> Seq(MatchFact)]
    <3>1. Append(facts[s[1]], ConsentFact(s, d)) \in Seq(MatchFact)
      BY <1>0, <2>4 DEF TypeOK
    <3>2. \/ UNCHANGED facts
          \/ facts' = [facts EXCEPT ![s[1]] = Append(facts[s[1]], ConsentFact(s, d))]
      BY <1>4 DEF Consent
    <3> QED
      BY <3>1, <3>2 DEF TypeOK
  <2> QED
    BY <1>4, <2>2, <2>3, <2>5 DEF Consent, TypeOK
<1>5. ASSUME NEW k \in FeedbackKey, Feedback(s, k)
      PROVE  Goal
  BY <1>5 DEF Feedback, TypeOK
<1> QED
  BY <1>1, <1>2, <1>3, <1>4, <1>5

LEMMA TypeStep == MatchInv /\ [Next]_vars => TypeOK'
<1> SUFFICES ASSUME MatchInv, [Next]_vars PROVE TypeOK'
  OBVIOUS
<1>1. ASSUME RunStep PROVE TypeOK'
  BY <1>1, RunTypeStep, RunLeavesMembers DEF MatchInv, RunInv, TypeOK, memberVars
<1>2. ASSUME MemberStep PROVE TypeOK'
  BY <1>2, MemberTypeStep, MemberLeavesRuns DEF MatchInv, RunInv, TypeOK, runVars
<1>3. ASSUME NEW p \in Pair, NEW x \in Rating, Reproject(p, x) PROVE TypeOK'
  BY <1>3 DEF Reproject, MatchInv, RunInv, TypeOK, runVars, memberVars
<1>4. ASSUME UNCHANGED vars PROVE TypeOK'
  BY <1>4 DEF vars, MatchInv, RunInv, TypeOK, runVars, memberVars
<1> QED
  BY <1>1, <1>2, <1>3, <1>4 DEF Next

-----------------------------------------------------------------------------
(* Runs *)

(* What a step on runs does to one run that is there: nothing, or it gets  *)
(* the next version, and, once it is locked, only its status changes.      *)
Progress(r) ==
    \/ run'[r] = run[r]
    \/ /\ run'[r].version > run[r].version
       /\ run[r].status \in {"LOCKED", "PUBLISHED"} =>
             /\ run'[r].selected = run[r].selected
             /\ run'[r].status = "PUBLISHED"

LEMMA TransitionProgress ==
    ASSUME RunInv, NEW r \in RunId,
           NEW from \in {"GENERATED", "LOCKED"}, NEW to \in {"UNDER_REVIEW", "PUBLISHED"},
           from = "LOCKED" <=> to = "PUBLISHED",
           Transition(r, from, to)
    PROVE  /\ Exists(r) /\ run'[r] # NoRun
           /\ \A q \in RunId : q # r => run'[q] = run[q]
           /\ run'[r].selected = run[r].selected
           /\ run'[r].candidates = run[r].candidates
           /\ run'[r].status = to
           /\ Progress(r)
<1>1. Exists(r) /\ run[r] \in RunRow /\ run[r].status = from
  BY RunTypes DEF Transition, Status, RunInv
<1>2. /\ [run[r] EXCEPT !.status = to, !.version = run[r].version + 1] \in RunRow
      /\ run[r].version + 1 > run[r].version
  BY <1>1, RunRowStep DEF Status
<1>3. /\ run'[r] = [run[r] EXCEPT !.status = to, !.version = run[r].version + 1]
      /\ \A q \in RunId : q # r => run'[q] = run[q]
  BY DEF Transition, RunInv, TypeOK
<1>4. /\ run'[r].selected = run[r].selected
      /\ run'[r].candidates = run[r].candidates
      /\ run'[r].status = to
      /\ run'[r].version = run[r].version + 1
  BY <1>1, <1>3 DEF RunRow
<1>5. run'[r] # NoRun
  BY <1>2, <1>3, RunTypes DEF RunInv
<1> QED
  BY <1>1, <1>2, <1>3, <1>4, <1>5 DEF Progress

LEMMA OverrideProgress ==
    ASSUME RunInv, NEW r \in RunId, NEW p \in Pair, NEW k \in OverrideKey,
           NEW R \in SUBSET Pair, Override(r, R, p, k)
    PROVE  /\ Exists(r) /\ run'[r] # NoRun /\ run[r].status = "UNDER_REVIEW"
           /\ \A q \in RunId : q # r => run'[q] = run[q]
           /\ run'[r].selected = (run[r].selected \ R) \cup {p}
           /\ run'[r].candidates = run[r].candidates
           /\ Progress(r)
<1> DEFINE S == (run[r].selected \ R) \cup {p}
<1>1. Exists(r) /\ run[r] \in RunRow /\ run[r].status = "UNDER_REVIEW"
  BY RunTypes DEF Override, Status, RunInv
<1>2. /\ [run[r] EXCEPT !.selected = S, !.version = run[r].version + 1] \in RunRow
      /\ run[r].version + 1 > run[r].version
  <2>1. S \in SUBSET Pair
    BY <1>1 DEF RunRow
  <2> QED
    BY <1>1, <2>1, RunRowStep DEF Status
<1>3. /\ run'[r] = [run[r] EXCEPT !.selected = S, !.version = run[r].version + 1]
      /\ \A q \in RunId : q # r => run'[q] = run[q]
  BY DEF Override, Overridden, RunInv, TypeOK
<1> HIDE DEF S
<1>4. /\ run'[r].selected = S
      /\ run'[r].candidates = run[r].candidates
      /\ run'[r].version = run[r].version + 1
  BY <1>1, <1>3 DEF RunRow
<1>5. run'[r] # NoRun
  BY <1>2, <1>3, RunTypes DEF RunInv
<1> QED
  BY <1>1, <1>2, <1>3, <1>4, <1>5 DEF Progress, S

LEMMA LockProgress ==
    ASSUME RunInv, NEW r \in RunId, Lock(r)
    PROVE  /\ Exists(r) /\ run'[r] # NoRun /\ run[r].status = "UNDER_REVIEW"
           /\ \A q \in RunId : q # r => run'[q] = run[q]
           /\ run'[r].selected = run[r].selected
           /\ run'[r].candidates = run[r].candidates
           /\ run'[r].status = "LOCKED"
           /\ Progress(r)
<1>1. Exists(r) /\ run[r] \in RunRow /\ run[r].status = "UNDER_REVIEW"
  BY RunTypes DEF Lock, Status, RunInv
<1>2. /\ [run[r] EXCEPT !.status = "LOCKED", !.version = run[r].version + 1] \in RunRow
      /\ run[r].version + 1 > run[r].version
  BY <1>1, RunRowStep DEF Status
<1>3. /\ run'[r] = [run[r] EXCEPT !.status = "LOCKED", !.version = run[r].version + 1]
      /\ \A q \in RunId : q # r => run'[q] = run[q]
  BY DEF Lock, RunInv, TypeOK
<1>4. /\ run'[r].selected = run[r].selected
      /\ run'[r].candidates = run[r].candidates
      /\ run'[r].status = "LOCKED"
      /\ run'[r].version = run[r].version + 1
  BY <1>1, <1>3 DEF RunRow
<1>5. run'[r] # NoRun
  BY <1>2, <1>3, RunTypes DEF RunInv
<1> QED
  BY <1>1, <1>2, <1>3, <1>4, <1>5 DEF Progress

LEMMA GenerateProgress ==
    ASSUME RunInv, NEW r \in RunId, NEW k \in Key, NEW M \in Suggestions(Fit),
           Generate(r, k, M)
    PROVE  /\ ~Exists(r) /\ run'[r] # NoRun
           /\ \A q \in RunId : q # r => run'[q] = run[q]
           /\ run'[r].selected = M /\ run'[r].candidates = Fit
           /\ M \subseteq Fit /\ Disjoint(M)
<1>1. run'[r] = [status |-> "GENERATED", version |-> 1, key |-> k,
                 candidates |-> Fit, selected |-> M]
  BY DEF Generate, RunInv, TypeOK
<1>2. run'[r] # NoRun
  BY <1>1 DEF NoRun
<1>3. \A q \in RunId : q # r => run'[q] = run[q]
  BY DEF Generate, RunInv, TypeOK
<1> QED
  BY <1>1, <1>2, <1>3 DEF Generate, Suggestions, Matchings

(* Runs that nobody selects in twice stay so, whatever happens to one.     *)
LEMMA RunsStep ==
    ASSUME RunInv, RunStep
    PROVE  /\ \A r \in RunId : Exists(r)' =>
                  /\ run'[r].selected \subseteq run'[r].candidates
                  /\ Disjoint(run'[r].selected)
           /\ \A r \in RunId : Exists(r) =>
                  /\ Exists(r)'
                  /\ Progress(r)
                  /\ run'[r].candidates = run[r].candidates
                  /\ run[r].status \in {"LOCKED", "PUBLISHED"} =>
                        /\ run'[r].status \in {"LOCKED", "PUBLISHED"}
                        /\ run'[r].selected = run[r].selected
<1> DEFINE Good(r) == /\ run'[r].selected \subseteq run'[r].candidates
                      /\ Disjoint(run'[r].selected)
           Kept(r) == /\ run'[r] # NoRun
                      /\ Progress(r)
                      /\ run'[r].candidates = run[r].candidates
                      /\ run[r].status \in {"LOCKED", "PUBLISHED"} =>
                            /\ run'[r].status \in {"LOCKED", "PUBLISHED"}
                            /\ run'[r].selected = run[r].selected
<1>1. \A r \in RunId : Exists(r) => /\ run[r].selected \subseteq run[r].candidates
                                    /\ Disjoint(run[r].selected)
  BY DEF RunInv, SoundRuns, PairsAreExclusive
<1>2. \A r \in RunId : run'[r] = run[r] /\ Exists(r) => Good(r) /\ Kept(r)
  BY <1>1 DEF Exists, Progress
<1>3. \A r \in RunId : run'[r] = run[r] => (run'[r] # NoRun <=> Exists(r))
  BY DEF Exists
<1>4. ASSUME NEW r \in RunId, NEW k \in Key, NEW M \in Suggestions(Fit), Generate(r, k, M)
      PROVE  Good(r) /\ ~Exists(r) /\ \A q \in RunId : q # r => run'[q] = run[q]
  BY <1>4, GenerateProgress
<1>5. ASSUME NEW r \in RunId, Review(r) \/ Publish(r)
      PROVE  Good(r) /\ Kept(r) /\ \A q \in RunId : q # r => run'[q] = run[q]
  <2>1. CASE Review(r)
    <3>1. run[r].status = "GENERATED"
      BY <2>1 DEF Review, Transition
    <3> QED
      BY <1>1, <2>1, <3>1, TransitionProgress DEF Review
  <2>2. CASE Publish(r)
    BY <1>1, <2>2, TransitionProgress DEF Publish
  <2> QED
    BY <1>5, <2>1, <2>2
<1>6. ASSUME NEW r \in RunId, Lock(r)
      PROVE  Good(r) /\ Kept(r) /\ \A q \in RunId : q # r => run'[q] = run[q]
  BY <1>1, <1>6, LockProgress
<1>7. ASSUME NEW r \in RunId, NEW p \in Pair, NEW k \in OverrideKey, NEW R \in SUBSET Pair,
             Override(r, R, p, k)
      PROVE  Good(r) /\ Kept(r) /\ \A q \in RunId : q # r => run'[q] = run[q]
  <2>1. /\ Exists(r) /\ run'[r].selected = (run[r].selected \ R) \cup {p}
        /\ run'[r].candidates = run[r].candidates
    BY <1>7, OverrideProgress
  <2>2. p \in run[r].candidates /\ \A q \in run[r].selected \ R : q \cap p = {}
    BY <1>7 DEF Override, Taken
  <2>3. Good(r)
    BY <1>1, <2>1, <2>2 DEF Disjoint
  <2> QED
    BY <1>7, <2>3, OverrideProgress
<1> HIDE DEF Good, Kept
<1>8. \A r \in RunId : /\ run'[r] # NoRun => Good(r)
                       /\ Exists(r) => Kept(r)
  BY <1>2, <1>3, <1>4, <1>5, <1>6, <1>7 DEF RunStep
<1>9. \A r \in RunId : Exists(r)' <=> run'[r] # NoRun
  BY DEF Exists
<1> QED
  BY <1>8, <1>9 DEF Good, Kept

(* What is locked in a step was selected by the run that is locked, and    *)
(* nobody in it was locked before.                                         *)
LEMMA LockedStep ==
    ASSUME RunInv, RunStep
    PROVE  /\ locked \subseteq locked'
           /\ locked' # locked => \E r \in RunId :
                 /\ Lock(r)
                 /\ locked' = locked \cup {[run |-> r, pair |-> p] : p \in run[r].selected}
<1>1. ASSUME NEW r \in RunId, Lock(r)
      PROVE  locked' = locked \cup {[run |-> r, pair |-> p] : p \in run[r].selected}
  BY <1>1 DEF Lock
<1>2. (\E r \in RunId : Lock(r)) \/ locked' = locked
  BY DEF RunStep, Generate, Review, Publish, Transition, Override
<1> QED
  BY <1>1, <1>2

LEMMA RunInvStep == MatchInv /\ [Next]_vars => SoundRuns' /\ PairsAreExclusive'
<1> SUFFICES ASSUME MatchInv, [Next]_vars PROVE SoundRuns' /\ PairsAreExclusive'
  OBVIOUS
<1> RunInv
  BY DEF MatchInv
<1>1. CASE RunStep
  <2>1. /\ \A r \in RunId : Exists(r)' =>
              /\ run'[r].selected \subseteq run'[r].candidates
              /\ Disjoint(run'[r].selected)
        /\ \A r \in RunId : Exists(r) =>
              /\ Exists(r)'
              /\ run'[r].candidates = run[r].candidates
              /\ run[r].status \in {"LOCKED", "PUBLISHED"} =>
                    /\ run'[r].status \in {"LOCKED", "PUBLISHED"}
                    /\ run'[r].selected = run[r].selected
    BY <1>1, RunsStep
  <2>2. \A x \in locked : /\ x.run \in RunId /\ x.pair \in Pair
                          /\ run'[x.run] # NoRun
                          /\ run'[x.run].status \in {"LOCKED", "PUBLISHED"}
                          /\ x.pair \in run'[x.run].selected
                          /\ x.pair \in run'[x.run].candidates
    BY <2>1 DEF RunInv, SoundRuns, TypeOK, Exists, PairsAreExclusive
  <2>3. \A r \in RunId : Exists(r)' <=> run'[r] # NoRun
    BY DEF Exists
  <2>4. CASE locked' = locked
    <3>1. SoundRuns'
      BY <2>1, <2>2, <2>3, <2>4 DEF SoundRuns, Exists
    <3>2. LockedPairs' = LockedPairs
      BY <2>4 DEF LockedPairs
    <3> QED
      BY <2>1, <2>2, <2>4, <3>1, <3>2 DEF PairsAreExclusive, RunInv, Disjoint
  <2>5. CASE locked' # locked
    <3>1. PICK r \in RunId :
             /\ Lock(r)
             /\ locked' = locked \cup {[run |-> r, pair |-> p] : p \in run[r].selected}
      BY <1>1, <2>5, LockedStep
    <3> DEFINE S == run[r].selected
    <3>2. /\ run'[r] # NoRun /\ run'[r].status = "LOCKED" /\ run'[r].selected = S
          /\ Disjoint(S) /\ S \subseteq run'[r].candidates /\ S \subseteq Pair
      <4>1. Exists(r) /\ run[r] \in RunRow
        BY <3>1, LockProgress, RunTypes DEF RunInv
      <4>2. S \subseteq run[r].candidates /\ Disjoint(S) /\ S \subseteq Pair
        BY <4>1 DEF RunInv, SoundRuns, PairsAreExclusive, RunRow
      <4> QED
        BY <3>1, <4>2, LockProgress
    <3>3. \A p \in S : \A q \in LockedPairs : q \cap p = {}
      BY <3>1 DEF Lock, SomeoneLocked, Taken
    <3> HIDE DEF S
    <3>4. \A x \in locked' : x \in locked \/ \E p \in S : x = [run |-> r, pair |-> p]
      BY <3>1 DEF S
    <3>5. SoundRuns'
      <4>1. \A x \in locked' : /\ run'[x.run] # NoRun
                               /\ run'[x.run].status \in {"LOCKED", "PUBLISHED"}
                               /\ x.pair \in run'[x.run].selected
        BY <2>2, <3>2, <3>4
      <4> QED
        BY <2>1, <4>1 DEF SoundRuns, Exists
    <3>6. LockedPairs' = LockedPairs \cup S
      <4>1. \A x \in locked' : x.pair \in LockedPairs \cup S
        BY <3>4 DEF LockedPairs
      <4>2. \A x \in locked : x \in locked'
        BY <3>1
      <4>3. \A p \in S : [run |-> r, pair |-> p] \in locked'
        BY <3>1 DEF S
      <4>4. \A p \in S : \E x \in locked' : x.pair = p
        BY <4>3
      <4>5. LockedPairs' = {x.pair : x \in locked'}
        BY DEF LockedPairs
      <4>6. LockedPairs \subseteq LockedPairs'
        BY <4>2, <4>5 DEF LockedPairs
      <4>7. S \subseteq LockedPairs'
        BY <4>4, <4>5
      <4>8. LockedPairs' \subseteq LockedPairs \cup S
        BY <4>1, <4>5
      <4> QED
        BY <4>6, <4>7, <4>8
    <3>7. Disjoint(LockedPairs')
      <4>1. Disjoint(LockedPairs)
        BY DEF RunInv, PairsAreExclusive
      <4> QED
        BY <3>2, <3>3, <3>6, <4>1 DEF Disjoint
    <3>8. \A x, y \in locked' : x.pair = y.pair => x = y
      <4>1. \A x, y \in locked : x.pair = y.pair => x = y
        BY DEF RunInv, PairsAreExclusive
      <4>2. \A x \in locked : x.pair \in LockedPairs
        BY DEF LockedPairs
      <4>3. \A p \in S : p \cap p # {}
        BY <3>2, PairNonempty
      <4>4. \A x \in locked : x.pair \notin S
        BY <3>3, <4>2, <4>3
      <4> QED
        BY <3>4, <4>1, <4>4
    <3>9. \A x \in locked' : x.pair \in run'[x.run].candidates
      BY <2>2, <3>2, <3>4
    <3>10. PairsAreExclusive'
      BY <2>1, <3>7, <3>8, <3>9 DEF PairsAreExclusive, Disjoint
    <3> QED
      BY <3>5, <3>10
  <2> QED
    BY <2>4, <2>5
<1>2. CASE UNCHANGED runVars
  BY <1>2 DEF runVars, RunInv, SoundRuns, PairsAreExclusive, Exists, LockedPairs, Disjoint
<1>3. RunStep \/ UNCHANGED runVars
  BY MemberLeavesRuns DEF Next, Reproject, vars
<1> QED
  BY <1>1, <1>2, <1>3

-----------------------------------------------------------------------------
(* Members *)

(* An answer that is recorded is not touched again. *)
LEMMA AnswersStand ==
    ASSUME TypeOK, MemberStep, NEW s \in MatchSide, Recorded(s)
    PROVE  answer'[s] = answer[s]
<1>1. answer[s].state = "RECORDED" /\ answer[s] # NoAnswer
  BY DEF Recorded, NoAnswer
<1> QED
  BY <1>1 DEF MemberStep, Respond, Answered, Lost, Consent, Feedback, TypeOK

LEMMA MutualStands ==
    ASSUME TypeOK, MemberStep, NEW p \in Pair, Mutual(p)
    PROVE  Mutual(p)'
<1>1. \A m \in p : <<p, m>> \in MatchSide
  BY SidesOfPair
<1>2. \A m \in p : answer'[<<p, m>>] = answer[<<p, m>>]
  BY <1>1, AnswersStand DEF Mutual, Interested
<1> QED
  BY <1>2 DEF Mutual, Interested, Recorded

(* A step that decides is taken by somebody who may, and leaves the latest *)
(* decision and the last row of the history alike.                         *)
LEMMA ConsentStep ==
    ASSUME TypeOK, RevealIsAgreed, MemberStep
    PROVE  \A s \in MatchSide :
              \/ consents'[s] = consents[s] /\ consent'[s] = consent[s]
              \/ /\ MayReveal(s)
                 /\ consents'[s] # <<>>
                 /\ consent'[s].decision = LastOf(consents'[s]).decision
                 /\ consent'[s].policy = LastOf(consents'[s]).policy
<1>1. ASSUME NEW z \in MatchSide, NEW d \in Decision, NEW k \in ConsentKey, Consent(z, d, k)
      PROVE  \A s \in MatchSide :
                \/ consents'[s] = consents[s] /\ consent'[s] = consent[s]
                \/ /\ MayReveal(s)
                   /\ consents'[s] # <<>>
                   /\ consent'[s].decision = LastOf(consents'[s]).decision
                   /\ consent'[s].policy = LastOf(consents'[s]).policy
  <2> DEFINE row == [decision |-> d.decision, policy |-> d.policy, key |-> k]
  <2>1. /\ consents'[z] = Append(consents[z], row)
        /\ \A s \in MatchSide : s # z => consents'[s] = consents[s]
    BY <1>1 DEF Consent, TypeOK
  <2>2. /\ consent'[z] = d
        /\ \A s \in MatchSide : s # z => consent'[s] = consent[s]
    BY <1>1 DEF Consent, RepeatsCurrent, TypeOK
  <2>3. row \in ConsentRow
    BY DEF Decision, ConsentRow
  <2> HIDE DEF row
  <2>4. consents[z] \in Seq(ConsentRow)
    BY DEF TypeOK
  <2>5. consents'[z] # <<>> /\ LastOf(consents'[z]) = row
    BY <2>1, <2>3, <2>4 DEF LastOf
  <2>6. row.decision = d.decision /\ row.policy = d.policy
    BY DEF row
  <2>7. MayReveal(z)
    BY <1>1 DEF Consent
  <2> QED
    BY <2>1, <2>2, <2>5, <2>6, <2>7
<1>2. ASSUME UNCHANGED <<consents, consent>>
      PROVE  \A s \in MatchSide : consents'[s] = consents[s] /\ consent'[s] = consent[s]
  BY <1>2
<1> QED
  BY <1>1, <1>2 DEF MemberStep, Respond, Answered, Lost, Feedback

LEMMA MatchInvStep == MatchInv /\ [Next]_vars => DecidedAreMutual' /\ RevealIsAgreed'
<1> SUFFICES ASSUME MatchInv, [Next]_vars PROVE DecidedAreMutual' /\ RevealIsAgreed'
  OBVIOUS
<1> TypeOK
  BY DEF MatchInv, RunInv
<1>1. CASE MemberStep
  <2>1. \A s \in MatchSide :
           \/ consents'[s] = consents[s] /\ consent'[s] = consent[s]
           \/ /\ MayReveal(s)
              /\ consents'[s] # <<>>
              /\ consent'[s].decision = LastOf(consents'[s]).decision
              /\ consent'[s].policy = LastOf(consents'[s]).policy
    BY <1>1, ConsentStep DEF MatchInv
  <2>2. \A p \in Pair : Mutual(p) => Mutual(p)'
    BY <1>1, MutualStands
  <2>3. ASSUME NEW s \in MatchSide, consent'[s] # NoDecision
        PROVE  Mutual(s[1])'
    <3>1. Mutual(s[1])
      BY <2>1, <2>3 DEF MayReveal, MatchInv, DecidedAreMutual
    <3> QED
      BY <2>2, <3>1, SideTypes
  <2>4. DecidedAreMutual'
    BY <2>3 DEF DecidedAreMutual
  <2>5. ASSUME NEW p \in Pair, BothReveal(p)'
        PROVE  Mutual(p)'
    <3>1. PICK m \in p : <<p, m>> \in MatchSide
      BY PairNonempty
    <3>2. consent'[<<p, m>>].decision = "GRANTED"
      BY <2>5, <3>1 DEF BothReveal
    <3>3. consent'[<<p, m>>] # NoDecision
      BY <3>2 DEF NoDecision
    <3> QED
      BY <2>3, <3>1, <3>3
  <2>6. \A s \in MatchSide :
           IF consents'[s] = <<>>
             THEN consent'[s] = NoDecision
             ELSE /\ consent'[s].decision = LastOf(consents'[s]).decision
                  /\ consent'[s].policy = LastOf(consents'[s]).policy
    BY <2>1 DEF MatchInv, RevealIsAgreed
  <2> QED
    BY <2>4, <2>5, <2>6 DEF RevealIsAgreed, LastOf
<1>2. CASE UNCHANGED memberVars
  BY <1>2 DEF memberVars, MatchInv, DecidedAreMutual, RevealIsAgreed, BothReveal,
              Mutual, Interested, Recorded
<1>3. MemberStep \/ UNCHANGED memberVars
  BY RunLeavesMembers DEF Next, Reproject, vars
<1> QED
  BY <1>1, <1>2, <1>3

-----------------------------------------------------------------------------
(* Initially, and always *)

LEMMA InvInit == Init => MatchInv
<1> SUFFICES ASSUME Init PROVE MatchInv
  OBVIOUS
<1>1. TypeOK
  BY DEF Init, TypeOK
<1>2. SoundRuns /\ PairsAreExclusive
  BY DEF Init, SoundRuns, PairsAreExclusive, Exists, LockedPairs, Disjoint
<1>3. \A s \in MatchSide : consent[s] = NoDecision /\ consents[s] = <<>>
  BY DEF Init
<1>4. DecidedAreMutual
  BY <1>3 DEF DecidedAreMutual
<1>5. \A p \in Pair : ~BothReveal(p)
  <2>1. NoDecision.decision # "GRANTED"
    BY DEF NoDecision
  <2> QED
    BY <1>3, <2>1, PairNonempty DEF BothReveal
<1>6. RevealIsAgreed
  BY <1>3, <1>5 DEF RevealIsAgreed
<1> QED
  BY <1>1, <1>2, <1>4, <1>6 DEF MatchInv, RunInv

LEMMA InvStep == MatchInv /\ [Next]_vars => MatchInv'
BY TypeStep, RunInvStep, MatchInvStep DEF MatchInv, RunInv

LEMMA InvAlways == Spec => []MatchInv
BY InvInit, InvStep, PTL DEF Spec

-----------------------------------------------------------------------------
(* What a pair's two answers make of each other *)

(* An answer that says yes, and one that will tell of mutual interest when *)
(* its transaction commits.                                                *)
Keen(s) == answer[s] # NoAnswer /\ answer[s].response = "INTERESTED"
Telling(s) == answer[s].state = "OPEN" /\ answer[s].mutual

(* One of two answers sees the other and tells, or they were given side by *)
(* side and neither does.                                                  *)
Agree(s) ==
    /\ Telling(s) => Keen(s) /\ Interested(Other(s))
    /\ s[1] \in raced => answer[s] # NoAnswer /\ ~answer[s].mutual
    /\ ToldMutual(s[1]) # {} => Interested(s) /\ s[1] \notin raced
    /\ \A i, j \in ToldMutual(s[1]) : i = j
    /\ Keen(s) /\ Keen(Other(s)) /\ s[1] \notin raced =>
          ToldMutual(s[1]) # {} \/ Telling(s) \/ Telling(Other(s))

AnswersAgree == \A s \in MatchSide : Agree(s)

(* A side has one other, and there is no third. *)
LEMMA OtherSide ==
    ASSUME NEW s \in MatchSide
    PROVE  /\ Other(s) \in MatchSide /\ Other(s) # s
           /\ Other(s)[1] = s[1] /\ Other(Other(s)) = s
           /\ \A z \in MatchSide : z[1] = s[1] => z = s \/ z = Other(s)
<1>1. s[1] \in Pair /\ s[2] \in s[1] /\ s = <<s[1], s[2]>>
  BY SideTypes
<1>2. PICK a \in Left, b \in Right : s[1] = {a, b}
  BY <1>1 DEF Pair
<1>3. a # b
  BY MatchmakingAssumption
<1>4. PICK m \in {a, b} : m # s[2] /\ \A n \in {a, b} : n # s[2] => n = m
  BY <1>1, <1>2, <1>3
<1>5. Other(s) = <<s[1], m>>
  <2>1. (CHOOSE n \in s[1] : n # s[2]) = m
    BY <1>2, <1>4
  <2> QED
    BY <2>1 DEF Other
<1>6. \A n \in {a, b} : n = m \/ n = s[2]
  BY <1>1, <1>2, <1>4
<1>7. Other(s) \in MatchSide /\ Other(s)[1] = s[1] /\ Other(s)[2] = m
  <2>1. m \in s[1]
    BY <1>2
  <2>2. <<s[1], m>> \in MatchSide
    BY <1>1, <2>1, SidesOfPair
  <2> QED
    BY <1>5, <2>2
<1>8. Other(Other(s)) = s
  <2>1. (CHOOSE n \in s[1] : n # m) = s[2]
    BY <1>1, <1>2, <1>4, <1>6
  <2> QED
    BY <1>1, <1>7, <2>1 DEF Other
<1>9. ASSUME NEW z \in MatchSide, z[1] = s[1]
      PROVE  z = s \/ z = Other(s)
  <2>1. z = <<z[1], z[2]>> /\ z[2] \in {a, b}
    BY <1>2, <1>9, SideTypes
  <2>2. z[2] = m \/ z[2] = s[2]
    BY <1>6, <2>1
  <2> QED
    BY <1>1, <1>5, <1>9, <2>1, <2>2
<1>10. Other(s) # s
  BY <1>4, <1>7
<1> QED
  BY <1>7, <1>8, <1>9, <1>10

LEMMA MutualOfSides ==
    ASSUME NEW s \in MatchSide
    PROVE  Mutual(s[1]) <=> Interested(s) /\ Interested(Other(s))
<1>1. \A m \in s[1] : <<s[1], m>> \in MatchSide /\ <<s[1], m>>[1] = s[1]
  BY SidesOfPair, SideTypes
<1>2. \A m \in s[1] : <<s[1], m>> = s \/ <<s[1], m>> = Other(s)
  BY <1>1, OtherSide
<1>3. s[2] \in s[1] /\ s = <<s[1], s[2]>>
  BY SideTypes
<1>4. Other(s)[2] \in s[1] /\ Other(s) = <<s[1], Other(s)[2]>>
  BY OtherSide, SideTypes
<1> QED
  BY <1>2, <1>3, <1>4 DEF Mutual

(* What is told after one more fact. *)
LEMMA OneMoreFact ==
    ASSUME TypeOK, NEW p \in Pair, NEW f \in MatchFact, facts'[p] = Append(facts[p], f)
    PROVE  ToldMutual(p)' = IF f.type = "MutualInterestEstablished"
                              THEN ToldMutual(p) \cup {Len(facts[p]) + 1}
                              ELSE ToldMutual(p)
<1> DEFINE s == facts[p]
           t == facts'[p]
<1>1. s \in Seq(MatchFact)
  BY DEF TypeOK
<1>2. /\ Len(t) = Len(s) + 1 /\ t[Len(s) + 1] = f
      /\ DOMAIN t = 1..(Len(s) + 1) /\ DOMAIN s = 1..Len(s) /\ Len(s) \in Nat
      /\ \A i \in DOMAIN s : t[i] = s[i]
  BY <1>1
<1>3. DOMAIN t = DOMAIN s \cup {Len(s) + 1}
  BY <1>2
<1> QED
  BY <1>2, <1>3 DEF ToldMutual

LEMMA AnswerTypes ==
    ASSUME TypeOK, NEW s \in MatchSide
    PROVE  /\ answer[s] = NoAnswer \/ answer[s] \in AnswerRow
           /\ answer[s] = NoAnswer => answer[s].state = "NONE"
           /\ answer[s].state \in {"OPEN", "RECORDED"} =>
                 answer[s] \in AnswerRow /\ answer[s] # NoAnswer
           /\ answer[s] # NoAnswer => answer[s].state \in {"OPEN", "RECORDED"}
BY DEF TypeOK, NoAnswer, AnswerRow

LEMMA RespondAgrees ==
    ASSUME TypeOK, AnswersAgree, NEW z \in MatchSide, NEW x \in {"INTERESTED", "PASS"},
           NEW k \in AnswerKey, Respond(z, x, k)
    PROVE  Agree(z)' /\ Agree(Other(z))'
<1> DEFINE o == Other(z)
           p == z[1]
<1>1. /\ o \in MatchSide /\ o # z /\ o[1] = p /\ Other(o) = z
      /\ Agree(z) /\ Agree(o)
  BY OtherSide DEF AnswersAgree
<1>2. /\ answer[z] = NoAnswer
      /\ answer'[z] = [state |-> "OPEN", response |-> x, key |-> k,
                       mutual |-> CountsTwo(z, x)]
      /\ answer'[o] = answer[o]
      /\ ToldMutual(p)' = ToldMutual(p)
      /\ raced' = IF answer[o].state = "OPEN" THEN raced \cup {p} ELSE raced
  BY <1>1 DEF Respond, TypeOK, ToldMutual
<1>3. /\ answer'[z].state = "OPEN" /\ answer'[z].response = x
      /\ answer'[z].mutual = CountsTwo(z, x) /\ answer'[z] # NoAnswer
      /\ CountsTwo(z, x) \in BOOLEAN
  BY <1>2 DEF NoAnswer, CountsTwo, Interested, Recorded
<1>4. ~Interested(z) /\ ~Keen(z) /\ ~Telling(z) /\ ToldMutual(p) = {} /\ p \notin raced
  BY <1>1, <1>2, AnswerTypes DEF Interested, Recorded, Keen, Telling, Agree
<1>5. ~Telling(o)
  BY <1>1, <1>4 DEF Agree
<1>6. /\ Interested(o)' <=> Interested(o)
      /\ Keen(o)' <=> Keen(o)
      /\ ~Telling(o)'
  BY <1>2, <1>5 DEF Interested, Recorded, Keen, Telling
<1>7. /\ Keen(z)' <=> x = "INTERESTED"
      /\ Telling(z)' <=> x = "INTERESTED" /\ Interested(o)
  BY <1>3 DEF Keen, Telling, CountsTwo
<1>8. CASE answer[o].state = "OPEN"
  <2>1. ~answer[o].mutual /\ answer[o] # NoAnswer /\ ~Interested(o)
    BY <1>1, <1>5, <1>8, AnswerTypes DEF Telling, Interested, Recorded
  <2>2. ~CountsTwo(z, x) /\ ~Telling(z)' /\ p \in raced'
    BY <1>2, <1>7, <1>8, <2>1 DEF CountsTwo
  <2>3. ~answer'[z].mutual /\ answer'[o] # NoAnswer /\ ~answer'[o].mutual
    BY <1>2, <1>3, <2>1, <2>2
  <2>4. ToldMutual(p)' = {}
    BY <1>2, <1>4
  <2>5. Agree(z)'
    BY <1>3, <2>2, <2>3, <2>4 DEF Agree
  <2>6. Agree(o)'
    BY <1>1, <1>6, <2>2, <2>3, <2>4 DEF Agree
  <2> QED
    BY <2>5, <2>6
<1>9. CASE answer[o].state # "OPEN"
  <2>1. Keen(o) => Interested(o)
    BY <1>1, <1>9, AnswerTypes DEF Keen, Interested, Recorded
  <2>2. p \notin raced' /\ ToldMutual(p)' = {}
    BY <1>2, <1>4, <1>9
  <2>3. Agree(z)'
    BY <1>6, <1>7, <2>1, <2>2 DEF Agree
  <2>4. Agree(o)'
    BY <1>1, <1>6, <1>7, <2>1, <2>2 DEF Agree
  <2> QED
    BY <2>3, <2>4
<1> QED
  BY <1>8, <1>9

LEMMA AnsweredAgrees ==
    ASSUME TypeOK, AnswersAgree, NEW z \in MatchSide, Answered(z)
    PROVE  Agree(z)' /\ Agree(Other(z))'
<1> DEFINE o == Other(z)
           p == z[1]
<1>1. /\ o \in MatchSide /\ o # z /\ o[1] = p /\ Other(o) = z /\ p \in Pair
      /\ Agree(z) /\ Agree(o)
  BY OtherSide, SideTypes DEF AnswersAgree
<1>2. /\ answer[z] \in AnswerRow /\ answer[z].state = "OPEN" /\ answer[z] # NoAnswer
      /\ answer'[z] = [answer[z] EXCEPT !.state = "RECORDED"]
      /\ answer'[o] = answer[o] /\ raced' = raced
  BY <1>1, AnswerTypes DEF Answered, TypeOK
<1>3. /\ answer'[z].state = "RECORDED" /\ answer'[z].response = answer[z].response
      /\ answer'[z].mutual = answer[z].mutual /\ answer'[z] # NoAnswer
      /\ answer[z].mutual \in BOOLEAN
  BY <1>2 DEF AnswerRow, NoAnswer
<1>4. ~Interested(z) /\ ToldMutual(p) = {}
  BY <1>1, <1>2 DEF Interested, Recorded, Agree
<1>5. /\ Interested(o)' <=> Interested(o)
      /\ Keen(o)' <=> Keen(o)
      /\ Telling(o)' <=> Telling(o)
  BY <1>2 DEF Interested, Recorded, Keen, Telling
<1>6. /\ Keen(z)' <=> Keen(z)
      /\ Interested(z)' <=> Keen(z)
      /\ ~Telling(z)'
  BY <1>2, <1>3 DEF Keen, Telling, Interested, Recorded
<1>7. CASE answer[z].mutual
  <2>1. Keen(z) /\ Interested(o) /\ p \notin raced /\ ~Telling(o)
    BY <1>1, <1>2, <1>7 DEF Agree, Telling, Interested, Recorded
  <2>2. facts'[p] = Append(facts[p], [type |-> "MutualInterestEstablished"])
    BY <1>1, <1>7 DEF Answered, TypeOK
  <2>3. ToldMutual(p)' = {Len(facts[p]) + 1}
    BY <1>1, <1>4, <2>2, OneMoreFact DEF MatchFact
  <2> QED
    BY <1>1, <1>2, <1>5, <1>6, <2>1, <2>3 DEF Agree
<1>8. CASE ~answer[z].mutual
  <2>1. ToldMutual(p)' = {} /\ ~Telling(z)
    BY <1>4, <1>8 DEF Answered, ToldMutual, Telling
  <2>2. ~Telling(o)
    BY <1>1, <1>4 DEF Agree
  <2> QED
    BY <1>1, <1>2, <1>3, <1>5, <1>6, <1>8, <2>1, <2>2, <1>4 DEF Agree
<1> QED
  BY <1>7, <1>8

LEMMA LostAgrees ==
    ASSUME TypeOK, AnswersAgree, NEW z \in MatchSide, Lost(z)
    PROVE  Agree(z)' /\ Agree(Other(z))'
<1> DEFINE o == Other(z)
           p == z[1]
<1>1. /\ o \in MatchSide /\ o # z /\ o[1] = p /\ Other(o) = z
      /\ Agree(z) /\ Agree(o)
  BY OtherSide DEF AnswersAgree
<1>2. /\ answer[z].state = "OPEN" /\ answer'[z] = NoAnswer
      /\ answer'[o] = answer[o] /\ p \notin raced'
      /\ ToldMutual(p)' = ToldMutual(p)
  BY <1>1 DEF Lost, TypeOK, ToldMutual
<1>3. ~Interested(z) /\ ToldMutual(p) = {}
  BY <1>1, <1>2 DEF Interested, Recorded, Agree
<1>4. ~Telling(o)
  BY <1>1, <1>3 DEF Agree
<1>5. /\ ~Keen(z)' /\ ~Telling(z)'
      /\ Interested(o)' <=> Interested(o)
      /\ ~Telling(o)'
  BY <1>2, <1>4 DEF Keen, Telling, NoAnswer, Interested, Recorded
<1> QED
  BY <1>1, <1>2, <1>3, <1>5 DEF Agree

(* A step at one pair, or a decision on revealing, leaves another's answers *)
(* and what is told of them.                                               *)
LEMMA OthersAgree ==
    ASSUME AnswersAgree, NEW s \in MatchSide,
           answer'[s] = answer[s], answer'[Other(s)] = answer[Other(s)],
           ToldMutual(s[1])' = ToldMutual(s[1]),
           s[1] \in raced' <=> s[1] \in raced
    PROVE  Agree(s)'
BY DEF AnswersAgree, Agree, Keen, Telling, Interested, Recorded

LEMMA ConsentTellsNoMore ==
    ASSUME TypeOK, NEW z \in MatchSide, NEW d \in Decision, NEW k \in ConsentKey,
           Consent(z, d, k), NEW p \in Pair
    PROVE  ToldMutual(p)' = ToldMutual(p)
<1>1. CASE facts' = facts
  BY <1>1 DEF ToldMutual
<1>2. CASE facts' # facts
  <2>1. facts' = [facts EXCEPT ![z[1]] = Append(@, ConsentFact(z, d))]
    BY <1>2 DEF Consent
  <2>2. CASE p = z[1]
    <3>1. facts'[p] = Append(facts[p], ConsentFact(z, d))
      BY <2>1, <2>2 DEF TypeOK
    <3>2. /\ ConsentFact(z, d) \in MatchFact
          /\ ConsentFact(z, d).type # "MutualInterestEstablished"
      BY SideTypes DEF ConsentFact, MatchFact, Decision
    <3> QED
      BY <3>1, <3>2, OneMoreFact
  <2>3. CASE p # z[1]
    <3>1. facts'[p] = facts[p]
      BY <2>1, <2>3 DEF TypeOK
    <3> QED
      BY <3>1 DEF ToldMutual
  <2> QED
    BY <2>2, <2>3
<1> QED
  BY <1>1, <1>2

LEMMA AgreeStep == TypeOK /\ AnswersAgree /\ [Next]_vars => AnswersAgree'
<1> SUFFICES ASSUME TypeOK, AnswersAgree, [Next]_vars, NEW s \in MatchSide
             PROVE  Agree(s)'
  BY DEF AnswersAgree
<1>1. /\ Other(s) \in MatchSide /\ Other(s)[1] = s[1] /\ s[1] \in Pair
  BY OtherSide, SideTypes
<1>2. ASSUME NEW z \in MatchSide, NEW x \in {"INTERESTED", "PASS"}, NEW k \in AnswerKey,
             Respond(z, x, k)
      PROVE  Agree(s)'
  <2>1. CASE z[1] = s[1]
    BY <1>2, <2>1, RespondAgrees, OtherSide
  <2>2. CASE z[1] # s[1]
    BY <1>1, <1>2, <2>2, OthersAgree DEF Respond, TypeOK, ToldMutual
  <2> QED
    BY <2>1, <2>2
<1>3. ASSUME NEW z \in MatchSide, Answered(z)
      PROVE  Agree(s)'
  <2>1. CASE z[1] = s[1]
    BY <1>3, <2>1, AnsweredAgrees, OtherSide
  <2>2. CASE z[1] # s[1]
    <3>1. facts'[s[1]] = facts[s[1]]
      BY <1>1, <1>3, <2>2 DEF Answered, TypeOK
    <3> QED
      BY <1>1, <1>3, <2>2, <3>1, OthersAgree DEF Answered, TypeOK, ToldMutual
  <2> QED
    BY <2>1, <2>2
<1>4. ASSUME NEW z \in MatchSide, Lost(z)
      PROVE  Agree(s)'
  <2>1. CASE z[1] = s[1]
    BY <1>4, <2>1, LostAgrees, OtherSide
  <2>2. CASE z[1] # s[1]
    BY <1>1, <1>4, <2>2, OthersAgree DEF Lost, TypeOK, ToldMutual
  <2> QED
    BY <2>1, <2>2
<1>5. ASSUME NEW z \in MatchSide, NEW d \in Decision, NEW k \in ConsentKey, Consent(z, d, k)
      PROVE  Agree(s)'
  BY <1>1, <1>5, ConsentTellsNoMore, OthersAgree DEF Consent
<1>6. ASSUME UNCHANGED <<answer, facts, raced>>
      PROVE  Agree(s)'
  BY <1>6, OthersAgree DEF ToldMutual
<1>7. MemberStep \/ UNCHANGED <<answer, facts, raced>>
  BY RunLeavesMembers DEF Next, Reproject, vars, memberVars
<1> QED
  BY <1>2, <1>3, <1>4, <1>5, <1>6, <1>7 DEF MemberStep, Feedback

LEMMA AgreeInit == Init => AnswersAgree
<1> SUFFICES ASSUME Init, NEW s \in MatchSide PROVE Agree(s)
  BY DEF AnswersAgree
<1>1. answer[s] = NoAnswer /\ ToldMutual(s[1]) = {} /\ raced = {}
  BY SideTypes DEF Init, ToldMutual
<1> QED
  BY <1>1 DEF Agree, Keen, Telling, NoAnswer

LEMMA AgreeingTells == AnswersAgree => MutualInterestIsTold
<1> SUFFICES ASSUME AnswersAgree, NEW p \in Pair
             PROVE  /\ \A i, j \in ToldMutual(p) : i = j
                    /\ ToldMutual(p) # {} => Mutual(p)
                    /\ Mutual(p) => (ToldMutual(p) # {} <=> p \notin raced)
  BY DEF MutualInterestIsTold
<1>1. PICK m \in Member : m \in p /\ <<p, m>> \in MatchSide
  BY PairNonempty
<1> DEFINE s == <<p, m>>
<1>2. s[1] = p /\ s \in MatchSide
  BY <1>1
<1> HIDE DEF s
<1>3. /\ Agree(s) /\ Agree(Other(s)) /\ Other(s)[1] = p
      /\ Mutual(p) <=> Interested(s) /\ Interested(Other(s))
  BY <1>2, OtherSide, MutualOfSides DEF AnswersAgree
<1>4. \A z \in {s, Other(s)} : /\ Interested(z) => ~Telling(z)
                               /\ Interested(z) => Keen(z)
  BY DEF Interested, Recorded, Telling, Keen, NoAnswer
<1> QED
  BY <1>2, <1>3, <1>4 DEF Agree

(* The tables keep their columns. *)
THEOREM TypeCorrect == Spec => []TypeOK
BY InvAlways, PTL DEF MatchInv, RunInv

(* Nobody is locked into two matches, whatever runs compete.               *)
THEOREM OneMatchEach == Spec => []PairsAreExclusive
BY InvAlways, PTL DEF MatchInv, RunInv

(* Both reveal only where both are interested, and the latest decision of  *)
(* each member is the one that counts.                                     *)
THEOREM RevealsAreAgreed == Spec => []RevealIsAgreed
BY InvAlways, PTL DEF MatchInv

(* Mutual interest is told once where it is there, and never where it is   *)
(* not; it goes untold only where two answers were given side by side.     *)
THEOREM MutualInterestTold == Spec => []MutualInterestIsTold
<1>1. TypeOK /\ AnswersAgree /\ [Next]_vars => AnswersAgree'
  BY AgreeStep
<1>2. MatchInv => TypeOK
  BY DEF MatchInv, RunInv
<1> QED
  BY <1>1, <1>2, AgreeInit, AgreeingTells, InvAlways, PTL DEF Spec

(* What was reviewed under a version is what is locked and published.      *)
THEOREM ReviewsHold == Spec => ReviewedIsLocked
<1> DEFINE Held ==
        /\ \A r \in RunId : Exists(r) /\ run'[r] # run[r] =>
              /\ run'[r].version > run[r].version
              /\ run[r].status \in {"LOCKED", "PUBLISHED"} =>
                    /\ run'[r].selected = run[r].selected
                    /\ run'[r].status = "PUBLISHED"
        /\ locked \subseteq locked'
        /\ \A x \in locked' \ locked : /\ x.pair \in run[x.run].selected
                                       /\ rating[x.pair] # "refused"
<1>1. ASSUME MatchInv, RunStep PROVE Held
  <2> RunInv
    BY <1>1 DEF MatchInv
  <2>1. \A r \in RunId : Exists(r) => Progress(r)
    BY <1>1, RunsStep
  <2>2. locked \subseteq locked'
    BY <1>1, LockedStep
  <2>3. ASSUME NEW x \in locked', x \notin locked
        PROVE  x.pair \in run[x.run].selected /\ rating[x.pair] # "refused"
    <3>1. PICK r \in RunId :
             /\ Lock(r)
             /\ locked' = locked \cup {[run |-> r, pair |-> p] : p \in run[r].selected}
      BY <1>1, <2>3, LockedStep
    <3>2. PICK p \in run[r].selected : x = [run |-> r, pair |-> p]
      BY <2>3, <3>1
    <3> QED
      BY <3>1, <3>2 DEF Lock
  <2> QED
    BY <2>1, <2>2, <2>3 DEF Progress
<1>2. ASSUME UNCHANGED runVars PROVE Held
  BY <1>2 DEF runVars
<1>3. [Next]_vars => RunStep \/ UNCHANGED runVars
  BY MemberLeavesRuns DEF Next, Reproject, vars
<1>4. MatchInv /\ [Next]_vars => [Held]_vars
  BY <1>1, <1>2, <1>3
<1> HIDE DEF Held
<1>5. Spec => [][Held]_vars
  BY <1>4, InvAlways, PTL DEF Spec
<1> QED
  BY <1>5 DEF Held, ReviewedIsLocked
=============================================================================
