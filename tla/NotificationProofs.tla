------------------------- MODULE NotificationProofs --------------------------
(***************************************************************************)
(* Proofs about Notification: its type invariant, that what is settled     *)
(* stays settled, that suppressed members have nothing left to be sent,    *)
(* and that the recorded attempts are the ones that were made.             *)
(***************************************************************************)
EXTENDS Notification, TLAPS

-----------------------------------------------------------------------------
(* Type correctness *)

(* What a row is, by its state, and what a worker is busy with.            *)
LEMMA RowOfState ==
    ASSUME TypeOK, NEW f \in Fact, delivery[f].state \in Live \cup Final
    PROVE  delivery[f] \in Row
  BY DEF TypeOK, NoDelivery, Live, Final

LEMMA JobOfStage ==
    ASSUME TypeOK, NEW w \in Worker, job[w].stage # "idle"
    PROVE  job[w] \in Job
  BY DEF TypeOK, NoJob

LEMMA OutcomeType ==
    ASSUME NEW j
    PROVE  /\ Outcome(j) \in OutcomeName
           /\ NextState(Outcome(j)) \in (Final \cup {"RETRY_SCHEDULED"})
           /\ NextState(Outcome(j)) \in Final <=> Outcome(j) # "RETRYABLE_FAILURE"
           /\ NextState(Outcome(j)) # "SUPPRESSED"
  BY DEF Outcome, NextState, OutcomeName, Final

LEMMA OutcomeOfAnswer ==
    ASSUME NEW j, j.stage \in Result
    PROVE  /\ Outcome(j) = "DELIVERED" <=> j.stage = "accepted"
           /\ Outcome(j) = "PERMANENT_FAILURE" <=> j.stage = "permanent"
  BY DEF Outcome, Result

LEMMA InitType == Init => TypeOK
  BY NotificationAssumption DEF NotificationAssumption, Init, TypeOK

LEMMA TypeStep == TypeOK /\ [Next]_vars => TypeOK'
  <1> SUFFICES ASSUME TypeOK, [Next]_vars PROVE TypeOK'
    OBVIOUS
  <1> USE NotificationAssumption DEF NotificationAssumption
  <1>1. ASSUME NEW f \in Fact, ApplyEvent(f) PROVE TypeOK'
    <2>1. ASSUME NEW preferred \in BOOLEAN, Deliver(f, preferred) PROVE TypeOK'
      <3>1. [state |-> IF Recipient[f] \in suppressed \/ ~preferred
                         THEN "SUPPRESSED" ELSE "PENDING", attempt |-> 0] \in Row
        BY DEF Row, Live, Final
      <3>2. delivery' \in [Fact -> Row \cup {NoDelivery}]
        BY <2>1, <3>1 DEF Deliver, TypeOK
      <3>3. feed' \in [Fact -> {"none", "unread", "read"}]
        BY <2>1 DEF Deliver, TypeOK
      <3> QED BY <1>1, <2>1, <3>2, <3>3 DEF ApplyEvent, Deliver, TypeOK
    <2>2. CASE Suppress(f)
      <3>1. ASSUME NEW g \in Fact, Withdrawn(g)
            PROVE  [delivery[g] EXCEPT !.state = "SUPPRESSED"] \in Row
        BY <3>1, RowOfState DEF Withdrawn, Row, Live, Final
      <3>2. delivery' \in [Fact -> Row \cup {NoDelivery}]
        BY <2>2, <3>1 DEF Suppress, TypeOK
      <3> QED BY <1>1, <2>2, <3>2 DEF ApplyEvent, Suppress, TypeOK
    <2>3. CASE Disregard(f)
      BY <1>1, <2>3 DEF ApplyEvent, Disregard, TypeOK
    <2> QED BY <1>1, <2>1, <2>2, <2>3 DEF ApplyEvent
  <1>2. ASSUME NEW f \in Fact, Elapse(f) PROVE TypeOK'
    BY <1>2 DEF Elapse, Loss, TypeOK
  <1>3. ASSUME NEW F \in SUBSET Fact, MarkRead(F) PROVE TypeOK'
    BY <1>3 DEF MarkRead, TypeOK
  <1>4. ASSUME NEW w \in Worker, NEW f \in Fact, ClaimDue(w, f) PROVE TypeOK'
    <2>1. delivery[f].attempt \in Nat
      BY <1>4, RowOfState DEF ClaimDue, Due, Row
    <2>2. [state |-> "PROCESSING", attempt |-> delivery[f].attempt + 1] \in Row
      BY <2>1 DEF Row, Live
    <2>3. [stage |-> "claimed", fact |-> f, attempt |-> delivery[f].attempt + 1] \in Job
      BY <2>1 DEF Job
    <2> QED BY <1>4, <2>2, <2>3 DEF ClaimDue, TypeOK
  <1>5. ASSUME NEW w \in Worker, NEW result \in Result, Send(w, result)
        PROVE TypeOK'
    <2>1. job[w] \in Job
      BY <1>5, JobOfStage DEF Send
    <2>2. [job[w] EXCEPT !.stage = result] \in Job
      BY <2>1 DEF Job
    <2>3. [fact |-> job[w].fact, attempt |-> job[w].attempt, result |-> result] \in Answer
      BY <2>1 DEF Job, Answer
    <2> QED BY <1>5, <2>2, <2>3 DEF Send, TypeOK
  <1>6. ASSUME NEW w \in Worker, CompleteAttempt(w) PROVE TypeOK'
    <2>1. job[w] \in Job
      BY <1>6, JobOfStage DEF CompleteAttempt, Result
    <2> DEFINE f == job[w].fact
               new == [fact |-> f, number |-> delivery[f].attempt,
                       outcome |-> Outcome(job[w])]
    <2>2. CASE Stale(job[w]) \/ Recorded(f)
      BY <1>6, <2>2 DEF CompleteAttempt, TypeOK
    <2>3. CASE ~(Stale(job[w]) \/ Recorded(f))
      <3>1. f \in Fact /\ delivery[f] \in Row
        BY <2>1, <2>3, RowOfState DEF Job, Stale, Live
      <3>2. new \in Attempt
        BY <3>1, OutcomeType DEF Attempt, Row
      <3>3. [delivery[f] EXCEPT !.state = NextState(Outcome(job[w]))] \in Row
        BY <3>1, OutcomeType DEF Row, Live
      <3>4. delivery' = [delivery EXCEPT ![f] =
                           [@ EXCEPT !.state = NextState(Outcome(job[w]))]]
        BY <1>6, <2>3 DEF CompleteAttempt
      <3>5. delivery' \in [Fact -> Row \cup {NoDelivery}]
        BY <3>1, <3>3, <3>4 DEF TypeOK
      <3> QED BY <1>6, <2>3, <3>1, <3>2, <3>5 DEF CompleteAttempt, TypeOK
    <2> QED BY <2>2, <2>3
  <1>7. ASSUME NEW w \in Worker, Crash(w) PROVE TypeOK'
    BY <1>7 DEF Crash, Loss, TypeOK
  <1>8. CASE UNCHANGED vars
    BY <1>8 DEF vars, TypeOK
  <1>9. \A a \in Account : Unread(a) \in SUBSET Fact
    BY DEF Unread
  <1>10. \A f \in Fact : {f} \in SUBSET Fact
    OBVIOUS
  <1> QED BY <1>1, <1>2, <1>3, <1>4, <1>5, <1>6, <1>7, <1>8, <1>9, <1>10
          DEF Next, WorkerStep

(* The tables and the workers' jobs are well typed in every reachable      *)
(* state.                                                                  *)
THEOREM TypeCorrect == Spec => []TypeOK
  BY InitType, TypeStep, PTL DEF Spec

-----------------------------------------------------------------------------
(* Settled deliveries *)

(* A row is made only for a fact that was not consumed before, which is why *)
(* Deliver never overwrites one.                                            *)
Consumed == \A f \in Fact : f \notin inbox => delivery[f] = NoDelivery

RowInv == TypeOK /\ Consumed

(* What a step may do to the row and the attempts of a fact: it inserts a  *)
(* row, withdraws, claims, or completes it, or leaves both alone.          *)
Inserted(f) ==
    /\ delivery[f] = NoDelivery
    /\ delivery'[f].attempt = 0
    /\ \/ delivery'[f].state = "SUPPRESSED"
       \/ delivery'[f].state = "PENDING" /\ Recipient[f] \notin suppressed
    /\ attempts' = attempts /\ suppressed' = suppressed

Suppressed(f) ==
    /\ delivery[f].state \in Live
    /\ delivery'[f] = [delivery[f] EXCEPT !.state = "SUPPRESSED"]
    /\ attempts' = attempts

Claimed(f) ==
    /\ delivery[f].state \in Live
    /\ delivery'[f] = [state |-> "PROCESSING", attempt |-> delivery[f].attempt + 1]
    /\ attempts' = attempts /\ suppressed' = suppressed

Completed(f) ==
    /\ delivery[f].state = "PROCESSING"
    /\ suppressed' = suppressed
    /\ \E outcome \in OutcomeName :
          /\ delivery'[f] = [delivery[f] EXCEPT !.state = NextState(outcome)]
          /\ NextState(outcome) \in (Final \ {"SUPPRESSED"}) \cup {"RETRY_SCHEDULED"}
          /\ NextState(outcome) \in Final <=> outcome # "RETRYABLE_FAILURE"
          /\ attempts' = attempts \cup
                {[fact |-> f, number |-> delivery[f].attempt, outcome |-> outcome]}

Untouched(f) ==
    /\ delivery'[f] = delivery[f]
    /\ \A x \in attempts' \ attempts : x.fact # f
    /\ attempts \subseteq attempts'
    /\ suppressed' = suppressed \/ (Recipient[f] \in suppressed' =>
          Recipient[f] \in suppressed \/ delivery[f].state \notin Live)

Evolves(f) == \/ Inserted(f) \/ Suppressed(f) \/ Claimed(f)
              \/ Completed(f) \/ Untouched(f)

LEMMA Evolution ==
    ASSUME RowInv, [Next]_vars
    PROVE  \A f \in Fact : Evolves(f)
  <1> SUFFICES ASSUME NEW f \in Fact PROVE Evolves(f)
    OBVIOUS
  <1> USE NotificationAssumption DEF NotificationAssumption, RowInv
  <1>1. ASSUME NEW g \in Fact, ApplyEvent(g) PROVE Evolves(f)
    <2>1. ASSUME NEW preferred \in BOOLEAN, Deliver(g, preferred) PROVE Evolves(f)
      <3>1. CASE f = g
        <4>1. delivery[f] = NoDelivery /\ attempts' = attempts /\ suppressed' = suppressed
          BY <1>1, <2>1, <3>1 DEF ApplyEvent, Deliver, Consumed
        <4>2. delivery'[f] = [state |-> IF Recipient[f] \in suppressed \/ ~preferred
                                           THEN "SUPPRESSED" ELSE "PENDING", attempt |-> 0]
          BY <2>1, <3>1 DEF Deliver, TypeOK
        <4> QED BY <4>1, <4>2 DEF Evolves, Inserted
      <3>2. CASE f # g
        BY <1>1, <2>1, <3>2 DEF ApplyEvent, Deliver, Evolves, Untouched, TypeOK
      <3> QED BY <3>1, <3>2
    <2>2. CASE Suppress(g)
      <3>1. CASE Recipient[f] = Recipient[g] /\ Withdrawn(f)
        BY <1>1, <2>2, <3>1 DEF ApplyEvent, Suppress, Withdrawn, Evolves, Suppressed
      <3>2. CASE ~(Recipient[f] = Recipient[g] /\ Withdrawn(f))
        BY <1>1, <2>2, <3>2 DEF ApplyEvent, Suppress, Withdrawn, Evolves, Untouched
      <3> QED BY <3>1, <3>2
    <2>3. CASE Disregard(g)
      BY <1>1, <2>3 DEF ApplyEvent, Disregard, Evolves, Untouched
    <2> QED BY <1>1, <2>1, <2>2, <2>3 DEF ApplyEvent
  <1>2. ASSUME NEW g \in Fact, Elapse(g) PROVE Evolves(f)
    BY <1>2 DEF Elapse, Evolves, Untouched
  <1>3. ASSUME NEW F \in SUBSET Fact, MarkRead(F) PROVE Evolves(f)
    BY <1>3 DEF MarkRead, Evolves, Untouched
  <1>4. ASSUME NEW w \in Worker, NEW g \in Fact, ClaimDue(w, g) PROVE Evolves(f)
    <2>1. CASE f = g
      BY <1>4, <2>1 DEF ClaimDue, Due, TypeOK, Evolves, Claimed
    <2>2. CASE f # g
      BY <1>4, <2>2 DEF ClaimDue, TypeOK, Evolves, Untouched
    <2> QED BY <2>1, <2>2
  <1>5. ASSUME NEW w \in Worker, NEW result \in Result, Send(w, result)
        PROVE Evolves(f)
    BY <1>5 DEF Send, Evolves, Untouched
  <1>6. ASSUME NEW w \in Worker, CompleteAttempt(w) PROVE Evolves(f)
    <2>1. job[w] \in Job
      BY <1>6, JobOfStage DEF CompleteAttempt, Result
    <2> DEFINE g == job[w].fact
               outcome == Outcome(job[w])
    <2>2. CASE Stale(job[w]) \/ Recorded(g)
      BY <1>6, <2>2 DEF CompleteAttempt, Evolves, Untouched
    <2>3. CASE ~(Stale(job[w]) \/ Recorded(g))
      <3>1. g \in Fact /\ delivery[g].state = "PROCESSING"
        BY <2>1, <2>3 DEF Job, Stale
      <3>2. /\ delivery' = [delivery EXCEPT ![g] = [@ EXCEPT !.state = NextState(outcome)]]
            /\ attempts' = attempts \cup
                 {[fact |-> g, number |-> delivery[g].attempt, outcome |-> outcome]}
            /\ suppressed' = suppressed
        BY <1>6, <2>3 DEF CompleteAttempt
      <3>3. /\ outcome \in OutcomeName
            /\ NextState(outcome) \in (Final \cup {"RETRY_SCHEDULED"})
            /\ NextState(outcome) \in Final <=> outcome # "RETRYABLE_FAILURE"
            /\ NextState(outcome) # "SUPPRESSED"
        BY OutcomeType
      <3>4. CASE f = g
        <4>1. delivery'[f] = [delivery[f] EXCEPT !.state = NextState(outcome)]
          BY <3>1, <3>2, <3>4 DEF TypeOK
        <4> HIDE DEF outcome
        <4> QED BY <3>1, <3>2, <3>3, <3>4, <4>1 DEF Evolves, Completed
      <3>5. CASE f # g
        BY <3>1, <3>2, <3>5 DEF TypeOK, Evolves, Untouched
      <3> QED BY <3>4, <3>5
    <2> QED BY <2>2, <2>3
  <1>7. ASSUME NEW w \in Worker, Crash(w) PROVE Evolves(f)
    BY <1>7 DEF Crash, Evolves, Untouched
  <1>8. CASE UNCHANGED vars
    BY <1>8 DEF vars, Evolves, Untouched
  <1>9. \A a \in Account : Unread(a) \in SUBSET Fact
    BY DEF Unread
  <1>10. \A g \in Fact : {g} \in SUBSET Fact
    OBVIOUS
  <1> QED BY <1>1, <1>2, <1>3, <1>4, <1>5, <1>6, <1>7, <1>8, <1>9, <1>10
          DEF Next, WorkerStep

(* Only ApplyEvent makes a row, and it enters the fact in the inbox.       *)
LEMMA ConsumedStep == RowInv /\ [Next]_vars => Consumed'
  <1> SUFFICES ASSUME RowInv, [Next]_vars, NEW f \in Fact, f \notin inbox'
               PROVE  delivery'[f] = NoDelivery
    BY DEF Consumed
  <1> USE DEF RowInv
  <1>1. inbox \subseteq inbox'
    BY DEF Next, vars, ApplyEvent, Elapse, MarkRead, WorkerStep, ClaimDue, Send,
           CompleteAttempt, Crash
  <1>2. delivery[f] = NoDelivery /\ delivery[f].state = "NONE"
    BY <1>1 DEF Consumed, NoDelivery
  <1>3. ASSUME NEW g \in Fact, ApplyEvent(g) PROVE delivery'[f] = NoDelivery
    <2>1. f # g
      BY <1>3 DEF ApplyEvent
    <2>2. ASSUME NEW preferred \in BOOLEAN, Deliver(g, preferred)
          PROVE  delivery'[f] = NoDelivery
      BY <1>2, <2>1, <2>2 DEF Deliver, TypeOK
    <2>3. CASE Suppress(g)
      BY <1>2, <2>3 DEF Suppress, Withdrawn, Live
    <2>4. CASE Disregard(g)
      BY <1>2, <2>4 DEF Disregard
    <2> QED BY <1>3, <2>2, <2>3, <2>4 DEF ApplyEvent
  <1>4. ASSUME NEW w \in Worker, NEW g \in Fact, ClaimDue(w, g)
        PROVE  delivery'[f] = NoDelivery
    BY <1>2, <1>4 DEF ClaimDue, Due, Live, TypeOK
  <1>5. ASSUME NEW w \in Worker, CompleteAttempt(w) PROVE delivery'[f] = NoDelivery
    BY <1>2, <1>5 DEF CompleteAttempt, Stale, TypeOK
  <1>6. CASE delivery' = delivery
    BY <1>2, <1>6
  <1> QED BY <1>3, <1>4, <1>5, <1>6
          DEF Next, vars, Elapse, MarkRead, WorkerStep, Send, Crash

LEMMA RowInvariant == Spec => []RowInv
  <1>1. Init => RowInv
    BY InitType DEF Init, RowInv, Consumed
  <1>2. RowInv /\ [Next]_vars => RowInv'
    BY TypeStep, ConsumedStep DEF RowInv
  <1> QED BY <1>1, <1>2, PTL DEF Spec

(* Nothing settled changes, and no late worker adds an attempt to it.      *)
THEOREM SettledStays == Spec => SettledIsFinal
  <1>1. ASSUME RowInv, [Next]_vars, NEW f \in Fact, delivery[f].state \in Final
        PROVE  /\ delivery'[f] = delivery[f]
               /\ {x \in attempts' : x.fact = f} = {x \in attempts : x.fact = f}
    <2>1. ~Inserted(f) /\ ~Suppressed(f) /\ ~Claimed(f) /\ ~Completed(f)
      BY <1>1 DEF Inserted, Suppressed, Claimed, Completed, NoDelivery, Live, Final
    <2>2. Untouched(f)
      BY <1>1, <2>1, Evolution DEF Evolves
    <2> QED BY <2>2 DEF Untouched
  <1>2. RowInv /\ [Next]_vars =>
           [\A f \in Fact : delivery[f].state \in Final =>
             /\ delivery'[f] = delivery[f]
             /\ {x \in attempts' : x.fact = f} = {x \in attempts : x.fact = f}]_vars
    BY <1>1
  <1> QED BY <1>2, RowInvariant, PTL DEF Spec, SettledIsFinal

-----------------------------------------------------------------------------
(* Suppression *)

(* Once an account is suppressed, none of its deliveries is left to send.  *)
THEOREM SuppressedAreLeftAlone == Spec => []SuppressedGetNothing
  <1>1. Init => SuppressedGetNothing
    BY NotificationAssumption DEF NotificationAssumption, Init, SuppressedGetNothing
  <1>2. RowInv /\ SuppressedGetNothing /\ [Next]_vars => SuppressedGetNothing'
    <2> SUFFICES ASSUME RowInv, SuppressedGetNothing, [Next]_vars,
                        NEW f \in Fact, Recipient[f] \in suppressed'
                 PROVE  delivery'[f].state \notin Live
      BY DEF SuppressedGetNothing
    <2> USE DEF Live, Final
    <2>1. CASE Inserted(f)
      BY <2>1 DEF Inserted
    <2>2. CASE Suppressed(f)
      <3>1. delivery[f] \in Row
        BY <2>2, RowOfState DEF Suppressed, RowInv
      <3> QED BY <2>2, <3>1 DEF Suppressed, Row
    <2>3. CASE Claimed(f) \/ Completed(f)
      BY <2>3 DEF Claimed, Completed, SuppressedGetNothing
    <2>4. CASE Untouched(f)
      BY <2>4 DEF Untouched, SuppressedGetNothing
    <2> QED BY <2>1, <2>2, <2>3, <2>4, Evolution DEF Evolves
  <1> QED BY <1>1, <1>2, RowInvariant, PTL DEF Spec

-----------------------------------------------------------------------------
(* Attempts *)

(* An attempt that decides a delivery is recorded in the step that settles *)
(* it: before, there is none, and after, no other can follow.              *)
ExplainedInv == RowInv /\ AttemptsExplainState

LEMMA ExplainedStep == ExplainedInv /\ [Next]_vars => AttemptsExplainState'
  <1> SUFFICES ASSUME ExplainedInv, [Next]_vars, NEW f \in Fact
               PROVE  /\ delivery'[f].state \in Final \ {"SUPPRESSED"} =>
                            \E x \in attempts' :
                               /\ Deciding(f)' = {x}
                               /\ x.number = delivery'[f].attempt
                               /\ NextState(x.outcome) = delivery'[f].state
                      /\ delivery'[f].state \notin Final => Deciding(f)' = {}
    BY DEF AttemptsExplainState
  <1> USE DEF ExplainedInv, RowInv
  <1>1. /\ delivery[f].state \in Final \ {"SUPPRESSED"} =>
              \E x \in attempts : /\ Deciding(f) = {x}
                                  /\ x.number = delivery[f].attempt
                                  /\ NextState(x.outcome) = delivery[f].state
        /\ delivery[f].state \notin Final => Deciding(f) = {}
    BY DEF AttemptsExplainState
  <1>2. CASE Inserted(f)
    BY <1>1, <1>2 DEF Inserted, Deciding, NoDelivery, Final
  <1>3. CASE Suppressed(f)
    <2>1. delivery[f] \in Row
      BY <1>3, RowOfState DEF Suppressed
    <2> QED BY <1>3, <2>1 DEF Suppressed, Row, Final
  <1>4. CASE Claimed(f)
    BY <1>1, <1>4 DEF Claimed, Deciding, Live, Final
  <1>5. CASE Completed(f)
    <2>1. PICK outcome \in OutcomeName :
             /\ delivery'[f] = [delivery[f] EXCEPT !.state = NextState(outcome)]
             /\ NextState(outcome) \in (Final \ {"SUPPRESSED"}) \cup {"RETRY_SCHEDULED"}
             /\ NextState(outcome) \in Final <=> outcome # "RETRYABLE_FAILURE"
             /\ attempts' = attempts \cup
                  {[fact |-> f, number |-> delivery[f].attempt, outcome |-> outcome]}
      BY <1>5 DEF Completed
    <2> DEFINE new == [fact |-> f, number |-> delivery[f].attempt, outcome |-> outcome]
    <2>2. delivery[f] \in Row /\ delivery[f].state = "PROCESSING"
      BY <1>5, RowOfState DEF Completed, Live
    <2>3. /\ delivery'[f].state = NextState(outcome)
          /\ delivery'[f].attempt = delivery[f].attempt
      BY <2>1, <2>2 DEF Row
    <2>4. Deciding(f) = {}
      BY <1>1, <2>2 DEF Final
    <2>5. CASE outcome = "RETRYABLE_FAILURE"
      <3>1. Deciding(f)' = {}
        BY <2>1, <2>4, <2>5 DEF Deciding
      <3> QED BY <2>1, <2>3, <2>5, <3>1
    <2>6. CASE outcome # "RETRYABLE_FAILURE"
      <3>1. Deciding(f)' = {new}
        BY <2>1, <2>4, <2>6 DEF Deciding
      <3>2. new \in attempts' /\ new.number = delivery[f].attempt /\ new.outcome = outcome
        BY <2>1
      <3> HIDE DEF new
      <3> QED BY <2>1, <2>3, <2>6, <3>1, <3>2
    <2> QED BY <2>5, <2>6
  <1>6. CASE Untouched(f)
    <2>1. Deciding(f)' = Deciding(f)
      BY <1>6 DEF Untouched, Deciding
    <2> QED BY <1>1, <1>6, <2>1 DEF Untouched
  <1> QED BY <1>2, <1>3, <1>4, <1>5, <1>6, Evolution DEF Evolves

(* A settled delivery is explained by its last attempt and by no other.    *)
THEOREM StatesAreExplained == Spec => []AttemptsExplainState
  <1>1. Init => AttemptsExplainState
    BY DEF Init, AttemptsExplainState, Deciding, NoDelivery, Final
  <1>2. RowInv /\ AttemptsExplainState /\ [Next]_vars => AttemptsExplainState'
    BY ExplainedStep DEF ExplainedInv
  <1> QED BY <1>1, <1>2, RowInvariant, PTL DEF Spec

(* What a worker is about to record, the provider has answered.            *)
Answered ==
    \A w \in Worker : job[w].stage \in Result =>
        [fact |-> job[w].fact, attempt |-> job[w].attempt,
         result |-> job[w].stage] \in answers

LEMMA AnsweredStep == TypeOK /\ Answered /\ [Next]_vars => Answered'
  <1> SUFFICES ASSUME TypeOK, Answered, [Next]_vars,
                      NEW w \in Worker, job'[w].stage \in Result
               PROVE  [fact |-> job'[w].fact, attempt |-> job'[w].attempt,
                       result |-> job'[w].stage] \in answers'
    BY DEF Answered
  <1>1. CASE job'[w] = job[w] /\ answers \subseteq answers'
    BY <1>1 DEF Answered
  <1>2. ASSUME NEW v \in Worker, NEW f \in Fact, ClaimDue(v, f)
        PROVE  job'[w] = job[w] /\ answers \subseteq answers'
    BY <1>2 DEF ClaimDue, Result, TypeOK
  <1>3. ASSUME NEW v \in Worker, NEW result \in Result, Send(v, result)
        PROVE  [fact |-> job'[w].fact, attempt |-> job'[w].attempt,
                result |-> job'[w].stage] \in answers'
    <2>1. CASE v # w
      BY <1>3, <2>1 DEF Send, Answered, TypeOK
    <2>2. CASE v = w
      <3>1. job[w] \in Job
        BY <1>3, <2>2, JobOfStage DEF Send
      <3>2. job'[w] = [job[w] EXCEPT !.stage = result]
        BY <1>3, <2>2 DEF Send, TypeOK
      <3>3. job'[w].fact = job[w].fact /\ job'[w].attempt = job[w].attempt /\ job'[w].stage = result
        BY <3>1, <3>2 DEF Job
      <3> QED BY <1>3, <2>2, <3>3 DEF Send
    <2> QED BY <2>1, <2>2
  <1>4. ASSUME NEW v \in Worker, CompleteAttempt(v) \/ Crash(v)
        PROVE  job'[w] = job[w] /\ answers \subseteq answers'
    BY <1>4 DEF CompleteAttempt, Crash, Result, NoJob, TypeOK
  <1>5. CASE UNCHANGED <<job, answers>>
    BY <1>5 DEF Answered
  <1> QED BY <1>1, <1>2, <1>3, <1>4, <1>5
          DEF Next, WorkerStep, ApplyEvent, Elapse, MarkRead, vars

(* Inductive: the answer to an attempt is known before it is recorded, and *)
(* only the worker whose attempt is the row's current one records it.      *)
HonestInv == TypeOK /\ Answered /\ OutcomeIsHonest

LEMMA HonestStep == HonestInv /\ [Next]_vars => OutcomeIsHonest'
  <1> SUFFICES ASSUME HonestInv, [Next]_vars, NEW x \in attempts'
               PROVE  \E y \in answers' :
                         /\ y.fact = x.fact /\ y.attempt = x.number
                         /\ x.outcome = "DELIVERED" <=> y.result = "accepted"
                         /\ x.outcome = "PERMANENT_FAILURE" <=> y.result = "permanent"
    BY DEF OutcomeIsHonest
  <1> USE DEF HonestInv
  <1>1. answers \subseteq answers'
    BY DEF Next, vars, ApplyEvent, Elapse, MarkRead, WorkerStep, ClaimDue, Send,
           CompleteAttempt, Crash
  <1>2. CASE x \in attempts
    BY <1>1, <1>2 DEF OutcomeIsHonest
  <1>3. ASSUME NEW w \in Worker, CompleteAttempt(w), x \notin attempts
        PROVE  \E y \in answers' :
                  /\ y.fact = x.fact /\ y.attempt = x.number
                  /\ x.outcome = "DELIVERED" <=> y.result = "accepted"
                  /\ x.outcome = "PERMANENT_FAILURE" <=> y.result = "permanent"
    <2>1. ~Stale(job[w]) /\ job[w].stage \in Result
      BY <1>3 DEF CompleteAttempt
    <2>2. x = [fact |-> job[w].fact, number |-> delivery[job[w].fact].attempt,
               outcome |-> Outcome(job[w])]
      BY <1>3 DEF CompleteAttempt
    <2>3. x.fact = job[w].fact /\ x.number = job[w].attempt /\ x.outcome = Outcome(job[w])
      BY <2>1, <2>2 DEF Stale
    <2> DEFINE y == [fact |-> job[w].fact, attempt |-> job[w].attempt,
                     result |-> job[w].stage]
    <2>4. y \in answers'
      BY <1>1, <2>1 DEF Answered
    <2>5. /\ Outcome(job[w]) = "DELIVERED" <=> job[w].stage = "accepted"
          /\ Outcome(job[w]) = "PERMANENT_FAILURE" <=> job[w].stage = "permanent"
      BY <2>1, OutcomeOfAnswer
    <2> QED BY <2>3, <2>4, <2>5
  <1>4. CASE attempts' = attempts
    BY <1>2, <1>4
  <1> QED BY <1>2, <1>3, <1>4
          DEF Next, vars, ApplyEvent, Elapse, MarkRead, WorkerStep, ClaimDue, Send, Crash

(* Every recorded outcome is what the provider said of that very attempt.  *)
THEOREM RecordsAreHonest == Spec => []OutcomeIsHonest
  <1>1. Init => HonestInv
    BY InitType DEF Init, HonestInv, Answered, OutcomeIsHonest, NoJob, Result
  <1>2. HonestInv /\ [Next]_vars => HonestInv'
    BY TypeStep, AnsweredStep, HonestStep DEF HonestInv
  <1>3. HonestInv => OutcomeIsHonest
    BY DEF HonestInv
  <1> QED BY <1>1, <1>2, <1>3, PTL DEF Spec

-----------------------------------------------------------------------------
(* How often a delivery is tried *)

(* Attempts are numbered up to the row's count, and the current one, while *)
(* it runs, is not recorded yet.                                           *)
Numbered == \A x \in attempts :
    /\ delivery[x.fact] # NoDelivery
    /\ x.number <= delivery[x.fact].attempt
    /\ delivery[x.fact].state = "PROCESSING" => x.number < delivery[x.fact].attempt

(* A delivery may be claimed once more, or its worker is already gone.     *)
Room(f) == delivery[f].attempt < MaxAttempts + losses

Bounded(f) ==
    /\ delivery[f] # NoDelivery => delivery[f].attempt <= MaxAttempts + losses
    /\ delivery[f].state \in {"PENDING", "RETRY_SCHEDULED"} => Room(f)
    /\ delivery[f].state = "PROCESSING" /\ (elapsed[f] \/ ~Busy(f)) => Room(f)

(* Inductive: whatever lets a row be claimed beyond MaxAttempts has cost a *)
(* crash or a lease, since a worker that keeps its lease records an outcome *)
(* that ends the delivery.                                                 *)
BoundInv == RowInv /\ Numbered /\ \A f \in Fact : Bounded(f)

LEMMA NumberedStep == BoundInv /\ [Next]_vars => Numbered'
  <1> SUFFICES ASSUME BoundInv, [Next]_vars, NEW x \in attempts'
               PROVE  /\ delivery'[x.fact] # NoDelivery
                      /\ x.number <= delivery'[x.fact].attempt
                      /\ delivery'[x.fact].state = "PROCESSING" =>
                            x.number < delivery'[x.fact].attempt
    BY DEF Numbered
  <1> USE DEF BoundInv, RowInv
  <1> DEFINE f == x.fact
  <1>1. f \in Fact /\ x.number \in Nat
    BY TypeStep DEF TypeOK, Attempt
  <1>2. x \in attempts => /\ delivery[f] # NoDelivery
                          /\ delivery[f] \in Row
                          /\ x.number <= delivery[f].attempt
                          /\ delivery[f].state = "PROCESSING" =>
                                x.number < delivery[f].attempt
    BY <1>1 DEF Numbered, TypeOK
  <1>3. CASE Inserted(f)
    BY <1>2, <1>3 DEF Inserted
  <1>4. CASE Suppressed(f)
    BY <1>2, <1>4 DEF Suppressed, Row, NoDelivery
  <1>5. CASE Claimed(f)
    BY <1>1, <1>2, <1>5 DEF Claimed, Row, NoDelivery
  <1>6. CASE Completed(f)
    <2>1. PICK outcome \in OutcomeName :
             /\ delivery'[f] = [delivery[f] EXCEPT !.state = NextState(outcome)]
             /\ NextState(outcome) \in (Final \ {"SUPPRESSED"}) \cup {"RETRY_SCHEDULED"}
             /\ attempts' = attempts \cup
                  {[fact |-> f, number |-> delivery[f].attempt, outcome |-> outcome]}
      BY <1>6 DEF Completed
    <2>2. delivery[f] \in Row
      BY <1>1, <1>6, RowOfState DEF Completed, Live
    <2>3. /\ delivery'[f].attempt = delivery[f].attempt
          /\ delivery'[f].state = NextState(outcome)
          /\ delivery'[f].state # "PROCESSING" /\ delivery'[f].state # "NONE"
      BY <2>1, <2>2 DEF Row, Final
    <2>4. x.number <= delivery[f].attempt
      <3>1. CASE x \in attempts
        BY <1>2, <3>1
      <3>2. CASE x = [fact |-> f, number |-> delivery[f].attempt, outcome |-> outcome]
        <4>1. x.number = delivery[f].attempt
          BY <3>2
        <4> QED BY <1>1, <4>1
      <3> QED BY <2>1, <3>1, <3>2
    <2> QED BY <2>3, <2>4 DEF NoDelivery
  <1>7. CASE Untouched(f)
    BY <1>2, <1>7 DEF Untouched
  <1> QED BY <1>1, <1>3, <1>4, <1>5, <1>6, <1>7, Evolution DEF Evolves

(* A step that leaves a row alone keeps its bound if it loses nobody who   *)
(* works on it without counting the loss.                                  *)
LEMMA BoundKept ==
    ASSUME BoundInv, losses \in Nat, losses' \in Nat, losses <= losses',
           NEW f \in Fact, delivery'[f] = delivery[f],
           \/ losses < losses'
           \/ elapsed'[f] = elapsed[f] /\ (Busy(f) => Busy(f)')
    PROVE  Bounded(f)'
  <1>1. MaxAttempts \in Nat
    BY NotificationAssumption DEF NotificationAssumption
  <1>2. CASE delivery[f] = NoDelivery
    BY <1>2 DEF Bounded, NoDelivery
  <1>3. CASE delivery[f] # NoDelivery
    <2>1. delivery[f].attempt \in Nat
      BY <1>3 DEF BoundInv, RowInv, TypeOK, Row
    <2>2. Bounded(f)
      BY DEF BoundInv
    <2> QED BY <1>1, <1>3, <2>1, <2>2 DEF Bounded, Room
  <1> QED BY <1>2, <1>3

LEMMA BoundStep == BoundInv /\ [Next]_vars => \A f \in Fact : Bounded(f)'
  <1> SUFFICES ASSUME BoundInv, [Next]_vars, NEW f \in Fact PROVE Bounded(f)'
    OBVIOUS
  <1> USE DEF RowInv
  <1>1. TypeOK /\ Numbered /\ Bounded(f)
    BY DEF BoundInv
  <1>2. /\ MaxAttempts \in Nat /\ 0 < MaxAttempts
        /\ losses \in Nat
        /\ losses' \in Nat
    BY <1>1, TypeStep, NotificationAssumption DEF NotificationAssumption, TypeOK
  <1>3. ASSUME NEW g \in Fact, ApplyEvent(g) PROVE Bounded(f)'
    <2>1. losses' = losses /\ job' = job
      BY <1>3 DEF ApplyEvent
    <2>2. CASE delivery'[f] = delivery[f] /\ elapsed'[f] = elapsed[f]
      BY <1>2, <2>1, <2>2, BoundKept DEF Busy
    <2>3. ASSUME NEW preferred \in BOOLEAN, Deliver(g, preferred), f = g
          PROVE  Bounded(f)'
      <3>1. /\ delivery'[f].attempt = 0
            /\ delivery'[f].state \in {"SUPPRESSED", "PENDING"}
        BY <1>1, <2>3 DEF Deliver, TypeOK
      <3>2. /\ delivery'[f].attempt < MaxAttempts + losses'
            /\ delivery'[f].attempt <= MaxAttempts + losses'
        <4>1. 0 < MaxAttempts + losses /\ 0 <= MaxAttempts + losses
          BY <1>2
        <4> QED BY <2>1, <3>1, <4>1
      <3> QED BY <3>1, <3>2 DEF Bounded, Room
    <2>4. ASSUME NEW preferred \in BOOLEAN, Deliver(g, preferred), f # g
          PROVE  delivery'[f] = delivery[f] /\ elapsed'[f] = elapsed[f]
      BY <1>1, <2>4 DEF Deliver, TypeOK
    <2>5. ASSUME Suppress(g), Recipient[f] = Recipient[g], Withdrawn(f)
          PROVE  Bounded(f)'
      <3>1. delivery[f] \in Row
        BY <1>1, <2>5, RowOfState DEF Withdrawn
      <3>2. delivery'[f] = [delivery[f] EXCEPT !.state = "SUPPRESSED"]
        BY <2>5 DEF Suppress
      <3>3. delivery'[f].state = "SUPPRESSED" /\ delivery'[f].attempt = delivery[f].attempt
        BY <3>1, <3>2 DEF Row
      <3>4. delivery[f] # NoDelivery
        BY <2>5 DEF Withdrawn, Live, NoDelivery
      <3> QED BY <1>1, <2>1, <3>3, <3>4 DEF Bounded
    <2>6. ASSUME Suppress(g), ~(Recipient[f] = Recipient[g] /\ Withdrawn(f))
          PROVE  delivery'[f] = delivery[f] /\ elapsed'[f] = elapsed[f]
      BY <2>6 DEF Suppress
    <2>7. ASSUME Disregard(g)
          PROVE  delivery'[f] = delivery[f] /\ elapsed'[f] = elapsed[f]
      BY <2>7 DEF Disregard
    <2> QED BY <1>3, <2>2, <2>3, <2>4, <2>5, <2>6, <2>7 DEF ApplyEvent
  <1>4. ASSUME NEW g \in Fact, Elapse(g) PROVE Bounded(f)'
    <2>1. delivery' = delivery /\ job' = job /\ losses <= losses'
      BY <1>2, <1>4 DEF Elapse, Loss
    <2>2. CASE f # g
      <3>1. elapsed'[f] = elapsed[f]
        BY <1>1, <1>4, <2>2 DEF Elapse, TypeOK
      <3> QED BY <1>2, <2>1, <3>1, BoundKept DEF Busy
    <2>3. CASE losses < losses'
      BY <1>2, <2>1, <2>3, BoundKept
    <2>4. CASE f = g /\ losses' = losses
      <3>1. Room(f)
        BY <1>1, <1>2, <1>4, <2>4 DEF Elapse, Loss, Bounded
      <3> QED BY <1>1, <2>1, <2>4, <3>1 DEF Bounded, Room
    <2> QED BY <1>2, <2>1, <2>2, <2>3, <2>4
  <1>5. ASSUME NEW F \in SUBSET Fact, MarkRead(F) PROVE Bounded(f)'
    BY <1>2, <1>5, BoundKept DEF MarkRead, Busy
  <1>6. ASSUME NEW w \in Worker, NEW g \in Fact, ClaimDue(w, g) PROVE Bounded(f)'
    <2>1. losses' = losses
      BY <1>6 DEF ClaimDue
    <2>2. CASE f = g
      <3>1. delivery[f].attempt \in Nat /\ Room(f)
        BY <1>1, <1>6, <2>2, RowOfState DEF ClaimDue, Due, Live, Row, Bounded
      <3>2. /\ delivery'[f].state = "PROCESSING"
            /\ delivery'[f].attempt = delivery[f].attempt + 1
            /\ elapsed'[f] = FALSE
        BY <1>1, <1>6, <2>2 DEF ClaimDue, TypeOK
      <3>3. Busy(f)'
        <4>1. /\ job'[w] # NoJob /\ job'[w].fact = f
              /\ job'[w].attempt = delivery'[f].attempt
          BY <1>1, <1>6, <2>2, <3>2 DEF ClaimDue, TypeOK, NoJob
        <4> QED BY <4>1 DEF Busy
      <3>4. delivery'[f].attempt <= MaxAttempts + losses'
        BY <1>2, <2>1, <3>1, <3>2 DEF Room
      <3> QED BY <3>2, <3>3, <3>4 DEF Bounded
    <2>3. CASE f # g
      <3>1. delivery'[f] = delivery[f] /\ elapsed'[f] = elapsed[f]
        BY <1>1, <1>6, <2>3 DEF ClaimDue, TypeOK
      <3>2. Busy(f) => Busy(f)'
        BY <1>1, <1>6, <3>1 DEF ClaimDue, Busy, TypeOK
      <3> QED BY <1>2, <2>1, <3>1, <3>2, BoundKept
    <2> QED BY <2>2, <2>3
  <1>7. ASSUME NEW w \in Worker, NEW result \in Result, Send(w, result)
        PROVE  Bounded(f)'
    <2>1. losses' = losses /\ delivery' = delivery /\ elapsed' = elapsed
      BY <1>7 DEF Send
    <2>2. job[w] \in Job
      BY <1>1, <1>7, JobOfStage DEF Send
    <2>3. job'[w] = [job[w] EXCEPT !.stage = result]
      BY <1>1, <1>7 DEF Send, TypeOK
    <2>4. /\ job'[w].fact = job[w].fact /\ job'[w].attempt = job[w].attempt
          /\ job'[w].stage = result
      BY <2>2, <2>3 DEF Job
    <2>5. job'[w] # NoJob
      BY <2>4 DEF NoJob, Result
    <2>6. \A v \in Worker : v # w => job'[v] = job[v]
      BY <1>1, <1>7 DEF Send, TypeOK
    <2>7. Busy(f) => Busy(f)'
      BY <2>1, <2>4, <2>5, <2>6 DEF Busy
    <2> QED BY <1>2, <2>1, <2>7, BoundKept
  <1>8. ASSUME NEW w \in Worker, CompleteAttempt(w) PROVE Bounded(f)'
    <2>1. job[w] \in Job /\ losses' = losses
      BY <1>1, <1>8, JobOfStage DEF CompleteAttempt, Result
    <2>2. \A v \in Worker : v # w => job'[v] = job[v]
      BY <1>1, <1>8 DEF CompleteAttempt, TypeOK
    <2> DEFINE g == job[w].fact
               j == job[w]
    <2>3. ASSUME delivery'[f] = delivery[f], elapsed'[f] = elapsed[f],
                 delivery[f].state = "PROCESSING" /\ Busy(f) => Busy(f)'
          PROVE  Bounded(f)'
      BY <1>1, <2>1, <2>3 DEF Bounded, Room
    <2>4. CASE Stale(j) \/ Recorded(g)
      <3>1. delivery' = delivery /\ elapsed' = elapsed
        BY <1>8, <2>4 DEF CompleteAttempt
      <3>2. ASSUME delivery[f].state = "PROCESSING", g = f,
                   j.attempt = delivery[f].attempt
            PROVE  FALSE
        <4>1. ~Stale(j)
          BY <3>2 DEF Stale
        <4>2. PICK x \in attempts : x.fact = f /\ x.number = delivery[f].attempt
          BY <2>4, <3>2, <4>1 DEF Recorded
        <4>3. x.number < delivery[f].attempt
          BY <1>1, <3>2, <4>2 DEF Numbered
        <4>4. x.number \in Nat
          BY <1>1 DEF TypeOK, Attempt
        <4> QED BY <4>2, <4>3, <4>4
      <3>3. delivery[f].state = "PROCESSING" /\ Busy(f) => Busy(f)'
        BY <2>2, <3>1, <3>2 DEF Busy
      <3> QED BY <2>3, <3>1, <3>3
    <2>5. CASE ~(Stale(j) \/ Recorded(g)) /\ f # g
      <3>1. delivery'[f] = delivery[f] /\ elapsed'[f] = elapsed[f]
        BY <1>1, <1>8, <2>5 DEF CompleteAttempt, TypeOK
      <3>2. Busy(f) => Busy(f)'
        BY <2>2, <2>5, <3>1 DEF Busy
      <3> QED BY <2>3, <3>1, <3>2
    <2>6. CASE ~(Stale(j) \/ Recorded(g)) /\ f = g
      <3>1. delivery[f] \in Row /\ delivery[f] # NoDelivery
        BY <1>1, <2>6, RowOfState DEF Stale, Live, NoDelivery
      <3>2. delivery'[f] = [delivery[f] EXCEPT !.state = NextState(Outcome(j))]
        BY <1>1, <1>8, <2>6 DEF CompleteAttempt, TypeOK
      <3>3. /\ delivery'[f].state = NextState(Outcome(j))
            /\ delivery'[f].attempt = delivery[f].attempt
        BY <3>1, <3>2 DEF Row
      <3>4. NextState(Outcome(j)) \in Final \cup {"RETRY_SCHEDULED"}
        BY OutcomeType
      <3>5. NextState(Outcome(j)) = "RETRY_SCHEDULED" =>
               delivery[f].attempt < MaxAttempts
        <4>1. NextState(Outcome(j)) = "RETRY_SCHEDULED" => Outcome(j) = "RETRYABLE_FAILURE"
          BY OutcomeType DEF Final
        <4>2. delivery[f].attempt \in Nat
          BY <3>1 DEF Row
        <4>3. Outcome(j) = "RETRYABLE_FAILURE" => ~(delivery[f].attempt >= MaxAttempts)
          BY <2>6 DEF Outcome
        <4> QED BY <1>2, <4>1, <4>2, <4>3
      <3>6. delivery[f].attempt \in Nat /\ delivery[f].attempt <= MaxAttempts + losses
        BY <1>1, <3>1 DEF Bounded, Row
      <3>7. NextState(Outcome(j)) \notin {"PENDING", "PROCESSING"}
        BY <3>4 DEF Final
      <3>8. delivery'[f].state = "RETRY_SCHEDULED" => Room(f)'
        BY <1>2, <2>1, <3>3, <3>5, <3>6 DEF Room
      <3> QED BY <2>1, <3>3, <3>6, <3>7, <3>8 DEF Bounded
    <2> QED BY <2>4, <2>5, <2>6
  <1>9. ASSUME NEW w \in Worker, Crash(w) PROVE Bounded(f)'
    BY <1>2, <1>9, BoundKept DEF Crash, Loss
  <1>10. CASE UNCHANGED vars
    BY <1>2, <1>10, BoundKept DEF vars, Busy
  <1>11. \A a \in Account : Unread(a) \in SUBSET Fact
    BY DEF Unread
  <1>12. \A g \in Fact : {g} \in SUBSET Fact
    OBVIOUS
  <1> QED BY <1>3, <1>4, <1>5, <1>6, <1>7, <1>8, <1>9, <1>10, <1>11, <1>12
          DEF Next, WorkerStep

(* No delivery is tried more often than allowed, but for one attempt for   *)
(* every crash and every lease that was outlived.                          *)
THEOREM TriesAreBounded == Spec => []AttemptsAreBounded
  <1>1. Init => BoundInv
    BY InitType DEF Init, BoundInv, RowInv, Consumed, Numbered, Bounded, NoDelivery
  <1>2. BoundInv /\ [Next]_vars => BoundInv'
    BY TypeStep, ConsumedStep, NumberedStep, BoundStep DEF BoundInv, RowInv
  <1>3. BoundInv => AttemptsAreBounded
    BY DEF BoundInv, Bounded, AttemptsAreBounded
  <1> QED BY <1>1, <1>2, <1>3, PTL DEF Spec
=============================================================================
