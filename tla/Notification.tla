---------------------------- MODULE Notification -----------------------------
(***************************************************************************)
(* The notification service: the consumer that turns facts of the account  *)
(* and booking services into deliveries or into the suppression of an      *)
(* account, the workers that send deliveries through a provider, and the   *)
(* member's feed.                                                          *)
(*                                                                         *)
(* The consumer handles one message at a time in one transaction.  A       *)
(* worker claims a delivery for the time of a lease, sends outside of any  *)
(* transaction, and records the attempt in another one: it may crash or    *)
(* outlive its lease in between, and another worker takes over.            *)
(***************************************************************************)
EXTENDS Naturals, FiniteSets

CONSTANTS
    Account,      \* members
    Fact,         \* facts on the queue, any number of copies each
    Plan,         \* [Fact -> Action]: what the router makes of a fact
    Recipient,    \* [Fact -> Account]
    Worker,       \* delivery workers
    MaxAttempts,  \* NOTIFICATION_MAX_ATTEMPTS
    MaxLosses     \* bound on crashes of workers and on leases that they outlive

Action == {"DELIVER", "SUPPRESS", "IGNORE"}

ASSUME NotificationAssumption ==
    /\ Plan \in [Fact -> Action]
    /\ Recipient \in [Fact -> Account]
    /\ MaxAttempts \in Nat \ {0}
    /\ MaxLosses \in Nat

VARIABLES
    inbox,       \* table notification_inbox: facts already consumed
    suppressed,  \* table notification_suppression
    delivery,    \* table notification_delivery, one row per fact at most
    elapsed,     \* [Fact -> BOOLEAN]: the row's next_attempt_at or, while it
                 \* is processed, its lease_until has come
    attempts,    \* table notification_delivery_attempt
    feed,        \* table notification_feed_item: "none", "unread", "read"
    job,         \* [Worker -> what it is busy with]
    answers,     \* what the provider, or the way to it, answered
    losses       \* crashes and outlived leases so far

vars == <<inbox, suppressed, delivery, elapsed, attempts, feed, job, answers,
          losses>>

-----------------------------------------------------------------------------
(* Types *)

Live == {"PENDING", "PROCESSING", "RETRY_SCHEDULED"}
Final == {"DELIVERED", "SUPPRESSED", "PERMANENTLY_FAILED", "DEAD_LETTERED"}
NoDelivery == [state |-> "NONE"]
Row == [state: Live \cup Final, attempt: Nat]

Result == {"accepted", "retryable", "permanent"}
NoJob == [stage |-> "idle"]
Job == [stage: {"claimed"} \cup Result, fact: Fact, attempt: Nat]

Answer == [fact: Fact, attempt: Nat, result: Result]
OutcomeName == {"DELIVERED", "RETRYABLE_FAILURE", "PERMANENT_FAILURE",
                "DEAD_LETTERED"}
Attempt == [fact: Fact, number: Nat, outcome: OutcomeName]

TypeOK ==
    /\ inbox \subseteq Fact
    /\ suppressed \subseteq Account
    /\ delivery \in [Fact -> Row \cup {NoDelivery}]
    /\ elapsed \in [Fact -> BOOLEAN]
    /\ attempts \subseteq Attempt
    /\ feed \in [Fact -> {"none", "unread", "read"}]
    /\ job \in [Worker -> Job \cup {NoJob}]
    /\ answers \subseteq Answer
    /\ losses \in 0..MaxLosses

Init ==
    /\ inbox = {}
    /\ suppressed = {}
    /\ delivery = [f \in Fact |-> NoDelivery]
    /\ elapsed = [f \in Fact |-> FALSE]
    /\ attempts = {}
    /\ feed = [f \in Fact |-> "none"]
    /\ job = [w \in Worker |-> NoJob]
    /\ answers = {}
    /\ losses = 0

Loss == losses < MaxLosses /\ losses' = losses + 1

-----------------------------------------------------------------------------
(* ApplyEvent.  A fact of the inbox is acknowledged without effect; the    *)
(* plan of the others decides.                                             *)

(* The member's preference is never written by the service: it may be      *)
(* anything when it is read.                                               *)
Deliver(f, preferred) ==
    LET state == IF Recipient[f] \in suppressed \/ ~preferred
                   THEN "SUPPRESSED" ELSE "PENDING" IN
    /\ Plan[f] = "DELIVER"
    /\ delivery' = [delivery EXCEPT ![f] = [state |-> state, attempt |-> 0]]
    /\ elapsed' = [elapsed EXCEPT ![f] = TRUE]
    /\ feed' = [feed EXCEPT ![f] = IF state = "PENDING" THEN "unread" ELSE @]
    /\ UNCHANGED suppressed

(* Mutant: a delivery that is being sent is left alone. *)
WithdrawnIdle(f) == delivery[f].state \in {"PENDING", "RETRY_SCHEDULED"}

(* What the suppression of an account takes back. *)
Withdrawn(f) == delivery[f].state \in Live

Suppress(f) ==
    LET a == Recipient[f] IN
    /\ Plan[f] = "SUPPRESS"
    /\ suppressed' = suppressed \cup {a}
    /\ delivery' = [g \in Fact |->
           IF Recipient[g] = a /\ Withdrawn(g)
             THEN [delivery[g] EXCEPT !.state = "SUPPRESSED"] ELSE delivery[g]]
    /\ UNCHANGED <<elapsed, feed>>

Disregard(f) ==
    /\ Plan[f] = "IGNORE"
    /\ UNCHANGED <<suppressed, delivery, elapsed, feed>>

ApplyEvent(f) ==
    /\ f \notin inbox
    /\ inbox' = inbox \cup {f}
    /\ \/ \E preferred \in BOOLEAN : Deliver(f, preferred)
       \/ Suppress(f)
       \/ Disregard(f)
    /\ UNCHANGED <<attempts, job, answers, losses>>

-----------------------------------------------------------------------------
(* Time *)

(* Some worker still has the job that the row's current attempt is. *)
Busy(f) == \E w \in Worker : /\ job[w] # NoJob
                             /\ job[w].fact = f
                             /\ job[w].attempt = delivery[f].attempt

(* The delay of a retry passes, or the lease of an attempt ends. *)
Elapse(f) ==
    /\ ~elapsed[f]
    /\ \/ delivery[f].state = "RETRY_SCHEDULED" /\ UNCHANGED losses
       \/ /\ delivery[f].state = "PROCESSING"
          /\ IF Busy(f) THEN Loss ELSE UNCHANGED losses
    /\ elapsed' = [elapsed EXCEPT ![f] = TRUE]
    /\ UNCHANGED <<inbox, suppressed, delivery, attempts, feed, job, answers>>

-----------------------------------------------------------------------------
(* The workers *)

(* Mutant: the lease of a crashed worker is never taken over. *)
DueUnleased(f) ==
    delivery[f].state \in {"PENDING", "RETRY_SCHEDULED"} /\ elapsed[f]

Due(f) == delivery[f].state \in Live /\ elapsed[f]

ClaimDue(w, f) ==
    LET attempt == delivery[f].attempt + 1 IN
    /\ job[w] = NoJob
    /\ Due(f)
    /\ delivery' = [delivery EXCEPT ![f] =
           [state |-> "PROCESSING", attempt |-> attempt]]
    /\ elapsed' = [elapsed EXCEPT ![f] = FALSE]
    /\ job' = [job EXCEPT ![w] =
           [stage |-> "claimed", fact |-> f, attempt |-> attempt]]
    /\ UNCHANGED <<inbox, suppressed, attempts, feed, answers, losses>>

(* Rendering, resolving the recipient and sending, whatever comes of it. *)
Send(w, result) ==
    /\ job[w].stage = "claimed"
    /\ job' = [job EXCEPT ![w].stage = result]
    /\ answers' = answers \cup
           {[fact |-> job[w].fact, attempt |-> job[w].attempt, result |-> result]}
    /\ UNCHANGED <<inbox, suppressed, delivery, elapsed, attempts, feed, losses>>

(* Mutant: the attempt is not compared. *)
StaleByState(j) == delivery[j.fact].state # "PROCESSING"

(* The delivery was suppressed or taken over meanwhile. *)
Stale(j) ==
    \/ delivery[j.fact].state # "PROCESSING"
    \/ delivery[j.fact].attempt # j.attempt

(* The UNIQUE (delivery_id, attempt_number) of the table refuses the row. *)
Recorded(f) ==
    \E x \in attempts : x.fact = f /\ x.number = delivery[f].attempt

(* Mutant: one attempt too many. *)
OutcomeOffByOne(j) ==
    IF j.stage = "accepted" THEN "DELIVERED"
    ELSE IF j.stage = "permanent" THEN "PERMANENT_FAILURE"
    ELSE IF delivery[j.fact].attempt > MaxAttempts THEN "DEAD_LETTERED"
    ELSE "RETRYABLE_FAILURE"

Outcome(j) ==
    IF j.stage = "accepted" THEN "DELIVERED"
    ELSE IF j.stage = "permanent" THEN "PERMANENT_FAILURE"
    ELSE IF delivery[j.fact].attempt >= MaxAttempts THEN "DEAD_LETTERED"
    ELSE "RETRYABLE_FAILURE"

(* Mutant: a dead letter is scheduled once more. *)
NextStateAgain(outcome) ==
    CASE outcome = "PERMANENT_FAILURE" -> "PERMANENTLY_FAILED"
      [] outcome = "DELIVERED"         -> "DELIVERED"
      [] OTHER                         -> "RETRY_SCHEDULED"

NextState(outcome) ==
    CASE outcome = "PERMANENT_FAILURE" -> "PERMANENTLY_FAILED"
      [] outcome = "RETRYABLE_FAILURE" -> "RETRY_SCHEDULED"
      [] OTHER                         -> outcome

(* The row that is inserted takes its number from the locked delivery. *)
CompleteAttempt(w) ==
    LET j == job[w]
        f == job[w].fact
        attempt == [fact |-> f, number |-> delivery[f].attempt,
                    outcome |-> Outcome(j)] IN
    /\ j.stage \in Result
    /\ job' = [job EXCEPT ![w] = NoJob]
    /\ IF Stale(j) \/ Recorded(f)
         THEN UNCHANGED <<delivery, elapsed, attempts>>
         ELSE /\ attempts' = attempts \cup {attempt}
              /\ delivery' = [delivery EXCEPT ![f].state = NextState(Outcome(j))]
              /\ elapsed' = [elapsed EXCEPT ![f] = FALSE]
    /\ UNCHANGED <<inbox, suppressed, feed, answers, losses>>

(* The worker stops between its two transactions, or the second one fails. *)
Crash(w) ==
    /\ job[w] # NoJob
    /\ Loss
    /\ job' = [job EXCEPT ![w] = NoJob]
    /\ UNCHANGED <<inbox, suppressed, delivery, elapsed, attempts, feed, answers>>

-----------------------------------------------------------------------------
(* The feed: PATCH .../{notificationId}/read and POST .../read-all. *)

MarkRead(F) ==
    /\ F # {} /\ \A f \in F : feed[f] = "unread"
    /\ feed' = [f \in Fact |-> IF f \in F THEN "read" ELSE feed[f]]
    /\ UNCHANGED <<inbox, suppressed, delivery, elapsed, attempts, job, answers,
                   losses>>

Unread(a) == {f \in Fact : Recipient[f] = a /\ feed[f] = "unread"}

-----------------------------------------------------------------------------
WorkerStep(w) ==
    \/ \E f \in Fact : ClaimDue(w, f)
    \/ \E result \in Result : Send(w, result)
    \/ CompleteAttempt(w)

Next ==
    \/ \E f \in Fact : ApplyEvent(f) \/ Elapse(f) \/ MarkRead({f})
    \/ \E w \in Worker : WorkerStep(w) \/ Crash(w)
    \/ \E a \in Account : MarkRead(Unread(a))

Spec == Init /\ [][Next]_vars

(* The workers poll every second and wait for a provider no longer than it *)
(* takes; time passes.                                                     *)
FairSpec ==
    /\ Spec
    /\ \A w \in Worker : WF_vars(WorkerStep(w))
    /\ \A f \in Fact : WF_vars(Elapse(f))

-----------------------------------------------------------------------------
(* Properties *)

(* What the service records of an attempt is what the provider answered to *)
(* that very attempt, although the worker that reports it may have lost    *)
(* its lease to another one long ago.                                      *)
OutcomeIsHonest ==
    \A x \in attempts : \E y \in answers :
        /\ y.fact = x.fact /\ y.attempt = x.number
        /\ x.outcome = "DELIVERED" <=> y.result = "accepted"
        /\ x.outcome = "PERMANENT_FAILURE" <=> y.result = "permanent"

(* The attempts explain the delivery: it is settled by exactly one of      *)
(* them, which is the last, unless it was suppressed.                      *)
Deciding(f) == {x \in attempts : x.fact = f /\ x.outcome # "RETRYABLE_FAILURE"}

AttemptsExplainState ==
    \A f \in Fact :
        /\ delivery[f].state \in Final \ {"SUPPRESSED"} =>
              \E x \in attempts : /\ Deciding(f) = {x}
                                  /\ x.number = delivery[f].attempt
                                  /\ NextState(x.outcome) = delivery[f].state
        /\ delivery[f].state \notin Final => Deciding(f) = {}

(* "Deactivated accounts cannot receive a newly consumed delivery", and    *)
(* nothing that was consumed before is left to be sent.                    *)
SuppressedGetNothing ==
    \A f \in Fact : Recipient[f] \in suppressed => delivery[f].state \notin Live

(* A delivery is not tried more often than configured ("Maximum provider   *)
(* attempts"), except once more for each attempt whose worker crashed or   *)
(* outlived its lease.                                                     *)
AttemptsAreBounded ==
    \A f \in Fact : delivery[f] # NoDelivery =>
        delivery[f].attempt <= MaxAttempts + losses

(* What is delivered, failed, dead-lettered or suppressed stays so, and no *)
(* late worker adds an attempt to it.                                      *)
SettledIsFinal ==
    [][\A f \in Fact : delivery[f].state \in Final =>
         /\ delivery'[f] = delivery[f]
         /\ {x \in attempts' : x.fact = f} = {x \in attempts : x.fact = f}]_vars

(* Every delivery is settled in the end, whichever workers crash. *)
DeliveriesSettle ==
    \A f \in Fact : delivery[f] # NoDelivery ~> delivery[f].state \in Final
=============================================================================
