# MatchMate: a verification project

MatchMate sells seats for dating events, takes payments, pairs the participants of an event and lets the
pairs decide whether they want to meet.  It is a set of Go services, each with its own PostgreSQL database,
which call one another over HTTP and exchange facts through RabbitMQ.  This directory holds TLA+ models of
those services, the TLC configurations that check them and proofs that TLAPS checks.

The models are written from the code under `src/services`.  Where a document or a comment says something
else than the code, the model follows the code, and a property says what does hold (see *Disagreements*).

## 1. The system

### Components, their state and operations

| Component | State | Operations that change it |
|---|---|---|
| booking-service | `booking`, `capacity_allocation` (held and confirmed counters per event), `idempotency_record`, `inbox`, `outbox` | `Create`, `Cancel` (API); `Expire` (expiry worker, every 5 s, 100 rows); `ApplyPaymentEvent` (consumer of payment facts); the payment snapshot is a read |
| payment-service | `payment` (one per booking), `idempotency_record`, `provider_callback`, `payment_audit`, `reconciliation_item`, `outbox` | `Initiate` (API, after reading the booking's snapshot over HTTP), `ApplyCallback` (the provider), `OpenPendingReconciliation` (worker, every minute) |
| outbox relays (booking, payment, event, account, moderation) | the `outbox` table's `published_at`, `claimed_at`; a channel with publisher confirms | claim a batch, publish row by row, wait for a confirmation, mark |
| notification-service | `notification_delivery`, `_attempt`, `_suppression`, `_inbox`, `_feed_item` | `ApplyEvent` (consumer), `ClaimDue` / send / `CompleteAttempt` (delivery workers), `MarkRead`, `MarkAllRead` |
| matchmaking-service | runs, candidates, locked pairings, responses, reveal consents, feedback | `Generate`, `Review`, `Override`, `Lock`, `Publish`, `Respond`, `Consent`, `Feedback`; a deterministic pairing engine |
| account-service | accounts, refresh-session families, profiles, preferences, blocks, `outbox` | register, verify, login, refresh, logout, profile updates and decisions, block, deactivate |
| event-service | events with optimistic versions, images, audit, `outbox` | create, update, transition, upload image |
| moderation-service | reports, cases, actions, appeals, `outbox`, an in-memory rate limit | report, assign, update status, act, appeal, decide, expire |
| graphql-gateway, frontend | none | translate requests |

### How they interact

* booking reads the event (event-service) over HTTP *before* `Create`'s transaction;
* payment reads the booking's payment snapshot over HTTP *before* `Initiate`'s transaction;
* payment's facts `PaymentCompleted` and `PaymentReviewRequired` reach booking through payment's outbox relay,
  the broker and `payment-consumer`;
* booking's and account's facts reach notification in the same way;
* within a service, API handlers and workers meet only in the database.  Their transactions run at
  READ COMMITTED with explicit row locks, so what keeps them apart is `FOR UPDATE`, conditional `UPDATE`s and
  unique indexes.

### What is hard

* **Interleavings across transactions**: two members and the last seat; an expiry, a cancellation and a payment
  of one hold; two delivery workers; two relays.
* **Reads before the transaction**: the event snapshot, the payment snapshot.
* **Unreliable messages**: facts and provider callbacks are repeated, late, out of order or lost; publisher
  confirmations come late.
* **Time**: a hold ends when its payment completes; a lease ends while the provider answers; a claim goes stale.
* **Crashes** between sending and recording what was sent (relays, delivery workers).
* **Bookkeeping**: counters kept by increments in four transactions; facts that must agree with rows.

### What makes each component correct

* booking: never more seats than capacity; counters equal the rows; one active booking per member and event;
  a retry never books twice; confirmed only when paid in time; nothing that ended is revived; every hold ends;
  payments are consumed and never lost.
* payment: one order per booking; one outcome, published once, final; completed only on a verified callback;
  a key names one payment; silence is reported.
* relays: a row is marked only when the broker has it; every fact is published in the end.
* notification: a recorded attempt is the attempt that was made; settled is final; deactivated members get
  nothing; every delivery settles.
* matchmaking: nobody is paired twice; a locked run does not change; mutual interest is established exactly when
  both are interested; a reveal needs the current consent of both.
* account: reuse of a refresh token ends the family; no access token is current after a deactivation (a
  refresh session that a racing login or rotation creates does live on).
* event: only legal transitions; versions order all changes; a fact per change; what Booking has read of an open event
  does not change.
* moderation: one active equivalent action; an action ends once; a decided appeal stays decided.

The hazards of the code, each at its line and with the properties that cover it, are listed in `PROJECT.json`.

## 2. The plan

Ordered by importance; all of it is done.

1. `SeatSale` (abstract) and `Booking` with `BookingProofs`: money and seats.
2. `Payment` with `PaymentProofs`.
3. `BookingPayment`, which composes the two: the real payment service in place of Booking's assumed one; its proofs
   are in `PaymentProofs` too.
4. `Outbox`, with its proofs in `EventProofs`.
5. `Notification` with `NotificationProofs`.
6. `Hungarian`, `MatchRules`, `MatchEngine`: the pairing engine, with `MatchEngineProofs`; `Matchmaking`: runs and the
   answers of members at READ COMMITTED, with `MatchmakingProofs`.
7. `AccountSession` with `AccountProofs`: session families, rotation, reuse and deactivation.
8. `EventLifecycle` with `EventProofs`: optimistic versions, images, facts.
9. `Moderation` with `ModerationProofs`: cases, actions, appeals and expiry.

What could follow: what is proved of Booking restated for `BookingPayment` (it follows from `PaymentServesBooking`); the
preferences and the token expiry of the account service; a composition of account, moderation and notification over the
facts that link them.

## 3. The modules and the code

`PROJECT.json` maps every definition to the lines it stands for.

### `Booking` — `services/booking-service`

Variables are tables: `booking` (rows by id), `held` and `confirmed` (`capacity_allocation`), `idempotency`,
`inbox`, `outbox` (per booking, in commit order), plus the clock `now`, and two variables of the payment
service as booking meets it: `initiated` and `paymentFacts`, the facts that are with the broker for good (a
message may be delivered again at any time).  One action is one transaction: `Create`, `Cancel`, `Expire`,
`ApplyPaymentEvent` (with its four outcomes `Confirm`, `Review`, `Ignore`, or no step at all when the unique
index refuses the review and the message is requeued).  `Create` takes the event snapshot of an *earlier* time
`at`, as the handler does.  Waits for row locks, and deadlocks that PostgreSQL resolves by aborting one
transaction, have no effect on tables and are stuttering.

Abstractions: prices, currencies and answers to clients are left out.  An idempotency row has no request
fingerprint: a known key leads to a replay or to a conflict, and neither writes.  The capacity of an event is a
constant: `capacity_allocation` keeps the first capacity and policy version it saw, and refuses bookings under
another version.

### `SeatSale`

What a sale of seats promises: a seat is taken only while one is free and by a member who holds none of that event,
a held seat is sold or released, and sold and released are final.  `Booking` implements it under the
mapping `Sale` (`PENDING_PAYMENT` is held, `CONFIRMED` is sold, everything later is released).

### `Payment` — `services/payment-service`

`Initiate` is two steps, `ReadSnapshot` and the transaction, with the request in between in `requests`; the snapshot
it rests on may be gone by then.  `Callback` is one transaction: every callback is stored by its
fingerprint, and only a `PENDING` payment changes.  A callback is abstracted to its order, its status class and
whether signature, merchant, amount and currency agree.  `payable` stands for the booking service; it changes as
it pleases in `Payment` and is Booking's own state in `BookingPayment`.

### `BookingPayment`

Extends `Payment` and instantiates `Booking` (as `B`) over the same clock: `Payable` is what the snapshot endpoint would
answer, `PaymentFacts` what the outcomes in payment's outbox become for booking, `Ordered` the bookings somebody has asked
to pay for.  A step is one of the booking service (`BookingStep`, the clock included) or one of the payment service
(`OrderStep`).  Delivery keeps Booking's assumptions: any order, repeatedly, or never.  The clock is Booking's, and a
tick of it may end holds, which is why a `Tick` of `Payment` may change what is `payable`.

### `Outbox` — the relays

`Claim` is `ClaimOutbox` (unpublished and unclaimed for a minute), `Publish`/`ReadConfirm`/`GiveUpConfirm` the
loop of `cmd/outbox-relay/main.go`, with the channel to the broker (`wire`) and the confirmations
(`confirms`) as queues.  As in the code a confirmation is read without looking at which message it confirms.  The
relay reconnects only by being restarted.  The broker (`Store`, `Refuse`, `Disconnect`) is external.

### `Notification` — `services/notification-service`

`ApplyEvent` is one transaction with the router's three plans; the member's preference is any Boolean when it is
read, because the service never writes it.  A worker's `ClaimDue`, `Send` and `CompleteAttempt` are three
steps; `Elapse` lets a retry delay or a lease end, also while the worker is still busy.  `answers` is what
the provider answered, which the service cannot see: properties compare its records with it.  One consumer
process handles one message at a time, as in the compose file.  `ClaimDue` may take any due row, the code takes
the oldest: everything the code can do is included.

### `Hungarian`, `MatchRules`, `MatchEngine` — the pairing engine of `services/matchmaking-service`

`Hungarian` is `hungarianMax`: the arrays `u`, `v`, `p`, `way`, `minv` and `used` keep their names, `Search` is one turn
of the loop that looks for a free column, `Shift` one turn of the loop that moves rows along the path found, and column 0
is the code's place for the row being assigned.  The code's `math.MaxInt` in `minv` is "nothing known yet" (`j0 = 0` in
`Better`); weights and potentials are far below the width of an `int`.  `MatchRules` has the hard rules (both
directions of ages, blocks and deal breakers, confirmed bookings, prior partners) and the six component scores with the
code's integer divisions.  `MatchEngine` builds the weights out of both (an edge is worth more than all scores
together, the smaller group is padded), runs `Hungarian` and reads off pairs, and the reasons given to those who are left
out.  `EdgeBonus` is the code's `maxPrototypePeople*100 + 1`, and `MaxPrototypePeople` stays its 10,000: `validateParticipants`
refuses an event with more people (`ValidParticipants`), which is what the weights rely on.  `IsParticipant` says
of the lists and maps of a participant what Go's are in any case, that they are finite.  The prototype's comparison with other algorithms and the texts of explanations are not modelled.

### `Matchmaking` — the store of `services/matchmaking-service`

`run` joins the tables of a run, its candidates and its selections; `locked` joins `locked_pairing` and
`locked_participant`, whose unique constraint is `SomeoneLocked`.  A command on a run locks its row and is one action.  A
member's answer takes an advisory lock made of match *and member*, so the two members do not wait for each other:
`Respond` inserts and counts the answers in sight, `Answered` commits, `Lost` is a service that dies between.  `raced`
remembers the matches whose two answers were counted side by side.  `Generate` takes any of the largest sets of fit
pairs, which is what `MatchEngine` shows of the engine; `Reproject` lets projections change at any time.  The fingerprint
of a key, audit rows and explanations are left out.

### `AccountSession` — `services/account-service`

`session` is the table of refresh sessions.  `Login` reads the account and `NewSession` stores a session and an access
token from what was read; `Rotate` locks the row of a refresh token, `Rotated` commits the successor and `Issue` reads
the account again for the access token; `Reuse` is the statement that takes the rows of the family *it can see*, and
`FamilyRevoked` its commit, which waits for rows that others hold (`LockedFor`).  `Deactivate` and `Deactivated` are the same for a
member's sessions.  `late` remembers the sessions that a rotation inserted while an `UPDATE` of their family was under way.  `Aborted` is
a request that dies, or that PostgreSQL ends to break a deadlock.  Profiles have a visibility, which the member writes,
and the decision of a moderator.

### `EventLifecycle` — `services/event-service`

A command reads the event (`ReadForUpdate`, `ReadForTransition`), checks it, and updates the row if it has the version
that the *client* expects (`AsExpected` in `Update` and `Transition`).  The code never compares that version with the one
it read.  A request therefore carries both: `expected`, any version at all, and `seen`, the version of the row that was
checked.  A client that expects an earlier version is refused, and one that expects the version read is refused once the
row has moved on; a client that expects a later one has its command applied when other commands have brought that version about,
whatever the status is by then.  `overtaken` remembers the versions written in this way, and `quoted` what Booking
read of events open for registration, and at which version; neither is read by an action.  `SaveImage` is the one command that
locks the row and keeps the version.  The facts carry what their payloads do: that of `EventUpdated` has no status
(`NoStatus`).

### `Moderation` — `services/moderation-service`

A command locks the rows it reads and is one action, but for two: `ReadVersion`/`CreateAction`, where the next version of a
target is read from rows that are not locked and two unique indexes decide at the insert (`Unique`), and
`ReadAction`/`CreateAppeal`, which reads an action without a lock.  `ExpireActions` is one run of the worker.  A target stands
for the reported thing together with the class and scope of an action.

## 4. What is checked

The bounds are in the `.cfg` files.  Deadlock is not checked because every instance may stop: identities, keys and the clock are finite.

| Run | Instance | Shows |
|---|---|---|
| `booking_safety` | 2 members, 1 seat, 3 bookings, 2 keys, holds of 1, clock to 2 | a hold can expire, its seat be taken by the other member and its late payment come in; the same member can book again: `Accounting`, `NoOversell`, `KeysNameBookings`, `FactsRetellState`, `ConfirmedIsPaid`, `PaymentIsHonoured`, and the refinement `ImplementsSale` |
| `booking_live` | 1 member, 2 events, 2 bookings, a batch of 1 | every hold ends, also those a full batch leaves for the next pass (`HoldsEnd`), every payment fact is consumed unless its member has booked the event again (`UnblockedPaymentsAreConsumed`) |
| `payment` | 2 members, 1 booking, 2 keys, all 6 answers of the provider | one final, verified outcome (`OneOutcome`, `CompletedIsVerified`, `OutcomeIsFinal`); keys (`KeysNamePayments`); silence is reported (`SilenceIsReported`). One booking is enough for the races of one order; that a key is not shared between bookings is proved for any number |
| `booking_payment` | 1 member, 1 seat, 2 bookings | the composition implements `Booking`, orders belong to their bookings, confirmed implies a verified payment; 44,368 states |
| `outbox` | 2 facts, 2 relays, 1 timeout, 2 faults | loss needs a timeout; once connections hold, all facts are marked published |
| `notification` | 2 deliveries, a deactivation and an ignored fact of one account, 2 workers, 2 attempts, 1 loss | honest records, states explained by attempts, suppression, bounded attempts, everything settles |
| `match_engine` | every event of 2 against 1 and 3 against 3 people, drawn from four and three kinds | the assignment is certified (`Certified`), the pairs are as many and as good as any allowed couples (`PairingsAreOptimal`, against all matchings), the reasons given are true (`ReasonsAreTrue`) |
| `engine_ties` | the same | a violation, see below |
| `matchmaking` | 3 people, 2 runs that compete for one of them, 2 keys of each kind that matters | nobody is in two matches, what was reviewed is locked, a reveal is agreed by both, mutual interest is told unless the answers raced; 319,680 states |
| `account` | 1 account, 4 sessions, 2 requests at once | one live session per family, reuse ends it but for a rotation under way, no access token is current after a deactivation; 132,971 states |
| `event_lifecycle` | 1 event, 2 commands at once, whose clients expect any of the versions, 2 capacities, a window from 1 to 2, versions to 5, clock to 2 | what Booking keeps of an event stands (`QuotesStand`), the facts retell a legal life in the order of versions (`FactsTellLife`), both but for what is written under a later version than the one checked; the instance reaches edits of open events and cancelled events that open again; 1,612,583 states |
| `moderation` | 2 cases, 1 target, 3 actions, 2 commands at once | versions and the action in force agree, cases end as others were told, facts retell actions, what ended is over; 207,549 states |

Why the bounds suffice: the properties relate at most two bookings, workers, relays, matches, sessions or actions at a time, and each
instance holds at least the pair that can violate them plus a third row that takes the place of an earlier one (a booking
that reuses a seat, a session that succeeds its successor, an action after one that was reversed).
Each property is also broken by a mutant of the code (the
`Mutant` definitions beside the originals), under the same bounds: the instance is large enough to notice that bug.
`MaxTime`, `MaxVersion`, `MaxTimeouts`, `MaxFaults` and `MaxLosses` bound counters that are not bounded in the code;
`ExpireLimit` is the batch of the expiry workers.  A run that stops at such a bound has gone through every case its properties
are about: versions to 5 take an event through any four changes after its creation: an edit and three transitions, or all four
transitions, with a command that waits meanwhile and whose client expects the version they lead to.
Symmetry (members, bookings, keys, ids) is used only in runs without liveness.

### Fairness

* `Booking!Fairness`: the clock runs; the expiry worker's ticker fires; the broker redelivers an unacknowledged
  message. Members, the payment service and the provider owe nothing.
* `Payment!FairSpec`: the clock and the reconciliation worker. Nobody owes a callback.
* `Outbox!FairSpec`: a running relay's loop goes on, the broker answers, a minute passes. Restarts, and
  connections that hold, are a hypothesis of the property (`<>[]Healthy`), not of the specification.
* `Notification!FairSpec`: workers poll and calls return, leases and delays end. The consumer owes nothing.
* `Hungarian`, `Matchmaking`, `AccountSession`, `EventLifecycle` and `Moderation` state none: what they do waits for people, and their
  properties are about safety.

### Disagreements

One run is a counterexample: `engine_ties`.  The documents promise that equally good pairings are told apart by the
order of account ids (ADR 0002 and `docs/matchmaking`); the weights carry no such term and the search of `hungarianMax`,
although it is deterministic, does not end at the first of them.

The other differences are described by properties that do hold, each of which names the exception:

| What the code does | What the documents say | Property |
|---|---|---|
| a late payment whose member has booked again is requeued for ever: the unique index counts `PAYMENT_REVIEW` as active | late payments enter `PAYMENT_REVIEW` | `UnblockedPaymentsAreConsumed` excepts it |
| a completed payment for a cancelled booking changes nothing | "Late/mismatched payment -> PAYMENT_REVIEW" (booking `README.md:65`) | `PaymentIsHonoured` has `CANCELLED` among its outcomes |
| a mismatched payment, which payment sends to review, is only recorded in booking's inbox: the booking stays `PENDING_PAYMENT` and expires | the same line | `PaymentIsHonoured` says what becomes of such a booking: pending, expired or cancelled, never under review |
| a success after a failure for the same order changes nothing | unknown, late and mismatched states are visible and recoverable | `OutcomeIsFinal` |
| after a wait that timed out, the late confirmation marks the next row | mark published only after broker confirmation | `LossNeedsTimeout` |
| a delivery whose last attempt lost its lease is sent once more | maximum provider attempts | `AttemptsAreBounded` adds the losses |
| a rotation that is under way while a reuse is answered leaves its successor alive | "Reuse revokes the entire session family" | `ReuseEndsFamily` excepts `late` |
| a login or rotation that races a deactivation leaves a live refresh session | "Deactivation revokes sessions before downstream propagation" (account `README.md:60`), "revokes sessions transactionally" (`docs/data/README.md:58`) | `StaleOnceDeactivated` is about access tokens only |
| a command whose client expects a later version than the one it is checked against edits an event that is open for registration, publishes it twice, or opens a cancelled one | "Published events cannot be edited by the current API", "stale writes return `EVENT_VERSION_CONFLICT`" (event `README.md:7`, `:83`) | `QuotesStand` and `FactsTellLife` except `overtaken` |
| two members who answer at the same time do not see each other's answer: both are interested and nobody is told | mutual interest is established when both are interested | `MutualInterestIsTold` excepts `raced` |
| an appeal that is decided after its action has expired turns `EXPIRED` into `REVERSED`, and both facts are published | history is never rewritten | `EndedIsOver` excepts it |

## 5. What is proved

For every value of the constants that satisfies the modules' assumptions (finite `BookingId`, positive capacities
and limits, two groups without a common member; nothing on the numbers of members, events, keys, relays, facts, runs, sessions, cases or actions, nor on the size of
a matrix).  Every invariant, every action property and both refinements that the passing runs check are theorems; the liveness
properties are not.

* **`BookingProofs`**.  `TypeCorrect`.  `CountersAreExact` and `NeverOversold` rest on
  `SeatInv` = types, *an online method for every pending booking*, `Accounting`, and `held + confirmed <= Capacity`.
  `NoOversell` alone is not inductive: `Create` looks at counters and not at rows, so the counters must be exact;
  and a counter stays exact through the guarded decrement only because a pending row implies a positive count.
  The lemmas count a query's rows before and after one row changes (`CountsStep`), and for the batch of the expiry
  worker the rows an event loses (`ExpireKeepsSeats`).  `OneActive` is inductive as "no two active rows share
  member and event" (`ActiveInv`).  `ConfirmationNeedsPayment` and `EndsAreFinal` follow from types and the guards,
  action by action.  `PaymentsAreHonoured` needs `HonourInv`: what is on the queue is for a booking that exists, so that a
  delivery finds a row; there is one fact for each order (`OneFactEach`), so that a booking whose payment was sent to
  review never gets a completed one as well; and a row that is confirmed or under review was paid for (`PaidFor`).  Each of the
  three ways to consume a fact then leaves the row where the theorem says.
  `CreationsAreIdempotent` needs that no row of `idempotency_record` names a booking that is not there (`KeysInv`).
  `FactsTellState` is inductive with the types (`NextTelling`: a fact appended to the facts of an open booking tells its
  next state).  `BookingSellsSeats` is the refinement, `Spec => ImplementsSale`: `Create` is `Take` because the counters
  it looks at are exact (`SeatsTaken`), `Confirm` is `Sell`, `Cancel`, `Expire` and the review of a pending booking are
  `Release`, and everything else leaves the sale alone.
* **`PaymentProofs`**.  `TypeCorrect`, `CompletionNeedsVerification` (receipts only grow, and only `Callback` completes),
  `OutcomesAreFinal`, `KeysAreSafe`, and `OutcomesAreSingle`, which needs the row, the audit trail and the outbox in one
  invariant.  Of the two services together: `OrdersArePayments` (`BothSpec => Spec`) brings over what is proved of
  `Payment` alone.  `OrdersAreForBookings` needs `OrdersInv`: whoever is, or ever was, told that a booking is payable is its
  owner and pays online (a row's owner and method never change, which `BookingMoves` gets from each action of Booking, so
  that a snapshot that is gone still was right), every order was asked for, and nothing is published of an order
  that its row does not say.  `ConfirmationIsVerified` adds that a booking is confirmed on a fact in payment's outbox, that
  such a fact tells the state of the payment's row (`FactsFit`), and that the row was completed on a callback that matched.
  `PaymentServesBooking` is the refinement `BothSpec => B!Spec`: a step of the booking service is one of Booking's, a step of the payment service grows
  `Ordered` by a booking that is payable now or `PaymentFacts` by an outcome that Booking's environment may tell of an
  order, once (`PaymentIsEnvironment`), or is no step of Booking at all.
* **`EventProofs`**, of the event service: its life cycle, and the outbox that carries its facts.  `EventTypeCorrect`,
  `QuotesHold` and `LifeIsTold` rest on `EventInv`: a command that waits to write has seen a version no later than the
  row's, and *if the version is still that one, the status is still the one it checked* (`Waiting`).  Neither property
  is inductive without it: the update compares versions only, and with the client's.  `SeenOrOvertaken` draws the line: a
  write finds the row as it was checked, or its version is one of `overtaken`.  `EventSteps` says once what a step may do to an event
  (created, edited, advanced, illustrated), and `VersionsGrow` that a version never falls and a status never changes under
  the same one.  `LifeIsTold` extends the story by one fact at a time (`OneMoreFact`, whose
  cases are an edit, `OneMoreEdit`, and a change of status, `OneMoreStatus`).  `QuotesHold` comes after it: facts and row
  agree (`Lifes`), so that a quoted event is no draft any more, and has kept what was quoted unless an overtaken edit came
  after the quote (`Quoted`).
  Of the outbox: `TypeCorrect` and `OnlyTimeoutsLoseFacts`: as long as no wait has timed out, each relay's channel is
  *in step*, that is, at most one message is in flight or confirmed and it is the row that the relay waits for
  (`InStep`).  That is the strengthening that makes "marked implies stored" inductive: the relay compares nothing, only the
  absence of timeouts keeps confirmations and rows together.

* **`NotificationProofs`**.  `Evolution` classifies once what a step does to one row (inserted, suppressed, claimed,
  completed, untouched) and the proofs split on it.  `RowInv` adds to the types that only consumed facts have rows.
  `SettledStays` follows from it and the guards, `SuppressedAreLeftAlone` from the one consumer's handling of a
  deactivation and of a fact as single steps.  `StatesAreExplained` is inductive with `RowInv`.  `RecordsAreHonest` needs
  `Answered`: what a worker is about to record, the provider has said of that attempt.  `TriesAreBounded` needs
  `BoundInv`: recorded attempts are numbered by their row (`Numbered`), and a row that may be claimed still has room below
  the maximum plus the losses so far (`Bounded`) — a worker that keeps its lease records an outcome that ends the
  delivery at the maximum, so a row gets past it only through a crash or a lease that ran out, and each is counted.

* **`MatchEngineProofs`**.  `AssignmentIsCertified`: whatever the matrix, when the algorithm is done each row has a column
  of its own, on pairs without slack, under potentials that are feasible.  `Certified` says nothing before the end, so the
  invariant has to say what the loops rely on: `Searching` (an open column knows the least slack it has to a row of the
  columns passed, and from which), `Chain` (there is a rank that falls along `way`, so that a path does not run in
  circles, and the rows the shift has not come to go to their next column without slack), `Feasible`, `Tight` and `Placed` with
  the hole that a shift moves, and `Waiting`.  `RaisedSlack` is the heart: a turn changes a slack by the least one or
  not at all.  That the largest weight exists (`TopIsLargest`) and that rows which fill all columns leave none empty
  (`EachColumnHasARow`) come from the library's facts on finite sets.
  `EngineIsOptimal` takes it from there to what the documents promise of the pairs.  Sums over sets of pairs are needed,
  and `SumFunctionOnSet` is a fold: `SumsExist` and `SumsUnique` characterise it (by the well-foundedness of the strict
  subsets of a finite set, which is a fact of the library and no induction scheme), and laws for taking one element,
  splitting, mapping and bounding follow.  Feasible potentials bound the weight of every assignment and the certified one
  reaches the bound (`DualBound`, `Duals`, `AssignmentIsHeaviest`); scores are between 0 and 100 whatever the answers of a
  participant (`ScoreBounds`, from the divisions, roundings and clamps of the six components), so that an edge outweighs
  all scores together (`MatchingWeighs`) and heaviest means most pairs first and the best total second (`Optimal`).
  The members of a group are listed without a gap in the order of their ids (`MembersListed`), which carries pairs of people
  to pairs of row and column and back.  `EngineReasons` needs that no possible pair is left with both sides free
  (`NoPairIsLeft`) — or the pairs could be one more — and that the rules look alike from both sides (`PairingIsMutual`): the
  code evaluates each pair from the left only, and the reasons from either.
* **`MatchmakingProofs`**.  `OneMatchEach` and `ReviewsHold` rest on `RunInv`: what is locked was selected by a run that is
  settled (`SoundRuns`).  `Progress` says once what a command does to a run.  `RevealsAreAgreed` needs
  `DecidedAreMutual`: there is no decision before both are interested, and an answer that is recorded stays (`AnswersStand`).
  `MutualInterestTold` needs `AnswersAgree`, which follows a pair through its two answers: one of the
  two sees the other's and tells, or will when it commits, or they were given side by side and neither does.
* **`AccountProofs`**.  The invariant `SessionInv` adds to types that families and accounts exist for what refers to them,
  that the row a rotation holds is live and its successor free (`RotationsHold`), and that an `UPDATE` under way
  has seen all of the family but what `late` names (`UpdatesSee`).  `ReuseIsAnswered` is the one that needs it.
* **`ModerationProofs`**.  `LastActionCounts` needs `NextVersions`: a version that was read stays the next one until
  somebody takes it, and no later one can be taken before, so that of two commands that read the same version the unique index
  lets one through, and versions have no gaps.  `CasesSettle` needs `HeldCases` (nobody closes a case that an action is
  being taken on) and `KnownCases`; `HistoryStands` needs `SoundAppeals` (an action that is reversed has an appeal that
  was decided so).  `FactsAreTrue` needs `AppealsTold`: a fact about the appeal or the end of an action leaves
  the row in a state that the step which tells that fact does not start from, which is what keeps it from being told twice.

Each is proved as initial states, steps and a temporal conclusion; a step lemma has one case per action.

## 6. What is only model-checked, and what is not modelled

Only checked by TLC: all liveness (`HoldsEnd`, `UnblockedPaymentsAreConsumed`, `SilenceIsReported`,
`FactsArePublished`, `DeliveriesSettle`), because fairness is out of the prover's reach.  `TiesFollowIds` does not hold, which is
what its run shows.  Events of more than 10,000 people, where the engine's weights could let a better total outweigh one more pair, are refused by
the engine and so have no pairing to speak of.

Partly modelled: the account service (matching preferences, the text of profiles and the version expected of them, the
expiry of tokens, the state cookie of the sign-in with Google are left out: nothing else in the service depends on them)
and the moderation service (the in-process limit of reports per hour, evidence, assignees, audit rows).

Not modelled: the gateway, which keeps no state and is for the most part a generated file (half of the Go code of the
repository is `graph/generated.go`), and the frontends; JWT verification, HTTP decoding and routing, SMTP and provider clients (pure
functions or pure input and output); configuration, migrations and seeds; lock waits inside a transaction; the order in which
relays emit facts of different rows, which no consumer relies on; the resolution of reconciliation items, for which there is no code.
What is modelled is the code that decides: rules, stores, workers and the matching engine.
