------------------------------- MODULE Booking -------------------------------
(***************************************************************************)
(* The booking service: its PostgreSQL tables, the API handlers that       *)
(* create and cancel bookings, the expiry worker and the consumer of       *)
(* payment facts.                                                          *)
(*                                                                         *)
(* A database transaction is one step.  Each of them decides under a row   *)
(* lock (capacity_allocation for Create, the booking row for the others)   *)
(* and every unlocked read it makes before is repeated by a constraint     *)
(* when it writes.  What is not in the transaction is not in the step: the *)
(* event is read over HTTP before Create's transaction begins, and a       *)
(* payment fact carries the time the provider answered, not the time it is *)
(* consumed.                                                               *)
(***************************************************************************)
EXTENDS Naturals, FiniteSets, Sequences

CONSTANTS
    Account,      \* members
    Event,        \* events of the Event service
    BookingId,    \* the UUIDs the service may draw
    Key,          \* Idempotency-Key values of clients
    Capacity,     \* [Event -> Nat \ {0}]: configuredCapacity
    Options,      \* [Event -> {"ONLINE", "AT_VENUE", "BOTH"}]: paymentOptions
    ClosesAt,     \* [Event -> Nat]: when the event stops being open for
                  \* registration, by its closing time or by its organizer
    Hold,         \* how long a hold lasts (HoldDuration)
    ExpireLimit,  \* rows one pass of the expiry worker takes (100 in the code)
    MaxTime       \* bound on the clock

ASSUME BookingAssumption ==
    /\ IsFiniteSet(BookingId)
    /\ Capacity \in [Event -> Nat \ {0}]
    /\ Options \in [Event -> {"ONLINE", "AT_VENUE", "BOTH"}]
    /\ ClosesAt \in [Event -> Nat]
    /\ Hold \in Nat \ {0}
    /\ ExpireLimit \in Nat \ {0}
    /\ MaxTime \in Nat

VARIABLES
    now,            \* the clock every worker and the database share
    booking,        \* table booking
    held,           \* column held_count of table capacity_allocation
    confirmed,      \* column confirmed_count of table capacity_allocation
    idempotency,    \* table idempotency_record
    inbox,          \* table inbox: the payment facts already consumed
    outbox,         \* table outbox: the facts of each booking, oldest first
    initiated,      \* bookings the Payment service opened an order for
    paymentFacts    \* facts on the payment queue, any number of copies each

vars == <<now, booking, held, confirmed, idempotency, inbox, outbox,
          initiated, paymentFacts>>

-----------------------------------------------------------------------------
(* Types *)

Method == {"ONLINE", "AT_VENUE"}
State == {"PENDING_PAYMENT", "CONFIRMED", "EXPIRED", "CANCELLED",
          "PAYMENT_REVIEW"}
Active == {"PENDING_PAYMENT", "CONFIRMED", "PAYMENT_REVIEW"}
FactName == {"BookingPending", "BookingConfirmed", "BookingCancelled",
             "HoldExpired", "BookingPaymentReviewRequired"}

NoBooking == [state |-> "NONE"]
Row == [state: State, account: Account, event: Event, method: Method,
        expiresAt: Nat]

Operation == {"booking.create", "booking.cancel"}
IdempotencyRow == [actor: Account, operation: Operation, key: Key,
                   booking: BookingId]

PaymentFact == [type: {"PaymentCompleted", "PaymentReviewRequired"},
                booking: BookingId, at: 0..MaxTime]

TypeOK ==
    /\ now \in 0..MaxTime
    /\ booking \in [BookingId -> Row \cup {NoBooking}]
    /\ held \in [Event -> Nat]
    /\ confirmed \in [Event -> Nat]
    /\ idempotency \subseteq IdempotencyRow
    /\ inbox \subseteq PaymentFact
    /\ outbox \in [BookingId -> Seq(FactName)]
    /\ initiated \subseteq BookingId
    /\ paymentFacts \subseteq PaymentFact

-----------------------------------------------------------------------------
(* Queries *)

Exists(b) == booking[b] # NoBooking
InState(S, e) ==
    {b \in BookingId : booking[b].state \in S /\ booking[b].event = e}
Holding(e) == InState({"PENDING_PAYMENT"}, e)
Seated(e) == InState({"CONFIRMED"}, e)

(* The partial unique index booking_active_account_event. *)
ActiveOf(a, e) == {b \in InState(Active, e) : booking[b].account = a}
HasActive(a, e) == ActiveOf(a, e) # {}

(* The index would refuse that b became active again. *)
Rebooked(b) ==
    /\ Exists(b)
    /\ \E c \in ActiveOf(booking[b].account, booking[b].event) : c # b

(* Mutant: a seat beyond the last one. *)
SeatLeftOffByOne(e) == held[e] + confirmed[e] <= Capacity[e]

(* The condition of the UPDATE that takes a seat. *)
SeatLeft(e) == held[e] + confirmed[e] < Capacity[e]

(* Mutant: the idempotency row has no primary key. *)
KeyUsedNever(a, op, k) == FALSE

KeyUsed(a, op, k) ==
    \E row \in idempotency : row.actor = a /\ row.operation = op /\ row.key = k

(* Mutant: no release. *)
LessForgotten(count, n) == count

(* n rounds of  SET count = count - 1 WHERE count > 0. *)
Less(count, n) == IF count > n THEN count - n ELSE 0

WithKey(a, op, k, b) == idempotency \cup
    {[actor |-> a, operation |-> op, key |-> k, booking |-> b]}

WithFact(b, fact) == [outbox EXCEPT ![b] = Append(@, fact)]

-----------------------------------------------------------------------------
Init ==
    /\ now = 0
    /\ booking = [b \in BookingId |-> NoBooking]
    /\ held = [e \in Event |-> 0]
    /\ confirmed = [e \in Event |-> 0]
    /\ idempotency = {}
    /\ inbox = {}
    /\ outbox = [b \in BookingId |-> <<>>]
    /\ initiated = {}
    /\ paymentFacts = {}

Tick ==
    /\ now < MaxTime
    /\ now' = now + 1
    /\ UNCHANGED <<booking, held, confirmed, idempotency, inbox, outbox,
                   initiated, paymentFacts>>

-----------------------------------------------------------------------------
(* POST /api/v1/bookings.  The handler read the event at some moment "at", *)
(* when its registration was open, and runs one transaction with what it   *)
(* read and the clock of that moment.  A known key is answered from the    *)
(* table (replay, or conflict); a full event and a member with an active   *)
(* booking are refused: none of these writes.                              *)
ValidEvent(e, m, at) ==
    /\ at < ClosesAt[e]
    /\ Options[e] \in {m, "BOTH"}

NewRow(a, e, m, at) ==
    [state |-> IF m = "AT_VENUE" THEN "CONFIRMED" ELSE "PENDING_PAYMENT",
     account |-> a, event |-> e, method |-> m, expiresAt |-> at + Hold]

(* The INSERT of the idempotency row repeats the lookup of the key, so one *)
(* conjunct stands for both: neither a known key nor one that a concurrent *)
(* transaction has just committed gets any further.                        *)
(* Bound: holds that would outlive MaxTime are not created.                *)
Create(b, a, e, m, k, at) ==
    /\ at <= now /\ at + Hold <= MaxTime
    /\ ValidEvent(e, m, at)
    /\ ~Exists(b)
    /\ ~KeyUsed(a, "booking.create", k)
    /\ SeatLeft(e)
    /\ ~HasActive(a, e)
    /\ booking' = [booking EXCEPT ![b] = NewRow(a, e, m, at)]
    /\ IF m = "AT_VENUE"
         THEN /\ confirmed' = [confirmed EXCEPT ![e] = @ + 1]
              /\ outbox' = WithFact(b, "BookingConfirmed")
              /\ UNCHANGED held
         ELSE /\ held' = [held EXCEPT ![e] = @ + 1]
              /\ outbox' = WithFact(b, "BookingPending")
              /\ UNCHANGED confirmed
    /\ idempotency' = WithKey(a, "booking.create", k, b)
    /\ UNCHANGED <<now, inbox, initiated, paymentFacts>>

(* POST /api/v1/bookings/{id}/cancel by the owner.  A known key and a      *)
(* booking that is already cancelled are answered without a write.         *)
Cancel(b, k) ==
    LET row == booking[b] IN
    /\ row.state = "PENDING_PAYMENT"
    /\ ~KeyUsed(row.account, "booking.cancel", k)
    /\ booking' = [booking EXCEPT ![b].state = "CANCELLED"]
    /\ IF row.method = "AT_VENUE"
         THEN /\ confirmed' = [confirmed EXCEPT ![row.event] = Less(@, 1)]
              /\ UNCHANGED held
         ELSE /\ held' = [held EXCEPT ![row.event] = Less(@, 1)]
              /\ UNCHANGED confirmed
    /\ idempotency' = WithKey(row.account, "booking.cancel", k, b)
    /\ outbox' = WithFact(b, "BookingCancelled")
    /\ UNCHANGED <<now, inbox, initiated, paymentFacts>>

(* Mutants: the state is not looked at, so that what ended ends again; the  *)
(* comparison is strict.                                                    *)
DueInAnyState == {b \in BookingId : Exists(b) /\ booking[b].expiresAt <= now}
DueStrictly == {b \in BookingId : /\ booking[b].state = "PENDING_PAYMENT"
                                  /\ booking[b].expiresAt < now}

Due == {b \in BookingId : /\ booking[b].state = "PENDING_PAYMENT"
                          /\ booking[b].expiresAt <= now}

(* One pass of the expiry worker: at most ExpireLimit of the due holds, in *)
(* one transaction.  SKIP LOCKED passes over the rows that some other      *)
(* transaction holds at that moment, so any of the due ones may be left.   *)
Expire(D) ==
    /\ D # {}
    /\ D \subseteq Due
    /\ Cardinality(D) <= ExpireLimit
    /\ booking' = [b \in BookingId |->
           IF b \in D THEN [booking[b] EXCEPT !.state = "EXPIRED"]
                      ELSE booking[b]]
    /\ held' = [e \in Event |->
           Less(held[e], Cardinality({b \in D : booking[b].event = e}))]
    /\ outbox' = [b \in BookingId |->
           IF b \in D THEN Append(outbox[b], "HoldExpired") ELSE outbox[b]]
    /\ UNCHANGED <<now, confirmed, idempotency, inbox,
                   initiated, paymentFacts>>

-----------------------------------------------------------------------------
(* The Payment service, as the booking service meets it: it opens one      *)
(* order for a booking whose payment snapshot it could read, and for that  *)
(* order publishes at most one fact, whenever the provider answers.        *)

(* Mutant: any booking whose hold would not have ended is paid for. *)
SnapshotInAnyState(b) == Exists(b) /\ booking[b].expiresAt > now

Snapshot(b) ==
    /\ booking[b].state = "PENDING_PAYMENT"
    /\ booking[b].method = "ONLINE"
    /\ booking[b].expiresAt > now

InitiatePayment(b) ==
    /\ b \notin initiated
    /\ Snapshot(b)
    /\ initiated' = initiated \cup {b}
    /\ UNCHANGED <<now, booking, held, confirmed,
                   idempotency, inbox, outbox, paymentFacts>>

PublishPayment(b, type) ==
    /\ b \in initiated
    /\ \A m \in paymentFacts : m.booking # b
    /\ paymentFacts' = paymentFacts \cup
           {[type |-> type, booking |-> b, at |-> now]}
    /\ UNCHANGED <<now, booking, held, confirmed,
                   idempotency, inbox, outbox, initiated>>

-----------------------------------------------------------------------------
(* ApplyPaymentEvent: one delivery of a payment fact.  A fact that is in   *)
(* the inbox is acknowledged without effect; the others are consumed by    *)
(* exactly one of the three actions below.  A transaction that a           *)
(* constraint refuses is rolled back and the message is requeued.          *)
(* Mutant: the consumer drops a fact that is no longer fresh. *)
DeliveredFresh(m) == m \in paymentFacts \ inbox /\ m.at = now

Delivered(m) == m \in paymentFacts \ inbox

(* Mutant: the end of the hold is not compared. *)
InTimeAlways(m) ==
    /\ m.type = "PaymentCompleted"
    /\ booking[m.booking].state = "PENDING_PAYMENT"

InTime(m) ==
    /\ m.type = "PaymentCompleted"
    /\ booking[m.booking].state = "PENDING_PAYMENT"
    /\ booking[m.booking].expiresAt > m.at

(* Mutants: the state is not looked at; an expired hold is forgotten. *)
TooLateInAnyState(m) == m.type = "PaymentCompleted" /\ ~InTime(m)
TooLatePendingOnly(m) ==
    /\ m.type = "PaymentCompleted"
    /\ ~InTime(m)
    /\ booking[m.booking].state = "PENDING_PAYMENT"

TooLate(m) ==
    /\ m.type = "PaymentCompleted"
    /\ ~InTime(m)
    /\ booking[m.booking].state \in {"PENDING_PAYMENT", "EXPIRED"}

Confirm(m) ==
    LET e == booking[m.booking].event IN
    /\ Delivered(m)
    /\ InTime(m)
    /\ inbox' = inbox \cup {m}
    /\ booking' = [booking EXCEPT ![m.booking].state = "CONFIRMED"]
    /\ held' = [held EXCEPT ![e] = Less(@, 1)]
    /\ confirmed' = [confirmed EXCEPT ![e] = IF held[e] > 0 THEN @ + 1 ELSE @]
    /\ outbox' = WithFact(m.booking, "BookingConfirmed")
    /\ UNCHANGED <<now, idempotency, initiated,
                   paymentFacts>>

(* The booking becomes active again, which the unique index refuses while  *)
(* its member has another active booking for the event.                    *)
Review(m) ==
    LET row == booking[m.booking] IN
    /\ Delivered(m)
    /\ TooLate(m)
    /\ ~Rebooked(m.booking)
    /\ inbox' = inbox \cup {m}
    /\ booking' = [booking EXCEPT ![m.booking].state = "PAYMENT_REVIEW"]
    /\ held' = IF row.state = "PENDING_PAYMENT"
                 THEN [held EXCEPT ![row.event] = Less(@, 1)]
                 ELSE held
    /\ outbox' = WithFact(m.booking, "BookingPaymentReviewRequired")
    /\ UNCHANGED <<now, confirmed, idempotency,
                   initiated, paymentFacts>>

Ignore(m) ==
    /\ Delivered(m)
    /\ ~InTime(m)
    /\ ~TooLate(m)
    /\ inbox' = inbox \cup {m}
    /\ UNCHANGED <<now, booking, held, confirmed,
                   idempotency, outbox, initiated, paymentFacts>>

ApplyPaymentEvent(m) == Confirm(m) \/ Review(m) \/ Ignore(m)

-----------------------------------------------------------------------------
ServiceStep ==
    \/ Tick
    \/ \E b \in BookingId, a \in Account, e \in Event, m \in Method, k \in Key,
          at \in 0..MaxTime : Create(b, a, e, m, k, at)
    \/ \E b \in BookingId, k \in Key : Cancel(b, k)
    \/ \E D \in SUBSET Due : Expire(D)
    \/ \E m \in paymentFacts : ApplyPaymentEvent(m)

PaymentStep ==
    \/ \E b \in BookingId : InitiatePayment(b)
    \/ \E b \in BookingId, type \in {"PaymentCompleted", "PaymentReviewRequired"} :
          PublishPayment(b, type)

Next == ServiceStep \/ PaymentStep

Spec == Init /\ [][Next]_vars

(* The clock runs, the expiry worker's ticker fires every five seconds,    *)
(* and the broker redelivers a message until it is acknowledged.  Clients, *)
(* the Payment service and the provider owe nothing.                       *)
Fairness ==
    /\ WF_vars(Tick)
    /\ WF_vars(\E D \in SUBSET Due : Expire(D))
    /\ \A m \in PaymentFact : WF_vars(ApplyPaymentEvent(m))

FairSpec == Spec /\ Fairness

-----------------------------------------------------------------------------
(* Properties *)

(* The two counters of capacity_allocation, which every transaction only   *)
(* moves by one, say at every moment how many bookings of the event are    *)
(* pending and how many are confirmed.                                     *)
Accounting ==
    \A e \in Event : /\ held[e] = Cardinality(Holding(e))
                     /\ confirmed[e] = Cardinality(Seated(e))

(* "Held plus confirmed allocation cannot exceed approved capacity": said  *)
(* of the bookings themselves, not of the counters that guard them.        *)
NoOversell ==
    \A e \in Event :
        Cardinality(InState({"PENDING_PAYMENT", "CONFIRMED"}, e)) <= Capacity[e]

(* "At most one active booking per account/event", whatever concurrent     *)
(* creations, late payments and expiries did.                              *)
OneActiveBooking ==
    \A a \in Account, e \in Event : Cardinality(ActiveOf(a, e)) <= 1

(* A retried creation never books twice: a member's key names one booking, *)
(* and every booking is named by exactly one key, of its own member.       *)
KeysNameBookings ==
    LET Creations == {row \in idempotency : row.operation = "booking.create"} IN
    /\ \A x, y \in Creations :
          (x.actor = y.actor /\ x.key = y.key) \/ x.booking = y.booking => x = y
    /\ \A b \in BookingId :
          Exists(b) <=> \E x \in Creations : /\ x.booking = b
                                             /\ x.actor = booking[b].account

(* The facts of a booking, read in the order they were committed, retell   *)
(* its life: a consumer that folds them arrives at the row's state.        *)
Retold(facts) ==
    CASE facts = <<>> -> "NONE"
      [] facts = <<"BookingPending">> -> "PENDING_PAYMENT"
      [] facts = <<"BookingPending", "BookingCancelled">> -> "CANCELLED"
      [] facts = <<"BookingPending", "HoldExpired">> -> "EXPIRED"
      [] facts \in {<<"BookingConfirmed">>,
                    <<"BookingPending", "BookingConfirmed">>} -> "CONFIRMED"
      [] facts \in {<<"BookingPending", "BookingPaymentReviewRequired">>,
                    <<"BookingPending", "HoldExpired",
                      "BookingPaymentReviewRequired">>} -> "PAYMENT_REVIEW"
      [] OTHER -> "IMPOSSIBLE"

FactsRetellState == \A b \in BookingId : Retold(outbox[b]) = booking[b].state

(* An online booking is confirmed on the strength of one consumed payment  *)
(* that the provider reported before the hold ended, and of nothing else.  *)
ConfirmedIsPaid ==
    \A b \in BookingId :
        booking[b].state = "CONFIRMED" /\ booking[b].method = "ONLINE" =>
            \E m \in inbox : /\ m.booking = b
                             /\ m.type = "PaymentCompleted"
                             /\ m.at < booking[b].expiresAt

(* What a consumed payment fact leaves behind, for good, since redelivery  *)
(* cannot repair what the first delivery lost.  A completed payment has    *)
(* confirmed its booking or put it under review, unless its member had     *)
(* cancelled.  A payment that payment itself sent to review (a mismatch)   *)
(* is consumed without effect: its booking waits for a payment that does   *)
(* not come any more and expires, or is cancelled, although "Late/         *)
(* mismatched payment -> PAYMENT_REVIEW" is said of both.                  *)
PaymentIsHonoured ==
    \A m \in inbox :
        booking[m.booking].state \in
            IF m.type = "PaymentCompleted"
              THEN {"CONFIRMED", "PAYMENT_REVIEW", "CANCELLED"}
              ELSE {"PENDING_PAYMENT", "EXPIRED", "CANCELLED"}

(* A booking that ended stays ended, an expired one can only be reviewed,  *)
(* and a review never takes a seat back.                                   *)
EndedStaysEnded ==
    [][\A b \in BookingId :
         /\ booking[b].state \in {"CONFIRMED", "CANCELLED", "PAYMENT_REVIEW"} =>
               booking'[b] = booking[b]
         /\ booking[b].state = "EXPIRED" /\ booking'[b] # booking[b] =>
               /\ booking'[b].state = "PAYMENT_REVIEW"
               /\ held' = held /\ confirmed' = confirmed]_vars

(* "Every hold reaches a controlled terminal/review state."                *)
HoldsEnd ==
    \A b \in BookingId :
        booking[b].state = "PENDING_PAYMENT" ~> booking[b].state # "PENDING_PAYMENT"

(* Every payment fact on the queue is consumed in the end, but for one     *)
(* whose member has booked the event again: that one "enters               *)
(* PAYMENT_REVIEW" only when the second booking ends, and is requeued      *)
(* until then.                                                             *)
UnblockedPaymentsAreConsumed ==
    \A m \in PaymentFact :
        m \in paymentFacts ~> m \in inbox \/ Rebooked(m.booking)

-----------------------------------------------------------------------------
(* The service implements the abstract sale of seats.                      *)
SeatOf(state) ==
    CASE state = "NONE" -> "unused"
      [] state = "PENDING_PAYMENT" -> "held"
      [] state = "CONFIRMED" -> "sold"
      [] OTHER -> "released"

Booked == {b \in BookingId : Exists(b)}

Sale == INSTANCE SeatSale WITH
    Ticket <- BookingId,
    seat   <- [b \in BookingId |-> SeatOf(booking[b].state)],
    holder <- [b \in Booked |-> booking[b].account],
    show   <- [b \in Booked |-> booking[b].event]

(* Every step of the tables is a step of the abstract sale, or none.       *)
ImplementsSale == Sale!Spec
=============================================================================
