------------------------------- MODULE Payment -------------------------------
(***************************************************************************)
(* The payment service: initiation of an order for a booking, callbacks of *)
(* the provider, and the scan that opens reconciliation items.             *)
(*                                                                         *)
(* The handler of an initiation first asks the booking service, over HTTP, *)
(* for the booking's payment snapshot and then runs its transaction: two   *)
(* steps, between which anything may happen.  A callback is one step, its  *)
(* transaction locks the payment row.  The provider may send callbacks     *)
(* repeatedly, in any order, late, or never.                               *)
(***************************************************************************)
EXTENDS Naturals, Sequences

CONSTANTS
    Account,        \* members
    BookingId,      \* bookings, and with them the orders: one_payment_per_booking
    Key,            \* Idempotency-Key values
    Answer,         \* [status, valid]: what the provider may say of an order
    ReconcileAfter, \* age at which a pending payment is reported (30 minutes)
    MaxTime         \* bound on the clock

ASSUME PaymentAssumption ==
    /\ Answer \subseteq [status: {"2", "0", "-1"}, valid: BOOLEAN]
    /\ ReconcileAfter \in Nat
    /\ MaxTime \in Nat

VARIABLES
    now,            \* the clock
    payable,        \* [booking, account] for which a snapshot is given now;
                    \* the booking service's state, only read here
    requests,       \* initiations whose handler has got a snapshot
    payment,        \* table payment
    idempotency,    \* table idempotency_record
    receipts,       \* table provider_callback
    audit,          \* table payment_audit: states each payment went through
    outbox,         \* table outbox: the facts of each payment, oldest first
    reconciliation  \* table reconciliation_item: payments with an OPEN item

paymentVars == <<requests, payment, idempotency, receipts, audit, outbox,
                 reconciliation>>
vars == <<now, payable, paymentVars>>

-----------------------------------------------------------------------------
(* Types *)

State == {"PENDING", "COMPLETED", "FAILED", "REVIEW"}

NoPayment == [state |-> "NONE"]
Row == [state: State, account: Account, updatedAt: 0..MaxTime]

(* Initiate's arguments with the time at which its snapshot was valid.     *)
Request == [actor: Account, booking: BookingId, key: Key, at: 0..MaxTime]

IdempotencyRow == [actor: Account, key: Key, booking: BookingId]

(* A callback, as far as the service looks at it: the order, and the       *)
(* provider's answer, which is a status code ("2" paid, "-1" for the three *)
(* codes of a failure, "0" for any other) and whether signature, merchant, *)
(* amount and currency agree with the order.  Two callbacks that say the   *)
(* same have the same fingerprint.                                         *)
Notification == [order: BookingId, answer: Answer]

FactName == {"PaymentInitiated", "PaymentCompleted", "PaymentFailed",
             "PaymentReviewRequired"}
Fact == [type: FactName, at: 0..MaxTime]

TypeOK ==
    /\ now \in 0..MaxTime
    /\ payable \subseteq [booking: BookingId, account: Account]
    /\ requests \subseteq Request
    /\ payment \in [BookingId -> Row \cup {NoPayment}]
    /\ idempotency \subseteq IdempotencyRow
    /\ receipts \subseteq Notification
    /\ audit \in [BookingId -> Seq(State)]
    /\ outbox \in [BookingId -> Seq(Fact)]
    /\ reconciliation \subseteq BookingId

-----------------------------------------------------------------------------
Exists(b) == payment[b] # NoPayment

(* Mutant: every initiation with a fresh key opens a fresh order. *)
KnownNever(b) == FALSE

(* The booking has a payment: the constraint one_payment_per_booking.      *)
Known(b) == Exists(b)

KeyUsed(a, k) == \E row \in idempotency : row.actor = a /\ row.key = k

Init ==
    /\ now = 0
    /\ payable = {}
    /\ requests = {}
    /\ payment = [b \in BookingId |-> NoPayment]
    /\ idempotency = {}
    /\ receipts = {}
    /\ audit = [b \in BookingId |-> <<>>]
    /\ outbox = [b \in BookingId |-> <<>>]
    /\ reconciliation = {}

-----------------------------------------------------------------------------
(* POST /api/v1/payments/initiate, first half: the snapshot is there, is   *)
(* the caller's, and has not expired.  Otherwise nothing happens.          *)
(* Bounds: repetitions of an initiation under one key share the snapshot   *)
(* of the first, and none starts too late to be reported before MaxTime.   *)
ReadSnapshot(a, b, k) ==
    /\ [booking |-> b, account |-> a] \in payable
    /\ ~\E r \in requests : r.actor = a /\ r.booking = b /\ r.key = k
    /\ now + ReconcileAfter <= MaxTime
    /\ requests' = requests \cup
           {[actor |-> a, booking |-> b, key |-> k, at |-> now]}
    /\ UNCHANGED <<now, payable, payment, idempotency, receipts, audit,
                   outbox, reconciliation>>

Remember(r) == idempotency' = idempotency \cup
    {[actor |-> r.actor, key |-> r.key, booking |-> r.booking]}

(* Second half: the transaction.  A known key is answered from the table   *)
(* and nothing is written; a handler that loses its caller, its database   *)
(* or the race for the unique constraint never gets here, which is the     *)
(* step's being optional.                                                  *)
Open(r) ==
    /\ ~Known(r.booking)
    /\ payment' = [payment EXCEPT ![r.booking] =
           [state |-> "PENDING", account |-> r.actor, updatedAt |-> r.at]]
    /\ audit' = [audit EXCEPT ![r.booking] = Append(@, "PENDING")]
    /\ outbox' = [outbox EXCEPT ![r.booking] =
           Append(@, [type |-> "PaymentInitiated", at |-> r.at])]

Reuse(r) ==
    /\ Exists(r.booking) /\ payment[r.booking].account = r.actor
    /\ UNCHANGED <<payment, audit, outbox>>

Initiate(r) ==
    /\ ~KeyUsed(r.actor, r.key)
    /\ Open(r) \/ Reuse(r)
    /\ Remember(r)
    /\ UNCHANGED <<now, payable, requests, receipts, reconciliation>>

-----------------------------------------------------------------------------
(* Mutant: a mismatch is believed. *)
CallbackStateUnverified(n) ==
    CASE n.answer.status = "2"  -> "COMPLETED"
      [] n.answer.status = "-1" -> "FAILED"
      [] OTHER                  -> "PENDING"

(* The state a callback asks for: domain.CallbackState, and REVIEW when    *)
(* the callback does not match the order.                                  *)
CallbackState(n) ==
    IF ~n.answer.valid THEN "REVIEW"
    ELSE CASE n.answer.status = "2"  -> "COMPLETED"
           [] n.answer.status = "-1" -> "FAILED"
           [] OTHER                  -> "PENDING"

OutcomeFact(state) ==
    CASE state = "COMPLETED" -> "PaymentCompleted"
      [] state = "REVIEW"    -> "PaymentReviewRequired"
      [] OTHER               -> "PaymentFailed"

(* Mutants: a later callback corrects an earlier one; a payment that       *)
(* failed may still complete.                                              *)
ChangesAlways(n) == CallbackState(n) # "PENDING"
ChangesFailed(n) ==
    /\ payment[n.order].state \in {"PENDING", "FAILED"}
    /\ CallbackState(n) # "PENDING"

(* Only a pending payment changes.                                         *)
Changes(n) ==
    /\ payment[n.order].state = "PENDING"
    /\ CallbackState(n) # "PENDING"

(* POST /api/v1/payments/payhere/callback for a known order, not received  *)
(* before.  A repeated one is acknowledged without effect, and one for an  *)
(* unknown order only leaves its receipt.                                  *)
Callback(n) ==
    LET b == n.order
        next == CallbackState(n) IN
    /\ Exists(b)
    /\ n \notin receipts
    /\ receipts' = receipts \cup {n}
    /\ IF Changes(n)
         THEN /\ payment' = [payment EXCEPT ![b].state = next,
                                            ![b].updatedAt = now]
              /\ audit' = [audit EXCEPT ![b] = Append(@, next)]
              /\ outbox' = [outbox EXCEPT ![b] =
                     Append(@, [type |-> OutcomeFact(next), at |-> now])]
         ELSE UNCHANGED <<payment, audit, outbox>>
    /\ UNCHANGED <<now, payable, requests, idempotency, reconciliation>>

(* Mutant: the comparison is strict. *)
OverdueStrictly == {b \in BookingId :
    payment[b].state = "PENDING" /\ payment[b].updatedAt + ReconcileAfter < now}

(* Payments without an answer from the provider for too long.              *)
Overdue == {b \in BookingId :
    payment[b].state = "PENDING" /\ payment[b].updatedAt + ReconcileAfter <= now}

(* One pass of the reconciliation worker. *)
OpenPendingReconciliation ==
    /\ ~(Overdue \subseteq reconciliation)
    /\ reconciliation' = reconciliation \cup Overdue
    /\ UNCHANGED <<now, payable, requests, payment, idempotency, receipts,
                   audit, outbox>>

-----------------------------------------------------------------------------
PaymentStep ==
    \/ \E a \in Account, b \in BookingId, k \in Key : ReadSnapshot(a, b, k)
    \/ \E r \in requests : Initiate(r)
    \/ \E n \in Notification : Callback(n)
    \/ OpenPendingReconciliation

(* The clock moves on, and what could still be paid may run out with it.   *)
Tick ==
    /\ now < MaxTime
    /\ now' = now + 1
    /\ payable' \in SUBSET [booking: BookingId, account: Account]
    /\ UNCHANGED paymentVars

(* The booking service gives and withdraws snapshots as it pleases.        *)
Elsewhere ==
    /\ payable' \in SUBSET [booking: BookingId, account: Account]
    /\ UNCHANGED <<now, paymentVars>>

Next == PaymentStep \/ Tick \/ Elsewhere

Spec == Init /\ [][Next]_vars

(* The clock runs and the worker's ticker fires every minute.              *)
FairSpec == Spec /\ WF_vars(Tick) /\ WF_vars(OpenPendingReconciliation)

-----------------------------------------------------------------------------
(* Properties *)

(* "One callback can cause at most one state transition and completion     *)
(* event": whatever callbacks arrived, in whatever order and how often, a  *)
(* payment has published one outcome, the one that its row shows, and its  *)
(* audit trail tells the same story.                                       *)
OneOutcome ==
    \A b \in BookingId :
        /\ audit[b] = IF ~Exists(b) THEN <<>>
                       ELSE IF payment[b].state = "PENDING" THEN <<"PENDING">>
                       ELSE <<"PENDING", payment[b].state>>
        /\ Len(outbox[b]) = Len(audit[b])
        /\ Len(audit[b]) = 2 =>
              outbox[b][2].type = OutcomeFact(payment[b].state)

(* "Failed/mismatched verification never changes payment to completed": a  *)
(* completed payment rests on a received callback that matched its order.  *)
CompletedIsVerified ==
    \A b \in BookingId : payment[b].state = "COMPLETED" =>
        \E n \in receipts : n.order = b /\ n.answer.valid /\ n.answer.status = "2"

(* A key names one payment, of the member who used it: no retry of an      *)
(* initiation is answered with somebody else's order.                      *)
KeysNamePayments ==
    \A x \in idempotency :
        /\ Exists(x.booking) /\ payment[x.booking].account = x.actor
        /\ \A y \in idempotency : x.actor = y.actor /\ x.key = y.key => x = y

(* An order is opened once, and its outcome never changes, not even from   *)
(* FAILED by a verified success that the provider reports later.           *)
OutcomeIsFinal ==
    [][\A b \in BookingId :
         /\ Exists(b) => /\ payment'[b].state # "NONE"
                         /\ payment'[b].account = payment[b].account
         /\ payment[b].state \in {"COMPLETED", "FAILED", "REVIEW"} =>
               payment'[b].state = payment[b].state]_vars

(* A payment that the provider never answers is reported in the end.       *)
SilenceIsReported ==
    \A b \in BookingId : payment[b].state = "PENDING" ~>
        payment[b].state # "PENDING" \/ b \in reconciliation
=============================================================================
