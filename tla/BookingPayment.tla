--------------------------- MODULE BookingPayment ---------------------------
(***************************************************************************)
(* The booking and payment services together.  The payment service reads   *)
(* its snapshots from the booking table, and the booking service consumes  *)
(* the outcomes in the payment outbox.  The relay and the broker between   *)
(* them may deliver a fact at any time, any number of times and in any     *)
(* order, so whatever is in the outbox may be delivered.                   *)
(***************************************************************************)
EXTENDS Payment, FiniteSets

CONSTANTS Event, BookingKey, Capacity, Options, ClosesAt, Hold, ExpireLimit

VARIABLES booking, held, confirmed, bookingKeys, inbox, bookingOutbox

bookingVars == <<booking, held, confirmed, bookingKeys, inbox, bookingOutbox>>
bothVars == <<vars, bookingVars>>

(* The outcomes the queue of the payment consumer is bound to.             *)
Outcomes(b) ==
    {i \in DOMAIN outbox[b] :
        outbox[b][i].type \in {"PaymentCompleted", "PaymentReviewRequired"}}

PaymentFacts == UNION
    {{[type |-> outbox[b][i].type, booking |-> b, at |-> outbox[b][i].at] :
         i \in Outcomes(b)} : b \in BookingId}

Ordered == {r.booking : r \in requests}

B == INSTANCE Booking WITH
    Key          <- BookingKey,
    idempotency  <- bookingKeys,
    outbox       <- bookingOutbox,
    initiated    <- Ordered,
    paymentFacts <- PaymentFacts

ASSUME BothAssumption ==
    /\ IsFiniteSet(BookingId)
    /\ Capacity \in [Event -> Nat \ {0}]
    /\ Options \in [Event -> {"ONLINE", "AT_VENUE", "BOTH"}]
    /\ ClosesAt \in [Event -> Nat]
    /\ Hold \in Nat \ {0}
    /\ ExpireLimit \in Nat \ {0}

(* GET /internal/v1/bookings/{id}/payment-snapshot, by the owner.          *)
Payable == {[booking |-> b, account |-> booking[b].account] :
               b \in {c \in BookingId : B!Snapshot(c)}}

BothInit == Init /\ B!Init

BookingStep ==
    /\ UNCHANGED paymentVars
    /\ B!ServiceStep
    /\ payable' = Payable'

OrderStep == PaymentStep /\ UNCHANGED bookingVars

BothNext == BookingStep \/ OrderStep

BothSpec == BothInit /\ [][BothNext]_bothVars

-----------------------------------------------------------------------------
(* Properties *)

(* The payment service is the environment that Booking assumes, although   *)
(* it acts on a snapshot that may be gone: what is checked and proved of   *)
(* Booking holds of the two services together.                             *)
ImplementsBooking == B!Spec

(* An order is opened only for an online booking, for its own member.      *)
PaymentsAreForBookings ==
    \A b \in BookingId : Exists(b) =>
        /\ B!Exists(b)
        /\ booking[b].method = "ONLINE"
        /\ booking[b].account = payment[b].account

(* The two databases agree where money is concerned: an online booking is  *)
(* confirmed only if its payment is completed, on a callback that matched. *)
ConfirmedIsVerified ==
    \A b \in BookingId :
        booking[b].state = "CONFIRMED" /\ booking[b].method = "ONLINE" =>
            /\ payment[b].state = "COMPLETED"
            /\ \E n \in receipts : n.order = b /\ n.answer.valid /\ n.answer.status = "2"
=============================================================================
