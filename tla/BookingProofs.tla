---------------------------- MODULE BookingProofs ----------------------------
(***************************************************************************)
(* What TLAPS proves of Booking, for every finite set of booking           *)
(* identifiers and any members, events, keys, capacities, hold duration    *)
(* and batch size.                                                         *)
(***************************************************************************)
EXTENDS Booking, FiniteSetTheorems, SequenceTheorems, TLAPS

-----------------------------------------------------------------------------
(* Lemmas about queries, said of any value t of the table *)

Rows(t, S, e) == {b \in BookingId : t[b].state \in S /\ t[b].event = e}
Count(t, S, e) == Cardinality(Rows(t, S, e))

Table == [BookingId -> Row \cup {NoBooking}]

(* A query over the table finds finitely many bookings, and counts the     *)
(* ones it finds.                                                          *)
LEMMA CountType ==
    ASSUME NEW t, NEW S, NEW e
    PROVE  /\ IsFiniteSet(Rows(t, S, e))
           /\ Count(t, S, e) \in Nat
           /\ \A b \in Rows(t, S, e) : Count(t, S, e) >= 1
<1>1. IsFiniteSet(Rows(t, S, e))
  BY BookingAssumption, FS_Subset DEF BookingAssumption, Rows
<1>2. Count(t, S, e) \in Nat
  BY <1>1, FS_CardinalityType DEF Count
<1>3. ASSUME NEW b \in Rows(t, S, e)
      PROVE  Count(t, S, e) >= 1
  <2>1. Count(t, S, e) # 0
    BY <1>1, FS_EmptySet DEF Count
  <2> QED
    BY <1>2, <2>1
<1> QED
  BY <1>1, <1>2, <1>3

(* A set that differs from a finite one in at most one element.            *)
LEMMA OneElement ==
    ASSUME NEW P, NEW Q, NEW b, IsFiniteSet(P),
           \A c : c # b => (c \in Q <=> c \in P)
    PROVE  Cardinality(Q) = IF b \in Q <=> b \in P
                              THEN Cardinality(P)
                              ELSE IF b \in Q THEN Cardinality(P) + 1
                                              ELSE Cardinality(P) - 1
<1>1. Q = IF b \in Q THEN P \cup {b} ELSE P \ {b}
  OBVIOUS
<1>2. CASE b \in Q
  <2>1. Q = P \cup {b}
    BY <1>1, <1>2
  <2> QED
    BY <1>2, <2>1, FS_AddElement
<1>3. CASE b \notin Q
  <2>1. Q = P \ {b}
    BY <1>1, <1>3
  <2> QED
    BY <1>3, <2>1, FS_RemoveElement
<1> QED
  BY <1>2, <1>3

(* A counter that takes n off again stays a natural number. *)
LEMMA LessType ==
    ASSUME NEW count \in Nat, NEW n \in Nat
    PROVE  /\ Less(count, n) \in Nat
           /\ Less(count, n) <= count
           /\ n <= count => Less(count, n) = count - n
BY DEF Less

-----------------------------------------------------------------------------
(* Type correctness *)

LEMMA InitType == Init => TypeOK
BY BookingAssumption, EmptySeq
   DEF Init, TypeOK, BookingAssumption

(* A fact appended to one booking's outbox rows keeps the table's type. *)
LEMMA WithFactType ==
    ASSUME TypeOK, NEW b \in BookingId, NEW fact \in FactName
    PROVE  WithFact(b, fact) \in [BookingId -> Seq(FactName)]
<1>1. Append(outbox[b], fact) \in Seq(FactName)
  BY DEF TypeOK
<1> QED
  BY <1>1 DEF TypeOK, WithFact

(* Changing the state of a row that exists gives a row. *)
LEMMA RowType ==
    ASSUME TypeOK, NEW b \in BookingId, NEW state \in State,
           booking[b].state # "NONE"
    PROVE  /\ booking[b] \in Row
           /\ [booking[b] EXCEPT !.state = state] \in Row
<1>1. booking[b] \in Row
  BY DEF TypeOK, NoBooking
<1> QED
  BY <1>1 DEF Row

LEMMA TypeStep == TypeOK /\ [Next]_vars => TypeOK'
<1> SUFFICES ASSUME TypeOK, [Next]_vars PROVE TypeOK'
  OBVIOUS
<1> USE BookingAssumption DEF BookingAssumption
<1>1. CASE Tick
  BY <1>1 DEF Tick, TypeOK
<1>2. ASSUME NEW b \in BookingId, NEW a \in Account, NEW e \in Event,
             NEW m \in Method, NEW k \in Key, NEW at \in 0..MaxTime,
             Create(b, a, e, m, k, at)
      PROVE  TypeOK'
  <2>1. NewRow(a, e, m, at) \in Row
    BY DEF NewRow, Row, State
  <2>2. booking' \in [BookingId -> Row \cup {NoBooking}]
    BY <1>2, <2>1 DEF Create, TypeOK
  <2>3. held' \in [Event -> Nat] /\ confirmed' \in [Event -> Nat]
    <3>1. held[e] + 1 \in Nat /\ confirmed[e] + 1 \in Nat
      BY DEF TypeOK
    <3>2. CASE m = "AT_VENUE"
      BY <1>2, <3>1, <3>2 DEF Create, TypeOK
    <3>3. CASE m # "AT_VENUE"
      BY <1>2, <3>1, <3>3 DEF Create, TypeOK
    <3> QED
      BY <3>2, <3>3
  <2>4. outbox' \in [BookingId -> Seq(FactName)]
    BY <1>2, WithFactType DEF Create, FactName
  <2>5. idempotency' \subseteq IdempotencyRow
    BY <1>2 DEF Create, WithKey, TypeOK, IdempotencyRow, Operation
  <2> QED
    BY <1>2, <2>2, <2>3, <2>4, <2>5 DEF Create, TypeOK
<1>3. ASSUME NEW b \in BookingId, NEW k \in Key, Cancel(b, k)
      PROVE  TypeOK'
  <2>1. booking[b] \in Row /\ [booking[b] EXCEPT !.state = "CANCELLED"] \in Row
    BY <1>3, RowType DEF Cancel, State
  <2>2. booking[b].event \in Event /\ booking[b].account \in Account
    BY <2>1 DEF Row
  <2>3. booking' \in [BookingId -> Row \cup {NoBooking}]
    BY <1>3, <2>1 DEF Cancel, TypeOK
  <2>4. held' \in [Event -> Nat] /\ confirmed' \in [Event -> Nat]
    <3> DEFINE e == booking[b].event
    <3>1. Less(held[e], 1) \in Nat /\ Less(confirmed[e], 1) \in Nat
      BY <2>2, LessType DEF TypeOK
    <3>2. CASE booking[b].method = "AT_VENUE"
      BY <1>3, <3>1, <3>2 DEF Cancel, TypeOK
    <3>3. CASE booking[b].method # "AT_VENUE"
      BY <1>3, <3>1, <3>3 DEF Cancel, TypeOK
    <3> QED
      BY <3>2, <3>3
  <2>5. outbox' \in [BookingId -> Seq(FactName)]
    BY <1>3, WithFactType DEF Cancel, FactName
  <2>6. idempotency' \subseteq IdempotencyRow
    BY <1>3, <2>2 DEF Cancel, WithKey, TypeOK, IdempotencyRow, Operation
  <2> QED
    BY <1>3, <2>3, <2>4, <2>5, <2>6 DEF Cancel, TypeOK
<1>4. ASSUME NEW D \in SUBSET Due, Expire(D)
      PROVE  TypeOK'
  <2>1. D \subseteq BookingId /\ \A b \in D : booking[b].state = "PENDING_PAYMENT"
    BY DEF Due
  <2>2. \A b \in D : [booking[b] EXCEPT !.state = "EXPIRED"] \in Row
    BY <2>1, RowType DEF State
  <2>3. booking' \in [BookingId -> Row \cup {NoBooking}]
    BY <1>4, <2>2 DEF Expire, TypeOK
  <2>4. \A e \in Event : Cardinality({b \in D : booking[b].event = e}) \in Nat
    BY <2>1, FS_Subset, FS_CardinalityType
  <2>5. held' \in [Event -> Nat]
    BY <1>4, <2>4, LessType DEF Expire, TypeOK
  <2>6. \A b \in BookingId : Append(outbox[b], "HoldExpired") \in Seq(FactName)
    BY DEF TypeOK, FactName
  <2>7. outbox' \in [BookingId -> Seq(FactName)]
    BY <1>4, <2>6 DEF Expire, TypeOK
  <2> QED
    BY <1>4, <2>3, <2>5, <2>7 DEF Expire, TypeOK
<1>5. ASSUME NEW b \in BookingId, InitiatePayment(b)
      PROVE  TypeOK'
  BY <1>5 DEF InitiatePayment, TypeOK
<1>6. ASSUME NEW b \in BookingId,
             NEW type \in {"PaymentCompleted", "PaymentReviewRequired"},
             PublishPayment(b, type)
      PROVE  TypeOK'
  BY <1>6 DEF PublishPayment, TypeOK, PaymentFact
<1>7. ASSUME NEW m \in paymentFacts, Confirm(m)
      PROVE  TypeOK'
  <2>1. m \in PaymentFact /\ m.booking \in BookingId
    BY DEF TypeOK, PaymentFact
  <2>2. /\ booking[m.booking] \in Row
        /\ [booking[m.booking] EXCEPT !.state = "CONFIRMED"] \in Row
    BY <1>7, <2>1, RowType DEF Confirm, InTime, State
  <2>3. booking[m.booking].event \in Event
    BY <2>2 DEF Row
  <2>4. booking' \in [BookingId -> Row \cup {NoBooking}]
    BY <1>7, <2>1, <2>2 DEF Confirm, TypeOK
  <2>5. held' \in [Event -> Nat] /\ confirmed' \in [Event -> Nat]
    <3> DEFINE e == booking[m.booking].event
    <3>1. held[e] \in Nat /\ confirmed[e] \in Nat
      BY <2>3 DEF TypeOK
    <3>2. Less(held[e], 1) \in Nat
      BY <3>1, LessType
    <3>3. (IF held[e] > 0 THEN confirmed[e] + 1 ELSE confirmed[e]) \in Nat
      BY <3>1
    <3>4. held' \in [Event -> Nat]
      BY <1>7, <3>2 DEF Confirm, TypeOK
    <3>5. confirmed' \in [Event -> Nat]
      BY <1>7, <3>3 DEF Confirm, TypeOK
    <3> QED
      BY <3>4, <3>5
  <2>6. outbox' \in [BookingId -> Seq(FactName)]
    BY <1>7, <2>1, WithFactType DEF Confirm, FactName
  <2> QED
    BY <1>7, <2>1, <2>4, <2>5, <2>6 DEF Confirm, TypeOK
<1>8. ASSUME NEW m \in paymentFacts, Review(m)
      PROVE  TypeOK'
  <2>1. m \in PaymentFact /\ m.booking \in BookingId
    BY DEF TypeOK, PaymentFact
  <2>2. /\ booking[m.booking] \in Row
        /\ [booking[m.booking] EXCEPT !.state = "PAYMENT_REVIEW"] \in Row
    BY <1>8, <2>1, RowType DEF Review, TooLate, State
  <2>3. booking[m.booking].event \in Event
    BY <2>2 DEF Row
  <2>4. booking' \in [BookingId -> Row \cup {NoBooking}]
    BY <1>8, <2>1, <2>2 DEF Review, TypeOK
  <2>5. held' \in [Event -> Nat]
    BY <1>8, <2>3, LessType DEF Review, TypeOK
  <2>6. outbox' \in [BookingId -> Seq(FactName)]
    BY <1>8, <2>1, WithFactType DEF Review, FactName
  <2> QED
    BY <1>8, <2>1, <2>4, <2>5, <2>6 DEF Review, TypeOK
<1>9. ASSUME NEW m \in paymentFacts, Ignore(m)
      PROVE  TypeOK'
  BY <1>9 DEF Ignore, TypeOK
<1>10. CASE UNCHANGED vars
  BY <1>10 DEF vars, TypeOK
<1> QED
  BY <1>1, <1>2, <1>3, <1>4, <1>5, <1>6, <1>7, <1>8, <1>9, <1>10
  DEF Next, ServiceStep, PaymentStep, ApplyPaymentEvent

(* Every reachable state of the tables is well typed. *)
THEOREM TypeCorrect == Spec => []TypeOK
BY InitType, TypeStep, PTL DEF Spec

-----------------------------------------------------------------------------
(* Seats *)

(* A booking that waits for a payment was made to be paid online: no other *)
(* method leaves a booking pending, so a cancellation gives back a hold.   *)
PendingIsOnline ==
    \A b \in BookingId :
        booking[b].state = "PENDING_PAYMENT" => booking[b].method = "ONLINE"

(* What the UPDATE that takes a seat keeps true of the counters.           *)
CountersBounded == \A e \in Event : held[e] + confirmed[e] <= Capacity[e]

(* Inductive.  The counters are bounded by the guards of Create; that they *)
(* bound the bookings themselves needs that they count them exactly, and   *)
(* for that each release must give back the seat that was taken.           *)
SeatInv == TypeOK /\ PendingIsOnline /\ Accounting /\ CountersBounded

Held(t, e) == Count(t, {"PENDING_PAYMENT"}, e)
Confirmed(t, e) == Count(t, {"CONFIRMED"}, e)

LEMMA AccountingCounts ==
    /\ Accounting <=> \A e \in Event : /\ held[e] = Held(booking, e)
                                       /\ confirmed[e] = Confirmed(booking, e)
    /\ Accounting' <=> \A e \in Event : /\ held'[e] = Held(booking', e)
                                        /\ confirmed'[e] = Confirmed(booking', e)
BY DEF Accounting, Holding, Seated, InState, Held, Confirmed, Count, Rows

(* How the two counts move when a booking leaves PENDING_PAYMENT, or a     *)
(* booking without a seat changes its state.                               *)
LEMMA CountsStep ==
    ASSUME TypeOK, NEW b \in BookingId, booking[b] \in Row,
           NEW state \in State \ {"PENDING_PAYMENT"},
           booking[b].state # "CONFIRMED",
           booking' = [booking EXCEPT ![b].state = state]
    PROVE  /\ \A c \in BookingId : booking'[c].state = "PENDING_PAYMENT" =>
                                       booking'[c] = booking[c]
           /\ \A e \in Event :
                /\ Held(booking, e) \in Nat /\ Confirmed(booking, e) \in Nat
                /\ Held(booking', e) =
                     IF /\ e = booking[b].event
                        /\ booking[b].state = "PENDING_PAYMENT"
                       THEN Held(booking, e) - 1 ELSE Held(booking, e)
                /\ Confirmed(booking', e) =
                     IF e = booking[b].event /\ state = "CONFIRMED"
                       THEN Confirmed(booking, e) + 1 ELSE Confirmed(booking, e)
                /\ e = booking[b].event /\ booking[b].state = "PENDING_PAYMENT" =>
                     Held(booking, e) >= 1
<1>1. ASSUME NEW c \in BookingId, booking'[c].state = "PENDING_PAYMENT"
      PROVE  booking'[c] = booking[c]
  BY <1>1 DEF TypeOK, Row
<1>2. ASSUME NEW e \in Event
      PROVE  /\ Held(booking, e) \in Nat /\ Confirmed(booking, e) \in Nat
             /\ e = booking[b].event /\ booking[b].state = "PENDING_PAYMENT" =>
                  Held(booking, e) >= 1
  <2>1. /\ Held(booking, e) \in Nat /\ Confirmed(booking, e) \in Nat
        /\ \A c \in Rows(booking, {"PENDING_PAYMENT"}, e) : Held(booking, e) >= 1
    BY CountType DEF Held, Confirmed
  <2> QED
    BY <2>1 DEF Rows
<1>3. ASSUME NEW e \in Event, NEW S
      PROVE  Count(booking', S, e) =
                IF booking[b].event # e \/ (state \in S <=> booking[b].state \in S)
                  THEN Count(booking, S, e)
                  ELSE IF state \in S THEN Count(booking, S, e) + 1
                                      ELSE Count(booking, S, e) - 1
  <2> DEFINE P == Rows(booking, S, e)
             Q == Rows(booking', S, e)
  <2>1. /\ booking'[b].state = state /\ booking'[b].event = booking[b].event
        /\ \A c \in BookingId : c # b => booking'[c] = booking[c]
    BY DEF TypeOK, Row
  <2>2. \A c : c # b => (c \in Q <=> c \in P)
    BY <2>1 DEF Rows
  <2>3. /\ b \in P <=> booking[b].state \in S /\ booking[b].event = e
        /\ b \in Q <=> state \in S /\ booking[b].event = e
    BY <2>1 DEF Rows
  <2>4. IsFiniteSet(P)
    BY CountType
  <2> HIDE DEF P, Q
  <2>5. Cardinality(Q) = IF b \in Q <=> b \in P
                           THEN Cardinality(P)
                           ELSE IF b \in Q THEN Cardinality(P) + 1
                                           ELSE Cardinality(P) - 1
    BY <2>2, <2>4, OneElement
  <2>6. Cardinality(Q) =
          IF booking[b].event # e \/ (state \in S <=> booking[b].state \in S)
            THEN Cardinality(P)
            ELSE IF state \in S THEN Cardinality(P) + 1 ELSE Cardinality(P) - 1
    BY <2>3, <2>5
  <2> QED
    BY <2>6 DEF P, Q, Count
<1>4. ASSUME NEW e \in Event
      PROVE  Held(booking', e) = IF /\ e = booking[b].event
                                    /\ booking[b].state = "PENDING_PAYMENT"
                                   THEN Held(booking, e) - 1 ELSE Held(booking, e)
  BY <1>3 DEF Held
<1>5. ASSUME NEW e \in Event
      PROVE  Confirmed(booking', e) =
               IF e = booking[b].event /\ state = "CONFIRMED"
                 THEN Confirmed(booking, e) + 1 ELSE Confirmed(booking, e)
  BY <1>3 DEF Confirmed
<1> QED
  BY <1>1, <1>2, <1>4, <1>5

LEMMA SeatInit == Init => SeatInv
<1> SUFFICES ASSUME Init PROVE SeatInv
  OBVIOUS
<1>1. \A S, e : "NONE" \notin S => Rows(booking, S, e) = {}
  BY DEF Init, NoBooking, Rows
<1>2. \A e : Held(booking, e) = 0 /\ Confirmed(booking, e) = 0
  BY <1>1, FS_EmptySet DEF Held, Confirmed, Count
<1>3. Accounting
  BY <1>2, AccountingCounts DEF Init
<1>4. PendingIsOnline /\ CountersBounded
  BY BookingAssumption
     DEF BookingAssumption, Init, NoBooking, PendingIsOnline, CountersBounded
<1> QED
  BY InitType, <1>3, <1>4 DEF SeatInv

LEMMA CreateKeepsSeats ==
    ASSUME SeatInv, TypeOK', NEW b \in BookingId, NEW a \in Account,
           NEW e \in Event, NEW m \in Method, NEW k \in Key,
           NEW at \in 0..MaxTime, Create(b, a, e, m, k, at)
    PROVE  SeatInv'
<1> DEFINE row == NewRow(a, e, m, at)
           status == IF m = "AT_VENUE" THEN "CONFIRMED" ELSE "PENDING_PAYMENT"
<1>1. /\ booking[b].state = "NONE"
      /\ booking'[b] = row
      /\ row.state = status /\ row.event = e /\ row.method = m
      /\ \A c \in BookingId : c # b => booking'[c] = booking[c]
  BY DEF Create, Exists, NoBooking, NewRow, SeatInv, TypeOK
<1> HIDE DEF row
<1>2. PendingIsOnline'
  BY <1>1 DEF SeatInv, PendingIsOnline, Method
<1>3. ASSUME NEW f \in Event, NEW S, "NONE" \notin S
      PROVE  /\ Count(booking, S, f) \in Nat
             /\ Count(booking', S, f) = IF f = e /\ status \in S
                                          THEN Count(booking, S, f) + 1
                                          ELSE Count(booking, S, f)
  <2> DEFINE P == Rows(booking, S, f)
             Q == Rows(booking', S, f)
  <2>1. \A c : c # b => (c \in Q <=> c \in P)
    BY <1>1 DEF Rows
  <2>2. b \notin P /\ (b \in Q <=> f = e /\ status \in S)
    BY <1>1, <1>3 DEF Rows
  <2>3. IsFiniteSet(P) /\ Count(booking, S, f) \in Nat
    BY CountType
  <2> HIDE DEF P, Q
  <2>4. Cardinality(Q) = IF b \in Q <=> b \in P
                           THEN Cardinality(P)
                           ELSE IF b \in Q THEN Cardinality(P) + 1
                                           ELSE Cardinality(P) - 1
    BY <2>1, <2>3, OneElement
  <2>5. Cardinality(Q) = IF f = e /\ status \in S THEN Cardinality(P) + 1
                                                  ELSE Cardinality(P)
    BY <2>2, <2>4
  <2> QED
    BY <2>3, <2>5 DEF P, Q, Count
<1>4. ASSUME NEW f \in Event
      PROVE  /\ held[f] \in Nat /\ confirmed[f] \in Nat
             /\ held[f] = Held(booking, f)
             /\ confirmed[f] = Confirmed(booking, f)
             /\ held[f] + confirmed[f] <= Capacity[f]
             /\ f = e => held[f] + confirmed[f] < Capacity[f]
             /\ Capacity[f] \in Nat
  BY AccountingCounts, BookingAssumption
     DEF SeatInv, TypeOK, CountersBounded, Create, SeatLeft, BookingAssumption
<1>5. ASSUME NEW f \in Event
      PROVE  /\ held'[f] = IF f = e /\ m # "AT_VENUE" THEN held[f] + 1 ELSE held[f]
             /\ confirmed'[f] = IF f = e /\ m = "AT_VENUE"
                                  THEN confirmed[f] + 1 ELSE confirmed[f]
  BY DEF Create, SeatInv, TypeOK
<1>6. ASSUME NEW f \in Event
      PROVE  /\ Held(booking', f) = IF f = e /\ m # "AT_VENUE"
                                      THEN Held(booking, f) + 1 ELSE Held(booking, f)
             /\ Confirmed(booking', f) = IF f = e /\ m = "AT_VENUE"
                                           THEN Confirmed(booking, f) + 1
                                           ELSE Confirmed(booking, f)
  BY <1>3 DEF Held, Confirmed
<1>7. Accounting'
  BY <1>4, <1>5, <1>6, AccountingCounts
<1>8. CountersBounded'
  <2> SUFFICES ASSUME NEW f \in Event PROVE held'[f] + confirmed'[f] <= Capacity[f]
    BY DEF CountersBounded
  <2> QED
    BY <1>4, <1>5
<1> QED
  BY <1>2, <1>7, <1>8 DEF SeatInv

(* The three transactions that change the state of one booking: cancel,    *)
(* confirm and review.                                                     *)
LEMMA OneChangeKeepsSeats ==
    ASSUME SeatInv, TypeOK', NEW b \in BookingId,
           NEW state \in {"CANCELLED", "CONFIRMED", "PAYMENT_REVIEW"},
           booking[b].state \in {"PENDING_PAYMENT", "EXPIRED"},
           state = "CONFIRMED" => booking[b].state = "PENDING_PAYMENT",
           booking' = [booking EXCEPT ![b].state = state],
           held' = IF booking[b].state = "PENDING_PAYMENT"
                     THEN [held EXCEPT ![booking[b].event] = Less(@, 1)]
                     ELSE held,
           confirmed' = IF state = "CONFIRMED" /\ held[booking[b].event] > 0
                          THEN [confirmed EXCEPT ![booking[b].event] = @ + 1]
                          ELSE confirmed
    PROVE  SeatInv'
<1> DEFINE e == booking[b].event
           pending == booking[b].state = "PENDING_PAYMENT"
<1>1. booking[b] \in Row /\ e \in Event
  BY DEF SeatInv, TypeOK, NoBooking, Row
<1>2. ASSUME NEW f \in Event
      PROVE  /\ held[f] \in Nat /\ confirmed[f] \in Nat
             /\ held[f] = Held(booking, f)
             /\ confirmed[f] = Confirmed(booking, f)
             /\ held[f] + confirmed[f] <= Capacity[f]
             /\ Capacity[f] \in Nat
  BY AccountingCounts, BookingAssumption
     DEF SeatInv, TypeOK, CountersBounded, BookingAssumption
<1>3. /\ \A c \in BookingId : booking'[c].state = "PENDING_PAYMENT" =>
                                  booking'[c] = booking[c]
      /\ \A f \in Event :
           /\ Held(booking', f) = IF f = e /\ pending THEN Held(booking, f) - 1
                                                      ELSE Held(booking, f)
           /\ Confirmed(booking', f) = IF f = e /\ state = "CONFIRMED"
                                         THEN Confirmed(booking, f) + 1
                                         ELSE Confirmed(booking, f)
           /\ f = e /\ pending => Held(booking, f) >= 1
  BY <1>1, CountsStep DEF SeatInv, State
<1>4. PendingIsOnline'
  BY <1>3 DEF SeatInv, PendingIsOnline
<1>5. ASSUME NEW f \in Event
      PROVE  /\ held'[f] = IF f = e /\ pending THEN held[f] - 1 ELSE held[f]
             /\ confirmed'[f] = IF f = e /\ state = "CONFIRMED"
                                  THEN confirmed[f] + 1 ELSE confirmed[f]
  <2>1. f = e /\ pending => held[f] > 0 /\ Less(held[f], 1) = held[f] - 1
    BY <1>2, <1>3, LessType
  <2>2. held'[f] = IF f = e /\ pending THEN Less(held[f], 1) ELSE held[f]
    BY DEF SeatInv, TypeOK
  <2>3. confirmed'[f] = IF f = e /\ state = "CONFIRMED" /\ held[f] > 0
                          THEN confirmed[f] + 1 ELSE confirmed[f]
    BY DEF SeatInv, TypeOK
  <2> QED
    BY <2>1, <2>2, <2>3
<1>6. Accounting'
  <2>1. ASSUME NEW f \in Event
        PROVE  held'[f] = Held(booking', f) /\ confirmed'[f] = Confirmed(booking', f)
    <3>1. held'[f] = Held(booking', f)
      <4>1. held'[f] = IF f = e /\ pending THEN held[f] - 1 ELSE held[f]
        BY <1>5
      <4>2. Held(booking', f) = IF f = e /\ pending THEN Held(booking, f) - 1
                                                    ELSE Held(booking, f)
        BY <1>3
      <4>3. held[f] = Held(booking, f)
        BY <1>2
      <4> QED
        BY <4>1, <4>2, <4>3, Zenon
    <3>2. confirmed'[f] = Confirmed(booking', f)
      <4>1. confirmed'[f] = IF f = e /\ state = "CONFIRMED" THEN confirmed[f] + 1
                                                           ELSE confirmed[f]
        BY <1>5
      <4>2. Confirmed(booking', f) = IF f = e /\ state = "CONFIRMED"
                                       THEN Confirmed(booking, f) + 1
                                       ELSE Confirmed(booking, f)
        BY <1>3
      <4>3. confirmed[f] = Confirmed(booking, f)
        BY <1>2
      <4> QED
        BY <4>1, <4>2, <4>3, Zenon
    <3> QED
      BY <3>1, <3>2
  <2> QED
    BY <2>1, AccountingCounts
<1>7. CountersBounded'
  <2> SUFFICES ASSUME NEW f \in Event PROVE held'[f] + confirmed'[f] <= Capacity[f]
    BY DEF CountersBounded
  <2> QED
    BY <1>2, <1>3, <1>5
<1> QED
  BY <1>4, <1>6, <1>7 DEF SeatInv

(* The expiry worker releases as many holds of an event as it expires.     *)
LEMMA ExpireKeepsSeats ==
    ASSUME SeatInv, TypeOK', NEW D \in SUBSET Due, Expire(D)
    PROVE  SeatInv'
<1> DEFINE Released(e) == {b \in D : booking[b].event = e}
<1>1. ASSUME NEW b \in BookingId
      PROVE  /\ b \in D => /\ booking[b].state = "PENDING_PAYMENT"
                           /\ booking'[b].state = "EXPIRED"
             /\ b \notin D => booking'[b] = booking[b]
  <2>1. b \in D => booking[b].state = "PENDING_PAYMENT"
    BY DEF Due
  <2>2. b \in D => booking[b] \in Row
    BY <2>1 DEF SeatInv, TypeOK, NoBooking
  <2> QED
    BY <2>1, <2>2 DEF Expire, Row
<1>2. D \subseteq BookingId
  BY DEF Due
<1>3. PendingIsOnline'
  BY <1>1 DEF SeatInv, PendingIsOnline
<1>4. ASSUME NEW e \in Event
      PROVE  /\ Cardinality(Released(e)) \in Nat
             /\ Cardinality(Released(e)) <= Held(booking, e)
             /\ Held(booking', e) = Held(booking, e) - Cardinality(Released(e))
             /\ Confirmed(booking', e) = Confirmed(booking, e)
  <2> DEFINE P == Rows(booking, {"PENDING_PAYMENT"}, e)
             Q == Rows(booking', {"PENDING_PAYMENT"}, e)
  <2>1. Released(e) \subseteq P /\ Q = P \ Released(e)
    BY <1>1, <1>2 DEF Rows
  <2>2. Rows(booking', {"CONFIRMED"}, e) = Rows(booking, {"CONFIRMED"}, e)
    BY <1>1 DEF Rows
  <2>3. IsFiniteSet(P) /\ Held(booking, e) \in Nat
    BY CountType DEF Held
  <2> HIDE DEF P, Q, Released
  <2>4. /\ IsFiniteSet(Released(e))
        /\ Cardinality(Released(e)) \in Nat
        /\ Cardinality(Released(e)) <= Cardinality(P)
    BY <2>1, <2>3, FS_Subset, FS_CardinalityType
  <2>5. P \cap Released(e) = Released(e)
    BY <2>1
  <2>6. Cardinality(P \ Released(e)) = Cardinality(P) - Cardinality(Released(e))
    BY <2>3, <2>5, FS_Difference
  <2>7. Cardinality(Q) = Cardinality(P) - Cardinality(Released(e))
    BY <2>1, <2>6
  <2> QED
    BY <2>2, <2>4, <2>7 DEF P, Q, Held, Confirmed, Count
<1>5. ASSUME NEW e \in Event
      PROVE  /\ held[e] \in Nat /\ confirmed[e] \in Nat
             /\ held[e] = Held(booking, e)
             /\ confirmed[e] = Confirmed(booking, e)
             /\ held[e] + confirmed[e] <= Capacity[e]
             /\ Capacity[e] \in Nat
  BY AccountingCounts, BookingAssumption
     DEF SeatInv, TypeOK, CountersBounded, BookingAssumption
<1>6. ASSUME NEW e \in Event
      PROVE  /\ held'[e] = held[e] - Cardinality(Released(e))
             /\ confirmed'[e] = confirmed[e]
  <2>1. held'[e] = Less(held[e], Cardinality(Released(e)))
    BY DEF Expire
  <2>2. Less(held[e], Cardinality(Released(e))) = held[e] - Cardinality(Released(e))
    <3> HIDE DEF Released
    <3> QED
      BY <1>4, <1>5, LessType
  <2> QED
    BY <2>1, <2>2 DEF Expire
<1> HIDE DEF Released
<1>7. Accounting'
  <2>1. ASSUME NEW e \in Event
        PROVE  held'[e] = Held(booking', e) /\ confirmed'[e] = Confirmed(booking', e)
    BY <1>4, <1>5, <1>6
  <2> QED
    BY <2>1, AccountingCounts
<1>8. CountersBounded'
  <2> SUFFICES ASSUME NEW e \in Event PROVE held'[e] + confirmed'[e] <= Capacity[e]
    BY DEF CountersBounded
  <2> QED
    BY <1>4, <1>5, <1>6
<1> QED
  BY <1>3, <1>7, <1>8 DEF SeatInv

LEMMA SeatStep == SeatInv /\ [Next]_vars => SeatInv'
<1> SUFFICES ASSUME SeatInv, [Next]_vars PROVE SeatInv'
  OBVIOUS
<1>1. TypeOK'
  BY TypeStep DEF SeatInv
<1>2. CASE UNCHANGED <<booking, held, confirmed>>
  BY <1>1, <1>2
     DEF SeatInv, PendingIsOnline, Accounting, CountersBounded, Holding, Seated, InState
<1>3. ASSUME NEW b \in BookingId, NEW a \in Account, NEW e \in Event,
             NEW m \in Method, NEW k \in Key, NEW at \in 0..MaxTime,
             Create(b, a, e, m, k, at)
      PROVE  SeatInv'
  BY <1>1, <1>3, CreateKeepsSeats
<1>4. ASSUME NEW b \in BookingId, NEW k \in Key, Cancel(b, k)
      PROVE  SeatInv'
  <2>1. booking[b].method # "AT_VENUE"
    BY <1>4 DEF Cancel, SeatInv, PendingIsOnline
  <2> QED
    BY <1>1, <1>4, <2>1, OneChangeKeepsSeats DEF Cancel
<1>5. ASSUME NEW D \in SUBSET Due, Expire(D)
      PROVE  SeatInv'
  BY <1>1, <1>5, ExpireKeepsSeats
<1>6. ASSUME NEW m \in paymentFacts, Confirm(m)
      PROVE  SeatInv'
  <2>1. m.booking \in BookingId
    BY DEF SeatInv, TypeOK, PaymentFact
  <2>2. booking[m.booking].event \in Event
    BY <1>6, <2>1, RowType DEF SeatInv, State, Confirm, InTime, Row
  <2>3. confirmed' = IF held[booking[m.booking].event] > 0
                       THEN [confirmed EXCEPT ![booking[m.booking].event] = @ + 1]
                       ELSE confirmed
    BY <1>6, <2>2 DEF Confirm, SeatInv, TypeOK
  <2> QED
    BY <1>1, <1>6, <2>1, <2>3, OneChangeKeepsSeats DEF Confirm, InTime
<1>7. ASSUME NEW m \in paymentFacts, Review(m)
      PROVE  SeatInv'
  <2>1. m.booking \in BookingId
    BY DEF SeatInv, TypeOK, PaymentFact
  <2> QED
    BY <1>1, <1>7, <2>1, OneChangeKeepsSeats DEF Review, TooLate
<1> QED
  BY <1>2, <1>3, <1>4, <1>5, <1>6, <1>7
  DEF Next, ServiceStep, PaymentStep, ApplyPaymentEvent, vars, Tick, InitiatePayment, PublishPayment, Ignore

LEMMA SeatInvariant == Spec => []SeatInv
BY SeatInit, SeatStep, PTL DEF Spec

(* The counters of capacity_allocation count the bookings exactly.         *)
THEOREM CountersAreExact == Spec => []Accounting
<1>1. SeatInv => Accounting
  BY DEF SeatInv
<1> QED
  BY SeatInvariant, <1>1, PTL

(* The bookings that take a seat are as many as the counters say.          *)
LEMMA SeatsTaken ==
    ASSUME SeatInv, NEW e \in Event
    PROVE  Cardinality(InState({"PENDING_PAYMENT", "CONFIRMED"}, e)) =
               held[e] + confirmed[e]
<1> DEFINE P == Rows(booking, {"PENDING_PAYMENT"}, e)
           C == Rows(booking, {"CONFIRMED"}, e)
<1>1. InState({"PENDING_PAYMENT", "CONFIRMED"}, e) = P \cup C /\ P \cap C = {}
  BY DEF InState, Rows
<1>2. IsFiniteSet(P) /\ IsFiniteSet(C)
  BY CountType
<1>3. held[e] = Held(booking, e) /\ confirmed[e] = Confirmed(booking, e)
  BY AccountingCounts DEF SeatInv
<1>4. Held(booking, e) = Cardinality(P) /\ Confirmed(booking, e) = Cardinality(C)
  BY DEF Held, Confirmed, Count
<1> HIDE DEF P, C
<1>5. Cardinality(P \cup C) = Cardinality(P) + Cardinality(C)
  <2>1. Cardinality(P \cap C) = 0
    BY <1>1, FS_EmptySet
  <2>2. Cardinality(P) \in Nat /\ Cardinality(C) \in Nat
    BY <1>2, FS_CardinalityType
  <2>3. Cardinality(P \cup C) =
          Cardinality(P) + Cardinality(C) - Cardinality(P \cap C)
    BY <1>2, FS_Union
  <2> QED
    BY <2>1, <2>2, <2>3
<1> QED
  BY <1>1, <1>3, <1>4, <1>5

(* No event is ever oversold.                                              *)
THEOREM NeverOversold == Spec => []NoOversell
<1>1. SeatInv => NoOversell
  <2> SUFFICES ASSUME SeatInv, NEW e \in Event
               PROVE  Cardinality(InState({"PENDING_PAYMENT", "CONFIRMED"}, e))
                        <= Capacity[e]
    BY DEF NoOversell
  <2> QED
    BY SeatsTaken DEF SeatInv, CountersBounded
<1> QED
  BY SeatInvariant, <1>1, PTL

-----------------------------------------------------------------------------
(* One active booking per member and event *)

(* Two active bookings of a member for an event are one booking.           *)
Twins(t, b, c) ==
    /\ t[b].state \in Active /\ t[c].state \in Active
    /\ t[b].account = t[c].account /\ t[b].event = t[c].event

NoTwins(t) == \A b, c \in BookingId : Twins(t, b, c) => b = c

(* Inductive: only Create and Review make a booking active, and both ask   *)
(* the unique index.                                                       *)
ActiveInv == TypeOK /\ NoTwins(booking)

LEMMA ActiveInit == Init => ActiveInv
<1>1. Init => NoTwins(booking)
  BY DEF Init, NoBooking, NoTwins, Twins, Active
<1> QED
  BY <1>1, InitType DEF ActiveInv

(* A step that makes no booking active keeps them apart.                   *)
LEMMA NoneActivated ==
    ASSUME NEW t, NEW u, NoTwins(t),
           \A b \in BookingId : u[b].state \in Active =>
               /\ t[b].state \in Active
               /\ u[b].account = t[b].account /\ u[b].event = t[b].event
    PROVE  NoTwins(u)
BY DEF NoTwins, Twins

(* A step that makes one booking active keeps them apart when no other     *)
(* active one is of its member and its event.                              *)
LEMMA OneActivated ==
    ASSUME NEW t, NEW u, NoTwins(t), NEW b \in BookingId,
           \A c \in BookingId : c # b => u[c] = t[c],
           \A c \in BookingId :
               /\ c # b /\ t[c].state \in Active
               /\ t[c].account = u[b].account
               => t[c].event # u[b].event
    PROVE  NoTwins(u)
BY DEF NoTwins, Twins

LEMMA ActiveStep == ActiveInv /\ [Next]_vars => ActiveInv'
<1> SUFFICES ASSUME ActiveInv, [Next]_vars PROVE NoTwins(booking')
  BY TypeStep DEF ActiveInv
<1>1. CASE UNCHANGED booking
  BY <1>1 DEF ActiveInv
<1>2. ASSUME NEW b \in BookingId, NEW a \in Account, NEW e \in Event,
             NEW m \in Method, NEW k \in Key, NEW at \in 0..MaxTime,
             Create(b, a, e, m, k, at)
      PROVE  NoTwins(booking')
  <2>1. /\ booking'[b].account = a /\ booking'[b].event = e
        /\ \A c \in BookingId : c # b => booking'[c] = booking[c]
    BY <1>2 DEF Create, NewRow, ActiveInv, TypeOK
  <2>2. \A c \in BookingId :
            /\ c # b /\ booking[c].state \in Active
            /\ booking[c].account = booking'[b].account
            => booking[c].event # booking'[b].event
    BY <1>2, <2>1 DEF Create, HasActive, ActiveOf, InState
  <2> HIDE <1>2
  <2> QED
    BY <2>1, <2>2, OneActivated DEF ActiveInv
<1>3. ASSUME NEW b \in BookingId, NEW k \in Key, Cancel(b, k)
      PROVE  NoTwins(booking')
  <2>1. booking[b] \in Row
    BY <1>3, RowType DEF Cancel, State, ActiveInv
  <2>2. \A c \in BookingId : booking'[c].state \in Active =>
            /\ booking[c].state \in Active
            /\ booking'[c].account = booking[c].account
            /\ booking'[c].event = booking[c].event
    BY <1>3, <2>1 DEF Cancel, Active, ActiveInv, TypeOK, Row
  <2> QED
    BY <2>2, NoneActivated DEF ActiveInv
<1>4. ASSUME NEW D \in SUBSET Due, Expire(D)
      PROVE  NoTwins(booking')
  <2>1. \A c \in D : booking[c] \in Row
    BY RowType DEF Due, State, ActiveInv
  <2>2. \A c \in BookingId : booking'[c].state \in Active =>
            /\ booking[c].state \in Active
            /\ booking'[c].account = booking[c].account
            /\ booking'[c].event = booking[c].event
    BY <1>4, <2>1 DEF Expire, Active, Row
  <2> QED
    BY <2>2, NoneActivated DEF ActiveInv
<1>5. ASSUME NEW m \in paymentFacts, Confirm(m)
      PROVE  NoTwins(booking')
  <2>1. m.booking \in BookingId
    BY DEF ActiveInv, TypeOK, PaymentFact
  <2>2. booking[m.booking] \in Row
    BY <1>5, <2>1, RowType DEF Confirm, InTime, State, ActiveInv
  <2>3. \A c \in BookingId : booking'[c].state \in Active =>
            /\ booking[c].state \in Active
            /\ booking'[c].account = booking[c].account
            /\ booking'[c].event = booking[c].event
    BY <1>5, <2>1, <2>2 DEF Confirm, InTime, Active, ActiveInv, TypeOK, Row
  <2> QED
    BY <2>3, NoneActivated DEF ActiveInv
<1>6. ASSUME NEW m \in paymentFacts, Review(m)
      PROVE  NoTwins(booking')
  <2> DEFINE b == m.booking
  <2>1. b \in BookingId
    BY DEF ActiveInv, TypeOK, PaymentFact
  <2>2. booking[b] \in Row
    BY <1>6, <2>1, RowType DEF Review, TooLate, State, ActiveInv
  <2>3. /\ booking'[b].account = booking[b].account
        /\ booking'[b].event = booking[b].event
        /\ \A c \in BookingId : c # b => booking'[c] = booking[c]
    BY <1>6, <2>1, <2>2 DEF Review, ActiveInv, TypeOK, Row
  <2>4. Exists(b)
    BY <1>6 DEF Review, TooLate, Exists, NoBooking
  <2>5. \A c \in BookingId :
            /\ c # b /\ booking[c].state \in Active
            /\ booking[c].account = booking'[b].account
            => booking[c].event # booking'[b].event
    BY <1>6, <2>3, <2>4 DEF Review, Rebooked, ActiveOf, InState
  <2> HIDE <1>6 DEF b
  <2> QED
    BY <2>1, <2>3, <2>5, OneActivated DEF ActiveInv
<1> QED
  BY <1>1, <1>2, <1>3, <1>4, <1>5, <1>6
  DEF Next, ServiceStep, PaymentStep, ApplyPaymentEvent, vars, Tick, InitiatePayment, PublishPayment, Ignore

(* A member never has two active bookings for an event, whatever late      *)
(* payments, expiries and creations were interleaved.                      *)
THEOREM OneActive == Spec => []OneActiveBooking
<1>1. ActiveInv => OneActiveBooking
  <2> SUFFICES ASSUME ActiveInv, NEW a \in Account, NEW e \in Event
               PROVE  Cardinality(ActiveOf(a, e)) <= 1
    BY DEF OneActiveBooking
  <2>1. \A b, c \in ActiveOf(a, e) : b = c
    BY DEF ActiveInv, NoTwins, Twins, ActiveOf, InState
  <2>2. CASE ActiveOf(a, e) = {}
    BY <2>2, FS_EmptySet
  <2>3. CASE ActiveOf(a, e) # {}
    <3>1. PICK b : ActiveOf(a, e) = {b}
      BY <2>1, <2>3
    <3> QED
      BY <3>1, FS_Singleton
  <2> QED
    BY <2>2, <2>3
<1> QED
  BY ActiveInit, ActiveStep, <1>1, PTL DEF Spec

-----------------------------------------------------------------------------
(* Payments and final states *)

(* A consumed fact stays consumed. *)
LEMMA InboxGrows == [Next]_vars => inbox \subseteq inbox'
<1>1. ASSUME NEW m, Confirm(m) \/ Review(m) \/ Ignore(m)
      PROVE  inbox \subseteq inbox'
  BY <1>1 DEF Confirm, Review, Ignore
<1>2. ASSUME Next
      PROVE  inbox \subseteq inbox'
  <2>1. CASE \E m \in paymentFacts : ApplyPaymentEvent(m)
    BY <1>1, <2>1 DEF ApplyPaymentEvent
  <2>2. CASE UNCHANGED inbox
    BY <2>2
  <2> QED
    BY <1>2, <2>1, <2>2
    DEF Next, ServiceStep, PaymentStep, Tick, Create, Cancel, Expire, InitiatePayment, PublishPayment
<1> QED
  BY <1>2 DEF vars

PaidInv == TypeOK /\ ConfirmedIsPaid

LEMMA PaidStep == PaidInv /\ [Next]_vars => PaidInv'
<1> SUFFICES ASSUME PaidInv, [Next]_vars, TypeOK', NEW b \in BookingId,
                    booking'[b].state = "CONFIRMED", booking'[b].method = "ONLINE"
             PROVE  \E m \in inbox' : /\ m.booking = b
                                      /\ m.type = "PaymentCompleted"
                                      /\ m.at < booking'[b].expiresAt
  BY TypeStep DEF PaidInv, ConfirmedIsPaid
<1>1. CASE booking'[b] = booking[b]
  BY <1>1, InboxGrows DEF PaidInv, ConfirmedIsPaid
<1>2. ASSUME NEW c \in BookingId, NEW a \in Account, NEW e \in Event,
             NEW m \in Method, NEW k \in Key, NEW at \in 0..MaxTime,
             Create(c, a, e, m, k, at), booking'[b] # booking[b]
      PROVE  FALSE
  <2>1. b = c /\ booking'[b] = NewRow(a, e, m, at)
    BY <1>2 DEF Create, PaidInv, TypeOK
  <2> QED
    BY <2>1 DEF NewRow
<1>3. ASSUME NEW c \in BookingId, NEW k \in Key, Cancel(c, k),
             booking'[b] # booking[b]
      PROVE  FALSE
  <2>1. booking[c] \in Row
    BY <1>3, RowType DEF Cancel, State, PaidInv
  <2> QED
    BY <1>3, <2>1 DEF Cancel, PaidInv, TypeOK, Row
<1>4. ASSUME NEW D \in SUBSET Due, Expire(D), booking'[b] # booking[b]
      PROVE  FALSE
  <2>1. \A c \in D : booking[c] \in Row
    BY RowType DEF Due, State, PaidInv
  <2> QED
    BY <1>4, <2>1 DEF Expire, Row
<1>5. ASSUME NEW m \in paymentFacts, Confirm(m), booking'[b] # booking[b]
      PROVE  /\ m \in inbox' /\ m.booking = b
             /\ m.type = "PaymentCompleted"
             /\ m.at < booking'[b].expiresAt
  <2>1. m.booking \in BookingId /\ m.at \in Nat
    BY DEF PaidInv, TypeOK, PaymentFact
  <2>2. booking[m.booking] \in Row
    BY <1>5, <2>1, RowType DEF Confirm, InTime, State, PaidInv
  <2>3. b = m.booking /\ booking'[b].expiresAt = booking[b].expiresAt
    BY <1>5, <2>1, <2>2 DEF Confirm, PaidInv, TypeOK, Row
  <2>4. m.type = "PaymentCompleted" /\ booking[b].expiresAt > m.at
    BY <1>5, <2>3 DEF Confirm, InTime
  <2>5. booking[b].expiresAt \in Nat
    BY <2>2, <2>3 DEF Row
  <2> QED
    BY <1>5, <2>1, <2>3, <2>4, <2>5 DEF Confirm
<1>6. ASSUME NEW m \in paymentFacts, Review(m), booking'[b] # booking[b]
      PROVE  FALSE
  <2>1. m.booking \in BookingId
    BY DEF PaidInv, TypeOK, PaymentFact
  <2>2. booking[m.booking] \in Row
    BY <1>6, <2>1, RowType DEF Review, TooLate, State, PaidInv
  <2> QED
    BY <1>6, <2>1, <2>2 DEF Review, PaidInv, TypeOK, Row
<1> QED
  BY <1>1, <1>2, <1>3, <1>4, <1>5, <1>6
  DEF Next, ServiceStep, PaymentStep, ApplyPaymentEvent, vars, Tick, InitiatePayment, PublishPayment, Ignore

(* No online booking is ever confirmed without a payment consumed for it   *)
(* that the provider reported in time.                                     *)
THEOREM ConfirmationNeedsPayment == Spec => []ConfirmedIsPaid
<1>1. Init => PaidInv
  BY InitType DEF Init, PaidInv, ConfirmedIsPaid, NoBooking
<1>2. PaidInv => ConfirmedIsPaid
  BY DEF PaidInv
<1> QED
  BY <1>1, <1>2, PaidStep, PTL DEF Spec

(* What EndedStaysEnded says of one booking. *)
EndKept(b) ==
    /\ booking[b].state \in {"CONFIRMED", "CANCELLED", "PAYMENT_REVIEW"} =>
          booking'[b] = booking[b]
    /\ booking[b].state = "EXPIRED" /\ booking'[b] # booking[b] =>
          /\ booking'[b].state = "PAYMENT_REVIEW"
          /\ held' = held /\ confirmed' = confirmed

LEMMA EndStep ==
    ASSUME TypeOK, [Next]_vars, NEW b \in BookingId
    PROVE  EndKept(b)
<1> USE DEF EndKept
<1>1. CASE UNCHANGED booking
  BY <1>1
<1>2. ASSUME NEW c \in BookingId, NEW a \in Account, NEW e \in Event,
             NEW m \in Method, NEW k \in Key, NEW at \in 0..MaxTime,
             Create(c, a, e, m, k, at)
      PROVE  EndKept(b)
  <2>1. booking[c].state = "NONE" /\ (b # c => booking'[b] = booking[b])
    BY <1>2 DEF Create, Exists, NoBooking, TypeOK
  <2> QED
    BY <2>1
<1>3. ASSUME NEW c \in BookingId, NEW k \in Key, Cancel(c, k)
      PROVE  EndKept(b)
  <2>1. /\ booking[c].state = "PENDING_PAYMENT"
        /\ b # c => booking'[b] = booking[b]
    BY <1>3 DEF Cancel, TypeOK
  <2> QED
    BY <2>1
<1>4. ASSUME NEW D \in SUBSET Due, Expire(D)
      PROVE  EndKept(b)
  BY <1>4 DEF Expire, Due
<1>5. ASSUME NEW m \in paymentFacts, Confirm(m)
      PROVE  EndKept(b)
  <2>1. /\ booking[m.booking].state = "PENDING_PAYMENT"
        /\ b # m.booking => booking'[b] = booking[b]
    BY <1>5 DEF Confirm, InTime, TypeOK
  <2> QED
    BY <2>1
<1>6. ASSUME NEW m \in paymentFacts, Review(m)
      PROVE  EndKept(b)
  <2>1. m.booking \in BookingId
    BY DEF TypeOK, PaymentFact
  <2>2. booking[m.booking] \in Row
    BY <1>6, <2>1, RowType DEF Review, TooLate, State
  <2>3. /\ booking[m.booking].state \in {"PENDING_PAYMENT", "EXPIRED"}
        /\ booking'[m.booking].state = "PAYMENT_REVIEW"
        /\ b # m.booking => booking'[b] = booking[b]
        /\ booking[m.booking].state = "EXPIRED" => held' = held
        /\ confirmed' = confirmed
    BY <1>6, <2>1, <2>2 DEF Review, TooLate, TypeOK, Row
  <2> QED
    BY <2>3
<1> QED
  BY <1>1, <1>2, <1>3, <1>4, <1>5, <1>6
  DEF Next, ServiceStep, PaymentStep, ApplyPaymentEvent, vars, Tick, InitiatePayment, PublishPayment, Ignore

(* Nothing moves a booking out of an end state but the review of an        *)
(* expired one, which touches no counter.                                  *)
THEOREM EndsAreFinal == Spec => EndedStaysEnded
<1>1. TypeOK /\ [Next]_vars => [\A b \in BookingId : EndKept(b)]_vars
  BY EndStep
<1> QED
  BY TypeCorrect, <1>1, PTL DEF Spec, EndedStaysEnded, EndKept

-----------------------------------------------------------------------------
(* A consumed payment shows in its booking *)

(* Bookings are inserted once, by Create, and never deleted; a step that   *)
(* is not a creation adds no booking and changes no owner.                 *)
Known(t, b) == t[b].state # "NONE"

Creates(b, a, e, m, k) ==
    \E at \in 0..MaxTime : Create(b, a, e, m, k, at)

Creation ==
    \E b \in BookingId, a \in Account, e \in Event, m \in Method, k \in Key :
        Creates(b, a, e, m, k)

SameOwner(b) == /\ booking'[b].account = booking[b].account
                /\ booking'[b].event = booking[b].event

(* Only the state column of a row is ever updated.                         *)
LEMMA OwnerKept ==
    ASSUME TypeOK, [Next]_vars, ~Creation, NEW b \in BookingId
    PROVE  /\ Known(booking, b) <=> Known(booking', b)
           /\ Known(booking, b) => SameOwner(b)
<1> USE DEF Known, SameOwner
<1>1. CASE UNCHANGED booking
  BY <1>1
<1>2. ASSUME NEW c \in BookingId, NEW k \in Key, Cancel(c, k)
      PROVE  /\ Known(booking, b) <=> Known(booking', b)
             /\ Known(booking, b) => SameOwner(b)
  <2>1. booking[c] \in Row
    BY <1>2, RowType DEF Cancel, State
  <2> QED
    BY <1>2, <2>1 DEF Cancel, TypeOK, Row
<1>3. ASSUME NEW D \in SUBSET Due, Expire(D)
      PROVE  /\ Known(booking, b) <=> Known(booking', b)
             /\ Known(booking, b) => SameOwner(b)
  <2>1. \A c \in D : c \in BookingId /\ booking[c].state = "PENDING_PAYMENT"
    BY DEF Due
  <2>2. \A c \in D : booking[c] \in Row
    BY <2>1, RowType DEF State
  <2> QED
    BY <1>3, <2>1, <2>2 DEF Expire, Row
<1>4. ASSUME NEW m \in paymentFacts, Confirm(m)
      PROVE  /\ Known(booking, b) <=> Known(booking', b)
             /\ Known(booking, b) => SameOwner(b)
  <2>1. m.booking \in BookingId
    BY DEF TypeOK, PaymentFact
  <2>2. booking[m.booking] \in Row
    BY <1>4, <2>1, RowType DEF Confirm, InTime, State
  <2>3. booking[m.booking].state = "PENDING_PAYMENT"
    BY <1>4 DEF Confirm, InTime
  <2> QED
    BY <1>4, <2>1, <2>2, <2>3 DEF Confirm, TypeOK, Row
<1>5. ASSUME NEW m \in paymentFacts, Review(m)
      PROVE  /\ Known(booking, b) <=> Known(booking', b)
             /\ Known(booking, b) => SameOwner(b)
  <2>1. m.booking \in BookingId
    BY DEF TypeOK, PaymentFact
  <2>2. booking[m.booking].state \in {"PENDING_PAYMENT", "EXPIRED"}
    BY <1>5 DEF Review, TooLate
  <2>3. booking[m.booking] \in Row
    BY <2>1, <2>2, RowType DEF State
  <2> QED
    BY <1>5, <2>1, <2>2, <2>3 DEF Review, TypeOK, Row
<1> QED
  BY <1>1, <1>2, <1>3, <1>4, <1>5
  DEF Next, ServiceStep, PaymentStep, ApplyPaymentEvent, vars, Tick, InitiatePayment, PublishPayment, Ignore, Creation, Creates

LEMMA KnownStays ==
    ASSUME TypeOK, [Next]_vars, NEW b \in BookingId, Known(booking, b)
    PROVE  Known(booking', b)
<1>1. CASE Creation
  <2>1. PICK c \in BookingId, a \in Account, e \in Event, m \in Method,
             k \in Key, at \in 0..MaxTime : Create(c, a, e, m, k, at)
    BY <1>1 DEF Creation, Creates
  <2>2. b # c
    BY <2>1 DEF Create, Exists, Known, NoBooking
  <2>3. booking'[b] = booking[b]
    BY <2>1, <2>2 DEF Create, TypeOK
  <2> QED
    BY <2>3 DEF Known
<1>2. CASE ~Creation
  BY <1>2, OwnerKept
<1> QED
  BY <1>1, <1>2

(* What a step may do to the orders, the queue and the inbox.              *)
LEMMA QueueSteps ==
    ASSUME [Next]_vars
    PROVE  \/ UNCHANGED <<initiated, paymentFacts, inbox>>
           \/ \E b \in BookingId : InitiatePayment(b)
           \/ \E b \in BookingId, type \in
                     {"PaymentCompleted", "PaymentReviewRequired"} :
                 PublishPayment(b, type)
           \/ \E m \in paymentFacts : Confirm(m) \/ Review(m) \/ Ignore(m)
<1>1. CASE ServiceStep
  BY <1>1 DEF ServiceStep, ApplyPaymentEvent, Tick, Create, Cancel, Expire
<1>2. CASE PaymentStep
  BY <1>2 DEF PaymentStep
<1>3. CASE UNCHANGED vars
  BY <1>3 DEF vars
<1> QED
  BY <1>1, <1>2, <1>3 DEF Next

(* Inductive: a payment is published only for an order, and an order is    *)
(* opened only for a booking that exists, so a consumed payment always     *)
(* finds its row; which of the three ways it is consumed does the rest for *)
(* completed payments.  An order has one fact, and only a completed one    *)
(* confirms its booking or puts it under review: so the booking of a       *)
(* mismatched payment never was.                                           *)
Honoured ==
    \A m \in inbox : m.type = "PaymentCompleted" =>
        booking[m.booking].state \in {"CONFIRMED", "PAYMENT_REVIEW", "CANCELLED"}
PaidFor(b) == \E m \in inbox : m.booking = b /\ m.type = "PaymentCompleted"
OneFactEach ==
    /\ inbox \subseteq paymentFacts
    /\ \A m, x \in paymentFacts : m.booking = x.booking => m = x

HonourInv ==
    /\ TypeOK
    /\ \A b \in initiated : Known(booking, b)
    /\ \A m \in paymentFacts : m.booking \in initiated
    /\ OneFactEach
    /\ \A b \in initiated :
          booking[b].state \in {"CONFIRMED", "PAYMENT_REVIEW"} => PaidFor(b)
    /\ Honoured

LEMMA OneFactStep ==
    ASSUME OneFactEach, [Next]_vars
    PROVE  OneFactEach'
<1>1. CASE UNCHANGED <<paymentFacts, inbox>>
  BY <1>1 DEF OneFactEach
<1>2. ASSUME NEW b \in BookingId,
             NEW type \in {"PaymentCompleted", "PaymentReviewRequired"},
             PublishPayment(b, type)
      PROVE  OneFactEach'
  <2>1. PICK f : f = [type |-> type, booking |-> b, at |-> now]
    OBVIOUS
  <2>2. f.booking = b
    BY <2>1
  <2>3. /\ \A m \in paymentFacts : m.booking # b
        /\ paymentFacts' = paymentFacts \cup {f} /\ inbox' = inbox
    BY <1>2, <2>1 DEF PublishPayment
  <2> QED
    BY <2>2, <2>3 DEF OneFactEach
<1>3. ASSUME NEW m \in paymentFacts, Confirm(m) \/ Review(m) \/ Ignore(m)
      PROVE  OneFactEach'
  <2>1. inbox' = inbox \cup {m} /\ paymentFacts' = paymentFacts
    BY <1>3 DEF Confirm, Review, Ignore
  <2> QED
    BY <2>1 DEF OneFactEach
<1> QED
  BY <1>1, <1>2, <1>3, QueueSteps DEF InitiatePayment

(* Only a completed payment makes a booking that is there look paid.       *)
LEMMA PaidForStep ==
    ASSUME TypeOK, [Next]_vars, NEW b \in BookingId, Known(booking, b),
           booking'[b].state \in {"CONFIRMED", "PAYMENT_REVIEW"},
           booking[b].state \in {"CONFIRMED", "PAYMENT_REVIEW"} => PaidFor(b)
    PROVE  PaidFor(b)'
<1>1. CASE booking'[b] = booking[b]
  BY <1>1, InboxGrows DEF PaidFor
<1>2. ASSUME NEW c \in BookingId, NEW a \in Account, NEW e \in Event,
             NEW m \in Method, NEW k \in Key, NEW at \in 0..MaxTime,
             Create(c, a, e, m, k, at), booking'[b] # booking[b]
      PROVE  FALSE
  BY <1>2 DEF Create, TypeOK, Exists, Known, NoBooking
<1>3. ASSUME NEW c \in BookingId, NEW k \in Key, Cancel(c, k),
             booking'[b] # booking[b]
      PROVE  FALSE
  <2>1. booking[c] \in Row
    BY <1>3, RowType DEF Cancel, State
  <2> QED
    BY <1>3, <2>1 DEF Cancel, TypeOK, Row
<1>4. ASSUME NEW D \in SUBSET Due, Expire(D), booking'[b] # booking[b]
      PROVE  FALSE
  <2>1. \A c \in D : booking[c] \in Row
    BY RowType DEF Due, State
  <2> QED
    BY <1>4, <2>1 DEF Expire, Row
<1>5. ASSUME NEW m \in paymentFacts, Confirm(m) \/ Review(m), booking'[b] # booking[b]
      PROVE  m \in inbox' /\ m.booking = b /\ m.type = "PaymentCompleted"
  <2>1. m \in inbox' /\ m.type = "PaymentCompleted"
    BY <1>5 DEF Confirm, Review, InTime, TooLate
  <2>2. \A c \in BookingId : c # m.booking => booking'[c] = booking[c]
    BY <1>5 DEF Confirm, Review, TypeOK
  <2> QED
    BY <1>5, <2>1, <2>2
<1> QED
  BY <1>1, <1>2, <1>3, <1>4, <1>5
  DEF Next, ServiceStep, PaymentStep, ApplyPaymentEvent, vars, Tick, InitiatePayment,
      PublishPayment, Ignore, PaidFor

LEMMA HonourStep == HonourInv /\ [Next]_vars => HonourInv'
<1> SUFFICES ASSUME HonourInv, [Next]_vars, TypeOK'
             PROVE  HonourInv'
  BY TypeStep DEF HonourInv
<1>1. \A b \in initiated' : Known(booking', b)
  <2>1. ASSUME NEW b \in initiated'
        PROVE  b \in BookingId /\ Known(booking, b)
    <3>1. b \in BookingId
      BY DEF TypeOK
    <3>2. CASE b \in initiated
      BY <3>1, <3>2 DEF HonourInv
    <3>3. CASE b \notin initiated
      <4>1. InitiatePayment(b)
        BY <3>3, QueueSteps
        DEF InitiatePayment, PublishPayment, Confirm, Review, Ignore
      <4> QED
        BY <3>1, <4>1 DEF InitiatePayment, Snapshot, Known
    <3> QED
      BY <3>2, <3>3
  <2> QED
    BY <2>1, KnownStays DEF HonourInv
<1>2. \A m \in paymentFacts' : m.booking \in initiated'
  <2>1. CASE UNCHANGED <<initiated, paymentFacts>>
    BY <2>1 DEF HonourInv
  <2>2. ASSUME NEW b \in BookingId, InitiatePayment(b)
        PROVE  \A m \in paymentFacts' : m.booking \in initiated'
    BY <2>2 DEF HonourInv, InitiatePayment
  <2>3. ASSUME NEW b \in BookingId,
               NEW type \in {"PaymentCompleted", "PaymentReviewRequired"},
               PublishPayment(b, type)
        PROVE  \A m \in paymentFacts' : m.booking \in initiated'
    BY <2>3 DEF HonourInv, PublishPayment
  <2> QED
    BY <2>1, <2>2, <2>3, QueueSteps DEF Confirm, Review, Ignore
<1>3. ASSUME NEW m \in inbox', m.type = "PaymentCompleted"
      PROVE  booking'[m.booking].state \in
                 {"CONFIRMED", "PAYMENT_REVIEW", "CANCELLED"}
  <2>1. m.booking \in BookingId
    BY DEF TypeOK, PaymentFact
  <2>2. CASE m \in inbox
    <3>1. booking[m.booking].state \in
              {"CONFIRMED", "PAYMENT_REVIEW", "CANCELLED"}
      BY <1>3, <2>2 DEF HonourInv, Honoured
    <3>2. booking'[m.booking] = booking[m.booking]
      BY <2>1, <3>1, EndStep DEF HonourInv, EndKept
    <3> QED
      BY <3>1, <3>2
  <2>3. CASE m \notin inbox
    <3>1. m \in paymentFacts /\ (Confirm(m) \/ Review(m) \/ Ignore(m))
      BY <2>3, QueueSteps
      DEF InitiatePayment, PublishPayment, Confirm, Review, Ignore
    <3>2. Known(booking, m.booking)
      BY <3>1 DEF HonourInv
    <3>3. booking[m.booking] \in Row
      BY <2>1, <3>2 DEF HonourInv, TypeOK, Known, NoBooking
    <3>4. CASE Confirm(m)
      BY <2>1, <3>3, <3>4 DEF Confirm, HonourInv, TypeOK, Row
    <3>5. CASE Review(m)
      BY <2>1, <3>3, <3>5 DEF Review, HonourInv, TypeOK, Row
    <3>6. CASE Ignore(m)
      <4>1. booking[m.booking].state \notin {"PENDING_PAYMENT", "EXPIRED"}
        BY <1>3, <3>6 DEF Ignore, TooLate
      <4> QED
        BY <3>3, <3>6, <4>1 DEF Ignore, Row, State
    <3> QED
      BY <3>1, <3>4, <3>5, <3>6
  <2> QED
    BY <2>2, <2>3
<1>4. OneFactEach'
  BY OneFactStep DEF HonourInv
<1>5. ASSUME NEW b \in initiated', booking'[b].state \in {"CONFIRMED", "PAYMENT_REVIEW"}
      PROVE  PaidFor(b)'
  <2>1. b \in BookingId
    BY DEF TypeOK
  <2>2. CASE b \in initiated
    BY <1>5, <2>1, <2>2, PaidForStep DEF HonourInv
  <2>3. CASE b \notin initiated
    <3>1. InitiatePayment(b)
      BY <2>3, QueueSteps DEF InitiatePayment, PublishPayment, Confirm, Review, Ignore
    <3> QED
      BY <1>5, <3>1 DEF InitiatePayment, Snapshot
  <2> QED
    BY <2>2, <2>3
<1> QED
  BY <1>1, <1>2, <1>3, <1>4, <1>5 DEF HonourInv, Honoured

(* A completed payment that was consumed always shows in its booking:      *)
(* confirmed, or under review, or cancelled by its member.  A mismatched   *)
(* one never does: its booking is still pending, or it ended unpaid.       *)
THEOREM PaymentsAreHonoured == Spec => []PaymentIsHonoured
<1>1. Init => HonourInv
  BY InitType DEF Init, HonourInv, Honoured, OneFactEach
<1>2. HonourInv => PaymentIsHonoured
  <2> SUFFICES ASSUME HonourInv, NEW m \in inbox, m.type # "PaymentCompleted"
               PROVE  booking[m.booking].state \in {"PENDING_PAYMENT", "EXPIRED", "CANCELLED"}
    BY DEF HonourInv, Honoured, PaymentIsHonoured
  <2>1. m \in paymentFacts /\ m.booking \in BookingId /\ m.booking \in initiated
    BY DEF HonourInv, OneFactEach, TypeOK, PaymentFact
  <2>2. booking[m.booking] \in Row
    BY <2>1 DEF HonourInv, TypeOK, Known, NoBooking
  <2>3. ~ PaidFor(m.booking)
    BY <2>1 DEF HonourInv, OneFactEach, PaidFor
  <2> QED
    BY <2>1, <2>2, <2>3 DEF HonourInv, Row, State
<1> QED
  BY <1>1, <1>2, HonourStep, PTL DEF Spec

-----------------------------------------------------------------------------
(* A member's key names one booking *)

Creations(rows) == {row \in rows : row.operation = "booking.create"}

OneEach(C) ==
    \A x, y \in C :
        (x.actor = y.actor /\ x.key = y.key) \/ x.booking = y.booking => x = y

NamesOwner(C, t) ==
    \A b \in BookingId :
        Known(t, b) <=> \E x \in C : x.booking = b /\ x.actor = t[b].account

(* Inductive: a row also never names a booking that is not there, so that  *)
(* the fresh id of a creation is in no older row.                          *)
KeysInv ==
    /\ TypeOK
    /\ OneEach(Creations(idempotency))
    /\ NamesOwner(Creations(idempotency), booking)
    /\ \A x \in Creations(idempotency) : Known(booking, x.booking)

LEMMA KnownExists ==
    ASSUME NEW t \in Table, NEW b \in BookingId
    PROVE  Known(t, b) <=> t[b] # NoBooking
<1>1. CASE t[b] = NoBooking
  BY <1>1 DEF Known, NoBooking
<1>2. CASE t[b] \in Row
  <2>1. t[b].state # "NONE"
    BY <1>2 DEF Row, State
  <2> QED
    BY <2>1 DEF Known, NoBooking
<1> QED
  BY <1>1, <1>2 DEF Table

LEMMA KeysStep == KeysInv /\ [Next]_vars => KeysInv'
<1> SUFFICES ASSUME KeysInv, [Next]_vars, TypeOK'
             PROVE  KeysInv'
  BY TypeStep DEF KeysInv
<1>1. PICK C : C = Creations(idempotency)
  OBVIOUS
<1>2. /\ OneEach(C) /\ NamesOwner(C, booking)
      /\ \A x \in C : x.booking \in BookingId /\ Known(booking, x.booking)
  BY <1>1 DEF KeysInv, Creations, TypeOK, IdempotencyRow
<1>3. CASE Creation
  <2>1. PICK b \in BookingId, a \in Account, e \in Event, m \in Method,
             k \in Key, at \in 0..MaxTime : Create(b, a, e, m, k, at)
    BY <1>3 DEF Creation, Creates
  <2>2. PICK r : r = [actor |-> a, operation |-> "booking.create", key |-> k,
                      booking |-> b]
    OBVIOUS
  <2>3. Creations(idempotency') = C \cup {r}
    BY <1>1, <2>1, <2>2 DEF Create, WithKey, Creations
  <2>4. /\ ~Known(booking, b)
        /\ \A x \in C : x.booking # b /\ ~(x.actor = a /\ x.key = k)
    <3>1. ~Known(booking, b)
      BY <2>1, KnownExists DEF Create, KeysInv, TypeOK, Table, Exists
    <3>2. \A x \in C : ~(x.actor = a /\ x.key = k)
      BY <1>1, <2>1 DEF Create, KeyUsed, Creations
    <3> QED
      BY <1>2, <3>1, <3>2
  <2>5. /\ Known(booking', b) /\ booking'[b].account = a
        /\ \A c \in BookingId : c # b => booking'[c] = booking[c]
    <3>1. /\ booking'[b] = NewRow(a, e, m, at)
          /\ \A c \in BookingId : c # b => booking'[c] = booking[c]
      BY <2>1 DEF Create, KeysInv, TypeOK
    <3> QED
      BY <3>1 DEF NewRow, Known
  <2>6. OneEach(C \cup {r})
    BY <1>2, <2>2, <2>4 DEF OneEach
  <2>7. NamesOwner(C \cup {r}, booking')
    <3>1. ASSUME NEW c \in BookingId, c # b
          PROVE  Known(booking', c) <=>
                     \E x \in C \cup {r} : /\ x.booking = c
                                          /\ x.actor = booking'[c].account
      BY <1>2, <2>2, <2>5, <3>1 DEF NamesOwner, Known
    <3>2. r.booking = b /\ r.actor = a
      BY <2>2
    <3> QED
      BY <2>5, <3>1, <3>2 DEF NamesOwner
  <2>8. \A x \in C \cup {r} : Known(booking', x.booking)
    BY <1>2, <2>2, <2>5 DEF Known
  <2> QED
    BY <2>3, <2>6, <2>7, <2>8 DEF KeysInv
<1>4. CASE ~Creation
  <2>1. Creations(idempotency') = C
    <3>1. CASE UNCHANGED idempotency
      BY <1>1, <3>1
    <3>2. ASSUME NEW b \in BookingId, NEW k \in Key, Cancel(b, k)
          PROVE  Creations(idempotency') = C
      BY <1>1, <3>2 DEF Cancel, WithKey, Creations
    <3> QED
      BY <1>4, <3>1, <3>2
      DEF Next, ServiceStep, PaymentStep, ApplyPaymentEvent, vars, Tick, Expire, InitiatePayment, PublishPayment, Confirm, Review, Ignore, Creation, Creates
  <2>2. \A b \in BookingId :
            /\ Known(booking, b) <=> Known(booking', b)
            /\ Known(booking, b) => booking'[b].account = booking[b].account
    BY <1>4, OwnerKept DEF KeysInv, SameOwner
  <2>3. NamesOwner(C, booking')
    <3> SUFFICES ASSUME NEW b \in BookingId
                 PROVE  Known(booking', b) <=>
                            \E x \in C : /\ x.booking = b
                                        /\ x.actor = booking'[b].account
      BY DEF NamesOwner
    <3>1. CASE Known(booking, b)
      BY <1>2, <2>2, <3>1 DEF NamesOwner
    <3>2. CASE ~Known(booking, b)
      BY <1>2, <2>2, <3>2
    <3> QED
      BY <3>1, <3>2
  <2>4. \A x \in C : Known(booking', x.booking)
    BY <1>2, <2>2
  <2> QED
    BY <1>2, <2>1, <2>3, <2>4 DEF KeysInv
<1> QED
  BY <1>3, <1>4

(* A retried creation never books twice, whatever else happens between the *)
(* first attempt and the retry.                                            *)
THEOREM CreationsAreIdempotent == Spec => []KeysNameBookings
<1>1. Init => KeysInv
  BY InitType
  DEF Init, KeysInv, Creations, OneEach, NamesOwner, Known, NoBooking
<1>2. KeysInv => KeysNameBookings
  <2> SUFFICES ASSUME KeysInv PROVE KeysNameBookings
    OBVIOUS
  <2>1. \A b \in BookingId : Known(booking, b) <=> Exists(b)
    BY KnownExists DEF KeysInv, TypeOK, Table, Exists
  <2> QED
    BY <2>1 DEF KeysInv, KeysNameBookings, Creations, OneEach, NamesOwner
<1> QED
  BY <1>1, <1>2, KeysStep, PTL DEF Spec

-----------------------------------------------------------------------------
(* The facts of a booking retell its state *)

(* A tuple is not a longer or a shorter one, nor one that differs from it  *)
(* somewhere: what the cases of Retold compare.                            *)
LEMMA Tellings ==
    /\ Retold(<<>>) = "NONE"
    /\ Retold(<<"BookingPending">>) = "PENDING_PAYMENT"
    /\ Retold(<<"BookingConfirmed">>) = "CONFIRMED"
    /\ Retold(<<"BookingPending", "BookingCancelled">>) = "CANCELLED"
    /\ Retold(<<"BookingPending", "HoldExpired">>) = "EXPIRED"
    /\ Retold(<<"BookingPending", "BookingConfirmed">>) = "CONFIRMED"
    /\ Retold(<<"BookingPending", "BookingPaymentReviewRequired">>) =
          "PAYMENT_REVIEW"
    /\ Retold(<<"BookingPending", "HoldExpired",
                "BookingPaymentReviewRequired">>) = "PAYMENT_REVIEW"
<1>1. Retold(<<>>) = "NONE"
  BY DEF Retold
<1>2. Retold(<<"BookingPending">>) = "PENDING_PAYMENT"
  BY DEF Retold
<1>3. Retold(<<"BookingConfirmed">>) = "CONFIRMED"
  BY DEF Retold
<1>4. Retold(<<"BookingPending", "BookingCancelled">>) = "CANCELLED"
  BY DEF Retold
<1>5. Retold(<<"BookingPending", "HoldExpired">>) = "EXPIRED"
  BY DEF Retold
<1>6. Retold(<<"BookingPending", "BookingConfirmed">>) = "CONFIRMED"
  BY DEF Retold
<1>7. Retold(<<"BookingPending", "BookingPaymentReviewRequired">>) =
          "PAYMENT_REVIEW"
  BY DEF Retold
<1>8. Retold(<<"BookingPending", "HoldExpired",
               "BookingPaymentReviewRequired">>) = "PAYMENT_REVIEW"
  BY DEF Retold
<1> QED
  BY <1>1, <1>2, <1>3, <1>4, <1>5, <1>6, <1>7, <1>8

LEMMA OpenTellings ==
    ASSUME NEW f
    PROVE  /\ Retold(f) = "NONE" => f = <<>>
           /\ Retold(f) = "PENDING_PAYMENT" => f = <<"BookingPending">>
           /\ Retold(f) = "EXPIRED" => f = <<"BookingPending", "HoldExpired">>
<1>1. Retold(f) = "NONE" => f = <<>>
  BY DEF Retold
<1>2. Retold(f) = "PENDING_PAYMENT" => f = <<"BookingPending">>
  BY DEF Retold
<1>3. Retold(f) = "EXPIRED" => f = <<"BookingPending", "HoldExpired">>
  BY DEF Retold
<1> QED
  BY <1>1, <1>2, <1>3

(* Appending to a tuple of one or two elements, written out.               *)
LEMMA SecondElement ==
    ASSUME NEW S, NEW a \in S, NEW x \in S
    PROVE  Append(<<a>>, x) = <<a, x>>
<1>1. <<a>> \in Seq(S) /\ <<a, x>> \in Seq(S)
  OBVIOUS
<1>2. Len(<<a>>) = 1 /\ Len(<<a, x>>) = 2
  OBVIOUS
<1>3. Append(<<a>>, x) \in Seq(S) /\ Len(Append(<<a>>, x)) = 2
  BY <1>1, <1>2
<1>4. Append(<<a>>, x)[1] = a /\ Append(<<a>>, x)[2] = x
  BY <1>1, <1>2
<1>5. \A i \in 1..2 : Append(<<a>>, x)[i] = <<a, x>>[i]
  BY <1>4
<1> QED
  BY <1>1, <1>2, <1>3, <1>5, SeqEqual

LEMMA ThirdElement ==
    ASSUME NEW S, NEW a \in S, NEW b \in S, NEW x \in S
    PROVE  Append(<<a, b>>, x) = <<a, b, x>>
<1>1. <<a, b>> \in Seq(S) /\ <<a, b, x>> \in Seq(S)
  OBVIOUS
<1>2. Len(<<a, b>>) = 2 /\ Len(<<a, b, x>>) = 3
  OBVIOUS
<1>3. Append(<<a, b>>, x) \in Seq(S) /\ Len(Append(<<a, b>>, x)) = 3
  BY <1>1, <1>2
<1>4. /\ Append(<<a, b>>, x)[1] = a
      /\ Append(<<a, b>>, x)[2] = b
      /\ Append(<<a, b>>, x)[3] = x
  BY <1>1, <1>2
<1>5. \A i \in 1..3 : Append(<<a, b>>, x)[i] = <<a, b, x>>[i]
  BY <1>4
<1> QED
  BY <1>1, <1>2, <1>3, <1>5, SeqEqual

(* A fact appended to the facts of an open booking tells its next state.   *)
LEMMA NextTelling ==
    ASSUME NEW f
    PROVE  /\ Retold(f) = "NONE" =>
                 /\ Retold(Append(f, "BookingPending")) = "PENDING_PAYMENT"
                 /\ Retold(Append(f, "BookingConfirmed")) = "CONFIRMED"
           /\ Retold(f) = "PENDING_PAYMENT" =>
                 /\ Retold(Append(f, "BookingCancelled")) = "CANCELLED"
                 /\ Retold(Append(f, "HoldExpired")) = "EXPIRED"
                 /\ Retold(Append(f, "BookingConfirmed")) = "CONFIRMED"
           /\ Retold(f) \in {"PENDING_PAYMENT", "EXPIRED"} =>
                 Retold(Append(f, "BookingPaymentReviewRequired")) =
                     "PAYMENT_REVIEW"
<1>1. \A x \in FactName : Append(<<>>, x) = <<x>>
  OBVIOUS
<1>2. \A x \in FactName :
          Append(<<"BookingPending">>, x) = <<"BookingPending", x>>
  BY SecondElement DEF FactName
<1>3. \A x \in FactName : Append(<<"BookingPending", "HoldExpired">>, x) =
                           <<"BookingPending", "HoldExpired", x>>
  BY ThirdElement DEF FactName
<1>4. CASE Retold(f) = "NONE"
  BY <1>1, <1>4, OpenTellings, Tellings DEF FactName
<1>5. CASE Retold(f) = "PENDING_PAYMENT"
  BY <1>2, <1>5, OpenTellings, Tellings DEF FactName
<1>6. CASE Retold(f) = "EXPIRED"
  BY <1>3, <1>6, OpenTellings, Tellings DEF FactName
<1> QED
  BY <1>4, <1>5, <1>6

FactsInv == TypeOK /\ FactsRetellState

LEMMA FactsStep == FactsInv /\ [Next]_vars => FactsInv'
<1> SUFFICES ASSUME FactsInv, [Next]_vars, TypeOK', NEW b \in BookingId
             PROVE  Retold(outbox'[b]) = booking'[b].state
  BY TypeStep DEF FactsInv, FactsRetellState
<1>1. Retold(outbox[b]) = booking[b].state
  BY DEF FactsInv, FactsRetellState
<1>2. CASE UNCHANGED <<booking, outbox>>
  BY <1>1, <1>2
<1>3. ASSUME NEW c \in BookingId, NEW a \in Account, NEW e \in Event,
             NEW m \in Method, NEW k \in Key, NEW at \in 0..MaxTime,
             Create(c, a, e, m, k, at)
      PROVE  Retold(outbox'[b]) = booking'[b].state
  <2>1. CASE b # c
    <3>1. booking'[b] = booking[b]
      BY <1>3, <2>1 DEF Create, FactsInv, TypeOK
    <3>2. outbox'[b] = outbox[b]
      BY <1>3, <2>1 DEF Create, WithFact, FactsInv, TypeOK
    <3> QED
      BY <1>1, <3>1, <3>2
  <2>2. CASE b = c
    <3>1. booking[b].state = "NONE"
      BY <1>3, <2>2 DEF Create, Exists, NoBooking
    <3>2. booking'[b].state =
              IF m = "AT_VENUE" THEN "CONFIRMED" ELSE "PENDING_PAYMENT"
      <4>1. booking'[b] = NewRow(a, e, m, at)
        BY <1>3, <2>2 DEF Create, FactsInv, TypeOK
      <4> QED
        BY <4>1 DEF NewRow
    <3>3. outbox'[b] = Append(outbox[b], IF m = "AT_VENUE"
                                           THEN "BookingConfirmed"
                                           ELSE "BookingPending")
      <4>1. CASE m = "AT_VENUE"
        BY <1>3, <2>2, <4>1 DEF Create, WithFact, FactsInv, TypeOK
      <4>2. CASE m # "AT_VENUE"
        BY <1>3, <2>2, <4>2 DEF Create, WithFact, FactsInv, TypeOK
      <4> QED
        BY <4>1, <4>2
    <3> QED
      BY <1>1, <3>1, <3>2, <3>3, NextTelling
  <2> QED
    BY <2>1, <2>2
<1>4. ASSUME NEW c \in BookingId, NEW k \in Key, Cancel(c, k)
      PROVE  Retold(outbox'[b]) = booking'[b].state
  <2>1. booking[c] \in Row /\ booking[c].state = "PENDING_PAYMENT"
    BY <1>4, RowType DEF Cancel, State, FactsInv
  <2>2. CASE b # c
    BY <1>1, <1>4, <2>2 DEF Cancel, WithFact, FactsInv, TypeOK
  <2>3. CASE b = c
    <3>1. booking'[b].state = "CANCELLED"
      BY <1>4, <2>1, <2>3 DEF Cancel, FactsInv, TypeOK, Row
    <3>2. outbox'[b] = Append(outbox[b], "BookingCancelled")
      BY <1>4, <2>3 DEF Cancel, WithFact, FactsInv, TypeOK
    <3> QED
      BY <1>1, <2>1, <2>3, <3>1, <3>2, NextTelling
  <2> QED
    BY <2>2, <2>3
<1>5. ASSUME NEW D \in SUBSET Due, Expire(D)
      PROVE  Retold(outbox'[b]) = booking'[b].state
  <2>1. CASE b \notin D
    BY <1>1, <1>5, <2>1 DEF Expire
  <2>2. CASE b \in D
    <3>1. booking[b].state = "PENDING_PAYMENT"
      BY <2>2 DEF Due
    <3>2. booking[b] \in Row
      BY <3>1, RowType DEF State, FactsInv
    <3>3. booking'[b].state = "EXPIRED"
      BY <1>5, <2>2, <3>2 DEF Expire, Row
    <3>4. outbox'[b] = Append(outbox[b], "HoldExpired")
      BY <1>5, <2>2 DEF Expire
    <3> QED
      BY <1>1, <3>1, <3>3, <3>4, NextTelling
  <2> QED
    BY <2>1, <2>2
<1>6. ASSUME NEW m \in paymentFacts, Confirm(m)
      PROVE  Retold(outbox'[b]) = booking'[b].state
  <2>1. /\ m.booking \in BookingId
        /\ booking[m.booking].state = "PENDING_PAYMENT"
    BY <1>6 DEF Confirm, InTime, FactsInv, TypeOK, PaymentFact
  <2>2. booking[m.booking] \in Row
    BY <2>1, RowType DEF State, FactsInv
  <2>3. CASE b # m.booking
    BY <1>1, <1>6, <2>3 DEF Confirm, WithFact, FactsInv, TypeOK
  <2>4. CASE b = m.booking
    <3>1. booking'[b].state = "CONFIRMED"
      BY <1>6, <2>2, <2>4 DEF Confirm, FactsInv, TypeOK, Row
    <3>2. outbox'[b] = Append(outbox[b], "BookingConfirmed")
      BY <1>6, <2>4 DEF Confirm, WithFact, FactsInv, TypeOK
    <3> QED
      BY <1>1, <2>1, <2>4, <3>1, <3>2, NextTelling
  <2> QED
    BY <2>3, <2>4
<1>7. ASSUME NEW m \in paymentFacts, Review(m)
      PROVE  Retold(outbox'[b]) = booking'[b].state
  <2>1. /\ m.booking \in BookingId
        /\ booking[m.booking].state \in {"PENDING_PAYMENT", "EXPIRED"}
    BY <1>7 DEF Review, TooLate, FactsInv, TypeOK, PaymentFact
  <2>2. booking[m.booking] \in Row
    BY <2>1, RowType DEF State, FactsInv
  <2>3. CASE b # m.booking
    BY <1>1, <1>7, <2>3 DEF Review, WithFact, FactsInv, TypeOK
  <2>4. CASE b = m.booking
    <3>1. booking'[b].state = "PAYMENT_REVIEW"
      BY <1>7, <2>2, <2>4 DEF Review, FactsInv, TypeOK, Row
    <3>2. outbox'[b] = Append(outbox[b], "BookingPaymentReviewRequired")
      BY <1>7, <2>4 DEF Review, WithFact, FactsInv, TypeOK
    <3> QED
      BY <1>1, <2>1, <2>4, <3>1, <3>2, NextTelling
  <2> QED
    BY <2>3, <2>4
<1> QED
  BY <1>2, <1>3, <1>4, <1>5, <1>6, <1>7
  DEF Next, ServiceStep, PaymentStep, ApplyPaymentEvent, vars, Tick, InitiatePayment, PublishPayment, Ignore

(* Whoever folds the facts of a booking in the order they were committed   *)
(* always arrives at the state of its row.                                 *)
THEOREM FactsTellState == Spec => []FactsRetellState
<1>1. Init => FactsInv
  <2> SUFFICES ASSUME Init PROVE FactsInv
    OBVIOUS
  <2>1. \A b \in BookingId : outbox[b] = <<>> /\ booking[b].state = "NONE"
    BY DEF Init, NoBooking
  <2> QED
    BY <2>1, InitType, Tellings DEF FactsInv, FactsRetellState
<1>2. FactsInv => FactsRetellState
  BY DEF FactsInv
<1> QED
  BY <1>1, <1>2, FactsStep, PTL DEF Spec

-----------------------------------------------------------------------------
(* The service implements the abstract sale of seats *)

(* A step that is no creation keeps every holder and every show.           *)
LEMMA HoldersKept ==
    ASSUME TypeOK, TypeOK', [Next]_vars, ~Creation
    PROVE  UNCHANGED <<[b \in Booked |-> booking[b].account],
                       [b \in Booked |-> booking[b].event]>>
<1>1. \A b \in BookingId : /\ Known(booking, b) <=> booking[b] # NoBooking
                           /\ Known(booking', b) <=> booking'[b] # NoBooking
  BY KnownExists DEF TypeOK, Table
<1>2. Booked' = Booked
  BY <1>1, OwnerKept DEF Booked, Exists
<1>3. \A b \in Booked : SameOwner(b)
  BY <1>1, OwnerKept DEF Booked, Exists
<1> QED
  BY <1>2, <1>3 DEF SameOwner

LEMMA SeatMoves ==
    ASSUME TypeOK, NEW b \in BookingId, NEW state \in State,
           booking[b].state # "NONE",
           booking' = [booking EXCEPT ![b].state = state]
    PROVE  [c \in BookingId |-> SeatOf(booking'[c].state)] =
               [[c \in BookingId |-> SeatOf(booking[c].state)] EXCEPT
                   ![b] = SeatOf(state)]
<1>1. booking'[b].state = state
  BY RowType DEF TypeOK, Row
<1>2. \A c \in BookingId : c # b => booking'[c] = booking[c]
  BY DEF TypeOK
<1>3. \A c \in BookingId : SeatOf(booking'[c].state) =
          IF c = b THEN SeatOf(state) ELSE SeatOf(booking[c].state)
  BY <1>1, <1>2
<1> QED
  BY <1>3

SeatNow == [b \in BookingId |-> SeatOf(booking[b].state)]

LEMMA CreateTakes ==
    ASSUME SeatInv, ActiveInv, TypeOK', NEW b \in BookingId,
           NEW a \in Account, NEW e \in Event, NEW m \in Method,
           NEW k \in Key, NEW at \in 0..MaxTime, Create(b, a, e, m, k, at)
    PROVE  Sale!Take(b, a, e, IF m = "AT_VENUE" THEN "sold" ELSE "held")
<1> DEFINE status == IF m = "AT_VENUE" THEN "sold" ELSE "held"
<1>1. /\ ~Exists(b) /\ booking[b].state = "NONE"
      /\ booking'[b] = NewRow(a, e, m, at)
      /\ \A c \in BookingId : c # b => booking'[c] = booking[c]
  BY DEF Create, Exists, NoBooking, SeatInv, TypeOK
<1>2. /\ booking'[b].account = a /\ booking'[b].event = e
      /\ SeatOf(booking'[b].state) = status
      /\ booking'[b].state # "NONE"
  BY <1>1 DEF NewRow, SeatOf
<1>3. SeatNow[b] = "unused"
  BY <1>1 DEF SeatNow, SeatOf
<1>4. Sale!Taken(e) = InState({"PENDING_PAYMENT", "CONFIRMED"}, e)
  <2>1. \A c \in BookingId : SeatOf(booking[c].state) \in {"held", "sold"} <=>
            booking[c].state \in {"PENDING_PAYMENT", "CONFIRMED"}
    BY DEF SeatOf
  <2>2. \A c \in BookingId :
            booking[c].state \in {"PENDING_PAYMENT", "CONFIRMED"} => c \in Booked
    BY DEF Booked, Exists, NoBooking
  <2> QED
    BY <2>1, <2>2 DEF Sale!Taken, InState
<1>5. Cardinality(Sale!Taken(e)) < Capacity[e]
  BY <1>4, SeatsTaken DEF Create, SeatLeft
<1>6. \A c \in Sale!Taken(e) : booking[c].account # a /\ c \in Booked
  BY <1>4 DEF Create, HasActive, ActiveOf, InState, Active, Booked, Exists, NoBooking
<1>7. SeatNow' = [SeatNow EXCEPT ![b] = status]
  BY <1>1, <1>2 DEF SeatNow
<1>8. Booked' = Booked \cup {b}
  <2>1. booking'[b] # NoBooking
    BY <1>2 DEF NoBooking
  <2> QED
    BY <1>1, <2>1 DEF Booked, Exists
<1>9. Booked = Sale!Used
  <2>1. \A c \in BookingId : Known(booking, c) <=> booking[c] # NoBooking
    BY KnownExists DEF SeatInv, TypeOK, Table
  <2>2. \A c \in BookingId : Known(booking, c) <=>
                                 SeatOf(booking[c].state) # "unused"
    BY DEF Known, SeatOf
  <2> QED
    BY <2>1, <2>2 DEF Booked, Exists, Sale!Used
<1>10. b \notin Booked
  BY <1>1 DEF Booked
<1>11. [c \in Booked' |-> booking'[c].account] =
         [c \in Booked \cup {b} |->
             IF c = b THEN a ELSE [d \in Booked |-> booking[d].account][c]]
  BY <1>1, <1>2, <1>8, <1>10 DEF Booked
<1>12. [c \in Booked' |-> booking'[c].event] =
         [c \in Booked \cup {b} |->
             IF c = b THEN e ELSE [d \in Booked |-> booking[d].event][c]]
  BY <1>1, <1>2, <1>8, <1>10 DEF Booked
<1> QED
  <2>1. \A c \in Sale!Taken(e) : [d \in Booked |-> booking[d].account][c] # a
    BY <1>6
  <2>2. [c \in Booked' |-> booking'[c].account] =
          [c \in Sale!Used \cup {b} |->
             IF c = b THEN a ELSE [d \in Booked |-> booking[d].account][c]]
    BY <1>9, <1>11
  <2>3. [c \in Booked' |-> booking'[c].event] =
          [c \in Sale!Used \cup {b} |->
             IF c = b THEN e ELSE [d \in Booked |-> booking[d].event][c]]
    BY <1>9, <1>12
  <2>4. Sale!Cardinality(Sale!Taken(e)) < Capacity[e]
    BY <1>5 DEF Sale!Cardinality, Cardinality
  <2>5. status \in {"held", "sold"}
    OBVIOUS
  <2> QED
    BY <1>3, <1>7, <2>1, <2>2, <2>3, <2>4, <2>5 DEF Sale!Take, SeatNow

LEMMA SaleStep ==
    ASSUME SeatInv, ActiveInv, TypeOK', [Next]_vars
    PROVE  [Sale!Next]_(Sale!vars)
<1>1. CASE UNCHANGED booking
  BY <1>1 DEF Sale!vars, Booked, Exists
<1>2. CASE Creation
  <2>1. PICK b \in BookingId, a \in Account, e \in Event, m \in Method,
             k \in Key, at \in 0..MaxTime : Create(b, a, e, m, k, at)
    BY <1>2 DEF Creation, Creates
  <2>2. Sale!Take(b, a, e, IF m = "AT_VENUE" THEN "sold" ELSE "held")
    BY <2>1, CreateTakes
  <2> QED
    BY <2>2 DEF Sale!Next
<1>3. CASE ~Creation
  <2>1. UNCHANGED <<[b \in Booked |-> booking[b].account],
                    [b \in Booked |-> booking[b].event]>>
    BY <1>3, HoldersKept DEF SeatInv
  <2>2. ASSUME NEW b \in BookingId, booking[b].state = "PENDING_PAYMENT",
               NEW state \in {"CANCELLED", "PAYMENT_REVIEW"},
               booking' = [booking EXCEPT ![b].state = state]
        PROVE  Sale!Next
    <3>1. SeatNow' = [SeatNow EXCEPT ![b] = "released"]
      BY <2>2, SeatMoves DEF SeatInv, SeatNow, SeatOf, State
    <3>2. SeatNow[b] = "held"
      BY <2>2 DEF SeatNow, SeatOf
    <3>3. SeatNow' = [c \in BookingId |->
                        IF c \in {b} THEN "released" ELSE SeatNow[c]]
      BY <3>1 DEF SeatNow
    <3>4. Sale!Release({b})
      BY <2>1, <3>2, <3>3 DEF Sale!Release, SeatNow
    <3> QED
      BY <3>4 DEF Sale!Next
  <2>3. ASSUME NEW b \in BookingId, NEW k \in Key, Cancel(b, k)
        PROVE  Sale!Next
    BY <2>2, <2>3 DEF Cancel
  <2>4. ASSUME NEW D \in SUBSET Due, Expire(D)
        PROVE  Sale!Next
    <3>1. D \subseteq BookingId /\ \A b \in D : booking[b].state = "PENDING_PAYMENT"
      BY DEF Due
    <3>2. \A b \in D : booking[b] \in Row
      BY <3>1, RowType DEF State, SeatInv
    <3>3. \A b \in D : booking'[b].state = "EXPIRED"
      BY <2>4, <3>1, <3>2 DEF Expire, Row
    <3>4. \A b \in BookingId \ D : booking'[b] = booking[b]
      BY <2>4 DEF Expire
    <3>5. SeatNow' = [b \in BookingId |->
                        IF b \in D THEN "released" ELSE SeatNow[b]]
      BY <3>3, <3>4 DEF SeatNow, SeatOf
    <3>6. \A b \in D : SeatNow[b] = "held"
      BY <3>1 DEF SeatNow, SeatOf
    <3>7. Sale!Release(D)
      BY <2>1, <2>4, <3>5, <3>6 DEF Sale!Release, Expire, SeatNow
    <3> QED
      BY <3>1, <3>7 DEF Sale!Next
  <2>5. ASSUME NEW m \in paymentFacts, Confirm(m)
        PROVE  Sale!Next
    <3>1. PICK b \in BookingId : b = m.booking
      BY DEF SeatInv, TypeOK, PaymentFact
    <3>2. /\ booking[b].state = "PENDING_PAYMENT"
          /\ booking' = [booking EXCEPT ![b].state = "CONFIRMED"]
      BY <2>5, <3>1 DEF Confirm, InTime
    <3>3. SeatNow' = [SeatNow EXCEPT ![b] = "sold"]
      BY <3>2, SeatMoves DEF SeatInv, SeatNow, SeatOf, State
    <3>4. SeatNow[b] = "held"
      BY <3>2 DEF SeatNow, SeatOf
    <3>5. Sale!Sell(b)
      BY <2>1, <3>3, <3>4 DEF Sale!Sell, SeatNow
    <3> QED
      BY <3>5 DEF Sale!Next
  <2>6. ASSUME NEW m \in paymentFacts, Review(m)
        PROVE  [Sale!Next]_(Sale!vars)
    <3>1. PICK b \in BookingId : b = m.booking
      BY DEF SeatInv, TypeOK, PaymentFact
    <3>2. /\ booking[b].state \in {"PENDING_PAYMENT", "EXPIRED"}
          /\ booking' = [booking EXCEPT ![b].state = "PAYMENT_REVIEW"]
      BY <2>6, <3>1 DEF Review, TooLate
    <3>3. CASE booking[b].state = "PENDING_PAYMENT"
      BY <2>2, <3>2, <3>3
    <3>4. CASE booking[b].state = "EXPIRED"
      <4>1. SeatNow' = [SeatNow EXCEPT ![b] = "released"]
        BY <3>2, SeatMoves DEF SeatInv, SeatNow, SeatOf, State
      <4>2. SeatNow[b] = "released"
        BY <3>4 DEF SeatNow, SeatOf
      <4>3. SeatNow' = SeatNow
        BY <4>1, <4>2 DEF SeatNow
      <4> QED
        BY <2>1, <4>3 DEF Sale!vars, SeatNow
    <3> QED
      BY <3>2, <3>3, <3>4
  <2> QED
    BY <1>1, <1>3, <2>3, <2>4, <2>5, <2>6
    DEF Next, ServiceStep, PaymentStep, ApplyPaymentEvent, vars, Tick, InitiatePayment, PublishPayment, Ignore, Creation, Creates
<1> QED
  BY <1>2, <1>3

(* Every behaviour of the tables is one of the abstract sale of seats:     *)
(* seats are taken below the capacity, sold or released once, and never    *)
(* come back.                                                              *)
THEOREM BookingSellsSeats == Spec => ImplementsSale
<1>1. Init => Sale!Init
  <2> SUFFICES ASSUME Init PROVE Sale!Init
    OBVIOUS
  <2>1. Booked = {}
    BY DEF Init, Booked, Exists
  <2>2. \A b \in BookingId : SeatOf(booking[b].state) = "unused"
    BY DEF Init, NoBooking, SeatOf
  <2> QED
    BY <2>1, <2>2 DEF Sale!Init
<1>2. Init => SeatInv /\ ActiveInv
  BY SeatInit, ActiveInit
<1>3. SeatInv /\ ActiveInv /\ [Next]_vars =>
          /\ SeatInv' /\ ActiveInv'
          /\ [Sale!Next]_(Sale!vars)
  BY SeatStep, ActiveStep, SaleStep DEF SeatInv
<1> QED
  BY <1>1, <1>2, <1>3, PTL DEF Spec, ImplementsSale, Sale!Spec
=============================================================================
