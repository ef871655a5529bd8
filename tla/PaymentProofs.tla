---------------------------- MODULE PaymentProofs ----------------------------
(***************************************************************************)
(* What TLAPS proves of Payment, for any members, bookings, keys, answers  *)
(* of the provider and delays, and of BookingPayment: what the two         *)
(* services promise together, and that Booking may assume of its           *)
(* environment what it does.                                               *)
(***************************************************************************)
EXTENDS BookingPayment, SequenceTheorems, TLAPS

(* The environment of Elsewhere leaves every table alone.                  *)
LEMMA Idle == Tick \/ Elsewhere => UNCHANGED paymentVars
BY DEF Tick, Elsewhere

LEMMA InitType == Init => TypeOK
BY PaymentAssumption, EmptySeq DEF PaymentAssumption, Init, TypeOK

LEMMA TypeStep == TypeOK /\ [Next]_vars => TypeOK'
<1> SUFFICES ASSUME TypeOK, [Next]_vars PROVE TypeOK'
  OBVIOUS
<1> USE PaymentAssumption DEF PaymentAssumption
<1>1. ASSUME NEW a \in Account, NEW b \in BookingId, NEW k \in Key,
             ReadSnapshot(a, b, k)
      PROVE  TypeOK'
  BY <1>1 DEF ReadSnapshot, TypeOK, Request
<1>2. ASSUME NEW r \in requests, Initiate(r)
      PROVE  TypeOK'
  <2>1. /\ r.actor \in Account /\ r.booking \in BookingId /\ r.key \in Key
        /\ r.at \in 0..MaxTime
    BY DEF TypeOK, Request
  <2>2. idempotency' \subseteq IdempotencyRow
    BY <1>2, <2>1 DEF Initiate, Remember, TypeOK, IdempotencyRow
  <2>3. CASE Open(r)
    <3>1. payment' \in [BookingId -> Row \cup {NoPayment}]
      BY <2>1, <2>3 DEF Open, TypeOK, Row, State
    <3>2. audit' \in [BookingId -> Seq(State)]
      <4>1. Append(audit[r.booking], "PENDING") \in Seq(State)
        BY <2>1 DEF TypeOK, State
      <4> QED
        BY <2>3, <4>1 DEF Open, TypeOK
    <3>3. outbox' \in [BookingId -> Seq(Fact)]
      <4>1. [type |-> "PaymentInitiated", at |-> r.at] \in Fact
        BY <2>1 DEF Fact, FactName
      <4>2. Append(outbox[r.booking], [type |-> "PaymentInitiated", at |-> r.at])
              \in Seq(Fact)
        BY <2>1, <4>1 DEF TypeOK
      <4> QED
        BY <2>3, <4>2 DEF Open, TypeOK
    <3> QED
      BY <1>2, <2>2, <3>1, <3>2, <3>3 DEF Initiate, TypeOK
  <2>4. CASE Reuse(r)
    BY <1>2, <2>2, <2>4 DEF Initiate, Reuse, TypeOK
  <2> QED
    BY <1>2, <2>3, <2>4 DEF Initiate
<1>3. ASSUME NEW n \in Notification, Callback(n)
      PROVE  TypeOK'
  <2> DEFINE b == n.order
             next == CallbackState(n)
  <2>1. b \in BookingId /\ next \in State
    BY DEF Notification, CallbackState, State
  <2>2. receipts' \subseteq Notification
    BY <1>3 DEF Callback, TypeOK
  <2>3. CASE Changes(n)
    <3>1. payment' \in [BookingId -> Row \cup {NoPayment}]
      <4>1. payment[b] \in Row
        BY <2>1, <2>3 DEF Changes, TypeOK, NoPayment
      <4>2. [payment[b] EXCEPT !.state = next, !.updatedAt = now] \in Row
        BY <2>1, <4>1 DEF Row, TypeOK
      <4> QED
        BY <1>3, <2>3, <4>2 DEF Callback, TypeOK
    <3>2. audit' \in [BookingId -> Seq(State)]
      <4>1. Append(audit[b], next) \in Seq(State)
        BY <2>1 DEF TypeOK
      <4> QED
        BY <1>3, <2>3, <4>1 DEF Callback, TypeOK
    <3>3. outbox' \in [BookingId -> Seq(Fact)]
      <4>1. [type |-> OutcomeFact(next), at |-> now] \in Fact
        BY DEF Fact, FactName, OutcomeFact, TypeOK
      <4>2. Append(outbox[b], [type |-> OutcomeFact(next), at |-> now]) \in Seq(Fact)
        BY <2>1, <4>1 DEF TypeOK
      <4> QED
        BY <1>3, <2>3, <4>2 DEF Callback, TypeOK
    <3> QED
      BY <1>3, <2>2, <3>1, <3>2, <3>3 DEF Callback, TypeOK
  <2>4. CASE ~Changes(n)
    BY <1>3, <2>2, <2>4 DEF Callback, TypeOK
  <2> QED
    BY <2>3, <2>4
<1>4. CASE OpenPendingReconciliation
  BY <1>4 DEF OpenPendingReconciliation, Overdue, TypeOK
<1>5. CASE Tick
  BY <1>5 DEF Tick, TypeOK, paymentVars
<1>6. CASE Elsewhere
  BY <1>6 DEF Elsewhere, TypeOK, paymentVars
<1>7. CASE UNCHANGED vars
  BY <1>7 DEF vars, paymentVars, TypeOK
<1> QED
  BY <1>1, <1>2, <1>3, <1>4, <1>5, <1>6, <1>7 DEF Next, PaymentStep

(* Every reachable state of the tables is well typed.                      *)
THEOREM TypeCorrect == Spec => []TypeOK
BY InitType, TypeStep, PTL DEF Spec

-----------------------------------------------------------------------------
(* How a payment moves: it appears, or leaves PENDING, and nothing else.   *)
LEMMA PaymentMoves ==
    ASSUME TypeOK, [Next]_vars, NEW b \in BookingId
    PROVE  \/ payment'[b] = payment[b]
           \/ ~Exists(b) /\ payment'[b].state = "PENDING"
           \/ \E n \in Notification :
                 /\ n.order = b /\ Callback(n) /\ Changes(n)
                 /\ payment'[b].state = CallbackState(n)
                 /\ payment'[b].account = payment[b].account
<1>1. ASSUME NEW r \in requests, Initiate(r)
      PROVE  payment'[b] = payment[b] \/ (~Exists(b) /\ payment'[b].state = "PENDING")
  <2>1. CASE Open(r)
    <3>1. CASE b = r.booking
      BY <2>1, <3>1 DEF Open, Known, TypeOK
    <3>2. CASE b # r.booking
      BY <2>1, <3>2 DEF Open, TypeOK
    <3> QED
      BY <3>1, <3>2
  <2>2. CASE Reuse(r)
    BY <2>2 DEF Reuse
  <2> QED
    BY <1>1, <2>1, <2>2 DEF Initiate
<1>2. ASSUME NEW n \in Notification, Callback(n)
      PROVE  \/ payment'[b] = payment[b]
             \/ /\ n.order = b /\ Callback(n) /\ Changes(n)
                /\ payment'[b].state = CallbackState(n)
                /\ payment'[b].account = payment[b].account
  <2>1. CASE Changes(n) /\ n.order = b
    <3>1. payment[b] \in Row
      BY <2>1 DEF Changes, TypeOK, NoPayment
    <3>2. payment'[b] = [payment[b] EXCEPT !.state = CallbackState(n),
                                           !.updatedAt = now]
      BY <1>2, <2>1 DEF Callback, TypeOK
    <3> QED
      BY <1>2, <2>1, <3>1, <3>2 DEF Row
  <2>2. CASE ~Changes(n)
    BY <1>2, <2>2 DEF Callback
  <2>3. CASE n.order # b
    BY <1>2, <2>3 DEF Callback, TypeOK
  <2> QED
    BY <2>1, <2>2, <2>3
<1>3. CASE UNCHANGED payment
  BY <1>3
<1> QED
  BY <1>1, <1>2, <1>3, Idle
  DEF Next, PaymentStep, ReadSnapshot, OpenPendingReconciliation, vars, paymentVars

LEMMA ReceiptsGrow == [Next]_vars => receipts \subseteq receipts'
BY Idle DEF Next, PaymentStep, ReadSnapshot, Initiate, Callback,
            OpenPendingReconciliation, vars, paymentVars

(* No payment is completed but by a callback that matched its order.       *)
THEOREM CompletionNeedsVerification == Spec => []CompletedIsVerified
<1>1. Init => CompletedIsVerified
  BY DEF Init, CompletedIsVerified, NoPayment
<1>2. TypeOK /\ CompletedIsVerified /\ [Next]_vars => CompletedIsVerified'
  <2> SUFFICES ASSUME TypeOK, CompletedIsVerified, [Next]_vars,
                      NEW b \in BookingId, payment'[b].state = "COMPLETED"
               PROVE  \E n \in receipts' :
                         n.order = b /\ n.answer.valid /\ n.answer.status = "2"
    BY DEF CompletedIsVerified
  <2>1. CASE payment'[b] = payment[b]
    BY <2>1, ReceiptsGrow DEF CompletedIsVerified
  <2>2. ASSUME NEW n \in Notification, n.order = b, Callback(n),
               CallbackState(n) = "COMPLETED"
        PROVE  \E m \in receipts' :
                         m.order = b /\ m.answer.valid /\ m.answer.status = "2"
    <3>1. n.answer.valid /\ n.answer.status = "2"
      <4>1. n.answer \in Answer
        BY DEF Notification
      <4>2. n.answer.valid \in BOOLEAN
        BY <4>1, PaymentAssumption DEF PaymentAssumption
      <4> QED
        BY <2>2, <4>2 DEF CallbackState
    <3> QED
      BY <2>2, <3>1 DEF Callback
  <2> QED
    BY <2>1, <2>2, PaymentMoves
<1> QED
  BY TypeCorrect, <1>1, <1>2, PTL DEF Spec

(* An order is opened once and decided at most once.                       *)
THEOREM OutcomesAreFinal == Spec => OutcomeIsFinal
<1> DEFINE Kept(b) ==
       /\ Exists(b) => /\ payment'[b].state # "NONE"
                       /\ payment'[b].account = payment[b].account
       /\ payment[b].state \in {"COMPLETED", "FAILED", "REVIEW"} =>
             payment'[b].state = payment[b].state
<1>1. ASSUME TypeOK, [Next]_vars, NEW b \in BookingId
      PROVE  Kept(b)
  <2>1. Exists(b) => payment[b].state # "NONE"
    BY <1>1 DEF Exists, TypeOK, Row, State
  <2>2. CASE payment'[b] = payment[b]
    BY <2>1, <2>2
  <2>3. CASE ~Exists(b)
    BY <2>3 DEF Exists, NoPayment
  <2>4. ASSUME NEW n \in Notification, n.order = b, Changes(n),
               payment'[b].state = CallbackState(n),
               payment'[b].account = payment[b].account
        PROVE  Kept(b)
    BY <2>4 DEF Changes, CallbackState
  <2> QED
    BY <1>1, <2>2, <2>3, <2>4, PaymentMoves
<1>2. TypeOK /\ [Next]_vars => [\A b \in BookingId : Kept(b)]_vars
  BY <1>1
<1> QED
  BY TypeCorrect, <1>2, PTL DEF Spec, OutcomeIsFinal

(* A key never answers a member with another payment than the first time,  *)
(* nor with somebody else's.                                               *)
THEOREM KeysAreSafe == Spec => []KeysNamePayments
<1>1. Init => KeysNamePayments
  BY DEF Init, KeysNamePayments
<1>2. TypeOK /\ KeysNamePayments /\ [Next]_vars => KeysNamePayments'
  <2> SUFFICES ASSUME TypeOK, KeysNamePayments, [Next]_vars
               PROVE  KeysNamePayments'
    OBVIOUS
  <2>1. ASSUME NEW b \in BookingId, Exists(b)
        PROVE  payment'[b] # NoPayment /\ payment'[b].account = payment[b].account
    <3>1. payment[b].state # "NONE"
      BY <2>1 DEF Exists, TypeOK, Row, State
    <3>2. CASE payment'[b] = payment[b]
      BY <2>1, <3>2 DEF Exists
    <3>3. ASSUME NEW n \in Notification, payment'[b].state = CallbackState(n),
                 payment'[b].account = payment[b].account
          PROVE  payment'[b] # NoPayment /\ payment'[b].account = payment[b].account
      BY <3>3 DEF CallbackState, NoPayment
    <3> QED
      BY <2>1, <3>2, <3>3, PaymentMoves
  <2>2. \A x \in idempotency : x.booking \in BookingId
    BY DEF TypeOK, IdempotencyRow
  <2>3. CASE UNCHANGED idempotency
    BY <2>1, <2>2, <2>3 DEF KeysNamePayments, Exists
  <2>4. ASSUME NEW r \in requests, Initiate(r)
        PROVE  KeysNamePayments'
    <3> DEFINE new == [actor |-> r.actor, key |-> r.key, booking |-> r.booking]
    <3>1. r.booking \in BookingId
      BY DEF TypeOK, Request
    <3>2. /\ idempotency' = idempotency \cup {new}
          /\ \A y \in idempotency : ~(y.actor = r.actor /\ y.key = r.key)
      BY <2>4 DEF Initiate, Remember, KeyUsed
    <3>3. payment'[r.booking] # NoPayment /\ payment'[r.booking].account = r.actor
      <4>1. CASE Open(r)
        BY <3>1, <4>1 DEF Open, TypeOK, NoPayment
      <4>2. CASE Reuse(r)
        BY <4>2 DEF Reuse, Exists
      <4> QED
        BY <2>4, <4>1, <4>2 DEF Initiate
    <3>4. \A x \in idempotency : /\ payment'[x.booking] # NoPayment
                                 /\ payment'[x.booking].account = x.actor
      BY <2>1, <2>2 DEF KeysNamePayments
    <3> QED
      BY <3>2, <3>3, <3>4 DEF KeysNamePayments, Exists
  <2> QED
    BY <2>3, <2>4, Idle
    DEF Next, PaymentStep, ReadSnapshot, Callback, OpenPendingReconciliation,
        vars, paymentVars
<1> QED
  BY TypeCorrect, <1>1, <1>2, PTL DEF Spec

LEMMA AppendOne ==
    ASSUME NEW x, NEW y
    PROVE  Append(<<x>>, y) = <<x, y>>
<1>1. <<x>> \in Seq({x, y}) /\ <<x, y>> \in Seq({x, y}) /\ y \in {x, y}
  OBVIOUS
<1>2. Len(<<x>>) = 1 /\ Len(<<x, y>>) = 2
  OBVIOUS
<1>3. <<x>>[1] = x /\ <<x, y>>[1] = x /\ <<x, y>>[2] = y
  OBVIOUS
<1>4. /\ Append(<<x>>, y) \in Seq({x, y}) /\ Len(Append(<<x>>, y)) = 2
      /\ Append(<<x>>, y)[1] = x /\ Append(<<x>>, y)[2] = y
  BY <1>1, <1>2, <1>3, AppendProperties
<1> DEFINE s == Append(<<x>>, y)
           t == <<x, y>>
<1>5. s \in Seq({x, y}) /\ t \in Seq({x, y}) /\ Len(s) = Len(t) /\ Len(s) = 2
      /\ s[1] = t[1] /\ s[2] = t[2]
  BY <1>1, <1>2, <1>3, <1>4
<1> HIDE DEF s, t
<1>6. \A i \in 1 .. Len(s) : s[i] = t[i]
  BY <1>5
<1>7. s = t
  BY <1>5, <1>6, SeqEqual
<1> QED
  BY <1>7 DEF s, t

(* One outcome per payment, told alike by its row, its audit trail and its *)
(* facts.                                                                  *)
THEOREM OutcomesAreSingle == Spec => []OneOutcome
<1> DEFINE Story(b) ==
       /\ audit[b] = IF ~Exists(b) THEN <<>>
                     ELSE IF payment[b].state = "PENDING" THEN <<"PENDING">>
                     ELSE <<"PENDING", payment[b].state>>
       /\ Len(outbox[b]) = Len(audit[b])
       /\ Len(audit[b]) = 2 => outbox[b][2].type = OutcomeFact(payment[b].state)
<1>1. Init => OneOutcome
  BY DEF Init, OneOutcome, Exists
<1>2. ASSUME TypeOK, OneOutcome, [Next]_vars, NEW b \in BookingId
      PROVE  Story(b)'
  <2>0. Story(b)
    BY <1>2 DEF OneOutcome
  <2>1. CASE UNCHANGED <<payment[b], audit[b], outbox[b]>>
    BY <2>0, <2>1 DEF Exists
  <2>2. ASSUME NEW r \in requests, Open(r), b = r.booking
        PROVE  Story(b)'
    <3>1. audit[b] = <<>> /\ Len(outbox[b]) = 0
      BY <2>0, <2>2 DEF Open, Known
    <3>2. outbox[b] \in Seq(Fact)
      BY <1>2 DEF TypeOK
    <3>3. /\ payment'[b].state = "PENDING" /\ payment'[b] # NoPayment
          /\ audit'[b] = Append(audit[b], "PENDING")
          /\ Len(outbox'[b]) = Len(outbox[b]) + 1
      BY <1>2, <2>2, <3>2 DEF Open, TypeOK, NoPayment
    <3>4. audit'[b] = <<"PENDING">> /\ Len(outbox'[b]) = 1
      BY <3>1, <3>3
    <3>5. Len(audit'[b]) = 1
      BY <3>4
    <3>6. /\ Len(outbox'[b]) = Len(audit'[b])
          /\ Len(audit'[b]) # 2
      BY <3>4, <3>5
    <3>7. Exists(b)' /\ payment'[b].state = "PENDING"
      BY <3>3 DEF Exists
    <3> QED
      BY <3>4, <3>6, <3>7, Zenon
  <2>3. ASSUME NEW n \in Notification, Callback(n), Changes(n), b = n.order
        PROVE  Story(b)'
    <3> DEFINE next == CallbackState(n)
    <3>1. next \in {"COMPLETED", "FAILED", "REVIEW"}
      BY <2>3 DEF Changes, CallbackState
    <3>2. payment[b] \in Row /\ payment[b].state = "PENDING"
      BY <1>2, <2>3 DEF Changes, TypeOK, NoPayment
    <3>3. audit[b] = <<"PENDING">> /\ Len(outbox[b]) = 1
      BY <2>0, <3>2 DEF Exists, Row, NoPayment
    <3>4. outbox[b] \in Seq(Fact)
      BY <1>2 DEF TypeOK
    <3>5. /\ payment'[b].state = next /\ payment'[b] # NoPayment
          /\ audit'[b] = Append(audit[b], next)
          /\ outbox'[b] = Append(outbox[b], [type |-> OutcomeFact(next), at |-> now])
      BY <1>2, <2>3, <3>1, <3>2 DEF Callback, TypeOK, NoPayment, Row
    <3> HIDE DEF next
    <3>6. audit'[b] = <<"PENDING", next>>
      BY <3>3, <3>5, AppendOne
    <3>7. Len(audit'[b]) = 2
      BY <3>6
    <3>8. Len(outbox'[b]) = 2 /\ outbox'[b][2].type = OutcomeFact(next)
      BY <3>3, <3>4, <3>5
    <3> QED
      BY <3>1, <3>5, <3>6, <3>7, <3>8 DEF Exists
  <2>4. ASSUME NEW r \in requests, Initiate(r)
        PROVE  Story(b)'
    <3>1. CASE Open(r) /\ b # r.booking
      BY <1>2, <2>1, <3>1 DEF Open, TypeOK
    <3>2. CASE Reuse(r)
      BY <2>1, <3>2 DEF Reuse
    <3> QED
      BY <2>2, <2>4, <3>1, <3>2 DEF Initiate
  <2>5. ASSUME NEW n \in Notification, Callback(n)
        PROVE  Story(b)'
    <3>1. CASE Changes(n) /\ b # n.order
      BY <1>2, <2>1, <2>5, <3>1 DEF Callback, TypeOK
    <3>2. CASE ~Changes(n)
      BY <2>1, <2>5, <3>2 DEF Callback
    <3> QED
      BY <2>3, <2>5, <3>1, <3>2
  <2> QED
    BY <1>2, <2>1, <2>4, <2>5, Idle
    DEF Next, PaymentStep, ReadSnapshot, OpenPendingReconciliation, vars, paymentVars
<1>3. TypeOK /\ OneOutcome /\ [Next]_vars => OneOutcome'
  BY <1>2 DEF OneOutcome
<1> QED
  BY TypeCorrect, <1>1, <1>3, PTL DEF Spec

-----------------------------------------------------------------------------
(* The booking and the payment service together                            *)

BookingRows == booking \in [BookingId -> B!Row \cup {B!NoBooking}]

(* Booking b is a's, and to be paid online. *)
OnlineFor(b, a) ==
    B!Exists(b) /\ booking[b].method = "ONLINE" /\ booking[b].account = a

LEMMA FactsHaveBookings ==
    ASSUME NEW m \in PaymentFacts
    PROVE  /\ m.booking \in BookingId
           /\ \E k \in DOMAIN outbox[m.booking] :
                 outbox[m.booking][k].type = m.type /\ outbox[m.booking][k].at = m.at
BY DEF PaymentFacts, Outcomes

(* What a step of the booking service may do to the row of a booking.      *)
LEMMA BookingMoves ==
    ASSUME BookingRows, B!ServiceStep
    PROVE  /\ BookingRows'
           /\ \A b \in BookingId :
                 \/ booking'[b] = booking[b]
                 \/ /\ ~B!Exists(b)
                    /\ booking'[b].state = "CONFIRMED" => booking'[b].method = "AT_VENUE"
                 \/ /\ B!Exists(b)
                    /\ booking'[b] # B!NoBooking
                    /\ booking'[b].method = booking[b].method
                    /\ booking'[b].account = booking[b].account
                    /\ booking'[b].state = "CONFIRMED" =>
                          \E m \in PaymentFacts :
                             m.booking = b /\ m.type = "PaymentCompleted"
<1> DEFINE New(b) == /\ ~B!Exists(b)
                     /\ booking'[b].state = "CONFIRMED" => booking'[b].method = "AT_VENUE"
           Moved(b) == /\ B!Exists(b)
                       /\ booking'[b] # B!NoBooking
                       /\ booking'[b].method = booking[b].method
                       /\ booking'[b].account = booking[b].account
                       /\ booking'[b].state = "CONFIRMED" =>
                             \E m \in PaymentFacts :
                                m.booking = b /\ m.type = "PaymentCompleted"
           Move(b) == booking'[b] = booking[b] \/ New(b) \/ Moved(b)
<1>0. ASSUME NEW b \in BookingId, NEW s \in B!State, B!Exists(b)
      PROVE  /\ [booking[b] EXCEPT !.state = s] \in B!Row
             /\ [booking[b] EXCEPT !.state = s].state = s
             /\ [booking[b] EXCEPT !.state = s].method = booking[b].method
             /\ [booking[b] EXCEPT !.state = s].account = booking[b].account
             /\ [booking[b] EXCEPT !.state = s] # B!NoBooking
  <2>1. booking[b] \in B!Row
    BY <1>0 DEF BookingRows, B!Exists
  <2> QED
    BY <2>1 DEF B!Row, B!State, B!NoBooking
<1>1. ASSUME NEW b \in BookingId, booking[b].state # "NONE"
      PROVE  B!Exists(b)
  BY <1>1 DEF B!Exists, B!NoBooking
<1>2. ASSUME NEW c \in BookingId, NEW s \in B!State, B!Exists(c),
             booking' = [booking EXCEPT ![c].state = s],
             s = "CONFIRMED" => \E m \in PaymentFacts :
                                   m.booking = c /\ m.type = "PaymentCompleted"
      PROVE  BookingRows' /\ \A b \in BookingId : Move(b)
  <2>1. booking' = [booking EXCEPT ![c] = [booking[c] EXCEPT !.state = s]]
    BY <1>2 DEF BookingRows
  <2>2. BookingRows'
    BY <1>0, <1>2, <2>1 DEF BookingRows
  <2>3. Moved(c)
    BY <1>0, <1>2, <2>1 DEF BookingRows
  <2>4. \A b \in BookingId : b # c => booking'[b] = booking[b]
    BY <2>1 DEF BookingRows
  <2> QED
    BY <2>2, <2>3, <2>4
<1>3. ASSUME NEW c \in BookingId, NEW a \in Account, NEW e \in Event, NEW m \in B!Method,
             NEW k \in BookingKey, NEW at \in 0..MaxTime, B!Create(c, a, e, m, k, at)
      PROVE  BookingRows' /\ \A b \in BookingId : Move(b)
  <2> DEFINE row == B!NewRow(a, e, m, at)
  <2>1. booking' = [booking EXCEPT ![c] = row] /\ ~B!Exists(c)
    BY <1>3 DEF B!Create
  <2>2. row \in B!Row /\ (row.state = "CONFIRMED" => row.method = "AT_VENUE")
    BY BothAssumption, PaymentAssumption
    DEF BothAssumption, PaymentAssumption, B!NewRow, B!Row, B!State
  <2> HIDE DEF row
  <2>3. BookingRows'
    BY <2>1, <2>2 DEF BookingRows
  <2>4. \A b \in BookingId : booking'[b] = IF b = c THEN row ELSE booking[b]
    BY <2>1 DEF BookingRows
  <2> QED
    BY <2>1, <2>2, <2>3, <2>4
<1>4. ASSUME NEW c \in BookingId, NEW k \in BookingKey, B!Cancel(c, k)
      PROVE  BookingRows' /\ \A b \in BookingId : Move(b)
  <2>1. B!Exists(c) /\ booking' = [booking EXCEPT ![c].state = "CANCELLED"]
    BY <1>1, <1>4 DEF B!Cancel
  <2> QED
    BY <1>2, <2>1 DEF B!State
<1>5. ASSUME NEW D \in SUBSET B!Due, B!Expire(D)
      PROVE  BookingRows' /\ \A b \in BookingId : Move(b)
  <2>1. /\ \A b \in D : b \in BookingId /\ B!Exists(b)
        /\ booking' = [b \in BookingId |->
              IF b \in D THEN [booking[b] EXCEPT !.state = "EXPIRED"] ELSE booking[b]]
    BY <1>1, <1>5 DEF B!Expire, B!Due
  <2>2. "EXPIRED" \in B!State
    BY DEF B!State
  <2>3. \A b \in D : Moved(b)
    BY <1>0, <2>1, <2>2
  <2>4. BookingRows'
    BY <1>0, <2>1, <2>2 DEF BookingRows
  <2> QED
    BY <2>1, <2>3, <2>4
<1>6. ASSUME NEW m \in PaymentFacts, B!ApplyPaymentEvent(m)
      PROVE  BookingRows' /\ \A b \in BookingId : Move(b)
  <2>1. m.booking \in BookingId
    BY FactsHaveBookings
  <2>2. CASE B!Confirm(m)
    <3>1. /\ B!Exists(m.booking) /\ m.type = "PaymentCompleted"
          /\ booking' = [booking EXCEPT ![m.booking].state = "CONFIRMED"]
      BY <1>1, <2>1, <2>2 DEF B!Confirm, B!InTime
    <3> QED
      BY <1>2, <2>1, <3>1 DEF B!State
  <2>3. CASE B!Review(m)
    <3>1. /\ B!Exists(m.booking)
          /\ booking' = [booking EXCEPT ![m.booking].state = "PAYMENT_REVIEW"]
      BY <1>1, <2>1, <2>3 DEF B!Review, B!TooLate
    <3> QED
      BY <1>2, <2>1, <3>1 DEF B!State
  <2>4. CASE B!Ignore(m)
    BY <2>4 DEF B!Ignore, BookingRows
  <2> QED
    BY <1>6, <2>2, <2>3, <2>4 DEF B!ApplyPaymentEvent
<1>7. CASE B!Tick
  BY <1>7 DEF B!Tick, BookingRows
<1>8. BookingRows' /\ \A b \in BookingId : Move(b)
  BY <1>3, <1>4, <1>5, <1>6, <1>7 DEF B!ServiceStep
<1> QED
  BY <1>8

LEMMA ClockMoves ==
    ASSUME B!ServiceStep
    PROVE  now' = now \/ (now < MaxTime /\ now' = now + 1)
<1>1. CASE B!Tick
  BY <1>1 DEF B!Tick
<1>2. ASSUME NEW b, NEW a, NEW e, NEW m, NEW k, NEW at, B!Create(b, a, e, m, k, at)
      PROVE  now' = now
  BY <1>2 DEF B!Create
<1>3. ASSUME NEW b, NEW k, B!Cancel(b, k) PROVE now' = now
  BY <1>3 DEF B!Cancel
<1>4. ASSUME NEW D, B!Expire(D) PROVE now' = now
  BY <1>4 DEF B!Expire
<1>5. ASSUME NEW m, B!ApplyPaymentEvent(m) PROVE now' = now
  BY <1>5 DEF B!ApplyPaymentEvent, B!Confirm, B!Review, B!Ignore
<1> QED
  BY <1>1, <1>2, <1>3, <1>4, <1>5 DEF B!ServiceStep

(* Each service alone sees a run of its own.                               *)
LEMMA BothStart == BothInit => Init /\ BookingRows /\ payable = Payable
<1> SUFFICES ASSUME BothInit PROVE Init /\ BookingRows /\ payable = Payable
  OBVIOUS
<1>1. booking = [b \in BookingId |-> B!NoBooking] /\ payable = {} /\ Init
  BY DEF BothInit, B!Init, Init
<1>2. \A b \in BookingId : ~B!Snapshot(b)
  BY <1>1 DEF B!Snapshot, B!NoBooking
<1> QED
  BY <1>1, <1>2 DEF BookingRows, Payable

LEMMA BothKeep ==
    ASSUME BookingRows, payable = Payable, [BothNext]_bothVars
    PROVE  BookingRows' /\ payable' = Payable' /\ [Next]_vars
<1>1. CASE BookingStep
  <2>1. BookingRows' /\ payable' = Payable' /\ UNCHANGED paymentVars /\ B!ServiceStep
    BY <1>1, BookingMoves DEF BookingStep
  <2>2. payable' \in SUBSET [booking: BookingId, account: Account]
    <3>1. ASSUME NEW b \in BookingId, B!Snapshot(b)'
          PROVE  booking'[b].account \in Account
      BY <2>1, <3>1 DEF BookingRows, B!Snapshot, B!Row, B!NoBooking
    <3> QED
      BY <2>1, <3>1 DEF Payable
  <2>3. Tick \/ Elsewhere
    BY <2>1, <2>2, ClockMoves DEF Tick, Elsewhere
  <2> QED
    BY <2>1, <2>3 DEF Next
<1>2. CASE OrderStep
  <2>1. UNCHANGED <<now, payable, bookingVars>> /\ PaymentStep
    BY <1>2 DEF OrderStep, PaymentStep, ReadSnapshot, Initiate, Callback,
                OpenPendingReconciliation
  <2>2. Payable' = Payable /\ BookingRows'
    BY <2>1 DEF Payable, B!Snapshot, BookingRows, bookingVars
  <2> QED
    BY <2>1, <2>2 DEF Next
<1>3. CASE UNCHANGED bothVars
  BY <1>3 DEF bothVars, vars, bookingVars, Payable, B!Snapshot, BookingRows
<1> QED
  BY <1>1, <1>2, <1>3 DEF BothNext

(* The facts that the booking service reads of the payment of b in s.      *)
Read(s, b) ==
    {[type |-> s[k].type, booking |-> b, at |-> s[k].at] :
        k \in {j \in DOMAIN s : s[j].type \in {"PaymentCompleted", "PaymentReviewRequired"}}}

LEMMA ReadMore ==
    ASSUME NEW s \in Seq(Fact), NEW x \in Fact, NEW b
    PROVE  /\ x.type \in {"PaymentCompleted", "PaymentReviewRequired"} =>
                Read(Append(s, x), b)
                  = Read(s, b) \cup {[type |-> x.type, booking |-> b, at |-> x.at]}
           /\ x.type \notin {"PaymentCompleted", "PaymentReviewRequired"} =>
                Read(Append(s, x), b) = Read(s, b)
<1> DEFINE t == Append(s, x)
           l == Len(s) + 1
<1>1. /\ DOMAIN s = 1..Len(s) /\ Len(s) \in Nat
      /\ DOMAIN t = 1..l /\ t[l] = x /\ \A k \in 1..Len(s) : t[k] = s[k]
  BY AppendProperties
<1>2. DOMAIN t = DOMAIN s \cup {l} /\ \A k \in DOMAIN s : t[k] = s[k] /\ k # l
  BY <1>1
<1> HIDE DEF t, l
<1> DEFINE Told(q) == {j \in DOMAIN q : q[j].type \in {"PaymentCompleted", "PaymentReviewRequired"}}
           Tell(q, k) == [type |-> q[k].type, booking |-> b, at |-> q[k].at]
<1>3. \A k \in DOMAIN s : Tell(t, k) = Tell(s, k)
  BY <1>2
<1>4. Read(s, b) = {Tell(s, k) : k \in Told(s)} /\ Read(t, b) = {Tell(t, k) : k \in Told(t)}
  BY DEF Read
<1>5. /\ x.type \in {"PaymentCompleted", "PaymentReviewRequired"} => Told(t) = Told(s) \cup {l}
      /\ x.type \notin {"PaymentCompleted", "PaymentReviewRequired"} => Told(t) = Told(s)
  BY <1>1, <1>2
<1>6. Tell(t, l) = [type |-> x.type, booking |-> b, at |-> x.at]
  BY <1>1
<1>7. Told(s) \subseteq DOMAIN s
  OBVIOUS
<1> HIDE DEF Told, Tell
<1>8. /\ x.type \in {"PaymentCompleted", "PaymentReviewRequired"} =>
           Read(t, b) = Read(s, b) \cup {[type |-> x.type, booking |-> b, at |-> x.at]}
      /\ x.type \notin {"PaymentCompleted", "PaymentReviewRequired"} =>
           Read(t, b) = Read(s, b)
  BY <1>3, <1>4, <1>5, <1>6, <1>7
<1> QED
  BY <1>8 DEF t

LEMMA FactsRead == PaymentFacts = UNION {Read(outbox[b], b) : b \in BookingId}
BY DEF PaymentFacts, Outcomes, Read

(* What a step of the payment service may do to an order and its facts.    *)
Opened(b) ==
    /\ ~Exists(b)
    /\ \E r \in requests :
          /\ r.booking = b
          /\ payment'[b] = [state |-> "PENDING", account |-> r.actor, updatedAt |-> r.at]
          /\ outbox'[b] = Append(outbox[b], [type |-> "PaymentInitiated", at |-> r.at])
Decided(b, state) ==
    /\ payment[b].state = "PENDING" /\ payment[b] \in Row
    /\ payment'[b] # NoPayment
    /\ payment'[b].state = state /\ payment'[b].account = payment[b].account
    /\ outbox'[b] = Append(outbox[b], [type |-> OutcomeFact(state), at |-> now])

LEMMA OrdersMove ==
    ASSUME TypeOK, PaymentStep
    PROVE  /\ now' = now /\ requests \subseteq requests'
           /\ \/ UNCHANGED <<payment, outbox>>
              \/ \E c \in BookingId :
                    /\ \A b \in BookingId : b # c => UNCHANGED <<payment[b], outbox[b]>>
                    /\ requests' = requests
                    /\ \/ Opened(c)
                       \/ \E state \in {"COMPLETED", "FAILED", "REVIEW"} : Decided(c, state)
<1>1. ASSUME NEW a \in Account, NEW b \in BookingId, NEW k \in Key, ReadSnapshot(a, b, k)
      PROVE  now' = now /\ requests \subseteq requests' /\ UNCHANGED <<payment, outbox>>
  BY <1>1 DEF ReadSnapshot
<1>2. CASE OpenPendingReconciliation
  BY <1>2 DEF OpenPendingReconciliation
<1>3. ASSUME NEW r \in requests, Initiate(r)
      PROVE  /\ now' = now /\ requests' = requests
             /\ \/ UNCHANGED <<payment, outbox>>
                \/ /\ r.booking \in BookingId /\ Opened(r.booking)
                   /\ \A b \in BookingId : b # r.booking => UNCHANGED <<payment[b], outbox[b]>>
  <2>1. r.booking \in BookingId
    BY DEF TypeOK, Request
  <2>2. CASE Open(r)
    BY <1>3, <2>1, <2>2 DEF Initiate, Open, Known, Opened, TypeOK
  <2>3. CASE Reuse(r)
    BY <1>3, <2>3 DEF Initiate, Reuse
  <2> QED
    BY <1>3, <2>2, <2>3 DEF Initiate
<1>4. ASSUME NEW n \in Notification, Callback(n)
      PROVE  /\ now' = now /\ requests' = requests
             /\ \/ UNCHANGED <<payment, outbox>>
                \/ /\ n.order \in BookingId
                   /\ CallbackState(n) \in {"COMPLETED", "FAILED", "REVIEW"}
                   /\ Decided(n.order, CallbackState(n))
                   /\ \A b \in BookingId : b # n.order => UNCHANGED <<payment[b], outbox[b]>>
  <2> DEFINE c == n.order
             next == CallbackState(n)
  <2>1. c \in BookingId
    BY DEF Notification
  <2>2. CASE Changes(n)
    <3>1. next \in {"COMPLETED", "FAILED", "REVIEW"}
      BY <2>2 DEF Changes, CallbackState
    <3>2. payment[c] \in Row /\ payment[c].state = "PENDING"
      BY <2>1, <2>2 DEF Changes, TypeOK, NoPayment
    <3>3. /\ payment' = [payment EXCEPT ![c].state = next, ![c].updatedAt = now]
          /\ outbox' = [outbox EXCEPT ![c] =
                          Append(@, [type |-> OutcomeFact(next), at |-> now])]
          /\ now' = now /\ requests' = requests
      BY <1>4, <2>2 DEF Callback
    <3> HIDE DEF next, c
    <3>4. Decided(c, next)
      BY <2>1, <3>1, <3>2, <3>3 DEF Decided, TypeOK, NoPayment, Row
    <3>5. \A b \in BookingId : b # c => UNCHANGED <<payment[b], outbox[b]>>
      BY <2>1, <3>3 DEF TypeOK
    <3> QED
      BY <2>1, <3>1, <3>3, <3>4, <3>5 DEF c, next
  <2>3. CASE ~Changes(n)
    BY <1>4, <2>3 DEF Callback
  <2> QED
    BY <2>2, <2>3
<1> QED
  BY <1>1, <1>2, <1>3, <1>4 DEF PaymentStep

(* The inductive invariant: who asked for an order may have it, every      *)
(* order was asked for, and nothing is published of an order that its row  *)
(* does not say.                                                           *)
FactsFit ==
    \A b \in BookingId : \A k \in DOMAIN outbox[b] :
        /\ outbox[b][k].type = "PaymentCompleted" => payment[b].state = "COMPLETED"
        /\ outbox[b][k].type = "PaymentReviewRequired" => payment[b].state = "REVIEW"

OrdersInv ==
    /\ \A r \in requests : OnlineFor(r.booking, r.actor)
    /\ \A b \in BookingId : Exists(b) =>
          b \in Ordered /\ OnlineFor(b, payment[b].account)
    /\ FactsFit
    /\ \A b \in BookingId :
          booking[b].state = "CONFIRMED" /\ booking[b].method = "ONLINE" =>
              payment[b].state = "COMPLETED"

LEMMA FactsFitStep ==
    ASSUME TypeOK, OneOutcome, FactsFit, PaymentStep
    PROVE  FactsFit'
<1> DEFINE Fit(s, state) == \A k \in DOMAIN s :
              /\ s[k].type = "PaymentCompleted" => state = "COMPLETED"
              /\ s[k].type = "PaymentReviewRequired" => state = "REVIEW"
<1>1. ASSUME NEW s \in Seq(Fact), NEW x \in Fact, NEW old, NEW new, Fit(s, old),
             \/ s = <<>> /\ x.type = "PaymentInitiated"
             \/ old = "PENDING" /\ new = "COMPLETED" /\ x.type = "PaymentCompleted"
             \/ old = "PENDING" /\ new = "REVIEW" /\ x.type = "PaymentReviewRequired"
             \/ old = "PENDING" /\ new = "FAILED" /\ x.type = "PaymentFailed"
      PROVE  Fit(Append(s, x), new)
  <2> DEFINE t == Append(s, x)
  <2>1. /\ DOMAIN s = 1..Len(s) /\ Len(s) \in Nat
        /\ DOMAIN t = 1..(Len(s) + 1) /\ t[Len(s) + 1] = x
        /\ \A k \in 1..Len(s) : t[k] = s[k]
    BY AppendProperties
  <2> HIDE DEF t
  <2>2. Fit(t, new)
    BY <1>1, <2>1
  <2> QED
    BY <2>2 DEF t
<1>2. \A b \in BookingId : outbox[b] \in Seq(Fact) /\ Fit(outbox[b], payment[b].state)
  BY DEF TypeOK, FactsFit
<1>3. ASSUME NEW c \in BookingId, Opened(c)
      PROVE  Fit(outbox'[c], payment'[c].state)
  <2>1. PICK r \in requests :
          /\ payment'[c] = [state |-> "PENDING", account |-> r.actor, updatedAt |-> r.at]
          /\ outbox'[c] = Append(outbox[c], [type |-> "PaymentInitiated", at |-> r.at])
    BY <1>3 DEF Opened
  <2>2. outbox[c] = <<>>
    <3>1. Len(outbox[c]) = 0
      BY <1>3 DEF OneOutcome, Opened
    <3> QED
      BY <1>2, <3>1
  <2>3. [type |-> "PaymentInitiated", at |-> r.at] \in Fact
    BY DEF TypeOK, Request, Fact, FactName
  <2> HIDE DEF Fit
  <2> QED
    BY <1>1, <1>2, <2>1, <2>2, <2>3
<1>4. ASSUME NEW c \in BookingId, NEW state \in {"COMPLETED", "FAILED", "REVIEW"},
             Decided(c, state)
      PROVE  Fit(outbox'[c], payment'[c].state)
  <2>1. [type |-> OutcomeFact(state), at |-> now] \in Fact
    BY DEF TypeOK, OutcomeFact, Fact, FactName
  <2>2. /\ payment[c].state = "PENDING" /\ payment'[c].state = state
        /\ outbox'[c] = Append(outbox[c], [type |-> OutcomeFact(state), at |-> now])
    BY <1>4 DEF Decided
  <2>3. \/ state = "COMPLETED" /\ OutcomeFact(state) = "PaymentCompleted"
        \/ state = "REVIEW" /\ OutcomeFact(state) = "PaymentReviewRequired"
        \/ state = "FAILED" /\ OutcomeFact(state) = "PaymentFailed"
    BY DEF OutcomeFact
  <2> HIDE DEF Fit
  <2> QED
    BY <1>1, <1>2, <2>1, <2>2, <2>3
<1>5. \A b \in BookingId : Fit(outbox'[b], payment'[b].state)
  <2> HIDE DEF Fit
  <2> QED
    BY <1>2, <1>3, <1>4, OrdersMove
<1> QED
  BY <1>5 DEF FactsFit

LEMMA BookingKeepsOrders ==
    ASSUME TypeOK, BookingRows, OrdersInv, BookingStep
    PROVE  OrdersInv'
<1>1. /\ UNCHANGED <<requests, payment, outbox>> /\ B!ServiceStep
      /\ \A r \in requests : r.booking \in BookingId
  BY DEF BookingStep, paymentVars, TypeOK, Request
<1>2. ASSUME NEW b \in BookingId, NEW a, OnlineFor(b, a)
      PROVE  OnlineFor(b, a)'
  BY <1>1, <1>2, BookingMoves DEF OnlineFor, B!Exists
<1>3. \A r \in requests' : OnlineFor(r.booking, r.actor)'
  BY <1>1, <1>2 DEF OrdersInv
<1>4. \A b \in BookingId : Exists(b)' => b \in Ordered' /\ OnlineFor(b, payment[b].account)'
  <2>1. Ordered' = Ordered
    BY <1>1 DEF Ordered
  <2> SUFFICES ASSUME NEW b \in BookingId, Exists(b)'
               PROVE  b \in Ordered' /\ OnlineFor(b, payment[b].account)'
    OBVIOUS
  <2>2. Exists(b) /\ payment'[b].account = payment[b].account
    BY <1>1 DEF Exists
  <2>3. b \in Ordered /\ OnlineFor(b, payment[b].account)
    BY <2>2 DEF OrdersInv
  <2> QED
    BY <1>1, <1>2, <2>1, <2>2, <2>3 DEF OnlineFor
<1>5. FactsFit'
  BY <1>1 DEF OrdersInv, FactsFit
<1>6. ASSUME NEW b \in BookingId, booking'[b].state = "CONFIRMED", booking'[b].method = "ONLINE"
      PROVE  payment'[b].state = "COMPLETED"
  <2>1. CASE booking'[b] = booking[b]
    BY <1>1, <1>6, <2>1 DEF OrdersInv
  <2>2. ASSUME NEW m \in PaymentFacts, m.booking = b, m.type = "PaymentCompleted"
        PROVE  payment'[b].state = "COMPLETED"
    BY <1>1, <2>2, FactsHaveBookings DEF OrdersInv, FactsFit
  <2> QED
    BY <1>1, <1>6, <2>1, <2>2, BookingMoves
<1> QED
  BY <1>3, <1>4, <1>5, <1>6 DEF OrdersInv

LEMMA OrderKeepsOrders ==
    ASSUME TypeOK, OneOutcome, BookingRows, payable = Payable, OrdersInv, OrderStep
    PROVE  OrdersInv'
<1>1. UNCHANGED bookingVars /\ PaymentStep /\ booking' = booking
  BY DEF OrderStep, bookingVars
<1>2. \A b, a : OnlineFor(b, a)' <=> OnlineFor(b, a)
  BY <1>1 DEF OnlineFor, B!Exists
<1>3. ASSUME NEW r \in requests'
      PROVE  OnlineFor(r.booking, r.actor)
  <2>1. CASE r \in requests
    BY <2>1 DEF OrdersInv
  <2>2. ASSUME NEW a \in Account, NEW b \in BookingId, NEW k \in Key, ReadSnapshot(a, b, k),
               r \notin requests
        PROVE  OnlineFor(r.booking, r.actor)
    <3>1. r.booking = b /\ r.actor = a /\ [booking |-> b, account |-> a] \in Payable
      BY <2>2 DEF ReadSnapshot
    <3>2. PICK c \in BookingId : /\ B!Snapshot(c)
                                 /\ [booking |-> b, account |-> a]
                                       = [booking |-> c, account |-> booking[c].account]
      BY <3>1 DEF Payable
    <3>3. c = b /\ booking[c].account = a
      BY <3>2
    <3> QED
      BY <3>1, <3>2, <3>3 DEF OnlineFor, B!Snapshot, B!Exists, B!NoBooking
  <2>3. (\E a \in Account, b \in BookingId, k \in Key : ReadSnapshot(a, b, k))
           \/ requests' = requests
    BY <1>1 DEF PaymentStep, Initiate, Callback, OpenPendingReconciliation
  <2> QED
    BY <2>1, <2>2, <2>3
<1>4. ASSUME NEW b \in BookingId, payment'[b] # NoPayment
      PROVE  b \in Ordered' /\ OnlineFor(b, payment'[b].account)
  <2>1. Ordered \subseteq Ordered'
    BY <1>1, OrdersMove DEF Ordered
  <2>2. CASE payment'[b] = payment[b]
    BY <1>4, <2>1, <2>2 DEF OrdersInv, Exists
  <2>3. CASE Opened(b)
    BY <2>1, <2>3 DEF Opened, OrdersInv, Ordered
  <2>4. ASSUME NEW state, Decided(b, state)
        PROVE  b \in Ordered' /\ OnlineFor(b, payment'[b].account)
    <3>1. Exists(b) /\ payment'[b].account = payment[b].account
      BY <2>4 DEF Decided, Exists, Row, State, NoPayment
    <3> QED
      BY <2>1, <3>1 DEF OrdersInv
  <2> QED
    BY <1>1, <2>2, <2>3, <2>4, OrdersMove
<1>5. FactsFit'
  BY <1>1, FactsFitStep DEF OrdersInv
<1>6. ASSUME NEW b \in BookingId, booking[b].state = "CONFIRMED", booking[b].method = "ONLINE"
      PROVE  payment'[b].state = "COMPLETED"
  <2>1. payment[b].state = "COMPLETED"
    BY <1>6 DEF OrdersInv
  <2>2. Exists(b)
    BY <2>1 DEF Exists, NoPayment
  <2> QED
    BY <1>1, <2>1, <2>2, OrdersMove DEF Opened, Decided
<1>7. \A b \in BookingId : Exists(b)' => b \in Ordered' /\ OnlineFor(b, payment[b].account)'
  BY <1>1, <1>4 DEF Exists, OnlineFor, B!Exists
<1>8. \A r \in requests' : OnlineFor(r.booking, r.actor)'
  BY <1>2, <1>3
<1> QED
  BY <1>1, <1>5, <1>6, <1>7, <1>8 DEF OrdersInv

LEMMA OrdersStart == BothInit => OrdersInv
<1> SUFFICES ASSUME BothInit PROVE OrdersInv
  OBVIOUS
<1>1. /\ requests = {} /\ payment = [b \in BookingId |-> NoPayment]
      /\ outbox = [b \in BookingId |-> <<>>]
      /\ booking = [b \in BookingId |-> B!NoBooking]
  BY DEF BothInit, Init, B!Init
<1> QED
  BY <1>1 DEF OrdersInv, FactsFit, Exists, B!NoBooking

LEMMA OrdersStep ==
    ASSUME TypeOK, OneOutcome, BookingRows, payable = Payable, OrdersInv, [BothNext]_bothVars
    PROVE  OrdersInv'
<1>1. CASE UNCHANGED bothVars
  BY <1>1 DEF bothVars, vars, paymentVars, bookingVars, OrdersInv, FactsFit, OnlineFor,
              Ordered, Exists, B!Exists
<1> QED
  BY <1>1, BookingKeepsOrders, OrderKeepsOrders DEF BothNext

(* The inductive invariants in every state, together with what the payment *)
(* service alone guarantees.                                               *)
BothInv == BookingRows /\ payable = Payable

LEMMA BothStartInv == BothInit => Init /\ BothInv
BY BothStart DEF BothInv

LEMMA BothStepInv == BothInv /\ [BothNext]_bothVars => BothInv' /\ [Next]_vars
BY BothKeep DEF BothInv

(* What is proved of Payment holds of the two services together.           *)
THEOREM OrdersArePayments == BothSpec => Spec
BY BothStartInv, BothStepInv, PTL DEF BothSpec, Spec

LEMMA BothAlways == BothSpec => [](TypeOK /\ OneOutcome /\ BothInv /\ OrdersInv)
<1>1. TypeOK /\ OneOutcome /\ BothInv /\ OrdersInv /\ [BothNext]_bothVars => OrdersInv'
  BY OrdersStep DEF BothInv
<1>2. BothSpec => []BothInv
  BY BothStartInv, BothStepInv, PTL DEF BothSpec
<1>3. BothSpec => [](TypeOK /\ OneOutcome)
  BY OrdersArePayments, TypeCorrect, OutcomesAreSingle, PTL
<1> QED
  BY <1>1, <1>2, <1>3, OrdersStart, PTL DEF BothSpec

(* An order is opened only for an online booking, for its own member.      *)
THEOREM OrdersAreForBookings == BothSpec => []PaymentsAreForBookings
<1>1. OrdersInv => PaymentsAreForBookings
  BY DEF OrdersInv, OnlineFor, PaymentsAreForBookings
<1> QED
  BY <1>1, BothAlways, PTL

(* An online booking is confirmed only if its payment is completed, on a   *)
(* callback that matched.                                                  *)
THEOREM ConfirmationIsVerified == BothSpec => []ConfirmedIsVerified
<1>1. OrdersInv /\ CompletedIsVerified => ConfirmedIsVerified
  BY DEF OrdersInv, CompletedIsVerified, ConfirmedIsVerified
<1> QED
  BY <1>1, BothAlways, OrdersArePayments, CompletionNeedsVerification, PTL

(* Every step of the payment service is one that Booking lets its          *)
(* environment take, or none.                                              *)
LEMMA PaymentIsEnvironment ==
    ASSUME TypeOK, payable = Payable, OrdersInv, OrderStep
    PROVE  B!Next \/ UNCHANGED B!vars
<1>1. UNCHANGED bookingVars /\ PaymentStep /\ now' = now
  BY OrdersMove DEF OrderStep
<1>2. ASSUME NEW a \in Account, NEW b \in BookingId, NEW k \in Key, ReadSnapshot(a, b, k)
      PROVE  B!Next \/ UNCHANGED B!vars
  <2>1. outbox' = outbox /\ Ordered' = Ordered \cup {b}
    <3> DEFINE new == [actor |-> a, booking |-> b, key |-> k, at |-> now]
    <3>1. outbox' = outbox /\ requests' = requests \cup {new} /\ new.booking = b
      BY <1>2 DEF ReadSnapshot
    <3> HIDE DEF new
    <3> QED
      BY <3>1 DEF Ordered
  <2>2. PaymentFacts' = PaymentFacts
    BY <2>1 DEF PaymentFacts, Outcomes
  <2>3. B!Snapshot(b)
    <3>1. PICK c \in BookingId : /\ B!Snapshot(c)
                                 /\ [booking |-> b, account |-> a]
                                       = [booking |-> c, account |-> booking[c].account]
      BY <1>2 DEF ReadSnapshot, Payable
    <3>2. c = b
      BY <3>1
    <3> QED
      BY <3>1, <3>2
  <2>4. CASE b \in Ordered
    <3>1. Ordered' = Ordered
      BY <2>1, <2>4
    <3> QED
      BY <1>1, <2>2, <3>1 DEF bookingVars, B!vars
  <2>5. CASE b \notin Ordered
    <3>1. B!InitiatePayment(b)
      BY <1>1, <2>1, <2>2, <2>3, <2>5 DEF B!InitiatePayment, bookingVars
    <3> QED
      BY <3>1 DEF B!Next, B!PaymentStep
  <2> QED
    BY <2>4, <2>5
<1>3. ASSUME requests' = requests
      PROVE  B!Next \/ UNCHANGED B!vars
  <2>1. Ordered' = Ordered
    BY <1>3 DEF Ordered
  <2> DEFINE F(b) == Read(outbox[b], b)
             G(b) == Read(outbox'[b], b)
  <2>2. /\ PaymentFacts = UNION {F(b) : b \in BookingId}
        /\ PaymentFacts' = UNION {G(b) : b \in BookingId}
    <3>1. PaymentFacts' = UNION {G(b) : b \in BookingId}
      BY DEF PaymentFacts, Outcomes, Read
    <3> QED
      BY <3>1, FactsRead
  <2>3. \A b \in BookingId : outbox[b] \in Seq(Fact)
    BY DEF TypeOK
  <2>4. CASE \A b \in BookingId : G(b) = F(b)
    <3>1. PaymentFacts' = PaymentFacts
      <4> HIDE DEF F, G
      <4> QED
        BY <2>2, <2>4
    <3> QED
      BY <1>1, <2>1, <3>1 DEF bookingVars, B!vars
  <2>5. ASSUME NEW c \in BookingId, Opened(c),
               \A b \in BookingId : b # c => UNCHANGED <<payment[b], outbox[b]>>
        PROVE  \A b \in BookingId : G(b) = F(b)
    <3>1. PICK r \in requests :
             outbox'[c] = Append(outbox[c], [type |-> "PaymentInitiated", at |-> r.at])
      BY <2>5 DEF Opened
    <3>2. [type |-> "PaymentInitiated", at |-> r.at] \in Fact
      BY DEF TypeOK, Request, Fact, FactName
    <3>3. G(c) = F(c)
      BY <2>3, <3>1, <3>2, ReadMore
    <3> QED
      BY <2>5, <3>3
  <2>6. ASSUME NEW c \in BookingId, NEW state \in {"COMPLETED", "FAILED", "REVIEW"},
               Decided(c, state),
               \A b \in BookingId : b # c => UNCHANGED <<payment[b], outbox[b]>>
        PROVE  (\A b \in BookingId : G(b) = F(b)) \/ B!Next
    <3> DEFINE x == [type |-> OutcomeFact(state), at |-> now]
    <3>1. x \in Fact /\ outbox'[c] = Append(outbox[c], x)
      BY <2>6 DEF Decided, TypeOK, OutcomeFact, Fact, FactName
    <3>2. CASE state = "FAILED"
      <4>1. x.type \notin {"PaymentCompleted", "PaymentReviewRequired"}
        BY <3>2 DEF OutcomeFact
      <4>2. G(c) = F(c)
        BY <2>3, <3>1, <4>1, ReadMore
      <4> QED
        BY <2>6, <4>2
    <3>3. CASE state # "FAILED"
      <4>1. x.type \in {"PaymentCompleted", "PaymentReviewRequired"}
        BY <3>3 DEF OutcomeFact
      <4>2. G(c) = F(c) \cup {[type |-> x.type, booking |-> c, at |-> x.at]}
        BY <2>3, <3>1, <4>1, ReadMore
      <4>3. PaymentFacts' = PaymentFacts \cup {[type |-> x.type, booking |-> c, at |-> now]}
        <5>1. x.at = now /\ \A b \in BookingId : b # c => G(b) = F(b)
          BY <2>6
        <5> HIDE DEF F, G, x
        <5> QED
          BY <2>2, <4>2, <5>1
      <4>4. Exists(c)
        BY <2>6 DEF Decided, Exists, NoPayment, Row, State
      <4>5. \A m \in PaymentFacts : m.booking # c
        <5> SUFFICES ASSUME NEW m \in PaymentFacts, m.booking = c PROVE FALSE
          OBVIOUS
        <5>1. m.type \in {"PaymentCompleted", "PaymentReviewRequired"}
          BY DEF PaymentFacts, Outcomes
        <5>2. payment[c].state \in {"COMPLETED", "REVIEW"}
          BY <5>1, FactsHaveBookings DEF OrdersInv, FactsFit
        <5> QED
          BY <2>6, <5>2 DEF Decided
      <4>6. c \in Ordered
        BY <4>4 DEF OrdersInv
      <4> HIDE DEF x
      <4>7. B!PublishPayment(c, x.type)
        BY <1>1, <2>1, <4>3, <4>5, <4>6 DEF B!PublishPayment, bookingVars
      <4> QED
        BY <4>1, <4>7 DEF B!Next, B!PaymentStep
    <3> QED
      BY <3>2, <3>3
  <2>7. CASE UNCHANGED <<payment, outbox>>
    BY <2>4, <2>7
  <2> HIDE DEF F, G
  <2> QED
    BY <1>1, <2>4, <2>5, <2>6, <2>7, OrdersMove
<1> QED
  BY <1>1, <1>2, <1>3
  DEF PaymentStep, Initiate, Callback, OpenPendingReconciliation

(* The payment service is the environment that Booking assumes, so that    *)
(* what is proved of Booking holds of the two services together.           *)
THEOREM PaymentServesBooking == BothSpec => ImplementsBooking
<1>1. BothInit => B!Init
  BY DEF BothInit
<1>2. TypeOK /\ BothInv /\ OrdersInv /\ [BothNext]_bothVars => [B!Next]_(B!vars)
  <2> SUFFICES ASSUME TypeOK, BothInv, OrdersInv, [BothNext]_bothVars
               PROVE  [B!Next]_(B!vars)
    OBVIOUS
  <2>1. CASE BookingStep
    BY <2>1 DEF BookingStep, B!Next
  <2>2. CASE OrderStep
    BY <2>2, PaymentIsEnvironment DEF BothInv
  <2>3. CASE UNCHANGED bothVars
    BY <2>3 DEF bothVars, vars, paymentVars, bookingVars, B!vars, Ordered, PaymentFacts,
                Outcomes
  <2> QED
    BY <2>1, <2>2, <2>3 DEF BothNext
<1> QED
  BY <1>1, <1>2, BothAlways, PTL DEF BothSpec, ImplementsBooking, B!Spec
=============================================================================
