----------------------------- MODULE EventProofs ------------------------------
(***************************************************************************)
(* Proofs about the event service: the life of its events                  *)
(* (EventLifecycle), and the relays of its outbox (Outbox), which the      *)
(* other services have in the same form.  The two specifications stand     *)
(* side by side: what the first one tells, the second one delivers.        *)
(***************************************************************************)
EXTENDS EventLifecycle, Outbox, SequenceTheorems, TLAPS

-----------------------------------------------------------------------------
(* The life of an event                                                    *)

(* A command that waits to write has seen the event: if the version is     *)
(* still the one it saw, so is the status.                                 *)
Waiting(w) ==
    LET r == request[w] IN
    r # NoRequest =>
        /\ event[r.event] # NoEvent
        /\ r.seen <= event[r.event].version
        /\ r.op = "transition" => <<r.from, r.to>> \in CanTransition
        /\ r.seen = event[r.event].version =>
              event[r.event].status = IF r.op = "update" THEN "DRAFT" ELSE r.from

(* The policy version counts some of the changes that the version counts.  *)
EventInv ==
    /\ EventTypeOK
    /\ \A w \in Worker : Waiting(w)
    /\ \A e \in Event : event[e] # NoEvent => event[e].policyVersion <= event[e].version

LEMMA RequestShape ==
    ASSUME EventTypeOK, NEW w \in Worker, request[w] # NoRequest
    PROVE  /\ request[w].op \in {"update", "transition"}
           /\ request[w].event \in Event
           /\ request[w].expected \in 1..MaxVersion /\ request[w].seen \in 1..MaxVersion
           /\ request[w].op = "update" =>
                 request[w].capacity \in Capacity /\ request[w].window \in Window
           /\ request[w].op = "transition" =>
                 request[w].from \in Status /\ request[w].to \in Status
<1>1. \/ request[w] \in [op: {"update"}, event: Event, expected: 1..MaxVersion,
                         seen: 1..MaxVersion, capacity: Capacity, window: Window]
      \/ request[w] \in [op: {"transition"}, event: Event, expected: 1..MaxVersion,
                         seen: 1..MaxVersion, from: Status, to: Status]
  BY DEF EventTypeOK, Request
<1> QED
  BY <1>1

LEMMA EventShape ==
    ASSUME EventTypeOK, NEW e \in Event
    PROVE  /\ event[e] # NoEvent => event[e] \in EventRow /\ event[e].status # "NONE"
           /\ event[e].status # "NONE" => event[e] # NoEvent
BY DEF EventTypeOK, EventRow, Status, NoEvent

(* A row of an event, and what an edit and a change of status make of it.  *)
Row(s, v, c, p, w, i) ==
    [status |-> s, version |-> v, capacity |-> c, policyVersion |-> p, window |-> w, images |-> i]

LEMMA RowMoved ==
    ASSUME NEW old \in EventRow, NEW x
    PROVE  [old EXCEPT !.status = x, !.version = @ + 1] =
           Row(x, old.version + 1, old.capacity, old.policyVersion, old.window, old.images)
<1>1. old = Row(old.status, old.version, old.capacity, old.policyVersion, old.window, old.images)
  BY DEF EventRow, Row
<1>2. PICK a : a = [old EXCEPT !.status = x]
  OBVIOUS
<1>3. a = Row(x, old.version, old.capacity, old.policyVersion, old.window, old.images)
  BY <1>1, <1>2 DEF Row
<1>4. [old EXCEPT !.status = x, !.version = @ + 1] = [a EXCEPT !.version = old.version + 1]
  BY <1>2
<1> QED
  BY <1>3, <1>4 DEF Row

LEMMA RowEdited ==
    ASSUME NEW old \in EventRow, NEW c, NEW w
    PROVE  [old EXCEPT !.capacity = c, !.window = w, !.version = @ + 1,
                       !.policyVersion = IF old.capacity # c THEN @ + 1 ELSE @] =
           Row(old.status, old.version + 1, c,
               IF old.capacity # c THEN old.policyVersion + 1 ELSE old.policyVersion,
               w, old.images)
<1> DEFINE p == IF old.capacity # c THEN old.policyVersion + 1 ELSE old.policyVersion
<1>1. old = Row(old.status, old.version, old.capacity, old.policyVersion, old.window, old.images)
  BY DEF EventRow, Row
<1>2. PICK a : a = [old EXCEPT !.capacity = c]
  OBVIOUS
<1>3. a = Row(old.status, old.version, c, old.policyVersion, old.window, old.images)
  BY <1>1, <1>2 DEF Row
<1>4. PICK b : b = [a EXCEPT !.window = w]
  OBVIOUS
<1>5. b = Row(old.status, old.version, c, old.policyVersion, w, old.images)
  BY <1>3, <1>4 DEF Row
<1>6. PICK d : d = [b EXCEPT !.version = old.version + 1]
  OBVIOUS
<1>7. d = Row(old.status, old.version + 1, c, old.policyVersion, w, old.images)
  BY <1>5, <1>6 DEF Row
<1>8. [d EXCEPT !.policyVersion = p] = Row(old.status, old.version + 1, c, p, w, old.images)
  BY <1>7 DEF Row
<1>9. [old EXCEPT !.capacity = c, !.window = w, !.version = @ + 1,
                  !.policyVersion = IF old.capacity # c THEN @ + 1 ELSE @] =
      [d EXCEPT !.policyVersion = p]
  <2>1. CASE old.capacity # c
    BY <1>2, <1>4, <1>6, <2>1
  <2>2. CASE old.capacity = c
    BY <1>2, <1>4, <1>6, <2>2
  <2> QED
    BY <2>1, <2>2
<1> QED
  BY <1>8, <1>9

(* What a step may do to an event, and to the facts about it.  What writes *)
(* under the check of an earlier version than expected is overtaken; what  *)
(* does not, writes what it has checked.                                   *)
Tells(e, status) ==
    facts'[e] = Append(facts[e], [version |-> event'[e].version, status |-> status])
Checked(e) == overtaken'[e] = overtaken[e]
Overtaken(e) == overtaken'[e] = overtaken[e] \cup {event'[e].version}
Created(e) ==
    /\ event[e] = NoEvent /\ event'[e] \in EventRow /\ Tells(e, "DRAFT") /\ Checked(e)
    /\ event'[e].status = "DRAFT" /\ event'[e].version = 1 /\ event'[e].policyVersion = 1
Edited(e) ==
    /\ event[e] \in EventRow /\ event'[e] \in EventRow /\ Tells(e, NoStatus)
    /\ (event[e].status = "DRAFT" /\ Checked(e)) \/ Overtaken(e)
    /\ event'[e].status = event[e].status
    /\ event'[e].version = event[e].version + 1
    /\ event'[e].policyVersion <= event[e].policyVersion + 1
Advanced(e) ==
    /\ event[e] \in EventRow /\ event'[e] \in EventRow /\ Tells(e, event'[e].status)
    /\ (<<event[e].status, event'[e].status>> \in CanTransition /\ Checked(e)) \/ Overtaken(e)
    /\ event'[e].status # "DRAFT"
    /\ event'[e].version = event[e].version + 1
    /\ event'[e].capacity = event[e].capacity
    /\ event'[e].policyVersion = event[e].policyVersion
Illustrated(e) ==
    /\ event[e] \in EventRow /\ event'[e] \in EventRow /\ facts'[e] = facts[e] /\ Checked(e)
    /\ event[e].status = "DRAFT" /\ event'[e].status = "DRAFT"
    /\ event'[e].version = event[e].version
    /\ event'[e].capacity = event[e].capacity
    /\ event'[e].policyVersion = event[e].policyVersion
EventMove(e) == Created(e) \/ Edited(e) \/ Advanced(e) \/ Illustrated(e)
OnlyThis(e) ==
    /\ EventMove(e)
    /\ event' \in [Event -> EventRow \cup {NoEvent}] /\ facts' = [d \in Event |-> facts'[d]]
    /\ overtaken' \in [Event -> SUBSET (1..MaxVersion)]
    /\ \A d \in Event : d # e =>
          event'[d] = event[d] /\ facts'[d] = facts[d] /\ overtaken'[d] = overtaken[d]

(* Who expects no later version than it saw writes what it saw.            *)
LEMMA SeenOrOvertaken ==
    ASSUME EventInv, NEW w \in Worker, request[w] # NoRequest, AsExpected(w),
           NEW v \in 1..MaxVersion, Overtakes(request[w], v)
    PROVE  LET r == request[w] IN
           /\ overtaken' \in [Event -> SUBSET (1..MaxVersion)]
           /\ \A d \in Event : d # r.event => overtaken'[d] = overtaken[d]
           /\ \/ /\ overtaken'[r.event] = overtaken[r.event]
                 /\ event[r.event].status = IF r.op = "update" THEN "DRAFT" ELSE r.from
              \/ overtaken'[r.event] = overtaken[r.event] \cup {v}
<1> DEFINE r == request[w]
<1>1. r.event \in Event /\ r.expected \in Nat /\ r.seen \in Nat
  BY RequestShape DEF EventInv
<1>2. /\ r.seen <= event[r.event].version /\ event[r.event].version = r.expected
      /\ r.seen = event[r.event].version =>
            event[r.event].status = IF r.op = "update" THEN "DRAFT" ELSE r.from
  BY DEF EventInv, Waiting, AsExpected
<1>3. overtaken \in [Event -> SUBSET (1..MaxVersion)]
  BY DEF EventInv, EventTypeOK
<1>4. CASE r.expected > r.seen
  <2>1. overtaken' = [overtaken EXCEPT ![r.event] = @ \cup {v}]
    BY <1>4 DEF Overtakes
  <2> QED
    BY <1>1, <1>3, <2>1
<1>5. CASE ~ (r.expected > r.seen)
  <2>1. overtaken' = [overtaken EXCEPT ![r.event] = @]
    BY <1>5 DEF Overtakes
  <2>2. r.seen = event[r.event].version
    BY <1>1, <1>2, <1>5
  <2> QED
    BY <1>1, <1>2, <1>3, <2>1, <2>2
<1> QED
  BY <1>4, <1>5

LEMMA CreateMoves ==
    ASSUME EventInv, NEW e \in Event, NEW c \in Capacity, NEW window \in Window,
           Create(e, c, window)
    PROVE  OnlyThis(e) /\ UNCHANGED <<now, request, quoted>>
<1> DEFINE row == [status |-> "DRAFT", version |-> 1, capacity |-> c,
                   policyVersion |-> 1, window |-> window, images |-> FALSE]
<1>1. /\ event[e] = NoEvent /\ event' = [event EXCEPT ![e] = row]
      /\ facts' = [facts EXCEPT ![e] = Append(@, [version |-> 1, status |-> "DRAFT"])]
      /\ UNCHANGED <<now, request, quoted, overtaken>>
  BY DEF Create, Told
<1>2. row \in EventRow
  BY EventAssumption DEF EventAssumption, EventRow, Status
<1>3. row.status = "DRAFT" /\ row.version = 1 /\ row.policyVersion = 1
  OBVIOUS
<1> HIDE DEF row
<1> QED
  BY <1>1, <1>2, <1>3
  DEF EventInv, EventTypeOK, OnlyThis, EventMove, Created, Tells, Checked

LEMMA UpdateMoves ==
    ASSUME EventInv, NEW w \in Worker, Update(w)
    PROVE  /\ request[w] # NoRequest /\ request[w].event \in Event
           /\ OnlyThis(request[w].event)
           /\ request' = [request EXCEPT ![w] = NoRequest] /\ UNCHANGED <<now, quoted>>
<1> DEFINE r == request[w]
           e == r.event
           old == event[e]
           row == [status |-> old.status, version |-> old.version + 1,
                   capacity |-> r.capacity,
                   policyVersion |-> IF old.capacity # r.capacity
                                       THEN old.policyVersion + 1 ELSE old.policyVersion,
                   window |-> r.window, images |-> old.images]
<1>1. r # NoRequest /\ r.op = "update"
  BY DEF Update, NoRequest
<1>2. /\ e \in Event /\ r.capacity \in Capacity /\ r.window \in Window
  BY <1>1, RequestShape DEF EventInv
<1>3. /\ old \in EventRow /\ old.version < MaxVersion
      /\ old.policyVersion <= old.version
  <2>1. old # NoEvent /\ old.version < MaxVersion
    BY <1>1, <1>2 DEF Update, EventInv, Waiting
  <2> QED
    BY <1>2, <2>1 DEF EventInv, EventTypeOK
<1>4. /\ old.status \in Status /\ old.version \in 1..MaxVersion
      /\ old.policyVersion \in 1..MaxVersion /\ old.images \in BOOLEAN
      /\ old = [status |-> old.status, version |-> old.version, capacity |-> old.capacity,
                policyVersion |-> old.policyVersion, window |-> old.window,
                images |-> old.images]
  BY <1>3 DEF EventRow
<1>5. [old EXCEPT !.capacity = r.capacity, !.window = r.window, !.version = @ + 1,
                  !.policyVersion = IF old.capacity # r.capacity THEN @ + 1 ELSE @] = row
  <2>1. PICK o \in EventRow, c \in {r.capacity}, x \in {r.window} : o = old
    BY <1>3
  <2>2. [o EXCEPT !.capacity = c, !.window = x, !.version = @ + 1,
                  !.policyVersion = IF o.capacity # c THEN @ + 1 ELSE @] =
        Row(o.status, o.version + 1, c,
            IF o.capacity # c THEN o.policyVersion + 1 ELSE o.policyVersion, x, o.images)
    BY RowEdited
  <2> QED
    BY <2>1, <2>2 DEF Row
<1>6. /\ event' = [event EXCEPT ![e] = row]
      /\ facts' = [facts EXCEPT ![e] =
            Append(@, [version |-> row.version, status |-> NoStatus])]
      /\ request' = [request EXCEPT ![w] = NoRequest] /\ UNCHANGED <<now, quoted>>
      /\ AsExpected(w) /\ Overtakes(r, row.version)
  BY <1>5 DEF Update, Told, Goes
<1>7. row \in EventRow
  BY <1>2, <1>3, <1>4, EventAssumption DEF EventAssumption, EventRow
<1>8. /\ row.status = old.status /\ row.version = old.version + 1
      /\ row.policyVersion <= old.policyVersion + 1
      /\ row.version \in 1..MaxVersion
  BY <1>3, <1>4, EventAssumption DEF EventAssumption
<1> HIDE DEF row
<1>9. /\ overtaken' \in [Event -> SUBSET (1..MaxVersion)]
      /\ \A d \in Event : d # e => overtaken'[d] = overtaken[d]
      /\ (overtaken'[e] = overtaken[e] /\ event[e].status = "DRAFT")
         \/ overtaken'[e] = overtaken[e] \cup {row.version}
  BY <1>1, <1>6, <1>8, SeenOrOvertaken
<1> HIDE DEF e, r
<1>10. /\ event'[e] = row /\ facts' = [d \in Event |-> facts'[d]]
       /\ facts'[e] = Append(facts[e], [version |-> row.version, status |-> NoStatus])
       /\ event' \in [Event -> EventRow \cup {NoEvent}]
       /\ \A d \in Event : d # e => event'[d] = event[d] /\ facts'[d] = facts[d]
  BY <1>2, <1>6, <1>7 DEF EventInv, EventTypeOK
<1>11. Edited(e)
  BY <1>3, <1>7, <1>8, <1>9, <1>10 DEF Edited, Tells, Checked, Overtaken
<1>12. OnlyThis(e)
  BY <1>9, <1>10, <1>11 DEF OnlyThis, EventMove
<1> QED
  BY <1>1, <1>2, <1>6, <1>12 DEF e, r

LEMMA TransitionMoves ==
    ASSUME EventInv, NEW w \in Worker, Transition(w)
    PROVE  /\ request[w] # NoRequest /\ request[w].event \in Event
           /\ OnlyThis(request[w].event)
           /\ request' = [request EXCEPT ![w] = NoRequest] /\ UNCHANGED <<now, quoted>>
<1> DEFINE r == request[w]
           e == r.event
           old == event[e]
           row == [status |-> r.to, version |-> old.version + 1,
                   capacity |-> old.capacity, policyVersion |-> old.policyVersion,
                   window |-> old.window, images |-> old.images]
<1>1. r # NoRequest /\ r.op = "transition"
  BY DEF Transition, NoRequest
<1>2. e \in Event /\ r.to \in Status
  BY <1>1, RequestShape DEF EventInv
<1>3. /\ old \in EventRow /\ <<r.from, r.to>> \in CanTransition
      /\ old.version < MaxVersion
  <2>1. /\ old # NoEvent /\ old.version < MaxVersion
        /\ <<r.from, r.to>> \in CanTransition
    BY <1>1, <1>2 DEF Transition, EventInv, Waiting
  <2> QED
    BY <1>2, <2>1 DEF EventInv, EventTypeOK
<1>4. /\ old.version \in 1..MaxVersion /\ old.capacity \in Capacity
      /\ old.policyVersion \in 1..MaxVersion /\ old.window \in Window /\ old.images \in BOOLEAN
      /\ old = [status |-> old.status, version |-> old.version, capacity |-> old.capacity,
                policyVersion |-> old.policyVersion, window |-> old.window,
                images |-> old.images]
  BY <1>3 DEF EventRow
<1>5. Moved(e, r.to) = row
  BY <1>3, RowMoved DEF Moved, Row
<1>6. /\ event' = [event EXCEPT ![e] = row]
      /\ facts' = [facts EXCEPT ![e] =
            Append(@, [version |-> row.version, status |-> row.status])]
      /\ request' = [request EXCEPT ![w] = NoRequest] /\ UNCHANGED <<now, quoted>>
      /\ AsExpected(w) /\ Overtakes(r, row.version)
  BY <1>5 DEF Transition, Told, Goes
<1>7. row \in EventRow
  BY <1>2, <1>3, <1>4, EventAssumption DEF EventAssumption, EventRow
<1>8. /\ row.status = r.to /\ row.version = old.version + 1
      /\ row.capacity = old.capacity /\ row.policyVersion = old.policyVersion
  OBVIOUS
<1>9. row.version \in 1..MaxVersion
  BY <1>3, <1>4, EventAssumption DEF EventAssumption
<1>10. r.to # "DRAFT"
  BY <1>3 DEF CanTransition
<1> HIDE DEF row
<1>11. /\ overtaken' \in [Event -> SUBSET (1..MaxVersion)]
       /\ \A d \in Event : d # e => overtaken'[d] = overtaken[d]
       /\ (overtaken'[e] = overtaken[e] /\ event[e].status = r.from)
          \/ overtaken'[e] = overtaken[e] \cup {row.version}
  BY <1>1, <1>6, <1>9, SeenOrOvertaken
<1> HIDE DEF e, r
<1>12. /\ event'[e] = row /\ facts' = [d \in Event |-> facts'[d]]
       /\ facts'[e] = Append(facts[e], [version |-> row.version, status |-> row.status])
       /\ event' \in [Event -> EventRow \cup {NoEvent}]
       /\ \A d \in Event : d # e => event'[d] = event[d] /\ facts'[d] = facts[d]
  BY <1>2, <1>6, <1>7 DEF EventInv, EventTypeOK
<1>13. Advanced(e)
  BY <1>3, <1>7, <1>8, <1>10, <1>11, <1>12 DEF Advanced, Tells, Checked, Overtaken
<1>14. OnlyThis(e)
  BY <1>11, <1>12, <1>13 DEF OnlyThis, EventMove
<1> QED
  BY <1>1, <1>2, <1>6, <1>14 DEF e, r

LEMMA ImageMoves ==
    ASSUME EventInv, NEW e \in Event, SaveImage(e)
    PROVE  OnlyThis(e) /\ UNCHANGED <<now, request, quoted>>
<1> DEFINE old == event[e]
           row == [old EXCEPT !.images = TRUE]
<1>1. /\ old.status = "DRAFT" /\ UNCHANGED <<now, request, facts, quoted, overtaken>>
      /\ event' = [event EXCEPT ![e] = row]
  BY DEF SaveImage, EventInv, EventTypeOK
<1>2. old \in EventRow
  BY <1>1, EventShape DEF EventInv
<1>3. /\ row \in EventRow /\ row.status = "DRAFT" /\ row.version = old.version
      /\ row.capacity = old.capacity /\ row.policyVersion = old.policyVersion
  BY <1>1, <1>2 DEF EventRow
<1> HIDE DEF row
<1>4. /\ event'[e] = row /\ facts' = [d \in Event |-> facts'[d]]
      /\ event' \in [Event -> EventRow \cup {NoEvent}]
      /\ overtaken' \in [Event -> SUBSET (1..MaxVersion)]
      /\ \A d \in Event : d # e => event'[d] = event[d]
  BY <1>1, <1>3 DEF EventInv, EventTypeOK
<1>5. Illustrated(e)
  BY <1>1, <1>2, <1>3, <1>4 DEF Illustrated, Checked
<1> QED
  BY <1>1, <1>4, <1>5 DEF OnlyThis, EventMove

(* A step moves one event, if any, and one request, if any: a request that *)
(* was not there before has just read its event.                           *)
Asks(w, r) ==
    /\ request' = [request EXCEPT ![w] = r]
    /\ r \in Request /\ event[r.event] # NoEvent
    /\ r.seen = event[r.event].version
    /\ event[r.event].status = IF r.op = "update" THEN "DRAFT" ELSE r.from
    /\ r.op = "transition" => <<r.from, r.to>> \in CanTransition

LEMMA EventSteps ==
    ASSUME EventInv, [EventNext]_eventVars
    PROVE  /\ now' \in 0..MaxTime
           /\ \/ UNCHANGED <<event, facts, overtaken>>
              \/ \E e \in Event : OnlyThis(e)
           /\ \/ UNCHANGED request
              \/ \E w \in Worker : request' = [request EXCEPT ![w] = NoRequest]
              \/ /\ UNCHANGED <<event, facts, overtaken>>
                 /\ \E w \in Worker, r \in Request : Asks(w, r)
           /\ \/ UNCHANGED quoted
              \/ \E e \in Event :
                    /\ event[e].status = "REGISTRATION_OPEN"
                    /\ quoted' = quoted \cup
                          {[event |-> e, version |-> event[e].version,
                            capacity |-> event[e].capacity,
                            policyVersion |-> event[e].policyVersion]}
                    /\ UNCHANGED <<event, facts, overtaken>>
<1>0. now \in 0..MaxTime /\ MaxTime \in Nat
  BY EventAssumption DEF EventAssumption, EventInv, EventTypeOK
<1>1. CASE Tick
  BY <1>0, <1>1 DEF Tick
<1>2. ASSUME NEW e \in Event, NEW c \in Capacity, NEW window \in Window, Create(e, c, window)
      PROVE  OnlyThis(e) /\ UNCHANGED <<now, request, quoted>>
  BY <1>2, CreateMoves
<1>3. ASSUME NEW w \in Worker, Command(w)
      PROVE  /\ UNCHANGED <<now, quoted>>
             /\ UNCHANGED <<event, facts, overtaken>> \/ \E e \in Event : OnlyThis(e)
             /\ \/ request' = [request EXCEPT ![w] = NoRequest]
                \/ UNCHANGED <<event, facts, overtaken>> /\ \E r \in Request : Asks(w, r)
  <2>1. ASSUME NEW e \in Event, NEW c \in Capacity, NEW window \in Window,
               NEW expected \in 1..MaxVersion, ReadForUpdate(w, e, c, window, expected)
        PROVE  /\ UNCHANGED <<now, quoted, event, facts, overtaken>>
               /\ \E r \in Request : Asks(w, r)
    <3> DEFINE r == [op |-> "update", event |-> e, expected |-> expected,
                     seen |-> event[e].version, capacity |-> c, window |-> window]
    <3>1. /\ event[e].status = "DRAFT" /\ request' = [request EXCEPT ![w] = r]
          /\ UNCHANGED <<now, event, facts, quoted, overtaken>>
      BY <2>1 DEF ReadForUpdate, Goes
    <3>2. event[e] # NoEvent /\ event[e].version \in 1..MaxVersion
      BY <3>1, EventShape DEF EventInv, EventRow
    <3>3. r \in Request
      BY <3>2 DEF Request
    <3>4. r.op = "update" /\ r.event = e /\ r.seen = event[e].version
      OBVIOUS
    <3> HIDE DEF r
    <3>5. Asks(w, r)
      BY <3>1, <3>2, <3>3, <3>4 DEF Asks
    <3> QED
      BY <3>1, <3>3, <3>5
  <2>2. ASSUME NEW e \in Event, NEW to \in Status, NEW expected \in 1..MaxVersion,
               ReadForTransition(w, e, to, expected)
        PROVE  /\ UNCHANGED <<now, quoted, event, facts, overtaken>>
               /\ \E r \in Request : Asks(w, r)
    <3> DEFINE r == [op |-> "transition", event |-> e, expected |-> expected,
                     seen |-> event[e].version, from |-> event[e].status, to |-> to]
    <3>1. /\ <<event[e].status, to>> \in CanTransition
          /\ request' = [request EXCEPT ![w] = r]
          /\ UNCHANGED <<now, event, facts, quoted, overtaken>>
      BY <2>2 DEF ReadForTransition, Goes
    <3>2. event[e].status \in Status
      BY <3>1 DEF CanTransition, Status
    <3>3. event[e] # NoEvent /\ event[e].version \in 1..MaxVersion
      BY <3>2, EventShape DEF EventInv, EventRow, Status
    <3>4. r \in Request
      BY <3>2, <3>3 DEF Request
    <3>5. /\ r.op = "transition" /\ r.event = e /\ r.seen = event[e].version
          /\ r.from = event[e].status /\ r.to = to
      OBVIOUS
    <3> HIDE DEF r
    <3>6. Asks(w, r)
      BY <3>1, <3>3, <3>4, <3>5 DEF Asks
    <3> QED
      BY <3>1, <3>4, <3>6
  <2>3. CASE Update(w)
    BY <2>3, UpdateMoves
  <2>4. CASE Transition(w)
    BY <2>4, TransitionMoves
  <2>5. CASE Refused(w)
    BY <2>5 DEF Refused, Goes
  <2> QED
    BY <1>3, <2>1, <2>2, <2>3, <2>4, <2>5 DEF Command
<1>4. ASSUME NEW e \in Event, SaveImage(e)
      PROVE  OnlyThis(e) /\ UNCHANGED <<now, request, quoted>>
  BY <1>4, ImageMoves
<1>5. ASSUME NEW e \in Event, Quote(e)
      PROVE  /\ UNCHANGED <<now, event, request, facts, overtaken>>
             /\ event[e].status = "REGISTRATION_OPEN"
             /\ quoted' = quoted \cup
                   {[event |-> e, version |-> event[e].version,
                     capacity |-> event[e].capacity,
                     policyVersion |-> event[e].policyVersion]}
  BY <1>5 DEF Quote
<1>6. CASE UNCHANGED eventVars
  BY <1>0, <1>6 DEF eventVars
<1> QED
  BY <1>0, <1>1, <1>2, <1>3, <1>4, <1>5, <1>6 DEF EventNext, Tick

LEMMA EventInvInit == EventInit => EventInv
<1> SUFFICES ASSUME EventInit PROVE EventInv
  OBVIOUS
<1>1. EventTypeOK
  BY EventAssumption DEF EventAssumption, EventInit, EventTypeOK
<1>2. \A w \in Worker : Waiting(w)
  BY DEF EventInit, Waiting
<1>3. \A e \in Event : event[e] = NoEvent
  BY DEF EventInit
<1> QED
  BY <1>1, <1>2, <1>3 DEF EventInv

(* What a step leaves of an event: its version never falls, and its status *)
(* stays for as long as its version does.                                  *)
LEMMA VersionsGrow ==
    ASSUME EventInv, [EventNext]_eventVars, NEW e \in Event, event[e] # NoEvent
    PROVE  /\ event'[e] # NoEvent
           /\ event[e].version <= event'[e].version
           /\ event'[e].version = event[e].version => event'[e].status = event[e].status
<1>1. event[e] \in EventRow /\ event[e].version \in Nat
  BY EventShape DEF EventInv, EventRow
<1>2. CASE UNCHANGED event
  BY <1>1, <1>2
<1>3. ASSUME NEW d \in Event, OnlyThis(d)
      PROVE  /\ event'[e] # NoEvent
             /\ event[e].version <= event'[e].version
             /\ event'[e].version = event[e].version => event'[e].status = event[e].status
  <2>1. CASE d # e
    BY <1>1, <1>3, <2>1 DEF OnlyThis
  <2>2. CASE d = e
    <3>1. EventMove(e)
      BY <1>3, <2>2 DEF OnlyThis
    <3>2. \A row \in EventRow : row # NoEvent
      BY DEF EventRow, NoEvent, Status
    <3>3. CASE Edited(e)
      BY <1>1, <3>2, <3>3 DEF Edited
    <3>4. CASE Advanced(e)
      BY <1>1, <3>2, <3>4 DEF Advanced
    <3>5. CASE Illustrated(e)
      BY <1>1, <3>2, <3>5 DEF Illustrated
    <3>6. ~ Created(e)
      BY DEF Created
    <3> QED
      BY <3>1, <3>3, <3>4, <3>5, <3>6 DEF EventMove
  <2> QED
    BY <2>1, <2>2
<1> QED
  BY <1>2, <1>3, EventSteps

LEMMA EventTypeStep ==
    ASSUME EventInv, [EventNext]_eventVars
    PROVE  EventTypeOK'
<1>1. now' \in 0..MaxTime
  BY EventSteps
<1>2. event' \in [Event -> EventRow \cup {NoEvent}]
  <2>1. CASE UNCHANGED event
    BY <2>1 DEF EventInv, EventTypeOK
  <2>2. CASE \E e \in Event : OnlyThis(e)
    BY <2>2 DEF OnlyThis
  <2> QED
    BY <2>1, <2>2, EventSteps
<1>3. request' \in [Worker -> Request \cup {NoRequest}]
  <2>1. request \in [Worker -> Request \cup {NoRequest}]
    BY DEF EventInv, EventTypeOK
  <2>2. ASSUME NEW w \in Worker, NEW r \in Request \cup {NoRequest},
               request' = [request EXCEPT ![w] = r]
        PROVE  request' \in [Worker -> Request \cup {NoRequest}]
    BY <2>1, <2>2
  <2>3. CASE UNCHANGED request
    BY <2>1, <2>3
  <2>4. CASE \E w \in Worker : request' = [request EXCEPT ![w] = NoRequest]
    BY <2>2, <2>4
  <2>5. CASE \E w \in Worker, r \in Request : Asks(w, r)
    BY <2>2, <2>5 DEF Asks
  <2> QED
    BY <2>3, <2>4, <2>5, EventSteps
<1>4. facts' \in [Event -> Seq(EventFact)]
  <2>1. facts \in [Event -> Seq(EventFact)]
    BY DEF EventInv, EventTypeOK
  <2>2. ASSUME NEW e \in Event, OnlyThis(e)
        PROVE  facts' \in [Event -> Seq(EventFact)]
    <3>1. ASSUME NEW row \in EventRow, NEW status \in Status \cup {NoStatus}
          PROVE  [version |-> row.version, status |-> status] \in EventFact
      BY DEF EventRow, EventFact
    <3>2. \/ facts'[e] = facts[e]
          \/ /\ event'[e] \in EventRow
             /\ \E status \in Status \cup {NoStatus} : Tells(e, status)
      <4>1. event'[e] \in EventRow => event'[e].status \in Status
        BY DEF EventRow
      <4>2. "DRAFT" \in Status
        BY DEF Status
      <4> QED
        BY <2>2, <4>1, <4>2 DEF OnlyThis, EventMove, Created, Edited, Advanced, Illustrated
    <3>3. facts'[e] \in Seq(EventFact)
      <4>1. CASE facts'[e] = facts[e]
        BY <2>1, <4>1
      <4>2. ASSUME NEW status \in Status \cup {NoStatus},
                   event'[e] \in EventRow, Tells(e, status)
            PROVE  facts'[e] \in Seq(EventFact)
        <5>1. PICK f : f = [version |-> event'[e].version, status |-> status]
          OBVIOUS
        <5>2. f \in EventFact /\ facts'[e] = Append(facts[e], f)
          BY <3>1, <4>2, <5>1 DEF Tells
        <5> QED
          BY <2>1, <5>2
      <4> QED
        BY <3>2, <4>1, <4>2
    <3>4. \A d \in Event : facts'[d] \in Seq(EventFact)
      BY <2>1, <2>2, <3>3 DEF OnlyThis
    <3> QED
      BY <2>2, <3>4 DEF OnlyThis
  <2> QED
    BY <2>1, <2>2, EventSteps
<1>5. quoted' \subseteq [event: Event, version: 1..MaxVersion, capacity: Capacity,
                         policyVersion: 1..MaxVersion]
  <2>1. quoted \subseteq [event: Event, version: 1..MaxVersion, capacity: Capacity,
                          policyVersion: 1..MaxVersion]
    BY DEF EventInv, EventTypeOK
  <2>2. ASSUME NEW e \in Event, event[e].status = "REGISTRATION_OPEN"
        PROVE  /\ event[e].version \in 1..MaxVersion
               /\ event[e].capacity \in Capacity /\ event[e].policyVersion \in 1..MaxVersion
    BY <2>2, EventShape DEF EventInv, EventRow
  <2> QED
    BY <2>1, <2>2, EventSteps
<1>6. overtaken' \in [Event -> SUBSET (1..MaxVersion)]
  BY EventSteps DEF OnlyThis, EventInv, EventTypeOK
<1> QED
  BY <1>1, <1>2, <1>3, <1>4, <1>5, <1>6 DEF EventTypeOK

LEMMA WaitingStep ==
    ASSUME EventInv, [EventNext]_eventVars, NEW w \in Worker
    PROVE  Waiting(w)'
<1>1. request \in [Worker -> Request \cup {NoRequest}]
  BY DEF EventInv, EventTypeOK
<1>2. CASE request'[w] = NoRequest
  BY <1>2 DEF Waiting
<1>3. CASE request'[w] = request[w] /\ request[w] # NoRequest
  <2> DEFINE r == request[w]
             e == r.event
  <2>1. e \in Event /\ r.seen \in Nat
    BY <1>3, RequestShape DEF EventInv
  <2>2. /\ event[e] # NoEvent /\ r.seen <= event[e].version
        /\ r.op = "transition" => <<r.from, r.to>> \in CanTransition
        /\ r.seen = event[e].version =>
              event[e].status = IF r.op = "update" THEN "DRAFT" ELSE r.from
    BY <1>3 DEF EventInv, Waiting
  <2>3. event[e].version \in Nat
    BY <2>1, <2>2, EventShape DEF EventInv, EventRow
  <2>4. /\ event'[e] # NoEvent /\ event[e].version <= event'[e].version
        /\ event'[e].version = event[e].version => event'[e].status = event[e].status
    BY <2>1, <2>2, VersionsGrow
  <2>5. event'[e].version \in Nat
    BY <2>1, <2>4, EventTypeStep DEF EventTypeOK, EventRow
  <2>6. request'[w] = r
    BY <1>3
  <2> HIDE DEF e
  <2>7. /\ r.seen <= event'[e].version
        /\ r.seen = event'[e].version =>
              event'[e].status = IF r.op = "update" THEN "DRAFT" ELSE r.from
    BY <2>1, <2>2, <2>3, <2>4, <2>5
  <2> QED
    BY <2>2, <2>4, <2>6, <2>7 DEF Waiting, e
<1>4. CASE UNCHANGED event /\ \E r \in Request : Asks(w, r)
  <2>1. PICK r \in Request : Asks(w, r)
    BY <1>4
  <2>2. request'[w] = r
    BY <1>1, <2>1 DEF Asks
  <2>3. r.event \in Event /\ r.seen \in Nat
    BY DEF Request
  <2>4. event' = event
    BY <1>4
  <2> QED
    BY <2>1, <2>2, <2>3, <2>4 DEF Asks, Waiting
<1>5. \/ request'[w] = NoRequest
      \/ request'[w] = request[w]
      \/ UNCHANGED event /\ \E r \in Request : Asks(w, r)
  <2>1. CASE UNCHANGED request
    BY <2>1
  <2>2. CASE \E v \in Worker : request' = [request EXCEPT ![v] = NoRequest]
    BY <1>1, <2>2
  <2>3. CASE UNCHANGED event /\ \E v \in Worker, r \in Request : Asks(v, r)
    BY <1>1, <2>3 DEF Asks
  <2> QED
    BY <2>1, <2>2, <2>3, EventSteps
<1> QED
  BY <1>2, <1>3, <1>4, <1>5

LEMMA PolicyStep ==
    ASSUME EventInv, [EventNext]_eventVars, NEW e \in Event, event'[e] # NoEvent
    PROVE  event'[e].policyVersion <= event'[e].version
<1>1. CASE event'[e] = event[e]
  BY <1>1 DEF EventInv
<1>2. CASE EventMove(e)
  <2>1. event[e] \in EventRow =>
            /\ event[e].version \in Nat /\ event[e].policyVersion \in Nat
            /\ event[e].policyVersion <= event[e].version
    BY DEF EventInv, EventRow, NoEvent, Status
  <2>2. event'[e] \in EventRow =>
            event'[e].version \in Nat /\ event'[e].policyVersion \in Nat
    BY DEF EventRow
  <2>3. CASE Created(e)
    BY <2>3 DEF Created
  <2>4. CASE Edited(e)
    BY <2>1, <2>2, <2>4 DEF Edited
  <2>5. CASE Advanced(e)
    BY <2>1, <2>2, <2>5 DEF Advanced
  <2>6. CASE Illustrated(e)
    BY <2>1, <2>2, <2>6 DEF Illustrated
  <2> QED
    BY <1>2, <2>3, <2>4, <2>5, <2>6 DEF EventMove
<1> QED
  BY <1>1, <1>2, EventSteps DEF OnlyThis

LEMMA EventInvStep == EventInv /\ [EventNext]_eventVars => EventInv'
<1> SUFFICES ASSUME EventInv, [EventNext]_eventVars PROVE EventInv'
  OBVIOUS
<1>1. EventTypeOK'
  BY EventTypeStep
<1>2. \A w \in Worker : Waiting(w)'
  BY WaitingStep
<1>3. \A e \in Event : event'[e] # NoEvent => event'[e].policyVersion <= event'[e].version
  BY PolicyStep
<1> QED
  BY <1>1, <1>2, <1>3 DEF EventInv

(* The rows of an event keep to their types, whatever edits and changes of *)
(* status cross.                                                           *)
LEMMA EventInvHolds == EventSpec => []EventInv
  BY EventInvInit, EventInvStep, PTL DEF EventSpec

THEOREM EventTypeCorrect == EventSpec => []EventTypeOK
<1>1. EventInv => EventTypeOK
  BY DEF EventInv
<1> QED
  BY <1>1, EventInvHolds, PTL

-----------------------------------------------------------------------------
(* The facts about an event                                                *)

(* Lives(s, n, at, o): the facts s tell the life of an event up to version *)
(* n and status at, in which the versions o were overtaken.                *)
Lives(s, n, at, o) ==
    /\ Len(s) = n
    /\ o \subseteq 1..n
    /\ \A k \in 1..n : s[k].version = k
    /\ s[1].status = "DRAFT"
    /\ \A i \in 1..n : LastTold(s, n, i) => s[i].status = at
    /\ \A k \in 2..n, i \in 1..n :
          k \notin o /\ LastTold(s, k - 1, i) => LegalStep(s[i].status, s[k].status)

LEMMA OneMoreFact ==
    ASSUME NEW s \in Seq(EventFact), NEW n \in Nat \ {0}, NEW at, NEW o,
           Lives(s, n, at, o), NEW told, NEW o2,
           (o2 = o /\ LegalStep(at, told)) \/ o2 = o \cup {n + 1}
    PROVE  Lives(Append(s, [version |-> n + 1, status |-> told]), n + 1,
                 IF told = NoStatus THEN at ELSE told, o2)
<1> DEFINE f == [version |-> n + 1, status |-> told]
           t == Append(s, f)
           now2 == IF told = NoStatus THEN at ELSE told
<1>1. f.version = n + 1 /\ f.status = told
  OBVIOUS
<1>2. Len(s) = n
  BY DEF Lives
<1> HIDE DEF f
<1>3. /\ Len(t) = n + 1
      /\ t[n + 1] = f /\ \A i \in 1..n : t[i] = s[i]
  BY <1>2
<1> HIDE DEF t
<1>4. ASSUME NEW k \in 1..n, NEW i, LastTold(t, k, i)
      PROVE  i \in 1..n /\ LastTold(s, k, i)
  <2>1. /\ i \in 1..k /\ t[i].status # NoStatus
        /\ \A j \in (i + 1)..k : t[j].status = NoStatus
    BY <1>4 DEF LastTold
  <2>2. i \in 1..n /\ \A j \in (i + 1)..k : j \in 1..n
    BY <2>1
  <2> QED
    BY <1>3, <2>1, <2>2 DEF LastTold
<1>5. o2 \subseteq 1..(n + 1) /\ \A k \in 2..n : k \notin o2 => k \notin o
  <2>1. o \subseteq 1..n /\ 1..n \subseteq 1..(n + 1) /\ n + 1 \in 1..(n + 1)
    BY DEF Lives
  <2> QED
    BY <2>1
<1>6. ASSUME NEW k \in 1..(n + 1) PROVE t[k].version = k
  <2>1. CASE k = n + 1
    BY <1>1, <1>3, <2>1
  <2>2. CASE k \in 1..n
    BY <1>3, <2>2 DEF Lives
  <2> QED
    BY <2>1, <2>2
<1>7. t[1].status = "DRAFT"
  BY <1>3 DEF Lives
<1>8. ASSUME NEW i \in 1..(n + 1), LastTold(t, n + 1, i) PROVE t[i].status = now2
  <2>1. /\ t[i].status # NoStatus
        /\ \A j \in (i + 1)..(n + 1) : t[j].status = NoStatus
    BY <1>8 DEF LastTold
  <2>2. CASE i = n + 1
    BY <1>1, <1>3, <2>1, <2>2
  <2>3. CASE i \in 1..n
    <3>1. n + 1 \in (i + 1)..(n + 1) /\ (i + 1)..n \subseteq (i + 1)..(n + 1)
      BY <2>3
    <3>2. told = NoStatus /\ LastTold(t, n, i)
      BY <1>1, <1>3, <2>1, <2>3, <3>1 DEF LastTold
    <3>3. LastTold(s, n, i)
      BY <1>4, <3>2
    <3> QED
      BY <1>3, <2>3, <3>2, <3>3 DEF Lives
  <2> QED
    BY <2>2, <2>3
<1>9. ASSUME NEW k \in 2..(n + 1), NEW i \in 1..(n + 1), k \notin o2, LastTold(t, k - 1, i)
      PROVE  LegalStep(t[i].status, t[k].status)
  <2>1. k - 1 \in 1..n
    OBVIOUS
  <2>2. i \in 1..n /\ LastTold(s, k - 1, i) /\ t[i] = s[i]
    BY <1>3, <1>4, <1>9, <2>1
  <2>3. CASE k = n + 1
    <3>1. LegalStep(at, told)
      BY <1>9, <2>3
    <3>2. s[i].status = at
      BY <2>2, <2>3 DEF Lives
    <3> QED
      BY <1>1, <1>3, <2>2, <2>3, <3>1, <3>2
  <2>4. CASE k \in 2..n
    <3>1. k \notin o /\ t[k] = s[k]
      BY <1>3, <1>5, <1>9, <2>4
    <3> QED
      BY <2>2, <2>4, <3>1 DEF Lives
  <2> QED
    BY <2>3, <2>4
<1>10. Lives(t, n + 1, now2, o2)
  BY <1>3, <1>5, <1>6, <1>7, <1>8, <1>9 DEF Lives
<1> QED
  BY <1>10 DEF t, f

LEMMA OneMoreEdit ==
    ASSUME NEW s \in Seq(EventFact), NEW n \in Nat \ {0}, NEW at, NEW o,
           Lives(s, n, at, o), NEW o2,
           (o2 = o /\ LegalStep(at, NoStatus)) \/ o2 = o \cup {n + 1}
    PROVE  Lives(Append(s, [version |-> n + 1, status |-> NoStatus]), n + 1, at, o2)
<1>1. Lives(Append(s, [version |-> n + 1, status |-> NoStatus]), n + 1,
            IF NoStatus = NoStatus THEN at ELSE NoStatus, o2)
  BY OneMoreFact
<1> QED
  BY <1>1

LEMMA OneMoreStatus ==
    ASSUME NEW s \in Seq(EventFact), NEW n \in Nat \ {0}, NEW at, NEW o,
           Lives(s, n, at, o), NEW told, told # NoStatus, NEW o2,
           (o2 = o /\ LegalStep(at, told)) \/ o2 = o \cup {n + 1}
    PROVE  Lives(Append(s, [version |-> n + 1, status |-> told]), n + 1, told, o2)
<1>1. Lives(Append(s, [version |-> n + 1, status |-> told]), n + 1,
            IF told = NoStatus THEN at ELSE told, o2)
  BY OneMoreFact
<1> QED
  BY <1>1

LEMMA FirstFact ==
    Lives(Append(<<>>, [version |-> 1, status |-> "DRAFT"]), 1, "DRAFT", {})
<1> DEFINE t == Append(<<>>, [version |-> 1, status |-> "DRAFT"])
<1>1. Len(t) = 1 /\ t[1] = [version |-> 1, status |-> "DRAFT"]
  OBVIOUS
<1> HIDE DEF t
<1>2. 2..1 = {} /\ 1..1 = {1}
  OBVIOUS
<1>3. Lives(t, 1, "DRAFT", {})
  BY <1>1, <1>2 DEF Lives
<1> QED
  BY <1>3 DEF t

Life(e) ==
    IF event[e] = NoEvent THEN facts[e] = <<>> /\ overtaken[e] = {}
    ELSE Lives(facts[e], event[e].version, event[e].status, overtaken[e])

(* What is known of an event that is there.                                *)
LEMMA KnownEvent ==
    ASSUME EventInv, NEW e \in Event, event[e] \in EventRow
    PROVE  /\ event[e] # NoEvent /\ event[e].version \in Nat \ {0}
           /\ event[e].status \in Status /\ event[e].status # NoStatus
           /\ facts[e] \in Seq(EventFact)
BY DEF EventInv, EventTypeOK, EventRow, NoEvent, NoStatus, Status

LEMMA LifeStep ==
    ASSUME EventInv, [EventNext]_eventVars, NEW e \in Event, Life(e)
    PROVE  Life(e)'
<1>1. CASE event'[e] = event[e] /\ facts'[e] = facts[e] /\ overtaken'[e] = overtaken[e]
  BY <1>1 DEF Life
<1>2. ASSUME NEW d \in Event, OnlyThis(d) PROVE Life(e)'
  <2>1. CASE d # e
    BY <1>1, <1>2, <2>1 DEF OnlyThis
  <2>2. CASE d = e
    <3>1. EventMove(e)
      BY <1>2, <2>2 DEF OnlyThis
    <3>2. /\ event'[e] \in EventRow /\ event'[e] # NoEvent
          /\ event'[e].status \in Status /\ event'[e].status # NoStatus
      BY <3>1 DEF EventMove, Created, Edited, Advanced, Illustrated, EventRow, NoEvent,
                  NoStatus, Status
    <3>3. event[e] \in EventRow =>
              /\ event[e].version \in Nat \ {0} /\ facts[e] \in Seq(EventFact)
              /\ Lives(facts[e], event[e].version, event[e].status, overtaken[e])
      BY KnownEvent DEF Life
    <3>4. Lives(facts'[e], event'[e].version, event'[e].status, overtaken'[e])
      <4>1. CASE Created(e)
        <5>1. facts[e] = <<>> /\ overtaken'[e] = {}
          BY <4>1 DEF Life, Created, Checked
        <5>2. facts'[e] = Append(<<>>, [version |-> 1, status |-> "DRAFT"])
          BY <4>1, <5>1 DEF Created, Tells
        <5> QED
          BY <4>1, <5>1, <5>2, FirstFact DEF Created
      <4>2. CASE Edited(e)
        <5>1. \/ overtaken'[e] = overtaken[e] /\ LegalStep(event[e].status, NoStatus)
              \/ overtaken'[e] = overtaken[e] \cup {event[e].version + 1}
          BY <4>2 DEF Edited, Checked, Overtaken, LegalStep
        <5>2. /\ facts'[e] =
                    Append(facts[e], [version |-> event[e].version + 1, status |-> NoStatus])
              /\ event[e] \in EventRow /\ event'[e].version = event[e].version + 1
              /\ event'[e].status = event[e].status
          BY <4>2 DEF Edited, Tells
        <5> QED
          BY <3>3, <5>1, <5>2, OneMoreEdit
      <4>3. CASE Advanced(e)
        <5>1. \/ overtaken'[e] = overtaken[e] /\ LegalStep(event[e].status, event'[e].status)
              \/ overtaken'[e] = overtaken[e] \cup {event[e].version + 1}
          BY <3>2, <4>3 DEF Advanced, Checked, Overtaken, LegalStep
        <5>2. /\ facts'[e] = Append(facts[e],
                    [version |-> event[e].version + 1, status |-> event'[e].status])
              /\ event[e] \in EventRow /\ event'[e].version = event[e].version + 1
          BY <4>3 DEF Advanced, Tells
        <5> QED
          BY <3>2, <3>3, <5>1, <5>2, OneMoreStatus
      <4>4. CASE Illustrated(e)
        BY <3>3, <4>4 DEF Illustrated, Checked
      <4> QED
        BY <3>1, <4>1, <4>2, <4>3, <4>4 DEF EventMove
    <3> QED
      BY <3>2, <3>4 DEF Life
  <2> QED
    BY <2>1, <2>2
<1> QED
  BY <1>1, <1>2, EventSteps

Lifes == \A e \in Event : Life(e)

LEMMA LifesHold == EventSpec => []Lifes
<1>1. EventInit => Lifes
  BY DEF EventInit, Lifes, Life
<1>2. EventInv /\ Lifes /\ [EventNext]_eventVars => Lifes'
  BY LifeStep DEF Lifes
<1> QED
  BY <1>1, <1>2, EventInvHolds, PTL DEF EventSpec

(* Each change of an event is told once, under the next version, and the   *)
(* facts in the order of their versions are its life, legal step by legal  *)
(* step: only a command whose client expected a later version than the one *)
(* it was checked against makes another step.                              *)
THEOREM LifeIsTold == EventSpec => []FactsTellLife
<1>1. EventInv /\ Lifes => FactsTellLife
  <2> SUFFICES ASSUME EventInv, Lifes, NEW e \in Event, event[e] # NoEvent
               PROVE  LET told == facts[e] IN
                      /\ Len(told) = event[e].version
                      /\ \A n \in DOMAIN told : told[n].version = n
                      /\ told[1].status = "DRAFT"
                      /\ \A i \in DOMAIN told :
                            LastTold(told, Len(told), i) => told[i].status = event[e].status
                      /\ \A n \in 2..Len(told), i \in DOMAIN told :
                            n \notin overtaken[e] /\ LastTold(told, n - 1, i) =>
                                LegalStep(told[i].status, told[n].status)
    BY DEF FactsTellLife, Lifes, Life
  <2>1. Lives(facts[e], event[e].version, event[e].status, overtaken[e])
    BY DEF Lifes, Life
  <2>2. DOMAIN facts[e] = 1..event[e].version
    BY <2>1 DEF Lives, EventInv, EventTypeOK
  <2> QED
    BY <2>1, <2>2 DEF Lives
<1> QED
  BY <1>1, LifesHold, EventInvHolds, PTL

-----------------------------------------------------------------------------
(* What Booking keeps                                                      *)

(* An event that was quoted is not a draft any more, and has kept what was *)
(* quoted unless an overtaken edit came after the quote.                   *)
Overwritten(q) ==
    \E v \in overtaken[q.event] : v > q.version /\ facts[q.event][v].status = NoStatus
Stands(q) ==
    /\ event[q.event] # NoEvent /\ event[q.event].status # "DRAFT"
    /\ q.version <= event[q.event].version
    /\ \/ /\ event[q.event].capacity = q.capacity
          /\ event[q.event].policyVersion = q.policyVersion
       \/ Overwritten(q)
Quoted == \A q \in quoted : Stands(q)

(* What is told of an event stays told, and overtaken.                     *)
LEMMA ToldStays ==
    ASSUME EventInv, Lifes, NEW e \in Event, event[e] # NoEvent, EventMove(e),
           NEW v \in overtaken[e]
    PROVE  v \in overtaken'[e] /\ facts'[e][v] = facts[e][v]
<1>1. v \in overtaken'[e]
  BY DEF EventMove, Created, Edited, Advanced, Illustrated, Checked, Overtaken
<1>2. facts[e] \in Seq(EventFact) /\ v \in 1..Len(facts[e])
  BY DEF EventInv, EventTypeOK, Lifes, Life, Lives
<1>3. facts'[e] = facts[e] \/ \E f : facts'[e] = Append(facts[e], f)
  BY DEF EventMove, Created, Edited, Advanced, Illustrated, Tells
<1>4. facts'[e][v] = facts[e][v]
  BY <1>2, <1>3
<1> QED
  BY <1>1, <1>4

LEMMA StandsStep ==
    ASSUME EventInv, Lifes, [EventNext]_eventVars, NEW q \in quoted, Stands(q)
    PROVE  Stands(q)'
<1> DEFINE e == q.event
<1>1. e \in Event /\ q.version \in Nat
  BY DEF EventInv, EventTypeOK
<1>2. /\ event[e] # NoEvent /\ event[e].status # "DRAFT" /\ q.version <= event[e].version
      /\ \/ event[e].capacity = q.capacity /\ event[e].policyVersion = q.policyVersion
         \/ \E v \in overtaken[e] : v > q.version /\ facts[e][v].status = NoStatus
  BY DEF Stands, Overwritten
<1>3. event[e] \in EventRow /\ event[e].version \in Nat
  BY <1>1, <1>2, EventShape DEF EventInv, EventRow
<1>4. /\ event'[e] # NoEvent /\ event[e].version <= event'[e].version
      /\ event'[e].version \in Nat
  BY <1>1, <1>2, VersionsGrow, EventTypeStep DEF EventTypeOK, EventRow
<1> HIDE DEF e
<1>5. CASE event'[e] = event[e] /\ facts'[e] = facts[e] /\ overtaken'[e] = overtaken[e]
  BY <1>2, <1>5 DEF Stands, Overwritten, e
<1>6. CASE EventMove(e)
  <2>1. ~ Created(e) /\ ~ Illustrated(e)
    BY <1>2 DEF Created, Illustrated
  <2>2. event'[e].status # "DRAFT"
    BY <1>2, <1>6, <2>1 DEF EventMove, Edited, Advanced
  <2>3. (\E v \in overtaken[e] : v > q.version /\ facts[e][v].status = NoStatus) =>
            \E v \in overtaken'[e] : v > q.version /\ facts'[e][v].status = NoStatus
    BY <1>1, <1>2, <1>6, ToldStays
  <2>4. CASE Advanced(e)
    BY <1>1, <1>2, <1>3, <1>4, <2>2, <2>3, <2>4 DEF Advanced, Stands, Overwritten, e
  <2>5. CASE Edited(e)
    <3>1. /\ event'[e].version \in overtaken'[e]
          /\ event'[e].version = event[e].version + 1
      BY <1>2, <2>5 DEF Edited, Overtaken
    <3>2. facts[e] \in Seq(EventFact) /\ Len(facts[e]) = event[e].version
      BY <1>1, <1>2 DEF EventInv, EventTypeOK, Lifes, Life, Lives
    <3>3. PICK f : /\ f = [version |-> event'[e].version, status |-> NoStatus]
                   /\ facts'[e] = Append(facts[e], f)
      BY <2>5 DEF Edited, Tells
    <3>4. facts'[e][event'[e].version] = f /\ f.status = NoStatus
      <4>1. facts'[e][event'[e].version] = f
        BY <3>1, <3>2, <3>3
      <4>2. f.status = NoStatus
        BY <3>3
      <4> QED
        BY <4>1, <4>2
    <3>5. \E v \in overtaken'[e] : v > q.version /\ facts'[e][v].status = NoStatus
      <4>1. event'[e].version > q.version
        BY <1>1, <1>2, <1>3, <3>1
      <4> QED
        BY <3>1, <3>4, <4>1
    <3> QED
      BY <1>1, <1>2, <1>3, <1>4, <2>2, <3>5 DEF Stands, Overwritten, e
  <2> QED
    BY <1>6, <2>1, <2>4, <2>5 DEF EventMove
<1> QED
  BY <1>1, <1>5, <1>6, EventSteps DEF OnlyThis

LEMMA QuotedStep ==
    EventInv /\ Lifes /\ Quoted /\ [EventNext]_eventVars => Quoted'
<1> SUFFICES ASSUME EventInv, Lifes, Quoted, [EventNext]_eventVars, NEW q \in quoted'
             PROVE  Stands(q)'
  BY DEF Quoted
<1>1. CASE q \in quoted
  BY <1>1, StandsStep DEF Quoted
<1>2. CASE q \notin quoted
  <2>1. PICK e \in Event :
            /\ event[e].status = "REGISTRATION_OPEN"
            /\ quoted' = quoted \cup
                  {[event |-> e, version |-> event[e].version,
                    capacity |-> event[e].capacity,
                    policyVersion |-> event[e].policyVersion]}
            /\ UNCHANGED <<event, facts, overtaken>>
    BY <1>2, EventSteps
  <2>2. q = [event |-> e, version |-> event[e].version, capacity |-> event[e].capacity,
             policyVersion |-> event[e].policyVersion]
    BY <1>2, <2>1
  <2>3. event[e] # NoEvent /\ event[e].version \in Nat
    BY <2>1, EventShape DEF EventInv, EventRow
  <2> QED
    BY <2>1, <2>2, <2>3 DEF Stands
<1> QED
  BY <1>1, <1>2

(* "Published events cannot be edited": an edit that was read before the   *)
(* event was published loses its write, so that the capacity Booking read  *)
(* is the capacity of the event for good, unless a client expected a later *)
(* version than the draft that its edit was checked against.               *)
THEOREM QuotesHold == EventSpec => []QuotesStand
<1>1. EventInit => Quoted
  BY DEF EventInit, Quoted
<1>2. Quoted => QuotesStand
  BY DEF Quoted, Stands, Overwritten, QuotesStand
<1> QED
  BY <1>1, <1>2, QuotedStep, EventInvHolds, LifesHold, PTL DEF EventSpec

-----------------------------------------------------------------------------
(* The outbox                                                              *)

(* A sequence over S is one over every superset of S.                      *)
LEMMA WiderSeq ==
    ASSUME NEW S, NEW T, S \subseteq T, NEW s \in Seq(S)
    PROVE  s \in Seq(T)
  OBVIOUS

(* What Head, Tail, Append and a prefix do to a sequence over S.           *)
LEMMA SeqSteps ==
    ASSUME NEW S, NEW s \in Seq(S), NEW x \in S
    PROVE  /\ Append(s, x) \in Seq(S)
           /\ s # <<>> => Head(s) \in S /\ Tail(s) \in Seq(S)
           /\ \A n \in 0..Len(s) : SubSeq(s, 1, n) \in Seq(S)
  <1>1. Append(s, x) \in Seq(S)
    OBVIOUS
  <1>2. s # <<>> => Head(s) \in S /\ Tail(s) \in Seq(S)
    OBVIOUS
  <1>3. ASSUME NEW n \in 0..Len(s) PROVE SubSeq(s, 1, n) \in Seq(S)
    OBVIOUS
  <1> QED BY <1>1, <1>2, <1>3

(* Sequences of one element. *)
LEMMA OneElement ==
    ASSUME NEW x
    PROVE  /\ <<x>> # <<>> /\ Len(<<x>>) = 1
           /\ Head(<<x>>) = x /\ Tail(<<x>>) = <<>>
           /\ Append(<<>>, x) = <<x>>
  OBVIOUS

LEMMA TailOfOne ==
    ASSUME NEW S, NEW s \in Seq(S), Len(s) = 1
    PROVE  Tail(s) = <<>>
  <1>1. s # <<>>
    OBVIOUS
  <1>2. Tail(s) \in Seq(S) /\ Len(Tail(s)) = Len(s) - 1
    BY <1>1, HeadTailProperties
  <1>3. Tail(s) # <<>> => Len(Tail(s)) \in Nat \ {0}
    BY <1>2, EmptySeq
  <1> QED BY <1>2, <1>3

-----------------------------------------------------------------------------
(* Type correctness *)

LEMMA TypeInit == Init => TypeOK
  BY OutboxAssumption DEF Init, TypeOK, Age, Process

LEMMA TypeNext == TypeOK /\ [Next]_vars => TypeOK'
  <1> SUFFICES ASSUME TypeOK, [Next]_vars PROVE TypeOK'
    OBVIOUS
  <1> USE OutboxAssumption
  <1>1. ASSUME NEW f \in Fact, Commit(f) PROVE TypeOK'
    <2> committed \subseteq committed'
      BY <1>1 DEF Commit
    <2>1. wire' \in [Relay -> Seq(committed')]
      <3>1. ASSUME NEW r \in Relay PROVE wire[r] \in Seq(committed')
        BY WiderSeq DEF TypeOK
      <3> QED BY <1>1, <3>1 DEF Commit, brokerVars, TypeOK
    <2>2. todo' \in [Relay -> SUBSET committed'] /\ current' \in [Relay -> committed' \cup {NoFact}]
      BY <1>1 DEF Commit, relayVars, TypeOK
    <2> QED BY <1>1, <2>1, <2>2 DEF Commit, relayVars, brokerVars, TypeOK
  <1>2. ASSUME NEW f \in Fact, GrowStale(f) PROVE TypeOK'
    BY <1>2 DEF GrowStale, relayVars, brokerVars, TypeOK, Age
  <1>3. ASSUME NEW r \in Relay, NEW batch \in SUBSET Claimable, Claim(r, batch)
        PROVE TypeOK'
    <2>1. claim' \in [Fact -> Age] /\ todo' \in [Relay -> SUBSET committed]
      BY <1>3 DEF Claim, Claimable, TypeOK, Age
    <2> QED BY <1>3, <2>1 DEF Claim, brokerVars, TypeOK
  <1>4. ASSUME NEW r \in Relay, NEW f \in todo[r], Publish(r, f) PROVE TypeOK'
    <2>1. f \in committed /\ wire[r] \in Seq(committed)
      BY DEF TypeOK
    <2>2. wire' \in [Relay -> Seq(committed)]
      BY <1>4, <2>1, SeqSteps DEF Publish, TypeOK
    <2>3. todo' \in [Relay -> SUBSET committed] /\ current' \in [Relay -> committed \cup {NoFact}]
      BY <1>4, <2>1 DEF Publish, TypeOK
    <2> QED BY <1>4, <2>2, <2>3 DEF Publish, tableVars, TypeOK
  <1>5. ASSUME NEW r \in Relay, GiveUpBatch(r) PROVE TypeOK'
    BY <1>5 DEF GiveUpBatch, tableVars, brokerVars, TypeOK
  <1>6. ASSUME NEW r \in Relay, ReadConfirm(r) PROVE TypeOK'
    <2>1. confirms' \in [Relay -> Seq(BOOLEAN)]
      <3>1. confirms[r] \in Seq(BOOLEAN) /\ confirms[r] # <<>>
        BY <1>6 DEF ReadConfirm, TypeOK
      <3> QED BY <1>6, <3>1, SeqSteps DEF ReadConfirm, TypeOK
    <2>2. published' \subseteq committed /\ claim' \in [Fact -> Age]
      BY <1>6 DEF ReadConfirm, TypeOK, Age
    <2>3. faults' \in 0..MaxFaults
      BY <1>6 DEF ReadConfirm, Fault, TypeOK
    <2> QED BY <1>6, <2>1, <2>2, <2>3 DEF ReadConfirm, TypeOK
  <1>7. ASSUME NEW r \in Relay, ReadClosed(r) PROVE TypeOK'
    BY <1>7 DEF ReadClosed, tableVars, brokerVars, TypeOK
  <1>8. ASSUME NEW r \in Relay, GiveUpConfirm(r) PROVE TypeOK'
    BY <1>8 DEF GiveUpConfirm, tableVars, brokerVars, TypeOK
  <1>9. ASSUME NEW r \in Relay, Store(r) PROVE TypeOK'
    <2>1. wire[r] \in Seq(committed) /\ wire[r] # <<>> /\ confirms[r] \in Seq(BOOLEAN)
      BY <1>9 DEF Store, TypeOK
    <2>2. Head(wire[r]) \in committed /\ Tail(wire[r]) \in Seq(committed)
      BY <2>1
    <2>3. Append(confirms[r], TRUE) \in Seq(BOOLEAN)
      BY <2>1, SeqSteps
    <2> QED BY <1>9, <2>2, <2>3 DEF Store, tableVars, relayVars, TypeOK
  <1>10. ASSUME NEW r \in Relay, Refuse(r) PROVE TypeOK'
    <2>1. wire[r] \in Seq(committed) /\ wire[r] # <<>> /\ confirms[r] \in Seq(BOOLEAN)
      BY <1>10 DEF Refuse, TypeOK
    <2>2. Tail(wire[r]) \in Seq(committed)
      BY <2>1
    <2>3. Append(confirms[r], FALSE) \in Seq(BOOLEAN)
      BY <2>1, SeqSteps
    <2>4. faults' \in 0..MaxFaults
      BY <1>10 DEF Refuse, Fault, TypeOK
    <2> QED BY <1>10, <2>2, <2>3, <2>4 DEF Refuse, tableVars, relayVars, TypeOK
  <1>11. ASSUME NEW r \in Relay, Disconnect(r) PROVE TypeOK'
    <2>1. confirms' \in [Relay -> Seq(BOOLEAN)]
      <3>1. PICK n \in 0..Len(confirms[r]) :
               confirms' = [confirms EXCEPT ![r] = SubSeq(@, 1, n)]
        BY <1>11 DEF Disconnect
      <3>2. confirms[r] \in Seq(BOOLEAN)
        BY DEF TypeOK
      <3>3. SubSeq(confirms[r], 1, n) \in Seq(BOOLEAN)
        BY <3>2, SeqSteps
      <3> QED BY <3>1, <3>3 DEF TypeOK
    <2>2. faults' \in 0..MaxFaults
      BY <1>11 DEF Disconnect, Fault, TypeOK
    <2>3. <<>> \in Seq(committed)
      OBVIOUS
    <2>4. /\ wire' \in [Relay -> Seq(committed)]
          /\ process' \in [Relay -> Process]
      BY <1>11, <2>3 DEF Disconnect, TypeOK, Process
    <2> QED BY <1>11, <2>1, <2>2, <2>4 DEF Disconnect, tableVars, TypeOK
  <1>12. ASSUME NEW r \in Relay, Stop(r) PROVE TypeOK'
    <2>1. faults' \in 0..MaxFaults
      BY <1>12 DEF Stop, Fault, TypeOK
    <2>2. <<>> \in Seq(committed) /\ <<>> \in Seq(BOOLEAN)
      OBVIOUS
    <2> QED BY <1>12, <2>1, <2>2 DEF Stop, tableVars, TypeOK, Process
  <1>13. ASSUME NEW r \in Relay, Start(r) PROVE TypeOK'
    BY <1>13 DEF Start, tableVars, brokerVars, TypeOK, Process
  <1>14. CASE UNCHANGED vars
    BY <1>14 DEF vars, tableVars, relayVars, brokerVars, TypeOK
  <1>15. CASE Next
    BY <1>15, <1>1, <1>2, <1>3, <1>4, <1>5, <1>6, <1>7, <1>8, <1>9, <1>10,
       <1>11, <1>12, <1>13 DEF Next, RelayStep, BrokerStep
  <1> QED BY <1>14, <1>15

(* The tables and channels always hold rows of committed transactions.     *)
THEOREM TypeCorrect == Spec => []TypeOK
  <1> QED BY TypeInit, TypeNext, PTL DEF Spec

-----------------------------------------------------------------------------
(* Loss *)

(* As long as no confirmation was given up on, a channel carries nothing   *)
(* but the message that its relay waits for, or the answer to it.          *)
InStep(r) ==
    /\ process[r] # "connected" => wire[r] = <<>>
    /\ current[r] = NoFact => wire[r] = <<>> /\ confirms[r] = <<>>
    /\ wire[r] # <<>> => wire[r] = <<current[r]>> /\ confirms[r] = <<>>
    /\ confirms[r] # <<>> =>
          /\ Len(confirms[r]) = 1
          /\ Head(confirms[r]) => current[r] \in stored

ChannelInv == timeouts = 0 => \A r \in Relay : InStep(r)

LossInv == TypeOK /\ ChannelInv /\ LossNeedsTimeout

LEMMA LossInit == Init => LossInv
  BY TypeInit DEF LossInv, ChannelInv, InStep, LossNeedsTimeout, PublishedIsStored, Init

(* What a relay does not touch of another one's channel stays in step.     *)
LEMMA InStepKept ==
    ASSUME NEW q, InStep(q), stored \subseteq stored',
           process'[q] = process[q], current'[q] = current[q],
           wire'[q] = wire[q], confirms'[q] = confirms[q]
    PROVE  InStep(q)'
  BY DEF InStep

LEMMA ChannelNext ==
    TypeOK /\ ChannelInv /\ [Next]_vars => ChannelInv'
  <1> SUFFICES ASSUME TypeOK, ChannelInv, [Next]_vars, timeouts' = 0,
                      NEW q \in Relay
               PROVE  InStep(q)'
    BY DEF ChannelInv
  <1>0. timeouts = 0 \/ \E r \in Relay : GiveUpConfirm(r)
    BY DEF Next, RelayStep, BrokerStep, vars, Commit, GrowStale, Claim, Publish,
           GiveUpBatch, ReadConfirm, ReadClosed, Store, Refuse, Disconnect, Stop, Start
  <1>a. timeouts = 0 /\ ~\E r \in Relay : GiveUpConfirm(r)
    BY <1>0 DEF GiveUpConfirm, TypeOK
  <1>b. InStep(q)
    BY <1>a DEF ChannelInv
  <1>c. /\ current[q] \in committed \cup {NoFact}
        /\ wire[q] \in Seq(committed) /\ confirms[q] \in Seq(BOOLEAN)
    BY DEF TypeOK
  <1>1. ASSUME NEW f \in Fact, Commit(f) PROVE InStep(q)'
    BY <1>1, <1>b, InStepKept DEF Commit, relayVars, brokerVars
  <1>2. ASSUME NEW f \in Fact, GrowStale(f) PROVE InStep(q)'
    BY <1>2, <1>b, InStepKept DEF GrowStale, relayVars, brokerVars
  <1>3. ASSUME NEW r \in Relay, NEW batch \in SUBSET Claimable, Claim(r, batch)
        PROVE InStep(q)'
    BY <1>3, <1>b, InStepKept DEF Claim, brokerVars
  <1>4. ASSUME NEW r \in Relay, NEW f \in todo[r], Publish(r, f) PROVE InStep(q)'
    <2>1. CASE q # r
      BY <2>1, <1>4, <1>b, InStepKept DEF Publish, TypeOK
    <2>2. CASE q = r
      <3>1. wire[q] = <<>> /\ confirms[q] = <<>>
        BY <2>2, <1>4, <1>b DEF Publish, InStep
      <3>2. /\ wire'[q] = <<f>> /\ confirms'[q] = <<>>
            /\ current'[q] = f /\ process'[q] = "connected"
        BY <2>2, <1>4, <3>1 DEF Publish, TypeOK
      <3>3. f # NoFact
        BY OutboxAssumption DEF TypeOK
      <3> QED BY <3>2, <3>3 DEF InStep
    <2> QED BY <2>1, <2>2
  <1>5. ASSUME NEW r \in Relay, GiveUpBatch(r) PROVE InStep(q)'
    BY <1>5, <1>b, InStepKept DEF GiveUpBatch, brokerVars
  <1>6. ASSUME NEW r \in Relay, ReadConfirm(r) PROVE InStep(q)'
    <2>1. CASE q # r
      BY <2>1, <1>6, <1>b, InStepKept DEF ReadConfirm, TypeOK
    <2>2. CASE q = r
      <3>1. wire[q] = <<>> /\ Len(confirms[q]) = 1
        BY <2>2, <1>6, <1>b DEF ReadConfirm, InStep
      <3>2. Tail(confirms[q]) = <<>>
        BY <3>1, <1>c, TailOfOne
      <3>3. wire'[q] = <<>> /\ confirms'[q] = <<>>
        BY <2>2, <1>6, <3>1, <3>2 DEF ReadConfirm, TypeOK
      <3> QED BY <3>3 DEF InStep
    <2> QED BY <2>1, <2>2
  <1>7. ASSUME NEW r \in Relay, ReadClosed(r) PROVE InStep(q)'
    <2>1. CASE q # r
      BY <2>1, <1>7, <1>b, InStepKept DEF ReadClosed, brokerVars, TypeOK
    <2>2. CASE q = r
      BY <2>2, <1>7, <1>b DEF ReadClosed, brokerVars, InStep, TypeOK
    <2> QED BY <2>1, <2>2
  <1>9. ASSUME NEW r \in Relay, Store(r) PROVE InStep(q)'
    <2>1. CASE q # r
      BY <2>1, <1>9, <1>b, InStepKept DEF Store, relayVars, TypeOK
    <2>2. CASE q = r
      <3>1. wire[q] = <<current[q]>> /\ confirms[q] = <<>> /\ current[q] # NoFact
        BY <2>2, <1>9, <1>b DEF Store, InStep
      <3>2. wire'[q] = <<>> /\ confirms'[q] = <<TRUE>> /\ current'[q] = current[q]
        BY <2>2, <1>9, <3>1, OneElement DEF Store, relayVars, TypeOK
      <3>3. current[q] \in stored'
        BY <2>2, <1>9, <3>1 DEF Store
      <3> QED BY <3>1, <3>2, <3>3, OneElement DEF InStep
    <2> QED BY <2>1, <2>2
  <1>10. ASSUME NEW r \in Relay, Refuse(r) PROVE InStep(q)'
    <2>1. CASE q # r
      BY <2>1, <1>10, <1>b, InStepKept DEF Refuse, relayVars, TypeOK
    <2>2. CASE q = r
      <3>1. wire[q] = <<current[q]>> /\ confirms[q] = <<>> /\ current[q] # NoFact
        BY <2>2, <1>10, <1>b DEF Refuse, InStep
      <3>2. wire'[q] = <<>> /\ confirms'[q] = <<FALSE>> /\ current'[q] = current[q]
        BY <2>2, <1>10, <3>1, OneElement DEF Refuse, relayVars, TypeOK
      <3> QED BY <3>1, <3>2, OneElement DEF InStep
    <2> QED BY <2>1, <2>2
  <1>11. ASSUME NEW r \in Relay, Disconnect(r) PROVE InStep(q)'
    <2>1. CASE q # r
      BY <2>1, <1>11, <1>b, InStepKept DEF Disconnect, TypeOK
    <2>2. CASE q = r
      <3>1. PICK n \in 0..Len(confirms[r]) :
               confirms' = [confirms EXCEPT ![r] = SubSeq(@, 1, n)]
        BY <1>11 DEF Disconnect
      <3>2. /\ wire'[q] = <<>> /\ current'[q] = current[q] /\ stored' = stored
            /\ confirms'[q] = SubSeq(confirms[q], 1, n)
        BY <2>2, <3>1, <1>11 DEF Disconnect, TypeOK
      <3>3. CASE confirms[q] = <<>>
        <4>1. confirms'[q] = <<>>
          BY <3>3, <3>2, <2>2
        <4> QED BY <4>1, <3>2, <3>3, <1>b DEF InStep
      <3>4. CASE confirms[q] # <<>>
        <4>0. Head(confirms[q]) => current[q] \in stored
          BY <3>4, <1>b DEF InStep
        <4>1. Len(confirms[q]) = 1
          BY <3>4, <1>b DEF InStep
        <4>2. confirms'[q] = <<>> \/ confirms'[q] = confirms[q]
          <5>1. n \in 0..Len(confirms[q])
            BY <2>2, <3>1
          <5>2. n = 0 \/ n = Len(confirms[q])
            <6>1. n \in 0..1
              BY <4>1, <5>1
            <6> QED BY <4>1, <6>1
          <5>3. SubSeq(confirms[q], 1, 0) = <<>>
            BY SubSeqEmpty
          <5>4. SubSeq(confirms[q], 1, Len(confirms[q])) = confirms[q]
            BY <1>c, SubSeqFull
          <5> QED BY <5>2, <5>3, <5>4, <3>2
        <4>3. current[q] # NoFact
          BY <3>4, <1>b DEF InStep
        <4> QED BY <4>0, <4>1, <4>2, <4>3, <3>2 DEF InStep
      <3> QED BY <3>3, <3>4
    <2> QED BY <2>1, <2>2
  <1>12. ASSUME NEW r \in Relay, Stop(r) PROVE InStep(q)'
    <2>1. CASE q # r
      BY <2>1, <1>12, <1>b, InStepKept DEF Stop, TypeOK
    <2>2. CASE q = r
      BY <2>2, <1>12 DEF Stop, InStep, TypeOK
    <2> QED BY <2>1, <2>2
  <1>13. ASSUME NEW r \in Relay, Start(r) PROVE InStep(q)'
    <2>1. CASE q # r
      BY <2>1, <1>13, <1>b, InStepKept DEF Start, brokerVars, TypeOK
    <2>2. CASE q = r
      BY <2>2, <1>13, <1>b DEF Start, brokerVars, InStep
    <2> QED BY <2>1, <2>2
  <1>14. CASE UNCHANGED vars
    BY <1>14, <1>b, InStepKept DEF vars, relayVars, brokerVars
  <1>15. CASE Next
    BY <1>15, <1>a, <1>1, <1>2, <1>3, <1>4, <1>5, <1>6, <1>7, <1>9, <1>10,
       <1>11, <1>12, <1>13 DEF Next, RelayStep, BrokerStep
  <1> QED BY <1>14, <1>15

LEMMA LossNext == LossInv /\ [Next]_vars => LossInv'
  <1> SUFFICES ASSUME LossInv, [Next]_vars PROVE LossInv'
    OBVIOUS
  <1>1. TypeOK' /\ ChannelInv'
    BY TypeNext, ChannelNext DEF LossInv
  <1>2. ASSUME timeouts' = 0 PROVE published' \subseteq stored'
    <2>1. timeouts = 0
      <3>1. timeouts' = timeouts \/ timeouts' = timeouts + 1
        BY DEF Next, RelayStep, BrokerStep, vars, Commit, GrowStale, Claim,
               Publish, GiveUpBatch, ReadConfirm, ReadClosed, GiveUpConfirm,
               Store, Refuse, Disconnect, Stop, Start
      <3>2. timeouts \in Nat
        BY OutboxAssumption DEF LossInv, TypeOK
      <3> QED BY <1>2, <3>1, <3>2
    <2>2. published \subseteq stored
      BY <2>1 DEF LossInv, LossNeedsTimeout, PublishedIsStored
    <2>3. stored \subseteq stored'
      BY DEF Next, RelayStep, BrokerStep, vars, brokerVars, Commit,
             GrowStale, Claim, Publish, GiveUpBatch, ReadConfirm, ReadClosed,
             GiveUpConfirm, Store, Refuse, Disconnect, Stop, Start
    <2>4. CASE \E r \in Relay : ReadConfirm(r)
      <3>1. PICK r \in Relay : ReadConfirm(r)
        BY <2>4
      <3>2. Acknowledged(r) => current[r] \in stored
        BY <3>1, <2>1 DEF LossInv, ChannelInv, InStep, Acknowledged, ReadConfirm
      <3> QED BY <3>1, <3>2, <2>2, <2>3 DEF ReadConfirm
    <2>5. CASE ~\E r \in Relay : ReadConfirm(r)
      <3>1. published' = published
        BY <2>5 DEF Next, RelayStep, BrokerStep, vars, tableVars, Commit,
             GrowStale, Claim, Publish, GiveUpBatch, ReadClosed,
             GiveUpConfirm, Store, Refuse, Disconnect, Stop, Start
      <3> QED BY <3>1, <2>2, <2>3
    <2> QED BY <2>4, <2>5
  <1> QED BY <1>1, <1>2 DEF LossInv, LossNeedsTimeout, PublishedIsStored

(* Refused messages, failed marks, lost connections, crashes and rival     *)
(* relays never make a relay mark a row that the broker does not have:     *)
(* only a confirmation that came too late can.                             *)
THEOREM OnlyTimeoutsLoseFacts == Spec => []LossNeedsTimeout
  <1>1. LossInv => LossNeedsTimeout
    BY DEF LossInv
  <1> QED BY LossInit, LossNext, <1>1, PTL DEF Spec
=============================================================================
