---------------------------- MODULE EventLifecycle ----------------------------
(***************************************************************************)
(* The event service: drafts are edited, published, opened and closed for  *)
(* registration, and cancelled.  A command reads the event, checks it, and *)
(* then updates the row if it has the version that the client expects.     *)
(* Nothing compares the version expected with the one that was read: a     *)
(* client may expect an older one, which is refused, or a later one, which *)
(* other commands may bring about between the check and the update.        *)
(***************************************************************************)
EXTENDS Naturals, Sequences

CONSTANTS
    Event,
    Worker,         \* commands handled at once
    Capacity,       \* capacities an organizer may configure
    Window,         \* registration windows, as records [opens, closes]
    MaxVersion,     \* bound of the edits of one event
    MaxTime

ASSUME EventAssumption ==
    /\ MaxVersion \in Nat \ {0}
    /\ MaxTime \in Nat

VARIABLES
    now,
    event,          \* table event
    request,        \* what a command has read and is about to write
    facts,          \* table outbox, the facts about each event
    quoted,         \* history: what Booking read of events open for registration
    overtaken       \* history: versions written under a check of an earlier one

eventVars == <<now, event, request, facts, quoted, overtaken>>

-----------------------------------------------------------------------------
Status == {"DRAFT", "PUBLISHED", "REGISTRATION_OPEN", "REGISTRATION_CLOSED", "CANCELLED"}

NoEvent == [status |-> "NONE"]
EventRow == [status: Status, version: 1..MaxVersion, capacity: Capacity,
             policyVersion: 1..MaxVersion, window: Window, images: BOOLEAN]

NoRequest == [op |-> "idle"]
Request == [op: {"update"}, event: Event, expected: 1..MaxVersion, seen: 1..MaxVersion,
            capacity: Capacity, window: Window] \cup
           [op: {"transition"}, event: Event, expected: 1..MaxVersion, seen: 1..MaxVersion,
            from: Status, to: Status]

(* The payload of a fact.  That of EventUpdated carries no status; the     *)
(* status of any other one says which type it has.                         *)
NoStatus == "NONE"
EventFact == [version: 1..MaxVersion, status: Status \cup {NoStatus}]

EventTypeOK ==
    /\ now \in 0..MaxTime
    /\ event \in [Event -> EventRow \cup {NoEvent}]
    /\ request \in [Worker -> Request \cup {NoRequest}]
    /\ facts \in [Event -> Seq(EventFact)]
    /\ quoted \subseteq [event: Event, version: 1..MaxVersion, capacity: Capacity,
                          policyVersion: 1..MaxVersion]
    /\ overtaken \in [Event -> SUBSET (1..MaxVersion)]

-----------------------------------------------------------------------------
CanTransition ==
    {<<"DRAFT", "PUBLISHED">>, <<"PUBLISHED", "REGISTRATION_OPEN">>,
     <<"REGISTRATION_OPEN", "REGISTRATION_CLOSED">>}
    \cup (Status \ {"CANCELLED"}) \X {"CANCELLED"}

Goes(w, r) == request' = [request EXCEPT ![w] = r]
Told(e, version, status) ==
    facts' = [facts EXCEPT ![e] = Append(@, [version |-> version, status |-> status])]

(* History: the row becomes version v by a command that had checked an     *)
(* earlier one than its client expected.                                   *)
Overtakes(r, v) ==
    overtaken' = [overtaken EXCEPT ![r.event] =
        IF r.expected > r.seen THEN @ \cup {v} ELSE @]

EventInit ==
    /\ now = 0
    /\ event = [e \in Event |-> NoEvent]
    /\ request = [w \in Worker |-> NoRequest]
    /\ facts = [e \in Event |-> <<>>]
    /\ quoted = {}
    /\ overtaken = [e \in Event |-> {}]

Tick ==
    /\ now < MaxTime
    /\ now' = now + 1
    /\ UNCHANGED <<event, request, facts, quoted, overtaken>>

-----------------------------------------------------------------------------
(* POST /api/v1/events *)
Create(e, c, window) ==
    LET row == [status |-> "DRAFT", version |-> 1, capacity |-> c,
                policyVersion |-> 1, window |-> window, images |-> FALSE] IN
    /\ event[e] = NoEvent
    /\ event' = [event EXCEPT ![e] = row]
    /\ Told(e, 1, "DRAFT")
    /\ UNCHANGED <<now, request, quoted, overtaken>>

(* PATCH /api/v1/events/{id}: only a draft is edited, and all of it is     *)
(* replaced.                                                               *)
ReadForUpdate(w, e, c, window, expected) ==
    /\ request[w] = NoRequest
    /\ event[e].status = "DRAFT"
    /\ Goes(w, [op |-> "update", event |-> e, expected |-> expected,
                seen |-> event[e].version, capacity |-> c, window |-> window])
    /\ UNCHANGED <<now, event, facts, quoted, overtaken>>

(* Mutant: the row is written whatever version it has. *)
AnyVersion(w) == event[request[w].event] # NoEvent

(* WHERE version = the version that the client expects.                    *)
AsExpected(w) == event[request[w].event].version = request[w].expected

Update(w) ==
    LET r == request[w]
        e == r.event
        row == [event[e] EXCEPT
            !.capacity = r.capacity, !.window = r.window, !.version = @ + 1,
            !.policyVersion = IF event[e].capacity # r.capacity THEN @ + 1 ELSE @] IN
    /\ r.op = "update"
    /\ AsExpected(w)
    /\ event[e].version < MaxVersion
    /\ event' = [event EXCEPT ![e] = row]
    /\ Told(e, row.version, NoStatus)
    /\ Overtakes(r, row.version)
    /\ Goes(w, NoRequest)
    /\ UNCHANGED <<now, quoted>>

(* POST .../publish, open-registration, close-registration and cancel.     *)
InTime(e, to) ==
    /\ to = "PUBLISHED" => now < event[e].window.closes
    /\ to = "REGISTRATION_OPEN" =>
          event[e].window.opens <= now /\ now < event[e].window.closes

ReadForTransition(w, e, to, expected) ==
    /\ request[w] = NoRequest
    /\ <<event[e].status, to>> \in CanTransition
    /\ InTime(e, to)
    /\ Goes(w, [op |-> "transition", event |-> e, expected |-> expected,
                seen |-> event[e].version, from |-> event[e].status, to |-> to])
    /\ UNCHANGED <<now, event, facts, quoted, overtaken>>

(* Mutant: the version stays when the status changes. *)
MovedSilently(e, to) == [event[e] EXCEPT !.status = to]

Moved(e, to) == [event[e] EXCEPT !.status = to, !.version = @ + 1]

Transition(w) ==
    LET e == request[w].event
        row == Moved(e, request[w].to) IN
    /\ request[w].op = "transition"
    /\ AsExpected(w)
    /\ event[e].version < MaxVersion
    /\ event' = [event EXCEPT ![e] = row]
    /\ Told(e, row.version, row.status)
    /\ Overtakes(request[w], row.version)
    /\ Goes(w, NoRequest)
    /\ UNCHANGED <<now, quoted>>

(* EVENT_VERSION_CONFLICT, or the service dies in the command.             *)
Refused(w) ==
    /\ request[w] # NoRequest
    /\ Goes(w, NoRequest)
    /\ UNCHANGED <<now, event, facts, quoted, overtaken>>

(* PUT .../image: the row of a draft is locked, and its version kept.      *)
SaveImage(e) ==
    /\ event[e].status = "DRAFT"
    /\ event' = [event EXCEPT ![e].images = TRUE]
    /\ UNCHANGED <<now, request, facts, quoted, overtaken>>

(* Booking reads an event when somebody books, and keeps the capacity and  *)
(* its policy version of the first reading.                                *)
Quote(e) ==
    /\ event[e].status = "REGISTRATION_OPEN"
    /\ quoted' = quoted \cup {[event |-> e, version |-> event[e].version,
                               capacity |-> event[e].capacity,
                               policyVersion |-> event[e].policyVersion]}
    /\ UNCHANGED <<now, event, request, facts, overtaken>>

-----------------------------------------------------------------------------
Command(w) ==
    \/ \E e \in Event, c \in Capacity, window \in Window, expected \in 1..MaxVersion :
          ReadForUpdate(w, e, c, window, expected)
    \/ \E e \in Event, to \in Status, expected \in 1..MaxVersion :
          ReadForTransition(w, e, to, expected)
    \/ Update(w)
    \/ Transition(w)
    \/ Refused(w)

EventNext ==
    \/ Tick
    \/ \E e \in Event, c \in Capacity, window \in Window : Create(e, c, window)
    \/ \E w \in Worker : Command(w)
    \/ \E e \in Event : SaveImage(e) \/ Quote(e)

EventSpec == EventInit /\ [][EventNext]_eventVars

-----------------------------------------------------------------------------
(* Properties *)

(* "Published events cannot be edited": what Booking keeps of an event is  *)
(* what the event has, whenever it was read and whatever edits were under  *)
(* way when the event was published.  The exception is an edit by a client *)
(* that expected a later version than the draft that was checked: when     *)
(* that version has come, it is written, open for registration or not.     *)
QuotesStand ==
    \A q \in quoted :
        \/ /\ event[q.event].capacity = q.capacity
           /\ event[q.event].policyVersion = q.policyVersion
        \/ \E v \in overtaken[q.event] :
              v > q.version /\ facts[q.event][v].status = NoStatus

(* The i-th of the first n facts is the last of them that tells a status.  *)
LastTold(s, n, i) ==
    /\ i \in 1..n
    /\ s[i].status # NoStatus
    /\ \A j \in (i + 1)..n : s[j].status = NoStatus

(* An edit of a draft, or a change that CanTransition has.                 *)
LegalStep(from, to) ==
    IF to = NoStatus THEN from = "DRAFT" ELSE <<from, to>> \in CanTransition

(* Each change of an event is told once, under the next version: whoever   *)
(* puts the facts of an event in the order of their versions sees the life *)
(* of an event up to its present status.  Each step of that life is legal, *)
(* but for the versions that were written under a check of an earlier one: *)
(* these may edit what is published, or open what is cancelled.            *)
FactsTellLife ==
    \A e \in Event :
        LET told == facts[e] IN
        IF event[e] = NoEvent THEN told = <<>>
        ELSE /\ Len(told) = event[e].version
             /\ \A n \in DOMAIN told : told[n].version = n
             /\ told[1].status = "DRAFT"
             /\ \A i \in DOMAIN told :
                   LastTold(told, Len(told), i) => told[i].status = event[e].status
             /\ \A n \in 2..Len(told), i \in DOMAIN told :
                   n \notin overtaken[e] /\ LastTold(told, n - 1, i) =>
                       LegalStep(told[i].status, told[n].status)
=============================================================================
