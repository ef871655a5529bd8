------------------------------ MODULE SeatSale ------------------------------
(***************************************************************************)
(* What the booking service promises, without saying how: a seat of an     *)
(* event is taken only while fewer seats than the event's capacity are     *)
(* taken, a member holds at most one seat of an event, a held seat is      *)
(* either sold or released, and what was sold or released stays so.        *)
(* (services/booking-service/README.md, "Key invariants".)                 *)
(***************************************************************************)
EXTENDS Naturals, FiniteSets

CONSTANTS
    Ticket,     \* the identities a reservation may have
    Account,    \* members
    Event,      \* events that sell seats
    Capacity    \* [Event -> Nat]: the seats of each event

VARIABLES
    seat,       \* [Ticket -> Status]
    holder,     \* partial: the member of every used ticket
    show        \* partial: the event of every used ticket

vars == <<seat, holder, show>>

Status == {"unused", "held", "sold", "released"}
Used == {t \in Ticket : seat[t] # "unused"}

(* The tickets that occupy a seat of event e. *)
Taken(e) == {t \in Ticket : seat[t] \in {"held", "sold"} /\ show[t] = e}

Init ==
    /\ seat = [t \in Ticket |-> "unused"]
    /\ holder = [t \in {} |-> {}]
    /\ show = [t \in {} |-> {}]

(* A seat is taken on hold, or sold at once (payment at the venue). *)
Take(t, a, e, status) ==
    /\ seat[t] = "unused"
    /\ status \in {"held", "sold"}
    /\ Cardinality(Taken(e)) < Capacity[e]
    /\ \A u \in Taken(e) : holder[u] # a
    /\ seat' = [seat EXCEPT ![t] = status]
    /\ holder' = [u \in Used \cup {t} |-> IF u = t THEN a ELSE holder[u]]
    /\ show' = [u \in Used \cup {t} |-> IF u = t THEN e ELSE show[u]]

Sell(t) ==
    /\ seat[t] = "held"
    /\ seat' = [seat EXCEPT ![t] = "sold"]
    /\ UNCHANGED <<holder, show>>

(* Several holds may end in one step: the expiry worker works in batches. *)
Release(T) ==
    /\ T # {}
    /\ \A t \in T : seat[t] = "held"
    /\ seat' = [t \in Ticket |-> IF t \in T THEN "released" ELSE seat[t]]
    /\ UNCHANGED <<holder, show>>

Next ==
    \/ \E t \in Ticket, a \in Account, e \in Event, s \in {"held", "sold"} :
          Take(t, a, e, s)
    \/ \E t \in Ticket : Sell(t)
    \/ \E T \in SUBSET Ticket : Release(T)

Spec == Init /\ [][Next]_vars
=============================================================================
