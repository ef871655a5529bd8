------------------------------- MODULE Outbox --------------------------------
(***************************************************************************)
(* The transactional outbox and the relays that empty it, which the        *)
(* booking, payment, event, account and moderation services have in the    *)
(* same form (cmd/outbox-relay/main.go of each).                           *)
(*                                                                         *)
(* A relay claims a batch of unpublished rows and, one by one, publishes a *)
(* row on its channel, waits for a confirmation for at most five seconds,  *)
(* and marks the row.  Confirmations come back in the order of publishing  *)
(* and the relay does not look at their delivery tags.  A connection that  *)
(* is lost is not opened again until the relay restarts.                   *)
(***************************************************************************)
EXTENDS Naturals, FiniteSets, Sequences

CONSTANTS
    Fact,         \* rows that transactions may add to the outbox
    Relay,        \* relay processes
    NoFact,       \* no row
    BatchLimit,   \* rows claimed at once (50)
    MaxTimeouts,  \* bound on confirmations that come too late
    MaxFaults     \* bound on refused messages, failed marks, lost connections
                  \* and crashes, all together

ASSUME OutboxAssumption ==
    /\ NoFact \notin Fact
    /\ BatchLimit \in Nat \ {0}
    /\ MaxTimeouts \in Nat
    /\ MaxFaults \in Nat

VARIABLES
    committed,  \* rows of table outbox
    claim,      \* [Fact -> Age]: claimed_at is NULL, recent, or a minute old
    published,  \* rows whose published_at is set
    process,    \* [Relay -> Process]
    todo,       \* [Relay -> rows of the batch that are still ahead]
    current,    \* [Relay -> the row whose confirmation is awaited, or NoFact]
    wire,       \* [Relay -> messages on the channel, not yet answered]
    confirms,   \* [Relay -> confirmations not yet read: acknowledged or not]
    stored,     \* messages that the broker has taken over
    timeouts,   \* confirmations that came too late, so far
    faults      \* other faults, so far

tableVars == <<committed, claim, published>>
relayVars == <<process, todo, current>>
brokerVars == <<wire, confirms, stored>>
vars == <<tableVars, relayVars, brokerVars, timeouts, faults>>

Age == {"none", "fresh", "stale"}
Process == {"connected", "disconnected", "down"}

TypeOK ==
    /\ committed \subseteq Fact
    /\ claim \in [Fact -> Age]
    /\ published \subseteq committed
    /\ process \in [Relay -> Process]
    /\ todo \in [Relay -> SUBSET committed]
    /\ current \in [Relay -> committed \cup {NoFact}]
    /\ wire \in [Relay -> Seq(committed)]
    /\ confirms \in [Relay -> Seq(BOOLEAN)]
    /\ stored \subseteq committed
    /\ timeouts \in 0..MaxTimeouts
    /\ faults \in 0..MaxFaults

Init ==
    /\ committed = {}
    /\ claim = [f \in Fact |-> "none"]
    /\ published = {}
    /\ process = [r \in Relay |-> "connected"]
    /\ todo = [r \in Relay |-> {}]
    /\ current = [r \in Relay |-> NoFact]
    /\ wire = [r \in Relay |-> <<>>]
    /\ confirms = [r \in Relay |-> <<>>]
    /\ stored = {}
    /\ timeouts = 0
    /\ faults = 0

Fault == faults < MaxFaults /\ faults' = faults + 1

-----------------------------------------------------------------------------
(* The table *)

(* A transaction of the service commits with the fact that tells of it.    *)
Commit(f) ==
    /\ f \notin committed
    /\ committed' = committed \cup {f}
    /\ UNCHANGED <<claim, published, relayVars, brokerVars, timeouts, faults>>

(* A minute passes since the row was claimed. *)
GrowStale(f) ==
    /\ claim[f] = "fresh"
    /\ claim' = [claim EXCEPT ![f] = "stale"]
    /\ UNCHANGED <<committed, published, relayVars, brokerVars, timeouts, faults>>

(* Mutant: a claim is never given up. *)
ClaimableOnce == {f \in committed \ published : claim[f] = "none"}

Claimable == {f \in committed \ published : claim[f] \in {"none", "stale"}}

-----------------------------------------------------------------------------
(* The loop of a relay *)

Idle(r) == todo[r] = {} /\ current[r] = NoFact

(* ClaimOutbox.  The rows that another relay is claiming at this moment    *)
(* are skipped, so the batch may be any part of what is claimable; the     *)
(* statement returns it in no particular order.                            *)
Claim(r, batch) ==
    /\ process[r] # "down"
    /\ Idle(r)
    /\ batch # {} /\ batch \subseteq Claimable
    /\ Cardinality(batch) <= BatchLimit
    /\ claim' = [f \in Fact |-> IF f \in batch THEN "fresh" ELSE claim[f]]
    /\ todo' = [todo EXCEPT ![r] = batch]
    /\ UNCHANGED <<committed, published, process, current, brokerVars,
                   timeouts, faults>>

Publish(r, f) ==
    /\ process[r] = "connected"
    /\ current[r] = NoFact
    /\ f \in todo[r]
    /\ wire' = [wire EXCEPT ![r] = Append(@, f)]
    /\ todo' = [todo EXCEPT ![r] = @ \ {f}]
    /\ current' = [current EXCEPT ![r] = f]
    /\ UNCHANGED <<tableVars, process, confirms, stored, timeouts, faults>>

(* Publishing on a closed channel fails, which ends the batch. *)
GiveUpBatch(r) ==
    /\ process[r] = "disconnected"
    /\ current[r] = NoFact
    /\ todo[r] # {}
    /\ todo' = [todo EXCEPT ![r] = {}]
    /\ UNCHANGED <<tableVars, process, current, brokerVars, timeouts, faults>>

(* Mutant: whatever the broker answers, the row is published. *)
AcknowledgedAnyway(r) == TRUE

Acknowledged(r) == Head(confirms[r])

(* The next confirmation, whichever message it is for, and MarkOutbox-     *)
(* Published.  An error of the latter is ignored: the row stays claimed,   *)
(* as it does when the message was refused.                                *)
ReadConfirm(r) ==
    LET f == current[r] IN
    /\ f # NoFact
    /\ confirms[r] # <<>>
    /\ confirms' = [confirms EXCEPT ![r] = Tail(@)]
    /\ current' = [current EXCEPT ![r] = NoFact]
    /\ \/ /\ Acknowledged(r)
          /\ published' = published \cup {f}
          /\ claim' = [claim EXCEPT ![f] = "none"]
          /\ UNCHANGED faults
       \/ /\ Acknowledged(r)
          /\ Fault
          /\ UNCHANGED <<published, claim>>
       \/ /\ ~Acknowledged(r)
          /\ UNCHANGED <<published, claim, faults>>
    /\ UNCHANGED <<committed, process, todo, wire, stored, timeouts>>

(* The channel of confirmations is closed with the connection, and then    *)
(* yields the zero value, which is no acknowledgement.                     *)
ReadClosed(r) ==
    /\ process[r] = "disconnected"
    /\ current[r] # NoFact
    /\ confirms[r] = <<>>
    /\ current' = [current EXCEPT ![r] = NoFact]
    /\ UNCHANGED <<tableVars, process, todo, brokerVars, timeouts, faults>>

(* Five seconds without a confirmation: the relay goes on with the next    *)
(* row, and the confirmation may still come.                               *)
GiveUpConfirm(r) ==
    /\ process[r] = "connected"
    /\ current[r] # NoFact
    /\ timeouts < MaxTimeouts
    /\ timeouts' = timeouts + 1
    /\ current' = [current EXCEPT ![r] = NoFact]
    /\ UNCHANGED <<tableVars, process, todo, brokerVars, faults>>

-----------------------------------------------------------------------------
(* The broker answers each message of a channel in turn. *)

Store(r) ==
    /\ wire[r] # <<>>
    /\ stored' = stored \cup {Head(wire[r])}
    /\ wire' = [wire EXCEPT ![r] = Tail(@)]
    /\ confirms' = [confirms EXCEPT ![r] = Append(@, TRUE)]
    /\ UNCHANGED <<tableVars, relayVars, timeouts, faults>>

Refuse(r) ==
    /\ wire[r] # <<>>
    /\ Fault
    /\ wire' = [wire EXCEPT ![r] = Tail(@)]
    /\ confirms' = [confirms EXCEPT ![r] = Append(@, FALSE)]
    /\ UNCHANGED <<tableVars, relayVars, stored, timeouts>>

(* The connection breaks: of what is under way only some confirmations     *)
(* that have reached the relay can still be read.                          *)
Disconnect(r) ==
    /\ process[r] = "connected"
    /\ Fault
    /\ process' = [process EXCEPT ![r] = "disconnected"]
    /\ wire' = [wire EXCEPT ![r] = <<>>]
    /\ \E n \in 0..Len(confirms[r]) :
          confirms' = [confirms EXCEPT ![r] = SubSeq(@, 1, n)]
    /\ UNCHANGED <<tableVars, todo, current, stored, timeouts>>

(* The relay is stopped, by itself or by its operator, and started again.  *)
Stop(r) ==
    /\ process[r] # "down"
    /\ \/ process[r] = "connected" /\ Fault
       \/ process[r] = "disconnected" /\ UNCHANGED faults
    /\ process' = [process EXCEPT ![r] = "down"]
    /\ todo' = [todo EXCEPT ![r] = {}]
    /\ current' = [current EXCEPT ![r] = NoFact]
    /\ wire' = [wire EXCEPT ![r] = <<>>]
    /\ confirms' = [confirms EXCEPT ![r] = <<>>]
    /\ UNCHANGED <<tableVars, stored, timeouts>>

Start(r) ==
    /\ process[r] = "down"
    /\ process' = [process EXCEPT ![r] = "connected"]
    /\ UNCHANGED <<tableVars, todo, current, brokerVars, timeouts, faults>>

-----------------------------------------------------------------------------
RelayStep(r) ==
    \/ \E batch \in SUBSET Claimable : Claim(r, batch)
    \/ \E f \in todo[r] : Publish(r, f)
    \/ GiveUpBatch(r)
    \/ ReadConfirm(r)
    \/ ReadClosed(r)

BrokerStep(r) == Store(r) \/ Refuse(r)

Next ==
    \/ \E f \in Fact : Commit(f) \/ GrowStale(f)
    \/ \E r \in Relay : \/ RelayStep(r) \/ GiveUpConfirm(r)
                        \/ BrokerStep(r) \/ Disconnect(r)
                        \/ Stop(r) \/ Start(r)

Spec == Init /\ [][Next]_vars

(* The loop of a running relay goes on: its ticker fires every second and  *)
(* no wait lasts longer than five.  The broker answers what it is sent,    *)
(* and time passes.  Nobody owes a restart.                                *)
FairSpec ==
    /\ Spec
    /\ \A r \in Relay : WF_vars(RelayStep(r)) /\ WF_vars(BrokerStep(r))
    /\ \A f \in Fact : WF_vars(GrowStale(f))

-----------------------------------------------------------------------------
(* Properties *)

(* "Mark published only after broker confirmation": a row that is marked,  *)
(* and so never sent again, is with the broker.                            *)
PublishedIsStored == published \subseteq stored

(* A fact is lost only through a confirmation that was given up on: no     *)
(* refusal, lost connection, crash or second relay can do it.              *)
LossNeedsTimeout == timeouts = 0 => PublishedIsStored

(* "Broker outage leaves state and outbox committed for later relay": once *)
(* the relays stay connected, every committed fact is marked published,    *)
(* whatever happened to the batches it was in before.                      *)
Healthy == \A r \in Relay : process[r] = "connected"

FactsArePublished ==
    <>[]Healthy => \A f \in Fact : f \in committed ~> f \in published
=============================================================================
