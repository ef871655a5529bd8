------------------------------ MODULE Moderation ------------------------------
(***************************************************************************)
(* The moderation service: reports open cases, cases lead to actions, an   *)
(* action ends by itself or by an appeal.  An action is about a target,    *)
(* which stands here for the reported thing with the class and scope of    *)
(* the action.                                                             *)
(*                                                                         *)
(* A command locks the rows it reads FOR UPDATE and is one step, but for   *)
(* two: an action takes its version from rows it does not lock, and an     *)
(* appeal reads its action without a lock.  Those are a step that reads    *)
(* and a step that inserts and commits.                                    *)
(***************************************************************************)
EXTENDS Naturals, FiniteSets, Sequences

CONSTANTS
    Case,           \* UUIDs of cases, and of the one report of each
    Content,        \* what somebody may report, as the hash of it tells apart
    Target,
    Action,         \* UUIDs of actions
    Worker,         \* commands handled at once
    ExpireLimit     \* rows one run of the expiry worker takes

VARIABLES
    case,       \* tables moderation_case and report
    action,     \* table moderation_action
    appeal,     \* table appeal: only the account concerned may appeal, once
    request,    \* open transactions
    dismissed,  \* cases a fact ModerationCaseDismissed in the outbox is about
    facts       \* table outbox, the facts about each action

vars == <<case, action, appeal, request, dismissed, facts>>

-----------------------------------------------------------------------------
NoCase == [status |-> "NONE"]
CaseStatus == {"OPEN", "TRIAGED", "INVESTIGATING", "ACTIONED", "DISMISSED"}
CaseRow == [status: CaseStatus, report: CaseStatus, content: Content]

NoAction == [state |-> "NONE"]
ActionRow == [case: Case, target: Target, version: Nat \ {0},
              state: {"ACTIVE", "EXPIRED", "REVERSED"}, expires: BOOLEAN]

Idle == [op |-> "idle"]
Request == [op: {"act"}, case: Case, target: Target, version: Nat \ {0}] \cup
           [op: {"appeal"}, action: Action]

Fact == {"ModerationActionApplied", "AppealSubmitted", "AppealUpheld",
         "ModerationActionReversed", "ModerationActionExpired"}

TypeOK ==
    /\ case \in [Case -> CaseRow \cup {NoCase}]
    /\ action \in [Action -> ActionRow \cup {NoAction}]
    /\ appeal \in [Action -> {"NONE", "APPEALED", "UPHELD", "REVERSED"}]
    /\ request \in [Worker -> Request \cup {Idle}]
    /\ dismissed \subseteq Case
    /\ facts \in [Action -> Seq(Fact)]

-----------------------------------------------------------------------------
Taken(x) == action[x] # NoAction
InForce(x) == action[x].state = "ACTIVE"
ActionsOn(t) == {x \in Action : Taken(x) /\ action[x].target = t}
VersionsOf(t) == {action[x].version : x \in ActionsOn(t)}

(* An open transaction holds the row of the case. *)
CaseLocked(c) ==
    \E w \in Worker : request[w].op = "act" /\ request[w].case = c

Goes(w, r) == request' = [request EXCEPT ![w] = r]

Init ==
    /\ case = [c \in Case |-> NoCase]
    /\ action = [x \in Action |-> NoAction]
    /\ appeal = [x \in Action |-> "NONE"]
    /\ request = [w \in Worker |-> Idle]
    /\ dismissed = {}
    /\ facts = [x \in Action |-> <<>>]

-----------------------------------------------------------------------------
(* POST /api/v1/reports; the same report of the same reporter is refused.  *)
CreateReport(c, k) ==
    /\ case[c] = NoCase
    /\ \A d \in Case : case[d] # NoCase => case[d].content # k
    /\ case' = [case EXCEPT ![c] =
           [status |-> "OPEN", report |-> "OPEN", content |-> k]]
    /\ UNCHANGED <<action, appeal, request, dismissed, facts>>

(* POST .../assign: the case leaves OPEN, its report does not.             *)
AssignCase(c) ==
    /\ case[c].status = "OPEN"
    /\ ~CaseLocked(c)
    /\ case' = [case EXCEPT ![c].status = "TRIAGED"]
    /\ UNCHANGED <<action, appeal, request, dismissed, facts>>

(* Mutant: the case is read without a lock. *)
MayMoveAnyway(c) == TRUE

(* The row of the case is read FOR UPDATE.                                 *)
MayMove(c) == ~CaseLocked(c)

(* POST .../status *)
CaseMoves == {<<"TRIAGED", "INVESTIGATING">>, <<"INVESTIGATING", "DISMISSED">>}
UpdateCaseStatus(c, next) ==
    /\ <<case[c].status, next>> \in CaseMoves
    /\ MayMove(c)
    /\ case' = [case EXCEPT ![c].status = next, ![c].report = next]
    /\ dismissed' = IF next = "DISMISSED" THEN dismissed \cup {c} ELSE dismissed
    /\ UNCHANGED <<action, appeal, request, facts>>

-----------------------------------------------------------------------------
(* POST .../actions: the case is locked, and the version follows those     *)
(* that are committed.                                                     *)
Follows(v, V) == (\A u \in V : u < v) /\ (v # 1 => v - 1 \in V)

ReadVersion(w, c, t) ==
    /\ request[w] = Idle
    /\ case[c].status \in {"INVESTIGATING", "ACTIONED"}
    /\ ~CaseLocked(c)
    /\ \E v \in 1..(Cardinality(Action) + 1) :
          /\ Follows(v, VersionsOf(t))
          /\ Goes(w, [op |-> "act", case |-> c, target |-> t, version |-> v])
    /\ UNCHANGED <<case, action, appeal, dismissed, facts>>

(* Mutant: only the index of actions in force is there. *)
UniqueInForce(t, v) == \A x \in ActionsOn(t) : ~InForce(x)

(* Both unique indexes of the table: the version of a target, and the      *)
(* target of an action in force.                                           *)
Unique(t, v) == v \notin VersionsOf(t) /\ \A x \in ActionsOn(t) : ~InForce(x)

CreateAction(w, x, expires) ==
    LET c == request[w].case
        t == request[w].target
        v == request[w].version IN
    /\ request[w].op = "act"
    /\ ~Taken(x)
    /\ Unique(t, v)
    /\ action' = [action EXCEPT ![x] =
           [case |-> c, target |-> t, version |-> v, state |-> "ACTIVE",
            expires |-> expires]]
    /\ case' = [case EXCEPT ![c].status = "ACTIONED", ![c].report = "ACTIONED"]
    /\ facts' = [facts EXCEPT ![x] = Append(@, "ModerationActionApplied")]
    /\ Goes(w, Idle)
    /\ UNCHANGED <<appeal, dismissed>>

(* An index refuses the row, the service dies, or its client is gone.      *)
Abandoned(w) ==
    /\ request[w] # Idle
    /\ Goes(w, Idle)
    /\ UNCHANGED <<case, action, appeal, dismissed, facts>>

-----------------------------------------------------------------------------
(* POST .../appeals: an action in force is read, and by the time the       *)
(* appeal is inserted it may have ended.                                   *)
ReadAction(w, x) ==
    /\ request[w] = Idle
    /\ InForce(x)
    /\ Goes(w, [op |-> "appeal", action |-> x])
    /\ UNCHANGED <<case, action, appeal, dismissed, facts>>

CreateAppeal(w) ==
    LET x == request[w].action IN
    /\ request[w].op = "appeal"
    /\ appeal[x] = "NONE"
    /\ appeal' = [appeal EXCEPT ![x] = "APPEALED"]
    /\ facts' = [facts EXCEPT ![x] = Append(@, "AppealSubmitted")]
    /\ Goes(w, Idle)
    /\ UNCHANGED <<case, action, dismissed>>

(* Mutant: a decision can be taken again. *)
PendingAlways(x) == appeal[x] # "NONE"

Pending(x) == appeal[x] = "APPEALED"

(* POST .../decision: a reversal ends the action, even one that has        *)
(* expired.                                                                *)
DecideAppeal(x, decision) ==
    /\ Pending(x)
    /\ appeal' = [appeal EXCEPT ![x] = decision]
    /\ action' = IF decision = "REVERSED"
                   THEN [action EXCEPT ![x].state = "REVERSED"] ELSE action
    /\ facts' = [facts EXCEPT ![x] = Append(@,
           IF decision = "REVERSED" THEN "ModerationActionReversed"
                                    ELSE "AppealUpheld")]
    /\ UNCHANGED <<case, request, dismissed>>

(* Mutant: whatever has a date is due. *)
DueAnyway(x) == Taken(x) /\ action[x].expires

(* Its date may have come. *)
Due(x) == InForce(x) /\ action[x].expires

(* One run of the expiry worker, over actions whose dates have come.       *)
ExpireActions(S) ==
    /\ S # {} /\ Cardinality(S) <= ExpireLimit
    /\ \A x \in S : Due(x)
    /\ action' = [x \in Action |->
           IF x \in S THEN [action[x] EXCEPT !.state = "EXPIRED"] ELSE action[x]]
    /\ facts' = [x \in Action |->
           IF x \in S THEN Append(facts[x], "ModerationActionExpired") ELSE facts[x]]
    /\ UNCHANGED <<case, appeal, request, dismissed>>

-----------------------------------------------------------------------------
CaseStep ==
    \E c \in Case :
        \/ \E k \in Content : CreateReport(c, k)
        \/ AssignCase(c)
        \/ \E next \in {"INVESTIGATING", "DISMISSED"} : UpdateCaseStatus(c, next)
        \/ \E w \in Worker, t \in Target : ReadVersion(w, c, t)

ActionStep ==
    \/ \E w \in Worker, x \in Action, e \in BOOLEAN : CreateAction(w, x, e)
    \/ \E w \in Worker : CreateAppeal(w) \/ Abandoned(w)
    \/ \E w \in Worker, x \in Action : ReadAction(w, x)
    \/ \E x \in Action, d \in {"UPHELD", "REVERSED"} : DecideAppeal(x, d)
    \/ \E S \in SUBSET Action : ExpireActions(S)

Next == CaseStep \/ ActionStep

Spec == Init /\ [][Next]_vars

-----------------------------------------------------------------------------
(* Properties *)

(* Whichever cases act on a target at once, its actions are numbered one   *)
(* after another, and the one in force is the last: who follows the facts  *)
(* of a target by version ends with the action that counts.                *)
NewestIsInForce ==
    \A x, y \in Action :
        Taken(x) /\ Taken(y) /\ action[x].target = action[y].target =>
            /\ action[x].version = action[y].version => x = y
            /\ InForce(x) => action[y].version <= action[x].version
            /\ action[x].version = 1 \/
               \E z \in Action : /\ Taken(z)
                                 /\ action[z].target = action[x].target
                                 /\ action[z].version = action[x].version - 1

(* A case that others were told is dismissed led to no action, and one     *)
(* that is actioned did; and the report its member looks at tells as much  *)
(* as the case, but for the triage.                                        *)
CasesAreSettled ==
    \A c \in Case :
        LET Led == {x \in Action : Taken(x) /\ action[x].case = c} IN
        case[c] # NoCase =>
            /\ Led # {} <=> case[c].status = "ACTIONED"
            /\ c \in dismissed <=> case[c].status = "DISMISSED"
            /\ case[c].report = (IF case[c].status = "TRIAGED" THEN "OPEN"
                                 ELSE case[c].status)

(* What other services are told of an action: that it was applied, then at *)
(* most one expiry and one decision, and the last of these that moves it   *)
(* names the state it has.                                                 *)
Moving(f) == f \in {"ModerationActionApplied", "ModerationActionExpired",
                    "ModerationActionReversed"}
StateTold(f) == IF f = "ModerationActionApplied" THEN "ACTIVE"
                ELSE IF f = "ModerationActionExpired" THEN "EXPIRED" ELSE "REVERSED"
FactsTellActions ==
    \A x \in Action :
        LET told == facts[x] IN
        IF ~Taken(x) THEN told = <<>>
        ELSE /\ told[1] = "ModerationActionApplied"
             /\ \E i \in DOMAIN told :
                   /\ Moving(told[i]) /\ StateTold(told[i]) = action[x].state
                   /\ \A j \in DOMAIN told : j > i => ~Moving(told[j])
             /\ \A i, j \in DOMAIN told : told[i] = told[j] => i = j
             /\ ~(/\ \E i \in DOMAIN told : told[i] = "AppealUpheld"
                  /\ \E i \in DOMAIN told : told[i] = "ModerationActionReversed")

(* "History is never rewritten": an action that ended is not in force      *)
(* again, and the one rewriting there is, an appeal that reverses what     *)
(* has expired meanwhile, is the decision of an appeal that was pending.   *)
EndedIsOver ==
    [][\A x \in Action : Taken(x) /\ ~InForce(x) /\ action'[x] # action[x] =>
          /\ action[x].state = "EXPIRED"
          /\ action'[x] = [action[x] EXCEPT !.state = "REVERSED"]
          /\ appeal[x] = "APPEALED" /\ appeal'[x] = "REVERSED"]_vars
=============================================================================
