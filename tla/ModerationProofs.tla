---------------------------- MODULE ModerationProofs ----------------------------
(***************************************************************************)
(* What TLAPS proves of Moderation, for any cases, targets, actions and    *)
(* commands at once.                                                       *)
(***************************************************************************)
EXTENDS Moderation, SequenceTheorems, TLAPS

-----------------------------------------------------------------------------
(* The inductive invariant *)

(* A case that an action is being taken on is held at a status that allows *)
(* it.                                                                     *)
HeldCases ==
    \A w \in Worker : request[w].op = "act" =>
        case[request[w].case].status \in {"INVESTIGATING", "ACTIONED"}

(* A version that was read is the next one, until somebody else takes it;  *)
(* none that is later can be taken before.                                 *)
NextVersions ==
    \A w \in Worker : request[w].op = "act" =>
        LET v == request[w].version
            V == VersionsOf(request[w].target) IN
        /\ v = 1 \/ v - 1 \in V
        /\ v \notin V => \A u \in V : u < v

(* Appeals are about actions that were taken, and a reversal is decided    *)
(* once.                                                                   *)
SoundAppeals ==
    /\ \A w \in Worker : request[w].op = "appeal" => Taken(request[w].action)
    /\ \A x \in Action : appeal[x] # "NONE" => Taken(x)
    /\ \A x \in Action : action[x].state = "REVERSED" => appeal[x] = "REVERSED"

(* What actions and facts are about is there. *)
KnownCases ==
    /\ \A x \in Action : Taken(x) => case[action[x].case] # NoCase
    /\ \A c \in dismissed : case[c] # NoCase

ModerationInv ==
    /\ TypeOK
    /\ KnownCases
    /\ HeldCases
    /\ NextVersions
    /\ SoundAppeals
    /\ CasesAreSettled
    /\ NewestIsInForce

-----------------------------------------------------------------------------
(* Types *)

(* What an open transaction holds. *)
LEMMA Shapes ==
    ASSUME TypeOK, NEW w \in Worker
    PROVE  /\ request[w].op = "act" => /\ request[w].case \in Case
                                       /\ request[w].target \in Target
                                       /\ request[w].version \in Nat \ {0}
           /\ request[w].op = "appeal" => request[w].action \in Action
<1>1. request[w] \in Request \cup {Idle}
  BY DEF TypeOK
<1> QED
  BY <1>1 DEF Request, Idle

(* Rows that are there have their columns. *)
LEMMA RowTypes ==
    ASSUME TypeOK
    PROVE  /\ \A c \in Case : case[c] # NoCase => case[c] \in CaseRow
           /\ \A x \in Action : Taken(x) => action[x] \in ActionRow
           /\ \A x \in Action : InForce(x) => Taken(x)
           /\ NoCase.status = "NONE" /\ NoAction.state = "NONE"
BY DEF TypeOK, Taken, InForce, NoAction, NoCase

(* A transaction that goes on keeps the table of requests in its type.     *)
LEMMA GoesType ==
    ASSUME TypeOK, NEW w \in Worker, NEW r \in Request \cup {Idle}, Goes(w, r)
    PROVE  request' \in [Worker -> Request \cup {Idle}]
BY DEF TypeOK, Goes

(* A fact about an action keeps the outbox in its type.                    *)
LEMMA FactType ==
    ASSUME TypeOK, NEW x \in Action, NEW f \in Fact
    PROVE  /\ Append(facts[x], f) \in Seq(Fact)
           /\ [facts EXCEPT ![x] = Append(@, f)] \in [Action -> Seq(Fact)]
<1>1. Append(facts[x], f) \in Seq(Fact)
  BY DEF TypeOK
<1> QED
  BY <1>1 DEF TypeOK

LEMMA TypeStep == ModerationInv /\ [Next]_vars => TypeOK'
<1> SUFFICES ASSUME ModerationInv, [Next]_vars PROVE TypeOK'
  OBVIOUS
<1> USE DEF ModerationInv
<1>1. ASSUME NEW c \in Case, NEW k \in Content, CreateReport(c, k)
      PROVE  TypeOK'
  BY <1>1 DEF CreateReport, TypeOK, CaseRow, CaseStatus
<1>2. ASSUME NEW c \in Case, AssignCase(c)
      PROVE  TypeOK'
  <2>1. case[c] \in CaseRow
    BY <1>2, RowTypes DEF AssignCase
  <2>2. [case[c] EXCEPT !.status = "TRIAGED"] \in CaseRow
    BY <2>1 DEF CaseRow, CaseStatus
  <2> QED
    BY <1>2, <2>2 DEF AssignCase, TypeOK
<1>3. ASSUME NEW c \in Case, NEW next \in {"INVESTIGATING", "DISMISSED"},
             UpdateCaseStatus(c, next)
      PROVE  TypeOK'
  <2>1. case[c] \in CaseRow
    BY <1>3, RowTypes DEF UpdateCaseStatus, CaseMoves
  <2>2. [case[c] EXCEPT !.status = next, !.report = next] \in CaseRow
    BY <2>1 DEF CaseRow, CaseStatus
  <2>3. case' \in [Case -> CaseRow \cup {NoCase}]
    BY <1>3, <2>2 DEF UpdateCaseStatus, TypeOK
  <2> QED
    BY <1>3, <2>3 DEF UpdateCaseStatus, TypeOK
<1>4. ASSUME NEW w \in Worker, NEW c \in Case, NEW t \in Target, ReadVersion(w, c, t)
      PROVE  TypeOK'
  <2>1. PICK v \in 1..(Cardinality(Action) + 1) :
           Goes(w, [op |-> "act", case |-> c, target |-> t, version |-> v])
    BY <1>4 DEF ReadVersion
  <2>2. v \in Nat \ {0}
    OBVIOUS
  <2>3. [op |-> "act", case |-> c, target |-> t, version |-> v] \in Request \cup {Idle}
    BY <2>2 DEF Request
  <2> QED
    BY <1>4, <2>1, <2>3, GoesType DEF ReadVersion, TypeOK
<1>5. ASSUME NEW w \in Worker, NEW x \in Action, NEW e \in BOOLEAN, CreateAction(w, x, e)
      PROVE  TypeOK'
  <2> DEFINE c == request[w].case
  <2>1. /\ c \in Case /\ request[w].target \in Target
        /\ request[w].version \in Nat \ {0}
    BY <1>5, Shapes DEF CreateAction
  <2>2. case[c] \in CaseRow
    BY <1>5, <2>1, RowTypes DEF CreateAction, HeldCases
  <2>3. action' \in [Action -> ActionRow \cup {NoAction}]
    BY <1>5, <2>1 DEF CreateAction, TypeOK, ActionRow
  <2>4. case' \in [Case -> CaseRow \cup {NoCase}]
    <3>1. [case[c] EXCEPT !.status = "ACTIONED", !.report = "ACTIONED"] \in CaseRow
      BY <2>2 DEF CaseRow, CaseStatus
    <3> QED
      BY <1>5, <2>1, <3>1 DEF CreateAction, TypeOK
  <2>5. facts' \in [Action -> Seq(Fact)]
    BY <1>5, FactType DEF CreateAction, Fact
  <2>6. request' \in [Worker -> Request \cup {Idle}]
    BY <1>5, GoesType DEF CreateAction
  <2> QED
    BY <1>5, <2>3, <2>4, <2>5, <2>6 DEF CreateAction, TypeOK
<1>6. ASSUME NEW w \in Worker, Abandoned(w)
      PROVE  TypeOK'
  BY <1>6, GoesType DEF Abandoned, TypeOK
<1>7. ASSUME NEW w \in Worker, NEW x \in Action, ReadAction(w, x)
      PROVE  TypeOK'
  <2>1. [op |-> "appeal", action |-> x] \in Request \cup {Idle}
    BY DEF Request
  <2> QED
    BY <1>7, <2>1, GoesType DEF ReadAction, TypeOK
<1>8. ASSUME NEW w \in Worker, CreateAppeal(w)
      PROVE  TypeOK'
  <2>1. request[w].action \in Action
    BY <1>8, Shapes DEF CreateAppeal
  <2>2. facts' \in [Action -> Seq(Fact)]
    BY <1>8, <2>1, FactType DEF CreateAppeal, Fact
  <2>3. request' \in [Worker -> Request \cup {Idle}]
    BY <1>8, GoesType DEF CreateAppeal
  <2> QED
    BY <1>8, <2>1, <2>2, <2>3 DEF CreateAppeal, TypeOK
<1>9. ASSUME NEW x \in Action, NEW d \in {"UPHELD", "REVERSED"}, DecideAppeal(x, d)
      PROVE  TypeOK'
  <2>1. action[x] \in ActionRow
    BY <1>9, RowTypes DEF DecideAppeal, Pending, SoundAppeals
  <2>2. action' \in [Action -> ActionRow \cup {NoAction}]
    <3>1. [action[x] EXCEPT !.state = "REVERSED"] \in ActionRow
      BY <2>1 DEF ActionRow
    <3> QED
      BY <1>9, <3>1 DEF DecideAppeal, TypeOK
  <2>3. facts' \in [Action -> Seq(Fact)]
    BY <1>9, FactType DEF DecideAppeal, Fact
  <2> QED
    BY <1>9, <2>2, <2>3 DEF DecideAppeal, TypeOK
<1>10. ASSUME NEW S \in SUBSET Action, ExpireActions(S)
       PROVE  TypeOK'
  <2>1. \A x \in S : [action[x] EXCEPT !.state = "EXPIRED"] \in ActionRow
    <3>1. \A x \in S : action[x] \in ActionRow
      BY <1>10, RowTypes DEF ExpireActions, Due
    <3> QED
      BY <3>1 DEF ActionRow
  <2>2. action' \in [Action -> ActionRow \cup {NoAction}]
    BY <1>10, <2>1 DEF ExpireActions, TypeOK
  <2>3. facts' \in [Action -> Seq(Fact)]
    <3>1. \A x \in Action : Append(facts[x], "ModerationActionExpired") \in Seq(Fact)
      BY FactType DEF Fact
    <3> QED
      BY <1>10, <3>1 DEF ExpireActions, TypeOK
  <2> QED
    BY <1>10, <2>2, <2>3 DEF ExpireActions, TypeOK
<1>11. CASE UNCHANGED vars
  BY <1>11 DEF vars, TypeOK
<1> QED
  BY <1>1, <1>2, <1>3, <1>4, <1>5, <1>6, <1>7, <1>8, <1>9, <1>10, <1>11
     DEF Next, CaseStep, ActionStep

-----------------------------------------------------------------------------
(* What a step does to the rows of the actions *)

(* All steps but one leave which actions there are, of which case, target  *)
(* and version, and put none in force.                                     *)
RowsKept ==
    \A x \in Action :
        /\ Taken(x)' <=> Taken(x)
        /\ Taken(x) => /\ action'[x].case = action[x].case
                       /\ action'[x].target = action[x].target
                       /\ action'[x].version = action[x].version
        /\ InForce(x)' => InForce(x)

LEMMA DecisionKeepsRows ==
    ASSUME ModerationInv, NEW x \in Action, NEW d \in {"UPHELD", "REVERSED"},
           DecideAppeal(x, d)
    PROVE  RowsKept
<1>1. action[x] \in ActionRow /\ Taken(x)
  BY RowTypes DEF DecideAppeal, Pending, SoundAppeals, ModerationInv
<1>2. [action[x] EXCEPT !.state = "REVERSED"] \in ActionRow
  BY <1>1 DEF ActionRow
<1>3. NoAction \notin ActionRow
  BY DEF NoAction, ActionRow
<1>4. \A y \in Action : y # x => action'[y] = action[y]
  BY DEF DecideAppeal, ModerationInv, TypeOK
<1>5. action'[x] = action[x] \/ action'[x] = [action[x] EXCEPT !.state = "REVERSED"]
  BY DEF DecideAppeal, ModerationInv, TypeOK
<1> QED
  BY <1>1, <1>2, <1>3, <1>4, <1>5 DEF RowsKept, Taken, InForce, ActionRow

LEMMA ExpiryKeepsRows ==
    ASSUME ModerationInv, NEW S \in SUBSET Action, ExpireActions(S)
    PROVE  RowsKept
<1>1. \A x \in S : action[x] \in ActionRow /\ Taken(x)
  BY RowTypes DEF ExpireActions, Due, ModerationInv
<1>2. \A x \in S : [action[x] EXCEPT !.state = "EXPIRED"] \in ActionRow
  BY <1>1 DEF ActionRow
<1>3. NoAction \notin ActionRow
  BY DEF NoAction, ActionRow
<1>4. \A x \in Action :
         action'[x] = IF x \in S THEN [action[x] EXCEPT !.state = "EXPIRED"]
                      ELSE action[x]
  BY DEF ExpireActions
<1>5. ASSUME NEW x \in Action, x \in S
      PROVE  /\ Taken(x) /\ Taken(x)' /\ ~InForce(x)'
             /\ action'[x].case = action[x].case
             /\ action'[x].target = action[x].target
             /\ action'[x].version = action[x].version
  <2>1. action'[x] = [action[x] EXCEPT !.state = "EXPIRED"]
    BY <1>4, <1>5
  <2> QED
    BY <1>1, <1>2, <1>3, <1>5, <2>1 DEF Taken, InForce, ActionRow
<1>6. ASSUME NEW x \in Action, x \notin S
      PROVE  /\ Taken(x)' <=> Taken(x)
             /\ InForce(x)' <=> InForce(x)
             /\ action'[x] = action[x]
  BY <1>4, <1>6 DEF Taken, InForce
<1> QED
  BY <1>5, <1>6 DEF RowsKept

(* A step takes an action, or keeps the rows there are. *)
LEMMA RowsStep ==
    ASSUME ModerationInv, [Next]_vars
    PROVE  \/ RowsKept
           \/ \E w \in Worker, x \in Action, e \in BOOLEAN : CreateAction(w, x, e)
<1>1. ASSUME UNCHANGED action
      PROVE  RowsKept
  BY <1>1 DEF RowsKept, Taken, InForce
<1> QED
  BY <1>1, DecisionKeepsRows, ExpiryKeepsRows
     DEF Next, CaseStep, ActionStep, CreateReport, AssignCase, UpdateCaseStatus,
         ReadVersion, Abandoned, ReadAction, CreateAppeal, vars

(* The versions of a target stay with the rows. *)
LEMMA VersionsKept ==
    ASSUME RowsKept, NEW t
    PROVE  VersionsOf(t)' = VersionsOf(t)
<1>1. \A x \in Action : /\ x \in ActionsOn(t)' <=> x \in ActionsOn(t)
                        /\ x \in ActionsOn(t) => action'[x].version = action[x].version
  BY DEF RowsKept, ActionsOn
<1>2. ActionsOn(t) \subseteq Action /\ ActionsOn(t)' \subseteq Action
  BY DEF ActionsOn
<1> QED
  BY <1>1, <1>2 DEF VersionsOf

(* What a new action adds to the table. *)
LEMMA NewRow ==
    ASSUME ModerationInv, NEW w \in Worker, NEW x \in Action, NEW e \in BOOLEAN,
           CreateAction(w, x, e)
    PROVE  /\ request[w].case \in Case /\ request[w].target \in Target
           /\ request[w].version \in Nat \ {0}
           /\ ~Taken(x) /\ Taken(x)' /\ InForce(x)'
           /\ action'[x].case = request[w].case
           /\ action'[x].target = request[w].target
           /\ action'[x].version = request[w].version
           /\ action'[x].state = "ACTIVE"
           /\ \A y \in Action : y # x => /\ action'[y] = action[y]
                                         /\ Taken(y)' <=> Taken(y)
                                         /\ InForce(y)' <=> InForce(y)
           /\ \A t \in Target :
                 VersionsOf(t)' = IF t = request[w].target
                                    THEN VersionsOf(t) \cup {request[w].version}
                                    ELSE VersionsOf(t)
<1>1. /\ request[w].case \in Case /\ request[w].target \in Target
      /\ request[w].version \in Nat \ {0}
  BY Shapes DEF CreateAction, ModerationInv
<1>2. action'[x] = [case |-> request[w].case, target |-> request[w].target,
                    version |-> request[w].version, state |-> "ACTIVE", expires |-> e]
  BY DEF CreateAction, ModerationInv, TypeOK
<1>3. ~Taken(x) /\ Taken(x)' /\ InForce(x)'
  BY <1>2 DEF CreateAction, Taken, InForce, NoAction
<1>4. ASSUME NEW y \in Action, y # x
      PROVE  /\ action'[y] = action[y]
             /\ Taken(y)' <=> Taken(y)
             /\ InForce(y)' <=> InForce(y)
  <2>1. action'[y] = action[y]
    BY <1>4 DEF CreateAction, ModerationInv, TypeOK
  <2> QED
    BY <2>1 DEF Taken, InForce
<1>5. ASSUME NEW t \in Target, t = request[w].target
      PROVE  VersionsOf(t)' = VersionsOf(t) \cup {request[w].version}
  <2>1. ActionsOn(t)' = ActionsOn(t) \cup {x}
    <3>1. x \in ActionsOn(t)'
      BY <1>2, <1>3, <1>5 DEF ActionsOn
    <3>2. \A y \in Action : y # x => (y \in ActionsOn(t)' <=> y \in ActionsOn(t))
      BY <1>4 DEF ActionsOn
    <3> QED
      BY <3>1, <3>2 DEF ActionsOn
  <2>2. \A y \in ActionsOn(t) : action'[y].version = action[y].version
    BY <1>3, <1>4 DEF ActionsOn
  <2>3. action'[x].version = request[w].version
    BY <1>2
  <2> QED
    BY <2>1, <2>2, <2>3 DEF VersionsOf
<1>6. ASSUME NEW t \in Target, t # request[w].target
      PROVE  VersionsOf(t)' = VersionsOf(t)
  <2>1. \A y \in Action : /\ y \in ActionsOn(t)' <=> y \in ActionsOn(t)
                          /\ y \in ActionsOn(t) => action'[y].version = action[y].version
    BY <1>2, <1>3, <1>4, <1>6 DEF ActionsOn
  <2>2. ActionsOn(t) \subseteq Action /\ ActionsOn(t)' \subseteq Action
    BY DEF ActionsOn
  <2> QED
    BY <2>1, <2>2 DEF VersionsOf
<1>7. action'[x].case = request[w].case /\ action'[x].target = request[w].target
      /\ action'[x].version = request[w].version /\ action'[x].state = "ACTIVE"
  BY <1>2
<1>8. \A y \in Action : y # x => /\ action'[y] = action[y]
                                 /\ Taken(y)' <=> Taken(y)
                                 /\ InForce(y)' <=> InForce(y)
  BY <1>4
<1>9. \A t \in Target : VersionsOf(t)' = IF t = request[w].target
                                            THEN VersionsOf(t) \cup {request[w].version}
                                            ELSE VersionsOf(t)
  BY <1>5, <1>6
<1> QED
  BY <1>1, <1>3, <1>7, <1>8, <1>9

-----------------------------------------------------------------------------
(* The parts of the invariant, one by one *)

LEMMA KnownStep == ModerationInv /\ [Next]_vars => KnownCases'
<1> SUFFICES ASSUME ModerationInv, [Next]_vars PROVE KnownCases'
  OBVIOUS
<1> USE DEF ModerationInv
<1>1. \A c \in Case : case[c] # NoCase => case'[c] # NoCase
  <2>1. ASSUME NEW c \in Case, NEW k \in Content, CreateReport(c, k)
        PROVE  \A d \in Case : case[d] # NoCase => case'[d] # NoCase
    BY <2>1 DEF CreateReport, TypeOK
  <2>2. ASSUME NEW c \in Case, AssignCase(c)
        PROVE  \A d \in Case : case[d] # NoCase => case'[d] # NoCase
    BY <2>2, RowTypes DEF AssignCase, TypeOK, CaseRow, NoCase
  <2>3. ASSUME NEW c \in Case, NEW next \in {"INVESTIGATING", "DISMISSED"},
               UpdateCaseStatus(c, next)
        PROVE  \A d \in Case : case[d] # NoCase => case'[d] # NoCase
    <3>1. case[c] \in CaseRow
      BY <2>3, RowTypes DEF UpdateCaseStatus, CaseMoves
    <3>2. [case[c] EXCEPT !.status = next, !.report = next] # NoCase
      BY <3>1 DEF CaseRow, NoCase
    <3> QED
      BY <2>3, <3>2 DEF UpdateCaseStatus, TypeOK
  <2>4. ASSUME NEW w \in Worker, NEW x \in Action, NEW e \in BOOLEAN, CreateAction(w, x, e)
        PROVE  \A d \in Case : case[d] # NoCase => case'[d] # NoCase
    <3> DEFINE c == request[w].case
    <3>1. c \in Case
      BY <2>4, NewRow
    <3>2. case[c] \in CaseRow
      BY <2>4, <3>1, RowTypes DEF CreateAction, HeldCases
    <3>3. [case[c] EXCEPT !.status = "ACTIONED", !.report = "ACTIONED"] # NoCase
      BY <3>2 DEF CaseRow, NoCase
    <3> QED
      BY <2>4, <3>1, <3>3 DEF CreateAction, TypeOK
  <2>5. ASSUME UNCHANGED case
        PROVE  \A d \in Case : case[d] # NoCase => case'[d] # NoCase
    BY <2>5
  <2> QED
    BY <2>1, <2>2, <2>3, <2>4, <2>5
       DEF Next, CaseStep, ActionStep, ReadVersion, Abandoned, ReadAction,
           CreateAppeal, DecideAppeal, ExpireActions, vars
<1>2. \A x \in Action : Taken(x)' => case'[action'[x].case] # NoCase
  <2>1. CASE RowsKept
    <3>1. \A x \in Action : Taken(x) => action[x].case \in Case
      BY RowTypes DEF ActionRow
    <3> QED
      BY <1>1, <2>1, <3>1 DEF RowsKept, KnownCases
  <2>2. ASSUME NEW w \in Worker, NEW x \in Action, NEW e \in BOOLEAN, CreateAction(w, x, e)
        PROVE  \A y \in Action : Taken(y)' => case'[action'[y].case] # NoCase
    <3>1. request[w].case \in Case /\ case[request[w].case] # NoCase
      BY <2>2, NewRow, RowTypes DEF CreateAction, HeldCases
    <3>2. action'[x].case = request[w].case
      BY <2>2, NewRow
    <3>3. \A y \in Action : y # x => action'[y] = action[y] /\ (Taken(y)' <=> Taken(y))
      BY <2>2, NewRow
    <3>4. \A y \in Action : Taken(y) => action[y].case \in Case
      BY RowTypes DEF ActionRow
    <3> QED
      BY <1>1, <3>1, <3>2, <3>3, <3>4 DEF KnownCases
  <2> QED
    BY <2>1, <2>2, RowsStep
<1>3. \A c \in dismissed' : c \in Case /\ case'[c] # NoCase
  <2>1. ASSUME NEW c \in Case, NEW next \in {"INVESTIGATING", "DISMISSED"},
               UpdateCaseStatus(c, next)
        PROVE  dismissed' \subseteq dismissed \cup {c} /\ case[c] # NoCase
    BY <2>1, RowTypes DEF UpdateCaseStatus, CaseMoves
  <2>2. ASSUME UNCHANGED dismissed
        PROVE  \A c \in dismissed' : c \in Case /\ case'[c] # NoCase
    BY <1>1, <2>2 DEF KnownCases, TypeOK
  <2>3. ASSUME NEW c \in Case, NEW next \in {"INVESTIGATING", "DISMISSED"},
               UpdateCaseStatus(c, next)
        PROVE  \A d \in dismissed' : d \in Case /\ case'[d] # NoCase
    BY <1>1, <2>1, <2>3 DEF KnownCases, TypeOK
  <2> QED
    BY <2>2, <2>3
       DEF Next, CaseStep, ActionStep, CreateReport, AssignCase, ReadVersion,
           CreateAction, Abandoned, ReadAction, CreateAppeal, DecideAppeal,
           ExpireActions, vars
<1> QED
  BY <1>2, <1>3 DEF KnownCases

LEMMA HeldStep == ModerationInv /\ [Next]_vars => HeldCases'
<1> SUFFICES ASSUME ModerationInv, [Next]_vars,
                    NEW w \in Worker, request'[w].op = "act"
             PROVE  case'[request'[w].case].status \in {"INVESTIGATING", "ACTIONED"}
  BY DEF HeldCases
<1> USE DEF ModerationInv
<1>1. ASSUME NEW c \in Case, NEW k \in Content, CreateReport(c, k)
      PROVE  case'[request'[w].case].status \in {"INVESTIGATING", "ACTIONED"}
  <2>1. request[w].op = "act" /\ request[w].case \in Case
    BY <1>1, Shapes DEF CreateReport
  <2>2. case[request[w].case].status \in {"INVESTIGATING", "ACTIONED"}
    BY <2>1 DEF HeldCases
  <2> QED
    BY <1>1, <2>1, <2>2, RowTypes DEF CreateReport, TypeOK
<1>2. ASSUME NEW c \in Case, AssignCase(c)
      PROVE  case'[request'[w].case].status \in {"INVESTIGATING", "ACTIONED"}
  <2>1. request[w].op = "act" /\ request[w].case \in Case /\ request[w].case # c
    BY <1>2, Shapes DEF AssignCase, CaseLocked
  <2> QED
    BY <1>2, <2>1 DEF AssignCase, TypeOK, HeldCases
<1>3. ASSUME NEW c \in Case, NEW next \in {"INVESTIGATING", "DISMISSED"},
             UpdateCaseStatus(c, next)
      PROVE  case'[request'[w].case].status \in {"INVESTIGATING", "ACTIONED"}
  <2>1. request[w].op = "act" /\ request[w].case \in Case /\ request[w].case # c
    BY <1>3, Shapes DEF UpdateCaseStatus, CaseLocked, MayMove
  <2> QED
    BY <1>3, <2>1 DEF UpdateCaseStatus, TypeOK, HeldCases
<1>4. ASSUME NEW v \in Worker, NEW c \in Case, NEW t \in Target, ReadVersion(v, c, t)
      PROVE  case'[request'[w].case].status \in {"INVESTIGATING", "ACTIONED"}
  <2>1. PICK u : request' = [request EXCEPT ![v] =
                    [op |-> "act", case |-> c, target |-> t, version |-> u]]
    BY <1>4 DEF ReadVersion, Goes
  <2>2. CASE w = v
    BY <1>4, <2>1, <2>2 DEF ReadVersion, TypeOK
  <2>3. CASE w # v
    BY <1>4, <2>1, <2>3 DEF ReadVersion, TypeOK, HeldCases
  <2> QED
    BY <2>2, <2>3
<1>5. ASSUME NEW v \in Worker, NEW x \in Action, NEW e \in BOOLEAN, CreateAction(v, x, e)
      PROVE  case'[request'[w].case].status \in {"INVESTIGATING", "ACTIONED"}
  <2>1. w # v /\ request'[w] = request[w]
    BY <1>5 DEF CreateAction, Goes, Idle, TypeOK
  <2>2. request[w].case \in Case /\ request[v].case \in Case
    BY <1>5, <2>1, Shapes DEF CreateAction
  <2>3. case[request[w].case].status \in {"INVESTIGATING", "ACTIONED"}
    BY <2>1 DEF HeldCases
  <2>4. CASE request[w].case = request[v].case
    <3>1. case[request[v].case] \in CaseRow
      BY <2>2, <2>3, <2>4, RowTypes
    <3>2. [case[request[v].case] EXCEPT !.status = "ACTIONED",
                                        !.report = "ACTIONED"].status = "ACTIONED"
      BY <3>1 DEF CaseRow
    <3> QED
      BY <1>5, <2>1, <2>2, <2>4, <3>2 DEF CreateAction, TypeOK
  <2>5. CASE request[w].case # request[v].case
    BY <1>5, <2>1, <2>2, <2>3, <2>5 DEF CreateAction, TypeOK
  <2> QED
    BY <2>4, <2>5
<1>6. ASSUME UNCHANGED case, request'[w] = request[w]
      PROVE  case'[request'[w].case].status \in {"INVESTIGATING", "ACTIONED"}
  BY <1>6 DEF HeldCases
<1>7. ASSUME NEW v \in Worker, NEW r, Goes(v, r), r.op # "act"
      PROVE  request'[w] = request[w]
  BY <1>7 DEF Goes, TypeOK
<1>8. Idle.op # "act" /\ \A x : [op |-> "appeal", action |-> x].op # "act"
  BY DEF Idle
<1>9. ASSUME NEW v \in Worker, Abandoned(v) \/ CreateAppeal(v) \/ \E x \in Action : ReadAction(v, x)
      PROVE  UNCHANGED case /\ request'[w] = request[w]
  BY <1>7, <1>8, <1>9 DEF Abandoned, CreateAppeal, ReadAction
<1> QED
  BY <1>1, <1>2, <1>3, <1>4, <1>5, <1>6, <1>9
     DEF Next, CaseStep, ActionStep, DecideAppeal, ExpireActions, vars

(* A request to act that is there after a step was there, or read its      *)
(* version in it.                                                          *)
LEMMA ActingRequests ==
    ASSUME ModerationInv, [Next]_vars, NEW w \in Worker, request'[w].op = "act"
    PROVE  \/ request'[w] = request[w]
           \/ /\ RowsKept
              /\ request'[w].target \in Target
              /\ request'[w].version \in Nat \ {0}
              /\ Follows(request'[w].version, VersionsOf(request'[w].target))
<1> USE DEF ModerationInv
<1>1. ASSUME NEW v \in Worker, NEW c \in Case, NEW t \in Target, ReadVersion(v, c, t),
             request'[w] # request[w]
      PROVE  /\ RowsKept
             /\ request'[w].target \in Target
             /\ request'[w].version \in Nat \ {0}
             /\ Follows(request'[w].version, VersionsOf(request'[w].target))
  <2>1. PICK u \in 1..(Cardinality(Action) + 1) :
            /\ Follows(u, VersionsOf(t))
            /\ request' = [request EXCEPT ![v] =
                   [op |-> "act", case |-> c, target |-> t, version |-> u]]
    BY <1>1 DEF ReadVersion, Goes
  <2>2. u \in Nat \ {0}
    OBVIOUS
  <2>3. request'[w] = [op |-> "act", case |-> c, target |-> t, version |-> u]
    BY <1>1, <2>1 DEF TypeOK
  <2>4. RowsKept
    BY <1>1 DEF ReadVersion, RowsKept, Taken, InForce
  <2> QED
    BY <2>1, <2>2, <2>3, <2>4
<1>2. ASSUME NEW v \in Worker, NEW r, Goes(v, r), r.op # "act"
      PROVE  request'[w] = request[w]
  BY <1>2 DEF Goes, TypeOK
<1>3. Idle.op # "act" /\ \A x : [op |-> "appeal", action |-> x].op # "act"
  BY DEF Idle
<1>4. ASSUME NEW v \in Worker,
             \/ Abandoned(v) \/ CreateAppeal(v)
             \/ \E x \in Action : ReadAction(v, x)
             \/ \E x \in Action, e \in BOOLEAN : CreateAction(v, x, e)
      PROVE  request'[w] = request[w]
  BY <1>2, <1>3, <1>4 DEF Abandoned, CreateAppeal, ReadAction, CreateAction
<1> QED
  BY <1>1, <1>4
     DEF Next, CaseStep, ActionStep, CreateReport, AssignCase, UpdateCaseStatus,
         DecideAppeal, ExpireActions, vars

(* The versions of a target are positive. *)
LEMMA VersionTypes ==
    ASSUME TypeOK, NEW t
    PROVE  VersionsOf(t) \subseteq Nat \ {0}
BY RowTypes DEF VersionsOf, ActionsOn, ActionRow

LEMMA VersionsStep == ModerationInv /\ [Next]_vars => NextVersions'
<1> SUFFICES ASSUME ModerationInv, [Next]_vars,
                    NEW w \in Worker, request'[w].op = "act",
                    NEW t, t = request'[w].target, NEW v, v = request'[w].version
             PROVE  /\ v = 1 \/ v - 1 \in VersionsOf(t)'
                    /\ v \notin VersionsOf(t)' => \A u \in VersionsOf(t)' : u < v
  BY DEF NextVersions, VersionsOf, ActionsOn, Taken
<1>1. VersionsOf(t) \subseteq Nat \ {0}
  BY VersionTypes DEF ModerationInv
<1>2. CASE request'[w] = request[w]
  <2>1. /\ t \in Target /\ v \in Nat \ {0}
        /\ v = 1 \/ v - 1 \in VersionsOf(t)
        /\ v \notin VersionsOf(t) => \A u \in VersionsOf(t) : u < v
    BY <1>2, Shapes DEF NextVersions, ModerationInv
  <2>2. CASE RowsKept
    BY <2>1, <2>2, VersionsKept
  <2>3. ASSUME NEW w2 \in Worker, NEW x \in Action, NEW e \in BOOLEAN,
               CreateAction(w2, x, e)
        PROVE  /\ v = 1 \/ v - 1 \in VersionsOf(t)'
               /\ v \notin VersionsOf(t)' => \A u \in VersionsOf(t)' : u < v
    <3>1. CASE t # request[w2].target
      BY <2>1, <2>3, <3>1, NewRow
    <3>2. CASE t = request[w2].target
      <4> DEFINE n == request[w2].version
      <4>1. VersionsOf(t)' = VersionsOf(t) \cup {n} /\ n \in Nat \ {0}
        BY <2>1, <2>3, <3>2, NewRow
      <4>2. n = 1 \/ n - 1 \in VersionsOf(t)
        BY <2>3, <3>2 DEF CreateAction, NextVersions, ModerationInv
      <4> HIDE DEF n
      <4>3. ASSUME v \notin VersionsOf(t)' PROVE n < v
        <5>1. v # n /\ \A u \in VersionsOf(t) : u < v
          BY <2>1, <4>1, <4>3
        <5>2. CASE n = 1
          BY <2>1, <5>1, <5>2
        <5>3. CASE n - 1 \in VersionsOf(t)
          <6>1. n - 1 < v
            BY <5>1, <5>3
          <6> QED
            BY <2>1, <4>1, <5>1, <6>1
        <5> QED
          BY <4>2, <5>2, <5>3
      <4> QED
        BY <2>1, <4>1, <4>3
    <3> QED
      BY <3>1, <3>2
  <2> QED
    BY <2>2, <2>3, RowsStep
<1>3. CASE /\ RowsKept
           /\ t \in Target
           /\ v \in Nat \ {0}
           /\ Follows(v, VersionsOf(t))
  BY <1>3, VersionsKept DEF Follows
<1> QED
  BY <1>2, <1>3, ActingRequests

LEMMA NewestStep == ModerationInv /\ [Next]_vars => NewestIsInForce'
<1> SUFFICES ASSUME ModerationInv, [Next]_vars PROVE NewestIsInForce'
  OBVIOUS
<1>1. CASE RowsKept
  BY <1>1 DEF ModerationInv, NewestIsInForce, RowsKept
<1>2. ASSUME NEW w \in Worker, NEW x \in Action, NEW e \in BOOLEAN, CreateAction(w, x, e)
      PROVE  NewestIsInForce'
  <2> DEFINE t == request[w].target
             v == request[w].version
  <2>1. /\ Taken(x)' /\ ~Taken(x) /\ action'[x].target = t /\ action'[x].version = v
        /\ v \in Nat \ {0}
    BY <1>2, NewRow
  <2>2. ASSUME NEW y \in Action, y # x
        PROVE  /\ action'[y] = action[y]
               /\ Taken(y)' <=> Taken(y)
               /\ InForce(y)' <=> InForce(y)
    BY <1>2, <2>2, NewRow
  <2>3. ASSUME NEW y \in Action, Taken(y), action[y].target = t
        PROVE  action[y].version < v /\ ~InForce(y) /\ y # x
    <3>1. y \in ActionsOn(t) /\ action[y].version \in VersionsOf(t)
      BY <2>3 DEF ActionsOn, VersionsOf
    <3>2. v \notin VersionsOf(t) /\ ~InForce(y)
      BY <1>2, <3>1 DEF CreateAction, Unique
    <3> QED
      BY <1>2, <2>1, <2>3, <3>1, <3>2 DEF CreateAction, NextVersions, ModerationInv
  <2>4. v = 1 \/ \E z \in Action : Taken(z) /\ action[z].target = t
                                  /\ action[z].version = v - 1
    <3>1. v = 1 \/ v - 1 \in VersionsOf(t)
      BY <1>2 DEF CreateAction, NextVersions, ModerationInv
    <3> QED
      BY <3>1 DEF VersionsOf, ActionsOn
  <2>5. \A y \in Action : Taken(y) => action[y].version \in Nat
    BY RowTypes DEF ActionRow, ModerationInv
  <2> HIDE DEF t, v
  <2> SUFFICES ASSUME NEW y \in Action, NEW z \in Action, Taken(y)', Taken(z)',
                      action'[y].target = action'[z].target
               PROVE  /\ action'[y].version = action'[z].version => y = z
                      /\ InForce(y)' => action'[z].version <= action'[y].version
                      /\ \/ action'[y].version = 1
                         \/ \E u \in Action :
                               /\ Taken(u)'
                               /\ action'[u].target = action'[y].target
                               /\ action'[u].version = action'[y].version - 1
    BY DEF NewestIsInForce
  <2>6. CASE y = x
    <3>1. z # x => action'[z].version < v
      BY <2>1, <2>2, <2>3, <2>6
    <3>2. v = 1 \/ \E u \in Action : Taken(u)' /\ action'[u].target = t
                                    /\ action'[u].version = v - 1
      BY <2>1, <2>2, <2>4
    <3>3. z # x => action'[z].version \in Nat
      BY <2>2, <2>5
    <3> QED
      BY <2>1, <2>6, <3>1, <3>2, <3>3
  <2>7. CASE y # x
    <3>1. Taken(y) /\ action'[y] = action[y] /\ (InForce(y)' <=> InForce(y))
      BY <2>2, <2>7
    <3>2. \/ action[y].version = 1
          \/ \E u \in Action : /\ Taken(u)
                              /\ action[u].target = action[y].target
                              /\ action[u].version = action[y].version - 1
      BY <3>1 DEF NewestIsInForce, ModerationInv
    <3>3. \/ action'[y].version = 1
          \/ \E u \in Action : /\ Taken(u)'
                              /\ action'[u].target = action'[y].target
                              /\ action'[u].version = action'[y].version - 1
      BY <2>1, <2>2, <3>1, <3>2
    <3>4. CASE z = x
      <4>1. action[y].version < v /\ ~InForce(y)
        BY <2>1, <2>3, <3>1, <3>4
      <4> QED
        BY <2>1, <2>5, <2>7, <3>1, <3>3, <3>4, <4>1
    <3>5. CASE z # x
      <4>1. Taken(z) /\ action'[z] = action[z]
        BY <2>2, <3>5
      <4> QED
        BY <3>1, <3>3, <4>1 DEF NewestIsInForce, ModerationInv
    <3> QED
      BY <3>4, <3>5
  <2> QED
    BY <2>6, <2>7
<1> QED
  BY <1>1, <1>2, RowsStep

LEMMA AppealsStep == ModerationInv /\ [Next]_vars => SoundAppeals'
<1> SUFFICES ASSUME ModerationInv, [Next]_vars PROVE SoundAppeals'
  OBVIOUS
<1> USE DEF ModerationInv
<1>1. \A x \in Action : Taken(x) => Taken(x)'
  BY RowsStep, NewRow DEF RowsKept
<1>2. ASSUME NEW w \in Worker, request'[w].op = "appeal"
      PROVE  Taken(request[w].action)'
  <2>1. CASE request'[w] = request[w]
    <3>1. request[w].action \in Action /\ Taken(request[w].action)
      BY <1>2, <2>1, Shapes DEF SoundAppeals
    <3>2. \A x \in Action : Taken(x) => action'[x] # NoAction
      BY <1>1 DEF Taken
    <3> QED
      BY <2>1, <3>1, <3>2 DEF Taken
  <2>2. CASE request'[w] # request[w]
    <3>1. ASSUME NEW v \in Worker, NEW r, Goes(v, r)
          PROVE  request'[w] = r
      BY <2>2, <3>1 DEF Goes, TypeOK
    <3>2. Idle.op # "appeal"
      BY DEF Idle
    <3>3. \A c, t, u : [op |-> "act", case |-> c, target |-> t, version |-> u].op # "appeal"
      OBVIOUS
    <3>4. ~ \E v \in Worker : Abandoned(v) \/ CreateAppeal(v)
      BY <1>2, <3>1, <3>2 DEF Abandoned, CreateAppeal
    <3>5. ~ \E v \in Worker, x \in Action, e \in BOOLEAN : CreateAction(v, x, e)
      BY <1>2, <3>1, <3>2 DEF CreateAction
    <3>6. ~ \E v \in Worker, c \in Case, t \in Target : ReadVersion(v, c, t)
      BY <1>2, <3>1, <3>3 DEF ReadVersion
    <3>7. PICK v \in Worker, x \in Action : ReadAction(v, x)
      BY <2>2, <3>4, <3>5, <3>6
         DEF Next, CaseStep, ActionStep, CreateReport, AssignCase, UpdateCaseStatus,
             DecideAppeal, ExpireActions, vars
    <3>8. request'[w].action = x
      BY <3>1, <3>7 DEF ReadAction
    <3>9. Taken(x) /\ UNCHANGED action
      BY <3>7, RowTypes DEF ReadAction
    <3> QED
      BY <3>8, <3>9 DEF Taken
  <2> QED
    BY <2>1, <2>2
<1>3. \A x \in Action : appeal'[x] # "NONE" => Taken(x)'
  <2>1. ASSUME NEW w \in Worker, CreateAppeal(w)
        PROVE  \A x \in Action : appeal'[x] # "NONE" => Taken(x)
    <3>1. request[w].action \in Action /\ Taken(request[w].action)
      BY <2>1, Shapes DEF CreateAppeal, SoundAppeals
    <3> QED
      BY <2>1, <3>1 DEF CreateAppeal, SoundAppeals, TypeOK
  <2>2. ASSUME NEW y \in Action, NEW d \in {"UPHELD", "REVERSED"}, DecideAppeal(y, d)
        PROVE  \A x \in Action : appeal'[x] # "NONE" => Taken(x)
    BY <2>2 DEF DecideAppeal, Pending, SoundAppeals, TypeOK
  <2>3. ASSUME UNCHANGED appeal
        PROVE  \A x \in Action : appeal'[x] # "NONE" => Taken(x)
    BY <2>3 DEF SoundAppeals
  <2>4. \A x \in Action : appeal'[x] # "NONE" => Taken(x)
    BY <2>1, <2>2, <2>3
       DEF Next, CaseStep, ActionStep, CreateReport, AssignCase, UpdateCaseStatus,
           ReadVersion, CreateAction, Abandoned, ReadAction, ExpireActions, vars
  <2> QED
    BY <1>1, <2>4
<1>4. \A x \in Action : action'[x].state = "REVERSED" => appeal'[x] = "REVERSED"
  <2>1. ASSUME NEW w \in Worker, NEW x \in Action, NEW e \in BOOLEAN, CreateAction(w, x, e)
        PROVE  \A y \in Action : action'[y].state = "REVERSED" => appeal'[y] = "REVERSED"
    <3>1. action'[x].state = "ACTIVE" /\ \A y \in Action : y # x => action'[y] = action[y]
      BY <2>1, NewRow
    <3> QED
      BY <2>1, <3>1 DEF CreateAction, SoundAppeals
  <2>2. ASSUME NEW w \in Worker, CreateAppeal(w)
        PROVE  \A y \in Action : action'[y].state = "REVERSED" => appeal'[y] = "REVERSED"
    <3>1. request[w].action \in Action
      BY <2>2, Shapes DEF CreateAppeal
    <3> QED
      BY <2>2, <3>1 DEF CreateAppeal, SoundAppeals, TypeOK
  <2>3. ASSUME NEW x \in Action, NEW d \in {"UPHELD", "REVERSED"}, DecideAppeal(x, d)
        PROVE  \A y \in Action : action'[y].state = "REVERSED" => appeal'[y] = "REVERSED"
    <3>1. \A y \in Action : y # x => action'[y] = action[y] /\ appeal'[y] = appeal[y]
      BY <2>3 DEF DecideAppeal, TypeOK
    <3>2. appeal'[x] = d /\ (d # "REVERSED" => action'[x] = action[x])
      BY <2>3 DEF DecideAppeal, TypeOK
    <3>3. d # "REVERSED" => action[x].state # "REVERSED"
      BY <2>3 DEF DecideAppeal, Pending, SoundAppeals
    <3> QED
      BY <3>1, <3>2, <3>3 DEF SoundAppeals
  <2>4. ASSUME NEW S \in SUBSET Action, ExpireActions(S)
        PROVE  \A y \in Action : action'[y].state = "REVERSED" => appeal'[y] = "REVERSED"
    <3>1. \A x \in S : action[x] \in ActionRow
      BY <2>4, RowTypes DEF ExpireActions, Due
    <3>2. \A x \in S : [action[x] EXCEPT !.state = "EXPIRED"].state = "EXPIRED"
      BY <3>1 DEF ActionRow
    <3>3. \A x \in Action : action'[x] = IF x \in S
                                           THEN [action[x] EXCEPT !.state = "EXPIRED"]
                                           ELSE action[x]
      BY <2>4 DEF ExpireActions
    <3>4. \A x \in Action : action'[x].state = "REVERSED" => action[x].state = "REVERSED"
      BY <3>2, <3>3
    <3> QED
      BY <2>4, <3>4 DEF ExpireActions, SoundAppeals
  <2>5. ASSUME UNCHANGED <<action, appeal>>
        PROVE  \A y \in Action : action'[y].state = "REVERSED" => appeal'[y] = "REVERSED"
    BY <2>5 DEF SoundAppeals
  <2> QED
    BY <2>1, <2>2, <2>3, <2>4, <2>5
       DEF Next, CaseStep, ActionStep, CreateReport, AssignCase, UpdateCaseStatus,
           ReadVersion, Abandoned, ReadAction, vars
<1>5. (\A w \in Worker : request[w].op = "appeal" => Taken(request[w].action))'
  BY <1>2 DEF Taken
<1> QED
  BY <1>3, <1>4, <1>5 DEF SoundAppeals

(* A case together with the actions it led to. *)
Led(c) == {x \in Action : Taken(x) /\ action[x].case = c}

Settled(c) ==
    /\ Led(c) # {} <=> case[c].status = "ACTIONED"
    /\ c \in dismissed <=> case[c].status = "DISMISSED"
    /\ case[c].report = (IF case[c].status = "TRIAGED" THEN "OPEN" ELSE case[c].status)

LEMMA SettledStep == ModerationInv /\ [Next]_vars => CasesAreSettled'
<1> SUFFICES ASSUME ModerationInv, [Next]_vars,
                    NEW c \in Case, case'[c] # NoCase
             PROVE  Settled(c)'
  BY DEF CasesAreSettled, Settled, Led
<1> USE DEF ModerationInv
<1>1. case[c] # NoCase => Settled(c) /\ case[c] \in CaseRow
  BY RowTypes DEF CasesAreSettled, Settled, Led
<1>2. ASSUME RowsKept
      PROVE  Led(c)' = Led(c)
  BY <1>2 DEF RowsKept, Led
<1>3. ASSUME UNCHANGED <<case, dismissed>>, RowsKept
      PROVE  Settled(c)'
  <2>1. Led(c)' = Led(c)
    BY <1>2, <1>3
  <2> QED
    BY <1>1, <1>3, <2>1 DEF Settled
<1>4. ASSUME UNCHANGED action
      PROVE  Led(c)' = Led(c)
  BY <1>4 DEF Led, Taken
<1>5. ASSUME NEW d \in Case, NEW k \in Content, CreateReport(d, k)
      PROVE  Settled(c)'
  <2>1. Led(c)' = Led(c) /\ dismissed' = dismissed
    BY <1>4, <1>5 DEF CreateReport
  <2>2. CASE c = d
    <3>1. Led(c) = {} /\ c \notin dismissed
      BY <1>5, <2>2 DEF CreateReport, KnownCases, Led
    <3>2. case'[c] = [status |-> "OPEN", report |-> "OPEN", content |-> k]
      BY <1>5, <2>2 DEF CreateReport, TypeOK
    <3> QED
      BY <2>1, <3>1, <3>2 DEF Settled
  <2>3. CASE c # d
    <3>1. case'[c] = case[c]
      BY <1>5, <2>3 DEF CreateReport, TypeOK
    <3> QED
      BY <1>1, <2>1, <3>1 DEF Settled
  <2> QED
    BY <2>2, <2>3
<1>6. ASSUME NEW d \in Case, AssignCase(d)
      PROVE  Settled(c)'
  <2>1. Led(c)' = Led(c) /\ dismissed' = dismissed
    BY <1>4, <1>6 DEF AssignCase
  <2>2. CASE c = d
    <3>1. case[c] # NoCase /\ case[c].status = "OPEN"
      BY <1>6, <2>2, RowTypes DEF AssignCase
    <3>2. case[c] \in CaseRow /\ case[c].report = "OPEN"
      BY <1>1, <3>1 DEF Settled
    <3>3. case'[c] = [case[c] EXCEPT !.status = "TRIAGED"]
      BY <1>6, <2>2 DEF AssignCase, TypeOK
    <3>4. case'[c].status = "TRIAGED" /\ case'[c].report = "OPEN"
      BY <3>2, <3>3 DEF CaseRow
    <3> QED
      BY <1>1, <2>1, <3>1, <3>4 DEF Settled
  <2>3. CASE c # d
    <3>1. case'[c] = case[c]
      BY <1>6, <2>3 DEF AssignCase, TypeOK
    <3> QED
      BY <1>1, <2>1, <3>1 DEF Settled
  <2> QED
    BY <2>2, <2>3
<1>7. ASSUME NEW d \in Case, NEW next \in {"INVESTIGATING", "DISMISSED"},
             UpdateCaseStatus(d, next)
      PROVE  Settled(c)'
  <2>1. Led(c)' = Led(c)
    BY <1>4, <1>7 DEF UpdateCaseStatus
  <2>2. CASE c = d
    <3>1. case[c] # NoCase /\ case[c].status \in {"TRIAGED", "INVESTIGATING"}
      BY <1>7, <2>2, RowTypes DEF UpdateCaseStatus, CaseMoves
    <3>2. case[c] \in CaseRow /\ Led(c) = {} /\ c \notin dismissed
      BY <1>1, <3>1 DEF Settled
    <3>3. case'[c] = [case[c] EXCEPT !.status = next, !.report = next]
      BY <1>7, <2>2 DEF UpdateCaseStatus, TypeOK
    <3>4. case'[c].status = next /\ case'[c].report = next
      BY <3>2, <3>3 DEF CaseRow
    <3>5. c \in dismissed' <=> next = "DISMISSED"
      BY <1>7, <2>2, <3>2 DEF UpdateCaseStatus
    <3> QED
      BY <2>1, <3>2, <3>4, <3>5 DEF Settled
  <2>3. CASE c # d
    <3>1. case'[c] = case[c] /\ (c \in dismissed' <=> c \in dismissed)
      BY <1>7, <2>3 DEF UpdateCaseStatus, TypeOK
    <3> QED
      BY <1>1, <2>1, <3>1 DEF Settled
  <2> QED
    BY <2>2, <2>3
<1>8. ASSUME NEW w \in Worker, NEW x \in Action, NEW e \in BOOLEAN, CreateAction(w, x, e)
      PROVE  Settled(c)'
  <2> DEFINE d == request[w].case
  <2>1. /\ d \in Case /\ Taken(x)' /\ action'[x].case = d
        /\ \A y \in Action : y # x => action'[y] = action[y] /\ (Taken(y)' <=> Taken(y))
    BY <1>8, NewRow
  <2>2. dismissed' = dismissed
    BY <1>8 DEF CreateAction
  <2>3. CASE c = d
    <3>1. case[c].status \in {"INVESTIGATING", "ACTIONED"}
      BY <1>8, <2>3 DEF CreateAction, HeldCases
    <3>2. case[c] \in CaseRow /\ case[c] # NoCase /\ c \notin dismissed
      BY <1>1, <3>1, RowTypes DEF Settled
    <3>3. case'[c] = [case[c] EXCEPT !.status = "ACTIONED", !.report = "ACTIONED"]
      BY <1>8, <2>1, <2>3 DEF CreateAction, TypeOK
    <3>4. case'[c].status = "ACTIONED" /\ case'[c].report = "ACTIONED"
      BY <3>2, <3>3 DEF CaseRow
    <3>5. x \in Led(c)'
      BY <2>1, <2>3 DEF Led
    <3> QED
      BY <2>2, <3>2, <3>4, <3>5 DEF Settled
  <2>4. CASE c # d
    <3>1. case'[c] = case[c]
      BY <1>8, <2>4 DEF CreateAction, TypeOK
    <3>2. ~Taken(x)
      BY <1>8, NewRow
    <3>3. Led(c)' = Led(c)
      BY <2>1, <2>4, <3>2 DEF Led
    <3> QED
      BY <1>1, <2>2, <3>1, <3>3 DEF Settled
  <2> QED
    BY <2>3, <2>4
<1>9. ASSUME UNCHANGED <<case, dismissed>>
      PROVE  Settled(c)'
  BY <1>3, <1>8, <1>9, RowsStep
<1> QED
  BY <1>5, <1>6, <1>7, <1>8, <1>9
     DEF Next, CaseStep, ActionStep, ReadVersion, Abandoned, ReadAction,
         CreateAppeal, DecideAppeal, ExpireActions, vars

-----------------------------------------------------------------------------
(* Initially, and always *)

LEMMA InvInit == Init => ModerationInv
<1> SUFFICES ASSUME Init PROVE ModerationInv
  OBVIOUS
<1>1. \A x \in Action : ~Taken(x) /\ ~InForce(x) /\ action[x].state = "NONE"
  BY DEF Init, Taken, InForce, NoAction
<1>2. \A w \in Worker : request[w].op = "idle"
  BY DEF Init, Idle
<1>3. TypeOK
  BY DEF Init, TypeOK
<1>4. KnownCases /\ HeldCases /\ NextVersions /\ CasesAreSettled /\ NewestIsInForce
  BY <1>1, <1>2 DEF Init, KnownCases, HeldCases, NextVersions, CasesAreSettled,
                    NewestIsInForce
<1>5. SoundAppeals
  BY <1>1, <1>2 DEF Init, SoundAppeals
<1> QED
  BY <1>3, <1>4, <1>5 DEF ModerationInv

LEMMA InvStep == ModerationInv /\ [Next]_vars => ModerationInv'
BY TypeStep, KnownStep, HeldStep, VersionsStep, AppealsStep, SettledStep, NewestStep
   DEF ModerationInv

LEMMA InvAlways == Spec => []ModerationInv
BY InvInit, InvStep, PTL DEF Spec

-----------------------------------------------------------------------------
(* What others are told of an action *)

Tells(x, f) == \E i \in DOMAIN facts[x] : facts[x][i] = f

(* What keeps a fact from being told twice: a fact about the appeal of an  *)
(* action, or about its end, leaves the row in a state that the step which *)
(* tells it does not start from.                                           *)
AppealsTold ==
    \A x \in Action :
        /\ Tells(x, "AppealSubmitted") => appeal[x] # "NONE"
        /\ Tells(x, "AppealUpheld") => appeal[x] = "UPHELD"
        /\ Tells(x, "ModerationActionReversed") => appeal[x] = "REVERSED"
        /\ Tells(x, "ModerationActionExpired") => ~InForce(x)

FactsInv == FactsTellActions /\ AppealsTold

(* What a step does to an action and to the facts about it: nothing, or it *)
(* goes from one state to another and says so.                             *)
Silent(x) ==
    /\ facts'[x] = facts[x] /\ appeal'[x] = appeal[x]
    /\ action'[x] = action[x]

Says(x, f) == facts'[x] = Append(facts[x], f)

Applied(x) ==
    /\ ~Taken(x) /\ Taken(x)' /\ action'[x].state = "ACTIVE"
    /\ appeal'[x] = appeal[x] /\ Says(x, "ModerationActionApplied")

Submitted(x) ==
    /\ Taken(x) /\ action'[x] = action[x]
    /\ appeal[x] = "NONE" /\ appeal'[x] = "APPEALED" /\ Says(x, "AppealSubmitted")

Upheld(x) ==
    /\ Taken(x) /\ action'[x] = action[x]
    /\ appeal[x] = "APPEALED" /\ appeal'[x] = "UPHELD" /\ Says(x, "AppealUpheld")

Reversed(x) ==
    /\ Taken(x) /\ Taken(x)' /\ action'[x].state = "REVERSED"
    /\ appeal[x] = "APPEALED" /\ appeal'[x] = "REVERSED"
    /\ Says(x, "ModerationActionReversed")

Expired(x) ==
    /\ InForce(x) /\ Taken(x) /\ Taken(x)' /\ action'[x].state = "EXPIRED"
    /\ appeal'[x] = appeal[x] /\ Says(x, "ModerationActionExpired")

LEMMA FactSteps ==
    ASSUME ModerationInv, [Next]_vars, NEW x \in Action
    PROVE  Silent(x) \/ Applied(x) \/ Submitted(x) \/ Upheld(x) \/ Reversed(x) \/ Expired(x)
<1> USE DEF ModerationInv
<1>1. ASSUME UNCHANGED <<action, appeal, facts>>
      PROVE  Silent(x)
  BY <1>1 DEF Silent
<1>2. ASSUME NEW w \in Worker, NEW y \in Action, NEW e \in BOOLEAN, CreateAction(w, y, e)
      PROVE  Silent(x) \/ Applied(x)
  <2>1. CASE x = y
    <3>1. ~Taken(x) /\ Taken(x)' /\ action'[x].state = "ACTIVE"
      BY <1>2, <2>1, NewRow
    <3>2. appeal' = appeal /\ Says(x, "ModerationActionApplied")
      BY <1>2, <2>1 DEF CreateAction, TypeOK, Says
    <3> QED
      BY <3>1, <3>2 DEF Applied
  <2>2. CASE x # y
    BY <1>2, <2>2, NewRow DEF CreateAction, TypeOK, Silent
  <2> QED
    BY <2>1, <2>2
<1>3. ASSUME NEW w \in Worker, CreateAppeal(w)
      PROVE  Silent(x) \/ Submitted(x)
  <2>1. request[w].action \in Action /\ Taken(request[w].action)
    BY <1>3, Shapes DEF CreateAppeal, SoundAppeals
  <2>2. CASE x = request[w].action
    <3>1. Taken(x) /\ action' = action
      BY <1>3, <2>1, <2>2 DEF CreateAppeal
    <3>2. appeal[x] = "NONE" /\ appeal'[x] = "APPEALED"
      BY <1>3, <2>1, <2>2 DEF CreateAppeal, TypeOK
    <3>3. Says(x, "AppealSubmitted")
      BY <1>3, <2>1, <2>2 DEF CreateAppeal, TypeOK, Says
    <3> QED
      BY <3>1, <3>2, <3>3 DEF Submitted
  <2>3. CASE x # request[w].action
    BY <1>3, <2>1, <2>3 DEF CreateAppeal, TypeOK, Silent
  <2> QED
    BY <2>2, <2>3
<1>4. ASSUME NEW y \in Action, NEW d \in {"UPHELD", "REVERSED"}, DecideAppeal(y, d)
      PROVE  Silent(x) \/ Upheld(x) \/ Reversed(x)
  <2>1. CASE x # y
    BY <1>4, <2>1 DEF DecideAppeal, TypeOK, Silent
  <2>2. CASE x = y
    <3>1. Taken(x) /\ Taken(x)'
      BY <1>4, <2>2, DecisionKeepsRows DEF DecideAppeal, Pending, SoundAppeals, RowsKept
    <3>2. appeal[x] = "APPEALED" /\ appeal'[x] = d
      BY <1>4, <2>2 DEF DecideAppeal, Pending, TypeOK
    <3>3. CASE d = "UPHELD"
      <4>1. action' = action /\ Says(x, "AppealUpheld")
        BY <1>4, <2>2, <3>3 DEF DecideAppeal, TypeOK, Says
      <4> QED
        BY <3>1, <3>2, <3>3, <4>1 DEF Upheld
    <3>4. CASE d = "REVERSED"
      <4>1. action'[x] = [action[x] EXCEPT !.state = "REVERSED"]
        BY <1>4, <2>2, <3>4 DEF DecideAppeal, TypeOK
      <4>2. action[x] \in ActionRow
        BY <3>1, RowTypes
      <4>3. action'[x].state = "REVERSED"
        BY <4>1, <4>2 DEF ActionRow
      <4>4. Says(x, "ModerationActionReversed")
        BY <1>4, <2>2, <3>4 DEF DecideAppeal, TypeOK, Says
      <4> QED
        BY <3>1, <3>2, <3>4, <4>3, <4>4 DEF Reversed
    <3> QED
      BY <3>3, <3>4
  <2> QED
    BY <2>1, <2>2
<1>5. ASSUME NEW S \in SUBSET Action, ExpireActions(S)
      PROVE  Silent(x) \/ Expired(x)
  <2>1. CASE x \notin S
    BY <1>5, <2>1 DEF ExpireActions, Silent
  <2>2. CASE x \in S
    <3>1. InForce(x) /\ Taken(x) /\ Taken(x)'
      BY <1>5, <2>2, ExpiryKeepsRows, RowTypes DEF ExpireActions, Due, RowsKept
    <3>2. action'[x] = [action[x] EXCEPT !.state = "EXPIRED"]
      BY <1>5, <2>2 DEF ExpireActions
    <3>3. action[x] \in ActionRow
      BY <3>1, RowTypes
    <3>4. action'[x].state = "EXPIRED"
      BY <3>2, <3>3 DEF ActionRow
    <3>5. appeal' = appeal /\ Says(x, "ModerationActionExpired")
      BY <1>5, <2>2 DEF ExpireActions, Says
    <3> QED
      BY <3>1, <3>4, <3>5 DEF Expired
  <2> QED
    BY <2>1, <2>2
<1> QED
  BY <1>1, <1>2, <1>3, <1>4, <1>5
     DEF Next, CaseStep, ActionStep, CreateReport, AssignCase, UpdateCaseStatus,
         ReadVersion, Abandoned, ReadAction, vars

(* One more fact, which was not told before, keeps what is told in order.  *)
LEMMA OneMoreFact ==
    ASSUME NEW s \in Seq(Fact), NEW f \in Fact,
           \A i, j \in DOMAIN s : s[i] = s[j] => i = j,
           \A i \in DOMAIN s : s[i] # f,
           NEW t, t = Append(s, f)
    PROVE  /\ t \in Seq(Fact) /\ DOMAIN t = DOMAIN s \cup {Len(s) + 1}
           /\ \A i \in DOMAIN s : t[i] = s[i] /\ i < Len(s) + 1
           /\ t[Len(s) + 1] = f
           /\ \A i, j \in DOMAIN t : t[i] = t[j] => i = j
           /\ s # <<>> => 1 \in DOMAIN s
<1>1. t \in Seq(Fact) /\ Len(t) = Len(s) + 1 /\ t[Len(s) + 1] = f
  OBVIOUS
<1>2. DOMAIN t = 1..(Len(s) + 1) /\ DOMAIN s = 1..Len(s) /\ Len(s) \in Nat
  BY <1>1
<1>3. \A i \in DOMAIN s : t[i] = s[i] /\ i < Len(s) + 1
  BY <1>2
<1>4. DOMAIN t = DOMAIN s \cup {Len(s) + 1}
  BY <1>2
<1>5. s # <<>> => 1 \in DOMAIN s
  BY <1>2
<1> QED
  BY <1>1, <1>3, <1>4, <1>5

LEMMA FactsInit == Init => FactsInv
<1> SUFFICES ASSUME Init PROVE FactsInv
  OBVIOUS
<1>1. \A x \in Action : facts[x] = <<>> /\ ~Taken(x)
  BY DEF Init, Taken
<1> QED
  BY <1>1 DEF FactsInv, FactsTellActions, AppealsTold, Tells

LEMMA FactsStep == ModerationInv /\ FactsInv /\ [Next]_vars => FactsInv'
<1> SUFFICES ASSUME ModerationInv, FactsInv, [Next]_vars,
                    NEW x \in Action
             PROVE  /\ IF ~Taken(x)' THEN facts'[x] = <<>>
                       ELSE /\ facts'[x][1] = "ModerationActionApplied"
                            /\ \E i \in DOMAIN facts'[x] :
                                  /\ Moving(facts'[x][i])
                                  /\ StateTold(facts'[x][i]) = action'[x].state
                                  /\ \A j \in DOMAIN facts'[x] :
                                        j > i => ~Moving(facts'[x][j])
                            /\ \A i, j \in DOMAIN facts'[x] :
                                  facts'[x][i] = facts'[x][j] => i = j
                            /\ ~(/\ \E i \in DOMAIN facts'[x] :
                                       facts'[x][i] = "AppealUpheld"
                                 /\ \E i \in DOMAIN facts'[x] :
                                       facts'[x][i] = "ModerationActionReversed")
                    /\ Tells(x, "AppealSubmitted")' => appeal'[x] # "NONE"
                    /\ Tells(x, "AppealUpheld")' => appeal'[x] = "UPHELD"
                    /\ Tells(x, "ModerationActionReversed")' => appeal'[x] = "REVERSED"
                    /\ Tells(x, "ModerationActionExpired")' => ~InForce(x)'
  BY DEF FactsInv, FactsTellActions, AppealsTold
<1> DEFINE s == facts[x]
           n == Len(facts[x]) + 1
<1>1. s \in Seq(Fact) /\ (\A i, j \in DOMAIN s : s[i] = s[j] => i = j)
  BY DEF ModerationInv, TypeOK, FactsInv, FactsTellActions
<1>2. /\ Tells(x, "AppealSubmitted") => appeal[x] # "NONE"
      /\ Tells(x, "AppealUpheld") => appeal[x] = "UPHELD"
      /\ Tells(x, "ModerationActionReversed") => appeal[x] = "REVERSED"
      /\ Tells(x, "ModerationActionExpired") => ~InForce(x)
  BY DEF FactsInv, AppealsTold
<1>3. ~Taken(x) => s = <<>> /\ appeal[x] = "NONE"
  BY DEF FactsInv, FactsTellActions, ModerationInv, SoundAppeals
<1>4. Taken(x) => /\ s # <<>> /\ s[1] = "ModerationActionApplied"
                  /\ \E i \in DOMAIN s :
                        /\ Moving(s[i]) /\ StateTold(s[i]) = action[x].state
                        /\ \A j \in DOMAIN s : j > i => ~Moving(s[j])
  BY <1>1 DEF FactsInv, FactsTellActions
<1>5. ~(Tells(x, "AppealUpheld") /\ Tells(x, "ModerationActionReversed"))
  BY <1>2
<1>6. CASE Silent(x)
  BY <1>1, <1>2, <1>3, <1>4, <1>5, <1>6 DEF Silent, Taken, InForce, Tells
<1>7. ASSUME NEW f \in Fact, Says(x, f), \A i \in DOMAIN s : s[i] # f
      PROVE  /\ DOMAIN facts'[x] = DOMAIN s \cup {n}
             /\ \A i \in DOMAIN s : facts'[x][i] = s[i] /\ i < n
             /\ facts'[x][n] = f
             /\ \A i, j \in DOMAIN facts'[x] : facts'[x][i] = facts'[x][j] => i = j
             /\ s # <<>> => 1 \in DOMAIN s
  BY <1>1, <1>7, OneMoreFact DEF Says
<1> HIDE DEF n
<1>8. CASE Applied(x)
  <2>1. /\ DOMAIN facts'[x] = {1} /\ facts'[x][1] = "ModerationActionApplied"
    BY <1>3, <1>8 DEF Applied, Says
  <2> QED
    BY <1>3, <1>8, <2>1 DEF Applied, Tells, Moving, StateTold
<1>9. CASE Submitted(x)
  <2>1. "AppealSubmitted" \in Fact /\ \A i \in DOMAIN s : s[i] # "AppealSubmitted"
    BY <1>2, <1>9 DEF Submitted, Tells, Fact
  <2>2. Taken(x)' /\ (InForce(x)' <=> InForce(x))
    BY <1>9 DEF Submitted, Taken, InForce
  <2> QED
    BY <1>2, <1>4, <1>7, <1>9, <2>1, <2>2 DEF Submitted, Tells, Moving
<1>10. CASE Upheld(x)
  <2>1. "AppealUpheld" \in Fact /\ \A i \in DOMAIN s : s[i] # "AppealUpheld"
    BY <1>2, <1>10 DEF Upheld, Tells, Fact
  <2>2. Taken(x)' /\ (InForce(x)' <=> InForce(x))
    BY <1>10 DEF Upheld, Taken, InForce
  <2> QED
    BY <1>2, <1>4, <1>7, <1>10, <2>1, <2>2 DEF Upheld, Tells, Moving
<1>11. CASE Reversed(x)
  <2>1. /\ "ModerationActionReversed" \in Fact
        /\ \A i \in DOMAIN s : s[i] # "ModerationActionReversed"
    BY <1>2, <1>11 DEF Reversed, Tells, Fact
  <2>2. ~InForce(x)'
    BY <1>11 DEF Reversed, InForce
  <2>3. /\ facts'[x][1] = "ModerationActionApplied"
        /\ facts'[x][n] = "ModerationActionReversed" /\ n \in DOMAIN facts'[x]
        /\ \A j \in DOMAIN facts'[x] : ~(j > n)
    <3>1. 1 \in DOMAIN s /\ s[1] = "ModerationActionApplied"
      BY <1>4, <1>7, <1>11, <2>1 DEF Reversed
    <3>2. n \in Nat
      BY <1>1 DEF n
    <3>3. \A j \in DOMAIN s : j \in Nat
      BY <1>1
    <3> QED
      BY <1>7, <1>11, <2>1, <3>1, <3>2, <3>3 DEF Reversed
  <2>4. \E i \in DOMAIN facts'[x] :
           /\ Moving(facts'[x][i]) /\ StateTold(facts'[x][i]) = action'[x].state
           /\ \A j \in DOMAIN facts'[x] : j > i => ~Moving(facts'[x][j])
    BY <1>11, <2>3 DEF Reversed, Moving, StateTold
  <2>5. \A f \in Fact : Tells(x, f)' => Tells(x, f) \/ f = "ModerationActionReversed"
    BY <1>7, <1>11, <2>1 DEF Reversed, Tells
  <2>6. /\ Tells(x, "AppealSubmitted")' => appeal'[x] # "NONE"
        /\ Tells(x, "AppealUpheld")' => appeal'[x] = "UPHELD"
        /\ Tells(x, "ModerationActionReversed")' => appeal'[x] = "REVERSED"
    BY <1>2, <1>11, <2>5 DEF Reversed, Fact
  <2>7. ~(Tells(x, "AppealUpheld")' /\ Tells(x, "ModerationActionReversed")')
    BY <2>6
  <2>8. \A i, j \in DOMAIN facts'[x] : facts'[x][i] = facts'[x][j] => i = j
    BY <1>7, <1>11, <2>1 DEF Reversed
  <2> QED
    BY <1>11, <2>2, <2>3, <2>4, <2>6, <2>7, <2>8 DEF Reversed, Tells
<1>12. CASE Expired(x)
  <2>1. /\ "ModerationActionExpired" \in Fact
        /\ \A i \in DOMAIN s : s[i] # "ModerationActionExpired"
    BY <1>2, <1>12 DEF Expired, Tells, Fact
  <2>2. ~InForce(x)'
    BY <1>12 DEF Expired, InForce
  <2>3. /\ facts'[x][1] = "ModerationActionApplied"
        /\ facts'[x][n] = "ModerationActionExpired" /\ n \in DOMAIN facts'[x]
        /\ \A j \in DOMAIN facts'[x] : ~(j > n)
    <3>1. 1 \in DOMAIN s /\ s[1] = "ModerationActionApplied"
      BY <1>4, <1>7, <1>12, <2>1 DEF Expired
    <3>2. n \in Nat
      BY <1>1 DEF n
    <3>3. \A j \in DOMAIN s : j \in Nat
      BY <1>1
    <3> QED
      BY <1>7, <1>12, <2>1, <3>1, <3>2, <3>3 DEF Expired
  <2>4. \E i \in DOMAIN facts'[x] :
           /\ Moving(facts'[x][i]) /\ StateTold(facts'[x][i]) = action'[x].state
           /\ \A j \in DOMAIN facts'[x] : j > i => ~Moving(facts'[x][j])
    BY <1>12, <2>3 DEF Expired, Moving, StateTold
  <2>5. \A f \in Fact : Tells(x, f)' => Tells(x, f) \/ f = "ModerationActionExpired"
    BY <1>7, <1>12, <2>1 DEF Expired, Tells
  <2>6. /\ Tells(x, "AppealSubmitted")' => appeal'[x] # "NONE"
        /\ Tells(x, "AppealUpheld")' => appeal'[x] = "UPHELD"
        /\ Tells(x, "ModerationActionReversed")' => appeal'[x] = "REVERSED"
    BY <1>2, <1>12, <2>5 DEF Expired, Fact
  <2>7. ~(Tells(x, "AppealUpheld")' /\ Tells(x, "ModerationActionReversed")')
    BY <2>6
  <2>8. \A i, j \in DOMAIN facts'[x] : facts'[x][i] = facts'[x][j] => i = j
    BY <1>7, <1>12, <2>1 DEF Expired
  <2> QED
    BY <1>12, <2>2, <2>3, <2>4, <2>6, <2>7, <2>8 DEF Expired, Tells
<1> QED
  BY <1>6, <1>8, <1>9, <1>10, <1>11, <1>12, FactSteps

(* What others are told of an action.  Whoever appeals, decides and lets   *)
(* actions expire at once, the facts about an action start with its being  *)
(* applied, say nothing twice, and the last of them that moves it names    *)
(* the state it has.                                                       *)
THEOREM FactsAreTrue == Spec => []FactsTellActions
<1>1. Init => FactsInv
  BY FactsInit
<1>2. ModerationInv /\ FactsInv /\ [Next]_vars => FactsInv'
  BY FactsStep
<1>3. FactsInv => FactsTellActions
  BY DEF FactsInv
<1> QED
  BY <1>1, <1>2, <1>3, InvAlways, PTL DEF Spec

(* The tables keep their columns. *)
THEOREM TypeCorrect == Spec => []TypeOK
BY InvAlways, PTL DEF ModerationInv

(* Cases that are told dismissed led to nothing, those that are actioned   *)
(* led to an action, and the report of a case tells its status.            *)
THEOREM CasesSettle == Spec => []CasesAreSettled
BY InvAlways, PTL DEF ModerationInv

(* The actions on a target are numbered without a gap, and the one in      *)
(* force has the last number, whichever commands read versions meanwhile.  *)
THEOREM LastActionCounts == Spec => []NewestIsInForce
BY InvAlways, PTL DEF ModerationInv

(* An action that ended is not touched again, but for an appeal that was   *)
(* asked for before it expired and reverses it.                            *)
THEOREM HistoryStands == Spec => EndedIsOver
<1> DEFINE Over == \A x \in Action :
                Taken(x) /\ ~InForce(x) /\ action'[x] # action[x] =>
                    /\ action[x].state = "EXPIRED"
                    /\ action'[x] = [action[x] EXCEPT !.state = "REVERSED"]
                    /\ appeal[x] = "APPEALED" /\ appeal'[x] = "REVERSED"
<1>1. ASSUME ModerationInv, [Next]_vars PROVE Over
  <2> SUFFICES ASSUME NEW x \in Action, Taken(x), ~InForce(x), action'[x] # action[x]
               PROVE  /\ action[x].state = "EXPIRED"
                      /\ action'[x] = [action[x] EXCEPT !.state = "REVERSED"]
                      /\ appeal[x] = "APPEALED" /\ appeal'[x] = "REVERSED"
    OBVIOUS
  <2> USE <1>1 DEF ModerationInv
  <2>1. action[x].state \in {"EXPIRED", "REVERSED"}
    BY RowTypes DEF InForce, ActionRow
  <2>2. ~ \E w \in Worker, y \in Action, e \in BOOLEAN : CreateAction(w, y, e)
    BY NewRow
  <2>3. ~ \E S \in SUBSET Action : ExpireActions(S)
    BY DEF ExpireActions, Due
  <2>4. PICK y \in Action, d \in {"UPHELD", "REVERSED"} : DecideAppeal(y, d)
    BY <2>2, <2>3
       DEF Next, CaseStep, ActionStep, CreateReport, AssignCase, UpdateCaseStatus,
           ReadVersion, Abandoned, ReadAction, CreateAppeal, vars
  <2>5. y = x /\ d = "REVERSED"
    BY <2>4 DEF DecideAppeal, TypeOK
  <2>6. /\ appeal[x] = "APPEALED" /\ appeal'[x] = "REVERSED"
        /\ action'[x] = [action[x] EXCEPT !.state = "REVERSED"]
    BY <2>4, <2>5 DEF DecideAppeal, Pending, TypeOK
  <2> QED
    BY <2>1, <2>6 DEF SoundAppeals
<1>2. ModerationInv /\ [Next]_vars => [Over]_vars
  BY <1>1
<1> HIDE DEF Over
<1>3. Spec => [][Over]_vars
  BY <1>2, InvAlways, PTL DEF Spec
<1> QED
  BY <1>3 DEF Over, EndedIsOver
=============================================================================
