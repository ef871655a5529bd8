---------------------------- MODULE AccountSession ----------------------------
(***************************************************************************)
(* The account service: accounts, their profiles and blocks, and the       *)
(* sessions whose refresh tokens are rotated.  A refresh token is the name *)
(* of its session; a family is named by its first session.                 *)
(*                                                                         *)
(* Transactions run at READ COMMITTED.  Those that touch several sessions  *)
(* are two steps: a statement that locks and sees what is committed then,  *)
(* and the commit.  An UPDATE over sessions changes those it saw and not   *)
(* the ones inserted meanwhile, and waits for rows others have locked.     *)
(***************************************************************************)
EXTENDS Naturals, FiniteSets

CONSTANTS
    Account,
    Other,      \* members who only look at profiles here, and may be blocked
    Session,    \* the UUIDs of sessions the service may draw
    Worker      \* requests the service handles at once

VARIABLES
    account,    \* table account
    profile,    \* table profile
    blocks,     \* table member_block, the rows in force
    session,    \* table refresh_session
    request,    \* what each worker is doing, its open transaction included
    tokens,     \* access tokens handed out
    decided,    \* the decision in the last fact about a profile's approval
    late        \* history: sessions inserted past an UPDATE of their family

vars == <<account, profile, blocks, session, request, tokens, decided, late>>

-----------------------------------------------------------------------------
NoAccount == [status |-> "NONE"]
AccountRow == [status: {"ACTIVE", "DEACTIVATED"}, verified: BOOLEAN,
               tokenVersion: {1, 2}]

Visibility == {"PRIVATE", "COMMUNITY", "HIDDEN"}
ProfileRow == [visibility: Visibility, approval: {"PENDING", "APPROVED", "HIDDEN"}]

NoSession == [family |-> "NONE"]
SessionRow == [account: Account, family: Session, revoked: BOOLEAN, reused: BOOLEAN]

Token == [account: Account, tokenVersion: {1, 2}]

Idle == [op |-> "idle"]
Request ==
    [op: {"member"}, account: Account] \cup
    [op: {"login"}, account: Account, tokenVersion: {1, 2}] \cup
    [op: {"rotate"}, session: Session, next: Session] \cup
    [op: {"issue"}, account: Account] \cup
    [op: {"reuse"}, session: Session, rows: SUBSET Session] \cup
    [op: {"deactivate"}, account: Account, rows: SUBSET Session]

TypeOK ==
    /\ account \in [Account -> AccountRow \cup {NoAccount}]
    /\ profile \in [Account -> ProfileRow]
    /\ blocks \subseteq Account \X (Account \cup Other)
    /\ session \in [Session -> SessionRow \cup {NoSession}]
    /\ request \in [Worker -> Request \cup {Idle}]
    /\ tokens \subseteq Token
    /\ decided \in [Account -> {"PENDING", "APPROVED", "HIDDEN"}]
    /\ late \subseteq Session

-----------------------------------------------------------------------------
Active(a) == account[a].status = "ACTIVE"
Stored(s) == session[s] # NoSession
Live(s) == Stored(s) /\ ~session[s].revoked
SessionsOf(a) == {s \in Session : Stored(s) /\ session[s].account = a}
Family(s) == {t \in Session : Stored(t) /\ session[t].family = session[s].family}

(* An identifier not in the table, nor in an insert yet to be committed.   *)
Fresh(n) ==
    /\ ~Stored(n)
    /\ \A w \in Worker : request[w].op = "rotate" => request[w].next # n

(* Rows an open transaction of somebody else has locked.  The UPDATEs that *)
(* end a family or an account take their locks together, at their commit;  *)
(* two of them that wait for each other are a deadlock, which the database *)
(* resolves by Aborted.                                                    *)
LockedBy(x, s) ==
    request[x].op \in {"rotate", "reuse"} /\ request[x].session = s
LockedFor(w, s) == \E x \in Worker \ {w} : LockedBy(x, s)
AccountLocked(a) ==
    \E x \in Worker : request[x].op = "deactivate" /\ request[x].account = a

Free(w) == request[w] = Idle
Goes(w, r) == request' = [request EXCEPT ![w] = r]

Init ==
    /\ account = [a \in Account |-> NoAccount]
    /\ profile = [a \in Account |-> [visibility |-> "PRIVATE", approval |-> "PENDING"]]
    /\ blocks = {}
    /\ session = [s \in Session |-> NoSession]
    /\ request = [w \in Worker |-> Idle]
    /\ tokens = {}
    /\ decided = [a \in Account |-> "PENDING"]
    /\ late = {}

-----------------------------------------------------------------------------
(* POST /api/v1/auth/register and verify-email; the token of the e-mail is *)
(* consumed once and only while the account is active.                     *)
Register(a) ==
    /\ account[a] = NoAccount
    /\ account' = [account EXCEPT ![a] =
           [status |-> "ACTIVE", verified |-> FALSE, tokenVersion |-> 1]]
    /\ UNCHANGED <<profile, blocks, session, request, tokens, decided, late>>

VerifyEmail(a) ==
    /\ Active(a)
    /\ ~account[a].verified
    /\ ~AccountLocked(a)
    /\ account' = [account EXCEPT ![a].verified = TRUE]
    /\ UNCHANGED <<profile, blocks, session, request, tokens, decided, late>>

-----------------------------------------------------------------------------
(* POST /api/v1/auth/login: the account is read, by password or Google's   *)
(* answer, and then a session stored and an access token issued from what  *)
(* was read.                                                               *)
Login(w, a) ==
    /\ Free(w)
    /\ Active(a)
    /\ account[a].verified
    /\ Goes(w, [op |-> "login", account |-> a,
                tokenVersion |-> account[a].tokenVersion])
    /\ UNCHANGED <<account, profile, blocks, session, tokens, decided, late>>

NewSession(w, n) ==
    /\ request[w].op = "login"
    /\ Fresh(n)
    /\ session' = [session EXCEPT ![n] =
           [account |-> request[w].account, family |-> n,
            revoked |-> FALSE, reused |-> FALSE]]
    /\ tokens' = tokens \cup {[account |-> request[w].account,
                               tokenVersion |-> request[w].tokenVersion]}
    /\ Goes(w, Idle)
    /\ UNCHANGED <<account, profile, blocks, decided, late>>

(* Mutant: the row is read without a lock. *)
RotatableUnlocked(w, s) == Live(s)

(* The row of a refresh token is read FOR UPDATE.                          *)
Rotatable(w, s) == Live(s) /\ ~LockedFor(w, s)

(* POST /api/v1/auth/refresh: the row is revoked and its successor         *)
(* inserted.                                                               *)
Rotate(w, s, n) ==
    /\ Free(w)
    /\ Rotatable(w, s)
    /\ Fresh(n)
    /\ Goes(w, [op |-> "rotate", session |-> s, next |-> n])
    /\ UNCHANGED <<account, profile, blocks, session, tokens, decided, late>>

(* An UPDATE of the whole family is under way that has not seen the        *)
(* successor, or the session itself came past one.                         *)
PastUpdate(s) ==
    \/ s \in late
    \/ \E x \in Worker :
          request[x].op = "reuse" /\ request[x].session \in Family(s)

Rotated(w) ==
    LET s == request[w].session
        n == request[w].next IN
    /\ request[w].op = "rotate"
    /\ session' = [session EXCEPT
           ![s].revoked = TRUE,
           ![n] = [account |-> session[s].account, family |-> session[s].family,
                   revoked |-> FALSE, reused |-> FALSE]]
    /\ late' = IF PastUpdate(s) THEN late \cup {n} ELSE late
    /\ Goes(w, [op |-> "issue", account |-> session[s].account])
    /\ UNCHANGED <<account, profile, blocks, tokens, decided>>

(* The account is read after the rotation; only an active one gets tokens. *)
Issue(w) ==
    LET a == request[w].account IN
    /\ request[w].op = "issue"
    /\ tokens' = IF Active(a)
                   THEN tokens \cup {[account |-> a,
                                      tokenVersion |-> account[a].tokenVersion]}
                   ELSE tokens
    /\ Goes(w, Idle)
    /\ UNCHANGED <<account, profile, blocks, session, decided, late>>

(* Mutant: only the row that was presented again is revoked. *)
OnlyItself(s) == {s}

Ended(s) == Family(s)

(* A refresh token that has been revoked is used again.                    *)
Reuse(w, s) ==
    /\ Free(w)
    /\ Stored(s) /\ session[s].revoked
    /\ ~LockedFor(w, s)
    /\ Goes(w, [op |-> "reuse", session |-> s, rows |-> Ended(s)])
    /\ UNCHANGED <<account, profile, blocks, session, tokens, decided, late>>

FamilyRevoked(w) ==
    /\ request[w].op = "reuse"
    /\ \A t \in request[w].rows : ~LockedFor(w, t)
    /\ session' = [t \in Session |->
           IF t \in request[w].rows
             THEN [session[t] EXCEPT !.revoked = TRUE, !.reused = TRUE]
             ELSE session[t]]
    /\ Goes(w, Idle)
    /\ UNCHANGED <<account, profile, blocks, tokens, decided, late>>

(* POST /api/v1/auth/logout revokes one row.                               *)
Logout(s) ==
    /\ Live(s)
    /\ \A x \in Worker : ~LockedBy(x, s)
    /\ session' = [session EXCEPT ![s].revoked = TRUE]
    /\ UNCHANGED <<account, profile, blocks, request, tokens, decided, late>>

-----------------------------------------------------------------------------
(* A request of a member is let in by its access token, and acts later.    *)
Accepted(t) ==
    Active(t.account) /\ account[t.account].tokenVersion = t.tokenVersion

Authenticate(w, t) ==
    /\ Free(w)
    /\ Accepted(t)
    /\ Goes(w, [op |-> "member", account |-> t.account])
    /\ UNCHANGED <<account, profile, blocks, session, tokens, decided, late>>

Member(w, a) == request[w].op = "member" /\ request[w].account = a

(* PATCH /api/v1/users/me/profile; others depend on its visibility.        *)
UpdateProfile(w, a, x) ==
    /\ Member(w, a)
    /\ profile' = [profile EXCEPT ![a].visibility = x]
    /\ Goes(w, Idle)
    /\ UNCHANGED <<account, blocks, session, tokens, decided, late>>

(* POST and DELETE /api/v1/users/me/blocks: a block in force is revoked    *)
(* and, by the former, a new one inserted.                                 *)
Block(w, a, b) ==
    /\ Member(w, a)
    /\ a # b
    /\ b \in Account => account[b] # NoAccount
    /\ blocks' = blocks \cup {<<a, b>>}
    /\ Goes(w, Idle)
    /\ UNCHANGED <<account, profile, session, tokens, decided, late>>

Unblock(w, a, b) ==
    /\ Member(w, a)
    /\ <<a, b>> \in blocks
    /\ blocks' = blocks \ {<<a, b>>}
    /\ Goes(w, Idle)
    /\ UNCHANGED <<account, profile, session, tokens, decided, late>>

(* DELETE /api/v1/users/me: the row of the account, then its sessions,     *)
(* then its profile.                                                       *)
Deactivate(w, a) ==
    /\ Member(w, a)
    /\ Active(a)
    /\ ~AccountLocked(a)
    /\ Goes(w, [op |-> "deactivate", account |-> a, rows |-> SessionsOf(a)])
    /\ UNCHANGED <<account, profile, blocks, session, tokens, decided, late>>

(* Mutant: the version of tokens is left alone. *)
DeactivatedSilently(a) == [account[a] EXCEPT !.status = "DEACTIVATED"]

DeactivatedRow(a) ==
    [account[a] EXCEPT !.status = "DEACTIVATED", !.tokenVersion = @ + 1]

Deactivated(w) ==
    LET a == request[w].account IN
    /\ request[w].op = "deactivate"
    /\ \A t \in request[w].rows : ~LockedFor(w, t)
    /\ account' = [account EXCEPT ![a] = DeactivatedRow(a)]
    /\ session' = [t \in Session |->
           IF t \in request[w].rows
             THEN [session[t] EXCEPT !.revoked = TRUE] ELSE session[t]]
    /\ profile' = [profile EXCEPT ![a].visibility = "HIDDEN"]
    /\ Goes(w, Idle)
    /\ UNCHANGED <<blocks, tokens, decided, late>>

(* Mutant: hiding a profile moves its visibility alone. *)
DecidedShallowly(a, d) ==
    IF d = "HIDDEN" THEN [profile[a] EXCEPT !.visibility = d]
    ELSE [approval |-> d, visibility |-> "COMMUNITY"]

DecidedRow(a, d) ==
    [approval |-> d, visibility |-> IF d = "HIDDEN" THEN d ELSE "COMMUNITY"]

(* POST /api/v1/admin/profiles/{id}/decision, by a moderator.              *)
SetProfileDecision(a, d) ==
    /\ account[a] # NoAccount
    /\ profile' = [profile EXCEPT ![a] = DecidedRow(a, d)]
    /\ decided' = [decided EXCEPT ![a] = d]
    /\ UNCHANGED <<account, blocks, session, request, tokens, late>>

(* The service dies in a request, the client is gone, or the database      *)
(* picks the transaction to end a deadlock: what is not committed is gone. *)
Aborted(w) ==
    /\ ~Free(w)
    /\ Goes(w, Idle)
    /\ UNCHANGED <<account, profile, blocks, session, tokens, decided, late>>

-----------------------------------------------------------------------------
SessionStep ==
    \/ \E w \in Worker, a \in Account : Login(w, a)
    \/ \E w \in Worker, n \in Session : NewSession(w, n)
    \/ \E w \in Worker, s, n \in Session : Rotate(w, s, n)
    \/ \E w \in Worker, s \in Session : Reuse(w, s)
    \/ \E w \in Worker : Rotated(w) \/ Issue(w) \/ FamilyRevoked(w) \/ Aborted(w)
    \/ \E s \in Session : Logout(s)

MemberStep ==
    \E w \in Worker :
        \/ \E t \in tokens : Authenticate(w, t)
        \/ \E a \in Account :
              \/ \E x \in Visibility : UpdateProfile(w, a, x)
              \/ \E b \in Account \cup Other : Block(w, a, b) \/ Unblock(w, a, b)
              \/ Deactivate(w, a)
        \/ Deactivated(w)

Next ==
    \/ SessionStep
    \/ MemberStep
    \/ \E a \in Account : Register(a) \/ VerifyEmail(a)
    \/ \E a \in Account, d \in {"APPROVED", "HIDDEN"} : SetProfileDecision(a, d)

Spec == Init /\ [][Next]_vars

-----------------------------------------------------------------------------
(* Properties *)

(* A family is a chain: however many requests present its refresh tokens   *)
(* at once, at most one of its sessions can be refreshed.                  *)
OneLivePerFamily ==
    \A s, t \in Session :
        Live(s) /\ Live(t) /\ session[s].family = session[t].family => s = t

(* "Reuse revokes the entire session family": of a family a reuse was      *)
(* detected in, nothing lives on but what a rotation inserted while the    *)
(* UPDATE of the reuse was under way, and its successors.                  *)
ReuseEndsFamily ==
    \A s \in Session :
        Live(s) /\ (\E t \in Family(s) : session[t].reused) => s \in late

(* No access token is current for a deactivated account, even one that a   *)
(* sign-in or a refresh hands out after the deactivation.                  *)
StaleOnceDeactivated ==
    \A t \in tokens : Accepted(t) \/ account[t.account].tokenVersion > t.tokenVersion

(* What the community is shown of a member.                                *)
Shown(viewer, a) ==
    /\ Active(a) /\ account[a].verified
    /\ profile[a].visibility = "COMMUNITY" /\ profile[a].approval = "APPROVED"
    /\ viewer # a
    /\ <<viewer, a>> \notin blocks /\ <<a, viewer>> \notin blocks

(* A profile a moderator has hidden stays out of sight until a moderator   *)
(* approves it, whatever its member writes; and the last fact about a      *)
(* profile tells the decision it is shown under.                           *)
DecisionStands ==
    \A a \in Account, b \in Account \cup Other :
        Shown(b, a) => decided[a] = "APPROVED"
=============================================================================
