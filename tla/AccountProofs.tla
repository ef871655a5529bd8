----------------------------- MODULE AccountProofs -----------------------------
(***************************************************************************)
(* What TLAPS proves of AccountSession, for any accounts, sessions and     *)
(* requests at once.                                                       *)
(***************************************************************************)
EXTENDS AccountSession, TLAPS

-----------------------------------------------------------------------------
(* The inductive invariant *)

(* Deactivation is the one thing that moves the version of an account's    *)
(* tokens, and happens once: it keeps the row of an active account locked  *)
(* until its commit.                                                       *)
SoundAccounts ==
    /\ \A a \in Account : account[a] # NoAccount =>
          account[a].tokenVersion = IF Active(a) THEN 1 ELSE 2
    /\ \A t \in tokens : t.tokenVersion = 1 /\ account[t.account] # NoAccount
    /\ \A w \in Worker : request[w].op = "login" =>
          request[w].tokenVersion = 1 /\ account[request[w].account] # NoAccount
    /\ \A w \in Worker : request[w].op = "deactivate" => Active(request[w].account)
    /\ \A w, x \in Worker :
          /\ request[w].op = "deactivate" /\ request[x].op = "deactivate"
          /\ request[w].account = request[x].account
          => w = x

(* A family is named by a session that is there, so that a new one is      *)
(* nobody's.                                                               *)
FamiliesExist == \A s \in Session : Stored(s) => Stored(session[s].family)

(* A session under rotation stays as it was when its row was locked, and   *)
(* its successor is nobody else's.                                         *)
RotationsHold ==
    /\ \A w \in Worker : request[w].op = "rotate" =>
          Live(request[w].session) /\ ~Stored(request[w].next)
    /\ \A w, x \in Worker :
          /\ request[w].op = "rotate" /\ request[x].op = "rotate"
          /\ request[w].session = request[x].session \/ request[w].next = request[x].next
          => w = x

(* What an UPDATE of sessions has seen is there; and of a family that one  *)
(* is about to end, it has seen everything but the late ones.              *)
UpdatesSee ==
    /\ \A w \in Worker : request[w].op = "deactivate" =>
          \A t \in request[w].rows : Stored(t)
    /\ \A w \in Worker : request[w].op = "reuse" =>
          /\ Stored(request[w].session)
          /\ \A t \in request[w].rows : t \in Family(request[w].session)
          /\ Family(request[w].session) \subseteq request[w].rows \cup late

SessionInv ==
    /\ TypeOK
    /\ SoundAccounts
    /\ FamiliesExist
    /\ RotationsHold
    /\ UpdatesSee
    /\ OneLivePerFamily
    /\ ReuseEndsFamily
    /\ \A a \in Account : profile[a].approval = decided[a]

-----------------------------------------------------------------------------
(* Types *)

(* What a request of each kind holds. *)
LEMMA Shapes ==
    ASSUME TypeOK, NEW w \in Worker
    PROVE  /\ request[w].op \in {"member", "login"} => request[w].account \in Account
           /\ request[w].op = "login" => request[w].tokenVersion \in {1, 2}
           /\ request[w].op = "rotate" => /\ request[w].session \in Session
                                          /\ request[w].next \in Session
           /\ request[w].op = "issue" => request[w].account \in Account
           /\ request[w].op = "reuse" => /\ request[w].session \in Session
                                         /\ request[w].rows \subseteq Session
           /\ request[w].op = "deactivate" => /\ request[w].account \in Account
                                              /\ request[w].rows \subseteq Session
<1>1. request[w] \in Request \cup {Idle}
  BY DEF TypeOK
<1> QED
  BY <1>1 DEF Request, Idle

(* Rows that are there have their columns. *)
LEMMA RowTypes ==
    ASSUME TypeOK
    PROVE  /\ \A s \in Session : Stored(s) => session[s] \in SessionRow
           /\ \A a \in Account : account[a] # NoAccount => account[a] \in AccountRow
           /\ \A a \in Account : Active(a) => account[a] \in AccountRow
BY DEF TypeOK, Stored, Active, NoAccount

(* A worker's next request keeps the table of requests in its type. *)
LEMMA GoesType ==
    ASSUME TypeOK, NEW w \in Worker, NEW r \in Request \cup {Idle}, Goes(w, r)
    PROVE  request' \in [Worker -> Request \cup {Idle}]
BY DEF TypeOK, Goes

LEMMA TypeStep == SessionInv /\ [Next]_vars => TypeOK'
<1> SUFFICES ASSUME SessionInv, [Next]_vars PROVE TypeOK'
  OBVIOUS
<1> USE DEF SessionInv
<1> DEFINE Rest == UNCHANGED <<account, profile, blocks, session, tokens, decided, late>>
<1>0. ASSUME NEW w \in Worker, NEW r \in Request \cup {Idle}, Goes(w, r), Rest
      PROVE  TypeOK'
  BY <1>0, GoesType DEF TypeOK
<1>1. ASSUME NEW a \in Account, Register(a) \/ VerifyEmail(a)
      PROVE  TypeOK'
  <2>1. account' \in [Account -> AccountRow \cup {NoAccount}]
    <3>1. CASE Register(a)
      BY <3>1 DEF Register, TypeOK, AccountRow
    <3>2. CASE VerifyEmail(a)
      <4>1. account[a] \in AccountRow
        BY <3>2, RowTypes DEF VerifyEmail
      <4>2. [account[a] EXCEPT !.verified = TRUE] \in AccountRow
        BY <4>1 DEF AccountRow
      <4> QED
        BY <3>2, <4>2 DEF VerifyEmail, TypeOK
    <3> QED
      BY <1>1, <3>1, <3>2
  <2> QED
    BY <1>1, <2>1 DEF Register, VerifyEmail, TypeOK
<1>2. ASSUME NEW w \in Worker, NEW a \in Account, Login(w, a)
      PROVE  TypeOK'
  <2>1. account[a] \in AccountRow
    BY <1>2, RowTypes DEF Login
  <2>2. [op |-> "login", account |-> a, tokenVersion |-> account[a].tokenVersion]
          \in Request \cup {Idle}
    BY <2>1 DEF AccountRow, Request
  <2> QED
    BY <1>0, <1>2, <2>2 DEF Login
<1>3. ASSUME NEW w \in Worker, NEW n \in Session, NewSession(w, n)
      PROVE  TypeOK'
  <2>1. request[w].account \in Account /\ request[w].tokenVersion \in {1, 2}
    BY <1>3, Shapes DEF NewSession
  <2>2. session' \in [Session -> SessionRow \cup {NoSession}]
    BY <1>3, <2>1 DEF NewSession, TypeOK, SessionRow
  <2>3. tokens' \subseteq Token
    BY <1>3, <2>1 DEF NewSession, TypeOK, Token
  <2>4. request' \in [Worker -> Request \cup {Idle}]
    BY <1>3, GoesType DEF NewSession
  <2> QED
    BY <1>3, <2>2, <2>3, <2>4 DEF NewSession, TypeOK
<1>4. ASSUME NEW w \in Worker, NEW s \in Session, NEW n \in Session, Rotate(w, s, n)
      PROVE  TypeOK'
  <2>1. [op |-> "rotate", session |-> s, next |-> n] \in Request \cup {Idle}
    BY DEF Request
  <2> QED
    BY <1>0, <1>4, <2>1 DEF Rotate
<1>5. ASSUME NEW w \in Worker, NEW s \in Session, Reuse(w, s)
      PROVE  TypeOK'
  <2>1. [op |-> "reuse", session |-> s, rows |-> Ended(s)] \in Request \cup {Idle}
    BY DEF Request, Ended, Family
  <2> QED
    BY <1>0, <1>5, <2>1 DEF Reuse
<1>6. ASSUME NEW w \in Worker, Rotated(w)
      PROVE  TypeOK'
  <2> DEFINE s == request[w].session
             n == request[w].next
  <2>1. s \in Session /\ n \in Session
    BY <1>6, Shapes DEF Rotated
  <2>2. session[s] \in SessionRow
    BY <1>6, <2>1, RowTypes DEF Rotated, RotationsHold, Live
  <2>3. session' \in [Session -> SessionRow \cup {NoSession}]
    <3>1. [session[s] EXCEPT !.revoked = TRUE] \in SessionRow
      BY <2>2 DEF SessionRow
    <3>2. [account |-> session[s].account, family |-> session[s].family,
           revoked |-> FALSE, reused |-> FALSE] \in SessionRow
      BY <2>2 DEF SessionRow
    <3> QED
      BY <1>6, <2>1, <3>1, <3>2 DEF Rotated, TypeOK
  <2>4. late' \subseteq Session
    BY <1>6, <2>1 DEF Rotated, TypeOK
  <2>5. [op |-> "issue", account |-> session[s].account] \in Request \cup {Idle}
    BY <2>2 DEF SessionRow, Request
  <2>6. request' \in [Worker -> Request \cup {Idle}]
    BY <1>6, <2>5, GoesType DEF Rotated
  <2> QED
    BY <1>6, <2>3, <2>4, <2>6 DEF Rotated, TypeOK
<1>7. ASSUME NEW w \in Worker, Issue(w)
      PROVE  TypeOK'
  <2>1. request[w].account \in Account
    BY <1>7, Shapes DEF Issue
  <2>2. Active(request[w].account) => account[request[w].account] \in AccountRow
    BY <2>1, RowTypes
  <2>3. tokens' \subseteq Token
    BY <1>7, <2>1, <2>2 DEF Issue, TypeOK, Token, AccountRow
  <2>4. request' \in [Worker -> Request \cup {Idle}]
    BY <1>7, GoesType DEF Issue
  <2> QED
    BY <1>7, <2>3, <2>4 DEF Issue, TypeOK
<1>8. ASSUME NEW w \in Worker, FamilyRevoked(w)
      PROVE  TypeOK'
  <2>1. \A t \in request[w].rows : t \in Session /\ session[t] \in SessionRow
    BY <1>8, Shapes, RowTypes DEF FamilyRevoked, UpdatesSee, Family
  <2>2. session' \in [Session -> SessionRow \cup {NoSession}]
    <3>1. \A t \in request[w].rows :
             [session[t] EXCEPT !.revoked = TRUE, !.reused = TRUE] \in SessionRow
      BY <2>1 DEF SessionRow
    <3> QED
      BY <1>8, <3>1 DEF FamilyRevoked, TypeOK
  <2>3. request' \in [Worker -> Request \cup {Idle}]
    BY <1>8, GoesType DEF FamilyRevoked
  <2> QED
    BY <1>8, <2>2, <2>3 DEF FamilyRevoked, TypeOK
<1>9. ASSUME NEW s \in Session, Logout(s)
      PROVE  TypeOK'
  <2>1. [session[s] EXCEPT !.revoked = TRUE] \in SessionRow
    BY <1>9, RowTypes DEF Logout, Live, SessionRow
  <2> QED
    BY <1>9, <2>1 DEF Logout, TypeOK
<1>10. ASSUME NEW w \in Worker, Aborted(w)
       PROVE  TypeOK'
  BY <1>0, <1>10 DEF Aborted
<1>11. ASSUME NEW w \in Worker, NEW t \in tokens, Authenticate(w, t)
       PROVE  TypeOK'
  <2>1. [op |-> "member", account |-> t.account] \in Request \cup {Idle}
    BY DEF TypeOK, Token, Request
  <2> QED
    BY <1>0, <1>11, <2>1 DEF Authenticate
<1>12. ASSUME NEW w \in Worker, NEW a \in Account, NEW x \in Visibility,
              UpdateProfile(w, a, x)
       PROVE  TypeOK'
  <2>1. profile' \in [Account -> ProfileRow]
    BY <1>12 DEF UpdateProfile, TypeOK, ProfileRow
  <2>2. request' \in [Worker -> Request \cup {Idle}]
    BY <1>12, GoesType DEF UpdateProfile
  <2> QED
    BY <1>12, <2>1, <2>2 DEF UpdateProfile, TypeOK
<1>13. ASSUME NEW w \in Worker, NEW a \in Account, NEW b \in Account \cup Other,
              Block(w, a, b) \/ Unblock(w, a, b)
       PROVE  TypeOK'
  <2>1. blocks' \subseteq Account \X (Account \cup Other)
    BY <1>13 DEF Block, Unblock, TypeOK
  <2>2. request' \in [Worker -> Request \cup {Idle}]
    BY <1>13, GoesType DEF Block, Unblock
  <2> QED
    BY <1>13, <2>1, <2>2 DEF Block, Unblock, TypeOK
<1>14. ASSUME NEW w \in Worker, NEW a \in Account, Deactivate(w, a)
       PROVE  TypeOK'
  <2>1. [op |-> "deactivate", account |-> a, rows |-> SessionsOf(a)]
          \in Request \cup {Idle}
    BY DEF Request, SessionsOf
  <2> QED
    BY <1>0, <1>14, <2>1 DEF Deactivate
<1>15. ASSUME NEW w \in Worker, Deactivated(w)
       PROVE  TypeOK'
  <2> DEFINE a == request[w].account
  <2>1. a \in Account /\ Active(a)
    BY <1>15, Shapes DEF Deactivated, SoundAccounts
  <2>2. account[a] \in AccountRow /\ account[a].tokenVersion = 1
    BY <2>1, RowTypes DEF SoundAccounts, Active, NoAccount
  <2>3. DeactivatedRow(a) \in AccountRow
    <3>1. DeactivatedRow(a) =
            [account[a] EXCEPT !.status = "DEACTIVATED", !.tokenVersion = 2]
      BY <2>2 DEF DeactivatedRow
    <3> QED
      BY <2>2, <3>1 DEF AccountRow
  <2>4. account' \in [Account -> AccountRow \cup {NoAccount}]
    BY <1>15, <2>1, <2>3 DEF Deactivated, TypeOK
  <2>5. \A t \in request[w].rows : session[t] \in SessionRow
    BY <1>15, Shapes, RowTypes DEF Deactivated, UpdatesSee
  <2>6. session' \in [Session -> SessionRow \cup {NoSession}]
    <3>1. \A t \in request[w].rows : [session[t] EXCEPT !.revoked = TRUE] \in SessionRow
      BY <2>5 DEF SessionRow
    <3> QED
      BY <1>15, <3>1 DEF Deactivated, TypeOK
  <2>7. profile' \in [Account -> ProfileRow]
    BY <1>15, <2>1 DEF Deactivated, TypeOK, ProfileRow, Visibility
  <2>8. request' \in [Worker -> Request \cup {Idle}]
    BY <1>15, GoesType DEF Deactivated
  <2> QED
    BY <1>15, <2>4, <2>6, <2>7, <2>8 DEF Deactivated, TypeOK
<1>16. ASSUME NEW a \in Account, NEW d \in {"APPROVED", "HIDDEN"},
              SetProfileDecision(a, d)
       PROVE  TypeOK'
  <2>1. DecidedRow(a, d) \in ProfileRow
    BY DEF DecidedRow, ProfileRow, Visibility
  <2> QED
    BY <1>16, <2>1 DEF SetProfileDecision, TypeOK
<1>17. CASE UNCHANGED vars
  BY <1>17 DEF vars, TypeOK
<1> QED
  BY <1>1, <1>2, <1>3, <1>4, <1>5, <1>6, <1>7, <1>8, <1>9, <1>10, <1>11, <1>12,
     <1>13, <1>14, <1>15, <1>16, <1>17 DEF Next, SessionStep, MemberStep

-----------------------------------------------------------------------------
(* Accounts and their tokens *)

LEMMA AccountsStep == SessionInv /\ [Next]_vars => SoundAccounts'
<1> SUFFICES ASSUME SessionInv, [Next]_vars PROVE SoundAccounts'
  OBVIOUS
<1> USE DEF SessionInv
<1>a. /\ \A w \in Worker : request[w].op \in {"login", "deactivate"} =>
            request[w].account \in Account
      /\ \A t \in tokens : t.account \in Account
  BY Shapes DEF TypeOK, Token
<1> DEFINE Same == UNCHANGED <<account, tokens>>
           Plain(r) == r.op \notin {"login", "deactivate"}
<1>0. ASSUME NEW w \in Worker, NEW r, Plain(r), Goes(w, r), Same
      PROVE  SoundAccounts'
  BY <1>0 DEF SoundAccounts, TypeOK, Goes, Active
<1>1. ASSUME NEW a \in Account, Register(a) \/ VerifyEmail(a)
      PROVE  SoundAccounts'
  <2>1. /\ account'[a] # NoAccount
        /\ account'[a].status = "ACTIVE" /\ account'[a].tokenVersion = 1
        /\ account' = [account EXCEPT ![a] = account'[a]]
        /\ UNCHANGED <<tokens, request>>
    <3>1. CASE Register(a)
      BY <3>1 DEF Register, TypeOK, NoAccount
    <3>2. CASE VerifyEmail(a)
      <4>1. account[a] \in AccountRow /\ account[a].tokenVersion = 1
        BY <3>2, RowTypes DEF VerifyEmail, SoundAccounts, Active, NoAccount
      <4>2. account'[a] = [account[a] EXCEPT !.verified = TRUE]
        BY <3>2 DEF VerifyEmail, TypeOK
      <4> QED
        BY <3>2, <4>1, <4>2 DEF VerifyEmail, Active, AccountRow, NoAccount, TypeOK
    <3> QED
      BY <1>1, <3>1, <3>2
  <2> QED
    BY <1>a, <2>1 DEF SoundAccounts, Active, TypeOK
<1>2. ASSUME NEW w \in Worker, NEW a \in Account, Login(w, a)
      PROVE  SoundAccounts'
  <2>1. account[a] # NoAccount /\ account[a].tokenVersion = 1
    BY <1>2 DEF Login, SoundAccounts, Active, NoAccount
  <2> QED
    BY <1>2, <2>1 DEF Login, Goes, SoundAccounts, Active, TypeOK
<1>3. ASSUME NEW w \in Worker, NEW n \in Session, NewSession(w, n)
      PROVE  SoundAccounts'
  BY <1>3 DEF NewSession, Goes, Idle, SoundAccounts, Active, TypeOK
<1>4. ASSUME NEW w \in Worker, NEW s \in Session, NEW n \in Session,
             Rotate(w, s, n) \/ Reuse(w, s)
      PROVE  SoundAccounts'
  BY <1>0, <1>4 DEF Rotate, Reuse
<1>5. ASSUME NEW w \in Worker, Rotated(w) \/ FamilyRevoked(w) \/ Aborted(w)
      PROVE  SoundAccounts'
  BY <1>0, <1>5 DEF Rotated, FamilyRevoked, Aborted, Idle
<1>6. ASSUME NEW w \in Worker, Issue(w)
      PROVE  SoundAccounts'
  <2> DEFINE a == request[w].account
  <2>1. a \in Account
    BY <1>6, Shapes DEF Issue
  <2>2. Active(a) => account[a] # NoAccount /\ account[a].tokenVersion = 1
    BY <2>1 DEF SoundAccounts, Active, NoAccount
  <2>3. \A t \in tokens' : t.tokenVersion = 1 /\ account[t.account] # NoAccount
    BY <1>6, <2>2 DEF Issue, SoundAccounts
  <2> QED
    BY <1>6, <2>3 DEF Issue, Goes, Idle, SoundAccounts, Active, TypeOK
<1>7. ASSUME NEW s \in Session, Logout(s)
      PROVE  SoundAccounts'
  BY <1>7 DEF Logout, SoundAccounts, Active
<1>8. ASSUME NEW w \in Worker, NEW t \in tokens, Authenticate(w, t)
      PROVE  SoundAccounts'
  BY <1>0, <1>8 DEF Authenticate
<1>9. ASSUME NEW w \in Worker, NEW a \in Account, NEW b, NEW x,
             UpdateProfile(w, a, x) \/ Block(w, a, b) \/ Unblock(w, a, b)
      PROVE  SoundAccounts'
  BY <1>0, <1>9 DEF UpdateProfile, Block, Unblock, Idle
<1>10. ASSUME NEW w \in Worker, NEW a \in Account, Deactivate(w, a)
       PROVE  SoundAccounts'
  BY <1>10 DEF Deactivate, AccountLocked, Goes, SoundAccounts, Active, TypeOK
<1>11. ASSUME NEW w \in Worker, Deactivated(w)
       PROVE  SoundAccounts'
  <2> DEFINE a == request[w].account
  <2>1. a \in Account /\ Active(a)
    BY <1>11, Shapes DEF Deactivated, SoundAccounts
  <2>2. account[a] \in AccountRow /\ account[a].tokenVersion = 1
    BY <2>1, RowTypes DEF SoundAccounts, Active, NoAccount
  <2>3. DeactivatedRow(a) =
          [account[a] EXCEPT !.status = "DEACTIVATED", !.tokenVersion = 2]
    BY <2>2 DEF DeactivatedRow
  <2>4. /\ account'[a].status = "DEACTIVATED" /\ account'[a].tokenVersion = 2
        /\ account'[a] # NoAccount
        /\ account' = [account EXCEPT ![a] = account'[a]]
    BY <1>11, <2>1, <2>2, <2>3 DEF Deactivated, TypeOK, AccountRow, NoAccount
  <2>5. UNCHANGED tokens /\ request' = [request EXCEPT ![w] = Idle]
    BY <1>11 DEF Deactivated, Goes
  <2>6. \A x \in Worker : x # w /\ request[x].op = "deactivate" =>
           request[x].account # a
    BY <1>11 DEF Deactivated, SoundAccounts
  <2> QED
    <3>1. \A b \in Account : b # a => account'[b] = account[b]
      BY <2>4 DEF TypeOK
    <3>2. \A x \in Worker : x # w => request'[x] = request[x]
      BY <2>5 DEF TypeOK
    <3>3. request'[w].op = "idle"
      BY <2>5 DEF TypeOK, Idle
    <3>4. \A b \in Account : account'[b] # NoAccount =>
             account'[b].tokenVersion = IF Active(b)' THEN 1 ELSE 2
      BY <2>4, <3>1 DEF SoundAccounts, Active
    <3>5. \A t \in tokens' : t.tokenVersion = 1 /\ account'[t.account] # NoAccount
      BY <1>a, <2>4, <2>5, <3>1 DEF SoundAccounts
    <3>6. \A x \in Worker : request'[x].op = "login" =>
             request'[x].tokenVersion = 1 /\ account'[request'[x].account] # NoAccount
      BY <1>a, <2>4, <3>1, <3>2, <3>3 DEF SoundAccounts
    <3>7. \A x \in Worker : request'[x].op = "deactivate" =>
             account'[request'[x].account].status = "ACTIVE"
      BY <1>a, <2>6, <3>1, <3>2, <3>3 DEF SoundAccounts, Active
    <3> QED
      BY <3>2, <3>3, <3>4, <3>5, <3>6, <3>7 DEF SoundAccounts, Active
<1>12. ASSUME NEW a, NEW d, SetProfileDecision(a, d)
       PROVE  SoundAccounts'
  BY <1>12 DEF SetProfileDecision, SoundAccounts, Active
<1>13. CASE UNCHANGED vars
  BY <1>13 DEF vars, SoundAccounts, Active
<1> QED
  BY <1>1, <1>2, <1>3, <1>4, <1>5, <1>6, <1>7, <1>8, <1>9, <1>10, <1>11, <1>12,
     <1>13 DEF Next, SessionStep, MemberStep

-----------------------------------------------------------------------------
(* Sessions *)

SessionsSound ==
    FamiliesExist /\ RotationsHold /\ UpdatesSee /\ OneLivePerFamily /\ ReuseEndsFamily

(* An UPDATE that revokes the sessions R, none of which is being rotated,  *)
(* and moves nothing else of them but the marks of reuse.                  *)
LEMMA Revoking ==
    ASSUME SessionInv, NEW R \in SUBSET Session,
           \A t \in R : Stored(t),
           \A x \in Worker : request[x].op = "rotate" /\ request[x].session \in R =>
               request'[x].op # "rotate",
           \A x \in Worker : request'[x] = request[x] \/ request'[x] = Idle,
           late' = late,
           \A t \in Session \ R : session'[t] = session[t],
           \A t \in R : /\ session'[t] # NoSession
                        /\ session'[t].family = session[t].family
                        /\ session'[t].revoked,
           \A s \in Session \ R : \A t \in R :
               session[t].reused # session'[t].reused /\ Stored(s)
                 /\ session[s].family = session[t].family => s \in late
    PROVE  SessionsSound'
<1> USE DEF SessionInv
<1>1. \A t \in Session : Stored(t)' <=> Stored(t)
  BY DEF Stored
<1>2. \A t \in Session : Stored(t) => session'[t].family = session[t].family
  OBVIOUS
<1>3. \A t \in Session : Live(t)' => Live(t) /\ t \notin R
  BY <1>1 DEF Live
<1>4. \A t \in Session \ R : Live(t)' <=> Live(t)
  BY <1>1 DEF Live
<1>5. \A s \in Session : Stored(s) => Family(s)' = Family(s)
  BY <1>1, <1>2 DEF Family
<1>6. \A x \in Worker : request'[x].op # "idle" => request'[x] = request[x]
  BY DEF Idle
<1>7. FamiliesExist'
  <2> SUFFICES ASSUME NEW s \in Session, Stored(s)' PROVE Stored(session[s].family)'
    BY DEF FamiliesExist
  <2>1. Stored(s) /\ Stored(session[s].family) /\ session[s].family \in Session
    BY <1>1, RowTypes DEF FamiliesExist, SessionRow
  <2> QED
    BY <1>1, <1>2, <2>1
<1>8. RotationsHold'
  <2>1. ASSUME NEW x \in Worker, request'[x].op = "rotate"
        PROVE  Live(request[x].session)' /\ ~Stored(request[x].next)'
    BY <1>1, <1>4, <1>6, <2>1, Shapes DEF RotationsHold
  <2>2. ASSUME NEW w \in Worker, NEW x \in Worker,
               request'[w].op = "rotate", request'[x].op = "rotate",
               \/ request'[w].session = request'[x].session
               \/ request'[w].next = request'[x].next
        PROVE  w = x
    BY <1>6, <2>2 DEF RotationsHold
  <2> QED
    BY <2>1, <2>2 DEF RotationsHold
<1>9. UpdatesSee'
  <2>1. ASSUME NEW x \in Worker, request'[x].op = "deactivate",
               NEW t \in request'[x].rows
        PROVE  Stored(t)'
    BY <1>1, <1>6, <2>1, Shapes DEF UpdatesSee
  <2>2. ASSUME NEW x \in Worker, request'[x].op = "reuse"
        PROVE  /\ Stored(request[x].session)'
               /\ \A t \in request'[x].rows : t \in Family(request[x].session)'
               /\ Family(request[x].session)' \subseteq request'[x].rows \cup late'
    <3>1. request'[x] = request[x] /\ request[x].session \in Session
             /\ Stored(request[x].session)
      BY <1>6, <2>2, Shapes DEF UpdatesSee
    <3> QED
      BY <1>1, <1>5, <2>2, <3>1 DEF UpdatesSee
  <2> QED
    BY <2>1, <2>2 DEF UpdatesSee
<1>10. OneLivePerFamily'
  <2> SUFFICES ASSUME NEW s \in Session, NEW t \in Session, Live(s)', Live(t)',
                      session'[s].family = session'[t].family
               PROVE  s = t
    BY DEF OneLivePerFamily
  <2> QED
    BY <1>2, <1>3 DEF OneLivePerFamily, Live
<1>11. ReuseEndsFamily'
  <2> SUFFICES ASSUME NEW s \in Session, Live(s)',
                      NEW t \in Family(s)', session'[t].reused
               PROVE  s \in late
    BY DEF ReuseEndsFamily
  <2>1. Live(s) /\ s \notin R /\ Stored(s) /\ t \in Family(s)
    BY <1>3, <1>5 DEF Live
  <2>2. t \in Session /\ Stored(t) /\ session[t].family = session[s].family
    BY <2>1 DEF Family
  <2>3. CASE session[t].reused
    BY <2>1, <2>3 DEF ReuseEndsFamily
  <2>4. CASE ~session[t].reused
    BY <2>1, <2>2, <2>4
  <2> QED
    BY <2>3, <2>4
<1> QED
  BY <1>7, <1>8, <1>9, <1>10, <1>11 DEF SessionsSound

LEMMA SessionsStep == SessionInv /\ [Next]_vars => SessionsSound'
<1> SUFFICES ASSUME SessionInv, [Next]_vars PROVE SessionsSound'
  OBVIOUS
<1> USE DEF SessionInv
(* Requests that neither rotate nor update sessions. *)
<1>0. ASSUME NEW w \in Worker, NEW r, r.op \notin {"rotate", "reuse", "deactivate"},
             Goes(w, r), UNCHANGED <<session, late>>
      PROVE  SessionsSound'
  BY <1>0 DEF Goes, SessionsSound, FamiliesExist, RotationsHold, UpdatesSee,
     OneLivePerFamily, ReuseEndsFamily, Family, Live, Stored, TypeOK
<1>1. ASSUME UNCHANGED <<session, late, request>>
      PROVE  SessionsSound'
  BY <1>1 DEF SessionsSound, FamiliesExist, RotationsHold, UpdatesSee,
     OneLivePerFamily, ReuseEndsFamily, Family, Live, Stored
<1>2. ASSUME NEW w \in Worker, NEW a \in Account, Login(w, a)
      PROVE  SessionsSound'
  BY <1>0, <1>2 DEF Login
<1>3. ASSUME NEW w \in Worker, NEW n \in Session, NewSession(w, n)
      PROVE  SessionsSound'
  <2>1. /\ ~Stored(n)
        /\ \A x \in Worker : request[x].op = "rotate" => request[x].next # n
    BY <1>3 DEF NewSession, Fresh
  <2>2. /\ \A t \in Session : t # n => session'[t] = session[t]
        /\ session'[n].family = n /\ ~session'[n].revoked /\ ~session'[n].reused
        /\ session'[n] # NoSession
        /\ late' = late
    BY <1>3 DEF NewSession, TypeOK, NoSession
  <2>3. /\ \A x \in Worker : x # w => request'[x] = request[x]
        /\ request'[w].op = "idle"
    BY <1>3 DEF NewSession, Goes, TypeOK, Idle
  <2>4. /\ \A t \in Session : Stored(t)' <=> Stored(t) \/ t = n
        /\ \A t \in Session : Stored(t) => session[t].family # n
    BY <2>1, <2>2 DEF Stored, FamiliesExist
  <2>5. Family(n)' = {n} /\ \A s \in Session : Stored(s) => Family(s)' = Family(s)
    BY <2>1, <2>2, <2>4 DEF Family
  <2>6. FamiliesExist'
    <3>1. \A s \in Session : Stored(s) => session[s].family \in Session
      BY RowTypes DEF SessionRow
    <3> QED
      BY <2>1, <2>2, <2>4, <3>1 DEF FamiliesExist
  <2>7. RotationsHold'
    <3>1. \A x \in Worker : request'[x].op = "rotate" => x # w /\ request'[x] = request[x]
      BY <2>3
    <3> QED
      BY <2>1, <2>2, <2>4, <3>1, Shapes DEF RotationsHold, Live
  <2>8. UpdatesSee'
    <3>1. \A x \in Worker : request'[x].op \in {"reuse", "deactivate"} =>
             x # w /\ request'[x] = request[x]
      BY <2>3
    <3> QED
      BY <2>2, <2>4, <2>5, <3>1, Shapes DEF UpdatesSee
  <2>9. OneLivePerFamily'
    BY <2>1, <2>2, <2>4 DEF OneLivePerFamily, Live
  <2>10. ReuseEndsFamily'
    <3> SUFFICES ASSUME NEW s \in Session, Live(s)', NEW t \in Family(s)',
                        session'[t].reused
                 PROVE  s \in late
      BY <2>2 DEF ReuseEndsFamily
    <3>1. s # n
      BY <2>2, <2>5
    <3>2. Live(s) /\ t \in Family(s)
      BY <2>2, <2>4, <2>5, <3>1 DEF Live
    <3>3. session[t].reused
      BY <2>1, <2>2, <3>2 DEF Family
    <3> QED
      BY <3>2, <3>3 DEF ReuseEndsFamily
  <2> QED
    BY <2>6, <2>7, <2>8, <2>9, <2>10 DEF SessionsSound
<1>4. ASSUME NEW w \in Worker, NEW s \in Session, NEW n \in Session, Rotate(w, s, n)
      PROVE  SessionsSound'
  <2>1. UNCHANGED <<session, late>>
    BY <1>4 DEF Rotate
  <2>2. /\ \A x \in Worker : x # w => request'[x] = request[x]
        /\ request'[w] = [op |-> "rotate", session |-> s, next |-> n]
    BY <1>4 DEF Rotate, Goes, TypeOK
  <2>3. RotationsHold'
    BY <1>4, <2>1, <2>2 DEF Rotate, Rotatable, LockedFor, LockedBy, Fresh, RotationsHold,
       Live, Stored
  <2>4. UpdatesSee'
    BY <2>1, <2>2 DEF UpdatesSee, Family, Stored
  <2> QED
    BY <2>1, <2>3, <2>4 DEF SessionsSound, FamiliesExist, OneLivePerFamily,
       ReuseEndsFamily, Family, Live, Stored
<1>5. ASSUME NEW w \in Worker, NEW s \in Session, Reuse(w, s)
      PROVE  SessionsSound'
  <2>1. UNCHANGED <<session, late>>
    BY <1>5 DEF Reuse
  <2>2. /\ \A x \in Worker : x # w => request'[x] = request[x]
        /\ request'[w] = [op |-> "reuse", session |-> s, rows |-> Family(s)]
    BY <1>5 DEF Reuse, Goes, TypeOK, Ended
  <2>3. RotationsHold'
    BY <2>1, <2>2 DEF RotationsHold, Live, Stored
  <2>4. UpdatesSee'
    BY <1>5, <2>1, <2>2 DEF Reuse, UpdatesSee, Family, Stored
  <2> QED
    BY <2>1, <2>3, <2>4 DEF SessionsSound, FamiliesExist, OneLivePerFamily,
       ReuseEndsFamily, Family, Live, Stored
<1>6. ASSUME NEW w \in Worker, Rotated(w)
      PROVE  SessionsSound'
  <2> DEFINE o == request[w].session
             n == request[w].next
  <2>1. /\ o \in Session /\ n \in Session /\ o # n
        /\ Live(o) /\ ~Stored(n)
        /\ session[o] \in SessionRow
    BY <1>6, Shapes, RowTypes DEF Rotated, RotationsHold, Live
  <2>2. /\ \A t \in Session : t \notin {o, n} => session'[t] = session[t]
        /\ session'[o] = [session[o] EXCEPT !.revoked = TRUE]
        /\ session'[n] = [account |-> session[o].account, family |-> session[o].family,
                          revoked |-> FALSE, reused |-> FALSE]
    BY <1>6, <2>1 DEF Rotated, TypeOK
  <2>3. /\ session'[o] # NoSession /\ session'[n] # NoSession
        /\ session'[o].family = session[o].family
        /\ session'[n].family = session[o].family
        /\ session'[o].revoked /\ ~session'[n].revoked
        /\ session'[o].reused = session[o].reused /\ ~session'[n].reused
    BY <2>1, <2>2 DEF SessionRow, NoSession
  <2>4. /\ \A x \in Worker : x # w => request'[x] = request[x]
        /\ request'[w].op = "issue"
    BY <1>6 DEF Rotated, Goes, TypeOK
  <2>5. late' = IF PastUpdate(o) THEN late \cup {n} ELSE late
    BY <1>6 DEF Rotated
  <2>6. /\ \A t \in Session : Stored(t)' <=> Stored(t) \/ t = n
        /\ \A t \in Session : Stored(t) => session'[t].family = session[t].family
    BY <2>1, <2>2, <2>3 DEF Stored, Live
  <2>7. \A s \in Session : Stored(s) =>
           Family(s)' = IF session[s].family = session[o].family
                          THEN Family(s) \cup {n} ELSE Family(s)
    BY <2>1, <2>3, <2>6 DEF Family
  <2>8. FamiliesExist'
    <3>1. \A s \in Session : Stored(s) => session[s].family \in Session
      BY RowTypes DEF SessionRow
    <3> QED
      BY <2>1, <2>3, <2>6, <3>1 DEF FamiliesExist, Live
  <2>9. RotationsHold'
    <3>1. \A x \in Worker : request'[x].op = "rotate" => x # w /\ request'[x] = request[x]
      BY <2>4
    <3>2. \A x \in Worker : request'[x].op = "rotate" =>
             /\ request[x].session \in Session /\ request[x].next \in Session
             /\ request[x].session # o /\ request[x].next # n
             /\ Live(request[x].session) /\ ~Stored(request[x].next)
      BY <1>6, <3>1, Shapes DEF RotationsHold, Rotated
    <3>3. \A x \in Worker : request'[x].op = "rotate" =>
             Live(request[x].session)' /\ ~Stored(request[x].next)'
      BY <2>1, <2>2, <2>6, <3>1, <3>2 DEF Live
    <3> QED
      BY <3>1, <3>3 DEF RotationsHold
  <2>10. UpdatesSee'
    <3>1. \A x \in Worker : request'[x].op \in {"reuse", "deactivate"} =>
             x # w /\ request'[x] = request[x]
      BY <2>4
    <3>2. ASSUME NEW x \in Worker, request'[x].op = "deactivate"
          PROVE  \A t \in request'[x].rows : Stored(t)'
      BY <2>6, <3>1, <3>2, Shapes DEF UpdatesSee
    <3>3. ASSUME NEW x \in Worker, request'[x].op = "reuse"
          PROVE  /\ Stored(request[x].session)'
                 /\ \A t \in request'[x].rows : t \in Family(request[x].session)'
                 /\ Family(request[x].session)' \subseteq request'[x].rows \cup late'
      <4> DEFINE f == request[x].session
      <4>1. /\ request'[x] = request[x]
            /\ f \in Session /\ Stored(f)
            /\ \A t \in request[x].rows : t \in Family(f)
            /\ Family(f) \subseteq request[x].rows \cup late
        BY <3>1, <3>3, Shapes DEF UpdatesSee
      <4>2. session[f].family = session[o].family => PastUpdate(o)
        BY <2>1, <3>3, <4>1 DEF PastUpdate, Family
      <4>3. Family(f)' \subseteq request[x].rows \cup late'
        BY <2>5, <2>7, <4>1, <4>2
      <4>4. \A t \in request[x].rows : t \in Family(f)'
        BY <2>7, <4>1
      <4> QED
        BY <2>6, <4>1, <4>3, <4>4
    <3> QED
      BY <3>2, <3>3 DEF UpdatesSee
  <2>11. \A s \in Session : Live(s)' /\ s # n => Live(s) /\ s # o
    BY <2>1, <2>2, <2>3, <2>6 DEF Live
  <2>12. OneLivePerFamily'
    <3> SUFFICES ASSUME NEW s \in Session, NEW t \in Session, Live(s)', Live(t)',
                        session'[s].family = session'[t].family, s # t
                 PROVE  FALSE
      BY DEF OneLivePerFamily
    <3>1. CASE s # n /\ t # n
      BY <2>2, <2>11, <3>1 DEF OneLivePerFamily
    <3>2. CASE s = n
      BY <2>1, <2>2, <2>3, <2>11, <3>2 DEF OneLivePerFamily
    <3>3. CASE t = n
      BY <2>1, <2>2, <2>3, <2>11, <3>3 DEF OneLivePerFamily
    <3> QED
      BY <3>1, <3>2, <3>3
  <2>13. ReuseEndsFamily'
    <3> SUFFICES ASSUME NEW s \in Session, Live(s)', NEW t \in Family(s)',
                        session'[t].reused
                 PROVE  s \in late'
      BY DEF ReuseEndsFamily
    <3>1. /\ t \in Session /\ t # n /\ Stored(t) /\ session[t].reused
          /\ session[t].family = session'[s].family
      BY <2>1, <2>2, <2>3, <2>6 DEF Family
    <3>2. CASE s # n
      <4>1. Live(s) /\ t \in Family(s)
        BY <2>2, <2>11, <3>1, <3>2 DEF Family
      <4> QED
        BY <2>5, <3>1, <4>1 DEF ReuseEndsFamily
    <3>3. CASE s = n
      <4>1. t \in Family(o)
        BY <2>3, <3>1, <3>3 DEF Family
      <4>2. o \in late
        BY <2>1, <3>1, <4>1 DEF ReuseEndsFamily
      <4> QED
        BY <2>5, <3>3, <4>2 DEF PastUpdate
    <3> QED
      BY <3>2, <3>3
  <2> QED
    BY <2>8, <2>9, <2>10, <2>12, <2>13 DEF SessionsSound
<1>7. ASSUME NEW w \in Worker, Issue(w) \/ Aborted(w)
      PROVE  SessionsSound'
  BY <1>0, <1>7 DEF Issue, Aborted, Idle
<1>8. ASSUME NEW w \in Worker, FamilyRevoked(w)
      PROVE  SessionsSound'
  <2> DEFINE R == request[w].rows
             f == request[w].session
  <2>1. /\ f \in Session /\ R \subseteq Session /\ Stored(f)
        /\ \A t \in R : t \in Family(f)
        /\ Family(f) \subseteq R \cup late
    BY <1>8, Shapes DEF FamilyRevoked, UpdatesSee
  <2>2. \A t \in R : Stored(t) /\ session[t] \in SessionRow
                     /\ session[t].family = session[f].family
    BY <2>1, RowTypes DEF Family
  <2>3. /\ \A x \in Worker : x # w => request'[x] = request[x]
        /\ request'[w] = Idle
        /\ late' = late
    BY <1>8 DEF FamilyRevoked, Goes, TypeOK
  <2>4. \A x \in Worker : request[x].op = "rotate" /\ request[x].session \in R =>
            request'[x].op # "rotate"
    BY <1>8, <2>3 DEF FamilyRevoked, LockedFor, LockedBy, Idle
  <2>5. \A t \in Session \ R : session'[t] = session[t]
    BY <1>8 DEF FamilyRevoked
  <2>6. \A t \in R : session'[t] = [session[t] EXCEPT !.revoked = TRUE, !.reused = TRUE]
    BY <1>8, <2>1 DEF FamilyRevoked
  <2>7. \A t \in R : /\ session'[t] # NoSession
                     /\ session'[t].family = session[t].family
                     /\ session'[t].revoked
    BY <1>8, <2>2, <2>6 DEF SessionRow, NoSession, Stored
  <2>8. \A s \in Session \ R : \A t \in R :
           Stored(s) /\ session[s].family = session[t].family => s \in late
    BY <2>1, <2>2 DEF Family
  <2> QED
    BY <2>1, <2>2, <2>3, <2>4, <2>5, <2>7, <2>8, Revoking
<1>9. ASSUME NEW s \in Session, Logout(s)
      PROVE  SessionsSound'
  <2>1. Stored(s) /\ session[s] \in SessionRow
    BY <1>9, RowTypes DEF Logout, Live
  <2>2. /\ \A t \in Session \ {s} : session'[t] = session[t]
        /\ session'[s] = [session[s] EXCEPT !.revoked = TRUE]
        /\ UNCHANGED <<request, late>>
    BY <1>9 DEF Logout, TypeOK
  <2>3. /\ session'[s] # NoSession
        /\ session'[s].family = session[s].family
        /\ session'[s].revoked
        /\ session'[s].reused = session[s].reused
    BY <2>1, <2>2 DEF SessionRow, NoSession, Stored
  <2>4. \A x \in Worker : ~(request[x].op = "rotate" /\ request[x].session = s)
    <3>1. ASSUME NEW x \in Worker, request[x].op = "rotate", request[x].session = s
          PROVE  FALSE
      BY <1>9, <3>1 DEF Logout, LockedBy
    <3> QED
      BY <3>1
  <2> DEFINE R == {s}
  <2>5. /\ R \in SUBSET Session
        /\ \A t \in R : Stored(t)
        /\ \A x \in Worker : request[x].op = "rotate" /\ request[x].session \in R =>
               request'[x].op # "rotate"
        /\ \A x \in Worker : request'[x] = request[x] \/ request'[x] = Idle
        /\ late' = late
    BY <2>1, <2>2, <2>4
  <2>6. /\ \A t \in Session \ R : session'[t] = session[t]
        /\ \A t \in R : /\ session'[t] # NoSession
                         /\ session'[t].family = session[t].family
                         /\ session'[t].revoked
        /\ \A t \in R : session[t].reused = session'[t].reused
    BY <2>2, <2>3
  <2> HIDE DEF R
  <2> QED
    BY <2>5, <2>6, Revoking
<1>11. ASSUME NEW w \in Worker, NEW t \in tokens, Authenticate(w, t)
       PROVE  SessionsSound'
  BY <1>0, <1>11 DEF Authenticate
<1>12. ASSUME NEW w \in Worker, NEW a, NEW b, NEW x,
              UpdateProfile(w, a, x) \/ Block(w, a, b) \/ Unblock(w, a, b)
       PROVE  SessionsSound'
  BY <1>0, <1>12 DEF UpdateProfile, Block, Unblock, Idle
<1>14. ASSUME NEW w \in Worker, NEW a \in Account, Deactivate(w, a)
       PROVE  SessionsSound'
  <2>1. UNCHANGED <<session, late>>
    BY <1>14 DEF Deactivate
  <2>2. /\ \A x \in Worker : x # w => request'[x] = request[x]
        /\ request'[w] = [op |-> "deactivate", account |-> a, rows |-> SessionsOf(a)]
    BY <1>14 DEF Deactivate, Goes, TypeOK
  <2>3. RotationsHold'
    BY <2>1, <2>2 DEF RotationsHold, Live, Stored
  <2>4. UpdatesSee'
    BY <2>1, <2>2 DEF UpdatesSee, Family, Stored, SessionsOf
  <2> QED
    BY <2>1, <2>3, <2>4 DEF SessionsSound, FamiliesExist, OneLivePerFamily,
       ReuseEndsFamily, Family, Live, Stored
<1>15. ASSUME NEW w \in Worker, Deactivated(w)
       PROVE  SessionsSound'
  <2> DEFINE R == request[w].rows
  <2>1. R \subseteq Session
    BY <1>15, Shapes DEF Deactivated
  <2>2. \A t \in R : Stored(t) /\ session[t] \in SessionRow
    BY <1>15, <2>1, RowTypes DEF Deactivated, UpdatesSee
  <2>3. /\ \A x \in Worker : x # w => request'[x] = request[x]
        /\ request'[w] = Idle
        /\ late' = late
    BY <1>15 DEF Deactivated, Goes, TypeOK
  <2>4. \A x \in Worker : request[x].op = "rotate" /\ request[x].session \in R =>
            request'[x].op # "rotate"
    BY <1>15, <2>3 DEF Deactivated, LockedFor, LockedBy, Idle
  <2>5. \A t \in Session \ R : session'[t] = session[t]
    BY <1>15 DEF Deactivated
  <2>6. \A t \in R : session'[t] = [session[t] EXCEPT !.revoked = TRUE]
    BY <1>15, <2>1 DEF Deactivated
  <2>7. \A t \in R : /\ session'[t] # NoSession
                     /\ session'[t].family = session[t].family
                     /\ session'[t].revoked
                     /\ session'[t].reused = session[t].reused
    BY <2>2, <2>6 DEF SessionRow, NoSession, Stored
  <2> QED
    BY <2>1, <2>2, <2>3, <2>4, <2>5, <2>7, Revoking
<1>16. ASSUME NEW a, NEW d, Register(a) \/ VerifyEmail(a) \/ SetProfileDecision(a, d)
       PROVE  SessionsSound'
  BY <1>1, <1>16 DEF Register, VerifyEmail, SetProfileDecision
<1>17. CASE UNCHANGED vars
  BY <1>1, <1>17 DEF vars
<1> QED
  BY <1>2, <1>3, <1>4, <1>5, <1>6, <1>7, <1>8, <1>9, <1>11, <1>12,
     <1>14, <1>15, <1>16, <1>17 DEF Next, SessionStep, MemberStep

-----------------------------------------------------------------------------
(* Decisions *)

LEMMA DecisionStep ==
    SessionInv /\ [Next]_vars => (\A a \in Account : profile[a].approval = decided[a])'
<1> SUFFICES ASSUME SessionInv, [Next]_vars,
                    NEW a \in Account
             PROVE  profile'[a].approval = decided'[a]
  OBVIOUS
<1> USE DEF SessionInv
<1>1. CASE UNCHANGED <<profile, decided>>
  BY <1>1
<1>2. ASSUME NEW w \in Worker, NEW b \in Account, NEW x, UpdateProfile(w, b, x)
      PROVE  profile'[a].approval = decided'[a]
  BY <1>2 DEF UpdateProfile, TypeOK, ProfileRow
<1>3. ASSUME NEW w \in Worker, Deactivated(w)
      PROVE  profile'[a].approval = decided'[a]
  BY <1>3 DEF Deactivated, TypeOK, ProfileRow
<1>4. ASSUME NEW b \in Account, NEW d, SetProfileDecision(b, d)
      PROVE  profile'[a].approval = decided'[a]
  BY <1>4 DEF SetProfileDecision, DecidedRow, TypeOK
<1>5. CASE SessionStep
  BY <1>1, <1>5 DEF SessionStep, Login, NewSession, Rotate, Rotated, Issue, Reuse,
     FamilyRevoked, Logout, Aborted
<1>6. CASE MemberStep
  BY <1>1, <1>2, <1>3, <1>6 DEF MemberStep, Authenticate, Block, Unblock, Deactivate
<1> QED
  BY <1>1, <1>4, <1>5, <1>6 DEF Next, Register, VerifyEmail, vars

-----------------------------------------------------------------------------
LEMMA InvInit == Init => SessionInv
<1> SUFFICES ASSUME Init PROVE SessionInv
  OBVIOUS
<1>1. TypeOK
  BY DEF Init, TypeOK, ProfileRow, Visibility
<1>2. SoundAccounts
  BY DEF Init, SoundAccounts, Idle
<1>3. /\ \A s \in Session : ~Stored(s)
      /\ \A w \in Worker : request[w].op = "idle"
  BY DEF Init, Stored, Idle
<1>4. FamiliesExist /\ OneLivePerFamily /\ ReuseEndsFamily
  BY <1>3 DEF FamiliesExist, OneLivePerFamily, ReuseEndsFamily, Live
<1>5. RotationsHold /\ UpdatesSee
  BY <1>3 DEF RotationsHold, UpdatesSee
<1>6. \A a \in Account : profile[a].approval = decided[a]
  BY DEF Init
<1> QED
  BY <1>1, <1>2, <1>4, <1>5, <1>6 DEF SessionInv

LEMMA InvStep == SessionInv /\ [Next]_vars => SessionInv'
BY TypeStep, AccountsStep, SessionsStep, DecisionStep DEF SessionInv, SessionsSound

LEMMA InvAlways == Spec => []SessionInv
BY InvInit, InvStep, PTL DEF Spec

(* Every reachable state of the account service is well typed; the version *)
(* of an account's tokens moves once.                                      *)
THEOREM TypeCorrect == Spec => []TypeOK
BY InvAlways, PTL DEF SessionInv

(* Of each family of sessions at most one can be refreshed, whatever       *)
(* requests present its tokens at once.                                    *)
THEOREM FamiliesAreChains == Spec => []OneLivePerFamily
BY InvAlways, PTL DEF SessionInv

(* After a reuse nothing of its family lives on but what a rotation        *)
(* inserted while the family was being ended, and its successors.          *)
THEOREM ReuseIsAnswered == Spec => []ReuseEndsFamily
BY InvAlways, PTL DEF SessionInv

(* No access token is accepted once its account is deactivated, however    *)
(* late it was issued.                                                     *)
THEOREM DeactivationEndsTokens == Spec => []StaleOnceDeactivated
<1>1. SessionInv => StaleOnceDeactivated
  <2> SUFFICES ASSUME SessionInv, NEW t \in tokens
               PROVE  Accepted(t) \/ account[t.account].tokenVersion > t.tokenVersion
    BY DEF StaleOnceDeactivated
  <2>1. /\ t.account \in Account /\ t.tokenVersion = 1
        /\ account[t.account] # NoAccount
    BY DEF SessionInv, SoundAccounts, TypeOK, Token
  <2>2. account[t.account].tokenVersion = IF Active(t.account) THEN 1 ELSE 2
    BY <2>1 DEF SessionInv, SoundAccounts
  <2>3. CASE Active(t.account)
    BY <2>1, <2>2, <2>3 DEF Accepted
  <2>4. CASE ~Active(t.account)
    BY <2>1, <2>2, <2>4
  <2> QED
    BY <2>3, <2>4
<1> QED
  BY <1>1, InvAlways, PTL

(* The community sees a profile only under a decision that approves it,    *)
(* and the last fact about the profile tells that decision.                *)
THEOREM DecisionsStand == Spec => []DecisionStands
<1>1. SessionInv => DecisionStands
  BY DEF SessionInv, DecisionStands, Shown
<1> QED
  BY <1>1, InvAlways, PTL
=============================================================================
