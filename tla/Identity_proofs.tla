---------------------------- MODULE Identity_proofs ----------------------------
(***************************************************************************)
(* Proofs about Identity, for every value of its constants: the sessions,  *)
(* then the accounts, links and requests, then the administrators.         *)
(***************************************************************************)
EXTENDS Identity, FiniteSetTheorems, WellFoundedInduction, TLAPS

\* A session that was not opened has no token, and of one that was only the
\* token issued last can be alive.
TokensInv ==
    /\ issued \in [Sessions -> Nat]
    /\ DOMAIN session = Sessions
    /\ \A s \in Sessions : session[s] = NoSession => issued[s] = 0
    /\ alive \subseteq Sessions \X Nat
    /\ \A t \in alive : t[2] = issued[t[1]] /\ issued[t[1]] > 0

\* What the requests under way carry: the account of a login, the token of a
\* refresh.
RequestsInv ==
    /\ DOMAIN request = Requests
    /\ \A r \in Requests :
        /\ {"kind", "user", "token", "link"} \subseteq DOMAIN request[r]
        /\ request[r].kind = "login" => request[r].user \in Users
        /\ request[r].kind = "refresh" => request[r].token \in Sessions \X Nat

SessionInv == TokensInv /\ RequestsInv

\* A step that opens no session and issues no token.
Revokes ==
    /\ UNCHANGED <<session, issued>>
    /\ alive' \subseteq alive
-------------------------------------------------------------------------------
LEMMA RevokesKeeps ==
    ASSUME TokensInv, Revokes
    PROVE  TokensInv'
  BY DEF TokensInv, Revokes

\* The record of a request that is received is that of the request, with the
\* account it is about and what was read of it.
LEMMA ReadsKeeps ==
    ASSUME RequestsInv, NEW r \in Requests, NEW u, NEW what, Reads(r, u, what),
           {"kind", "user", "token", "link"} \subseteq DOMAIN what,
           what.kind = "login" => u \in Users,
           what.kind = "refresh" => what.token \in Sessions \X Nat
    PROVE  RequestsInv' /\ Revokes
<1>1. Revokes
  BY DEF Reads, Revokes, sessionVars
<1>2. DOMAIN request' = Requests
  BY DEF Reads, RequestsInv
<1>3. ASSUME NEW x \in Requests
      PROVE  /\ {"kind", "user", "token", "link"} \subseteq DOMAIN request'[x]
             /\ request'[x].kind = "login" => request'[x].user \in Users
             /\ request'[x].kind = "refresh" => request'[x].token \in Sessions \X Nat
  <2>1. CASE x # r
    BY <2>1 DEF Reads, RequestsInv
  <2>2. CASE x = r
    BY <2>2 DEF Reads, RequestsInv
  <2>3. QED
    BY <2>1, <2>2
<1>4. QED
  BY <1>1, <1>2, <1>3 DEF RequestsInv

\* A request that is over carries nothing.
LEMMA DoneKeeps ==
    ASSUME RequestsInv, NEW r \in Requests, Done(r)
    PROVE  RequestsInv'
  BY DEF RequestsInv, Done, Idle

\* One that goes on as neither a login nor a refresh carries neither.
LEMMA GoesOnKeeps ==
    ASSUME RequestsInv, NEW r \in Requests, NEW kind, NEW l,
           kind \notin {"login", "refresh"},
           \/ request' = [request EXCEPT ![r].kind = kind]
           \/ request' = [request EXCEPT ![r].kind = kind, ![r].link = l]
    PROVE  RequestsInv'
  BY DEF RequestsInv

\* What a request is before it reads is a record with all fields.
LEMMA IdleFields ==
    /\ {"kind", "user", "token", "link"} \subseteq DOMAIN Idle
    /\ Idle.kind = "idle"
  BY DEF Idle
-------------------------------------------------------------------------------
\* At first nothing is signed in and nothing is under way.
LEMMA InitSession ==
    Init => SessionInv
<1>1. Init => TokensInv
  BY DEF Init, TokensInv
<1>2. Init => RequestsInv
  BY IdleFields DEF Init, RequestsInv
<1>3. QED
  BY <1>1, <1>2 DEF SessionInv

\* What a step has to show of the sessions.
StepGoal ==
    /\ SessionInv'
    /\ \A s \in Sessions :
          (issued[s] > 0 /\ \A t \in alive : t[1] # s) => \A t \in alive' : t[1] # s

\* A step that only takes tokens away shows it.
LEMMA RevokesIsSound ==
    ASSUME SessionInv, Revokes, RequestsInv'
    PROVE  StepGoal
<1>1. TokensInv'
  BY RevokesKeeps DEF SessionInv
<1>2. \A s \in Sessions :
          (issued[s] > 0 /\ \A t \in alive : t[1] # s) => \A t \in alive' : t[1] # s
  BY DEF Revokes
<1>3. QED
  BY <1>1, <1>2 DEF StepGoal, SessionInv

\* A request that reads shows it.
LEMMA ReadsIsSound ==
    ASSUME SessionInv, NEW r \in Requests, NEW u, NEW what, Reads(r, u, what),
           {"kind", "user", "token", "link"} \subseteq DOMAIN what,
           what.kind = "login" => u \in Users,
           what.kind = "refresh" => what.token \in Sessions \X Nat
    PROVE  StepGoal
  BY ReadsKeeps, RevokesIsSound DEF SessionInv

\* A login opens the next session with its first token.
LEMMA LoginIsSound ==
    ASSUME SessionInv, NEW r \in Requests, FinishLogin(r)
    PROVE  StepGoal
<1>1. PICK s \in Sessions :
         /\ NextSession(s)
         /\ session' = [session EXCEPT ![s] =
               [user |-> request[r].user, password |-> request[r].read.password]]
         /\ alive' = alive \cup {<<s, 1>>}
         /\ issued' = [issued EXCEPT ![s] = 1]
  BY DEF FinishLogin
<1>2. RequestsInv'
  BY DoneKeeps DEF FinishLogin, SessionInv
<1>3. issued[s] = 0 /\ \A t \in alive : t[1] # s
  BY <1>1 DEF NextSession, SessionInv, TokensInv
<1>4. session'[s] # NoSession
  <2>1. request[r].user \in Users
    BY DEF FinishLogin, Writes, SessionInv, RequestsInv
  <2>2. session'[s].user = request[r].user
    BY <1>1 DEF SessionInv, TokensInv
  <2>3. QED
    BY <2>1, <2>2, IdentityAssumption DEF NoSession
<1>5. TokensInv'
  <2>1. issued' \in [Sessions -> Nat] /\ issued'[s] = 1
    BY <1>1 DEF SessionInv, TokensInv
  <2>2. DOMAIN session' = Sessions
    BY <1>1 DEF SessionInv, TokensInv
  <2>3. \A x \in Sessions : session'[x] = NoSession => issued'[x] = 0
    BY <1>1, <1>4 DEF SessionInv, TokensInv
  <2>4. alive' \subseteq Sessions \X Nat
    BY <1>1 DEF SessionInv, TokensInv
  <2>5. ASSUME NEW t \in alive'
        PROVE  t[2] = issued'[t[1]] /\ issued'[t[1]] > 0
    <3>1. CASE t = <<s, 1>>
      BY <2>1, <3>1
    <3>2. CASE t \in alive
      <4>1. t[1] \in Sessions /\ t[1] # s
        BY <1>3, <3>2 DEF SessionInv, TokensInv
      <4>2. issued'[t[1]] = issued[t[1]]
        BY <1>1, <4>1 DEF SessionInv, TokensInv
      <4>3. QED
        BY <3>2, <4>2 DEF SessionInv, TokensInv
    <3>3. QED
      BY <1>1, <3>1, <3>2
  <2>6. QED
    BY <2>1, <2>2, <2>3, <2>4, <2>5 DEF TokensInv
<1>6. ASSUME NEW x \in Sessions, issued[x] > 0, \A t \in alive : t[1] # x
      PROVE  \A t \in alive' : t[1] # x
  <2>1. x # s
    BY <1>3, <1>6
  <2>2. QED
    BY <1>1, <1>6, <2>1
<1>7. QED
  BY <1>2, <1>5, <1>6 DEF StepGoal, SessionInv

\* A refresh exchanges the token of its session, if it is alive, for the next.
LEMMA RefreshIsSound ==
    ASSUME SessionInv, NEW r \in Requests, FinishRefresh(r)
    PROVE  StepGoal
<1> DEFINE t == request[r].token
           s == t[1]
<1>1. RequestsInv'
  BY DoneKeeps DEF FinishRefresh, SessionInv
<1>2. s \in Sessions
  BY DEF FinishRefresh, Writes, SessionInv, RequestsInv
<1>3. CASE ~Rotates(t)
  <2>1. Revokes
    BY <1>3 DEF FinishRefresh, Revokes
  <2>2. QED
    BY <1>1, <2>1, RevokesIsSound
<1>4. CASE Rotates(t)
  <2>1. /\ t \in alive
        /\ alive' = (alive \ {t}) \cup {<<s, issued[s] + 1>>}
        /\ issued' = [issued EXCEPT ![s] = @ + 1]
        /\ session' = session
    BY <1>4 DEF FinishRefresh, Rotates
  <2>2. \A x \in alive \ {t} : x \in Sessions \X Nat /\ x[1] # s
    <3>1. ASSUME NEW x \in alive, x[1] = s
          PROVE  x = t
      <4>1. x \in Sessions \X Nat /\ t \in Sessions \X Nat
        BY <2>1 DEF SessionInv, TokensInv
      <4>2. x[2] = issued[s] /\ t[2] = issued[s]
        BY <2>1, <3>1 DEF SessionInv, TokensInv
      <4>3. QED
        BY <3>1, <4>1, <4>2
    <3>2. QED
      BY <3>1 DEF SessionInv, TokensInv
  <2>3. issued[s] \in Nat /\ issued'[s] = issued[s] + 1
    BY <1>2, <2>1 DEF SessionInv, TokensInv
  <2>4. TokensInv'
    <3>1. issued' \in [Sessions -> Nat]
      BY <1>2, <2>1 DEF SessionInv, TokensInv
    <3>2. issued[s] > 0
      BY <2>1 DEF SessionInv, TokensInv
    <3>3. \A x \in Sessions : session'[x] = NoSession => issued'[x] = 0
      BY <2>1, <2>3, <3>2 DEF SessionInv, TokensInv
    <3>4. alive' \subseteq Sessions \X Nat
      BY <1>2, <2>1, <2>2, <2>3
    <3>5. ASSUME NEW x \in alive'
          PROVE  x[2] = issued'[x[1]] /\ issued'[x[1]] > 0
      <4>1. CASE x = <<s, issued[s] + 1>>
        BY <2>3, <4>1
      <4>2. CASE x \in alive \ {t}
        <5>1. x[1] \in Sessions /\ x[1] # s
          BY <2>2, <4>2
        <5>2. issued'[x[1]] = issued[x[1]]
          BY <2>1, <5>1 DEF SessionInv, TokensInv
        <5>3. QED
          BY <4>2, <5>2 DEF SessionInv, TokensInv
      <4>3. QED
        BY <2>1, <4>1, <4>2
    <3>6. DOMAIN session' = Sessions
      BY <2>1 DEF SessionInv, TokensInv
    <3>7. QED
      BY <3>1, <3>3, <3>4, <3>5, <3>6 DEF TokensInv
  <2>5. ASSUME NEW x \in Sessions, \A y \in alive : y[1] # x
        PROVE  \A y \in alive' : y[1] # x
    <3>1. x # s
      BY <2>1, <2>5
    <3>2. QED
      BY <2>1, <2>5, <3>1
  <2>6. QED
    BY <1>1, <2>4, <2>5 DEF StepGoal, SessionInv
<1>5. QED
  BY <1>3, <1>4
-------------------------------------------------------------------------------
\* Every login, refresh and logout shows it.
LEMMA SessionStepIsSound ==
    ASSUME SessionInv, SessionStep
    PROVE  StepGoal
<1>1. ASSUME NEW r \in Requests, NEW u \in Users, StartLogin(r, u)
      PROVE  StepGoal
  <2> DEFINE what == [Idle EXCEPT !.kind = IF Seen(u).must THEN "first-access" ELSE "login"]
  <2>1. Reads(r, u, what)
    BY <1>1 DEF StartLogin
  <2>2. /\ {"kind", "user", "token", "link"} \subseteq DOMAIN what
        /\ what.kind \in {"first-access", "login"}
    BY IdleFields
  <2> HIDE DEF what
  <2>3. QED
    BY <2>1, <2>2, ReadsIsSound
<1>2. ASSUME NEW s \in Sessions, NEW n \in 1..issued[s], NEW r \in Requests,
             StartRefresh(r, s, n)
      PROVE  StepGoal
  <2> DEFINE what == [Idle EXCEPT !.kind = "refresh", !.token = <<s, n>>]
  <2>1. Reads(r, session[s].user, what)
    BY <1>2 DEF StartRefresh
  <2>2. /\ {"kind", "user", "token", "link"} \subseteq DOMAIN what
        /\ what.kind = "refresh"
        /\ what.token = <<s, n>>
    BY DEF Idle
  <2>3. <<s, n>> \in Sessions \X Nat
    BY <1>2 DEF StartRefresh, SessionInv, TokensInv
  <2> HIDE DEF what
  <2>4. QED
    BY <2>1, <2>2, <2>3, ReadsIsSound
<1>3. ASSUME NEW s \in Sessions, NEW n \in 1..issued[s], Logout(s, n)
      PROVE  StepGoal
  <2>1. Revokes /\ request' = request
    BY <1>3 DEF Logout, Revokes
  <2>2. RequestsInv'
    BY <2>1 DEF SessionInv, RequestsInv
  <2>3. QED
    BY <2>1, <2>2, RevokesIsSound
<1>4. QED
  BY <1>1, <1>2, <1>3, LoginIsSound, RefreshIsSound DEF SessionStep

\* So does every step about a password link or a password.
LEMMA PasswordStepIsSound ==
    ASSUME SessionInv, PasswordStep
    PROVE  StepGoal
<1> USE DEF SessionInv
<1>1. ASSUME NEW r \in Requests,
             \/ FirstAccess(r) \/ Delivered(r) \/ ForgotUndelivered(r)
             \/ CancelReplacement(r) \/ FinishComplete(r) \/ FinishChangeOwn(r)
      PROVE  StepGoal
  <2>1. Done(r)
    BY <1>1 DEF FirstAccess, Delivered, ForgotUndelivered, CancelReplacement,
                FinishComplete, FinishChangeOwn
  <2>2. Revokes
    BY <1>1 DEF FirstAccess, Delivered, ForgotUndelivered, CancelReplacement,
                FinishComplete, FinishChangeOwn, NewPassword, sessionVars, Revokes
  <2>3. QED
    BY <2>1, <2>2, DoneKeeps, RevokesIsSound
<1>2. ASSUME NEW r \in Requests, IssueReset(r) \/ IssueForgot(r) \/ ResetUndelivered(r)
      PROVE  StepGoal
  <2>1. Revokes
    BY <1>2 DEF IssueReset, IssueForgot, ResetUndelivered, sessionVars, Revokes
  <2>2. CASE IssueReset(r)
    <3> DEFINE kind == "reset-mail"
    <3>1. request' = [request EXCEPT ![r].kind = kind, ![r].link = NextLink]
      BY <2>2 DEF IssueReset
    <3>2. kind \notin {"login", "refresh"}
      OBVIOUS
    <3> HIDE DEF kind
    <3>3. RequestsInv'
      BY <3>1, <3>2, GoesOnKeeps
    <3>4. QED
      BY <2>1, <3>3, RevokesIsSound
  <2>3. CASE IssueForgot(r)
    <3> DEFINE kind == "forgot-mail"
    <3>1. request' = [request EXCEPT ![r].kind = kind, ![r].link = NextLink]
      BY <2>3 DEF IssueForgot
    <3>2. kind \notin {"login", "refresh"}
      OBVIOUS
    <3> HIDE DEF kind
    <3>3. RequestsInv'
      BY <3>1, <3>2, GoesOnKeeps
    <3>4. QED
      BY <2>1, <3>3, RevokesIsSound
  <2>4. CASE ResetUndelivered(r)
    <3> DEFINE kind == IF link[request[r].link].state = "open" THEN "restore" ELSE "remove"
    <3>1. request' = [request EXCEPT ![r].kind = kind]
      BY <2>4 DEF ResetUndelivered
    <3>2. kind \notin {"login", "refresh"}
      OBVIOUS
    <3> HIDE DEF kind
    <3>3. RequestsInv'
      BY <3>1, <3>2, GoesOnKeeps
    <3>4. QED
      BY <2>1, <3>3, RevokesIsSound
  <2>5. QED
    BY <1>2, <2>2, <2>3, <2>4
<1>3. ASSUME NEW r \in Requests, NEW actor \in Users, NEW u \in Users,
             StartReset(r, actor, u) \/ StartForgot(r, u) \/ StartChangeOwn(r, u)
      PROVE  StepGoal
  <2>1. PICK kind \in {"reset", "forgot", "change-own"} :
           Reads(r, u, [Idle EXCEPT !.kind = kind])
    BY <1>3 DEF StartReset, StartForgot, StartChangeOwn
  <2> DEFINE what == [Idle EXCEPT !.kind = kind]
  <2>2. {"kind", "user", "token", "link"} \subseteq DOMAIN what /\ what.kind = kind
    BY IdleFields
  <2>3. Reads(r, u, what)
    BY <2>1
  <2> HIDE DEF what
  <2>4. QED
    BY <2>2, <2>3, ReadsIsSound
<1>4. ASSUME NEW r \in Requests, NEW l \in Links, StartComplete(r, l)
      PROVE  StepGoal
  <2> DEFINE what == [Idle EXCEPT !.kind = "complete", !.link = l]
  <2>1. Reads(r, link[l].user, what)
    BY <1>4 DEF StartComplete
  <2>2. {"kind", "user", "token", "link"} \subseteq DOMAIN what /\ what.kind = "complete"
    BY DEF Idle
  <2> HIDE DEF what
  <2>3. QED
    BY <2>1, <2>2, ReadsIsSound
<1>5. ASSUME NEW l \in Links, LinkExpires(l)
      PROVE  StepGoal
  <2>1. Revokes /\ request' = request
    BY <1>5 DEF LinkExpires, sessionVars, Revokes
  <2>2. RequestsInv'
    BY <2>1 DEF RequestsInv
  <2>3. QED
    BY <2>1, <2>2, RevokesIsSound
<1>6. QED
  BY <1>1, <1>2, <1>3, <1>4, <1>5 DEF PasswordStep

\* So does the management of accounts.
LEMMA ManagementStepIsSound ==
    ASSUME SessionInv, ManagementStep
    PROVE  StepGoal
<1> USE DEF SessionInv
<1>1. ASSUME NEW actor \in Users, NEW u \in Users, NEW admin \in BOOLEAN,
             CreateUser(actor, u, admin) \/ SuspensionEnds(u)
      PROVE  StepGoal
  <2>1. Revokes /\ request' = request
    BY <1>1 DEF CreateUser, SuspensionEnds, sessionVars, Revokes
  <2>2. RequestsInv'
    BY <2>1 DEF RequestsInv
  <2>3. QED
    BY <2>1, <2>2, RevokesIsSound
<1>2. ASSUME NEW r \in Requests, NEW actor \in Users, NEW u \in Users,
             NEW admin \in BOOLEAN, StartUpdate(r, actor, u, admin)
      PROVE  StepGoal
  <2> DEFINE what == [Idle EXCEPT !.kind = "update", !.admin = admin]
  <2>1. Reads(r, u, what)
    BY <1>2 DEF StartUpdate
  <2>2. {"kind", "user", "token", "link"} \subseteq DOMAIN what /\ what.kind = "update"
    BY DEF Idle
  <2> HIDE DEF what
  <2>3. QED
    BY <2>1, <2>2, ReadsIsSound
<1>3. ASSUME NEW r \in Requests, NEW actor \in Users, NEW u \in Users,
             NEW to \in Statuses, StartStatus(r, actor, u, to)
      PROVE  StepGoal
  <2> DEFINE what == [Idle EXCEPT !.kind = "status", !.to = to]
  <2>1. Reads(r, u, what)
    BY <1>3 DEF StartStatus
  <2>2. {"kind", "user", "token", "link"} \subseteq DOMAIN what /\ what.kind = "status"
    BY DEF Idle
  <2> HIDE DEF what
  <2>3. QED
    BY <2>1, <2>2, ReadsIsSound
<1>4. ASSUME NEW r \in Requests, NEW actor \in Users, NEW u \in Users,
             StartDelete(r, actor, u)
      PROVE  StepGoal
  <2> DEFINE what == [Idle EXCEPT !.kind = "delete"]
  <2>1. Reads(r, u, what)
    BY <1>4 DEF StartDelete
  <2>2. {"kind", "user", "token", "link"} \subseteq DOMAIN what /\ what.kind = "delete"
    BY IdleFields
  <2> HIDE DEF what
  <2>3. QED
    BY <2>1, <2>2, ReadsIsSound
<1>5. ASSUME NEW r \in Requests, FinishUpdate(r) \/ FinishStatus(r) \/ FinishDelete(r)
      PROVE  StepGoal
  <2>1. Done(r)
    BY <1>5 DEF FinishUpdate, FinishStatus, FinishDelete
  <2>2. Revokes
    BY <1>5 DEF FinishUpdate, FinishStatus, FinishDelete, sessionVars, Revokes
  <2>3. QED
    BY <2>1, <2>2, DoneKeeps, RevokesIsSound
<1>6. QED
  BY <1>1, <1>2, <1>3, <1>4, <1>5 DEF ManagementStep

\* A restart forgets the requests under way and leaves the sessions alone.
LEMMA RestartIsSound ==
    ASSUME SessionInv, Restart
    PROVE  StepGoal
<1>1. Revokes
  BY DEF Restart, sessionVars, Revokes
<1>2. RequestsInv'
  BY IdleFields DEF Restart, RequestsInv
<1>3. QED
  BY <1>1, <1>2, RevokesIsSound

LEMMA StepIsSound ==
    ASSUME SessionInv, [Next]_vars
    PROVE  StepGoal
<1>1. CASE Next
  BY <1>1, SessionStepIsSound, PasswordStepIsSound, ManagementStepIsSound,
     RestartIsSound DEF Next
<1>2. CASE UNCHANGED vars
  BY <1>2 DEF vars, StepGoal, SessionInv, TokensInv, RequestsInv
<1>3. QED
  BY <1>1, <1>2
-------------------------------------------------------------------------------
LEMMA SessionInvariant == Spec => []SessionInv
<1>1. SessionInv /\ [Next]_vars => SessionInv'
  BY StepIsSound DEF StepGoal
<1>2. QED
  BY <1>1, InitSession, PTL DEF Spec

\* A session that ended, by logout, password change, status change or deletion,
\* never has a token again, however many requests are under way.
THEOREM SessionsEndForGood == Spec => SessionEndsForGood
<1>1. ASSUME SessionInv, [Next]_vars
      PROVE  [\A s \in Sessions :
                (issued[s] > 0 /\ \A t \in alive : t[1] # s)
                   => \A t \in alive' : t[1] # s]_vars
  BY <1>1, StepIsSound DEF StepGoal
<1>2. QED
  BY <1>1, SessionInvariant, PTL DEF Spec, SessionEndsForGood

\* A session has one refresh token at most: the one issued last.
THEOREM OneToken == Spec => []OneTokenPerSession
<1>1. SessionInv => OneTokenPerSession
  <2>1. SUFFICES ASSUME SessionInv, NEW s \in Sessions
                 PROVE  Cardinality({t \in alive : t[1] = s}) <= 1
    BY DEF OneTokenPerSession
  <2> DEFINE mine == {t \in alive : t[1] = s}
  <2>2. mine \subseteq {<<s, issued[s]>>}
    BY <2>1 DEF SessionInv, TokensInv
  <2>3. mine = {} \/ mine = {<<s, issued[s]>>}
    BY <2>2
  <2>4. Cardinality(mine) = 0 \/ Cardinality(mine) = 1
    BY <2>3, FS_EmptySet, FS_Singleton
  <2>5. QED
    BY <2>4
<1>2. QED
  BY <1>1, SessionInvariant, PTL
-------------------------------------------------------------------------------
(* The least and the greatest of finitely many numbers, from the               *)
(* well-foundedness of strict inclusion.                                       *)

\* Of sets of numbers up to N, one contains no other.
LEMMA SmallestSet ==
    ASSUME NEW N \in Nat, NEW T \in SUBSET (SUBSET (0 .. N)), T # {}
    PROVE  \E d \in T : \A e \in T : <<e, d>> \notin StrictSubsetOrdering(0 .. N)
<1>1. ASSUME NEW e \in T PROVE IsFiniteSet(e)
  <2>1. e \subseteq 0 .. N /\ IsFiniteSet(0 .. N)
    BY FS_Interval
  <2>2. QED
    BY <2>1, FS_Subset
<1>2. T \subseteq FiniteSubsetsOf(0 .. N)
  BY <1>1 DEF FiniteSubsetsOf
<1>3. QED
  BY <1>2, FS_StrictSubsetOrderingWellFounded, WFMin, Zenon

\* A set that is not strictly below another and is contained in it equals it.
LEMMA NotSmaller ==
    ASSUME NEW N \in Nat, NEW d \in SUBSET (0 .. N), NEW e \in SUBSET (0 .. N),
           <<e, d>> \notin StrictSubsetOrdering(0 .. N)
    PROVE  e \subseteq d => e = d
<1>1. <<e, d>> \in (SUBSET (0 .. N)) \X (SUBSET (0 .. N))
  OBVIOUS
<1>2. QED
  BY <1>1 DEF StrictSubsetOrdering

\* Min and Max of numbers up to a bound are among them.
LEMMA MinIsElement ==
    ASSUME NEW N \in Nat, NEW S \in SUBSET (0 .. N), S # {}
    PROVE  Min(S) \in S
<1> DEFINE T == {0 .. x : x \in S}
<1>1. \A x \in S : 0 .. x \in SUBSET (0 .. N)
  OBVIOUS
<1>2. T \in SUBSET (SUBSET (0 .. N)) /\ T # {}
  BY <1>1
<1>3. PICK d \in T : \A e \in T : <<e, d>> \notin StrictSubsetOrdering(0 .. N)
  <2> HIDE DEF T
  <2>1. QED
    BY <1>2, SmallestSet
<1>4. PICK x \in S : d = 0 .. x
  OBVIOUS
<1>5. ASSUME NEW y \in S, y < x PROVE FALSE
  <2>1. (0 .. y) \subseteq d /\ x \in d /\ x \notin 0 .. y
    BY <1>4, <1>5
  <2>2. <<0 .. y, d>> \notin StrictSubsetOrdering(0 .. N)
    BY <1>3
  <2>3. 0 .. y = d
    BY <1>1, <1>4, <2>1, <2>2, NotSmaller
  <2>4. QED
    BY <2>1, <2>3
<1>6. \A y \in S : x =< y
  BY <1>5
<1>7. QED
  BY <1>6 DEF Min

LEMMA MaxIsElement ==
    ASSUME NEW N \in Nat, NEW S \in SUBSET (0 .. N), S # {}
    PROVE  Max(S) \in S
<1> DEFINE T == {x .. N : x \in S}
<1>1. \A x \in S : x .. N \in SUBSET (0 .. N)
  OBVIOUS
<1>2. T \in SUBSET (SUBSET (0 .. N)) /\ T # {}
  BY <1>1
<1>3. PICK d \in T : \A e \in T : <<e, d>> \notin StrictSubsetOrdering(0 .. N)
  <2> HIDE DEF T
  <2>1. QED
    BY <1>2, SmallestSet
<1>4. PICK x \in S : d = x .. N
  OBVIOUS
<1>5. ASSUME NEW y \in S, y > x PROVE FALSE
  <2>1. (y .. N) \subseteq d /\ x \in d /\ x \notin y .. N
    BY <1>4, <1>5
  <2>2. <<y .. N, d>> \notin StrictSubsetOrdering(0 .. N)
    BY <1>3
  <2>3. y .. N = d
    BY <1>1, <1>4, <2>1, <2>2, NotSmaller
  <2>4. QED
    BY <2>1, <2>3
<1>6. \A y \in S : x >= y
  BY <1>5
<1>7. QED
  BY <1>6 DEF Max
-------------------------------------------------------------------------------
(* Accounts.  Whatever happens to an account, its version never falls, and as   *)
(* long as it stays the same the password stays the same: this is what makes a  *)
(* version in an access token stand for the password it was signed with.        *)

\* An account that may exist: one with its first password has to replace it.
Sound(a) ==
    /\ a \in AccountType
    /\ a.phase = "absent" => a = Absent
    /\ a.phase = "live" /\ a.password = 0 => a.must

\* b is what a step may make of the account a.
Onward(a, b) ==
    /\ Sound(b)
    /\ a.phase # "absent" => b.phase # "absent"
    /\ b.version >= a.version
    /\ b.version = a.version => b.password = a.password

\* x was read or signed when the account was a, or before.
Past(x, a) ==
    /\ x.version <= a.version
    /\ x.version = a.version => x.password = a.password

AccountsInv ==
    /\ account \in [Users -> AccountType]
    /\ \A u \in Users : Sound(account[u])
    /\ root \in Users \cup {None}
    /\ root # None => account[root].phase = "live"

LEMMA OnwardSame == ASSUME NEW a, Sound(a) PROVE Onward(a, a)
  BY DEF Sound, Onward, AccountType

LEMMA PastOnward ==
    ASSUME NEW x, x.version \in Nat, NEW a, NEW b, Sound(a), Past(x, a), Onward(a, b)
    PROVE  Past(x, b)
  BY DEF Sound, Past, Onward, AccountType

LEMMA NewAccountOnward ==
    ASSUME NEW admin \in BOOLEAN
    PROVE  Sound(NewAccount(admin)) /\ Onward(Absent, NewAccount(admin))
  BY DEF Onward, Sound, NewAccount, Absent, AccountType, Statuses

LEMMA Onwards ==
    ASSUME NEW a, Sound(a), a.phase # "absent", NEW b \in AccountType,
           b.phase # "absent",
           b.phase = "live" => a.phase = "live",
           b.must = a.must \/ b.must = TRUE \/ b.password > 0,
           \/ b.version = a.version + 1 /\ b.password >= a.password
           \/ b.version = a.version /\ b.password = a.password
    PROVE  Onward(a, b)
<1>1. a.version \in Nat /\ b.version \in Nat /\ a.password \in Nat /\ b.password \in Nat
  BY DEF Sound, AccountType
<1>2. Sound(b)
  BY <1>1 DEF Sound
<1>3. QED
  BY <1>1, <1>2 DEF Onward

\* What the steps make of an account that exists.
Renewed(a)     == [a EXCEPT !.password = @ + 1, !.must = FALSE, !.version = @ + 1]
Promoted(a, x) == [a EXCEPT !.admin = x]
Turned(a, to)  == [a EXCEPT !.status = to, !.due = FALSE, !.version = @ + 1]
Deleted(a)     == [a EXCEPT !.phase = "deleted", !.admin = FALSE, !.status = "inactive",
                            !.due = FALSE, !.version = @ + 1]
Expired(a)     == [a EXCEPT !.due = TRUE]
Reinstated(a)   == [a EXCEPT !.status = "active", !.due = FALSE, !.admin = TRUE,
                            !.must = @ \/ a.password = 0]

LEMMA RenewedOnward ==
    ASSUME NEW a, Sound(a), a.phase # "absent"
    PROVE  /\ Onward(a, Renewed(a)) /\ Renewed(a).phase = a.phase
           /\ Renewed(a).admin = a.admin /\ Renewed(a).status = a.status
<1> DEFINE p == a.password + 1
           v == a.version + 1
<1>1. a \in AccountType /\ p \in Nat /\ v \in Nat /\ p > 0 /\ p >= a.password
  BY DEF Sound, AccountType
<1>2. Renewed(a) = [a EXCEPT !.password = p, !.must = FALSE, !.version = v]
  BY <1>1 DEF Renewed, AccountType
<1> HIDE DEF p, v
<1>3. /\ Renewed(a) \in AccountType /\ Renewed(a).password = p
      /\ Renewed(a).version = v /\ Renewed(a).phase = a.phase
      /\ Renewed(a).admin = a.admin /\ Renewed(a).status = a.status
  BY <1>1, <1>2 DEF AccountType
<1>4. QED
  BY <1>1, <1>3, Onwards DEF p, v

LEMMA PromotedOnward ==
    ASSUME NEW a, Sound(a), a.phase # "absent", NEW admin \in BOOLEAN
    PROVE  /\ Onward(a, Promoted(a, admin)) /\ Promoted(a, admin).phase = a.phase
           /\ Promoted(a, admin).admin = admin /\ Promoted(a, admin).status = a.status
<1>1. /\ Promoted(a, admin) \in AccountType /\ Promoted(a, admin).phase = a.phase
      /\ Promoted(a, admin).must = a.must
      /\ Promoted(a, admin).version = a.version
      /\ Promoted(a, admin).password = a.password
      /\ Promoted(a, admin).admin = admin /\ Promoted(a, admin).status = a.status
  BY DEF Promoted, Sound, AccountType
<1>2. QED
  BY <1>1, Onwards

LEMMA TurnedOnward ==
    ASSUME NEW a, Sound(a), a.phase # "absent", NEW to \in Statuses
    PROVE  /\ Onward(a, Turned(a, to)) /\ Turned(a, to).phase = a.phase
           /\ Turned(a, to).admin = a.admin /\ Turned(a, to).status = to
<1> DEFINE v == a.version + 1
<1>1. a \in AccountType /\ v \in Nat
  BY DEF Sound, AccountType
<1>2. Turned(a, to) = [a EXCEPT !.status = to, !.due = FALSE, !.version = v]
  BY <1>1 DEF Turned, AccountType
<1> HIDE DEF v
<1>3. /\ Turned(a, to) \in AccountType /\ Turned(a, to).phase = a.phase
      /\ Turned(a, to).must = a.must /\ Turned(a, to).password = a.password
      /\ Turned(a, to).version = v
      /\ Turned(a, to).admin = a.admin /\ Turned(a, to).status = to
  BY <1>1, <1>2 DEF AccountType
<1>4. Turned(a, to).password >= a.password
  <2>1. a.password \in Nat
    BY <1>1 DEF AccountType
  <2>2. QED
    BY <1>3, <2>1
<1>5. QED
  BY <1>3, <1>4, Onwards DEF v

LEMMA DeletedOnward ==
    ASSUME NEW a, Sound(a), a.phase # "absent"
    PROVE  /\ Onward(a, Deleted(a)) /\ Deleted(a).phase = "deleted"
           /\ Deleted(a).admin = FALSE
<1> DEFINE v == a.version + 1
<1>1. a \in AccountType /\ v \in Nat
  BY DEF Sound, AccountType
<1>2. Deleted(a) = [a EXCEPT !.phase = "deleted", !.admin = FALSE, !.status = "inactive",
                             !.due = FALSE, !.version = v]
  BY <1>1 DEF Deleted, AccountType
<1> HIDE DEF v
<1>3. /\ Deleted(a) \in AccountType /\ Deleted(a).phase = "deleted"
      /\ Deleted(a).must = a.must /\ Deleted(a).password = a.password
      /\ Deleted(a).version = v /\ Deleted(a).admin = FALSE
  BY <1>1, <1>2 DEF AccountType, Statuses
<1>4. Deleted(a).password >= a.password
  <2>1. a.password \in Nat
    BY <1>1 DEF AccountType
  <2>2. QED
    BY <1>3, <2>1
<1>5. QED
  BY <1>3, <1>4, Onwards DEF v

LEMMA ExpiredOnward ==
    ASSUME NEW a, Sound(a), a.phase # "absent"
    PROVE  /\ Onward(a, Expired(a)) /\ Expired(a).phase = a.phase
           /\ Expired(a).admin = a.admin /\ Expired(a).status = a.status
<1>1. /\ Expired(a) \in AccountType /\ Expired(a).phase = a.phase
      /\ Expired(a).must = a.must /\ Expired(a).version = a.version
      /\ Expired(a).password = a.password
      /\ Expired(a).admin = a.admin /\ Expired(a).status = a.status
  BY DEF Expired, Sound, AccountType
<1>2. QED
  BY <1>1, Onwards

LEMMA ReinstatedOnward ==
    ASSUME NEW a, Sound(a), a.phase # "absent"
    PROVE  /\ Onward(a, Reinstated(a)) /\ Reinstated(a).phase = a.phase
           /\ Reinstated(a).admin = TRUE /\ Reinstated(a).status = "active"
<1> DEFINE must == a.must \/ a.password = 0
<1>1. a \in AccountType /\ must \in BOOLEAN /\ (must = a.must \/ must = TRUE)
  BY DEF Sound, AccountType
<1>2. Reinstated(a) = [a EXCEPT !.status = "active", !.due = FALSE, !.admin = TRUE,
                                !.must = must]
  BY <1>1 DEF Reinstated, AccountType
<1> HIDE DEF must
<1>3. /\ Reinstated(a) \in AccountType /\ Reinstated(a).phase = a.phase
      /\ Reinstated(a).version = a.version /\ Reinstated(a).password = a.password
      /\ Reinstated(a).must = must
      /\ Reinstated(a).admin = TRUE /\ Reinstated(a).status = "active"
  BY <1>1, <1>2 DEF AccountType, Statuses
<1>4. QED
  BY <1>1, <1>3, Onwards

\* Reading an account ends a suspension that is over, and nothing else.
LEMMA SeenOnward ==
    ASSUME AccountsInv, NEW u \in Users
    PROVE  /\ Onward(account[u], Seen(u)) /\ Seen(u).phase = account[u].phase
           /\ Seen(u).admin = account[u].admin
           /\ account[u].status = "active" => Seen(u).status = "active"
<1> DEFINE a == account[u]
<1>1. Sound(a)
  BY DEF AccountsInv
<1>2. \/ Seen(u) = a
      \/ /\ a.phase = "live" /\ a.status = "suspended"
         /\ Seen(u) = Turned(a, "active")
  BY DEF Seen, Turned
<1> HIDE DEF a
<1>3. CASE Seen(u) = a
  BY <1>1, <1>3, OnwardSame DEF a
<1>4. CASE /\ a.phase = "live" /\ a.status = "suspended"
           /\ Seen(u) = Turned(a, "active")
  <2>1. Onward(a, Seen(u))
    BY <1>1, <1>4, TurnedOnward DEF Statuses
  <2>2. Seen(u).phase = a.phase /\ Seen(u).admin = a.admin
    BY <1>1, <1>4, TurnedOnward DEF Statuses
  <2>3. QED
    BY <1>4, <2>1, <2>2 DEF a
<1>5. QED
  BY <1>2, <1>3, <1>4

AllOnward ==
    /\ account' \in [Users -> AccountType]
    /\ \A u \in Users : Onward(account[u], account'[u])

\* A step that changes one account.
LEMMA OneChanged ==
    ASSUME AccountsInv, NEW u \in Users, NEW b, Onward(account[u], b), Changed(u, b)
    PROVE  /\ AllOnward /\ account'[u] = b
           /\ \A x \in Users \ {u} : account'[x] = account[x]
<1>1. b \in AccountType
  BY DEF Onward, Sound
<1>2. \A x \in Users \ {u} : account'[x] = account[x] /\ Onward(account[x], account[x])
  BY OnwardSame DEF AccountsInv, Changed
<1>3. account'[u] = b
  BY DEF AccountsInv, Changed
<1>4. QED
  BY <1>1, <1>2, <1>3 DEF AllOnward, AccountsInv, Changed

LEMMA NoneChanged ==
    ASSUME AccountsInv, account' = account
    PROVE  AllOnward
  BY OnwardSame DEF AllOnward, AccountsInv
-------------------------------------------------------------------------------
(* What the requests under way carry, the open sessions hold and the links     *)
(* name, with respect to the accounts and the sessions of the same state.      *)

RequestType == [kind : Kinds, user : Users \cup {None}, read : AccountType,
                to : Statuses \cup {"none"}, admin : BOOLEAN, link : 0..MaxLinks,
                token : Nat \X Nat]

Opened(ses, s, u) == s \in Sessions /\ ses[s] # NoSession /\ ses[s].user = u

\* A request names an account that exists, the link or the session it is about,
\* and what it read of the account was true of it.
Orderly(q, acc, ses) ==
    /\ q \in RequestType
    /\ q.kind # "idle" => q.user \in Users /\ acc[q.user].phase # "absent"
    /\ q.kind \in {"update", "status"} => q.read.phase = "live"
    /\ q.kind = "status" => q.to \in Statuses
    /\ q.kind \in {"reset-mail", "forgot-mail", "restore", "remove", "complete"}
          => q.link \in Links
    /\ q.kind = "refresh" => Opened(ses, q.token[1], q.user)
    /\ q.kind = "login" => q.read.password > 0
    /\ q.kind \in {"login", "refresh"} => Past(q.read, acc[q.user])

WorkInv ==
    /\ DOMAIN request = Requests
    /\ \A r \in Requests : Orderly(request[r], account, session)

\* What a session holds: who opened it, with a password of his own, and an access
\* token signed for the password of its version.
OpenedSoundly(h, x, acc) ==
    h # NoSession => h.user \in Users /\ h.password > 0 /\ Past(x, acc[h.user])

CredentialsInv ==
    /\ session \in [Sessions -> [user : Users \cup {None}, password : Nat]]
    /\ access \in [Sessions -> [version : Nat, password : Nat]]
    /\ \A s \in Sessions : OpenedSoundly(session[s], access[s], account)

LinkType == [user : Users \cup {None}, reason : {"admin-reset", "first-access"},
             state : {"none", "open", "consumed", "gone"},
             by : 0..MaxLinks, expired : BOOLEAN]

\* A link that set a password cannot be opened again: no other link replaced it.
UsedSoundly(k, n) ==
    /\ k.state \in {"open", "consumed"} => k.user \in Users
    /\ n = 0 \/ n = 1
    /\ n = 1 => k.state = "gone" \/ (k.state = "consumed" /\ k.by = 0)

LinksInv ==
    /\ link \in [Links -> LinkType] /\ uses \in [Links -> Nat]
    /\ \A l \in Links : UsedSoundly(link[l], uses[l])

BoundsInv ==
    asked \in 0..MaxRequests /\ restarts \in 0..MaxRestarts /\ overtaken \in BOOLEAN

IdentityInv == AccountsInv /\ WorkInv /\ CredentialsInv /\ LinksInv /\ BoundsInv

LEMMA BoundsAreNumbers ==
    /\ MaxSessions \in Nat /\ MaxLinks \in Nat /\ MaxRequests \in Nat
    /\ MaxRestarts \in Nat
  BY IdentityAssumption

LEMMA IdleOrderly ==
    /\ Idle \in RequestType /\ Idle.kind = "idle"
    /\ Absent \in AccountType /\ Sound(Absent)
    /\ \A acc, ses : Orderly(Idle, acc, ses)
<1>1. Absent \in AccountType /\ Sound(Absent)
  BY DEF Absent, AccountType, Statuses, Sound
<1>2. Idle \in RequestType /\ Idle.kind = "idle"
  BY <1>1, BoundsAreNumbers DEF Idle, RequestType, Kinds
<1>3. QED
  BY <1>1, <1>2 DEF Orderly

LEMMA InitIdentity == Init => IdentityInv
<1> SUFFICES ASSUME Init PROVE IdentityInv
  OBVIOUS
<1>1. ASSUME NEW admin \in BOOLEAN
      PROVE  /\ Sound(OldAccount(admin)) /\ OldAccount(admin).phase = "live"
             /\ Sound(NewAccount(admin)) /\ NewAccount(admin).phase = "live"
  <2>1. /\ NewAccount(admin) \in AccountType /\ NewAccount(admin).phase = "live"
        /\ NewAccount(admin).must = TRUE
    BY DEF NewAccount, AccountType, Statuses
  <2>2. /\ OldAccount(admin) \in AccountType /\ OldAccount(admin).phase = "live"
        /\ OldAccount(admin).password = 1
    BY DEF OldAccount, NewAccount, AccountType, Statuses
  <2>3. QED
    BY <2>1, <2>2 DEF Sound
<1>2. AccountsInv
  <2>1. \A u \in Users : Sound(account[u])
    BY <1>1, IdleOrderly DEF Init
  <2>2. account \in [Users -> AccountType]
    BY <2>1 DEF Init, Sound
  <2>3. account[FirstRoot].phase = "live"
    BY <1>1, IdentityAssumption DEF Init
  <2>4. QED
    BY <2>1, <2>2, <2>3, IdentityAssumption DEF Init, AccountsInv
<1>3. WorkInv
  BY IdleOrderly DEF Init, WorkInv
<1>4. CredentialsInv
  BY DEF Init, CredentialsInv, NoSession, NoAccess, OpenedSoundly
<1>5. LinksInv
  BY BoundsAreNumbers DEF Init, LinksInv, NoLink, LinkType, UsedSoundly
<1>6. BoundsInv
  <2>1. asked = 0 /\ restarts = 0 /\ overtaken = FALSE
    BY DEF Init
  <2>2. asked \in 0..MaxRequests /\ restarts \in 0..MaxRestarts
    BY <2>1, BoundsAreNumbers
  <2>3. QED
    BY <2>1, <2>2 DEF BoundsInv
<1>7. QED
  BY <1>2, <1>3, <1>4, <1>5, <1>6 DEF IdentityInv
-------------------------------------------------------------------------------
\* A request that has begun stays orderly while accounts only go onward and no
\* session is forgotten.
SessionsStay == \A s \in Sessions : session[s] # NoSession => session'[s] = session[s]

LEMMA OrderlyStays ==
    ASSUME AccountsInv, AllOnward, SessionsStay, NEW q, Orderly(q, account, session)
    PROVE  Orderly(q, account', session')
<1>1. /\ q \in RequestType
      /\ q.kind # "idle" => q.user \in Users /\ account[q.user].phase # "absent"
  BY DEF Orderly
<1>2. q.kind # "idle" => account'[q.user].phase # "absent"
  BY <1>1 DEF AllOnward, Onward
<1>3. q.kind = "refresh" => Opened(session', q.token[1], q.user)
  BY DEF Orderly, Opened, SessionsStay
<1>4. q.read.version \in Nat
  BY <1>1 DEF RequestType, AccountType
<1>5. q.kind \in {"login", "refresh"} => Past(q.read, account'[q.user])
  <2>1. SUFFICES ASSUME q.kind \in {"login", "refresh"}
                 PROVE  Past(q.read, account'[q.user])
    OBVIOUS
  <2>2. Past(q.read, account[q.user]) /\ q.user \in Users
    BY <1>1, <2>1 DEF Orderly
  <2>3. Sound(account[q.user]) /\ Onward(account[q.user], account'[q.user])
    BY <2>2 DEF AccountsInv, AllOnward
  <2>4. QED
    BY <1>4, <2>2, <2>3, PastOnward
<1>6. QED
  BY <1>1, <1>2, <1>3, <1>5 DEF Orderly

\* The requests after a step that leaves them alone, ends one or changes one.
LEMMA WorkStays ==
    ASSUME IdentityInv, AllOnward, SessionsStay, request' = request
    PROVE  WorkInv'
  BY OrderlyStays DEF IdentityInv, WorkInv

LEMMA WorkOneMore ==
    ASSUME IdentityInv, AllOnward, SessionsStay, NEW r \in Requests, NEW q,
           request' = [request EXCEPT ![r] = q], Orderly(q, account', session')
    PROVE  WorkInv'
<1>1. DOMAIN request' = Requests /\ request'[r] = q
  BY DEF IdentityInv, WorkInv
<1>2. ASSUME NEW x \in Requests PROVE Orderly(request'[x], account', session')
  <2>1. CASE x = r
    BY <1>1, <2>1
  <2>2. CASE x # r
    BY <2>2, OrderlyStays DEF IdentityInv, WorkInv
  <2>3. QED
    BY <2>1, <2>2
<1>3. QED
  BY <1>1, <1>2 DEF WorkInv

LEMMA WorkDone ==
    ASSUME IdentityInv, AllOnward, SessionsStay, NEW r \in Requests, Done(r)
    PROVE  WorkInv'
  BY WorkOneMore, IdleOrderly DEF Done

\* The sessions after a step that opens none and signs nothing.
LEMMA CredentialsStay ==
    ASSUME IdentityInv, AllOnward, UNCHANGED <<session, access>>
    PROVE  CredentialsInv' /\ SessionsStay
<1>1. ASSUME NEW s \in Sessions, session[s] # NoSession
      PROVE  Past(access[s], account'[session[s].user])
  <2>1. /\ session[s].user \in Users /\ Past(access[s], account[session[s].user])
        /\ access[s].version \in Nat
    BY <1>1 DEF IdentityInv, CredentialsInv, OpenedSoundly
  <2>2. /\ Sound(account[session[s].user])
        /\ Onward(account[session[s].user], account'[session[s].user])
    BY <2>1 DEF IdentityInv, AccountsInv, AllOnward
  <2>3. QED
    BY <2>1, <2>2, PastOnward
<1>2. SessionsStay
  BY DEF SessionsStay
<1>3. QED
  BY <1>1, <1>2 DEF IdentityInv, CredentialsInv, OpenedSoundly

\* The accounts after a step that leaves the administrator's username where it is.
LEMMA AccountsStay ==
    ASSUME IdentityInv, AllOnward, root' = root,
           root # None => account'[root].phase = "live"
    PROVE  AccountsInv'
  BY DEF IdentityInv, AccountsInv, AllOnward, Onward

LEMMA LinksStay ==
    ASSUME IdentityInv, UNCHANGED <<link, uses>>
    PROVE  LinksInv'
  BY DEF IdentityInv, LinksInv
-------------------------------------------------------------------------------
(* A request that is received.                                                 *)

Wanted(u, what) ==
    /\ what \in RequestType /\ what.kind # "idle"
    /\ Seen(u).phase = "live"
    /\ what.kind = "status" => what.to \in Statuses
    /\ what.kind \in {"reset-mail", "forgot-mail", "restore", "remove", "complete"}
          => what.link \in Links
    /\ what.kind = "refresh" => Opened(session, what.token[1], u)
    /\ what.kind = "login" => Seen(u).password > 0

Receives ==
    /\ asked < MaxRequests
    /\ \E r \in Requests, u \in Users, what \in RequestType :
          Reads(r, u, what) /\ Wanted(u, what)

LEMMA KeptFields ==
    ASSUME NEW kind, NEW a \in AccountType
    PROVE  /\ Kept(kind, a) \in AccountType
           /\ kind \in {"login", "refresh"} =>
                 /\ Kept(kind, a).password = a.password
                 /\ Kept(kind, a).version = a.version
           /\ kind \in {"update", "status"} =>
                 /\ Kept(kind, a).phase = a.phase
                 /\ Kept(kind, a).status = a.status
                 /\ Kept(kind, a).admin = a.admin
<1>1. Absent \in AccountType
  BY IdleOrderly
<1>2. CASE kind \in {"login", "refresh"}
  <2>1. Kept(kind, a) = [Absent EXCEPT !.password = a.password, !.version = a.version]
    BY <1>2 DEF Kept
  <2>2. QED
    BY <1>1, <1>2, <2>1 DEF AccountType
<1>3. CASE kind \in {"update", "status"}
  <2>1. Kept(kind, a) = [Absent EXCEPT !.phase = a.phase, !.status = a.status,
                                       !.admin = a.admin]
    BY <1>3 DEF Kept
  <2>2. QED
    BY <1>1, <1>3, <2>1 DEF AccountType
<1>4. CASE kind \notin {"login", "refresh", "update", "status"}
  BY <1>1, <1>4 DEF Kept
<1>5. QED
  BY <1>2, <1>3, <1>4

LEMMA ReceivedStep ==
    ASSUME IdentityInv, Receives
    PROVE  IdentityInv'
<1> PICK r \in Requests, u \in Users, what \in RequestType :
       Reads(r, u, what) /\ Wanted(u, what)
  BY DEF Receives
<1>1. AccountsInv /\ Onward(account[u], Seen(u)) /\ Seen(u).phase = account[u].phase
  BY SeenOnward DEF IdentityInv
<1>2. AllOnward /\ account'[u] = Seen(u) /\ \A x \in Users \ {u} : account'[x] = account[x]
  BY <1>1, OneChanged DEF Reads
<1>3. CredentialsInv' /\ SessionsStay
  BY <1>2, CredentialsStay DEF Reads, sessionVars
<1>4. AccountsInv'
  <2>1. root # None => account'[root].phase = "live"
    BY <1>1, <1>2 DEF AccountsInv
  <2>2. QED
    BY <1>2, <2>1, AccountsStay DEF Reads
<1>5. WorkInv'
  <2> DEFINE kept == Kept(what.kind, Seen(u))
             q == [what EXCEPT !.user = u, !.read = kept]
  <2>1. request' = [request EXCEPT ![r] = q]
    BY DEF Reads
  <2>2. /\ Seen(u) \in AccountType /\ kept \in AccountType
        /\ what.kind \in {"login", "refresh"} =>
              kept.password = Seen(u).password /\ kept.version = Seen(u).version
        /\ what.kind \in {"update", "status"} => kept.phase = "live"
    BY <1>1, KeptFields DEF Onward, Sound, Wanted
  <2> HIDE DEF kept
  <2>3. /\ q \in RequestType /\ q.kind = what.kind /\ q.user = u /\ q.read = kept
        /\ q.to = what.to /\ q.link = what.link /\ q.token = what.token
    BY <2>2 DEF RequestType
  <2> HIDE DEF q
  <2>4. Past(kept, account'[u]) \/ what.kind \notin {"login", "refresh"}
    BY <1>2, <2>2 DEF Past, AccountType
  <2>5. what.kind = "refresh" => Opened(session', what.token[1], u)
    BY <1>3 DEF Wanted, Opened, SessionsStay
  <2>6. account'[u].phase # "absent"
    BY <1>2 DEF Wanted
  <2>7. Orderly(q, account', session')
    BY <2>2, <2>3, <2>4, <2>5, <2>6 DEF Wanted, Orderly
  <2>8. QED
    BY <1>2, <1>3, <2>1, <2>7, WorkOneMore
<1>6. LinksInv'
  BY LinksStay DEF Reads
<1>7. BoundsInv'
  <2>1. asked' \in 0..MaxRequests
    BY BoundsAreNumbers DEF Receives, Reads, BoundsInv, IdentityInv
  <2>2. QED
    BY <2>1 DEF Reads, BoundsInv, IdentityInv
<1>8. QED
  BY <1>3, <1>4, <1>5, <1>6, <1>7 DEF IdentityInv

\* Every request that is received is one of these.
LEMMA Wants ==
    ASSUME NEW kind \in Kinds
    PROVE  /\ [Idle EXCEPT !.kind = kind] \in RequestType
           /\ [Idle EXCEPT !.kind = kind].kind = kind
  BY IdleOrderly DEF RequestType

LEMMA ReceivedCases ==
    ASSUME IdentityInv, SessionInv, NEW r \in Requests,
           \/ \E u \in Users : StartLogin(r, u)
           \/ \E s \in Sessions : \E n \in 1..issued[s] : StartRefresh(r, s, n)
           \/ \E actor, u \in Users : StartReset(r, actor, u)
           \/ \E u \in Users : StartForgot(r, u)
           \/ \E l \in Links : StartComplete(r, l)
           \/ \E u \in Users : StartChangeOwn(r, u)
           \/ \E actor, u \in Users, admin \in BOOLEAN : StartUpdate(r, actor, u, admin)
           \/ \E actor, u \in Users, to \in Statuses : StartStatus(r, actor, u, to)
           \/ \E actor, u \in Users : StartDelete(r, actor, u)
    PROVE  Receives
<1> USE DEF Usable
<1>1. ASSUME NEW u \in Users,
             NEW kind \in {"first-access", "reset", "forgot", "change-own", "delete"},
             Free(r), Reads(r, u, [Idle EXCEPT !.kind = kind]), Seen(u).phase = "live"
      PROVE  Receives
  <2>1. kind \in Kinds
    BY DEF Kinds
  <2> DEFINE what == [Idle EXCEPT !.kind = kind]
  <2>2. what \in RequestType /\ what.kind = kind
    BY <2>1, Wants
  <2>3. Reads(r, u, what)
    BY <1>1
  <2> HIDE DEF what
  <2>4. Wanted(u, what)
    BY <1>1, <2>2 DEF Wanted
  <2>5. QED
    BY <1>1, <2>2, <2>3, <2>4 DEF Receives, Free
<1>2. ASSUME NEW u \in Users, StartLogin(r, u) PROVE Receives
  <2>1. CASE Seen(u).must
    BY <1>1, <1>2, <2>1 DEF StartLogin
  <2>2. CASE ~Seen(u).must
    <3> DEFINE what == [Idle EXCEPT !.kind = "login"]
    <3>1. what \in RequestType /\ what.kind = "login"
      BY Wants DEF Kinds
    <3>2. Reads(r, u, what) /\ Free(r) /\ Seen(u).phase = "live"
      BY <1>2, <2>2 DEF StartLogin
    <3> HIDE DEF what
    <3>3. Seen(u).password > 0
      <4>1. Sound(Seen(u))
        BY SeenOnward DEF IdentityInv, Onward
      <4>2. Seen(u).password \in Nat /\ Seen(u).password # 0
        BY <2>2, <3>2, <4>1 DEF Sound, AccountType
      <4>3. QED
        BY <4>2
    <3>4. Wanted(u, what)
      BY <3>1, <3>2, <3>3 DEF Wanted
    <3>5. QED
      BY <3>1, <3>2, <3>4 DEF Receives, Free
  <2>3. QED
    BY <2>1, <2>2
<1>3. ASSUME NEW s \in Sessions, NEW n \in 1..issued[s], StartRefresh(r, s, n)
      PROVE  Receives
  <2> DEFINE what == [Idle EXCEPT !.kind = "refresh", !.token = <<s, n>>]
             u == session[s].user
  <2>1. <<s, n>> \in alive /\ Seen(u).phase = "live" /\ Reads(r, u, what) /\ Free(r)
    BY <1>3 DEF StartRefresh
  <2>2. session[s] # NoSession
    BY <2>1 DEF SessionInv, TokensInv
  <2>3. u \in Users
    BY <2>2 DEF IdentityInv, CredentialsInv, OpenedSoundly
  <2>4. /\ what \in RequestType /\ what.kind = "refresh" /\ what.token = <<s, n>>
    <3>1. <<s, n>> \in Nat \X Nat
      BY <2>1 DEF SessionInv, TokensInv, Sessions
    <3>2. QED
      BY <3>1, IdleOrderly DEF RequestType, Kinds
  <2>5. Opened(session, what.token[1], u)
    BY <2>2, <2>4 DEF Opened
  <2> HIDE DEF what, u
  <2>6. Wanted(u, what)
    BY <2>1, <2>4, <2>5 DEF Wanted
  <2>7. QED
    BY <2>1, <2>3, <2>4, <2>6 DEF Receives, Free
<1>4. ASSUME NEW l \in Links, StartComplete(r, l) PROVE Receives
  <2> DEFINE what == [Idle EXCEPT !.kind = "complete", !.link = l]
             u == link[l].user
  <2>1. Seen(u).phase = "live" /\ Reads(r, u, what) /\ Free(r) /\ link[l].state = "open"
    BY <1>4 DEF StartComplete
  <2>2. u \in Users
    BY <2>1 DEF IdentityInv, LinksInv, UsedSoundly
  <2>3. what \in RequestType /\ what.kind = "complete" /\ what.link = l
    <3>1. l \in 0..MaxLinks
      BY BoundsAreNumbers DEF Links
    <3>2. QED
      BY <3>1, IdleOrderly DEF RequestType, Kinds
  <2> HIDE DEF what, u
  <2>4. Wanted(u, what)
    BY <2>1, <2>3 DEF Wanted
  <2>5. QED
    BY <2>1, <2>2, <2>3, <2>4 DEF Receives, Free
<1>5. ASSUME NEW actor \in Users, NEW u \in Users, NEW admin \in BOOLEAN,
             StartUpdate(r, actor, u, admin)
      PROVE  Receives
  <2> DEFINE what == [Idle EXCEPT !.kind = "update", !.admin = admin]
  <2>1. Seen(u).phase = "live" /\ Reads(r, u, what) /\ Free(r)
    BY <1>5 DEF StartUpdate
  <2>2. what \in RequestType /\ what.kind = "update"
    BY IdleOrderly DEF RequestType, Kinds
  <2> HIDE DEF what
  <2>3. Wanted(u, what)
    BY <2>1, <2>2 DEF Wanted
  <2>4. QED
    BY <2>1, <2>2, <2>3 DEF Receives, Free
<1>6. ASSUME NEW actor \in Users, NEW u \in Users, NEW to \in Statuses,
             StartStatus(r, actor, u, to)
      PROVE  Receives
  <2> DEFINE what == [Idle EXCEPT !.kind = "status", !.to = to]
  <2>1. Seen(u).phase = "live" /\ Reads(r, u, what) /\ Free(r)
    BY <1>6 DEF StartStatus
  <2>2. what \in RequestType /\ what.kind = "status" /\ what.to = to
    BY IdleOrderly DEF RequestType, Kinds
  <2> HIDE DEF what
  <2>3. Wanted(u, what)
    BY <2>1, <2>2 DEF Wanted
  <2>4. QED
    BY <2>1, <2>2, <2>3 DEF Receives, Free
<1>7. QED
  BY <1>1, <1>2, <1>3, <1>4, <1>5, <1>6
     DEF StartReset, StartForgot, StartChangeOwn, StartDelete
-------------------------------------------------------------------------------
(* Steps that leave the accounts alone.                                        *)

AccountsAlone == UNCHANGED <<account, root>>

LEMMA AloneStays ==
    ASSUME IdentityInv, AccountsAlone
    PROVE  AllOnward /\ AccountsInv'
<1>1. AllOnward
  BY NoneChanged DEF IdentityInv, AccountsAlone
<1>2. QED
  BY <1>1, AccountsStay DEF AccountsAlone, IdentityInv, AccountsInv

LEMMA BoundsStay ==
    ASSUME IdentityInv, UNCHANGED <<asked, restarts, overtaken>>
    PROVE  BoundsInv'
  BY DEF IdentityInv, BoundsInv

LEMMA LoginStep ==
    ASSUME IdentityInv, NEW r \in Requests, FinishLogin(r)
    PROVE  IdentityInv'
<1> DEFINE q == request[r]
           x == [version |-> q.read.version, password |-> q.read.password]
           h == [user |-> q.user, password |-> q.read.password]
<1>1. /\ AccountsAlone /\ UNCHANGED <<account, link, uses, asked, restarts, overtaken>>
      /\ Done(r) /\ q.kind = "login"
  BY DEF FinishLogin, Writes, AccountsAlone
<1>2. AllOnward /\ AccountsInv'
  BY <1>1, AloneStays
<1>3. PICK s \in Sessions :
         /\ session[s] = NoSession
         /\ session' = [session EXCEPT ![s] = h]
         /\ access' = [access EXCEPT ![s] = x]
  BY DEF FinishLogin, NextSession
<1>4. /\ q.user \in Users /\ q.read \in AccountType /\ q.read.password > 0
      /\ Past(q.read, account[q.user])
  BY <1>1 DEF IdentityInv, WorkInv, Orderly, RequestType
<1>5. /\ h \in [user : Users \cup {None}, password : Nat]
      /\ x \in [version : Nat, password : Nat]
      /\ OpenedSoundly(h, x, account)
  BY <1>4 DEF AccountType, OpenedSoundly, Past
<1> HIDE DEF q, x, h
<1>6. SessionsStay
  BY <1>3 DEF SessionsStay, IdentityInv, CredentialsInv
<1>7. CredentialsInv'
  <2>1. session' \in [Sessions -> [user : Users \cup {None}, password : Nat]]
    BY <1>3, <1>5 DEF IdentityInv, CredentialsInv
  <2>2. access' \in [Sessions -> [version : Nat, password : Nat]]
    BY <1>3, <1>5 DEF IdentityInv, CredentialsInv
  <2>3. \A y \in Sessions : OpenedSoundly(session'[y], access'[y], account)
    BY <1>3, <1>5 DEF IdentityInv, CredentialsInv
  <2>4. QED
    BY <1>1, <2>1, <2>2, <2>3 DEF CredentialsInv
<1>8. QED
  BY <1>1, <1>2, <1>6, <1>7, WorkDone, LinksStay, BoundsStay DEF IdentityInv

LEMMA RefreshStep ==
    ASSUME IdentityInv, NEW r \in Requests, FinishRefresh(r)
    PROVE  IdentityInv'
<1> DEFINE q == request[r]
           s == q.token[1]
           x == [version |-> q.read.version, password |-> q.read.password]
<1>1. /\ AccountsAlone
      /\ UNCHANGED <<session, account, link, uses, asked, restarts, overtaken>>
      /\ Done(r) /\ q.kind = "refresh"
  BY DEF FinishRefresh, Writes, AccountsAlone
<1>2. AllOnward /\ AccountsInv'
  BY <1>1, AloneStays
<1>3. access' = access \/ access' = [access EXCEPT ![s] = x]
  BY DEF FinishRefresh
<1>4. /\ q.read \in AccountType /\ Past(q.read, account[q.user])
      /\ Opened(session, s, q.user)
  BY <1>1 DEF IdentityInv, WorkInv, Orderly, RequestType
<1>5. x \in [version : Nat, password : Nat] /\ Past(x, account[session[s].user])
  BY <1>4 DEF AccountType, Past, Opened
<1> HIDE DEF q, x, s
<1>6. SessionsStay
  BY <1>1 DEF SessionsStay
<1>7. CredentialsInv'
  <2>1. access' \in [Sessions -> [version : Nat, password : Nat]]
    BY <1>3, <1>5 DEF IdentityInv, CredentialsInv
  <2>2. ASSUME NEW y \in Sessions PROVE OpenedSoundly(session[y], access'[y], account)
    <3>1. CASE access'[y] = access[y]
      BY <3>1 DEF IdentityInv, CredentialsInv
    <3>2. CASE y = s /\ access'[y] = x
      BY <1>5, <3>2 DEF IdentityInv, CredentialsInv, OpenedSoundly
    <3>3. QED
      BY <1>3, <3>1, <3>2 DEF IdentityInv, CredentialsInv
  <2>3. QED
    BY <1>1, <2>1, <2>2 DEF CredentialsInv, IdentityInv
<1>8. QED
  BY <1>1, <1>2, <1>6, <1>7, WorkDone, LinksStay, BoundsStay DEF IdentityInv

LEMMA LogoutStep ==
    ASSUME IdentityInv, NEW s \in Sessions, NEW n, Logout(s, n)
    PROVE  IdentityInv'
<1>1. AllOnward /\ AccountsInv'
  BY AloneStays DEF Logout, AccountsAlone
<1>2. CredentialsInv' /\ SessionsStay
  BY <1>1, CredentialsStay DEF Logout
<1>3. WorkInv' /\ LinksInv'
  BY <1>1, <1>2, WorkStays, LinksStay DEF Logout
<1>4. asked' \in 0..MaxRequests /\ UNCHANGED <<restarts, overtaken>>
  BY BoundsAreNumbers DEF Logout, IdentityInv, BoundsInv
<1>5. QED
  BY <1>1, <1>2, <1>3, <1>4 DEF IdentityInv, BoundsInv
-------------------------------------------------------------------------------
(* Links.                                                                      *)

\* The number of the next link is that of one not issued yet.
LEMMA NextLinkIsNew == NextLink \in Links => link[NextLink].state = "none"
<1> DEFINE S == {l \in Links : link[l].state = "none"} \cup {MaxLinks + 1}
<1>1. S \in SUBSET (0 .. (MaxLinks + 1)) /\ S # {} /\ MaxLinks + 1 \in Nat
  BY BoundsAreNumbers DEF Links
<1> HIDE DEF S
<1>2. Min(S) \in S
  BY <1>1, MinIsElement
<1>3. MaxLinks + 1 \notin Links
  BY BoundsAreNumbers DEF Links
<1>4. QED
  BY <1>2, <1>3 DEF NextLink, S

\* An issued link takes the place of open ones only.
LEMMA IssuedKeeps ==
    ASSUME IdentityInv, NEW u \in Users, NEW reason \in {"admin-reset", "first-access"},
           NEW over, \A l \in over : l \in Links /\ link[l].state = "open",
           NextLink \in Links, Issued(u, reason, over), uses' = uses
    PROVE  LinksInv'
<1> DEFINE new == [NoLink EXCEPT !.user = u, !.reason = reason, !.state = "open"]
           replaced(k) == [k EXCEPT !.state = "consumed", !.by = NextLink]
<1>1. new \in LinkType /\ new.state = "open" /\ new.user = u
  <2>1. NoLink \in LinkType
    BY BoundsAreNumbers DEF NoLink, LinkType
  <2>2. QED
    BY <2>1 DEF LinkType
<1>2. NextLink \in 0..MaxLinks
  BY BoundsAreNumbers DEF Links
<1>3. ASSUME NEW k \in LinkType
      PROVE  /\ replaced(k) \in LinkType /\ replaced(k).state = "consumed"
             /\ replaced(k).user = k.user
  BY <1>2 DEF LinkType
<1>4. link' = [l \in Links |-> IF l = NextLink THEN new
                               ELSE IF l \in over THEN replaced(link[l]) ELSE link[l]]
  BY DEF Issued
<1> HIDE DEF new, replaced
<1>5. ASSUME NEW l \in Links
      PROVE  link'[l] \in LinkType /\ UsedSoundly(link'[l], uses[l])
  <2>1. link[l] \in LinkType /\ UsedSoundly(link[l], uses[l])
    BY DEF IdentityInv, LinksInv
  <2>2. CASE l = NextLink
    <3>1. link[l].state = "none"
      BY <2>2, NextLinkIsNew
    <3>2. QED
      BY <1>1, <1>4, <2>1, <2>2, <3>1 DEF UsedSoundly
  <2>3. CASE l # NextLink /\ l \in over
    BY <1>3, <1>4, <2>1, <2>3 DEF UsedSoundly
  <2>4. CASE l # NextLink /\ l \notin over
    BY <1>4, <2>1, <2>4
  <2>5. QED
    BY <2>2, <2>3, <2>4
<1>6. link' \in [Links -> LinkType]
  BY <1>4, <1>5
<1>7. QED
  BY <1>5, <1>6 DEF IdentityInv, LinksInv

\* The request r goes on with the link l.
LEMMA WorkGoesOn ==
    ASSUME IdentityInv, AllOnward, SessionsStay, NEW r \in Requests, NEW l \in Links,
           request[r].kind # "idle",
           NEW kind \in {"reset-mail", "forgot-mail", "restore", "remove"},
           request' = [request EXCEPT ![r] = [request[r] EXCEPT !.kind = kind, !.link = l]]
    PROVE  WorkInv'
<1> DEFINE q == [request[r] EXCEPT !.kind = kind, !.link = l]
<1>1. Orderly(request[r], account', session')
  BY OrderlyStays DEF IdentityInv, WorkInv
<1>2. l \in 0..MaxLinks /\ kind \in Kinds
  BY BoundsAreNumbers DEF Links, Kinds
<1>3. q \in RequestType /\ q.kind = kind /\ q.link = l /\ q.user = request[r].user
  BY <1>1, <1>2 DEF Orderly, RequestType
<1>4. request' = [request EXCEPT ![r] = q]
  OBVIOUS
<1> HIDE DEF q
<1>5. Orderly(q, account', session')
  BY <1>1, <1>3 DEF Orderly
<1>6. QED
  BY <1>4, <1>5, WorkOneMore

LEMMA IssueStep ==
    ASSUME IdentityInv, NEW r \in Requests, FirstAccess(r) \/ IssueReset(r) \/ IssueForgot(r)
    PROVE  IdentityInv'
<1>1. /\ AccountsAlone
      /\ UNCHANGED <<session, access, uses, asked, restarts, overtaken>>
      /\ request[r].kind # "idle" /\ NextLink \in Links
  BY DEF FirstAccess, IssueReset, IssueForgot, Writes, AccountsAlone, sessionVars
<1>2. AllOnward /\ AccountsInv' /\ CredentialsInv' /\ SessionsStay
  BY <1>1, AloneStays, CredentialsStay
<1>3. request[r].user \in Users /\ DOMAIN request = Requests
  BY <1>1 DEF IdentityInv, WorkInv, Orderly
<1>4. \A l \in OpenLinks(request[r].user) : l \in Links /\ link[l].state = "open"
  BY DEF OpenLinks
<1>5. LinksInv'
  BY <1>1, <1>3, <1>4, IssuedKeeps DEF FirstAccess, IssueReset, IssueForgot
<1>6. WorkInv'
  <2>1. CASE FirstAccess(r)
    BY <1>2, <2>1, WorkDone DEF FirstAccess
  <2>2. CASE IssueReset(r)
    <3>1. request' = [request EXCEPT ![r] = [request[r] EXCEPT
                         !.kind = "reset-mail", !.link = NextLink]]
      BY <1>3, <2>2 DEF IssueReset
    <3>2. QED
      BY <1>1, <1>2, <3>1, WorkGoesOn
  <2>3. CASE IssueForgot(r)
    <3>1. request' = [request EXCEPT ![r] = [request[r] EXCEPT
                         !.kind = "forgot-mail", !.link = NextLink]]
      BY <1>3, <2>3 DEF IssueForgot
    <3>2. QED
      BY <1>1, <1>2, <3>1, WorkGoesOn
  <2>4. QED
    BY <2>1, <2>2, <2>3
<1>7. QED
  BY <1>1, <1>2, <1>5, <1>6, BoundsStay DEF IdentityInv

LEMMA LinkChanged ==
    ASSUME IdentityInv, NEW l \in Links, NEW k \in LinkType, UsedSoundly(k, uses[l]),
           link' = [link EXCEPT ![l] = k], uses' = uses
    PROVE  LinksInv'
<1>1. \A x \in Links : link'[x] = IF x = l THEN k ELSE link[x]
  BY DEF IdentityInv, LinksInv
<1>2. link' \in [Links -> LinkType]
  BY DEF IdentityInv, LinksInv
<1>3. QED
  BY <1>1, <1>2 DEF IdentityInv, LinksInv

LEMMA GoneSoundly ==
    ASSUME NEW n \in {0, 1}
    PROVE  Gone \in LinkType /\ UsedSoundly(Gone, n)
<1>1. NoLink \in LinkType
  BY BoundsAreNumbers DEF NoLink, LinkType
<1>2. Gone \in LinkType /\ Gone.state = "gone"
  BY <1>1 DEF Gone, LinkType
<1>3. QED
  BY <1>2 DEF UsedSoundly

LEMMA MailStep ==
    ASSUME IdentityInv, NEW r \in Requests,
           Delivered(r) \/ ForgotUndelivered(r) \/ ResetUndelivered(r)
    PROVE  IdentityInv'
<1>1. /\ AccountsAlone
      /\ UNCHANGED <<session, access, uses, asked, restarts, overtaken>>
      /\ request[r].kind \in {"reset-mail", "forgot-mail"}
  BY DEF Delivered, ForgotUndelivered, ResetUndelivered, Writes, AccountsAlone, sessionVars
<1>2. AllOnward /\ AccountsInv' /\ CredentialsInv' /\ SessionsStay
  BY <1>1, AloneStays, CredentialsStay
<1>3. /\ Orderly(request[r], account, session) /\ request[r].link \in Links
      /\ DOMAIN request = Requests
  BY <1>1 DEF IdentityInv, WorkInv, Orderly
<1>4. LinksInv'
  <2>1. CASE link' = link
    BY <1>1, <2>1, LinksStay
  <2>2. CASE ForgotUndelivered(r)
    <3>1. uses[request[r].link] \in {0, 1}
      BY <1>3 DEF IdentityInv, LinksInv, UsedSoundly
    <3>2. QED
      BY <1>1, <1>3, <2>2, <3>1, GoneSoundly, LinkChanged DEF ForgotUndelivered
  <2>3. QED
    BY <2>1, <2>2 DEF Delivered, ResetUndelivered
<1>5. WorkInv'
  <2>1. CASE Done(r)
    BY <1>2, <2>1, WorkDone
  <2>2. CASE ResetUndelivered(r)
    <3> DEFINE kind == IF link[request[r].link].state = "open" THEN "restore" ELSE "remove"
               q == [request[r] EXCEPT !.kind = kind]
    <3>1. kind \in Kinds /\ kind \in {"restore", "remove"}
      BY DEF Kinds
    <3>2. request' = [request EXCEPT ![r] = q]
      BY <1>3, <2>2 DEF ResetUndelivered
    <3> HIDE DEF kind
    <3>3. Orderly(request[r], account', session')
      BY <1>2, <1>3, OrderlyStays DEF IdentityInv
    <3>4. /\ q \in RequestType /\ q.kind = kind /\ q.link = request[r].link
          /\ q.user = request[r].user
      BY <1>3, <3>1 DEF Orderly, RequestType
    <3> HIDE DEF q
    <3>5. Orderly(q, account', session')
      BY <1>1, <1>3, <3>1, <3>3, <3>4 DEF Orderly
    <3>6. QED
      BY <1>2, <3>2, <3>5, WorkOneMore
  <2>3. QED
    BY <2>1, <2>2 DEF Delivered, ForgotUndelivered
<1>6. QED
  BY <1>1, <1>2, <1>4, <1>5, BoundsStay DEF IdentityInv

\* What a link restores was replaced by it, and so has set no password.
LEMMA RestoredReplaced ==
    ASSUME NEW l, NEW p \in Restored(l)
    PROVE  p \in Links /\ link[p].state = "consumed" /\ link[p].by = l
<1> DEFINE replaced == {x \in Links : link[x].state = "consumed" /\ link[x].by = l
                                      /\ ~link[x].expired}
<1>1. replaced \in SUBSET (0 .. MaxLinks) /\ MaxLinks \in Nat
  BY BoundsAreNumbers DEF Links
<1>2. replaced # {} /\ p = Max(replaced)
  BY DEF Restored
<1>3. \A x \in replaced : x \in Links /\ link[x].state = "consumed" /\ link[x].by = l
  OBVIOUS
<1> HIDE DEF replaced
<1>4. Max(replaced) \in replaced
  BY <1>1, <1>2, MaxIsElement
<1>5. QED
  BY <1>2, <1>3, <1>4

LEMMA CancelStep ==
    ASSUME IdentityInv, NEW r \in Requests, CancelReplacement(r)
    PROVE  IdentityInv'
<1>1. /\ AccountsAlone
      /\ UNCHANGED <<session, access, uses, asked, restarts, overtaken>>
      /\ request[r].kind \in {"restore", "remove"} /\ Done(r)
  BY DEF CancelReplacement, Writes, AccountsAlone, sessionVars
<1>2. AllOnward /\ AccountsInv' /\ CredentialsInv' /\ SessionsStay
  BY <1>1, AloneStays, CredentialsStay
<1> DEFINE mine == request[r].link
           back == IF request[r].kind = "restore" THEN Restored(mine) ELSE {}
           reopened(k) == [k EXCEPT !.state = "open", !.by = 0]
<1>3. mine \in Links
  BY <1>1 DEF IdentityInv, WorkInv, Orderly
<1>4. link' = [l \in Links |-> IF l = mine THEN Gone
                               ELSE IF l \in back THEN reopened(link[l]) ELSE link[l]]
  BY DEF CancelReplacement
<1>5. \A l \in back : link[l].state = "consumed" /\ link[l].by = mine
  BY RestoredReplaced
<1>6. ASSUME NEW k \in LinkType
      PROVE  /\ reopened(k) \in LinkType /\ reopened(k).state = "open"
             /\ reopened(k).user = k.user
  <2>1. 0 \in 0..MaxLinks
    BY BoundsAreNumbers
  <2>2. QED
    BY <2>1 DEF LinkType
<1> HIDE DEF mine, back, reopened
<1>7. ASSUME NEW l \in Links
      PROVE  link'[l] \in LinkType /\ UsedSoundly(link'[l], uses[l])
  <2>1. link[l] \in LinkType /\ UsedSoundly(link[l], uses[l]) /\ uses[l] \in {0, 1}
    BY DEF IdentityInv, LinksInv, UsedSoundly
  <2>2. CASE l = mine
    BY <1>4, <2>1, <2>2, GoneSoundly
  <2>3. CASE l # mine /\ l \in back
    <3>1. mine # 0
      BY <1>3 DEF Links
    <3>2. uses[l] = 0 /\ link[l].user \in Users
      BY <1>5, <2>1, <2>3, <3>1 DEF UsedSoundly
    <3>3. QED
      BY <1>4, <1>6, <2>1, <2>3, <3>2 DEF UsedSoundly
  <2>4. CASE l # mine /\ l \notin back
    BY <1>4, <2>1, <2>4
  <2>5. QED
    BY <2>2, <2>3, <2>4
<1>8. LinksInv'
  <2>1. link' \in [Links -> LinkType]
    BY <1>4, <1>7
  <2>2. QED
    BY <1>1, <1>7, <2>1 DEF IdentityInv, LinksInv
<1>9. QED
  BY <1>1, <1>2, <1>8, WorkDone, BoundsStay DEF IdentityInv

LEMMA ExpireStep ==
    ASSUME IdentityInv, NEW l \in Links, LinkExpires(l)
    PROVE  IdentityInv'
<1>1. /\ AccountsAlone
      /\ UNCHANGED <<session, access, uses, asked, restarts, overtaken, request>>
  BY DEF LinkExpires, AccountsAlone, sessionVars
<1>2. AllOnward /\ AccountsInv' /\ CredentialsInv' /\ SessionsStay
  BY <1>1, AloneStays, CredentialsStay
<1> DEFINE k == [link[l] EXCEPT !.expired = TRUE]
<1>3. link' = [link EXCEPT ![l] = k]
  BY DEF LinkExpires
<1>4. k \in LinkType /\ k.state = link[l].state /\ k.user = link[l].user /\ k.by = link[l].by
  BY DEF LinkType, IdentityInv, LinksInv
<1>5. UsedSoundly(link[l], uses[l])
  BY DEF IdentityInv, LinksInv
<1> HIDE DEF k
<1>6. LinksInv'
  BY <1>1, <1>3, <1>4, <1>5, LinkChanged DEF UsedSoundly
<1>7. QED
  BY <1>1, <1>2, <1>6, WorkStays, BoundsStay DEF IdentityInv
-------------------------------------------------------------------------------
(* Passwords.                                                                  *)

LEMMA RenewedStep ==
    ASSUME IdentityInv, NEW u \in Users, account[u].phase # "absent", root' = root,
           Changed(u, Renewed(account[u]))
    PROVE  AllOnward /\ AccountsInv'
<1>1. AccountsInv /\ Sound(account[u])
  BY DEF IdentityInv, AccountsInv
<1>2. AllOnward /\ account'[u].phase = account[u].phase
               /\ \A x \in Users \ {u} : account'[x] = account[x]
  BY <1>1, RenewedOnward, OneChanged
<1>3. root # None => account'[root].phase = "live"
  BY <1>2 DEF IdentityInv, AccountsInv
<1>4. QED
  BY <1>2, <1>3, AccountsStay

LEMMA CompleteStep ==
    ASSUME IdentityInv, NEW r \in Requests, FinishComplete(r)
    PROVE  IdentityInv'
<1> DEFINE u == request[r].user
           l == request[r].link
<1>1. /\ UNCHANGED <<root, session, access, asked, restarts, overtaken>>
      /\ request[r].kind = "complete" /\ Done(r)
  BY DEF FinishComplete, Writes, NewPassword, sessionVars
<1>2. u \in Users /\ account[u].phase # "absent" /\ l \in Links
  BY <1>1 DEF IdentityInv, WorkInv, Orderly
<1>3. CASE Completes(r)
  <2>1. Changed(u, Renewed(account[u]))
    BY <1>3 DEF FinishComplete, NewPassword, Renewed
  <2>2. AllOnward /\ AccountsInv'
    BY <1>1, <1>2, <2>1, RenewedStep
  <2>3. CredentialsInv' /\ SessionsStay
    BY <1>1, <2>2, CredentialsStay
  <2>4. LinksInv'
    <3> DEFINE used == OpenLinks(u) \cup {l}
               closed(k) == [k EXCEPT !.state = "consumed", !.by = 0]
    <3>1. \A x \in used : x \in Links /\ link[x].state = "open"
      BY <1>2, <1>3 DEF OpenLinks, Completes
    <3>2. /\ link' = [x \in Links |-> IF x \in used THEN closed(link[x]) ELSE link[x]]
          /\ uses' = [uses EXCEPT ![l] = @ + 1]
      BY <1>3 DEF FinishComplete, Used
    <3>3. ASSUME NEW k \in LinkType
          PROVE  /\ closed(k) \in LinkType /\ closed(k).state = "consumed"
                 /\ closed(k).by = 0 /\ closed(k).user = k.user
      <4>1. 0 \in 0..MaxLinks
        BY BoundsAreNumbers
      <4>2. QED
        BY <4>1 DEF LinkType
    <3>4. l \in used
      OBVIOUS
    <3> HIDE DEF used, closed, l, u
    <3>5. ASSUME NEW x \in Links
          PROVE  /\ link'[x] \in LinkType /\ uses'[x] \in Nat
                 /\ UsedSoundly(link'[x], uses'[x])
      <4>1. link[x] \in LinkType /\ UsedSoundly(link[x], uses[x])
        BY DEF IdentityInv, LinksInv
      <4>2. CASE x \in used
        <5>1. uses[x] = 0 /\ link[x].user \in Users
          BY <3>1, <4>1, <4>2 DEF UsedSoundly
        <5>2. uses'[x] = 0 \/ uses'[x] = 1
          BY <3>2, <5>1 DEF IdentityInv, LinksInv
        <5>3. QED
          BY <3>2, <3>3, <4>1, <4>2, <5>1, <5>2 DEF UsedSoundly
      <4>3. CASE x \notin used
        <5>1. x # l /\ uses'[x] = uses[x] /\ uses[x] \in Nat
          BY <3>2, <3>4, <4>3 DEF IdentityInv, LinksInv
        <5>2. QED
          BY <3>2, <4>1, <4>3, <5>1
      <4>4. QED
        BY <4>2, <4>3
    <3>6. link' \in [Links -> LinkType] /\ uses' \in [Links -> Nat]
      BY <3>2, <3>5 DEF IdentityInv, LinksInv
    <3>7. QED
      BY <3>5, <3>6 DEF LinksInv
  <2>5. QED
    BY <1>1, <2>2, <2>3, <2>4, WorkDone, BoundsStay DEF IdentityInv
<1>4. CASE ~Completes(r)
  <2>1. AccountsAlone /\ UNCHANGED <<link, uses>>
    BY <1>1, <1>4 DEF FinishComplete, AccountsAlone
  <2>2. QED
    BY <1>1, <2>1, AloneStays, CredentialsStay, WorkDone, LinksStay, BoundsStay
       DEF IdentityInv
<1>5. QED
  BY <1>3, <1>4

LEMMA ChangeOwnStep ==
    ASSUME IdentityInv, NEW r \in Requests, FinishChangeOwn(r)
    PROVE  IdentityInv'
<1> DEFINE u == request[r].user
<1>1. /\ UNCHANGED <<root, session, access, asked, restarts, overtaken, link, uses>>
      /\ request[r].kind = "change-own" /\ Done(r)
      /\ Changed(u, Renewed(account[u]))
  BY DEF FinishChangeOwn, Writes, NewPassword, Renewed
<1>2. u \in Users /\ account[u].phase # "absent"
  BY <1>1 DEF IdentityInv, WorkInv, Orderly
<1>3. AllOnward /\ AccountsInv'
  BY <1>1, <1>2, RenewedStep
<1>4. QED
  BY <1>1, <1>3, CredentialsStay, WorkDone, LinksStay, BoundsStay DEF IdentityInv
-------------------------------------------------------------------------------
(* Administrators.  While no unguarded write met a changed account, the count   *)
(* of an update, which looks at deleted accounts too, counts only live ones,    *)
(* and one of them is left.                                                     *)

Counts(a) == a.admin /\ a.status = "active"
Administrates(a) == a.phase = "live" /\ Counts(a)

AdminInv ==
    overtaken \/ /\ \E u \in Users : Administrates(account[u])
                 /\ \A u \in Users : account[u].phase # "live" => ~Counts(account[u])

LEMMA TwoOfThem ==
    ASSUME NEW S, NEW u, Cardinality(S) > 1
    PROVE  \E v \in S : v # u
<1>1. S \subseteq {u} => S = {} \/ S = {u}
  OBVIOUS
<1>2. ~(S \subseteq {u})
  BY <1>1, FS_EmptySet, FS_Singleton
<1>3. QED
  BY <1>2

\* A step that changes one account.
LEMMA AdminKept ==
    ASSUME AdminInv, ~overtaken' => ~overtaken, NEW u \in Users,
           \A x \in Users \ {u} : account'[x] = account[x],
           ~overtaken' =>
              /\ account'[u].phase # "live" => ~Counts(account'[u])
              /\ Administrates(account[u]) =>
                    \/ Administrates(account'[u])
                    \/ \E v \in Users \ {u} : Administrates(account[v])
    PROVE  AdminInv'
<1>1. SUFFICES ASSUME ~overtaken' PROVE AdminInv'
  BY DEF AdminInv
<1>2. PICK v \in Users : Administrates(account[v])
  BY <1>1 DEF AdminInv
<1>3. \E w \in Users : Administrates(account'[w])
  BY <1>1, <1>2
<1>4. \A w \in Users : account'[w].phase # "live" => ~Counts(account'[w])
  BY <1>1 DEF AdminInv
<1>5. QED
  BY <1>3, <1>4 DEF AdminInv, Administrates, Counts

LEMMA AdminSame ==
    ASSUME AdminInv, UNCHANGED <<account, overtaken>>
    PROVE  AdminInv'
  BY DEF AdminInv, Administrates, Counts

LEMMA ReceivedAdmin ==
    ASSUME IdentityInv, AdminInv, Receives
    PROVE  AdminInv'
<1> PICK r \in Requests, u \in Users, what \in RequestType :
       Reads(r, u, what) /\ Wanted(u, what)
  BY DEF Receives
<1>1. /\ AccountsInv /\ Onward(account[u], Seen(u)) /\ Seen(u).phase = account[u].phase
      /\ Seen(u).admin = account[u].admin
      /\ account[u].status = "active" => Seen(u).status = "active"
  BY SeenOnward DEF IdentityInv
<1>2. account'[u] = Seen(u) /\ \A x \in Users \ {u} : account'[x] = account[x]
  BY <1>1, OneChanged DEF Reads
<1>3. overtaken' = overtaken
  BY DEF Reads
<1>4. QED
  BY <1>1, <1>2, <1>3, AdminKept DEF Wanted, Administrates, Counts

LEMMA RenewedAdmin ==
    ASSUME IdentityInv, AdminInv, NEW u \in Users, account[u].phase # "absent",
           Changed(u, Renewed(account[u])), overtaken' = overtaken
    PROVE  AdminInv'
<1>1. AccountsInv /\ Sound(account[u])
  BY DEF IdentityInv, AccountsInv
<1>2. /\ account'[u].phase = account[u].phase /\ account'[u].admin = account[u].admin
      /\ account'[u].status = account[u].status
      /\ \A x \in Users \ {u} : account'[x] = account[x]
  BY <1>1, RenewedOnward, OneChanged
<1>3. CASE overtaken
  BY <1>3 DEF AdminInv
<1>4. CASE ~overtaken
  BY <1>2, <1>4, AdminKept DEF AdminInv, Administrates, Counts
<1>5. QED
  BY <1>3, <1>4

LEMMA PasswordAdmin ==
    ASSUME IdentityInv, AdminInv, NEW r \in Requests, FinishComplete(r) \/ FinishChangeOwn(r)
    PROVE  AdminInv'
<1> DEFINE u == request[r].user
<1>1. overtaken' = overtaken /\ request[r].kind \in {"complete", "change-own"}
  BY DEF FinishComplete, FinishChangeOwn, Writes
<1>2. u \in Users /\ account[u].phase # "absent"
  BY <1>1 DEF IdentityInv, WorkInv, Orderly
<1>3. account' = account \/ Changed(u, Renewed(account[u]))
  BY DEF FinishComplete, FinishChangeOwn, NewPassword, Renewed
<1> HIDE DEF u
<1>4. QED
  BY <1>1, <1>2, <1>3, RenewedAdmin, AdminSame
-------------------------------------------------------------------------------
(* Managing accounts.                                                          *)

LEMMA CreateStep ==
    ASSUME IdentityInv, AdminInv, NEW actor \in Users, NEW u \in Users,
           NEW admin \in BOOLEAN, CreateUser(actor, u, admin)
    PROVE  IdentityInv' /\ AdminInv'
<1>1. /\ AccountsInv /\ Onward(account[actor], Seen(actor))
      /\ Seen(actor).phase = account[actor].phase
      /\ Seen(actor).admin = account[actor].admin
      /\ account[actor].status = "active" => Seen(actor).status = "active"
  BY SeenOnward DEF IdentityInv
<1>2. account[u] = Absent /\ account[actor].phase = "live" /\ actor # u
  BY <1>1 DEF CreateUser, MayManage, Usable, AccountsInv, Sound
<1>3. /\ account'[actor] = Seen(actor) /\ account'[u] = NewAccount(admin)
      /\ \A x \in Users \ {actor, u} : account'[x] = account[x]
      /\ DOMAIN account' = Users
  BY <1>1, <1>2 DEF CreateUser, AccountsInv
<1>4. /\ Onward(account[u], NewAccount(admin)) /\ NewAccount(admin).phase = "live"
  BY <1>2, NewAccountOnward DEF NewAccount
<1>5. \A x \in Users : Onward(account[x], account'[x])
  BY <1>1, <1>3, <1>4, OnwardSame DEF AccountsInv
<1>6. AllOnward
  <2>1. \A x \in Users : account'[x] \in AccountType
    BY <1>5 DEF Onward, Sound
  <2>2. account' = [x \in Users |-> account'[x]]
    BY <1>1 DEF CreateUser, AccountsInv
  <2>3. QED
    BY <1>5, <2>1, <2>2 DEF AllOnward
<1>7. AccountsInv'
  <2>1. root # None => account'[root].phase = "live"
    BY <1>1, <1>2, <1>3 DEF AccountsInv, Absent
  <2>2. QED
    BY <1>6, <2>1, AccountsStay DEF CreateUser
<1>8. CredentialsInv' /\ SessionsStay
  BY <1>6, CredentialsStay DEF CreateUser, sessionVars
<1>9. BoundsInv'
  <2>1. asked' \in 0..MaxRequests
    BY BoundsAreNumbers DEF CreateUser, IdentityInv, BoundsInv
  <2>2. QED
    BY <2>1 DEF CreateUser, IdentityInv, BoundsInv
<1>10. IdentityInv'
  BY <1>6, <1>7, <1>8, <1>9, WorkStays, LinksStay DEF CreateUser, IdentityInv
<1>11. AdminInv'
  <2>1. overtaken' = overtaken
    BY DEF CreateUser
  <2>2. ~Administrates(account[u])
    BY <1>2 DEF Administrates, Absent
  <2>3. Administrates(account[actor]) => Administrates(account'[actor])
    BY <1>1, <1>2, <1>3 DEF Administrates, Counts
  <2>4. (\E x \in Users : Administrates(account[x])) =>
           \E x \in Users : Administrates(account'[x])
    BY <1>3, <2>2, <2>3
  <2>5. CASE overtaken
    BY <2>1, <2>5 DEF AdminInv
  <2>6. CASE ~overtaken
    <3>1. \A x \in Users : account'[x].phase # "live" => ~Counts(account'[x])
      BY <1>1, <1>2, <1>3, <1>4, <2>6 DEF AdminInv
    <3>2. QED
      BY <2>4, <2>6, <3>1 DEF AdminInv, Administrates, Counts
  <2>7. QED
    BY <2>5, <2>6
<1>12. QED
  BY <1>10, <1>11

\* What a request that writes on an account brings.
LEMMA WritesWhat ==
    ASSUME IdentityInv, NEW r \in Requests, request[r].kind # "idle"
    PROVE  /\ request[r].user \in Users /\ request[r].admin \in BOOLEAN
           /\ account[request[r].user].phase # "absent"
           /\ Sound(account[request[r].user]) /\ AccountsInv
           /\ request[r].kind = "status" => request[r].to \in Statuses
           /\ request[r].kind \in {"update", "status"} => request[r].read.phase = "live"
  BY DEF IdentityInv, WorkInv, Orderly, RequestType, AccountsInv

\* A step that changes one account to one of the same phase.
LEMMA ManagedStep ==
    ASSUME IdentityInv, NEW r \in Requests, NEW u \in Users, NEW b,
           account' = account \/ (Changed(u, b) /\ Onward(account[u], b)
                                  /\ b.phase = account[u].phase),
           UNCHANGED <<root, session, access, link, uses, asked, restarts>>,
           overtaken' \in BOOLEAN, Done(r)
    PROVE  IdentityInv'
<1>1. AccountsInv
  BY DEF IdentityInv
<1>2. AllOnward /\ AccountsInv'
  <2>1. CASE account' = account
    BY <2>1, AloneStays DEF AccountsAlone
  <2>2. CASE Changed(u, b) /\ Onward(account[u], b) /\ b.phase = account[u].phase
    <3>1. AllOnward /\ account'[u] = b /\ \A x \in Users \ {u} : account'[x] = account[x]
      BY <1>1, <2>2, OneChanged
    <3>2. root # None => account'[root].phase = "live"
      BY <1>1, <2>2, <3>1 DEF AccountsInv
    <3>3. QED
      BY <3>1, <3>2, AccountsStay
  <2>3. QED
    BY <2>1, <2>2
<1>3. CredentialsInv' /\ SessionsStay
  BY <1>2, CredentialsStay
<1>4. BoundsInv'
  BY DEF IdentityInv, BoundsInv
<1>5. QED
  BY <1>2, <1>3, <1>4, WorkDone, LinksStay DEF IdentityInv

\* What the count of an update or a status change leaves: another administrator.
LEMMA CountedLeaves ==
    ASSUME AdminInv, ~overtaken, NEW u, AnotherAdministrator(u)
    PROVE  \E v \in Users \ {u} : Administrates(account[v])
<1>1. PICK v \in CountedAdministrators : v # u
  BY TwoOfThem DEF AnotherAdministrator
<1>2. v \in Users /\ Counts(account[v])
  BY DEF CountedAdministrators, Counts
<1>3. account[v].phase = "live"
  BY <1>2 DEF AdminInv
<1>4. QED
  BY <1>1, <1>2, <1>3 DEF Administrates

LEMMA UpdateStep ==
    ASSUME IdentityInv, AdminInv, NEW r \in Requests, FinishUpdate(r)
    PROVE  IdentityInv' /\ AdminInv'
<1> DEFINE q == request[r]
           u == q.user
           a == account[u]
           b == Promoted(a, q.admin)
<1>1. /\ q.kind = "update" /\ Done(r)
      /\ UNCHANGED <<root, session, access, link, uses, asked, restarts>>
      /\ IF Guarded(r) /\ ~AnotherAdministrator(u) THEN account' = account ELSE Changed(u, b)
      /\ overtaken' = (overtaken \/ (~Guarded(r) /\ Outdated(r)))
  BY DEF FinishUpdate, Writes, sessionVars, Promoted
<1>2. /\ u \in Users /\ q.admin \in BOOLEAN /\ a.phase # "absent" /\ Sound(a)
      /\ AccountsInv /\ q.read.phase = "live"
  BY <1>1, WritesWhat
<1>3. /\ Onward(a, b) /\ b.phase = a.phase /\ b.admin = q.admin /\ b.status = a.status
  BY <1>2, PromotedOnward
<1>4. /\ Guarded(r) => ~q.admin /\ q.read.admin /\ q.read.status = "active"
      /\ q.read.admin /\ q.read.status = "active" /\ ~q.admin => Guarded(r)
      /\ ~Outdated(r) =>
            a.phase = q.read.phase /\ a.status = q.read.status /\ a.admin = q.read.admin
  BY <1>1 DEF Guarded, Outdated
<1> HIDE DEF b, a, u, q
<1>5. overtaken' \in BOOLEAN
  BY <1>1
<1>6. IdentityInv'
  BY <1>1, <1>2, <1>3, <1>5, ManagedStep DEF a
<1>7. AdminInv'
  <2>1. CASE account' = account
    BY <1>1, <2>1 DEF AdminInv, Administrates, Counts
  <2>2. CASE Changed(u, b) /\ (Guarded(r) => AnotherAdministrator(u))
    <3>1. account'[u] = b /\ \A x \in Users \ {u} : account'[x] = account[x]
      BY <1>2, <1>3, <2>2, OneChanged DEF a
    <3>2. ASSUME ~overtaken'
          PROVE  /\ b.phase # "live" => ~Counts(b)
                 /\ Administrates(a) =>
                       \/ Administrates(b)
                       \/ \E v \in Users \ {u} : Administrates(account[v])
      <4>1. ~overtaken /\ (Guarded(r) \/ ~Outdated(r))
        BY <1>1, <3>2
      <4>2. CASE Guarded(r)
        BY <1>3, <1>4, <2>2, <4>1, <4>2, CountedLeaves DEF Counts
      <4>3. CASE ~Guarded(r)
        BY <1>2, <1>3, <1>4, <4>1, <4>3 DEF Counts, Administrates
      <4>4. QED
        BY <4>2, <4>3
    <3>3. QED
      BY <1>1, <1>2, <3>1, <3>2, AdminKept DEF a
  <2>3. QED
    BY <1>1, <2>1, <2>2
<1>8. QED
  BY <1>6, <1>7

LEMMA StatusStep ==
    ASSUME IdentityInv, AdminInv, NEW r \in Requests, FinishStatus(r)
    PROVE  IdentityInv' /\ AdminInv'
<1> DEFINE q == request[r]
           u == q.user
           a == account[u]
           b == Turned(a, q.to)
<1>1. /\ q.kind = "status" /\ Done(r)
      /\ UNCHANGED <<root, session, access, link, uses, asked, restarts>>
      /\ IF Guarded(r) /\ ~AnotherAdministrator(u) THEN account' = account ELSE Changed(u, b)
      /\ overtaken' = (overtaken \/ (~Guarded(r) /\ Outdated(r)))
  BY DEF FinishStatus, Writes, sessionVars, Turned
<1>2. /\ u \in Users /\ q.to \in Statuses /\ a.phase # "absent" /\ Sound(a)
      /\ AccountsInv /\ q.read.phase = "live"
  BY <1>1, WritesWhat
<1>3. /\ Onward(a, b) /\ b.phase = a.phase /\ b.admin = a.admin /\ b.status = q.to
  BY <1>2, TurnedOnward
<1>4. /\ Guarded(r) => q.to # "active" /\ q.read.admin /\ q.read.status = "active"
      /\ q.read.admin /\ q.read.status = "active" /\ q.to # "active" => Guarded(r)
      /\ ~Outdated(r) =>
            a.phase = q.read.phase /\ a.status = q.read.status /\ a.admin = q.read.admin
  BY <1>1 DEF Guarded, Outdated
<1> HIDE DEF b, a, u, q
<1>5. overtaken' \in BOOLEAN
  BY <1>1
<1>6. IdentityInv'
  BY <1>1, <1>2, <1>3, <1>5, ManagedStep DEF a
<1>7. AdminInv'
  <2>1. CASE account' = account
    BY <1>1, <2>1 DEF AdminInv, Administrates, Counts
  <2>2. CASE Changed(u, b) /\ (Guarded(r) => AnotherAdministrator(u))
    <3>1. account'[u] = b /\ \A x \in Users \ {u} : account'[x] = account[x]
      BY <1>2, <1>3, <2>2, OneChanged DEF a
    <3>2. ASSUME ~overtaken'
          PROVE  /\ b.phase # "live" => ~Counts(b)
                 /\ Administrates(a) =>
                       \/ Administrates(b)
                       \/ \E v \in Users \ {u} : Administrates(account[v])
      <4>1. ~overtaken /\ (Guarded(r) \/ ~Outdated(r))
        BY <1>1, <3>2
      <4>2. CASE Guarded(r)
        BY <1>3, <1>4, <2>2, <4>1, <4>2, CountedLeaves DEF Counts
      <4>3. CASE ~Guarded(r)
        BY <1>2, <1>3, <1>4, <4>1, <4>3 DEF Counts, Administrates
      <4>4. QED
        BY <4>2, <4>3
    <3>3. QED
      BY <1>1, <1>2, <3>1, <3>2, AdminKept DEF a
  <2>3. QED
    BY <1>1, <2>1, <2>2
<1>8. QED
  BY <1>6, <1>7

\* The links of an account that is deleted are used up.
LEMMA LinksClosed ==
    ASSUME IdentityInv, NEW u \in Users, UNCHANGED uses,
           link' = [l \in Links |-> IF l \in OpenLinks(u) THEN Used(l) ELSE link[l]]
    PROVE  LinksInv'
<1>1. ASSUME NEW l \in Links
      PROVE  link'[l] \in LinkType /\ UsedSoundly(link'[l], uses[l])
  <2>1. link[l] \in LinkType /\ UsedSoundly(link[l], uses[l])
    BY DEF IdentityInv, LinksInv
  <2>2. CASE l \in OpenLinks(u)
    <3>1. /\ Used(l).state = "consumed" /\ Used(l).by = 0 /\ Used(l).user = link[l].user
          /\ Used(l) \in LinkType
      <4>1. 0 \in 0..MaxLinks
        BY BoundsAreNumbers
      <4>2. QED
        BY <2>1, <4>1 DEF Used, LinkType
    <3>2. link[l].user \in Users /\ uses[l] = 0
      BY <2>1, <2>2 DEF OpenLinks, UsedSoundly
    <3>3. QED
      BY <2>2, <3>1, <3>2 DEF UsedSoundly
  <2>3. CASE l \notin OpenLinks(u)
    BY <2>1, <2>3
  <2>4. QED
    BY <2>2, <2>3
<1>2. link' \in [Links -> LinkType]
  BY <1>1
<1>3. QED
  BY <1>1, <1>2 DEF IdentityInv, LinksInv

LEMMA DeleteStep ==
    ASSUME IdentityInv, AdminInv, NEW r \in Requests, FinishDelete(r)
    PROVE  IdentityInv' /\ AdminInv'
<1> DEFINE u == request[r].user
           b == Deleted(account[u])
<1>1. /\ request[r].kind = "delete" /\ Done(r)
      /\ UNCHANGED <<session, access, uses, asked, restarts, overtaken>>
  BY DEF FinishDelete
<1>2. u \in Users /\ account[u].phase # "absent" /\ Sound(account[u]) /\ AccountsInv
  BY <1>1, WritesWhat
<1>3. CASE Deletable(u)
  <2>1. /\ Changed(u, b) /\ root' = RootWithout(u)
        /\ link' = [l \in Links |-> IF l \in OpenLinks(u) THEN Used(l) ELSE link[l]]
    BY <1>3 DEF FinishDelete, Deleted
  <2>2. Onward(account[u], b) /\ b.phase = "deleted" /\ b.admin = FALSE
    BY <1>2, DeletedOnward
  <2>3. Administrates(account[u]) => \E v \in Users \ {u} : Administrates(account[v])
    <3>1. SUFFICES ASSUME Administrates(account[u])
                   PROVE  \E v \in Users \ {u} : Administrates(account[v])
      OBVIOUS
    <3>2. PICK v \in Administrators : v # u
      BY <1>3, <3>1, TwoOfThem DEF Deletable, Administrates, Counts
    <3>3. QED
      BY <3>2 DEF Administrators, CountedAdministrators, Administrates, Counts
  <2> HIDE DEF b, u
  <2>4. /\ AllOnward /\ account'[u] = b
        /\ \A x \in Users \ {u} : account'[x] = account[x]
    BY <1>2, <2>1, <2>2, OneChanged
  <2>5. AccountsInv'
    <3>1. root' \in Users \cup {None} /\ (root' # None => root' = root /\ root # u)
      BY <2>1 DEF RootWithout, IdentityInv, AccountsInv
    <3>2. root' # None => account'[root'].phase = "live"
      BY <2>4, <3>1 DEF IdentityInv, AccountsInv
    <3>3. QED
      BY <2>4, <3>1, <3>2 DEF AccountsInv, AllOnward, Onward
  <2>6. CredentialsInv' /\ SessionsStay
    BY <1>1, <2>4, CredentialsStay
  <2>7. LinksInv'
    BY <1>1, <1>2, <2>1, LinksClosed
  <2>8. IdentityInv'
    BY <1>1, <2>4, <2>5, <2>6, <2>7, WorkDone, BoundsStay DEF IdentityInv
  <2>9. AdminInv'
    BY <1>1, <1>2, <2>2, <2>3, <2>4, AdminKept DEF Counts
  <2>10. QED
    BY <2>8, <2>9
<1>4. CASE ~Deletable(u)
  <2>1. AccountsAlone /\ UNCHANGED link
    BY <1>4 DEF FinishDelete, AccountsAlone
  <2>2. IdentityInv'
    BY <1>1, <2>1, AloneStays, CredentialsStay, WorkDone, LinksStay, BoundsStay
       DEF IdentityInv
  <2>3. QED
    BY <1>1, <2>1, <2>2, AdminSame DEF AccountsAlone
<1>5. QED
  BY <1>3, <1>4

LEMMA SuspendStep ==
    ASSUME IdentityInv, AdminInv, NEW u \in Users, SuspensionEnds(u)
    PROVE  IdentityInv' /\ AdminInv'
<1>1. /\ account[u].phase = "live" /\ Sound(account[u]) /\ AccountsInv
      /\ Changed(u, Expired(account[u]))
      /\ UNCHANGED <<root, session, access, link, uses, request, asked, restarts, overtaken>>
  BY DEF SuspensionEnds, Expired, sessionVars, IdentityInv, AccountsInv
<1>2. /\ Onward(account[u], Expired(account[u]))
      /\ Expired(account[u]).phase = account[u].phase
      /\ Expired(account[u]).admin = account[u].admin
      /\ Expired(account[u]).status = account[u].status
  BY <1>1, ExpiredOnward
<1>3. /\ AllOnward /\ account'[u] = Expired(account[u])
      /\ \A x \in Users \ {u} : account'[x] = account[x]
  BY <1>1, <1>2, OneChanged
<1>4. AccountsInv'
  <2>1. root # None => account'[root].phase = "live"
    BY <1>1, <1>2, <1>3 DEF AccountsInv
  <2>2. QED
    BY <1>1, <1>3, <2>1, AccountsStay
<1>5. CredentialsInv' /\ SessionsStay
  BY <1>1, <1>3, CredentialsStay
<1>6. IdentityInv'
  BY <1>1, <1>3, <1>4, <1>5, WorkStays, LinksStay, BoundsStay DEF IdentityInv
<1>7. AdminInv'
  BY <1>1, <1>2, <1>3, AdminKept DEF Administrates, Counts
<1>8. QED
  BY <1>6, <1>7

\* At a restart the configured administrator is active again: a suspended,
\* demoted or deleted one does not leave the tenant without any.
LEMMA RestartStep ==
    ASSUME IdentityInv, AdminInv, Restart
    PROVE  IdentityInv' /\ AdminInv'
<1> PICK u \in IF root # None THEN {root}
               ELSE {x \in Users : account[x].phase = "absent"} :
       /\ root' = u
       /\ Changed(u, IF root = None THEN NewAccount(TRUE) ELSE Reinstated(account[u]))
  BY DEF Restart, Reinstated
<1> DEFINE b == IF root = None THEN NewAccount(TRUE) ELSE Reinstated(account[u])
<1>1. /\ UNCHANGED <<session, access, link, uses, asked, overtaken>>
      /\ request' = [r \in Requests |-> Idle]
      /\ restarts' = restarts + 1 /\ restarts < MaxRestarts
  BY DEF Restart, sessionVars
<1>2. AccountsInv
  BY DEF IdentityInv
<1>3. u \in Users /\ Onward(account[u], b) /\ Administrates(b)
  <2>1. CASE root = None
    <3>1. u \in Users /\ account[u] = Absent
      BY <1>2, <2>1 DEF AccountsInv, Sound
    <3>2. Administrates(NewAccount(TRUE))
      BY DEF Administrates, Counts, NewAccount
    <3>3. QED
      BY <2>1, <3>1, <3>2, NewAccountOnward
  <2>2. CASE root # None
    <3>1. u \in Users /\ account[u].phase = "live" /\ Sound(account[u])
      BY <1>2, <2>2 DEF AccountsInv
    <3>2. /\ Onward(account[u], Reinstated(account[u]))
          /\ Reinstated(account[u]).phase = "live"
          /\ Reinstated(account[u]).admin /\ Reinstated(account[u]).status = "active"
      BY <3>1, ReinstatedOnward
    <3>3. QED
      BY <2>2, <3>1, <3>2 DEF Administrates, Counts
  <2>3. QED
    BY <2>1, <2>2
<1> HIDE DEF b
<1>4. /\ AllOnward /\ account'[u] = b
      /\ \A x \in Users \ {u} : account'[x] = account[x]
  BY <1>2, <1>3, OneChanged DEF b
<1>5. AccountsInv'
  BY <1>3, <1>4 DEF AccountsInv, AllOnward, Onward, Administrates
<1>6. CredentialsInv' /\ SessionsStay
  BY <1>1, <1>4, CredentialsStay
<1>7. WorkInv'
  BY <1>1, IdleOrderly DEF WorkInv
<1>8. BoundsInv'
  <2>1. restarts' \in 0..MaxRestarts
    BY <1>1, BoundsAreNumbers DEF IdentityInv, BoundsInv
  <2>2. QED
    BY <1>1, <2>1 DEF IdentityInv, BoundsInv
<1>9. IdentityInv'
  BY <1>1, <1>5, <1>6, <1>7, <1>8, LinksStay DEF IdentityInv
<1>10. AdminInv'
  BY <1>1, <1>3, <1>4, AdminKept DEF Administrates
<1>11. QED
  BY <1>9, <1>10
-------------------------------------------------------------------------------
(* Every step.                                                                 *)

LEMMA InitAdmin == Init => AdminInv
<1> SUFFICES ASSUME Init PROVE AdminInv
  OBVIOUS
<1>1. /\ NewAccount(TRUE).phase = "live" /\ Counts(NewAccount(TRUE))
      /\ \A admin : OldAccount(admin).phase = "live"
      /\ Counts(OldAccount(TRUE)) /\ ~Counts(Absent)
  BY DEF NewAccount, OldAccount, Absent, Counts
<1>2. FirstRoot \in Users
  BY IdentityAssumption
<1>3. Administrates(account[FirstRoot])
  BY <1>1, <1>2 DEF Init, Administrates
<1>4. ASSUME NEW u \in Users, account[u].phase # "live"
      PROVE  ~Counts(account[u])
  BY <1>1, <1>4 DEF Init
<1>5. QED
  BY <1>2, <1>3, <1>4 DEF AdminInv

\* What the accounts are led by: the invariants of this module together.
AllInv == IdentityInv /\ AdminInv

LEMMA SessionStepHolds ==
    ASSUME AllInv, SessionInv, SessionStep
    PROVE  AllInv'
<1>1. ASSUME NEW r \in Requests,
             \/ \E u \in Users : StartLogin(r, u)
             \/ \E s \in Sessions : \E n \in 1..issued[s] : StartRefresh(r, s, n)
      PROVE  AllInv'
  <2>1. Receives
    BY <1>1, ReceivedCases DEF AllInv
  <2>2. QED
    BY <2>1, ReceivedStep, ReceivedAdmin DEF AllInv
<1>2. ASSUME NEW r \in Requests, FinishLogin(r)
      PROVE  AllInv'
  BY <1>2, LoginStep, AdminSame DEF AllInv, FinishLogin, Writes
<1>3. ASSUME NEW r \in Requests, FinishRefresh(r)
      PROVE  AllInv'
  BY <1>3, RefreshStep, AdminSame DEF AllInv, FinishRefresh, Writes
<1>4. ASSUME NEW s \in Sessions, NEW n, Logout(s, n)
      PROVE  AllInv'
  BY <1>4, LogoutStep, AdminSame DEF AllInv, Logout
<1>5. QED
  BY <1>1, <1>2, <1>3, <1>4 DEF SessionStep

LEMMA PasswordStepHolds ==
    ASSUME AllInv, SessionInv, PasswordStep
    PROVE  AllInv'
<1>1. ASSUME NEW r \in Requests,
             \/ \E actor, u \in Users : StartReset(r, actor, u)
             \/ \E u \in Users : StartForgot(r, u)
             \/ \E l \in Links : StartComplete(r, l)
             \/ \E u \in Users : StartChangeOwn(r, u)
      PROVE  AllInv'
  <2>1. Receives
    BY <1>1, ReceivedCases DEF AllInv
  <2>2. QED
    BY <2>1, ReceivedStep, ReceivedAdmin DEF AllInv
<1>2. ASSUME NEW r \in Requests, FirstAccess(r) \/ IssueReset(r) \/ IssueForgot(r)
      PROVE  AllInv'
  <2>1. UNCHANGED <<account, overtaken>>
    BY <1>2 DEF FirstAccess, IssueReset, IssueForgot
  <2>2. QED
    BY <1>2, <2>1, IssueStep, AdminSame DEF AllInv
<1>3. ASSUME NEW r \in Requests,
             Delivered(r) \/ ForgotUndelivered(r) \/ ResetUndelivered(r)
      PROVE  AllInv'
  <2>1. UNCHANGED <<account, overtaken>>
    BY <1>3 DEF Delivered, ForgotUndelivered, ResetUndelivered
  <2>2. QED
    BY <1>3, <2>1, MailStep, AdminSame DEF AllInv
<1>4. ASSUME NEW r \in Requests, CancelReplacement(r)
      PROVE  AllInv'
  BY <1>4, CancelStep, AdminSame DEF AllInv, CancelReplacement
<1>5. ASSUME NEW r \in Requests, FinishComplete(r)
      PROVE  AllInv'
  BY <1>5, CompleteStep, PasswordAdmin DEF AllInv
<1>6. ASSUME NEW r \in Requests, FinishChangeOwn(r)
      PROVE  AllInv'
  BY <1>6, ChangeOwnStep, PasswordAdmin DEF AllInv
<1>7. ASSUME NEW l \in Links, LinkExpires(l)
      PROVE  AllInv'
  BY <1>7, ExpireStep, AdminSame DEF AllInv, LinkExpires
<1>8. QED
  BY <1>1, <1>2, <1>3, <1>4, <1>5, <1>6, <1>7 DEF PasswordStep

LEMMA ManagementStepHolds ==
    ASSUME AllInv, SessionInv, ManagementStep
    PROVE  AllInv'
<1>1. ASSUME NEW r \in Requests,
             \/ \E actor, u \in Users, admin \in BOOLEAN : StartUpdate(r, actor, u, admin)
             \/ \E actor, u \in Users, to \in Statuses : StartStatus(r, actor, u, to)
             \/ \E actor, u \in Users : StartDelete(r, actor, u)
      PROVE  AllInv'
  <2>1. Receives
    BY <1>1, ReceivedCases DEF AllInv
  <2>2. QED
    BY <2>1, ReceivedStep, ReceivedAdmin DEF AllInv
<1>2. ASSUME NEW actor \in Users, NEW u \in Users, NEW admin \in BOOLEAN,
             CreateUser(actor, u, admin)
      PROVE  AllInv'
  BY <1>2, CreateStep DEF AllInv
<1>3. ASSUME NEW r \in Requests, FinishUpdate(r)
      PROVE  AllInv'
  BY <1>3, UpdateStep DEF AllInv
<1>4. ASSUME NEW r \in Requests, FinishStatus(r)
      PROVE  AllInv'
  BY <1>4, StatusStep DEF AllInv
<1>5. ASSUME NEW r \in Requests, FinishDelete(r)
      PROVE  AllInv'
  BY <1>5, DeleteStep DEF AllInv
<1>6. ASSUME NEW u \in Users, SuspensionEnds(u)
      PROVE  AllInv'
  BY <1>6, SuspendStep DEF AllInv
<1>7. QED
  BY <1>1, <1>2, <1>3, <1>4, <1>5, <1>6 DEF ManagementStep

LEMMA AllInvariant == Spec => [](AllInv /\ SessionInv)
<1>1. Init => AllInv
  BY InitIdentity, InitAdmin DEF AllInv
<1>2. ASSUME AllInv, SessionInv, [Next]_vars
      PROVE  AllInv'
  <2>1. CASE SessionStep
    BY <1>2, <2>1, SessionStepHolds
  <2>2. CASE PasswordStep
    BY <1>2, <2>2, PasswordStepHolds
  <2>3. CASE ManagementStep
    BY <1>2, <2>3, ManagementStepHolds
  <2>4. CASE Restart
    BY <1>2, <2>4, RestartStep DEF AllInv
  <2>5. CASE UNCHANGED vars
    <3>1. /\ AccountsAlone /\ UNCHANGED <<session, access, link, uses, request>>
          /\ UNCHANGED <<asked, restarts, overtaken>>
      BY <2>5 DEF vars, AccountsAlone
    <3>2. IdentityInv /\ AdminInv
      BY <1>2 DEF AllInv
    <3>3. IdentityInv'
      BY <3>1, <3>2, AloneStays, CredentialsStay, WorkStays, LinksStay, BoundsStay
         DEF IdentityInv
    <3>4. QED
      BY <3>1, <3>2, <3>3, AdminSame DEF AllInv, AccountsAlone
  <2>6. QED
    BY <1>2, <2>1, <2>2, <2>3, <2>4, <2>5 DEF Next
<1>3. QED
  BY <1>1, <1>2, SessionInvariant, PTL DEF Spec

\* However logins, refreshes, password changes, links and the management of
\* accounts interleave: a session has one refresh token at most; an access token the
\* guard accepts was signed for the password the account has now; no session is
\* opened with the password an administrator chose; a link sets one password at most.
THEOREM CredentialsSound == Spec => []CredentialsAreSound
<1>1. AllInv /\ SessionInv => TypeOK
  <2> SUFFICES ASSUME AllInv, SessionInv PROVE TypeOK
    OBVIOUS
  <2>1. AccountsInv /\ WorkInv /\ CredentialsInv /\ LinksInv /\ BoundsInv /\ TokensInv
    BY DEF AllInv, IdentityInv, SessionInv
  <2>2. \A t \in alive : t[1] \in Sessions /\ t[2] \in 1..issued[t[1]]
    BY <2>1 DEF TokensInv
  <2>3. \A r \in Requests : request[r].kind \in Kinds
    BY <2>1 DEF WorkInv, Orderly, RequestType
  <2>4. /\ account \in [Users -> AccountType] /\ root \in Users \cup {None}
        /\ root # None => account[root].phase = "live"
    BY <2>1 DEF AccountsInv
  <2>5. /\ session \in [Sessions -> [user : Users \cup {None}, password : Nat]]
        /\ access \in [Sessions -> [version : Nat, password : Nat]]
    BY <2>1 DEF CredentialsInv
  <2>6. /\ link \in [Links -> LinkType] /\ uses \in [Links -> Nat]
    BY <2>1 DEF LinksInv
  <2>7. /\ asked \in 0..MaxRequests /\ restarts \in 0..MaxRestarts /\ overtaken \in BOOLEAN
        /\ issued \in [Sessions -> Nat]
    BY <2>1 DEF BoundsInv, TokensInv
  <2>8. QED
    BY <2>2, <2>3, <2>4, <2>5, <2>6, <2>7 DEF TypeOK, LinkType
<1>2. AllInv => AccessEndsWithPassword
  <2> SUFFICES ASSUME AllInv, NEW s \in Sessions, Accepted(s)
               PROVE  access[s].password = account[session[s].user].password
    BY DEF AccessEndsWithPassword
  <2>1. session[s] # NoSession /\ account[session[s].user].version = access[s].version
    BY DEF Accepted
  <2>2. Past(access[s], account[session[s].user])
    BY <2>1 DEF AllInv, IdentityInv, CredentialsInv, OpenedSoundly
  <2>3. QED
    BY <2>1, <2>2 DEF Past
<1>3. AllInv => InitialPasswordOpensNothing
  BY DEF AllInv, IdentityInv, CredentialsInv, OpenedSoundly, InitialPasswordOpensNothing
<1>4. AllInv => LinkUsedOnce
  BY DEF AllInv, IdentityInv, LinksInv, UsedSoundly, LinkUsedOnce
<1>5. AllInv /\ SessionInv /\ OneTokenPerSession => CredentialsAreSound
  BY <1>1, <1>2, <1>3, <1>4 DEF CredentialsAreSound
<1>6. QED
  BY <1>5, AllInvariant, OneToken, PTL

\* Whatever demotions, status changes, suspensions, deletions and restarts
\* interleave, an active administrator remains, unless a write outside the counting
\* transactions met an account that had changed since it was read.
THEOREM AdministratorIsKept == Spec => []AdministratorKept
<1>1. AllInv => AdministratorKept
  BY DEF AllInv, AdminInv, AdministratorKept, Administrators, CountedAdministrators,
         Administrates, Counts
<1>2. QED
  BY <1>1, AllInvariant, PTL
===============================================================================
