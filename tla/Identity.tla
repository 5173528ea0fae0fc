------------------------------- MODULE Identity -------------------------------
(***************************************************************************)
(* Accounts, sessions and password links of one tenant.                    *)
(*                                                                         *)
(* Every request of the API reads the account it is about in one database  *)
(* call, decides on that copy, and writes in a later transaction:          *)
(* `request` holds the copy between the two, so two requests interleave as *)
(* they do in the database.  Accounts are managed by the use cases under   *)
(* application/use-cases/users, sessions and links by those under          *)
(* application/use-cases/auth, and all are stored by PrismaUsersRepository,*)
(* PrismaRefreshTokensRepository and                                       *)
(* PrismaPasswordChangeChallengesRepository.                               *)
(*                                                                         *)
(* A transaction is one step; the undoing of a link whose e-mail could not *)
(* be sent, which runs at READ COMMITTED, takes two.  A password is the    *)
(* number of times it was changed: 0 is the one an administrator chose.    *)
(* A refused request that wrote nothing is no step.                        *)
(***************************************************************************)
EXTENDS Integers, FiniteSets, FiniteSetsExt

CONSTANTS
    Users,          \* accounts that may come to exist
    FirstRoot,      \* the account the first bootstrap creates
    Managers,       \* accounts that manage others without being administrators
    Requests,       \* requests the API handles at a time
    Established,    \* accounts that exist at first, with their own password
    MaxSessions,    \* bound on the sessions logins open
    MaxLinks,       \* bound on the password links issued
    MaxRotations,   \* bound on the refresh tokens of a session
    MaxRequests,    \* bound on the requests received
    MaxRestarts,    \* bound on the restarts of the API
    None

ASSUME IdentityAssumption ==
    /\ FirstRoot \in Users
    /\ Managers \subseteq Users
    /\ Established \subseteq Users
    /\ None \notin Users
    /\ {MaxSessions, MaxLinks, MaxRotations, MaxRequests, MaxRestarts} \subseteq Nat

Links == 1..MaxLinks
Sessions == 1..MaxSessions
Statuses == {"active", "inactive", "suspended"}

VARIABLES
    account,    \* account[u]: the row of the user u
    root,       \* the account that has the configured administrator's username
    session,    \* session[s]: who opened it, with which password
    alive,      \* the refresh tokens <<s, n>> that are not revoked
    issued,     \* issued[s]: refresh tokens issued in the session s so far
    access,     \* access[s]: the last access token signed in the session s
    link,       \* link[l]: the row of the l-th password link
    request,    \* request[r]: what the request r has read and is to write
    asked,      \* requests received so far
    restarts,   \* restarts so far
    uses,       \* uses[l]: passwords set through the link l (observed)
    overtaken   \* an unguarded write met an account changed since its read

vars == <<account, root, session, alive, issued, access, link, request, asked,
          restarts, uses, overtaken>>
sessionVars == <<session, alive, issued, access>>

-----------------------------------------------------------------------------
(* The records.                                                            *)

Absent == [phase |-> "absent", status |-> "inactive", due |-> FALSE,
           admin |-> FALSE, must |-> FALSE, password |-> 0, version |-> 0]

\* A new account is active and has to replace its password first.
NewAccount(admin) ==
    [phase |-> "live", status |-> "active", due |-> FALSE, admin |-> admin,
     must |-> TRUE, password |-> 0, version |-> 1]

\* One whose password was replaced.
OldAccount(admin) ==
    [NewAccount(admin) EXCEPT !.must = FALSE, !.password = 1, !.version = 2]

NoSession == [user |-> None, password |-> 0]
NoAccess == [version |-> 0, password |-> 0]
NoLink == [user |-> None, reason |-> "admin-reset", state |-> "none",
           by |-> 0, expired |-> FALSE]
Idle == [kind |-> "idle", user |-> None, read |-> Absent, to |-> "none",
         admin |-> FALSE, link |-> 0, token |-> <<0, 0>>]

\* An account may sign in and be worked for only while it is live and active.
Usable(a) == a.phase = "live" /\ a.status = "active"

\* What a read of the account returns: a suspension that is over ends with it.
Seen(u) ==
    LET a == account[u] IN
    IF a.phase = "live" /\ a.status = "suspended" /\ a.due
    THEN [a EXCEPT !.status = "active", !.due = FALSE, !.version = @ + 1]
    ELSE a

\* The accounts the administrator count of an update sees, deleted ones too.
CountedAdministrators ==
    {u \in Users : account[u].admin /\ account[u].status = "active"}

\* The accounts the count of a deletion sees.
Administrators == {u \in CountedAdministrators : account[u].phase = "live"}

TokensOf(u) == {t \in alive : session[t[1]].user = u}
OpenLinks(u) == {l \in Links : link[l].user = u /\ link[l].state = "open"}

\* Who may manage whom: administrators everyone, managers the accounts that
\* are neither their own nor an administrator's.
MayManage(actor, u) ==
    /\ Usable(Seen(actor)) /\ ~Seen(actor).must
    /\ \/ Seen(actor).admin
       \/ actor \in Managers /\ actor # u /\ ~Seen(u).admin

Changed(u, a) == account' = [account EXCEPT ![u] = a]
Done(r) == request' = [request EXCEPT ![r] = Idle]

\* What a request of each kind uses later of the account it read.
Kept(kind, a) ==
    CASE kind \in {"login", "refresh"} ->
            [Absent EXCEPT !.password = a.password, !.version = a.version]
      [] kind \in {"update", "status"} ->
            [Absent EXCEPT !.phase = a.phase, !.status = a.status, !.admin = a.admin]
      [] OTHER -> Absent

\* The request r can be received.
Free(r) == request[r] = Idle /\ asked < MaxRequests

\* It reads the account u and remembers what it read.
Reads(r, u, what) ==
    /\ asked' = asked + 1
    /\ Changed(u, Seen(u))
    /\ request' = [request EXCEPT ![r] = [what EXCEPT
           !.user = u, !.read = Kept(what.kind, Seen(u))]]
    /\ UNCHANGED <<root, sessionVars, link, restarts, uses, overtaken>>

\* The request r writes on the account it read.
Writes(r, kind) ==
    /\ request[r].kind = kind
    /\ UNCHANGED <<root, asked, restarts>>

-----------------------------------------------------------------------------
(* Sessions: login, refresh and logout.                                    *)

\* AuthenticateUseCase: the password fits and the account is active; one that
\* has to replace its password gets a link instead of a session.
StartLogin(r, u) ==
    /\ Free(r)
    /\ Usable(Seen(u))
    /\ Reads(r, u, [Idle EXCEPT !.kind = IF Seen(u).must THEN "first-access"
                                                         ELSE "login"])

\* Sessions are numbered in the order they are opened.
NextSession(s) ==
    session[s] = NoSession /\ \A x \in 1..(s - 1) : session[x] # NoSession

\* The session is stored whatever became of the account meanwhile.
FinishLogin(r) ==
    /\ Writes(r, "login")
    /\ \E s \in Sessions :
          /\ NextSession(s)
          /\ session' = [session EXCEPT ![s] =
                [user |-> request[r].user, password |-> request[r].read.password]]
          /\ alive' = alive \cup {<<s, 1>>}
          /\ issued' = [issued EXCEPT ![s] = 1]
          /\ access' = [access EXCEPT ![s] =
                [version |-> request[r].read.version,
                 password |-> request[r].read.password]]
    /\ Done(r)
    /\ UNCHANGED <<account, link, uses, overtaken>>

\* RefreshSessionUseCase: the token is not revoked and its account may work.
StartRefresh(r, s, n) ==
    /\ Free(r)
    /\ <<s, n>> \in alive
    /\ issued[s] < MaxRotations
    /\ Usable(Seen(session[s].user)) /\ ~Seen(session[s].user).must
    /\ Reads(r, session[s].user,
             [Idle EXCEPT !.kind = "refresh", !.token = <<s, n>>])

\* The slip exchanges a token without looking at its revocation again.
RotatesAny(t) == TRUE

\* rotate: the token is exchanged only if nobody revoked it since.
Rotates(t) == t \in alive

FinishRefresh(r) ==
    LET t == request[r].token
        s == t[1]
    IN  /\ Writes(r, "refresh")
        /\ IF Rotates(t)
           THEN /\ alive' = (alive \ {t}) \cup {<<s, issued[s] + 1>>}
                /\ issued' = [issued EXCEPT ![s] = @ + 1]
                /\ access' = [access EXCEPT ![s] =
                      [version |-> request[r].read.version,
                       password |-> request[r].read.password]]
           ELSE UNCHANGED <<alive, issued, access>>
        /\ Done(r)
        /\ UNCHANGED <<session, account, link, uses, overtaken>>

\* LogoutUseCase: revokes the token presented, which another may have replaced.
Logout(s, n) ==
    /\ asked < MaxRequests
    /\ n \in 1..issued[s]
    /\ asked' = asked + 1
    /\ alive' = alive \ {<<s, n>>}
    /\ UNCHANGED <<account, root, session, issued, access, link, request,
                   restarts, uses, overtaken>>

\* JwtAuthGuard: the access token of a session opens the API.
Accepted(s) ==
    LET a == account[session[s].user] IN
    /\ session[s] # NoSession
    /\ Usable(a) /\ ~a.must
    /\ a.version = access[s].version

-----------------------------------------------------------------------------
(* Password links.                                                         *)

Gone == [NoLink EXCEPT !.state = "gone"]

Used(l) == [link[l] EXCEPT !.state = "consumed", !.by = 0]

NextLink == Min({l \in Links : link[l].state = "none"} \cup {MaxLinks + 1})

\* A link is stored for u; `over` are the links it takes the place of.
Issued(u, reason, over) ==
    link' = [l \in Links |->
        IF l = NextLink THEN [NoLink EXCEPT !.user = u, !.reason = reason,
                                            !.state = "open"]
        ELSE IF l \in over THEN [link[l] EXCEPT !.state = "consumed",
                                                !.by = NextLink]
        ELSE link[l]]

\* The login of an account that has to replace its password: the link is
\* handed to the client, and takes the place of every other.
FirstAccess(r) ==
    /\ Writes(r, "first-access")
    /\ NextLink \in Links
    /\ Issued(request[r].user, "first-access", OpenLinks(request[r].user))
    /\ Done(r)
    /\ UNCHANGED <<account, sessionVars, uses, overtaken>>

\* RequestAdminPasswordResetUseCase and RequestPasswordResetUseCase.
StartReset(r, actor, u) ==
    /\ Free(r)
    /\ MayManage(actor, u) /\ Usable(Seen(u))
    /\ Reads(r, u, [Idle EXCEPT !.kind = "reset"])

StartForgot(r, u) ==
    /\ Free(r)
    /\ Usable(Seen(u))
    /\ Reads(r, u, [Idle EXCEPT !.kind = "forgot"])

\* The administrator's link replaces the others, the user's own does not.
IssueReset(r) ==
    /\ Writes(r, "reset")
    /\ NextLink \in Links
    /\ Issued(request[r].user, "admin-reset", OpenLinks(request[r].user))
    /\ request' = [request EXCEPT ![r].kind = "reset-mail", ![r].link = NextLink]
    /\ UNCHANGED <<account, sessionVars, uses, overtaken>>

IssueForgot(r) ==
    /\ Writes(r, "forgot")
    /\ NextLink \in Links
    /\ Issued(request[r].user, "admin-reset", {})
    /\ request' = [request EXCEPT ![r].kind = "forgot-mail", ![r].link = NextLink]
    /\ UNCHANGED <<account, sessionVars, uses, overtaken>>

Delivered(r) ==
    /\ request[r].kind \in {"reset-mail", "forgot-mail"}
    /\ Writes(r, request[r].kind)
    /\ Done(r)
    /\ UNCHANGED <<account, sessionVars, link, uses, overtaken>>

\* The e-mail of a link the user asked for could not be sent: it is deleted.
ForgotUndelivered(r) ==
    /\ Writes(r, "forgot-mail")
    /\ link' = [link EXCEPT ![request[r].link] = Gone]
    /\ Done(r)
    /\ UNCHANGED <<account, sessionVars, uses, overtaken>>

\* cancelReplacement first looks whether the link is still open ...
ResetUndelivered(r) ==
    /\ Writes(r, "reset-mail")
    /\ request' = [request EXCEPT ![r].kind =
          IF link[request[r].link].state = "open" THEN "restore" ELSE "remove"]
    /\ UNCHANGED <<account, sessionVars, link, uses, overtaken>>

\* ... then deletes it and, if it was, re-opens the latest one it replaced.
Restored(l) ==
    LET replaced == {p \in Links : /\ link[p].state = "consumed"
                                   /\ link[p].by = l
                                   /\ ~link[p].expired}
    IN  IF replaced = {} THEN {} ELSE {Max(replaced)}

CancelReplacement(r) ==
    /\ request[r].kind \in {"restore", "remove"}
    /\ Writes(r, request[r].kind)
    /\ LET mine == request[r].link
           back == IF request[r].kind = "restore" THEN Restored(mine) ELSE {}
       IN  link' = [l \in Links |->
              IF l = mine THEN Gone
              ELSE IF l \in back THEN [link[l] EXCEPT !.state = "open", !.by = 0]
              ELSE link[l]]
    /\ Done(r)
    /\ UNCHANGED <<account, sessionVars, uses, overtaken>>

\* Time runs out for a link that is open or could be opened again.
LinkExpires(l) ==
    /\ link[l].state = "open" \/ (link[l].state = "consumed" /\ link[l].by # 0)
    /\ ~link[l].expired
    /\ link' = [link EXCEPT ![l].expired = TRUE]
    /\ UNCHANGED <<account, root, sessionVars, request, asked, restarts, uses,
                   overtaken>>

-----------------------------------------------------------------------------
(* Passwords.                                                              *)

\* A new password ends every session and every access token of the account.
NewPassword(u) ==
    /\ Changed(u, [account[u] EXCEPT !.password = @ + 1, !.must = FALSE,
                                     !.version = @ + 1])
    /\ alive' = alive \ TokensOf(u)
    /\ UNCHANGED <<session, issued, access>>

\* CompletePasswordChangeUseCase reads the link, then the account.
StartComplete(r, l) ==
    LET u == link[l].user IN
    /\ Free(r)
    /\ link[l].state = "open" /\ ~link[l].expired
    /\ Usable(Seen(u))
    /\ link[l].reason = "first-access" => Seen(u).must
    /\ Reads(r, u, [Idle EXCEPT !.kind = "complete", !.link = l])

\* The slip trusts the link as it was read.
CompletesAsRead(r) ==
    link[request[r].link].reason = "first-access" => account[request[r].user].must

\* complete: the link must still be open, and the account of a first access
\* still without a password of its own.
Completes(r) ==
    LET l == request[r].link IN
    /\ link[l].state = "open"
    /\ link[l].reason = "first-access" => account[request[r].user].must

FinishComplete(r) ==
    LET u == request[r].user
        l == request[r].link
    IN  /\ Writes(r, "complete")
        /\ IF Completes(r)
           THEN /\ NewPassword(u)
                /\ link' = [x \in Links |->
                      IF x \in OpenLinks(u) \cup {l}
                      THEN Used(x) ELSE link[x]]
                /\ uses' = [uses EXCEPT ![l] = @ + 1]
           ELSE UNCHANGED <<account, sessionVars, link, uses>>
        /\ Done(r)
        /\ UNCHANGED overtaken

\* ChangeOwnPasswordUseCase: the current password fits the one read.
StartChangeOwn(r, u) ==
    /\ Free(r)
    /\ Usable(Seen(u)) /\ ~Seen(u).must
    /\ Reads(r, u, [Idle EXCEPT !.kind = "change-own"])

\* changePassword leaves the account's links as they are.
FinishChangeOwn(r) ==
    /\ Writes(r, "change-own")
    /\ NewPassword(request[r].user)
    /\ Done(r)
    /\ UNCHANGED <<link, uses, overtaken>>

-----------------------------------------------------------------------------
(* Managing accounts.                                                      *)

\* CreateUserUseCase: only an administrator creates one.
CreateUser(actor, u, admin) ==
    /\ asked < MaxRequests
    /\ account[u].phase = "absent"
    /\ MayManage(actor, u)
    /\ admin => Seen(actor).admin
    /\ asked' = asked + 1
    /\ account' = [account EXCEPT ![actor] = Seen(actor),
                                  ![u] = NewAccount(admin)]
    /\ UNCHANGED <<root, sessionVars, link, request, restarts, uses, overtaken>>

\* UpdateUserUseCase with the administrator flag of the form.
StartUpdate(r, actor, u, admin) ==
    /\ Free(r)
    /\ Seen(u).phase = "live"
    /\ MayManage(actor, u)
    /\ (Seen(u).admin \/ admin) => Seen(actor).admin
    /\ actor = u => admin
    /\ Reads(r, u, [Idle EXCEPT !.kind = "update", !.admin = admin])

\* UpdateUserStatusUseCase.
StartStatus(r, actor, u, to) ==
    /\ Free(r)
    /\ Seen(u).phase = "live"
    /\ MayManage(actor, u)
    /\ actor = u => to = "active"
    /\ Reads(r, u, [Idle EXCEPT !.kind = "status", !.to = to])

\* DeleteUserUseCase.
StartDelete(r, actor, u) ==
    /\ Free(r)
    /\ Usable(Seen(actor)) /\ ~Seen(actor).must /\ Seen(actor).admin
    /\ actor # u /\ Seen(u).phase = "live"
    /\ Reads(r, u, [Idle EXCEPT !.kind = "delete"])

\* The write takes a right away from an account read as an active
\* administrator: it goes through the transaction that counts.
Guarded(r) ==
    /\ request[r].read.admin /\ request[r].read.status = "active"
    /\ \/ request[r].kind = "update" /\ ~request[r].admin
       \/ request[r].kind = "status" /\ request[r].to # "active"

\* Without the count, the slip, it would only look at the account itself.
StillAdministrator(u) == u \in CountedAdministrators

\* What that transaction asks for.
AnotherAdministrator(u) ==
    /\ Cardinality(CountedAdministrators) > 1
    /\ u \in CountedAdministrators

\* The account is not what the request read any more.
Outdated(r) ==
    LET a == account[request[r].user]
        b == request[r].read
    IN  <<a.phase, a.status, a.admin>> # <<b.phase, b.status, b.admin>>

FinishUpdate(r) ==
    LET u == request[r].user IN
    /\ Writes(r, "update")
    /\ IF Guarded(r) /\ ~AnotherAdministrator(u)
       THEN UNCHANGED account
       ELSE Changed(u, [account[u] EXCEPT !.admin = request[r].admin])
    /\ overtaken' = (overtaken \/ (~Guarded(r) /\ Outdated(r)))
    /\ Done(r)
    /\ UNCHANGED <<sessionVars, link, uses>>

FinishStatus(r) ==
    LET u == request[r].user IN
    /\ Writes(r, "status")
    /\ IF Guarded(r) /\ ~AnotherAdministrator(u)
       THEN UNCHANGED <<account, alive>>
       ELSE /\ Changed(u, [account[u] EXCEPT !.status = request[r].to,
                                             !.due = FALSE, !.version = @ + 1])
            /\ alive' = alive \ TokensOf(u)
    /\ overtaken' = (overtaken \/ (~Guarded(r) /\ Outdated(r)))
    /\ Done(r)
    /\ UNCHANGED <<session, issued, access, link, uses>>

\* softDelete: refused for an administrator unless two are active.
Deletable(u) ==
    /\ account[u].phase = "live"
    /\ account[u].admin => Cardinality(Administrators) > 1

\* A deleted account gives its username back.
RootWithout(u) == IF root = u THEN None ELSE root

FinishDelete(r) ==
    LET u == request[r].user IN
    /\ request[r].kind = "delete"
    /\ IF Deletable(u)
       THEN /\ Changed(u, [account[u] EXCEPT !.phase = "deleted", !.admin = FALSE,
                              !.status = "inactive", !.due = FALSE,
                              !.version = @ + 1])
            /\ root' = RootWithout(u)
            /\ alive' = alive \ TokensOf(u)
            /\ link' = [l \in Links |-> IF l \in OpenLinks(u) THEN Used(l) ELSE link[l]]
       ELSE UNCHANGED <<account, root, alive, link>>
    /\ Done(r)
    /\ UNCHANGED <<session, issued, access, asked, restarts, uses, overtaken>>

SuspensionEnds(u) ==
    /\ account[u].phase = "live"
    /\ account[u].status = "suspended" /\ ~account[u].due
    /\ Changed(u, [account[u] EXCEPT !.due = TRUE])
    /\ UNCHANGED <<root, sessionVars, link, request, asked, restarts, uses,
                   overtaken>>

-----------------------------------------------------------------------------
(* ProductionBootstrapService, at every start of the API: the configured   *)
(* account is an active administrator again, and has to replace its        *)
(* password if it still is the configured one.  A new one is created when  *)
(* none has the configured username.  Requests under way are lost.         *)

Restart ==
    /\ restarts < MaxRestarts
    /\ restarts' = restarts + 1
    /\ \E u \in IF root # None THEN {root}
                ELSE {x \in Users : account[x].phase = "absent"} :
          /\ root' = u
          /\ Changed(u, IF root = None THEN NewAccount(TRUE)
                        ELSE [account[u] EXCEPT
                                !.status = "active", !.due = FALSE, !.admin = TRUE,
                                !.must = @ \/ account[u].password = 0])
    /\ request' = [r \in Requests |-> Idle]
    /\ UNCHANGED <<sessionVars, link, asked, uses, overtaken>>

-----------------------------------------------------------------------------
Init ==
    /\ account = [u \in Users |->
          IF u \in Established THEN OldAccount(u = FirstRoot)
          ELSE IF u = FirstRoot THEN NewAccount(TRUE) ELSE Absent]
    /\ root = FirstRoot
    /\ session = [s \in Sessions |-> NoSession]
    /\ alive = {}
    /\ issued = [s \in Sessions |-> 0]
    /\ access = [s \in Sessions |-> NoAccess]
    /\ link = [l \in Links |-> NoLink]
    /\ request = [r \in Requests |-> Idle]
    /\ asked = 0 /\ restarts = 0
    /\ uses = [l \in Links |-> 0]
    /\ overtaken = FALSE

SessionStep ==
    \/ \E r \in Requests :
          \/ \E u \in Users : StartLogin(r, u)
          \/ FinishLogin(r)
          \/ \E s \in Sessions : \E n \in 1..issued[s] : StartRefresh(r, s, n)
          \/ FinishRefresh(r)
    \/ \E s \in Sessions : \E n \in 1..issued[s] : Logout(s, n)

PasswordStep ==
    \/ \E r \in Requests :
          \/ FirstAccess(r)
          \/ \E actor, u \in Users : StartReset(r, actor, u)
          \/ \E u \in Users : StartForgot(r, u)
          \/ IssueReset(r)
          \/ IssueForgot(r)
          \/ Delivered(r)
          \/ ForgotUndelivered(r)
          \/ ResetUndelivered(r)
          \/ CancelReplacement(r)
          \/ \E l \in Links : StartComplete(r, l)
          \/ FinishComplete(r)
          \/ \E u \in Users : StartChangeOwn(r, u)
          \/ FinishChangeOwn(r)
    \/ \E l \in Links : LinkExpires(l)

ManagementStep ==
    \/ \E actor, u \in Users, admin \in BOOLEAN : CreateUser(actor, u, admin)
    \/ \E r \in Requests :
          \/ \E actor, u \in Users, admin \in BOOLEAN : StartUpdate(r, actor, u, admin)
          \/ \E actor, u \in Users, to \in Statuses : StartStatus(r, actor, u, to)
          \/ \E actor, u \in Users : StartDelete(r, actor, u)
          \/ FinishUpdate(r)
          \/ FinishStatus(r)
          \/ FinishDelete(r)
    \/ \E u \in Users : SuspensionEnds(u)

Next == SessionStep \/ PasswordStep \/ ManagementStep \/ Restart

Spec == Init /\ [][Next]_vars

-----------------------------------------------------------------------------
(* What the system promises.                                               *)

AccountType == [phase : {"absent", "live", "deleted"}, status : Statuses,
                due : BOOLEAN, admin : BOOLEAN, must : BOOLEAN,
                password : Nat, version : Nat]

Kinds == {"idle", "login", "first-access", "refresh", "reset", "reset-mail",
          "restore", "remove", "forgot", "forgot-mail", "complete", "change-own",
          "update", "status", "delete"}

\* Every variable holds a value of its kind; the configured administrator's
\* username belongs to a live account.
TypeOK ==
    /\ account \in [Users -> AccountType]
    /\ root \in Users \cup {None}
    /\ root # None => account[root].phase = "live"
    /\ session \in [Sessions -> [user : Users \cup {None}, password : Nat]]
    /\ issued \in [Sessions -> Nat]
    /\ \A t \in alive : t[1] \in Sessions /\ t[2] \in 1..issued[t[1]]
    /\ access \in [Sessions -> [version : Nat, password : Nat]]
    /\ link \in [Links -> [user : Users \cup {None},
                           reason : {"admin-reset", "first-access"},
                           state : {"none", "open", "consumed", "gone"},
                           by : 0..MaxLinks, expired : BOOLEAN]]
    /\ \A r \in Requests : request[r].kind \in Kinds
    /\ asked \in 0..MaxRequests /\ restarts \in 0..MaxRestarts
    /\ uses \in [Links -> Nat] /\ overtaken \in BOOLEAN

\* However demotions, deactivations, suspensions and deletions interleave, an
\* active administrator remains, unless a write outside the counting
\* transactions met an account that had changed since it was read.
AdministratorKept == Administrators = {} => overtaken

\* docs/architecture.md:202-205: the operations of the user management keep at
\* least one active explicit administrator, "inclusive sob despromocao e
\* inativacao concorrentes", without exception.
AdministratorRemains == Administrators # {}

\* A session has at most one refresh token at a time, whatever refreshes,
\* logouts and password changes overlap.
OneTokenPerSession ==
    \A s \in Sessions : Cardinality({t \in alive : t[1] = s}) <= 1

\* A session that ended, by logout, password change, status change or
\* deletion, never has a token again: a refresh under way cannot revive it.
SessionEndsForGood ==
    [][\A s \in Sessions :
          (issued[s] > 0 /\ \A t \in alive : t[1] # s)
             => \A t \in alive' : t[1] # s]_vars

\* An access token the guard accepts was signed for the password the account
\* has now.
AccessEndsWithPassword ==
    \A s \in Sessions :
        Accepted(s) => access[s].password = account[session[s].user].password

\* No session is ever opened with the password an administrator chose.
InitialPasswordOpensNothing ==
    \A s \in Sessions : session[s] # NoSession => session[s].password > 0

\* A link sets one password at most, also when the restoring of a replaced
\* link races with its use.
LinkUsedOnce == \A l \in Links : uses[l] <= 1

\* Sessions, access tokens and password links open what they were made for and
\* nothing else: the four promises above, for values of their types.
CredentialsAreSound ==
    /\ TypeOK /\ OneTokenPerSession /\ AccessEndsWithPassword
    /\ InitialPasswordOpensNothing /\ LinkUsedOnce
=============================================================================
