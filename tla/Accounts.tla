------------------------------- MODULE Accounts -------------------------------
(***************************************************************************)
(* The accounts of one company: users and seats, passwords, reset codes,   *)
(* sessions, roles and permissions (authController, authSessionService,    *)
(* passwordResetService, authMiddleware, permissionMiddleware,             *)
(* adminController, and what internalPlatformController does to them).     *)
(*                                                                         *)
(* A request awaits the database between its steps; what it has read is    *)
(* in job[r].  Roles are cached by the process for CacheTtl.  A password   *)
(* is the number of times it was changed.  The clock only ticks, and a     *)
(* read of roles takes less than a tick.  Workspace carries these requests *)
(* on to the chat.                                                         *)
(***************************************************************************)
EXTENDS Integers, FiniteSets, FiniteSetsExt

CONSTANTS User, Owner,        \* Owner: the account the platform provisions
          Session,
          Code,               \* reset codes, numbered in the order of creation
          Role, Staff,        \* Staff: the role of whoever has none
          Permission,
          RoleGrants,         \* the permissions a role has by its name
          Seats,              \* seat limits of the plans, 0 for none
          SessionTtl, CacheTtl, CodeTtl, Cooldown, MaxAttempts,
          Request,
          MaxOps, MaxTime     \* caps for TLC

ASSUME AccountSets == /\ Owner \in User /\ Staff \in Role /\ Code \subseteq Nat
                      /\ RoleGrants \in [Role -> SUBSET Permission]
                      /\ IsFiniteSet(User) /\ IsFiniteSet(Request) /\ Request # {}
ASSUME AccountBounds ==
  {SessionTtl, CacheTtl, CodeTtl, Cooldown, MaxAttempts, MaxOps, MaxTime} \cup Seats \subseteq Nat

VARIABLES user,     \* User
          company,  \* Company and CompanyPlatformConfig
          session,  \* UserSession
          code,     \* PasswordResetOtp
          access,   \* Role, UserRoleMap, RolePermissionMap, UserPermissionMap
          cache,    \* roleCache
          job,      \* requests in flight
          now,
          ops,      \* operations begun so far
          lost,     \* when a user last lost a role
          kept,     \* sessions opened with a password replaced meanwhile, or
                    \* kept by provisionTenant
          excused   \* there is a reason why more users are active than seats

tables == <<user, company, session, code, access>>
history == <<lost, kept, excused>>
accountVars == <<tables, cache, job, now, ops, history>>

Never == -MaxTime - CacheTtl - 2
NoCache == [roles |-> {}, until |-> 0]
Idle == [step |-> "idle"]

Active == {u \in User : user[u].status = "ACTIVE"}
Over(active, limit) == limit > 0 /\ Cardinality(active) > limit

(* assertCanActivateUser *)
SeatFree(u) == company.limit = 0 \/ Cardinality(Active \ {u}) < company.limit

(* The rows getUserRoles reads. *)
RolesOf(u, in) ==
  LET mapped == {ro \in in.active : <<u, ro>> \in in.assigned}
  IN  IF mapped = {} /\ ~user[u].admin THEN {Staff} ELSE mapped

RolesNow(u) == RolesOf(u, access)

(* hasMappedPermission *)
Mapped(u, p) ==
  \/ <<u, p>> \in access.userPerm
  \/ \E ro \in access.active : <<u, ro>> \in access.assigned /\ <<ro, p>> \in access.rolePerm

Live(s) == session[s].state = "open" /\ now < session[s].expires

------------------------------------------------------------------------------
(* Steps of a request *)

Begin == ops < MaxOps /\ ops' = ops + 1
At(r, step) == job[r].step = step
Goes(r, j) == job' = [job EXCEPT ![r] = j]

(* Sessions are revoked in the transaction that writes the password. *)
Revoked(u) == [s \in Session |-> IF session[s].user = u /\ session[s].state = "open"
                                 THEN [session[s] EXCEPT !.state = "revoked"] ELSE session[s]]

(* login reads the user and compares the password, then opens a session.   *)
(* The company is not looked at.                                           *)
Login(r, u) ==
  /\ At(r, "idle") /\ Begin
  /\ u \in Active
  /\ Goes(r, [step |-> "login", user |-> u, password |-> user[u].password])
  /\ UNCHANGED <<tables, cache, now, history>>

OpenSession(r, s) ==
  /\ At(r, "login")
  /\ session[s].state = "none"
  /\ session' = [session EXCEPT ![s] =
       [user |-> job[r].user, state |-> "open", expires |-> now + SessionTtl,
        password |-> job[r].password]]
  /\ kept' = IF job[r].password # user[job[r].user].password THEN kept \cup {s} ELSE kept
  /\ Goes(r, Idle)
  /\ UNCHANGED <<user, company, code, access, cache, now, ops, lost, excused>>

(* authenticateCoreToken, first part: the token is verified, the user and  *)
(* the company are read, the roles are taken from the cache.               *)
(* Mutant: an entry is used for as long as the process lives. *)
CachedForGood(u) == cache[u].until > 0

Cached(u) == cache[u].until > now

Arrive(r, s) ==
  LET u == session[s].user
  IN  /\ At(r, "idle") /\ Begin
      /\ session[s].state # "none" /\ now < session[s].expires
      /\ u \in Active /\ company.active
      /\ Goes(r, [step |-> IF Cached(u) THEN "session" ELSE "roles",
                  user |-> u, session |-> s, at |-> now, enabled |-> company.modules,
                  admin |-> user[u].admin, to |-> {}, mapped |-> FALSE,
                  roles |-> IF Cached(u) THEN cache[u].roles ELSE RolesNow(u)])
      /\ UNCHANGED <<tables, cache, now, history>>

(* getUserRoles has read the rows and fills the cache. *)
FillCache(r) ==
  /\ At(r, "roles")
  /\ cache' = [cache EXCEPT ![job[r].user] = [roles |-> job[r].roles, until |-> now + CacheTtl]]
  /\ Goes(r, [job[r] EXCEPT !.step = "session"])
  /\ UNCHANGED <<tables, now, ops, history>>

FindSession(r) ==
  /\ At(r, "session")
  /\ Goes(r, IF Live(job[r].session) THEN [job[r] EXCEPT !.step = "found"] ELSE Idle)
  /\ UNCHANGED <<tables, cache, now, ops, history>>

(* Mutant: the session found is extended, whatever has become of it. *)
RefreshFound(r, extend) ==
  /\ At(r, "found")
  /\ session' = IF extend THEN [session EXCEPT ![job[r].session].expires = now + SessionTtl]
                ELSE session
  /\ Goes(r, [job[r] EXCEPT !.step = "authenticated"])
  /\ UNCHANGED <<user, company, code, access, cache, now, ops, history>>

(* refreshCoreSessionAuth; the request goes on, extended or not.           *)
Refresh(r, extend) ==
  /\ At(r, "found")
  /\ session' = IF extend /\ Live(job[r].session)
                THEN [session EXCEPT ![job[r].session].expires = now + SessionTtl]
                ELSE session
  /\ Goes(r, [job[r] EXCEPT !.step = "authenticated"])
  /\ UNCHANGED <<user, company, code, access, cache, now, ops, history>>

(* capabilitiesForRoles, hasRequiredCapabilities: the capability that the  *)
(* key of a permission stands for is one of a role's.                      *)
ByRole(roles, p) == \E ro \in roles : p \in RoleGrants[ro]

(* permissionMiddleware for permission p *)
Permit(r, p) ==
  LET j == job[r]
      mapped == Mapped(j.user, p)
  IN  /\ At(r, "authenticated")
      /\ Goes(r, IF p \in j.enabled /\ (j.admin \/ ByRole(j.roles, p) \/ mapped)
                 THEN [j EXCEPT !.step = "admitted", !.to = {p}, !.mapped = mapped]
                 ELSE Idle)
      /\ UNCHANGED <<tables, cache, now, ops, history>>

------------------------------------------------------------------------------
(* Reset codes and passwords *)

NoCode == [user |-> Owner, state |-> "none", attempts |-> 0, created |-> 0, expires |-> 0]
Issued(u) == [user |-> u, state |-> "unused", attempts |-> 0, created |-> now, expires |-> now + CodeTtl]
Unused(u) == {c \in Code : code[c].user = u /\ code[c].state = "unused"}

(* requestPasswordResetOtp *)
MayAsk(u) == u \in Active /\ user[u].admin

(* createAndSendPasswordResetOtp: three statements. *)
AskCode(r, u) ==
  /\ At(r, "idle") /\ Begin
  /\ MayAsk(u)
  /\ \A c \in Unused(u) : code[c].created < now - Cooldown
  /\ Goes(r, [step |-> "supersede", user |-> u])
  /\ UNCHANGED <<tables, cache, now, history>>

SupersedeCodes(r) ==
  /\ At(r, "supersede")
  /\ code' = [c \in Code |-> IF c \in Unused(job[r].user)
                             THEN [code[c] EXCEPT !.state = "used"] ELSE code[c]]
  /\ Goes(r, [job[r] EXCEPT !.step = "issue"])
  /\ UNCHANGED <<user, company, session, access, cache, now, ops, history>>

IssueCode(r) ==
  LET c == Min({x \in Code : code[x].state = "none"})
  IN  /\ At(r, "issue")
      /\ \E x \in Code : code[x].state = "none"
      /\ code' = [code EXCEPT ![c] = Issued(job[r].user)]
      /\ Goes(r, Idle)
      /\ UNCHANGED <<user, company, session, access, cache, now, ops, history>>

(* verifyOtpAndConsume reads the newest usable code and judges the guess,  *)
(* Mutant: one attempt too many. *)
SpentLate(c) == code[c].attempts > MaxAttempts

Spent(c) == code[c].attempts >= MaxAttempts

GuessCode(r, u, right) ==
  LET usable == {c \in Unused(u) : now < code[c].expires}
  IN  /\ At(r, "idle") /\ Begin
      /\ u \in Active
      /\ usable # {}
      /\ Goes(r, [step |-> "guess", user |-> u, code |-> Max(usable),
                  verdict |-> IF Spent(Max(usable)) THEN "spent"
                              ELSE IF right THEN "right" ELSE "wrong"])
      /\ UNCHANGED <<tables, cache, now, history>>

(* and writes what it made of it, without a condition.                     *)
WriteGuess(r) ==
  LET c == job[r].code
  IN  /\ At(r, "guess")
      /\ code' = IF job[r].verdict = "wrong" THEN [code EXCEPT ![c].attempts = @ + 1]
                 ELSE [code EXCEPT ![c].state = "used"]
      /\ Goes(r, IF job[r].verdict = "right" THEN [step |-> "reset", user |-> job[r].user] ELSE Idle)
      /\ UNCHANGED <<user, company, session, access, cache, now, ops, history>>

NewPassword(u) == user' = [user EXCEPT ![u].password = @ + 1]

(* resetOwnPasswordWithOtp, its transaction *)
ResetOwnPassword(r) ==
  /\ At(r, "reset")
  /\ NewPassword(job[r].user)
  /\ session' = Revoked(job[r].user)
  /\ Goes(r, Idle)
  /\ UNCHANGED <<company, code, access, cache, now, ops, history>>

(* Mutant: sessions outlive the password. *)
ResetUserPasswordOnly(u) ==
  /\ Begin
  /\ user[u].status # "none"
  /\ NewPassword(u)
  /\ UNCHANGED <<company, session, code, access, cache, job, now, history>>

(* resetUserPassword, by an administrator *)
ResetUserPassword(u) ==
  /\ Begin
  /\ user[u].status # "none"
  /\ NewPassword(u)
  /\ session' = Revoked(u)
  /\ UNCHANGED <<company, code, access, cache, job, now, history>>

------------------------------------------------------------------------------
(* Users and seats *)

(* createUser and toggleUserStatus to ACTIVE: the seats are counted, then  *)
(* the user is written.                                                    *)
Activate(r, u, admin, allowed) ==
  /\ At(r, "idle") /\ Begin
  /\ allowed
  /\ Goes(r, [step |-> "activate", user |-> u, admin |-> admin,
              new |-> user[u].status = "none", seen |-> <<Active, company.limit>>])
  /\ UNCHANGED <<tables, cache, now, history>>

CreateUser(r, u, admin) == Activate(r, u, admin, user[u].status = "none" /\ SeatFree(u))

(* Mutant: who was active before is let in again. *)
EnableUserUncounted(r, u) == Activate(r, u, user[u].admin, user[u].status # "none")

EnableUser(r, u) ==
  Activate(r, u, user[u].admin,
           user[u].status = "ACTIVE" \/ (user[u].status = "DISABLED" /\ SeatFree(u)))

(* Why there may be more users than seats from this step on: `reason`.     *)
Excuse(reason) == excused' = (Over(Active', company'.limit) /\ (excused \/ reason))

WriteUser(r) ==
  LET j == job[r]
  IN  /\ At(r, "activate")
      /\ j.new => user[j.user].status = "none"      \* unique login id
      /\ user' = [user EXCEPT ![j.user].status = "ACTIVE", ![j.user].admin = j.admin]
      /\ Goes(r, Idle)
      /\ UNCHANGED company
      /\ Excuse(<<Active, company.limit>> # j.seen)
      /\ UNCHANGED <<session, code, access, cache, now, ops, lost, kept>>

(* The sessions of a disabled user stay; loadActiveUser turns them away.   *)
DisableUser(u) ==
  /\ Begin
  /\ user[u].status = "ACTIVE"
  /\ user' = [user EXCEPT ![u].status = "DISABLED"]
  /\ UNCHANGED company
  /\ Excuse(FALSE)
  /\ UNCHANGED <<session, code, access, cache, job, now, lost, kept>>

------------------------------------------------------------------------------
(* Roles and permissions: single statements, or reads that the unique keys *)
(* make good. *)

SetAccess(new) ==
  /\ Begin
  /\ access' = new
  /\ access' # access
  /\ lost' = [u \in User |-> [ro \in Role |->
       IF ro \in RolesNow(u) \ RolesOf(u, new) THEN now ELSE lost[u][ro]]]
  /\ UNCHANGED <<user, company, session, code, cache, job, now, kept, excused>>

(* The name of a deleted role stays taken. *)
CreateRole(ro) ==
  ro \notin access.named /\ SetAccess([access EXCEPT !.named = @ \cup {ro}, !.active = @ \cup {ro}])
DeleteRole(ro) == SetAccess([access EXCEPT !.active = @ \ {ro}])

AssignRole(u, ro) ==
  /\ user[u].status # "none" /\ ro \in access.active
  /\ SetAccess([access EXCEPT !.assigned = @ \cup {<<u, ro>>}])
RemoveRole(u, ro) == SetAccess([access EXCEPT !.assigned = @ \ {<<u, ro>>}])

GrantUserPermission(u, p) ==
  user[u].status # "none" /\ SetAccess([access EXCEPT !.userPerm = @ \cup {<<u, p>>}])
RevokeUserPermission(u, p) == SetAccess([access EXCEPT !.userPerm = @ \ {<<u, p>>}])
GrantRolePermission(ro, p) ==
  ro \in access.active /\ SetAccess([access EXCEPT !.rolePerm = @ \cup {<<ro, p>>}])
RevokeRolePermission(ro, p) == SetAccess([access EXCEPT !.rolePerm = @ \ {<<ro, p>>}])

------------------------------------------------------------------------------
(* The platform *)

Configure(config, owner) ==
  /\ company' = config
  /\ user' = owner
  /\ Excuse(TRUE)

(* updateTenantStatus and syncTenantConfig *)
UpdateTenant(active, limit, modules) ==
  /\ Begin
  /\ company # [active |-> active, limit |-> limit, modules |-> modules]
  /\ Configure([active |-> active, limit |-> limit, modules |-> modules], user)
  /\ UNCHANGED <<session, code, access, cache, job, now, lost, kept>>

(* provisionTenant again: the owner gets a password and is active, counted *)
(* or not; the open sessions stay.                                         *)
ProvisionTenant(limit) ==
  /\ Begin
  /\ Configure([company EXCEPT !.active = TRUE, !.limit = limit],
               [user EXCEPT ![Owner] = [status |-> "ACTIVE", admin |-> TRUE,
                                        password |-> @.password + 1]])
  /\ kept' = kept \cup {s \in Session : session[s].user = Owner /\ session[s].state = "open"}
  /\ UNCHANGED <<session, code, access, cache, job, now, lost>>

(* The process starts anew: requests and the cache are gone, roles whose   *)
(* name is not taken are seeded.                                           *)
Restart ==
  /\ Begin
  /\ job' = [r \in Request |-> Idle]
  /\ cache' = [u \in User |-> NoCache]
  /\ access' = [access EXCEPT !.named = Role, !.active = @ \cup (Role \ access.named)]
  /\ UNCHANGED <<user, company, session, code, now, history>>

Tick ==
  /\ now < MaxTime
  /\ \A r \in Request : ~At(r, "roles")
  /\ now' = now + 1
  /\ UNCHANGED <<tables, cache, job, ops, history>>

(* The request is refused, fails or is abandoned. *)
Drop(r) ==
  /\ ~At(r, "idle")
  /\ Goes(r, Idle)
  /\ UNCHANGED <<tables, cache, now, ops, history>>

(* A company that was provisioned, has no more users than seats, and whose *)
(* open sessions were opened with the passwords the users have.            *)
AccountsInit ==
  /\ now = 0 /\ ops = 0
  /\ user \in [User -> [status : {"none", "ACTIVE", "DISABLED"}, admin : BOOLEAN, password : Nat]]
  /\ user[Owner].status # "none" /\ user[Owner].admin
  /\ company \in [active : BOOLEAN, limit : Seats, modules : SUBSET Permission]
  /\ ~Over(Active, company.limit)
  /\ session \in [Session -> [user : User, state : {"none", "open", "revoked"}, expires : Int, password : Nat]]
  /\ \A s \in Session : Live(s) => session[s].password = user[session[s].user].password
  /\ code \in [Code -> {NoCode} \cup {Issued(u) : u \in User}]
  /\ access \in [named : SUBSET Role, active : SUBSET Role, assigned : SUBSET (User \X Role),
                 userPerm : SUBSET (User \X Permission), rolePerm : SUBSET (Role \X Permission)]
  /\ cache = [u \in User |-> NoCache]
  /\ job = [r \in Request |-> Idle]
  /\ lost = [u \in User |-> [ro \in Role |-> Never]]
  /\ kept = {} /\ excused = FALSE

Authentication(r) ==
  \/ \E s \in Session : OpenSession(r, s)
  \/ FillCache(r)
  \/ FindSession(r)
  \/ \E extend \in BOOLEAN : Refresh(r, extend)
  \/ \E p \in Permission : Permit(r, p)

Resetting(r) == SupersedeCodes(r) \/ IssueCode(r) \/ WriteGuess(r) \/ ResetOwnPassword(r)

Begins(r) ==
  \/ \E s \in Session : Arrive(r, s)
  \/ \E u \in User :
       \/ Login(r, u)
       \/ AskCode(r, u)
       \/ \E right \in BOOLEAN : GuessCode(r, u, right)
       \/ \E admin \in BOOLEAN : CreateUser(r, u, admin)
       \/ EnableUser(r, u)

Administration ==
  \/ \E u \in User :
       \/ ResetUserPassword(u)
       \/ DisableUser(u)
       \/ \E ro \in Role : AssignRole(u, ro) \/ RemoveRole(u, ro)
       \/ \E p \in Permission : GrantUserPermission(u, p) \/ RevokeUserPermission(u, p)
  \/ \E ro \in Role :
       \/ CreateRole(ro) \/ DeleteRole(ro)
       \/ \E p \in Permission : GrantRolePermission(ro, p) \/ RevokeRolePermission(ro, p)
  \/ \E active \in BOOLEAN, limit \in Seats, modules \in SUBSET Permission :
       UpdateTenant(active, limit, modules)
  \/ \E limit \in Seats : ProvisionTenant(limit)

AccountsNext ==
  \/ \E r \in Request :
       \/ Authentication(r) \/ Resetting(r) \/ WriteUser(r)
       \/ ops < MaxOps /\ At(r, "idle") /\ Begins(r)
  \/ ops < MaxOps /\ Administration
  \/ Tick

------------------------------------------------------------------------------
(* Properties *)

(* A session that has expired or was revoked is never valid again, however *)
(* late a request that found it valid comes to extend it.                  *)
EndedStaysEnded ==
  [][\A s \in Session : session[s].state # "none" /\ ~Live(s) => ~Live(s)']_accountVars

(* A valid session was opened with the password the user has now, unless   *)
(* the login overlapped the change or the platform made it.                *)
OldPasswordsExplained ==
  \A s \in Session :
    Live(s) /\ session[s].password # user[session[s].user].password => s \in kept

(* Who is let through is an admin, or has the permission for himself or by *)
(* a role at that time, or held at most the time to live of the cache      *)
(* before a role that gives it by name.                                    *)
AdmittedByRight ==
  \A r \in Request : At(r, "admitted") =>
    LET j == job[r]
    IN  \/ j.admin \/ j.mapped
        \/ \E ro \in j.roles :
             /\ j.to \subseteq RoleGrants[ro]
             /\ ro \in RolesNow(j.user) \/ j.at <= lost[j.user][ro] + CacheTtl

(* There are more active users than seats only after activations that      *)
(* overlapped, a change of the plan, or provisioning.                      *)
SeatsExplained == Over(Active, company.limit) => excused

(* However many guesses run side by side, no code takes more wrong ones    *)
(* than allowed and one for each other request in flight.                  *)
GuessesBounded ==
  \A c \in Code : code[c].attempts <= MaxAttempts + Cardinality(Request) - 1
==============================================================================
