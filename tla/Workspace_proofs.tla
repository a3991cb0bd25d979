--------------------------- MODULE Workspace_proofs ---------------------------
(***************************************************************************)
(* What the accounts and the conversation guarantee, for any users,        *)
(* sessions, codes, roles, messages and requests.                          *)
(*                                                                         *)
(* The invariant says of every request in flight what it may still rely on *)
(* when it goes on; a step then needs to be looked at only for the request *)
(* that takes it and for what it may spoil for the others.                 *)
(***************************************************************************)
EXTENDS Workspace, FiniteSetTheorems, WellFoundedInduction, TLAPS

(***************************************************************************)
(* Accounts                                                                *)
(***************************************************************************)
UserRow == [status : {"none", "ACTIVE", "DISABLED"}, admin : BOOLEAN, password : Nat]
SessionRow == [user : User, state : {"none", "open", "revoked"}, expires : Int, password : Nat]
CodeRow == [user : User, state : {"none", "unused", "used"}, attempts : Nat, created : Int, expires : Int]
AccessRows == [named : SUBSET Role, active : SUBSET Role, assigned : SUBSET (User \X Role),
               userPerm : SUBSET (User \X Permission), rolePerm : SUBSET (Role \X Permission)]

(* Requests are told apart by their step, and are typed below, by step.    *)
AccountTypes ==
  /\ user \in [User -> UserRow]
  /\ company \in [active : BOOLEAN, limit : Seats, modules : SUBSET Permission]
  /\ session \in [Session -> SessionRow]
  /\ code \in [Code -> CodeRow]
  /\ access \in AccessRows
  /\ cache \in [User -> [roles : SUBSET Role, until : Int]]
  /\ job = [r \in Request |-> job[r]]
  /\ now \in Nat /\ ops \in Nat
  /\ lost \in [User -> [Role -> Int]]

(* What a request is to write was read, or is its own to decide; of a user *)
(* there is, nobody changes whether he is an administrator.                *)
HasRoles == {"roles", "session", "found", "authenticated", "admitted"}
LoginTyped(r) == At(r, "login") => job[r].user \in User /\ job[r].password \in Nat
ResetTyped(r) == job[r].step \in {"supersede", "issue", "guess", "reset"} => job[r].user \in User
SessionTyped(r) == job[r].step \in HasRoles => job[r].session \in Session

FieldsTyped(r) ==
  /\ job[r].step \in HasRoles =>
       DOMAIN job[r] = {"step", "user", "session", "at", "enabled", "admin", "to", "mapped", "roles"}
  /\ job[r].step \in {"supersede", "issue"} => DOMAIN job[r] = {"step", "user"}

Exists(u) == user[u].status # "none"

(* The seats that were counted leave room for the user.                    *)
SeatCounted(u, active, limit) == u \in active \/ limit = 0 \/ Cardinality(active \ {u}) < limit
ActivateOK(r) ==
  At(r, "activate") =>
    /\ job[r].user \in User /\ job[r].admin \in BOOLEAN
    /\ ~job[r].new => Exists(job[r].user) /\ job[r].admin = user[job[r].user].admin
    /\ \E active \in SUBSET User, limit \in Seats :
         job[r].seen = <<active, limit>> /\ SeatCounted(job[r].user, active, limit)

LostPast == \A u \in User, ro \in Role : lost[u][ro] <= now
OwnerOK == Exists(Owner) /\ user[Owner].admin

(* A role in the cache is held, or was lost when the entry was filled or   *)
(* later; and so for the roles a request has.                              *)
CacheOK ==
  \A u \in User :
    /\ cache[u].until <= now + CacheTtl
    /\ cache[u].roles # {} => Exists(u)
    /\ \A ro \in cache[u].roles : ro \in RolesNow(u) \/ cache[u].until <= lost[u][ro] + CacheTtl

Justified(j, ro) == ro \in RolesNow(j.user) \/ j.at <= lost[j.user][ro] + CacheTtl
RolesOK(r) ==
  LET j == job[r]
  IN  j.step \in HasRoles =>
        /\ j.user \in User /\ Exists(j.user)
        /\ j.at \in Nat /\ j.at <= now
        /\ j.roles \subseteq Role
        /\ j.step = "roles" => j.at = now /\ \A ro \in j.roles : ro \in RolesNow(j.user) \/ j.at <= lost[j.user][ro]
        /\ \A ro \in j.roles : Justified(j, ro)

AdmittedOK(r) ==
  LET j == job[r]
  IN  j.step = "admitted" => \/ j.admin \/ j.mapped
                             \/ \E ro \in j.roles : j.to \subseteq RoleGrants[ro]

(* A code has as many wrong guesses, written and to be written, as judged. *)
Guessing(c) == {r \in Request : At(r, "guess") /\ job[r].code = c /\ job[r].verdict = "wrong"}
GuessesInFlight == \A c \in Code : code[c].attempts + Cardinality(Guessing(c)) <= MaxAttempts + Cardinality(Request) - 1

RequestOK(r) ==
  /\ LoginTyped(r) /\ ResetTyped(r) /\ SessionTyped(r) /\ FieldsTyped(r)
  /\ ActivateOK(r) /\ RolesOK(r) /\ AdmittedOK(r)

AccountsInv ==
  /\ AccountTypes
  /\ OwnerOK /\ LostPast /\ CacheOK
  /\ \A r \in Request : RequestOK(r)
  /\ GuessesInFlight
  /\ OldPasswordsExplained
  /\ SeatsExplained

(***************************************************************************)
(* The conversation                                                        *)
(***************************************************************************)
ChatTypes ==
  /\ DOMAIN chat = {"open", "number", "state", "sender", "unread"}
  /\ chat.number \in Nat
  /\ chat.state \in [Message -> {"none", "sent", "deleted"}]
  /\ socket = [u \in User |-> socket[u]] /\ screen = [u \in User |-> screen[u]]
  /\ \A u \in User : DOMAIN screen[u] = {"open", "shows"}

(* A client that is gone shows nothing; connections are told apart by the  *)
(* time they began.                                                        *)
SocketsOK ==
  \A u \in User :
    /\ socket[u].since \in Nat /\ socket[u].since <= ops
    /\ ~socket[u].on => socket[u] = NoSocket /\ screen[u] = Blank

(* There are no messages without a conversation.                           *)
ConversationOK == chat.open \/ Kept = {}

(* A message to be announced belongs to the conversation there is, or was  *)
(* deleted; one to be retracted was deleted.                               *)
AnnounceOK(r) ==
  At(r, "announce") =>
    /\ job[r].message \in Message /\ chat.state[job[r].message] # "none"
    /\ job[r].message \in Kept => job[r].conversation = chat.number
RetractOK(r) ==
  At(r, "retract") => job[r].message \in Message /\ chat.state[job[r].message] = "deleted"

(* What a client knows of m, is about to be told, or is excused for        *)
Covered(u, m) == m \in screen[u].shows \/ m \in Announcing \/ <<u, m>> \in stale

(* A list that may still be shown has what there is, but for what the      *)
(* client was told meanwhile, or is about to be.                           *)
Current(j) == chat.open /\ j.conversation = chat.number /\ socket[j.user].on /\ socket[j.user].since = j.since
ListOK(r) ==
  LET j == job[r]
  IN  At(r, "list") =>
        /\ j.user \in Pair /\ j.conversation \in Nat /\ j.conversation <= chat.number
        /\ j.since \in Nat /\ j.since <= ops /\ (~socket[j.user].on => j.since < ops)
        /\ Current(j) => \A m \in Kept : m \in j.items \/ Covered(j.user, m)

BegunOK(r) == ~At(r, "idle") => ops > 0

ChatRequestOK(r) == AnnounceOK(r) /\ RetractOK(r) /\ ListOK(r) /\ BegunOK(r)

(* What a connected client shows is there, or about to be retracted; and   *)
(* what there is, a client with the conversation open shows.               *)
ShowsSent ==
  \A u \in Pair : \A m \in Message :
    m \in screen[u].shows => m \in Kept \/ m \in Retracting \/ <<u, m>> \in stale
OpenShows == \A u \in Pair : screen[u].open => \A m \in Kept : Covered(u, m)

ChatInv ==
  /\ ChatTypes
  /\ SocketsOK /\ ConversationOK
  /\ \A r \in Request : ChatRequestOK(r)
  /\ ShowsSent /\ OpenShows

IInv == AccountsInv /\ ChatInv

------------------------------------------------------------------------------
(* Minima *)

LEMMA MinOfNaturals ==
  ASSUME NEW S \in SUBSET Nat, S # {}
  PROVE  Min(S) \in S
<1>1. \E x \in S : \A y \in S : ~(<<y, x>> \in OpToRel(<, Nat))
  BY NatLessThanWellFounded, WFMin, Zenon
<1>2. \E x \in S : \A y \in S : ~(y < x)
  BY <1>1 DEF OpToRel
<1>3. \E x \in S : \A y \in S : x <= y
  BY <1>2
<1> QED
  BY <1>3 DEF Min

------------------------------------------------------------------------------
(* Steps *)

LEMMA GoesTo ==
  ASSUME job = [r \in Request |-> job[r]], NEW r \in Request, NEW j, Goes(r, j)
  PROVE  /\ job' = [x \in Request |-> job'[x]]
         /\ job'[r] = j
         /\ \A x \in Request \ {r} : job'[x] = job[x]
  BY DEF Goes

(* What a handler of the chat does to the accounts: nothing, but that its  *)
(* request goes on.                                                        *)
AccountSteps == {"login", "roles", "session", "found", "authenticated", "admitted", "supersede", "issue",
                 "guess", "reset", "activate"}
Quiet == UNCHANGED <<user, company, session, code, access, cache, now, lost, kept, excused>>
Chats == /\ Quiet
         /\ ops' \in {ops, ops + 1}
         /\ job' = job \/ \E r \in Request : \E j : Goes(r, j) /\ j.step \notin AccountSteps

LEMMA HandlesChats ==
  ASSUME NEW r \in Request, Handling(r)
  PROVE  Chats
<1> USE DEF Handles, tables, history
<1>q. Quiet /\ ops' = ops
  BY DEF Handling, OpenDirect, GetMessages, SendMessage, MarkConversationRead, DeleteMessage, DeleteConversation,
         ResolveRecipients, MarkSeen, DeleteBroadcast, Quiet
<1> HIDE DEF Handles, tables, history
<1>1. \A u : OpenDirect(r, u) => \E j : Goes(r, j) /\ j.step \notin AccountSteps
  BY DEF OpenDirect, Idle, AccountSteps
<1>2. GetMessages(r) => \E j : Goes(r, j) /\ j.step \notin AccountSteps
  BY DEF GetMessages, AccountSteps
<1>3. SendMessage(r) => \E j : Goes(r, j) /\ j.step \notin AccountSteps
  BY DEF SendMessage, Posting, AccountSteps
<1>4. MarkConversationRead(r) => \E j : Goes(r, j) /\ j.step \notin AccountSteps
  BY DEF MarkConversationRead, Reading, Idle, AccountSteps
<1>5. \A m : DeleteMessage(r, m) => \E j : Goes(r, j) /\ j.step \notin AccountSteps
  BY DEF DeleteMessage, AccountSteps
<1>6. DeleteConversation(r) => \E j : Goes(r, j) /\ j.step \notin AccountSteps
  BY DEF DeleteConversation, Idle, AccountSteps
<1>7. \A to : ResolveRecipients(r, to) => \E j : Goes(r, j) /\ j.step \notin AccountSteps
  BY DEF ResolveRecipients, Resolving, AccountSteps
<1>8. MarkSeen(r) \/ DeleteBroadcast(r) => \E j : Goes(r, j) /\ j.step \notin AccountSteps
  BY DEF MarkSeen, Seeing, DeleteBroadcast, Idle, AccountSteps
<1> QED
  BY <1>q, <1>1, <1>2, <1>3, <1>4, <1>5, <1>6, <1>7, <1>8 DEF Handling, Chats

LEMMA SocketChats ==
  ASSUME ops \in Nat, NEW r \in Request, NEW u \in User, Socketing(r, u)
  PROVE  Chats
<1>q. Quiet /\ ops' = ops + 1
  BY DEF Socketing, SocketSend, SocketRead, SocketSeen, SocketResolve, OnSocket, Begin, Quiet, tables, history
<1>1. SocketSend(r, u) => \E j : Goes(r, j) /\ j.step \notin AccountSteps
  BY DEF SocketSend, Posting, AccountSteps
<1>2. SocketRead(r, u) => \E j : Goes(r, j) /\ j.step \notin AccountSteps
  BY DEF SocketRead, Reading, Idle, AccountSteps
<1>3. SocketSeen(r, u) => \E j : Goes(r, j) /\ j.step \notin AccountSteps
  BY DEF SocketSeen, Seeing, Idle, AccountSteps
<1>4. \A to : SocketResolve(r, u, to) => \E j : Goes(r, j) /\ j.step \notin AccountSteps
  BY DEF SocketResolve, Resolving, AccountSteps
<1> QED
  BY <1>q, <1>1, <1>2, <1>3, <1>4 DEF Socketing, Chats

LEMMA GoingOnChats ==
  ASSUME NEW r \in Request, GoingOn(r)
  PROVE  Chats
<1>q. Quiet /\ ops' = ops
  BY DEF GoingOn, Connect, MarkListed, Announce, Retract, CreateBroadcast, Fail, GoesOn, Drop, Quiet, tables, history
<1>1. Goes(r, Idle)
  BY DEF GoingOn, Connect, MarkListed, Announce, Retract, CreateBroadcast, Fail, Drop
<1> QED
  BY <1>q, <1>1 DEF Chats, Idle, AccountSteps

LEMMA StepKinds ==
  ASSUME ops \in Nat, [WorkspaceNext]_workspaceVars
  PROVE  AccountsNext \/ Restart \/ Chats
<1>1. CASE AccountsNext \/ RestartServer
  BY <1>1 DEF RestartServer
<1>2. CASE \E r \in Request : Handling(r) \/ GoingOn(r) \/ \E u \in User : Socketing(r, u)
  BY <1>2, HandlesChats, SocketChats, GoingOnChats
<1>3. CASE \E u \in User : Disconnect(u) \/ \E there \in BOOLEAN : InRoom(u, there)
  BY <1>3 DEF Disconnect, InRoom, Begin, Chats, Quiet, tables, history
<1>4. CASE UNCHANGED workspaceVars
  BY <1>4 DEF workspaceVars, accountVars, Chats, Quiet, tables, history
<1> QED
  BY <1>1, <1>2, <1>3, <1>4 DEF WorkspaceNext

------------------------------------------------------------------------------
(* Which steps change what *)

Step == AccountsNext \/ Restart \/ Chats

LEMMA UserChanges ==
  ASSUME Step
  PROVE  \/ user' = user
         \/ \E r \in Request : WriteUser(r) \/ ResetOwnPassword(r)
         \/ \E u \in User : DisableUser(u) \/ ResetUserPassword(u)
         \/ \E limit \in Seats : ProvisionTenant(limit)
<1>1. \A r \in Request : Authentication(r) => user' = user
  BY DEF Authentication, OpenSession, FillCache, FindSession, Refresh, Permit, tables
<1>2. \A r \in Request : Resetting(r) => user' = user \/ ResetOwnPassword(r)
  BY DEF Resetting, SupersedeCodes, IssueCode, WriteGuess
<1>3. \A r \in Request : Begins(r) => user' = user
  BY DEF Begins, Arrive, Login, AskCode, GuessCode, CreateUser, EnableUser, Activate, tables
<1>4. Administration => \/ user' = user
                        \/ \E u \in User : DisableUser(u) \/ ResetUserPassword(u)
                        \/ \E limit \in Seats : ProvisionTenant(limit)
  BY DEF Administration, AssignRole, RemoveRole, GrantUserPermission, RevokeUserPermission, CreateRole, DeleteRole,
         GrantRolePermission, RevokeRolePermission, SetAccess, UpdateTenant, Configure
<1>5. Tick \/ Restart \/ Chats => user' = user
  BY DEF Tick, Restart, Chats, Quiet, tables
<1> QED
  BY <1>1, <1>2, <1>3, <1>4, <1>5 DEF Step, AccountsNext

LEMMA CompanyChanges ==
  ASSUME Step
  PROVE  \/ UNCHANGED <<company, excused>>
         \/ \E r \in Request : WriteUser(r)
         \/ \E u \in User : DisableUser(u)
         \/ \E active \in BOOLEAN, limit \in Seats, modules \in SUBSET Permission : UpdateTenant(active, limit, modules)
         \/ \E limit \in Seats : ProvisionTenant(limit)
<1>1. \A r \in Request : Authentication(r) => UNCHANGED <<company, excused>>
  BY DEF Authentication, OpenSession, FillCache, FindSession, Refresh, Permit, tables, history
<1>2. \A r \in Request : Resetting(r) => UNCHANGED <<company, excused>>
  BY DEF Resetting, SupersedeCodes, IssueCode, WriteGuess, ResetOwnPassword, history
<1>3. \A r \in Request : Begins(r) => UNCHANGED <<company, excused>>
  BY DEF Begins, Arrive, Login, AskCode, GuessCode, CreateUser, EnableUser, Activate, tables, history
<1>4. Administration =>
        \/ UNCHANGED <<company, excused>>
        \/ \E u \in User : DisableUser(u)
        \/ \E active \in BOOLEAN, limit \in Seats, modules \in SUBSET Permission : UpdateTenant(active, limit, modules)
        \/ \E limit \in Seats : ProvisionTenant(limit)
  BY DEF Administration, AssignRole, RemoveRole, GrantUserPermission, RevokeUserPermission, CreateRole, DeleteRole,
         GrantRolePermission, RevokeRolePermission, SetAccess, ResetUserPassword, history
<1>5. Tick \/ Restart \/ Chats => UNCHANGED <<company, excused>>
  BY DEF Tick, Restart, Chats, Quiet, tables, history
<1> QED
  BY <1>1, <1>2, <1>3, <1>4, <1>5 DEF Step, AccountsNext

LEMMA SessionChanges ==
  ASSUME Step
  PROVE  \/ session' = session
         \/ \E r \in Request : \/ \E s \in Session : OpenSession(r, s)
                               \/ \E extend \in BOOLEAN : Refresh(r, extend)
                               \/ ResetOwnPassword(r)
         \/ \E u \in User : ResetUserPassword(u)
<1>1. \A r \in Request : Authentication(r) =>
        \/ session' = session
        \/ \E s \in Session : OpenSession(r, s)
        \/ \E extend \in BOOLEAN : Refresh(r, extend)
  BY DEF Authentication, FillCache, FindSession, Permit, tables
<1>2. \A r \in Request : Resetting(r) \/ WriteUser(r) => session' = session \/ ResetOwnPassword(r)
  BY DEF Resetting, SupersedeCodes, IssueCode, WriteGuess, WriteUser
<1>3. \A r \in Request : Begins(r) => session' = session
  BY DEF Begins, Arrive, Login, AskCode, GuessCode, CreateUser, EnableUser, Activate, tables
<1>4. Administration => session' = session \/ \E u \in User : ResetUserPassword(u)
  BY DEF Administration, AssignRole, RemoveRole, GrantUserPermission, RevokeUserPermission, CreateRole, DeleteRole,
         GrantRolePermission, RevokeRolePermission, SetAccess, DisableUser, UpdateTenant, ProvisionTenant
<1>5. Tick \/ Restart \/ Chats => session' = session
  BY DEF Tick, Restart, Chats, Quiet, tables
<1> QED
  BY <1>1, <1>2, <1>3, <1>4, <1>5 DEF Step, AccountsNext

LEMMA KeptChanges ==
  ASSUME Step
  PROVE  \/ kept' = kept
         \/ \E r \in Request, s \in Session : OpenSession(r, s)
         \/ \E limit \in Seats : ProvisionTenant(limit)
<1>1. \A r \in Request : Authentication(r) => kept' = kept \/ \E s \in Session : OpenSession(r, s)
  BY DEF Authentication, FillCache, FindSession, Refresh, Permit, history
<1>2. \A r \in Request : Resetting(r) \/ WriteUser(r) => kept' = kept
  BY DEF Resetting, SupersedeCodes, IssueCode, WriteGuess, ResetOwnPassword, WriteUser, history
<1>3. \A r \in Request : Begins(r) => kept' = kept
  BY DEF Begins, Arrive, Login, AskCode, GuessCode, CreateUser, EnableUser, Activate, history
<1>4. Administration => kept' = kept \/ \E limit \in Seats : ProvisionTenant(limit)
  BY DEF Administration, AssignRole, RemoveRole, GrantUserPermission, RevokeUserPermission, CreateRole, DeleteRole,
         GrantRolePermission, RevokeRolePermission, SetAccess, DisableUser, ResetUserPassword, UpdateTenant, history
<1>5. Tick \/ Restart \/ Chats => kept' = kept
  BY DEF Tick, Restart, Chats, Quiet, history
<1> QED
  BY <1>1, <1>2, <1>3, <1>4, <1>5 DEF Step, AccountsNext

LEMMA CodeChanges ==
  ASSUME Step
  PROVE  code' = code \/ \E r \in Request : SupersedeCodes(r) \/ IssueCode(r) \/ WriteGuess(r)
<1>1. \A r \in Request : Authentication(r) \/ WriteUser(r) => code' = code
  BY DEF Authentication, OpenSession, FillCache, FindSession, Refresh, Permit, WriteUser, tables
<1>2. \A r \in Request : Resetting(r) => code' = code \/ SupersedeCodes(r) \/ IssueCode(r) \/ WriteGuess(r)
  BY DEF Resetting, ResetOwnPassword
<1>3. \A r \in Request : Begins(r) => code' = code
  BY DEF Begins, Arrive, Login, AskCode, GuessCode, CreateUser, EnableUser, Activate, tables
<1>4. Administration => code' = code
  BY DEF Administration, AssignRole, RemoveRole, GrantUserPermission, RevokeUserPermission, CreateRole, DeleteRole,
         GrantRolePermission, RevokeRolePermission, SetAccess, DisableUser, ResetUserPassword, UpdateTenant,
         ProvisionTenant
<1>5. Tick \/ Restart \/ Chats => code' = code
  BY DEF Tick, Restart, Chats, Quiet, tables
<1> QED
  BY <1>1, <1>2, <1>3, <1>4, <1>5 DEF Step, AccountsNext

LEMMA AccessChanges ==
  ASSUME AccountTypes, Step
  PROVE  \/ UNCHANGED <<access, lost>>
         \/ Restart
         \/ \E new \in AccessRows : SetAccess(new)
<1>1. \A r \in Request : Authentication(r) => UNCHANGED <<access, lost>>
  BY DEF Authentication, OpenSession, FillCache, FindSession, Refresh, Permit, tables, history
<1>2. \A r \in Request : Resetting(r) \/ WriteUser(r) => UNCHANGED <<access, lost>>
  BY DEF Resetting, SupersedeCodes, IssueCode, WriteGuess, ResetOwnPassword, WriteUser, history
<1>3. \A r \in Request : Begins(r) => UNCHANGED <<access, lost>>
  BY DEF Begins, Arrive, Login, AskCode, GuessCode, CreateUser, EnableUser, Activate, tables, history
<1>4. /\ access.named \subseteq Role /\ access.active \subseteq Role /\ access.assigned \subseteq User \X Role
      /\ access.userPerm \subseteq User \X Permission /\ access.rolePerm \subseteq Role \X Permission
  BY DEF AccountTypes, AccessRows
<1>5. /\ \A x \in SUBSET (User \X Role) : [access EXCEPT !.assigned = x] \in AccessRows
      /\ \A x \in SUBSET (User \X Permission) : [access EXCEPT !.userPerm = x] \in AccessRows
      /\ \A x \in SUBSET (Role \X Permission) : [access EXCEPT !.rolePerm = x] \in AccessRows
      /\ \A x \in SUBSET Role : [access EXCEPT !.active = x] \in AccessRows
      /\ \A x, y \in SUBSET Role : [access EXCEPT !.named = x, !.active = y] \in AccessRows
  BY DEF AccountTypes, AccessRows
<1>6. Administration => UNCHANGED <<access, lost>> \/ \E new \in AccessRows : SetAccess(new)
  <2>1. \A u \in User : ResetUserPassword(u) \/ DisableUser(u) => UNCHANGED <<access, lost>>
    BY DEF ResetUserPassword, DisableUser, history
  <2>2. \A active, limit, modules : UpdateTenant(active, limit, modules) => UNCHANGED <<access, lost>>
    BY DEF UpdateTenant
  <2>3. \A limit : ProvisionTenant(limit) => UNCHANGED <<access, lost>>
    BY DEF ProvisionTenant
  <2>4. \A u \in User, ro \in Role : AssignRole(u, ro) \/ RemoveRole(u, ro) => \E new \in AccessRows : SetAccess(new)
    <3> SUFFICES ASSUME NEW u \in User, NEW ro \in Role PROVE AssignRole(u, ro) \/ RemoveRole(u, ro) => \E new \in AccessRows : SetAccess(new)
      OBVIOUS
    <3>1. access.assigned \cup {<<u, ro>>} \in SUBSET (User \X Role)
      BY <1>4
    <3>2. access.assigned \ {<<u, ro>>} \in SUBSET (User \X Role)
      BY <1>4
    <3> QED
      BY <1>5, <3>1, <3>2 DEF AssignRole, RemoveRole
  <2>5. \A u \in User, p \in Permission :
          GrantUserPermission(u, p) \/ RevokeUserPermission(u, p) => \E new \in AccessRows : SetAccess(new)
    <3> SUFFICES ASSUME NEW u \in User, NEW p \in Permission PROVE GrantUserPermission(u, p) \/ RevokeUserPermission(u, p) => \E new \in AccessRows : SetAccess(new)
      OBVIOUS
    <3>1. access.userPerm \cup {<<u, p>>} \in SUBSET (User \X Permission)
      BY <1>4
    <3>2. access.userPerm \ {<<u, p>>} \in SUBSET (User \X Permission)
      BY <1>4
    <3> QED
      BY <1>5, <3>1, <3>2 DEF GrantUserPermission, RevokeUserPermission
  <2>6. \A ro \in Role : CreateRole(ro) \/ DeleteRole(ro) => \E new \in AccessRows : SetAccess(new)
    BY <1>4, <1>5 DEF CreateRole, DeleteRole
  <2>7. \A ro \in Role, p \in Permission :
          GrantRolePermission(ro, p) \/ RevokeRolePermission(ro, p) => \E new \in AccessRows : SetAccess(new)
    <3> SUFFICES ASSUME NEW ro \in Role, NEW p \in Permission PROVE GrantRolePermission(ro, p) \/ RevokeRolePermission(ro, p) => \E new \in AccessRows : SetAccess(new)
      OBVIOUS
    <3>1. access.rolePerm \cup {<<ro, p>>} \in SUBSET (Role \X Permission)
      BY <1>4
    <3>2. access.rolePerm \ {<<ro, p>>} \in SUBSET (Role \X Permission)
      BY <1>4
    <3> QED
      BY <1>5, <3>1, <3>2 DEF GrantRolePermission, RevokeRolePermission
  <2> QED
    BY <2>1, <2>2, <2>3, <2>4, <2>5, <2>6, <2>7 DEF Administration
<1>7. Tick \/ Chats => UNCHANGED <<access, lost>>
  BY DEF Tick, Chats, Quiet, tables, history
<1> QED
  BY <1>1, <1>2, <1>3, <1>6, <1>7 DEF Step, AccountsNext

LEMMA CacheChanges ==
  ASSUME Step
  PROVE  cache' = cache \/ Restart \/ \E r \in Request : FillCache(r)
<1>1. \A r \in Request : Authentication(r) => cache' = cache \/ FillCache(r)
  BY DEF Authentication, OpenSession, FindSession, Refresh, Permit
<1>2. \A r \in Request : Resetting(r) \/ WriteUser(r) => cache' = cache
  BY DEF Resetting, SupersedeCodes, IssueCode, WriteGuess, ResetOwnPassword, WriteUser
<1>3. \A r \in Request : Begins(r) => cache' = cache
  BY DEF Begins, Arrive, Login, AskCode, GuessCode, CreateUser, EnableUser, Activate
<1>4. Administration => cache' = cache
  BY DEF Administration, AssignRole, RemoveRole, GrantUserPermission, RevokeUserPermission, CreateRole, DeleteRole,
         GrantRolePermission, RevokeRolePermission, SetAccess, DisableUser, ResetUserPassword, UpdateTenant,
         ProvisionTenant
<1>5. Tick \/ Chats => cache' = cache
  BY DEF Tick, Chats, Quiet
<1> QED
  BY <1>1, <1>2, <1>3, <1>4, <1>5 DEF Step, AccountsNext

LEMMA ClockChanges ==
  ASSUME Step
  PROVE  now' = now \/ Tick
<1>1. \A r \in Request : Authentication(r) => now' = now
  BY DEF Authentication, OpenSession, FillCache, FindSession, Refresh, Permit
<1>2. \A r \in Request : Resetting(r) \/ WriteUser(r) => now' = now
  BY DEF Resetting, SupersedeCodes, IssueCode, WriteGuess, ResetOwnPassword, WriteUser
<1>3. \A r \in Request : Begins(r) => now' = now
  BY DEF Begins, Arrive, Login, AskCode, GuessCode, CreateUser, EnableUser, Activate
<1>4. Administration => now' = now
  BY DEF Administration, AssignRole, RemoveRole, GrantUserPermission, RevokeUserPermission, CreateRole, DeleteRole,
         GrantRolePermission, RevokeRolePermission, SetAccess, DisableUser, ResetUserPassword, UpdateTenant,
         ProvisionTenant
<1>5. Restart \/ Chats => now' = now
  BY DEF Restart, Chats, Quiet
<1> QED
  BY <1>1, <1>2, <1>3, <1>4, <1>5 DEF Step, AccountsNext

LEMMA OpsCount ==
  ASSUME ops \in Nat, Step
  PROVE  ops' \in {ops, ops + 1}
<1>1. \A r \in Request : Authentication(r) => ops' = ops
  BY DEF Authentication, OpenSession, FillCache, FindSession, Refresh, Permit
<1>2. \A r \in Request : Resetting(r) => ops' = ops
  BY DEF Resetting, SupersedeCodes, IssueCode, WriteGuess, ResetOwnPassword
<1>3. \A r \in Request : WriteUser(r) => ops' = ops
  BY DEF WriteUser
<1>4. \A r \in Request : Begins(r) => ops' = ops + 1
  BY DEF Begins, Begin, Arrive, Login, AskCode, GuessCode, CreateUser, EnableUser, Activate
<1>5. Administration => ops' = ops + 1
  BY DEF Administration, Begin, AssignRole, RemoveRole, GrantUserPermission, RevokeUserPermission, CreateRole, DeleteRole,
         GrantRolePermission, RevokeRolePermission, SetAccess, DisableUser, ResetUserPassword, UpdateTenant,
         ProvisionTenant
<1>6. Tick => ops' = ops
  BY DEF Tick
<1>7. Restart => ops' = ops + 1
  BY DEF Restart, Begin
<1>8. Chats => ops' \in {ops, ops + 1}
  BY DEF Chats
<1> QED
  BY <1>1, <1>2, <1>3, <1>4, <1>5, <1>6, <1>7, <1>8 DEF Step, AccountsNext

------------------------------------------------------------------------------
(* Users: who exists goes on to exist, and is an administrator or not as   *)
(* before.                                                                 *)

UsersKept == \A u \in User : Exists(u) => Exists(u)' /\ user'[u].admin = user[u].admin

LEMMA UserStep ==
  ASSUME AccountsInv, Step
  PROVE  user' \in [User -> UserRow] /\ UsersKept
<1>1. user \in [User -> UserRow]
  BY DEF AccountsInv, AccountTypes
<1>2. CASE user' = user
  BY <1>1, <1>2 DEF UsersKept, Exists
<1>3. \A u \in User : NewPassword(u) => user' \in [User -> UserRow] /\ UsersKept
  <2> SUFFICES ASSUME NEW u \in User, NewPassword(u) PROVE user' \in [User -> UserRow] /\ UsersKept
    OBVIOUS
  <2>1. user[u].password + 1 \in Nat
    BY <1>1 DEF UserRow
  <2>2. user' = [user EXCEPT ![u] = [user[u] EXCEPT !.password = user[u].password + 1]]
    BY DEF NewPassword
  <2>3. [user[u] EXCEPT !.password = user[u].password + 1] \in UserRow
    BY <1>1, <2>1 DEF UserRow
  <2>4. /\ [user[u] EXCEPT !.password = user[u].password + 1].status = user[u].status
        /\ [user[u] EXCEPT !.password = user[u].password + 1].admin = user[u].admin
    BY <1>1 DEF UserRow
  <2>5. \A x \in User : user'[x].status = user[x].status /\ user'[x].admin = user[x].admin
    BY <1>1, <2>2, <2>4
  <2> QED
    BY <1>1, <2>2, <2>3, <2>5 DEF UsersKept, Exists
<1>4. ASSUME NEW r \in Request, ResetOwnPassword(r)
      PROVE  user' \in [User -> UserRow] /\ UsersKept
  <2>1. job[r].user \in User
    BY <1>4 DEF ResetOwnPassword, At, AccountsInv, RequestOK, ResetTyped
  <2> QED
    BY <1>3, <1>4, <2>1 DEF ResetOwnPassword
<1>5. ASSUME NEW u \in User, ResetUserPassword(u)
      PROVE  user' \in [User -> UserRow] /\ UsersKept
  BY <1>3, <1>5 DEF ResetUserPassword
<1>6. ASSUME NEW r \in Request, WriteUser(r)
      PROVE  user' \in [User -> UserRow] /\ UsersKept
  <2> DEFINE u == job[r].user
             row == [user[u] EXCEPT !.status = "ACTIVE", !.admin = job[r].admin]
  <2>1. /\ u \in User /\ job[r].admin \in BOOLEAN
        /\ Exists(u) => job[r].admin = user[u].admin
    BY <1>6 DEF WriteUser, AccountsInv, RequestOK, ActivateOK, Exists
  <2>2. user' = [user EXCEPT ![u] = row]
    BY <1>1, <1>6, <2>1 DEF WriteUser, UserRow
  <2>3. row \in UserRow /\ row.status = "ACTIVE" /\ row.admin = job[r].admin
    BY <1>1, <2>1 DEF UserRow
  <2> HIDE DEF row, u
  <2> QED
    BY <1>1, <2>1, <2>2, <2>3 DEF UsersKept, Exists
<1>7. ASSUME NEW u \in User, DisableUser(u)
      PROVE  user' \in [User -> UserRow] /\ UsersKept
  <2> DEFINE row == [user[u] EXCEPT !.status = "DISABLED"]
  <2>1. user' = [user EXCEPT ![u] = row]
    BY <1>7 DEF DisableUser
  <2>2. row \in UserRow /\ row.status = "DISABLED" /\ row.admin = user[u].admin
    BY <1>1 DEF UserRow
  <2> HIDE DEF row
  <2> QED
    BY <1>1, <2>1, <2>2 DEF UsersKept, Exists
<1>8. ASSUME NEW limit \in Seats, ProvisionTenant(limit)
      PROVE  user' \in [User -> UserRow] /\ UsersKept
  <2> DEFINE row == [status |-> "ACTIVE", admin |-> TRUE, password |-> user[Owner].password + 1]
  <2>1. user' = [user EXCEPT ![Owner] = row] /\ Owner \in User
    BY <1>8, AccountSets DEF ProvisionTenant, Configure
  <2>2. row \in UserRow /\ row.status = "ACTIVE" /\ row.admin = TRUE
    BY <1>1, <2>1 DEF UserRow
  <2>3. user[Owner].admin = TRUE
    BY <1>1, <2>1 DEF AccountsInv, OwnerOK, UserRow
  <2> HIDE DEF row
  <2> QED
    BY <1>1, <2>1, <2>2, <2>3 DEF UsersKept, Exists
<1> QED
  BY <1>2, <1>4, <1>5, <1>6, <1>7, <1>8, UserChanges

------------------------------------------------------------------------------
(* Sessions: a step extends a session that is valid, opens a new one, or   *)
(* revokes some.                                                           *)

Ends(s) == session'[s] = [session[s] EXCEPT !.state = "revoked"]
SessionsGoOn ==
  \A s \in Session :
    \/ session'[s] = session[s]
    \/ Ends(s)
    \/ session[s].state = "none" /\ \E r \in Request : OpenSession(r, s)
    \/ Live(s) /\ \E t \in Int : session'[s] = [session[s] EXCEPT !.expires = t]

LEMMA RevokedTyped ==
  ASSUME session \in [Session -> SessionRow], NEW u, session' = Revoked(u)
  PROVE  session' \in [Session -> SessionRow] /\ SessionsGoOn
<1>1. \A s \in Session : [session[s] EXCEPT !.state = "revoked"] \in SessionRow
  BY DEF SessionRow
<1>2. session' = [s \in Session |-> IF session[s].user = u /\ session[s].state = "open"
                                    THEN [session[s] EXCEPT !.state = "revoked"] ELSE session[s]]
  BY DEF Revoked
<1> QED
  BY <1>1, <1>2 DEF SessionsGoOn, Ends

LEMMA Bounds ==
  /\ SessionTtl \in Nat /\ CacheTtl \in Nat /\ CodeTtl \in Nat /\ Cooldown \in Nat
  /\ MaxAttempts \in Nat /\ MaxOps \in Nat /\ MaxTime \in Nat /\ Seats \subseteq Nat
  BY AccountBounds

LEMMA SessionStep ==
  ASSUME AccountsInv, Step
  PROVE  session' \in [Session -> SessionRow] /\ SessionsGoOn
<1>1. session \in [Session -> SessionRow] /\ now \in Nat /\ now + SessionTtl \in Int
  BY Bounds DEF AccountsInv, AccountTypes
<1>2. CASE session' = session
  BY <1>1, <1>2 DEF SessionsGoOn
<1>3. ASSUME NEW r \in Request, NEW s \in Session, OpenSession(r, s)
      PROVE  session' \in [Session -> SessionRow] /\ SessionsGoOn
  <2> DEFINE row == [user |-> job[r].user, state |-> "open", expires |-> now + SessionTtl, password |-> job[r].password]
  <2>1. job[r].user \in User /\ job[r].password \in Nat
    BY <1>3 DEF OpenSession, AccountsInv, RequestOK, LoginTyped
  <2>2. session' = [session EXCEPT ![s] = row] /\ session[s].state = "none"
    BY <1>3 DEF OpenSession
  <2>3. row \in SessionRow
    BY <1>1, <2>1 DEF SessionRow
  <2> HIDE DEF row
  <2> QED
    BY <1>1, <1>3, <2>2, <2>3 DEF SessionsGoOn
<1>4. ASSUME NEW r \in Request, NEW extend \in BOOLEAN, Refresh(r, extend)
      PROVE  session' \in [Session -> SessionRow] /\ SessionsGoOn
  <2> DEFINE s == job[r].session
             row == [session[s] EXCEPT !.expires = now + SessionTtl]
  <2>1. s \in Session
    BY <1>4 DEF Refresh, AccountsInv, RequestOK, SessionTyped, At, HasRoles
  <2>2. session' = session \/ (session' = [session EXCEPT ![s] = row] /\ Live(s))
    BY <1>4 DEF Refresh
  <2>3. row \in SessionRow
    BY <1>1, <2>1 DEF SessionRow
  <2>4. \E t \in Int : row = [session[s] EXCEPT !.expires = t]
    BY <1>1
  <2> HIDE DEF row, s
  <2> QED
    BY <1>1, <2>1, <2>2, <2>3, <2>4 DEF SessionsGoOn
<1>5. CASE \E u : session' = Revoked(u)
  BY <1>1, <1>5, RevokedTyped
<1>6. \A r : ResetOwnPassword(r) => \E u : session' = Revoked(u)
  BY DEF ResetOwnPassword
<1>7. \A u : ResetUserPassword(u) => session' = Revoked(u)
  BY DEF ResetUserPassword
<1> QED
  BY <1>2, <1>3, <1>4, <1>5, <1>6, <1>7, SessionChanges

(* The same for a step of the whole system; time may only pass.            *)
LEMMA ClockStep ==
  ASSUME AccountTypes, Step
  PROVE  now' \in Nat /\ now <= now'
  BY ClockChanges DEF AccountTypes, Tick

LEMMA EndedStays ==
  ASSUME AccountsInv, Step, NEW s \in Session, session[s].state # "none", ~Live(s)
  PROVE  ~Live(s)'
<1>1. session[s] \in SessionRow
  BY DEF AccountsInv, AccountTypes
<1>2. now \in Nat /\ now' \in Nat /\ now <= now'
  BY ClockStep DEF AccountsInv, AccountTypes
<1>3. CASE session'[s] = session[s]
  BY <1>1, <1>2, <1>3 DEF Live, SessionRow
<1>4. CASE Ends(s)
  BY <1>1, <1>4 DEF Live, Ends, SessionRow
<1> QED
  BY <1>3, <1>4, SessionStep DEF SessionsGoOn

------------------------------------------------------------------------------
(* Passwords *)

PasswordsSame == \A u \in User : user'[u].password = user[u].password

LEMMA PasswordStep ==
  ASSUME AccountsInv, Step
  PROVE  \/ PasswordsSame
         \/ \E u \in User : /\ user' = [user EXCEPT ![u].password = @ + 1]
                            /\ session' = Revoked(u) /\ now' = now /\ kept' = kept
         \/ \E limit \in Seats : ProvisionTenant(limit)
<1>1. user \in [User -> UserRow]
  BY DEF AccountsInv, AccountTypes
<1>2. CASE user' = user
  BY <1>2 DEF PasswordsSame
<1>3. ASSUME NEW r \in Request, WriteUser(r)
      PROVE  PasswordsSame
  BY <1>1, <1>3 DEF WriteUser, PasswordsSame, UserRow
<1>4. ASSUME NEW u \in User, DisableUser(u)
      PROVE  PasswordsSame
  BY <1>1, <1>4 DEF DisableUser, PasswordsSame, UserRow
<1>5. \A r \in Request : ResetOwnPassword(r) =>
        \E u \in User : /\ user' = [user EXCEPT ![u].password = @ + 1]
                        /\ session' = Revoked(u) /\ now' = now /\ kept' = kept
  BY DEF AccountsInv, RequestOK, ResetTyped, ResetOwnPassword, NewPassword, At, history
<1>6. \A u \in User : ResetUserPassword(u) =>
        /\ user' = [user EXCEPT ![u].password = @ + 1]
        /\ session' = Revoked(u) /\ now' = now /\ kept' = kept
  BY DEF ResetUserPassword, NewPassword, history
<1> QED
  BY <1>2, <1>3, <1>4, <1>5, <1>6, UserChanges

LEMMA KeptGrows ==
  ASSUME Step
  PROVE  kept \subseteq kept'
  BY KeptChanges DEF OpenSession, ProvisionTenant

LEMMA PasswordsStayExplained ==
  ASSUME AccountsInv, Step
  PROVE  OldPasswordsExplained'
<1>1. user \in [User -> UserRow] /\ session \in [Session -> SessionRow] /\ now \in Nat
  BY DEF AccountsInv, AccountTypes
<1>2. user' \in [User -> UserRow] /\ session' \in [Session -> SessionRow] /\ SessionsGoOn
  BY UserStep, SessionStep
<1>3. now' \in Nat /\ now <= now' /\ kept \subseteq kept'
  BY ClockStep, KeptGrows DEF AccountsInv
<1> SUFFICES ASSUME NEW s \in Session, Live(s)', session'[s].password # user'[session'[s].user].password
             PROVE  s \in kept'
  BY DEF OldPasswordsExplained
<1>4. session[s] \in SessionRow /\ session'[s] \in SessionRow
  BY <1>1, <1>2
<1>5. ASSUME NEW r \in Request, OpenSession(r, s) PROVE s \in kept'
  <2>1. session'[s].user = job[r].user /\ session'[s].password = job[r].password /\ user' = user
    BY <1>1, <1>5 DEF OpenSession
  <2>2. kept' = IF job[r].password # user[job[r].user].password THEN kept \cup {s} ELSE kept
    BY <1>5 DEF OpenSession
  <2> QED
    BY <2>1, <2>2
<1>6. CASE \A r \in Request : ~OpenSession(r, s)
  <2>1. /\ Live(s)
        /\ session'[s].password = session[s].password /\ session'[s].user = session[s].user
        /\ session'[s].state = "open"
    <3>1. CASE session'[s] = session[s]
      BY <1>1, <1>3, <1>4, <3>1 DEF Live, SessionRow
    <3>2. CASE Ends(s)
      BY <1>4, <3>2 DEF Ends, Live, SessionRow
    <3>3. CASE Live(s) /\ \E t \in Int : session'[s] = [session[s] EXCEPT !.expires = t]
      BY <1>4, <3>3 DEF Live, SessionRow
    <3> QED
      BY <1>2, <1>6, <3>1, <3>2, <3>3 DEF SessionsGoOn
  <2>2. CASE PasswordsSame
    BY <1>3, <1>4, <2>1, <2>2 DEF PasswordsSame, AccountsInv, OldPasswordsExplained, SessionRow
  <2>3. ASSUME NEW u \in User, user' = [user EXCEPT ![u].password = @ + 1], session' = Revoked(u)
        PROVE  s \in kept'
    <3>1. session[s].user # u
      BY <1>4, <2>1, <2>3 DEF Revoked, Live, SessionRow
    <3>2. user'[session[s].user].password = user[session[s].user].password
      BY <1>1, <1>4, <2>3, <3>1 DEF SessionRow
    <3> QED
      BY <1>3, <2>1, <3>2 DEF AccountsInv, OldPasswordsExplained
  <2>4. ASSUME NEW limit \in Seats, ProvisionTenant(limit)
        PROVE  s \in kept'
    <3>1. session' = session /\ kept' = kept \cup {x \in Session : session[x].user = Owner /\ session[x].state = "open"}
      BY <2>4 DEF ProvisionTenant
    <3>2. CASE session[s].user = Owner
      BY <2>1, <3>1, <3>2 DEF Live
    <3>3. CASE session[s].user # Owner
      <4>1. user'[session[s].user] = user[session[s].user]
        BY <1>1, <1>4, <2>4, <3>3 DEF ProvisionTenant, Configure, SessionRow
      <4> QED
        BY <1>3, <2>1, <4>1 DEF AccountsInv, OldPasswordsExplained
    <3> QED
      BY <3>2, <3>3
  <2> QED
    BY <2>2, <2>3, <2>4, PasswordStep
<1> QED
  BY <1>5, <1>6

------------------------------------------------------------------------------
(* Seats *)

LEMMA FewerFit ==
  ASSUME NEW S \in SUBSET User, NEW T \in SUBSET S, NEW limit \in Nat, Over(T, limit)
  PROVE  Over(S, limit)
<1>1. IsFiniteSet(S)
  BY AccountSets, FS_Subset
<1>2. Cardinality(T) <= Cardinality(S) /\ Cardinality(T) \in Nat /\ Cardinality(S) \in Nat
  BY <1>1, FS_Subset, FS_CardinalityType
<1> QED
  BY <1>2 DEF Over

LEMMA CountedFits ==
  ASSUME NEW active \in SUBSET User, NEW limit \in Seats, NEW u \in User, SeatCounted(u, active, limit),
         ~Over(active, limit)
  PROVE  ~Over(active \cup {u}, limit)
<1>1. limit \in Nat
  BY Bounds
<1>2. IsFiniteSet(active) /\ Cardinality(active) \in Nat
  BY AccountSets, FS_Subset, FS_CardinalityType
<1>3. CASE u \in active
  <2>1. active \cup {u} = active
    BY <1>3
  <2> QED
    BY <2>1
<1>4. CASE u \notin active
  <2>1. Cardinality(active \cup {u}) = Cardinality(active) + 1
    BY <1>2, <1>4, FS_AddElement
  <2>2. active \ {u} = active
    BY <1>4
  <2> QED
    BY <1>1, <1>2, <1>4, <2>1, <2>2 DEF SeatCounted, Over
<1> QED
  BY <1>3, <1>4

Plans == [active : BOOLEAN, limit : Seats, modules : SUBSET Permission]

LEMMA SeatsStayExplained ==
  ASSUME AccountsInv, Step
  PROVE  SeatsExplained' /\ company' \in Plans
<1>1. user \in [User -> UserRow] /\ company \in Plans /\ company.limit \in Seats
  BY DEF AccountsInv, AccountTypes, Plans
<1>2. user' \in [User -> UserRow]
  BY UserStep
<1>3. Active \in SUBSET User /\ Active' \in SUBSET User
  BY DEF Active
<1>4. SeatsExplained
  BY DEF AccountsInv
<1>5. ASSUME NEW r \in Request, WriteUser(r)
      PROVE  SeatsExplained' /\ company' \in Plans
  <2> DEFINE u == job[r].user
  <2>1. /\ company' = company
        /\ excused' = (Over(Active', company.limit) /\ (excused \/ <<Active, company.limit>> # job[r].seen))
    BY <1>5 DEF WriteUser, Excuse
  <2>2. PICK active \in SUBSET User, limit \in Seats :
          u \in User /\ job[r].seen = <<active, limit>> /\ SeatCounted(u, active, limit)
    BY <1>5 DEF WriteUser, AccountsInv, RequestOK, ActivateOK
  <2>3. Active' = Active \cup {u}
    BY <1>1, <1>5, <2>2 DEF Active, WriteUser, UserRow
  <2> HIDE DEF u
  <2>4. Over(Active', company.limit) => excused \/ <<Active, company.limit>> # job[r].seen
    BY <1>1, <1>3, <1>4, <2>2, <2>3, CountedFits DEF SeatsExplained
  <2> QED
    BY <1>1, <2>1, <2>4 DEF SeatsExplained
<1>6. ASSUME NEW u \in User, DisableUser(u)
      PROVE  SeatsExplained' /\ company' \in Plans
  <2>1. /\ company' = company
        /\ excused' = (Over(Active', company.limit) /\ excused)
    BY <1>6 DEF DisableUser, Excuse
  <2>2. Active' \in SUBSET Active
    BY <1>1, <1>6 DEF Active, DisableUser, UserRow
  <2>3. Over(Active', company.limit) => Over(Active, company.limit)
    BY <1>1, <1>3, <2>2, FewerFit, Bounds
  <2> QED
    BY <1>1, <1>4, <2>1, <2>3 DEF SeatsExplained
<1>7. ASSUME NEW limit \in Seats, ProvisionTenant(limit)
      PROVE  SeatsExplained' /\ company' \in Plans
  <2>1. Over(Active', company'.limit) => excused'
    BY <1>7 DEF ProvisionTenant, Configure, Excuse
  <2>2. company' = [company EXCEPT !.active = TRUE, !.limit = limit]
    BY <1>7 DEF ProvisionTenant, Configure
  <2> QED
    BY <1>1, <2>1, <2>2 DEF SeatsExplained, Plans
<1>8. ASSUME NEW active \in BOOLEAN, NEW limit \in Seats, NEW modules \in SUBSET Permission,
             UpdateTenant(active, limit, modules)
      PROVE  SeatsExplained' /\ company' \in Plans
  <2>1. Over(Active', company'.limit) => excused'
    BY <1>8 DEF UpdateTenant, Configure, Excuse
  <2>2. company' = [active |-> active, limit |-> limit, modules |-> modules]
    BY <1>8 DEF UpdateTenant, Configure
  <2> QED
    BY <2>1, <2>2 DEF SeatsExplained, Plans
<1>9. CASE UNCHANGED <<company, excused>> /\ Active' = Active
  BY <1>1, <1>4, <1>9 DEF SeatsExplained
<1>a. \A u \in User : NewPassword(u) => Active' = Active
  BY <1>1 DEF NewPassword, Active, UserRow
<1>b. \A r \in Request : ResetOwnPassword(r) => Active' = Active
  BY <1>a DEF ResetOwnPassword, AccountsInv, RequestOK, ResetTyped, At
<1>c. \A u \in User : ResetUserPassword(u) => Active' = Active
  BY <1>a DEF ResetUserPassword
<1>d. user' = user => Active' = Active
  BY DEF Active
<1> QED
  BY <1>5, <1>6, <1>7, <1>8, <1>9, <1>b, <1>c, <1>d, CompanyChanges, UserChanges

------------------------------------------------------------------------------
(* Requests: what brings a request to one of the steps of the accounts.    *)

Acts(r) ==
  \/ \E u \in User : Login(r, u) \/ AskCode(r, u) \/ EnableUser(r, u)
  \/ \E u \in User, right \in BOOLEAN : GuessCode(r, u, right)
  \/ \E u \in User, admin \in BOOLEAN : CreateUser(r, u, admin)
  \/ \E s \in Session : Arrive(r, s)
  \/ FillCache(r) \/ FindSession(r)
  \/ \E extend \in BOOLEAN : Refresh(r, extend)
  \/ \E p \in Permission : Permit(r, p)
  \/ SupersedeCodes(r) \/ WriteGuess(r)

JobStep(r) == job'[r] = job[r] \/ job'[r].step \notin AccountSteps \/ Acts(r)

LEMMA ActsGo ==
  ASSUME NEW r \in Request, Acts(r)
  PROVE  \E j : Goes(r, j)
<1>1. \A u \in User : Login(r, u) \/ AskCode(r, u) => \E j : Goes(r, j)
  BY DEF Login, AskCode
<1>2. \A u \in User : EnableUser(r, u) => \E j : Goes(r, j)
  BY DEF EnableUser, Activate
<1>3. \A u, admin : CreateUser(r, u, admin) => \E j : Goes(r, j)
  BY DEF CreateUser, Activate
<1>4. \A u, right : GuessCode(r, u, right) => \E j : Goes(r, j)
  BY DEF GuessCode
<1>5. \A s : Arrive(r, s) => \E j : Goes(r, j)
  BY DEF Arrive
<1>6. FillCache(r) \/ FindSession(r) => \E j : Goes(r, j)
  BY DEF FillCache, FindSession
<1>7. \A extend : Refresh(r, extend) => \E j : Goes(r, j)
  BY DEF Refresh
<1>8. \A p : Permit(r, p) => \E j : Goes(r, j)
  BY DEF Permit
<1>9. SupersedeCodes(r) \/ WriteGuess(r) => \E j : Goes(r, j)
  BY DEF SupersedeCodes, WriteGuess
<1> QED
  BY <1>1, <1>2, <1>3, <1>4, <1>5, <1>6, <1>7, <1>8, <1>9 DEF Acts

LEMMA JobsKept ==
  ASSUME Administration \/ Tick
  PROVE  job' = job
  BY DEF Administration, AssignRole, RemoveRole, GrantUserPermission, RevokeUserPermission, CreateRole, DeleteRole,
         GrantRolePermission, RevokeRolePermission, SetAccess, DisableUser, ResetUserPassword, UpdateTenant,
         ProvisionTenant, Tick

LEMMA JobSteps ==
  ASSUME AccountTypes, Step
  PROVE  /\ job' = [r \in Request |-> job'[r]]
         /\ \A r \in Request : JobStep(r)
         /\ Restart \/ job' = job \/ \E q \in Request : \A r \in Request \ {q} : job'[r] = job[r]
<1>1. job = [r \in Request |-> job[r]]
  BY DEF AccountTypes
<1>2. Idle.step \notin AccountSteps
  BY DEF Idle, AccountSteps
<1>3. CASE job' = job
  BY <1>1, <1>3 DEF JobStep
<1>4. CASE Restart
  BY <1>1, <1>2, <1>4 DEF Restart, JobStep
<1>5. ASSUME NEW q \in Request, NEW j, Goes(q, j), j.step \notin AccountSteps
      PROVE  /\ job' = [r \in Request |-> job'[r]]
             /\ \A r \in Request : JobStep(r)
             /\ \E x \in Request : \A r \in Request \ {x} : job'[r] = job[r]
  BY <1>1, <1>5, GoesTo DEF JobStep
<1>6. ASSUME NEW q \in Request, Acts(q)
      PROVE  /\ job' = [r \in Request |-> job'[r]]
             /\ \A r \in Request : JobStep(r)
             /\ \E x \in Request : \A r \in Request \ {x} : job'[r] = job[r]
  BY <1>1, <1>6, ActsGo, GoesTo DEF JobStep
<1>7. ASSUME NEW q \in Request, Authentication(q) \/ Resetting(q) \/ WriteUser(q) \/ Begins(q)
      PROVE  Acts(q) \/ Goes(q, Idle)
  <2>1. Authentication(q) => Acts(q) \/ Goes(q, Idle)
    BY DEF Authentication, Acts, OpenSession
  <2>2. Resetting(q) => Acts(q) \/ Goes(q, Idle)
    BY DEF Resetting, Acts, IssueCode, ResetOwnPassword
  <2>3. WriteUser(q) => Goes(q, Idle)
    BY DEF WriteUser
  <2>4. Begins(q) => Acts(q)
    BY DEF Begins, Acts
  <2> QED
    BY <1>7, <2>1, <2>2, <2>3, <2>4
<1>8. Administration \/ Tick => job' = job
  BY JobsKept
<1> QED
  BY <1>2, <1>3, <1>4, <1>5, <1>6, <1>7, <1>8 DEF Step, AccountsNext, Chats

(* What an action leaves its request with *)
LEMMA Acting ==
  ASSUME AccountTypes, NEW r \in Request, NEW j, Goes(r, j)
  PROVE  job'[r] = j
  BY GoesTo DEF AccountTypes

------------------------------------------------------------------------------
(* Reset codes *)

LEMMA CodeStep ==
  ASSUME AccountsInv, Step
  PROVE  /\ code' \in [Code -> CodeRow]
         /\ \A c \in Code :
              \/ code'[c].attempts <= code[c].attempts
              \/ \E r \in Request : /\ At(r, "guess") /\ job[r].code = c /\ job[r].verdict = "wrong"
                                    /\ WriteGuess(r)
                                    /\ code'[c].attempts = code[c].attempts + 1
<1>1. code \in [Code -> CodeRow] /\ now \in Nat /\ now + CodeTtl \in Int
  BY Bounds DEF AccountsInv, AccountTypes
<1>0. \A c \in Code : code[c].attempts \in Nat
  BY <1>1 DEF CodeRow
<1>2. CASE code' = code
  BY <1>0, <1>1, <1>2
<1>3. ASSUME NEW r \in Request, SupersedeCodes(r)
      PROVE  code' \in [Code -> CodeRow] /\ \A c \in Code : code'[c].attempts <= code[c].attempts
  <2>1. code' = [c \in Code |-> IF c \in Unused(job[r].user) THEN [code[c] EXCEPT !.state = "used"] ELSE code[c]]
    BY <1>3 DEF SupersedeCodes
  <2>2. \A c \in Code : [code[c] EXCEPT !.state = "used"] \in CodeRow
    BY <1>1 DEF CodeRow
  <2>3. \A c \in Code : [code[c] EXCEPT !.state = "used"].attempts = code[c].attempts
    BY <1>1 DEF CodeRow
  <2> QED
    BY <1>0, <1>1, <2>1, <2>2, <2>3
<1>4. ASSUME NEW r \in Request, IssueCode(r)
      PROVE  code' \in [Code -> CodeRow] /\ \A c \in Code : code'[c].attempts <= code[c].attempts
  <2> DEFINE m == Min({x \in Code : code[x].state = "none"})
  <2>1. code' = [code EXCEPT ![m] = Issued(job[r].user)]
    BY <1>4 DEF IssueCode
  <2>2. Issued(job[r].user) \in CodeRow /\ Issued(job[r].user).attempts = 0
    BY <1>1, <1>4 DEF IssueCode, Issued, CodeRow, AccountsInv, RequestOK, ResetTyped, At
  <2>3. PICK row : row = Issued(job[r].user)
    OBVIOUS
  <2> HIDE DEF m
  <2>4. \A c \in Code : code'[c] = code[c] \/ code'[c] = row
    BY <1>1, <2>1, <2>3
  <2>5. code' \in [Code -> CodeRow]
    BY <1>1, <2>1, <2>2, <2>3
  <2> QED
    BY <1>0, <2>2, <2>3, <2>4, <2>5
<1>5. ASSUME NEW r \in Request, WriteGuess(r)
      PROVE  /\ code' \in [Code -> CodeRow]
             /\ \A c \in Code :
                  \/ code'[c].attempts <= code[c].attempts
                  \/ job[r].code = c /\ job[r].verdict = "wrong" /\ code'[c].attempts = code[c].attempts + 1
  <2> DEFINE m == job[r].code
             wrong == [code[m] EXCEPT !.attempts = code[m].attempts + 1]
             used == [code[m] EXCEPT !.state = "used"]
  <2>1. code' = [code EXCEPT ![m] = IF job[r].verdict = "wrong" THEN wrong ELSE used]
    <3>1. CASE job[r].verdict = "wrong"
      BY <1>5, <3>1 DEF WriteGuess
    <3>2. CASE job[r].verdict # "wrong"
      BY <1>5, <3>2 DEF WriteGuess
    <3> QED
      BY <3>1, <3>2
  <2>2. m \in Code => /\ wrong \in CodeRow /\ wrong.attempts = code[m].attempts + 1
                      /\ used \in CodeRow /\ used.attempts = code[m].attempts
    BY <1>1 DEF CodeRow
  <2> HIDE DEF m, wrong, used
  <2>3. code' \in [Code -> CodeRow]
    BY <1>1, <2>1, <2>2
  <2>4. \A c \in Code : code'[c].attempts <= code[c].attempts
                        \/ (c = m /\ job[r].verdict = "wrong" /\ code'[c].attempts = code[c].attempts + 1)
    BY <1>0, <1>1, <2>1, <2>2
  <2> QED
    BY <2>3, <2>4 DEF m
<1>6. \A r : WriteGuess(r) => At(r, "guess")
  BY DEF WriteGuess
<1> QED
  BY <1>2, <1>3, <1>4, <1>5, <1>6, CodeChanges

(* Who guesses after a step guessed before, or has just judged a guess of  *)
(* a code with attempts left.                                              *)
LEMMA GuessBegins ==
  ASSUME AccountsInv, Step, NEW c \in Code, NEW r \in Guessing(c)'
  PROVE  \/ r \in Guessing(c)
         \/ job'[r] # job[r] /\ ~At(r, "guess") /\ code' = code /\ code[c].attempts < MaxAttempts
<1>0. r \in Request /\ job'[r].step = "guess" /\ job'[r].code = c /\ job'[r].verdict = "wrong"
  BY DEF Guessing, At
<1>t. AccountTypes /\ code \in [Code -> CodeRow]
  BY DEF AccountsInv, AccountTypes
<1>f. /\ job[r].step \in HasRoles => "step" \in DOMAIN job[r]
      /\ job[r].step = "supersede" => "step" \in DOMAIN job[r]
  BY <1>0 DEF AccountsInv, RequestOK, FieldsTyped
<1>1. CASE job'[r] = job[r]
  BY <1>0, <1>1 DEF Guessing, At
<1>2. ASSUME NEW u \in User, NEW right \in BOOLEAN, GuessCode(r, u, right)
      PROVE  job'[r] # job[r] /\ ~At(r, "guess") /\ code' = code /\ code[c].attempts < MaxAttempts
  <2> DEFINE m == Max({x \in Unused(u) : now < code[x].expires})
             verdict == IF Spent(m) THEN "spent" ELSE IF right THEN "right" ELSE "wrong"
  <2>1. job'[r] = [step |-> "guess", user |-> u, code |-> m, verdict |-> verdict]
    BY <1>0, <1>2, <1>t, Acting DEF GuessCode
  <2>2. At(r, "idle") /\ code' = code
    BY <1>2 DEF GuessCode, tables
  <2>3. m = c /\ ~Spent(c)
    BY <1>0, <2>1
  <2>4. code[c].attempts < MaxAttempts
    BY <1>t, <2>3, Bounds DEF Spent, CodeRow
  <2> QED
    BY <1>0, <2>2, <2>4 DEF At
<1>3. Acts(r) => \E u \in User, right \in BOOLEAN : GuessCode(r, u, right)
  <2>1. \A u \in User : Login(r, u) \/ AskCode(r, u) => job'[r].step # "guess"
    BY <1>0, <1>t, Acting DEF Login, AskCode
  <2>2. \A u \in User : EnableUser(r, u) => job'[r].step # "guess"
    BY <1>0, <1>t, Acting DEF EnableUser, Activate
  <2>3. \A u \in User, admin \in BOOLEAN : CreateUser(r, u, admin) => job'[r].step # "guess"
    BY <1>0, <1>t, Acting DEF CreateUser, Activate
  <2>4. \A s \in Session : Arrive(r, s) => job'[r].step # "guess"
    BY <1>0, <1>t, Acting DEF Arrive
  <2>5. FillCache(r) => job'[r].step # "guess"
    BY <1>0, <1>f, <1>t, Acting DEF FillCache, At, HasRoles
  <2>6. FindSession(r) => job'[r].step # "guess"
    BY <1>0, <1>f, <1>t, Acting DEF FindSession, At, Idle, HasRoles
  <2>7. \A extend \in BOOLEAN : Refresh(r, extend) => job'[r].step # "guess"
    BY <1>0, <1>f, <1>t, Acting DEF Refresh, At, HasRoles
  <2>8. ASSUME NEW p \in Permission, Permit(r, p) PROVE job'[r].step # "guess"
    <3>1. CASE Goes(r, Idle)
      BY <1>0, <1>t, <3>1, Acting DEF Idle
    <3>2. ASSUME NEW mapped, Goes(r, [job[r] EXCEPT !.step = "admitted", !.to = {p}, !.mapped = mapped])
          PROVE  job'[r].step # "guess"
      BY <1>0, <1>f, <1>t, <2>8, <3>2, Acting DEF Permit, At, HasRoles
    <3> QED
      BY <2>8, <3>1, <3>2 DEF Permit
  <2>9. SupersedeCodes(r) => job'[r].step # "guess"
    BY <1>0, <1>f, <1>t, Acting DEF SupersedeCodes, At, HasRoles
  <2>10. WriteGuess(r) => job'[r].step # "guess"
    BY <1>0, <1>t, Acting DEF WriteGuess, Idle
  <2> QED
    BY <1>0, <2>1, <2>2, <2>3, <2>4, <2>5, <2>6, <2>7, <2>8, <2>9, <2>10 DEF Acts
<1> QED
  BY <1>0, <1>t, <1>1, <1>2, <1>3, JobSteps DEF JobStep, AccountSteps

LEMMA GuessesStayBounded ==
  ASSUME AccountsInv, Step
  PROVE  GuessesInFlight'
<1> SUFFICES ASSUME NEW c \in Code
             PROVE  code'[c].attempts + Cardinality(Guessing(c)') <= MaxAttempts + Cardinality(Request) - 1
  BY DEF GuessesInFlight
<1> DEFINE G == Guessing(c)
           a == code[c].attempts
           b == code'[c].attempts
           n == Cardinality(Request)
<1>1. G \in SUBSET Request /\ G' \in SUBSET Request
  BY DEF Guessing
<1>2. PICK H : H = G'
  OBVIOUS
<1>3. /\ IsFiniteSet(G) /\ IsFiniteSet(H) /\ H \in SUBSET Request
      /\ Cardinality(G) \in Nat /\ Cardinality(H) \in Nat /\ n \in Nat /\ Cardinality(H) <= n
  BY <1>1, <1>2, AccountSets, FS_Subset, FS_CardinalityType
<1>4. a \in Nat /\ b \in Nat /\ MaxAttempts \in Nat
  BY CodeStep, Bounds DEF AccountsInv, AccountTypes, CodeRow
<1>5. a + Cardinality(G) <= MaxAttempts + n - 1
  BY DEF AccountsInv, GuessesInFlight
<1>6. \A r \in H : r \in G \/ (~At(r, "guess") /\ code' = code /\ a < MaxAttempts)
  BY <1>2, GuessBegins
<1>7. \/ b <= a
      \/ \E r \in G : WriteGuess(r) /\ b = a + 1
  BY CodeStep DEF Guessing
<1> HIDE DEF G, n
<1>8. ASSUME code' = code, a < MaxAttempts
      PROVE  b + Cardinality(H) <= MaxAttempts + n - 1
  <2>1. b = a
    BY <1>8
  <2> HIDE DEF a, b
  <2> QED
    BY <1>3, <1>4, <1>8, <2>1
<1>9. ASSUME H \subseteq G, b <= a
      PROVE  b + Cardinality(H) <= MaxAttempts + n - 1
  <2>1. Cardinality(H) <= Cardinality(G)
    BY <1>3, <1>9, FS_Subset
  <2> HIDE DEF a, b
  <2> QED
    BY <1>3, <1>4, <1>5, <1>9, <2>1
<1>10. ASSUME H \subseteq G, NEW r \in G, WriteGuess(r), b = a + 1
       PROVE  b + Cardinality(H) <= MaxAttempts + n - 1
  <2>1. r \in Request /\ AccountTypes
    BY <1>1, <1>10 DEF AccountsInv
  <2>2. job'[r].step # "guess"
    BY <1>10, <2>1, Acting DEF WriteGuess, Idle
  <2>3. r \notin H
    BY <1>2, <2>2 DEF G, Guessing, At
  <2>4. Cardinality(G \ {r}) = Cardinality(G) - 1 /\ IsFiniteSet(G \ {r})
    BY <1>3, <1>10, FS_RemoveElement
  <2>5. Cardinality(H) <= Cardinality(G \ {r})
    BY <1>10, <2>3, <2>4, FS_Subset
  <2> HIDE DEF a, b
  <2> QED
    BY <1>3, <1>4, <1>5, <1>10, <2>4, <2>5
<1> QED
  BY <1>2, <1>6, <1>7, <1>8, <1>9, <1>10 DEF G, n

LEMMA GuessesInFlightBound == ASSUME AccountsInv PROVE GuessesBounded
<1> SUFFICES ASSUME NEW c \in Code PROVE code[c].attempts <= MaxAttempts + Cardinality(Request) - 1
  BY DEF GuessesBounded
<1>1. Guessing(c) \in SUBSET Request
  BY DEF Guessing
<1>2. Cardinality(Guessing(c)) \in Nat /\ Cardinality(Request) \in Nat
  BY <1>1, AccountSets, FS_Subset, FS_CardinalityType
<1>3. code[c].attempts + Cardinality(Guessing(c)) <= MaxAttempts + Cardinality(Request) - 1
  BY DEF AccountsInv, GuessesInFlight
<1>4. code[c].attempts \in Nat /\ MaxAttempts \in Nat
  BY Bounds DEF AccountsInv, AccountTypes, CodeRow
<1> QED
  BY <1>2, <1>3, <1>4

------------------------------------------------------------------------------
(* Roles: whoever loses one is recorded to have lost it by now.            *)

RolesRecorded ==
  /\ access' \in AccessRows /\ lost' \in [User -> [Role -> Int]]
  /\ \A u \in User, ro \in Role : lost[u][ro] <= lost'[u][ro] /\ lost'[u][ro] <= now'
  /\ \A u \in User, ro \in Role : Exists(u) /\ ro \in RolesNow(u) => ro \in RolesNow(u)' \/ lost'[u][ro] = now

LEMMA RoleStep ==
  ASSUME AccountsInv, Step, ~Restart
  PROVE  RolesRecorded
<1>1. access \in AccessRows /\ lost \in [User -> [Role -> Int]] /\ now \in Nat
  BY DEF AccountsInv, AccountTypes
<1>2. now' \in Nat /\ now <= now'
  BY ClockStep DEF AccountsInv
<1>3. \A u \in User, ro \in Role : lost[u][ro] \in Int /\ lost[u][ro] <= now
  BY <1>1 DEF AccountsInv, LostPast
<1>4. UsersKept
  BY UserStep
<1>5. CASE UNCHANGED <<access, lost>>
  <2>1. \A u \in User : Exists(u) => RolesNow(u)' = RolesNow(u)
    BY <1>4, <1>5 DEF UsersKept, RolesNow, RolesOf
  <2> QED
    BY <1>1, <1>2, <1>3, <1>5, <2>1 DEF RolesRecorded
<1>6. ASSUME NEW new \in AccessRows, SetAccess(new)
      PROVE  RolesRecorded
  <2>1. /\ access' = new /\ user' = user /\ now' = now
        /\ lost' = [u \in User |-> [ro \in Role |-> IF ro \in RolesNow(u) \ RolesOf(u, new) THEN now ELSE lost[u][ro]]]
    BY <1>6 DEF SetAccess
  <2>2. \A u \in User : RolesNow(u)' = RolesOf(u, new)
    BY <2>1 DEF RolesNow, RolesOf
  <2>3. \A u \in User, ro \in Role :
          lost'[u][ro] = IF ro \in RolesNow(u) \ RolesOf(u, new) THEN now ELSE lost[u][ro]
    BY <2>1
  <2>4. lost' \in [User -> [Role -> Int]]
    BY <1>1, <2>1
  <2> QED
    BY <1>1, <1>3, <2>1, <2>2, <2>3, <2>4 DEF RolesRecorded
<1> QED
  BY <1>5, <1>6, AccessChanges DEF AccountsInv

LEMMA CacheStep ==
  ASSUME AccountsInv, Step
  PROVE  cache' \in [User -> [roles : SUBSET Role, until : Int]] /\ CacheOK'
<1>1. /\ cache \in [User -> [roles : SUBSET Role, until : Int]]
      /\ access \in AccessRows /\ lost \in [User -> [Role -> Int]] /\ now \in Nat /\ CacheTtl \in Nat
  BY Bounds DEF AccountsInv, AccountTypes
<1>2. now' \in Nat /\ now <= now' /\ UsersKept
  BY ClockStep, UserStep DEF AccountsInv
<1>3. CASE Restart
  <2>1. cache' = [u \in User |-> [roles |-> {}, until |-> 0]]
    BY <1>3 DEF Restart, NoCache
  <2>2. cache' \in [User -> [roles : SUBSET Role, until : Int]]
    BY <2>1
  <2>3. \A u \in User : cache'[u].roles = {} /\ cache'[u].until = 0
    BY <2>1
  <2> QED
    BY <1>1, <1>2, <2>2, <2>3 DEF CacheOK
<1>4. CASE cache' = cache /\ ~Restart
  <2> SUFFICES ASSUME NEW u \in User
               PROVE  /\ cache[u].until <= now' + CacheTtl
                      /\ cache[u].roles # {} => Exists(u)'
                      /\ \A ro \in cache[u].roles : ro \in RolesNow(u)' \/ cache[u].until <= lost'[u][ro] + CacheTtl
    BY <1>1, <1>4 DEF CacheOK
  <2>1. /\ cache[u].until \in Int /\ cache[u].roles \subseteq Role
        /\ cache[u].until <= now + CacheTtl
        /\ cache[u].roles # {} => Exists(u)
        /\ \A ro \in cache[u].roles : ro \in RolesNow(u) \/ cache[u].until <= lost[u][ro] + CacheTtl
    BY <1>1 DEF AccountsInv, CacheOK
  <2>2. RolesRecorded
    BY <1>4, RoleStep
  <2>3. ASSUME NEW ro \in cache[u].roles
        PROVE  ro \in RolesNow(u)' \/ cache[u].until <= lost'[u][ro] + CacheTtl
    <3>1. lost[u][ro] \in Int /\ lost'[u][ro] \in Int /\ lost[u][ro] <= lost'[u][ro]
      BY <1>1, <2>1, <2>2, <2>3 DEF RolesRecorded
    <3>2. ro \in RolesNow(u) => ro \in RolesNow(u)' \/ lost'[u][ro] = now
      BY <2>1, <2>2, <2>3 DEF RolesRecorded
    <3>3. ro \in RolesNow(u) \/ cache[u].until <= lost[u][ro] + CacheTtl
      BY <2>1
    <3> QED
      BY <1>1, <2>1, <3>1, <3>2, <3>3
  <2> QED
    BY <1>1, <1>2, <2>1, <2>3 DEF UsersKept
<1>5. ASSUME NEW r \in Request, FillCache(r)
      PROVE  cache' \in [User -> [roles : SUBSET Role, until : Int]] /\ CacheOK'
  <2> DEFINE j == job[r]
             entry == [roles |-> j.roles, until |-> now + CacheTtl]
  <2>1. cache' = [cache EXCEPT ![j.user] = entry] /\ UNCHANGED <<user, access, lost, now>>
    BY <1>5 DEF FillCache, tables, history
  <2>2. RolesOK(r) /\ j.step = "roles"
    BY <1>5 DEF FillCache, At, AccountsInv, RequestOK
  <2>3. /\ j.user \in User /\ Exists(j.user) /\ j.roles \subseteq Role
        /\ \A ro \in j.roles : ro \in RolesNow(j.user) \/ now <= lost[j.user][ro]
    BY <2>2 DEF RolesOK, HasRoles
  <2>4. /\ entry \in [roles : SUBSET Role, until : Int]
        /\ entry.roles = j.roles /\ entry.until = now + CacheTtl
    BY <1>1, <2>3
  <2> HIDE DEF entry, j
  <2>5. \A u \in User : Exists(u)' = Exists(u) /\ RolesNow(u)' = RolesNow(u)
    BY <2>1 DEF Exists, RolesNow, RolesOf
  <2>6. cache' \in [User -> [roles : SUBSET Role, until : Int]]
    BY <1>1, <2>1, <2>4
  <2>7. ASSUME NEW u \in User, u # j.user
        PROVE  cache'[u] = cache[u]
    BY <1>1, <2>1, <2>7
  <2>8. cache'[j.user] = entry
    BY <1>1, <2>1, <2>3
  <2>9. \A ro \in j.roles : ro \in RolesNow(j.user) \/ now + CacheTtl <= lost[j.user][ro] + CacheTtl
    BY <1>1, <2>3
  <2>10. CacheOK
    BY DEF AccountsInv
  <2>11. ASSUME NEW u \in User
         PROVE  /\ cache'[u].until <= now + CacheTtl
                /\ cache'[u].roles # {} => Exists(u)
                /\ \A ro \in cache'[u].roles : ro \in RolesNow(u) \/ cache'[u].until <= lost[u][ro] + CacheTtl
    <3>1. CASE u = j.user
      <4>1. now + CacheTtl <= now + CacheTtl
        BY <1>1
      <4> QED
        BY <2>3, <2>4, <2>8, <2>9, <3>1, <4>1
    <3>2. CASE u # j.user
      BY <2>7, <2>10, <3>2 DEF CacheOK
    <3> QED
      BY <3>1, <3>2
  <2> QED
    BY <2>1, <2>5, <2>6, <2>11 DEF CacheOK
<1> QED
  BY <1>3, <1>4, <1>5, CacheChanges

------------------------------------------------------------------------------
(* Requests *)

LEMMA RequestKept ==
  ASSUME AccountsInv, Step, ~Restart, NEW r \in Request, job'[r] = job[r]
  PROVE  RequestOK(r)'
<1>1. RequestOK(r)
  BY DEF AccountsInv
<1>2. UsersKept /\ RolesRecorded
  BY UserStep, RoleStep
<1>3. now \in Nat /\ now' \in Nat /\ now <= now' /\ CacheTtl \in Nat /\ lost \in [User -> [Role -> Int]]
  BY ClockStep, Bounds DEF AccountsInv, AccountTypes
<1>4. LoginTyped(r)' /\ ResetTyped(r)' /\ SessionTyped(r)' /\ FieldsTyped(r)' /\ AdmittedOK(r)'
  BY <1>1 DEF RequestOK, LoginTyped, ResetTyped, SessionTyped, FieldsTyped, AdmittedOK, At
<1>5. ActivateOK(r)'
  BY <1>1, <1>2 DEF RequestOK, ActivateOK, UsersKept, At
<1>6. RolesOK(r)'
  <2>0. PICK j : j = job[r] /\ j = job'[r]
    OBVIOUS
  <2> SUFFICES ASSUME j.step \in HasRoles
               PROVE  /\ j.user \in User /\ Exists(j.user)'
                      /\ j.at \in Nat /\ j.at <= now'
                      /\ j.roles \subseteq Role
                      /\ j.step = "roles" =>
                           j.at = now' /\ \A ro \in j.roles : ro \in RolesNow(j.user)' \/ j.at <= lost'[j.user][ro]
                      /\ \A ro \in j.roles : ro \in RolesNow(j.user)' \/ j.at <= lost'[j.user][ro] + CacheTtl
    BY <2>0 DEF RolesOK, Justified
  <2>1. /\ j.user \in User /\ Exists(j.user)
        /\ j.at \in Nat /\ j.at <= now
        /\ j.roles \subseteq Role
        /\ j.step = "roles" => j.at = now /\ \A ro \in j.roles : ro \in RolesNow(j.user) \/ j.at <= lost[j.user][ro]
        /\ \A ro \in j.roles : ro \in RolesNow(j.user) \/ j.at <= lost[j.user][ro] + CacheTtl
    BY <1>1, <2>0 DEF RequestOK, RolesOK, Justified
  <2>2. j.step = "roles" => now' = now
    BY <2>0, ClockChanges DEF Tick, At
  <2>3. ASSUME NEW ro \in j.roles
        PROVE  /\ lost[j.user][ro] \in Int /\ lost'[j.user][ro] \in Int /\ lost[j.user][ro] <= lost'[j.user][ro]
               /\ ro \in RolesNow(j.user) => ro \in RolesNow(j.user)' \/ lost'[j.user][ro] = now
    BY <1>2, <1>3, <2>1, <2>3 DEF RolesRecorded
  <2>4. \A ro \in j.roles : ro \in RolesNow(j.user)' \/ j.at <= lost'[j.user][ro] + CacheTtl
    BY <1>3, <2>1, <2>3
  <2>5. j.step = "roles" => \A ro \in j.roles : ro \in RolesNow(j.user)' \/ j.at <= lost'[j.user][ro]
    BY <1>3, <2>1, <2>3
  <2>6. Exists(j.user)' /\ j.at <= now'
    BY <1>2, <1>3, <2>1 DEF UsersKept
  <2> QED
    BY <2>1, <2>2, <2>4, <2>5, <2>6
<1> QED
  BY <1>4, <1>5, <1>6 DEF RequestOK

LEMMA ActsQuietly ==
  ASSUME NEW r, Acts(r)
  PROVE  UNCHANGED <<user, company, access, lost, now>>
<1>1. \A u \in User : Login(r, u) \/ AskCode(r, u) => UNCHANGED <<user, company, access, lost, now>>
  BY DEF Login, AskCode, tables, history
<1>2. \A u \in User : EnableUser(r, u) => UNCHANGED <<user, company, access, lost, now>>
  BY DEF EnableUser, Activate, tables, history
<1>3. \A u, admin : CreateUser(r, u, admin) => UNCHANGED <<user, company, access, lost, now>>
  BY DEF CreateUser, Activate, tables, history
<1>4. \A u, right : GuessCode(r, u, right) => UNCHANGED <<user, company, access, lost, now>>
  BY DEF GuessCode, tables, history
<1>5. \A s : Arrive(r, s) => UNCHANGED <<user, company, access, lost, now>>
  BY DEF Arrive, tables, history
<1>6. FillCache(r) \/ FindSession(r) => UNCHANGED <<user, company, access, lost, now>>
  BY DEF FillCache, FindSession, tables, history
<1>7. \A extend : Refresh(r, extend) => UNCHANGED <<user, company, access, lost, now>>
  BY DEF Refresh, history
<1>8. \A p : Permit(r, p) => UNCHANGED <<user, company, access, lost, now>>
  BY DEF Permit, tables, history
<1>9. SupersedeCodes(r) \/ WriteGuess(r) => UNCHANGED <<user, company, access, lost, now>>
  BY DEF SupersedeCodes, WriteGuess, history
<1> QED
  BY <1>1, <1>2, <1>3, <1>4, <1>5, <1>6, <1>7, <1>8, <1>9 DEF Acts

(* A request at a step that none of the conditions speaks of *)
LEMMA ElsewhereOK ==
  ASSUME NEW r, job'[r].step \notin AccountSteps
  PROVE  RequestOK(r)'
  BY DEF RequestOK, LoginTyped, ResetTyped, SessionTyped, FieldsTyped, ActivateOK, RolesOK, AdmittedOK, At, HasRoles,
         AccountSteps

(* A request that has roles: as before, or with what the cache or the rows *)
(* told it on arrival.                                                     *)
LEMMA WithRoles ==
  ASSUME AccountsInv, UNCHANGED <<user, access, lost, now>>, NEW r \in Request, NEW j, j = job'[r],
         DOMAIN j = {"step", "user", "session", "at", "enabled", "admin", "to", "mapped", "roles"},
         j.step \in HasRoles, j.session \in Session,
         j.step = "admitted" => j.admin \/ j.mapped \/ \E ro \in j.roles : j.to \subseteq RoleGrants[ro],
         j.user \in User, Exists(j.user), j.at \in Nat, j.at <= now, j.roles \subseteq Role,
         j.step = "roles" => j.at = now /\ \A ro \in j.roles : ro \in RolesNow(j.user) \/ j.at <= lost[j.user][ro],
         \A ro \in j.roles : ro \in RolesNow(j.user) \/ j.at <= lost[j.user][ro] + CacheTtl
  PROVE  RequestOK(r)'
<1>1. \A u : Exists(u)' = Exists(u) /\ RolesNow(u)' = RolesNow(u)
  BY DEF Exists, RolesNow, RolesOf
<1>2. LoginTyped(r)' /\ ResetTyped(r)' /\ SessionTyped(r)' /\ FieldsTyped(r)' /\ ActivateOK(r)' /\ AdmittedOK(r)'
  BY DEF LoginTyped, ResetTyped, SessionTyped, FieldsTyped, ActivateOK, AdmittedOK, At, HasRoles
<1>3. RolesOK(r)'
  BY <1>1 DEF RolesOK, Justified
<1> QED
  BY <1>2, <1>3 DEF RequestOK

LEMMA ArriveOK ==
  ASSUME AccountsInv, NEW r \in Request, NEW s \in Session, Arrive(r, s)
  PROVE  RequestOK(r)'
<1> DEFINE u == session[s].user
<1>1. /\ AccountTypes /\ now \in Nat /\ CacheTtl \in Nat /\ u \in User
      /\ access \in AccessRows /\ lost \in [User -> [Role -> Int]]
      /\ cache \in [User -> [roles : SUBSET Role, until : Int]]
  BY Bounds DEF AccountsInv, AccountTypes, SessionRow
<1>2. PICK j : j = [step |-> IF Cached(u) THEN "session" ELSE "roles",
                    user |-> u, session |-> s, at |-> now, enabled |-> company.modules,
                    admin |-> user[u].admin, to |-> {}, mapped |-> FALSE,
                    roles |-> IF Cached(u) THEN cache[u].roles ELSE RolesNow(u)]
  OBVIOUS
<1>3. j = job'[r]
  BY <1>1, <1>2, Acting DEF Arrive
<1>4. UNCHANGED <<user, access, lost, now>>
  BY DEF Arrive, tables, history
<1>5. Exists(u)
  BY DEF Arrive, Active, Exists
<1>6. RolesNow(u) \subseteq Role
  BY <1>1, AccountSets DEF RolesNow, RolesOf, AccessRows
<1>7. ASSUME NEW ro \in cache[u].roles, Cached(u)
      PROVE  ro \in RolesNow(u) \/ now <= lost[u][ro] + CacheTtl
  <2>1. lost[u][ro] \in Int /\ cache[u].until \in Int
    BY <1>1, <1>7
  <2>2. ro \in RolesNow(u) \/ cache[u].until <= lost[u][ro] + CacheTtl
    BY <1>1, <1>7 DEF AccountsInv, CacheOK
  <2> QED
    BY <1>1, <1>7, <2>1, <2>2 DEF Cached
<1>8. cache[u].roles \subseteq Role
  BY <1>1
<1> HIDE DEF u
<1>9. /\ DOMAIN j = {"step", "user", "session", "at", "enabled", "admin", "to", "mapped", "roles"}
      /\ j.step = IF Cached(u) THEN "session" ELSE "roles"
      /\ j.user = u /\ j.at = now /\ j.session = s
      /\ j.roles = IF Cached(u) THEN cache[u].roles ELSE RolesNow(u)
  BY <1>2
<1>10. now <= now
  BY <1>1
<1>11. j.step \in HasRoles /\ j.step # "admitted" /\ (j.step = "roles" => ~Cached(u))
  BY <1>9 DEF HasRoles
<1> QED
  BY <1>1, <1>3, <1>4, <1>5, <1>6, <1>7, <1>8, <1>9, <1>10, <1>11, WithRoles

(* The steps on the way keep what the request has read. *)
LEMMA WalksOn ==
  ASSUME AccountsInv, UNCHANGED <<user, access, lost, now>>, NEW r \in Request, NEW j, j = job'[r],
         job[r].step \in HasRoles,
         DOMAIN j = DOMAIN job[r],
         j.user = job[r].user, j.at = job[r].at, j.roles = job[r].roles,
         j.session = job[r].session, j.step \in HasRoles \ {"roles"},
         j.step = "admitted" => j.admin \/ j.mapped \/ \E ro \in j.roles : j.to \subseteq RoleGrants[ro]
  PROVE  RequestOK(r)'
<1>1. RequestOK(r)
  BY DEF AccountsInv
<1>2. DOMAIN j = {"step", "user", "session", "at", "enabled", "admin", "to", "mapped", "roles"}
  BY <1>1 DEF RequestOK, FieldsTyped
<1>3. /\ j.user \in User /\ Exists(j.user) /\ j.at \in Nat /\ j.at <= now /\ j.roles \subseteq Role
      /\ \A ro \in j.roles : ro \in RolesNow(j.user) \/ j.at <= lost[j.user][ro] + CacheTtl
  BY <1>1 DEF RequestOK, RolesOK, Justified
<1>4. j.session \in Session
  BY <1>1 DEF RequestOK, SessionTyped
<1> QED
  BY <1>2, <1>3, <1>4, WithRoles DEF HasRoles

LEMMA FillCacheOK ==
  ASSUME AccountsInv, NEW r \in Request, FillCache(r)
  PROVE  RequestOK(r)'
<1>1. PICK j : j = [job[r] EXCEPT !.step = "session"]
  OBVIOUS
<1>2. j = job'[r]
  BY <1>1, Acting DEF FillCache, AccountsInv
<1>3. UNCHANGED <<user, access, lost, now>>
  BY DEF FillCache, tables, history
<1>4. job[r].step \in HasRoles
  BY DEF FillCache, At, HasRoles
<1>5. DOMAIN job[r] = {"step", "user", "session", "at", "enabled", "admin", "to", "mapped", "roles"}
  BY <1>4 DEF AccountsInv, RequestOK, FieldsTyped
<1>6. /\ DOMAIN j = DOMAIN job[r] /\ j.step = "session" /\ j.session = job[r].session
      /\ j.user = job[r].user /\ j.at = job[r].at /\ j.roles = job[r].roles
  BY <1>1, <1>5
<1>7. "session" \in HasRoles
  BY DEF HasRoles
<1> QED
  BY <1>2, <1>3, <1>4, <1>6, <1>7, WalksOn

LEMMA FindSessionOK ==
  ASSUME AccountsInv, NEW r \in Request, FindSession(r)
  PROVE  RequestOK(r)'
<1>1. PICK j : j = [job[r] EXCEPT !.step = "found"]
  OBVIOUS
<1>2. job'[r] = j \/ job'[r] = Idle
  BY <1>1, Acting DEF FindSession, AccountsInv
<1>3. UNCHANGED <<user, access, lost, now>>
  BY DEF FindSession, tables, history
<1>4. job[r].step \in HasRoles
  BY DEF FindSession, At, HasRoles
<1>5. DOMAIN job[r] = {"step", "user", "session", "at", "enabled", "admin", "to", "mapped", "roles"}
  BY <1>4 DEF AccountsInv, RequestOK, FieldsTyped
<1>6. /\ DOMAIN j = DOMAIN job[r] /\ j.step = "found" /\ j.session = job[r].session
      /\ j.user = job[r].user /\ j.at = job[r].at /\ j.roles = job[r].roles
  BY <1>1, <1>5
<1>7. "found" \in HasRoles
  BY DEF HasRoles
<1>8. CASE job'[r] = j
  BY <1>3, <1>4, <1>6, <1>7, <1>8, WalksOn
<1>9. CASE job'[r] = Idle
  BY <1>9, ElsewhereOK DEF Idle, AccountSteps
<1> QED
  BY <1>2, <1>8, <1>9

LEMMA RefreshOK ==
  ASSUME AccountsInv, NEW r \in Request, NEW extend, Refresh(r, extend)
  PROVE  RequestOK(r)'
<1>1. PICK j : j = [job[r] EXCEPT !.step = "authenticated"]
  OBVIOUS
<1>2. j = job'[r]
  BY <1>1, Acting DEF Refresh, AccountsInv
<1>3. UNCHANGED <<user, access, lost, now>>
  BY DEF Refresh, history
<1>4. job[r].step \in HasRoles
  BY DEF Refresh, At, HasRoles
<1>5. DOMAIN job[r] = {"step", "user", "session", "at", "enabled", "admin", "to", "mapped", "roles"}
  BY <1>4 DEF AccountsInv, RequestOK, FieldsTyped
<1>6. /\ DOMAIN j = DOMAIN job[r] /\ j.step = "authenticated" /\ j.session = job[r].session
      /\ j.user = job[r].user /\ j.at = job[r].at /\ j.roles = job[r].roles
  BY <1>1, <1>5
<1>7. "authenticated" \in HasRoles
  BY DEF HasRoles
<1> QED
  BY <1>2, <1>3, <1>4, <1>6, <1>7, WalksOn

LEMMA PermitOK ==
  ASSUME AccountsInv, NEW r \in Request, NEW p \in Permission, Permit(r, p)
  PROVE  RequestOK(r)'
<1>1. PICK j : j = [job[r] EXCEPT !.step = "admitted", !.to = {p}, !.mapped = Mapped(job[r].user, p)]
  OBVIOUS
<1>2. \/ job'[r] = Idle
      \/ job'[r] = j /\ (job[r].admin \/ ByRole(job[r].roles, p) \/ Mapped(job[r].user, p))
  <2>1. CASE p \in job[r].enabled /\ (job[r].admin \/ ByRole(job[r].roles, p) \/ Mapped(job[r].user, p))
    <3>1. Goes(r, j)
      BY <1>1, <2>1 DEF Permit
    <3> QED
      BY <2>1, <3>1, Acting DEF AccountsInv
  <2>2. CASE ~(p \in job[r].enabled /\ (job[r].admin \/ ByRole(job[r].roles, p) \/ Mapped(job[r].user, p)))
    <3>1. Goes(r, Idle)
      BY <2>2 DEF Permit
    <3> QED
      BY <3>1, Acting DEF AccountsInv
  <2> QED
    BY <2>1, <2>2
<1>3. UNCHANGED <<user, access, lost, now>>
  BY DEF Permit, tables, history
<1>4. job[r].step \in HasRoles
  BY DEF Permit, At, HasRoles
<1>5. DOMAIN job[r] = {"step", "user", "session", "at", "enabled", "admin", "to", "mapped", "roles"}
  BY <1>4 DEF AccountsInv, RequestOK, FieldsTyped
<1>6. /\ DOMAIN j = DOMAIN job[r] /\ j.step = "admitted" /\ j.session = job[r].session
      /\ j.user = job[r].user /\ j.at = job[r].at /\ j.roles = job[r].roles
      /\ j.admin = job[r].admin /\ j.to = {p} /\ j.mapped = Mapped(job[r].user, p)
  BY <1>1, <1>5
<1>7. "admitted" \in HasRoles
  BY DEF HasRoles
<1>8. ASSUME job'[r] = j, job[r].admin \/ ByRole(job[r].roles, p) \/ Mapped(job[r].user, p)
      PROVE  RequestOK(r)'
  <2>1. j.admin \/ j.mapped \/ \E ro \in j.roles : j.to \subseteq RoleGrants[ro]
    BY <1>6, <1>8 DEF ByRole
  <2> QED
    BY <1>3, <1>4, <1>6, <1>7, <1>8, <2>1, WalksOn
<1>9. CASE job'[r] = Idle
  BY <1>9, ElsewhereOK DEF Idle, AccountSteps
<1> QED
  BY <1>2, <1>8, <1>9

(* Requests that write to users and codes *)
LEMMA WritersOK ==
  ASSUME AccountsInv, NEW r \in Request, NEW u \in User,
         \/ Login(r, u) \/ AskCode(r, u) \/ EnableUser(r, u)
         \/ \E right : GuessCode(r, u, right)
         \/ \E admin \in BOOLEAN : CreateUser(r, u, admin)
  PROVE  RequestOK(r)'
<1>1. /\ AccountTypes /\ user[u] \in UserRow /\ Active \in SUBSET User /\ company.limit \in Seats
  BY DEF AccountsInv, AccountTypes, Active
<1>2. CASE Login(r, u)
  <2>1. job'[r] = [step |-> "login", user |-> u, password |-> user[u].password]
    BY <1>1, <1>2, Acting DEF Login
  <2>2. user[u].password \in Nat
    BY <1>1 DEF UserRow
  <2> QED
    BY <2>1, <2>2 DEF RequestOK, LoginTyped, ResetTyped, SessionTyped, FieldsTyped, ActivateOK, RolesOK, AdmittedOK, At,
                      HasRoles
<1>3. CASE AskCode(r, u)
  <2>1. job'[r] = [step |-> "supersede", user |-> u]
    BY <1>1, <1>3, Acting DEF AskCode
  <2> QED
    BY <2>1 DEF RequestOK, LoginTyped, ResetTyped, SessionTyped, FieldsTyped, ActivateOK, RolesOK, AdmittedOK, At,
                HasRoles
<1>4. ASSUME NEW admin \in BOOLEAN, NEW allowed, Activate(r, u, admin, allowed),
             allowed => user[u].status = "none" \/ admin = user[u].admin,
             allowed => SeatCounted(u, Active, company.limit)
      PROVE  RequestOK(r)'
  <2>1. PICK new \in BOOLEAN : new = (user[u].status = "none")
    OBVIOUS
  <2>2. job'[r] = [step |-> "activate", user |-> u, admin |-> admin, new |-> new, seen |-> <<Active, company.limit>>]
    BY <1>1, <1>4, <2>1, Acting DEF Activate
  <2>3. allowed /\ user' = user
    BY <1>4 DEF Activate, tables
  <2>4. ~new => Exists(u)' /\ admin = user'[u].admin
    BY <1>4, <2>1, <2>3 DEF Exists
  <2>5. ActivateOK(r)'
    <3>1. \E active \in SUBSET User, limit \in Seats :
            job'[r].seen = <<active, limit>> /\ SeatCounted(u, active, limit)
      BY <1>1, <1>4, <2>2, <2>3
    <3> QED
      BY <2>2, <2>4, <3>1 DEF ActivateOK, At
  <2>6. job'[r].step = "activate"
    BY <2>2
  <2> QED
    BY <2>5, <2>6 DEF RequestOK, LoginTyped, ResetTyped, SessionTyped, FieldsTyped, RolesOK, AdmittedOK, At, HasRoles
<1>5. SeatFree(u) => SeatCounted(u, Active, company.limit)
  BY DEF SeatFree, SeatCounted
<1>6. CASE EnableUser(r, u)
  <2>1. user[u].admin \in BOOLEAN
    BY <1>1 DEF UserRow
  <2>2. user[u].status = "ACTIVE" => SeatCounted(u, Active, company.limit)
    BY DEF Active, SeatCounted
  <2> QED
    BY <1>4, <1>5, <1>6, <2>1, <2>2 DEF EnableUser
<1>7. ASSUME NEW admin \in BOOLEAN, CreateUser(r, u, admin)
      PROVE  RequestOK(r)'
  BY <1>4, <1>5, <1>7 DEF CreateUser
<1>8. ASSUME NEW right, GuessCode(r, u, right)
      PROVE  RequestOK(r)'
  <2>1. job'[r].step = "guess" /\ job'[r].user = u
    BY <1>1, <1>8, Acting DEF GuessCode
  <2> QED
    BY <2>1 DEF RequestOK, LoginTyped, ResetTyped, SessionTyped, FieldsTyped, ActivateOK, RolesOK, AdmittedOK, At,
                HasRoles
<1> QED
  BY <1>2, <1>3, <1>6, <1>7, <1>8

LEMMA CodesOK ==
  ASSUME AccountsInv, NEW r \in Request, SupersedeCodes(r) \/ WriteGuess(r)
  PROVE  RequestOK(r)'
<1>1. AccountTypes /\ RequestOK(r)
  BY DEF AccountsInv
<1>2. CASE SupersedeCodes(r)
  <2>1. job'[r] = [job[r] EXCEPT !.step = "issue"] /\ job[r].step = "supersede"
    BY <1>1, <1>2, Acting DEF SupersedeCodes, At
  <2>2. DOMAIN job[r] = {"step", "user"} /\ job[r].user \in User
    BY <1>1, <2>1 DEF RequestOK, FieldsTyped, ResetTyped
  <2>3. DOMAIN job'[r] = {"step", "user"} /\ job'[r].step = "issue" /\ job'[r].user \in User
    BY <2>1, <2>2
  <2> QED
    BY <2>3 DEF RequestOK, LoginTyped, ResetTyped, SessionTyped, FieldsTyped, ActivateOK, RolesOK, AdmittedOK, At,
                HasRoles
<1>3. CASE WriteGuess(r)
  <2>1. job'[r] = [step |-> "reset", user |-> job[r].user] \/ job'[r] = Idle
    BY <1>1, <1>3, Acting DEF WriteGuess
  <2>2. job[r].user \in User
    BY <1>1, <1>3 DEF WriteGuess, RequestOK, ResetTyped, At
  <2> QED
    BY <2>1, <2>2 DEF RequestOK, LoginTyped, ResetTyped, SessionTyped, FieldsTyped, ActivateOK, RolesOK, AdmittedOK, At,
                HasRoles, Idle
<1> QED
  BY <1>2, <1>3

LEMMA ActsOK ==
  ASSUME AccountsInv, NEW r \in Request, Acts(r)
  PROVE  RequestOK(r)'
<1>1. CASE \E u \in User : Login(r, u) \/ AskCode(r, u) \/ EnableUser(r, u)
  BY <1>1, WritersOK
<1>2. CASE \E u \in User, right \in BOOLEAN : GuessCode(r, u, right)
  BY <1>2, WritersOK
<1>3. CASE \E u \in User, admin \in BOOLEAN : CreateUser(r, u, admin)
  BY <1>3, WritersOK
<1>4. CASE \E s \in Session : Arrive(r, s)
  BY <1>4, ArriveOK
<1>5. CASE FillCache(r) \/ FindSession(r)
  BY <1>5, FillCacheOK, FindSessionOK
<1>6. CASE \E extend \in BOOLEAN : Refresh(r, extend)
  BY <1>6, RefreshOK
<1>7. CASE \E p \in Permission : Permit(r, p)
  BY <1>7, PermitOK
<1>8. CASE SupersedeCodes(r) \/ WriteGuess(r)
  BY <1>8, CodesOK
<1> QED
  BY <1>1, <1>2, <1>3, <1>4, <1>5, <1>6, <1>7, <1>8 DEF Acts

LEMMA RequestsStep ==
  ASSUME AccountsInv, Step
  PROVE  \A r \in Request : RequestOK(r)'
<1>1. AccountTypes
  BY DEF AccountsInv
<1>2. CASE Restart
  <2>1. \A r \in Request : job'[r].step \notin AccountSteps
    BY <1>2 DEF Restart, Idle, AccountSteps
  <2> QED
    BY <2>1, ElsewhereOK
<1>3. CASE ~Restart
  <2>1. \A r \in Request : job'[r] = job[r] => RequestOK(r)'
    BY <1>3, RequestKept
  <2>2. \A r \in Request : job'[r].step \notin AccountSteps => RequestOK(r)'
    BY ElsewhereOK
  <2>3. \A r \in Request : Acts(r) => RequestOK(r)'
    BY ActsOK
  <2> QED
    BY <1>1, <2>1, <2>2, <2>3, JobSteps DEF JobStep
<1> QED
  BY <1>2, <1>3

LEMMA RestartRoles ==
  ASSUME AccountsInv, Restart
  PROVE  access' \in AccessRows /\ lost' = lost
<1>1. access \in AccessRows
  BY DEF AccountsInv, AccountTypes
<1>2. access' = [access EXCEPT !.named = Role, !.active = access.active \cup (Role \ access.named)]
  BY DEF Restart
<1>3. access.active \cup (Role \ access.named) \in SUBSET Role /\ Role \in SUBSET Role
  BY <1>1 DEF AccessRows
<1>4. [access EXCEPT !.named = Role, !.active = access.active \cup (Role \ access.named)] \in AccessRows
  BY <1>1, <1>3 DEF AccessRows
<1> QED
  BY <1>2, <1>4 DEF Restart, history

LEMMA RolesStep ==
  ASSUME AccountsInv, Step
  PROVE  access' \in AccessRows /\ lost' \in [User -> [Role -> Int]] /\ LostPast'
<1>1. lost \in [User -> [Role -> Int]] /\ LostPast
  BY DEF AccountsInv, AccountTypes
<1>2. CASE Restart
  <2>1. access' \in AccessRows /\ lost' = lost /\ now' = now
    BY <1>2, RestartRoles DEF Restart
  <2> QED
    BY <1>1, <2>1 DEF LostPast
<1>3. CASE ~Restart
  BY <1>3, RoleStep DEF RolesRecorded, LostPast
<1> QED
  BY <1>2, <1>3

LEMMA AccountsStep ==
  ASSUME AccountsInv, Step
  PROVE  AccountsInv'
<1>1. AccountTypes /\ ops \in Nat
  BY DEF AccountsInv, AccountTypes
<1>2. AccountTypes'
  <2>1. user' \in [User -> UserRow]
    BY UserStep
  <2>2. company' \in [active : BOOLEAN, limit : Seats, modules : SUBSET Permission]
    BY SeatsStayExplained DEF Plans
  <2>3. session' \in [Session -> SessionRow]
    BY SessionStep
  <2>4. code' \in [Code -> CodeRow]
    BY CodeStep
  <2>5. access' \in AccessRows /\ lost' \in [User -> [Role -> Int]]
    BY RolesStep
  <2>6. cache' \in [User -> [roles : SUBSET Role, until : Int]]
    BY CacheStep
  <2>7. job' = [r \in Request |-> job'[r]]
    BY <1>1, JobSteps
  <2>8. now' \in Nat
    BY <1>1, ClockStep
  <2>9. ops' \in Nat
    BY <1>1, OpsCount
  <2> QED
    BY <2>1, <2>2, <2>3, <2>4, <2>5, <2>6, <2>7, <2>8, <2>9 DEF AccountTypes
<1>3. OwnerOK'
  BY UserStep, AccountSets DEF UsersKept, AccountsInv, OwnerOK
<1>4. LostPast'
  BY RolesStep
<1>5. CacheOK'
  BY CacheStep
<1>6. \A r \in Request : RequestOK(r)'
  BY RequestsStep
<1>7. GuessesInFlight'
  BY GuessesStayBounded
<1>8. OldPasswordsExplained'
  BY PasswordsStayExplained
<1>9. SeatsExplained'
  BY SeatsStayExplained
<1> QED
  BY <1>2, <1>3, <1>4, <1>5, <1>6, <1>7, <1>8, <1>9 DEF AccountsInv

LEMMA AccountsStart ==
  ASSUME AccountsInit
  PROVE  AccountsInv
<1>1. now = 0 /\ ops = 0 /\ job = [r \in Request |-> Idle] /\ cache = [u \in User |-> NoCache]
  BY DEF AccountsInit
<1>2. Never \in Int /\ Never <= 0
  BY Bounds DEF Never
<1>3. AccountTypes
  <2>1. user \in [User -> UserRow] /\ company \in [active : BOOLEAN, limit : Seats, modules : SUBSET Permission]
    BY DEF AccountsInit, UserRow
  <2>2. session \in [Session -> SessionRow] /\ access \in AccessRows
    BY DEF AccountsInit, SessionRow, AccessRows
  <2>3. code \in [Code -> CodeRow]
    <3>1. NoCode \in CodeRow
      BY AccountSets DEF NoCode, CodeRow
    <3>2. \A u \in User : Issued(u) \in CodeRow
      BY <1>1, Bounds DEF Issued, CodeRow
    <3> QED
      BY <3>1, <3>2 DEF AccountsInit
  <2>4. NoCache \in [roles : SUBSET Role, until : Int]
    BY DEF NoCache
  <2>5. lost \in [User -> [Role -> Int]]
    BY <1>2 DEF AccountsInit
  <2>6. job = [r \in Request |-> job[r]]
    BY <1>1
  <2> QED
    BY <1>1, <2>1, <2>2, <2>3, <2>4, <2>5, <2>6 DEF AccountTypes
<1>4. OwnerOK
  BY DEF AccountsInit, OwnerOK, Exists
<1>5. LostPast
  BY <1>1, <1>2 DEF AccountsInit, LostPast
<1>6. CacheOK
  BY <1>1, Bounds DEF CacheOK, NoCache
<1>7. \A r \in Request : RequestOK(r)
  <2>1. \A r \in Request : job[r].step = "idle"
    BY <1>1 DEF Idle
  <2> QED
    BY <2>1 DEF RequestOK, LoginTyped, ResetTyped, SessionTyped, FieldsTyped, ActivateOK, RolesOK, AdmittedOK, At,
                HasRoles
<1>8. GuessesInFlight
  <2> SUFFICES ASSUME NEW c \in Code
               PROVE  code[c].attempts + Cardinality(Guessing(c)) <= MaxAttempts + Cardinality(Request) - 1
    BY DEF GuessesInFlight
  <2>1. Guessing(c) = {}
    BY <1>1 DEF Guessing, At, Idle
  <2>2. Cardinality(Guessing(c)) = 0
    BY <2>1, FS_EmptySet
  <2>3. code[c].attempts = 0
    BY DEF AccountsInit, NoCode, Issued
  <2>4. Cardinality(Request) \in Nat /\ Cardinality(Request) # 0
    BY AccountSets, FS_CardinalityType, FS_EmptySet
  <2> QED
    BY <2>2, <2>3, <2>4, Bounds
<1>9. OldPasswordsExplained
  BY DEF AccountsInit, OldPasswordsExplained
<1>10. SeatsExplained
  BY DEF AccountsInit, SeatsExplained
<1> QED
  BY <1>3, <1>4, <1>5, <1>6, <1>7, <1>8, <1>9, <1>10 DEF AccountsInv

LEMMA RolesGiveRight == ASSUME AccountsInv PROVE AdmittedByRight
<1> SUFFICES ASSUME NEW r \in Request, At(r, "admitted")
             PROVE  \/ job[r].admin \/ job[r].mapped
                    \/ \E ro \in job[r].roles :
                         /\ job[r].to \subseteq RoleGrants[ro]
                         /\ ro \in RolesNow(job[r].user) \/ job[r].at <= lost[job[r].user][ro] + CacheTtl
  BY DEF AdmittedByRight
<1>1. RolesOK(r) /\ AdmittedOK(r) /\ job[r].step = "admitted"
  BY DEF AccountsInv, RequestOK, At
<1> QED
  BY <1>1 DEF RolesOK, AdmittedOK, Justified, HasRoles

LEMMA AccountsHold == Spec => []AccountsInv
<1>1. Init => AccountsInv
  BY AccountsStart DEF Init
<1>2. AccountsInv /\ [WorkspaceNext]_workspaceVars => AccountsInv'
  BY StepKinds, AccountsStep DEF Step, AccountsInv, AccountTypes
<1> QED
  BY <1>1, <1>2, PTL DEF Spec

(***************************************************************************)
(* The conversation, step by step                                          *)
(***************************************************************************)

(* What is told to a client that stays connected: whatever there is now    *)
(* and it was covered for, it is covered for again.                        *)
Carries(u) == \A m \in Kept' : Covered(u, m)' \/ (m \in Kept /\ ~Covered(u, m))

Audience(u) ==
  \/ socket'[u] = socket[u] /\ (socket[u].on => Carries(u))
  \/ ~socket[u].on /\ socket'[u].since = ops /\ ops' = ops
  \/ ~socket'[u].on /\ ops' = ops + 1

(* What is sent stays sent or is deleted, for good; while there are        *)
(* messages, the conversation is the same.                                 *)
History ==
  /\ ops' \in {ops, ops + 1}
  /\ chat'.number \in Nat /\ chat.number <= chat'.number
  /\ \A m \in Message : /\ chat.state[m] # "none" => chat'.state[m] # "none"
                        /\ chat.state[m] = "deleted" => chat'.state[m] = "deleted"
  /\ Kept' = {} \/ (chat'.number = chat.number /\ chat.open /\ chat'.open)

ChatSteps == {"announce", "retract", "list"}

LEMMA OtherSteps ==
  ASSUME NEW r, job'[r].step \notin ChatSteps, job'[r].step = "idle" \/ ops' > 0
  PROVE  ChatRequestOK(r)'
  BY DEF ChatRequestOK, AnnounceOK, RetractOK, ListOK, BegunOK, At, ChatSteps

LEMMA Begun ==
  ASSUME AccountsInv, ChatInv, NEW r \in Request, ~At(r, "idle") \/ ops' = ops + 1, ops' \in {ops, ops + 1}
  PROVE  ops' > 0
  BY DEF AccountsInv, AccountTypes, ChatInv, ChatRequestOK, BegunOK

LEMMA Leaves ==
  ASSUME AccountsInv, NEW r \in Request, NEW j, Goes(r, j)
  PROVE  /\ \A m : m \in Announcing => m \in Announcing' \/ (At(r, "announce") /\ job[r].message = m)
         /\ \A m : m \in Retracting => m \in Retracting' \/ (At(r, "retract") /\ job[r].message = m)
         /\ j.step = "announce" => j.message \in Announcing'
         /\ j.step = "retract" => j.message \in Retracting'
         /\ job'[r] = j
         /\ \A x \in Request : x = r \/ job'[x] = job[x]
<1>1. job'[r] = j /\ \A x \in Request \ {r} : job'[x] = job[x]
  BY GoesTo DEF AccountsInv, AccountTypes
<1> QED
  BY <1>1 DEF Announcing, Retracting, At

LEMMA KeptBefore ==
  ASSUME ChatInv, History, NEW m \in Kept'
  PROVE  m \in Message /\ (m \in Kept \/ chat.state[m] = "none")
<1>1. m \in Message /\ chat'.state[m] = "sent"
  BY DEF Kept
<1>2. chat.state[m] \in {"none", "sent", "deleted"}
  BY <1>1 DEF ChatInv, ChatTypes
<1> QED
  BY <1>1, <1>2 DEF Kept, History

LEMMA ChatRequestKept ==
  ASSUME AccountsInv, ChatInv, History, \A u \in Pair : Audience(u), NEW r \in Request, job'[r] = job[r]
  PROVE  ChatRequestOK(r)'
<1>1. ChatRequestOK(r) /\ ops \in Nat /\ ops' \in Nat /\ ops <= ops'
  BY DEF ChatInv, History, AccountsInv, AccountTypes
<1>2. BegunOK(r)'
  BY <1>1 DEF ChatRequestOK, BegunOK, At
<1>3. RetractOK(r)'
  BY <1>1 DEF ChatRequestOK, RetractOK, At, History
<1>4. AnnounceOK(r)'
  <2> SUFFICES ASSUME job[r].step = "announce"
               PROVE  /\ job[r].message \in Message /\ chat'.state[job[r].message] # "none"
                      /\ job[r].message \in Kept' => job[r].conversation = chat'.number
    BY DEF AnnounceOK, At
  <2>1. /\ job[r].message \in Message /\ chat.state[job[r].message] # "none"
        /\ job[r].message \in Kept => job[r].conversation = chat.number
    BY <1>1 DEF ChatRequestOK, AnnounceOK, At
  <2>2. job[r].message \in Kept' => job[r].message \in Kept /\ chat'.number = chat.number
    BY <2>1, KeptBefore DEF History
  <2> QED
    BY <2>1, <2>2 DEF History
<1>5. ListOK(r)'
  <2>0. PICK j : j = job[r] /\ j = job'[r]
    OBVIOUS
  <2> SUFFICES ASSUME j.step = "list"
               PROVE  /\ j.user \in Pair /\ j.conversation \in Nat /\ j.conversation <= chat'.number
                      /\ j.since \in Nat /\ j.since <= ops' /\ (~socket'[j.user].on => j.since < ops')
                      /\ Current(j)' => \A m \in Kept' : m \in j.items \/ Covered(j.user, m)'
    BY <2>0 DEF ListOK, At
  <2>1. /\ j.user \in Pair /\ j.conversation \in Nat /\ j.conversation <= chat.number
        /\ j.since \in Nat /\ j.since <= ops /\ (~socket[j.user].on => j.since < ops)
        /\ Current(j) => \A m \in Kept : m \in j.items \/ Covered(j.user, m)
    BY <1>1, <2>0 DEF ChatRequestOK, ListOK, At
  <2>2. j.conversation <= chat'.number /\ j.since <= ops'
    BY <1>1, <2>1 DEF History, ChatInv, ChatTypes
  <2>3. CASE socket'[j.user] = socket[j.user] /\ (socket[j.user].on => Carries(j.user))
    <3>1. ~socket'[j.user].on => j.since < ops'
      BY <1>1, <2>1, <2>3
    <3>2. ASSUME Current(j)', NEW m \in Kept'
          PROVE  m \in j.items \/ Covered(j.user, m)'
      <4>1. chat'.number = chat.number /\ chat.open
        BY <3>2 DEF History
      <4>2. Current(j)
        BY <2>3, <3>2, <4>1 DEF Current
      <4>3. Covered(j.user, m)' \/ (m \in Kept /\ ~Covered(j.user, m))
        BY <2>3, <3>2, <4>2 DEF Carries, Current
      <4> QED
        BY <2>1, <4>2, <4>3
    <3> QED
      BY <2>1, <2>2, <3>1, <3>2
  <2>4. CASE ~socket[j.user].on /\ socket'[j.user].since = ops /\ ops' = ops
    <3>1. j.since < ops
      BY <2>1, <2>4
    <3>2. ~Current(j)'
      BY <1>1, <2>1, <2>4, <3>1 DEF Current
    <3> QED
      BY <1>1, <2>1, <2>2, <2>4, <3>1, <3>2
  <2>5. CASE ~socket'[j.user].on /\ ops' = ops + 1
    <3>1. ~Current(j)'
      BY <2>5 DEF Current
    <3> QED
      BY <1>1, <2>1, <2>2, <2>5, <3>1
  <2> QED
    BY <2>1, <2>3, <2>4, <2>5 DEF Audience
<1> QED
  BY <1>2, <1>3, <1>4, <1>5 DEF ChatRequestOK

(* A client that had the conversation open and has it open still           *)
LEMMA StillOpen ==
  ASSUME ChatInv, SocketsOK', NEW u \in Pair, Audience(u), screen[u].open, screen'[u].open
  PROVE  \A m \in Kept' : Covered(u, m)'
<1>1. u \in User
  BY ChatSets
<1>2. socket[u].on /\ socket'[u].on
  BY <1>1 DEF ChatInv, SocketsOK, Blank
<1>3. Carries(u)
  BY <1>2 DEF Audience
<1> QED
  BY <1>3 DEF Carries, ChatInv, OpenShows

(* The parts of a step come together. *)
LEMMA ChatGoesOn ==
  ASSUME AccountsInv, ChatInv, ChatTypes', SocketsOK', History,
         \A u \in Pair : Audience(u),
         \A r \in Request : job'[r] = job[r] \/ ChatRequestOK(r)',
         ShowsSent',
         \A u \in Pair : screen'[u].open => screen[u].open \/ \A m \in Kept' : Covered(u, m)'
  PROVE  ChatInv'
<1>1. \A r \in Request : ChatRequestOK(r)'
  BY ChatRequestKept
<1>2. ConversationOK'
  BY DEF History, ConversationOK
<1>3. OpenShows'
  BY StillOpen DEF OpenShows
<1> QED
  BY <1>1, <1>2, <1>3 DEF ChatInv

(* A step that no client hears of *)
LEMMA Silent ==
  ASSUME AccountsInv, ChatInv, ChatTypes', History, UNCHANGED <<socket, screen, stale>>,
         \A r \in Request : job'[r] = job[r] \/ ChatRequestOK(r)',
         \A m \in Kept' : m \in Announcing' \/ (m \in Kept /\ m \notin Announcing),
         \A m \in Message : m \in Kept \/ m \in Retracting => m \in Kept' \/ m \in Retracting'
  PROVE  ChatInv'
<1>1. \A u \in Pair : Carries(u)
  BY DEF Carries, Covered
<1>2. \A u \in Pair : Audience(u)
  BY <1>1 DEF Audience
<1>3. ops \in Nat /\ ops' \in Nat /\ ops <= ops'
  BY DEF History, AccountsInv, AccountTypes
<1>4. SocketsOK'
  BY <1>3 DEF ChatInv, SocketsOK
<1>5. ShowsSent'
  BY DEF ChatInv, ShowsSent
<1> QED
  BY <1>2, <1>4, <1>5, ChatGoesOn

(* Steps that leave the conversation and the requests that tell of it      *)
(* alone                                                                   *)
OtherJob(r, j) == /\ Goes(r, j)
                  /\ job[r].step \notin ChatSteps /\ j.step \notin ChatSteps
                  /\ job[r].step # "idle" \/ ops' = ops + 1
Aside ==
  /\ UNCHANGED <<socket, screen, stale>> /\ ops' \in {ops, ops + 1}
  /\ chat' = chat \/ \E unread : chat' = [chat EXCEPT !.unread = unread]
  /\ job' = job \/ \E r \in Request : \E j : OtherJob(r, j)

LEMMA AsideKeeps ==
  ASSUME AccountsInv, ChatInv, Aside
  PROVE  ChatInv'
<1>1. ChatTypes
  BY DEF ChatInv
<1>2. ChatTypes' /\ chat'.open = chat.open /\ chat'.number = chat.number /\ chat'.state = chat.state
  <2>1. CASE chat' = chat
    BY <1>1, <2>1 DEF Aside, ChatTypes
  <2>2. ASSUME NEW unread, chat' = [chat EXCEPT !.unread = unread]
        PROVE  /\ DOMAIN chat' = DOMAIN chat
               /\ chat'.open = chat.open /\ chat'.number = chat.number /\ chat'.state = chat.state
    BY <1>1, <2>2 DEF ChatTypes
  <2> QED
    BY <1>1, <2>1, <2>2 DEF Aside, ChatTypes
<1>3. Kept' = Kept
  BY <1>2 DEF Kept
<1>4. History
  BY <1>1, <1>2, <1>3 DEF Aside, History, ChatTypes, ChatInv, ConversationOK
<1>5. /\ \A r \in Request : job'[r] = job[r] \/ ChatRequestOK(r)'
      /\ Announcing' = Announcing /\ Retracting' = Retracting
  <2>1. CASE job' = job
    BY <2>1 DEF Announcing, Retracting, At
  <2>2. ASSUME NEW r \in Request, NEW j, OtherJob(r, j)
        PROVE  /\ \A x \in Request : job'[x] = job[x] \/ ChatRequestOK(x)'
               /\ Announcing' = Announcing /\ Retracting' = Retracting
    <3>1. job'[r] = j /\ \A x \in Request : x = r \/ job'[x] = job[x]
      BY <2>2, Leaves DEF OtherJob
    <3>2. ops' > 0
      BY <2>2, Begun DEF OtherJob, Aside, At
    <3>3. ChatRequestOK(r)'
      BY <2>2, <3>1, <3>2, OtherSteps DEF OtherJob
    <3>4. Announcing' = Announcing /\ Retracting' = Retracting
      BY <2>2, <3>1 DEF OtherJob, Announcing, Retracting, At, ChatSteps
    <3> QED
      BY <3>1, <3>3, <3>4
  <2> QED
    BY <2>1, <2>2 DEF Aside
<1> QED
  BY <1>2, <1>3, <1>4, <1>5, Silent DEF Aside

LEMMA AccountsAside ==
  ASSUME AccountsInv, AccountsNext, UNCHANGED chatVars
  PROVE  Aside
<1>1. UNCHANGED <<socket, screen, stale, chat>>
  BY DEF chatVars
<1>2. ops' \in {ops, ops + 1}
  BY OpsCount DEF AccountsInv, AccountTypes, Step
<1>3. Administration \/ Tick => job' = job
  BY JobsKept
<1>4. ASSUME NEW r \in Request, Authentication(r)
      PROVE  \E j : OtherJob(r, j)
  <2>f. job[r].step \in HasRoles => "step" \in DOMAIN job[r]
    BY DEF AccountsInv, RequestOK, FieldsTyped
  <2>1. \A s : OpenSession(r, s) => OtherJob(r, Idle)
    BY DEF OpenSession, OtherJob, At, Idle, ChatSteps
  <2>2. FillCache(r) => OtherJob(r, [job[r] EXCEPT !.step = "session"])
    BY <2>f DEF FillCache, OtherJob, At, ChatSteps, HasRoles
  <2>3. FindSession(r) => OtherJob(r, [job[r] EXCEPT !.step = "found"]) \/ OtherJob(r, Idle)
    BY <2>f DEF FindSession, OtherJob, At, Idle, ChatSteps, HasRoles
  <2>4. \A extend : Refresh(r, extend) => OtherJob(r, [job[r] EXCEPT !.step = "authenticated"])
    BY <2>f DEF Refresh, OtherJob, At, ChatSteps, HasRoles
  <2>5. ASSUME NEW p, Permit(r, p) PROVE \E j : OtherJob(r, j)
    <3>1. CASE Goes(r, Idle)
      BY <2>5, <3>1 DEF Permit, OtherJob, At, Idle, ChatSteps
    <3>2. CASE Goes(r, [job[r] EXCEPT !.step = "admitted", !.to = {p}, !.mapped = Mapped(job[r].user, p)])
      <4>1. [job[r] EXCEPT !.step = "admitted", !.to = {p}, !.mapped = Mapped(job[r].user, p)].step = "admitted"
        BY <2>f, <2>5 DEF Permit, At, HasRoles
      <4> QED
        BY <2>5, <3>2, <4>1 DEF Permit, OtherJob, At, ChatSteps
    <3> QED
      BY <2>5, <3>1, <3>2 DEF Permit
  <2> QED
    BY <1>4, <2>1, <2>2, <2>3, <2>4, <2>5 DEF Authentication
<1>5. ASSUME NEW r \in Request, Resetting(r) \/ WriteUser(r)
      PROVE  \E j : OtherJob(r, j)
  <2>1. IssueCode(r) \/ ResetOwnPassword(r) \/ WriteUser(r) => OtherJob(r, Idle)
    BY DEF IssueCode, ResetOwnPassword, WriteUser, OtherJob, At, Idle, ChatSteps
  <2>2. ASSUME SupersedeCodes(r) PROVE \E j : OtherJob(r, j)
    <3>1. "step" \in DOMAIN job[r]
      BY <2>2 DEF SupersedeCodes, At, AccountsInv, RequestOK, FieldsTyped
    <3>2. [job[r] EXCEPT !.step = "issue"].step = "issue"
      BY <3>1
    <3> QED
      BY <2>2, <3>2 DEF SupersedeCodes, OtherJob, At, ChatSteps
  <2>3. WriteGuess(r) => OtherJob(r, Idle) \/ OtherJob(r, [step |-> "reset", user |-> job[r].user])
    BY DEF WriteGuess, OtherJob, At, Idle, ChatSteps
  <2> QED
    BY <1>5, <2>1, <2>2, <2>3 DEF Resetting
<1>6. ASSUME NEW r \in Request, At(r, "idle"), Begins(r)
      PROVE  \E j : OtherJob(r, j)
  <2>0. \A j : Goes(r, j) /\ j.step \notin ChatSteps /\ Begin => OtherJob(r, j)
    BY <1>6 DEF OtherJob, At, Begin, ChatSteps
  <2> HIDE DEF Goes
  <2>1. \A u : Login(r, u) => \E j : Goes(r, j) /\ j.step \notin ChatSteps /\ Begin
    BY DEF Login, ChatSteps
  <2>2. \A u : AskCode(r, u) => \E j : Goes(r, j) /\ j.step \notin ChatSteps /\ Begin
    BY DEF AskCode, ChatSteps
  <2>3. \A u, right : GuessCode(r, u, right) => \E j : Goes(r, j) /\ j.step \notin ChatSteps /\ Begin
    BY DEF GuessCode, ChatSteps
  <2>4. \A u, admin, allowed : Activate(r, u, admin, allowed) => \E j : Goes(r, j) /\ j.step \notin ChatSteps /\ Begin
    BY DEF Activate, ChatSteps
  <2>5. \A s : Arrive(r, s) => \E j : Goes(r, j) /\ j.step \notin ChatSteps /\ Begin
    BY DEF Arrive, ChatSteps
  <2> QED
    BY <1>6, <2>0, <2>1, <2>2, <2>3, <2>4, <2>5 DEF Begins, CreateUser, EnableUser
<1> QED
  BY <1>1, <1>2, <1>3, <1>4, <1>5, <1>6 DEF Aside, AccountsNext

(* The handlers that only mark what was read, and those of the broadcast   *)
AsideHandler(r) ==
  \/ MarkConversationRead(r) \/ \E u \in User : SocketRead(r, u)
  \/ \E to \in SUBSET User : ResolveRecipients(r, to) \/ \E u \in User : SocketResolve(r, u, to)
  \/ CreateBroadcast(r) \/ MarkSeen(r) \/ DeleteBroadcast(r) \/ \E u \in User : SocketSeen(r, u)

LEMMA HandlersAside ==
  ASSUME AccountsInv, NEW r \in Request, AsideHandler(r)
  PROVE  Aside
<1>1. \/ Handles(r, Chatting) \/ Handles(r, Directing) \/ GoesOn(r, "broadcast")
      \/ \E u : OnSocket(r, u)
  BY DEF AsideHandler, MarkConversationRead, SocketRead, ResolveRecipients, SocketResolve, CreateBroadcast, MarkSeen,
         DeleteBroadcast, SocketSeen
<1>2. ops' \in {ops, ops + 1} /\ job[r].step \notin ChatSteps /\ (job[r].step # "idle" \/ ops' = ops + 1)
  BY <1>1 DEF Handles, GoesOn, OnSocket, Begin, At, ChatSteps
<1>3. CASE \E u : Reading(r, u)
  <2>1. UNCHANGED <<socket, screen, stale>> /\ \E unread : chat' = [chat EXCEPT !.unread = unread]
    BY <1>3 DEF Reading
  <2>2. Goes(r, Idle)
    BY <1>3 DEF Reading
  <2> QED
    BY <1>2, <2>1, <2>2 DEF Aside, OtherJob, Idle, ChatSteps
<1>4. CASE \E u, to : Resolving(r, u, to)
  <2>1. UNCHANGED <<socket, screen, stale, chat>>
    BY <1>4 DEF Resolving, chatVars
  <2>2. \E j : Goes(r, j) /\ j.step \notin ChatSteps
    BY <1>4 DEF Resolving, ChatSteps
  <2> QED
    BY <1>2, <2>1, <2>2 DEF Aside, OtherJob
<1>5. CASE CreateBroadcast(r) \/ DeleteBroadcast(r) \/ \E u : Seeing(r, u)
  <2>1. UNCHANGED <<socket, screen, stale, chat>> /\ Goes(r, Idle)
    BY <1>5 DEF CreateBroadcast, DeleteBroadcast, Seeing
  <2> QED
    BY <1>2, <2>1 DEF Aside, OtherJob, Idle, ChatSteps
<1> QED
  BY <1>3, <1>4, <1>5 DEF AsideHandler, MarkConversationRead, SocketRead, ResolveRecipients, SocketResolve, MarkSeen,
                          SocketSeen

LEMMA RoomAside ==
  ASSUME NEW u, NEW there, InRoom(u, there)
  PROVE  Aside
  BY DEF InRoom, Begin, Aside

(* Handlers that change the conversation, or read it to answer, and have   *)
(* told nobody yet                                                         *)
LEMMA OpenDirectKeeps ==
  ASSUME AccountsInv, ChatInv, NEW r \in Request, NEW u, OpenDirect(r, u)
  PROVE  ChatInv'
<1>1. /\ UNCHANGED <<socket, screen, stale>> /\ ops' = ops /\ ops \in Nat /\ Goes(r, Idle) /\ ~At(r, "announce") /\ ~At(r, "retract")
      /\ ~chat.open /\ chat' = [chat EXCEPT !.open = TRUE, !.unread = [v \in User |-> {}]]
  BY DEF OpenDirect, Handles, At, AccountsInv, AccountTypes
<1>2. /\ DOMAIN chat' = DOMAIN chat /\ chat'.number = chat.number /\ chat'.state = chat.state
  BY <1>1 DEF ChatInv, ChatTypes
<1>3. Kept = {} /\ Kept' = {}
  BY <1>1, <1>2 DEF ChatInv, ConversationOK, Kept
<1>4. ChatTypes'
  BY <1>1, <1>2 DEF ChatInv, ChatTypes
<1>5. History
  BY <1>1, <1>2, <1>3 DEF History, ChatInv, ChatTypes
<1>6. ChatRequestOK(r)'
  BY <1>1, Leaves, OtherSteps DEF Idle, ChatSteps
<1>7. Announcing \subseteq Announcing' /\ Retracting \subseteq Retracting' /\ \A x \in Request : x = r \/ job'[x] = job[x]
  BY <1>1, Leaves
<1> QED
  BY <1>1, <1>3, <1>4, <1>5, <1>6, <1>7, Silent

LEMMA GetMessagesKeeps ==
  ASSUME AccountsInv, ChatInv, NEW r \in Request, GetMessages(r)
  PROVE  ChatInv'
<1> DEFINE u == job[r].user
<1>1. UNCHANGED <<chat, socket, screen, stale>> /\ ops' = ops /\ Member(u) /\ At(r, "admitted")
  BY DEF GetMessages, Handles, chatVars
<1>2. PICK j : j = [step |-> "list", user |-> u, conversation |-> chat.number, items |-> Kept, since |-> socket[u].since]
  OBVIOUS
<1>3. Goes(r, j)
  BY <1>2 DEF GetMessages
<1>4. /\ job'[r] = j /\ \A x \in Request : x = r \/ job'[x] = job[x]
      /\ Announcing \subseteq Announcing' /\ Retracting \subseteq Retracting'
  BY <1>1, <1>3, Leaves DEF At
<1>5. ChatTypes' /\ Kept' = Kept
  BY <1>1 DEF ChatInv, ChatTypes, Kept
<1>6. ops \in Nat /\ ops > 0 /\ u \in User /\ u \in Pair
  BY <1>1, Begun, ChatSets DEF Member, At, AccountsInv, AccountTypes
<1>7. History
  BY <1>1, <1>5, <1>6 DEF History, ChatInv, ChatTypes, Member
<1>8. socket[u].since \in Nat /\ socket[u].since <= ops /\ (~socket[u].on => socket[u].since < ops)
  BY <1>6 DEF ChatInv, SocketsOK, NoSocket
<1>9. /\ j.step = "list" /\ j.user = u /\ j.conversation = chat.number /\ j.items = Kept /\ j.since = socket[u].since
  BY <1>2
<1> HIDE DEF u
<1>10. ListOK(r)'
  <2>1. /\ j.user \in Pair /\ j.conversation \in Nat /\ j.conversation <= chat'.number
        /\ j.since \in Nat /\ j.since <= ops' /\ (~socket'[j.user].on => j.since < ops')
        /\ \A m \in Kept' : m \in j.items
    BY <1>1, <1>5, <1>6, <1>8, <1>9 DEF ChatInv, ChatTypes
  <2> QED
    BY <1>4, <2>1 DEF ListOK
<1>11. ChatRequestOK(r)'
  BY <1>1, <1>4, <1>6, <1>9, <1>10 DEF ChatRequestOK, AnnounceOK, RetractOK, BegunOK, At
<1> QED
  BY <1>1, <1>4, <1>5, <1>7, <1>11, Silent

LEMMA PostingKeeps ==
  ASSUME AccountsInv, ChatInv, NEW r \in Request, NEW u, Posting(r, u), ops' \in {ops, ops + 1}, ops' > 0,
         At(r, "admitted") \/ At(r, "idle")
  PROVE  ChatInv'
<1> DEFINE new == {x \in Message : chat.state[x] = "none"}
           m == Min(new)
<1>1. m \in Message /\ chat.state[m] = "none"
  <2>1. new \in SUBSET Nat /\ new # {}
    BY ChatSets DEF Posting
  <2>2. m \in new
    BY <2>1, MinOfNaturals
  <2> QED
    BY <2>2
<1>2. PICK unread : chat' = [chat EXCEPT !.state[m] = "sent", !.sender[m] = u, !.unread = unread]
  BY DEF Posting
<1>3. UNCHANGED <<socket, screen, stale>> /\ chat.open
  BY DEF Posting, Member
<1>4. PICK j : j = [step |-> "announce", user |-> u, message |-> m, conversation |-> chat.number]
  OBVIOUS
<1>5. Goes(r, j)
  BY <1>4 DEF Posting
<1> HIDE DEF m, new
<1>6. /\ j.step = "announce" /\ j.message = m /\ j.conversation = chat.number
  BY <1>4
<1>7. /\ job'[r] = j /\ \A x \in Request : x = r \/ job'[x] = job[x]
      /\ Announcing \cup {m} \subseteq Announcing' /\ Retracting \subseteq Retracting'
  BY <1>5, <1>6, Leaves DEF At
<1>8. /\ DOMAIN chat' = DOMAIN chat /\ chat'.open = chat.open /\ chat'.number = chat.number
      /\ chat'.state = [chat.state EXCEPT ![m] = "sent"]
  BY <1>2 DEF ChatInv, ChatTypes
<1>9. ChatTypes'
  BY <1>1, <1>3, <1>8 DEF ChatInv, ChatTypes
<1>10. Kept' = Kept \cup {m}
  BY <1>1, <1>8 DEF Kept, ChatInv, ChatTypes
<1>11. History
  BY <1>1, <1>3, <1>8 DEF History, ChatInv, ChatTypes
<1>12. chat'.state[m] = "sent"
  BY <1>1, <1>8 DEF ChatInv, ChatTypes
<1>13. ChatRequestOK(r)'
  BY <1>1, <1>6, <1>7, <1>8, <1>12 DEF ChatRequestOK, AnnounceOK, RetractOK, ListOK, BegunOK, At
<1> QED
  BY <1>3, <1>7, <1>9, <1>10, <1>11, <1>13, Silent DEF Kept

LEMMA DeleteMessageKeeps ==
  ASSUME AccountsInv, ChatInv, NEW r \in Request, NEW m \in Message, DeleteMessage(r, m)
  PROVE  ChatInv'
<1>1. PICK unread : chat' = [chat EXCEPT !.state[m] = "deleted", !.unread = unread]
  BY DEF DeleteMessage
<1>2. /\ UNCHANGED <<socket, screen, stale>> /\ ops' = ops /\ At(r, "admitted") /\ m \in Kept /\ chat.open
  BY DEF DeleteMessage, Handles, Member
<1>3. PICK j : j = [step |-> "retract", user |-> job[r].user, message |-> m, conversation |-> chat.number]
  OBVIOUS
<1>4. Goes(r, j)
  BY <1>3 DEF DeleteMessage
<1>5. j.step = "retract" /\ j.message = m
  BY <1>3
<1>6. /\ job'[r] = j /\ \A x \in Request : x = r \/ job'[x] = job[x]
      /\ Announcing \subseteq Announcing' /\ Retracting \cup {m} \subseteq Retracting'
  BY <1>2, <1>4, <1>5, Leaves DEF At
<1>7. /\ DOMAIN chat' = DOMAIN chat /\ chat'.open = chat.open /\ chat'.number = chat.number
      /\ chat'.state = [chat.state EXCEPT ![m] = "deleted"]
  BY <1>1 DEF ChatInv, ChatTypes
<1>8. ChatTypes'
  BY <1>2, <1>7 DEF ChatInv, ChatTypes
<1>9. Kept' = Kept \ {m}
  BY <1>7 DEF Kept, ChatInv, ChatTypes
<1>10. ops \in Nat /\ ops' > 0
  BY <1>2, Begun DEF At, AccountsInv, AccountTypes
<1>11. History
  BY <1>2, <1>7, <1>10 DEF History, ChatInv, ChatTypes
<1>12. ChatRequestOK(r)'
  BY <1>2, <1>5, <1>6, <1>7, <1>10 DEF ChatRequestOK, AnnounceOK, RetractOK, ListOK, BegunOK, At, ChatInv, ChatTypes
<1> QED
  BY <1>2, <1>6, <1>8, <1>9, <1>11, <1>12, Silent

(* Handlers that answer or tell, and a handler that fails                  *)
LEMMA MarkListedKeeps ==
  ASSUME AccountsInv, ChatInv, NEW r \in Request, MarkListed(r)
  PROVE  ChatInv'
<1> DEFINE shown == Current(job[r])
<1>1. PICK j : j = job[r]
  OBVIOUS
<1>2. /\ chat' = chat \/ chat' = [chat EXCEPT !.unread[j.user] = {}]
      /\ screen' = IF shown THEN [screen EXCEPT ![j.user] = [open |-> TRUE, shows |-> screen[j.user].shows \cup j.items]]
                   ELSE screen
      /\ stale' = IF shown THEN stale \cup ({j.user} \X (j.items \ Kept)) ELSE stale
      /\ Goes(r, Idle) /\ At(r, "list") /\ socket' = socket /\ ops' = ops
  BY <1>1 DEF MarkListed, Current, GoesOn
<1>3. /\ j.user \in Pair /\ j.user \in User
      /\ shown => socket[j.user].on /\ \A m \in Kept : m \in j.items \/ Covered(j.user, m)
  BY <1>1, <1>2, ChatSets DEF ChatInv, ChatRequestOK, ListOK, Current
<1> HIDE DEF shown
<1>4. /\ DOMAIN chat' = DOMAIN chat
      /\ chat'.open = chat.open /\ chat'.number = chat.number /\ chat'.state = chat.state
  BY <1>2 DEF ChatInv, ChatTypes
<1>5. Kept' = Kept /\ ops \in Nat
  BY <1>4 DEF Kept, AccountsInv, AccountTypes
<1>6. /\ job'[r] = Idle /\ \A x \in Request : x = r \/ job'[x] = job[x]
      /\ Announcing \subseteq Announcing' /\ Retracting \subseteq Retracting'
  BY <1>2, Leaves DEF At
<1>7. ChatRequestOK(r)'
  BY <1>6, OtherSteps DEF Idle, ChatSteps
<1>8. /\ stale \subseteq stale' /\ screen' = [u \in User |-> screen'[u]]
      /\ \A u \in User : DOMAIN screen'[u] = {"open", "shows"}
      /\ \A u \in User : \/ screen'[u] = screen[u]
                         \/ u = j.user /\ shown /\ screen'[u].shows = screen[u].shows \cup j.items
  BY <1>2, <1>3 DEF ChatInv, ChatTypes
<1>9. ChatTypes'
  BY <1>2, <1>4, <1>8 DEF ChatInv, ChatTypes
<1>10. SocketsOK'
  BY <1>2, <1>3, <1>8 DEF ChatInv, SocketsOK
<1>11. History
  BY <1>2, <1>4, <1>5 DEF History, ChatInv, ChatTypes, ConversationOK
<1>12. \A u \in User : \A m : Covered(u, m) => Covered(u, m)'
  BY <1>6, <1>8 DEF Covered
<1>13. \A u \in Pair : Audience(u)
  BY <1>2, <1>5, <1>12, ChatSets DEF Audience, Carries
<1>14. ShowsSent'
  <2> SUFFICES ASSUME NEW u \in Pair, NEW m \in Message, m \in screen'[u].shows
               PROVE  m \in Kept' \/ m \in Retracting' \/ <<u, m>> \in stale'
    BY DEF ShowsSent
  <2>1. CASE m \in screen[u].shows
    BY <1>5, <1>6, <1>8, <2>1 DEF ChatInv, ShowsSent
  <2>2. CASE m \notin screen[u].shows
    <3>1. u = j.user /\ shown /\ m \in j.items
      BY <1>8, <2>2, ChatSets
    <3> QED
      BY <1>2, <1>5, <3>1
  <2> QED
    BY <2>1, <2>2
<1>15. ASSUME NEW u \in Pair, screen'[u].open
       PROVE  screen[u].open \/ \A m \in Kept' : Covered(u, m)'
  <2>1. CASE screen'[u] = screen[u]
    BY <1>15, <2>1
  <2>2. CASE u = j.user /\ shown /\ screen'[u].shows = screen[u].shows \cup j.items
    BY <1>3, <1>5, <1>12, <2>2 DEF Covered
  <2> QED
    BY <1>8, <2>1, <2>2, ChatSets
<1> QED
  BY <1>6, <1>7, <1>9, <1>10, <1>11, <1>13, <1>14, <1>15, ChatGoesOn

LEMMA AnnounceKeeps ==
  ASSUME AccountsInv, ChatInv, NEW r \in Request, Announce(r)
  PROVE  ChatInv'
<1> DEFINE told == IF chat.open /\ job[r].conversation = chat.number THEN Online(Pair) ELSE {}
<1>1. PICK m : m = job[r].message
  OBVIOUS
<1>2. /\ screen' = Adding(told, m) /\ stale' = IF m \in Kept THEN stale ELSE stale \cup (told \X {m})
      /\ Goes(r, Idle) /\ At(r, "announce") /\ socket' = socket /\ chat' = chat /\ ops' = ops
  BY <1>1 DEF Announce, GoesOn
<1>3. told \subseteq Online(Pair) /\ (m \in Kept => told = Online(Pair))
  BY <1>1, <1>2 DEF ChatInv, ChatRequestOK, AnnounceOK, ConversationOK
<1> HIDE DEF told
<1>4. Kept' = Kept /\ ops \in Nat
  BY <1>2 DEF Kept, AccountsInv, AccountTypes
<1>5. /\ job'[r] = Idle /\ \A x \in Request : x = r \/ job'[x] = job[x]
      /\ \A x : x \in Announcing => x \in Announcing' \/ x = m
      /\ Retracting \subseteq Retracting'
  BY <1>1, <1>2, Leaves DEF At
<1>6. ChatRequestOK(r)'
  BY <1>5, OtherSteps DEF Idle, ChatSteps
<1>7. /\ screen' = [u \in User |-> screen'[u]]
      /\ \A u \in User : /\ DOMAIN screen'[u] = {"open", "shows"} /\ screen'[u].open = screen[u].open
                         /\ screen'[u].shows = IF u \in told THEN screen[u].shows \cup {m} ELSE screen[u].shows
                         /\ u \notin told => screen'[u] = screen[u]
  BY <1>2 DEF Adding, ChatInv, ChatTypes
<1>8. ChatTypes'
  BY <1>2, <1>7 DEF ChatInv, ChatTypes
<1>9. SocketsOK'
  BY <1>2, <1>3, <1>7 DEF ChatInv, SocketsOK, Online
<1>10. History
  BY <1>2, <1>4 DEF History, ChatInv, ChatTypes, ConversationOK
<1>11. ASSUME NEW u \in Pair
       PROVE  Audience(u)
  <2> SUFFICES ASSUME socket[u].on, NEW x \in Kept', Covered(u, x)
               PROVE  Covered(u, x)'
    BY <1>2, <1>4 DEF Audience, Carries
  <2>1. u \in User /\ u \in Online(Pair)
    BY ChatSets DEF Online
  <2>2. CASE x = m
    BY <1>3, <1>4, <1>7, <2>1, <2>2 DEF Covered
  <2>3. CASE x # m
    BY <1>2, <1>5, <1>7, <2>1, <2>3 DEF Covered
  <2> QED
    BY <2>2, <2>3
<1>12. ShowsSent'
  <2> SUFFICES ASSUME NEW u \in Pair, NEW x \in Message, x \in screen'[u].shows
               PROVE  x \in Kept' \/ x \in Retracting' \/ <<u, x>> \in stale'
    BY DEF ShowsSent
  <2>1. CASE x \in screen[u].shows
    BY <1>2, <1>4, <1>5, <2>1 DEF ChatInv, ShowsSent
  <2>2. CASE x \notin screen[u].shows
    <3>1. u \in told /\ x = m
      BY <1>7, <2>2, ChatSets
    <3> QED
      BY <1>2, <1>4, <3>1
  <2> QED
    BY <2>1, <2>2
<1>13. \A u \in Pair : screen'[u].open => screen[u].open
  BY <1>7, ChatSets
<1> QED
  BY <1>5, <1>6, <1>8, <1>9, <1>10, <1>11, <1>12, <1>13, ChatGoesOn

LEMMA RetractKeeps ==
  ASSUME AccountsInv, ChatInv, NEW r \in Request, Retract(r)
  PROVE  ChatInv'
<1> DEFINE told == joined \cup {job[r].user}
<1>1. PICK m : m = job[r].message
  OBVIOUS
<1>2. /\ screen' = Removing(told, m) /\ stale' = stale \cup ((Online(Pair) \ told) \X {m})
      /\ Goes(r, Idle) /\ At(r, "retract") /\ socket' = socket /\ chat' = chat /\ ops' = ops
  BY <1>1 DEF Retract, GoesOn
<1>3. m \in Message /\ m \notin Kept
  BY <1>1, <1>2 DEF ChatInv, ChatRequestOK, RetractOK, Kept
<1> HIDE DEF told
<1>4. Kept' = Kept /\ ops \in Nat
  BY <1>2 DEF Kept, AccountsInv, AccountTypes
<1>5. /\ job'[r] = Idle /\ \A x \in Request : x = r \/ job'[x] = job[x]
      /\ Announcing \subseteq Announcing'
      /\ \A x : x \in Retracting => x \in Retracting' \/ x = m
  BY <1>1, <1>2, Leaves DEF At
<1>6. ChatRequestOK(r)'
  BY <1>5, OtherSteps DEF Idle, ChatSteps
<1>7. /\ screen' = [u \in User |-> screen'[u]]
      /\ \A u \in User : /\ DOMAIN screen'[u] = {"open", "shows"} /\ screen'[u].open = screen[u].open
                         /\ screen'[u].shows = IF u \in told THEN screen[u].shows \ {m} ELSE screen[u].shows
  BY <1>2 DEF Removing, ChatInv, ChatTypes
<1>8. ChatTypes'
  BY <1>2, <1>7 DEF ChatInv, ChatTypes
<1>9. SocketsOK'
  <2>1. ASSUME NEW u \in User, screen[u] = Blank
        PROVE  screen'[u] = Blank
    <3>1. screen'[u] = IF u \in told THEN [Blank EXCEPT !.shows = @ \ {m}] ELSE Blank
      BY <1>2, <2>1 DEF Removing
    <3>2. [Blank EXCEPT !.shows = @ \ {m}] = Blank
      BY DEF Blank
    <3> QED
      BY <3>1, <3>2
  <2> QED
    BY <1>2, <2>1 DEF ChatInv, SocketsOK
<1>10. History
  BY <1>2, <1>4 DEF History, ChatInv, ChatTypes, ConversationOK
<1>11. ASSUME NEW u \in Pair
       PROVE  Audience(u)
  <2> SUFFICES ASSUME socket[u].on, NEW x \in Kept', Covered(u, x)
               PROVE  Covered(u, x)'
    BY <1>2, <1>4 DEF Audience, Carries
  <2>1. u \in User /\ x # m
    BY <1>3, <1>4, ChatSets
  <2> QED
    BY <1>2, <1>5, <1>7, <2>1 DEF Covered
<1>12. ShowsSent'
  <2> SUFFICES ASSUME NEW u \in Pair, NEW x \in Message, x \in screen'[u].shows
               PROVE  x \in Kept' \/ x \in Retracting' \/ <<u, x>> \in stale'
    BY DEF ShowsSent
  <2>1. u \in User /\ x \in screen[u].shows
    BY <1>7, ChatSets
  <2>2. x \in Kept \/ x \in Retracting \/ <<u, x>> \in stale
    BY <2>1 DEF ChatInv, ShowsSent
  <2>3. CASE x = m
    <3>1. u \notin told
      BY <1>7, <2>1, <2>3
    <3>2. socket[u].on
      BY <2>1 DEF ChatInv, SocketsOK, Blank
    <3> QED
      BY <1>2, <2>3, <3>1, <3>2 DEF Online
  <2>4. CASE x # m
    BY <1>2, <1>4, <1>5, <2>2, <2>4
  <2> QED
    BY <2>3, <2>4
<1>13. \A u \in Pair : screen'[u].open => screen[u].open
  BY <1>7, ChatSets
<1> QED
  BY <1>5, <1>6, <1>8, <1>9, <1>10, <1>11, <1>12, <1>13, ChatGoesOn

LEMMA FailKeeps ==
  ASSUME AccountsInv, ChatInv, NEW r \in Request, Fail(r)
  PROVE  ChatInv'
<1>1. PICK m : m = job[r].message
  OBVIOUS
<1>2. /\ Goes(r, Idle) /\ ops' = ops /\ UNCHANGED <<chat, socket, screen>>
      /\ stale \subseteq stale'
      /\ At(r, "announce") \/ At(r, "retract") => Online(Pair) \X {m} \subseteq stale'
  BY <1>1 DEF Fail, Drop, At
<1>3. Kept' = Kept /\ ops \in Nat
  BY <1>2 DEF Kept, AccountsInv, AccountTypes
<1>4. /\ job'[r] = Idle /\ \A x \in Request : x = r \/ job'[x] = job[x]
      /\ \A x : x \in Announcing => x \in Announcing' \/ Online(Pair) \X {x} \subseteq stale'
      /\ \A x : x \in Retracting => x \in Retracting' \/ Online(Pair) \X {x} \subseteq stale'
  BY <1>1, <1>2, Leaves
<1>5. ChatRequestOK(r)'
  BY <1>4, OtherSteps DEF Idle, ChatSteps
<1>6. ChatTypes' /\ SocketsOK'
  BY <1>2 DEF ChatInv, ChatTypes, SocketsOK
<1>7. History
  BY <1>2, <1>3 DEF History, ChatInv, ChatTypes, ConversationOK
<1>8. ASSUME NEW u \in Pair
      PROVE  Audience(u)
  <2> SUFFICES ASSUME socket[u].on, NEW x \in Kept', Covered(u, x)
               PROVE  Covered(u, x)'
    BY <1>2, <1>3 DEF Audience, Carries
  <2>1. u \in Online(Pair)
    BY DEF Online
  <2>2. x \in Announcing => x \in Announcing' \/ <<u, x>> \in stale'
    BY <1>4, <2>1
  <2> QED
    BY <1>2, <2>2 DEF Covered
<1>9. ShowsSent'
  <2> SUFFICES ASSUME NEW u \in Pair, NEW x \in Message, x \in screen[u].shows
               PROVE  x \in Kept' \/ x \in Retracting' \/ <<u, x>> \in stale'
    BY <1>2 DEF ShowsSent
  <2>1. u \in Online(Pair)
    BY ChatSets DEF ChatInv, SocketsOK, Blank, Online
  <2>2. x \in Retracting => x \in Retracting' \/ <<u, x>> \in stale'
    BY <1>4, <2>1
  <2> QED
    BY <1>2, <1>3, <2>2 DEF ChatInv, ShowsSent
<1>10. \A u \in Pair : screen'[u].open => screen[u].open
  BY <1>2
<1> QED
  BY <1>4, <1>5, <1>6, <1>7, <1>8, <1>9, <1>10, ChatGoesOn

LEMMA DeleteConversationKeeps ==
  ASSUME AccountsInv, ChatInv, NEW r \in Request, DeleteConversation(r)
  PROVE  ChatInv'
<1>1. PICK unread, state :
        /\ state = [m \in Message |-> IF chat.state[m] = "sent" THEN "deleted" ELSE chat.state[m]]
        /\ chat' = [chat EXCEPT !.open = FALSE, !.number = chat.number + 1, !.state = state, !.unread = unread]
  BY DEF DeleteConversation, ChatInv, ChatTypes
<1>2. /\ screen' = [u \in User |-> Blank] /\ Goes(r, Idle) /\ At(r, "admitted")
      /\ UNCHANGED <<socket, stale>> /\ ops' = ops /\ ops \in Nat
  BY DEF DeleteConversation, Handles, AccountsInv, AccountTypes
<1>3. DOMAIN chat' = DOMAIN chat /\ chat'.number = chat.number + 1 /\ chat'.state = state
  BY <1>1 DEF ChatInv, ChatTypes
<1>4. chat.number \in Nat /\ chat.state \in [Message -> {"none", "sent", "deleted"}]
  BY DEF ChatInv, ChatTypes
<1>5. ChatTypes'
  BY <1>1, <1>2, <1>3, <1>4 DEF ChatInv, ChatTypes, Blank
<1>6. Kept' = {}
  BY <1>1, <1>3 DEF Kept
<1>7. History
  BY <1>1, <1>2, <1>3, <1>4, <1>6 DEF History
<1>8. /\ job'[r] = Idle /\ \A x \in Request : x = r \/ job'[x] = job[x]
  BY <1>2, Leaves
<1>9. ChatRequestOK(r)'
  BY <1>8, OtherSteps DEF Idle, ChatSteps
<1>10. SocketsOK'
  BY <1>2 DEF ChatInv, SocketsOK
<1>11. \A u \in Pair : Audience(u)
  BY <1>2, <1>6 DEF Audience, Carries
<1>12. ShowsSent' /\ \A u \in Pair : ~screen'[u].open
  BY <1>2, ChatSets DEF ShowsSent, Blank
<1> QED
  BY <1>5, <1>7, <1>8, <1>9, <1>10, <1>11, <1>12, ChatGoesOn

LEMMA ConnectKeeps ==
  ASSUME AccountsInv, ChatInv, NEW r \in Request, Connect(r)
  PROVE  ChatInv'
<1>1. PICK u, row : u = job[r].user /\ row = [on |-> TRUE, admin |-> job[r].admin, since |-> ops]
  OBVIOUS
<1>2. /\ ~socket[u].on /\ socket' = [socket EXCEPT ![u] = row] /\ Goes(r, Idle) /\ At(r, "found")
      /\ UNCHANGED <<chat, screen, stale>> /\ ops' = ops /\ ops \in Nat
  BY <1>1 DEF Connect, GoesOn, AccountsInv, AccountTypes
<1>3. u \in User
  BY <1>1, <1>2 DEF AccountsInv, RequestOK, RolesOK, At, HasRoles
<1>4. /\ socket' = [v \in User |-> socket'[v]]
      /\ socket'[u] = row /\ row.on /\ row.since = ops
      /\ \A v \in User : v = u \/ socket'[v] = socket[v]
  BY <1>1, <1>2, <1>3 DEF ChatInv, ChatTypes
<1>5. /\ job'[r] = Idle /\ \A x \in Request : x = r \/ job'[x] = job[x]
      /\ Announcing \subseteq Announcing' /\ Retracting \subseteq Retracting'
  BY <1>2, Leaves DEF At
<1>6. ChatRequestOK(r)'
  BY <1>5, OtherSteps DEF Idle, ChatSteps
<1>7. ChatTypes' /\ Kept' = Kept
  BY <1>2, <1>4 DEF ChatInv, ChatTypes, Kept
<1>8. ops <= ops
  BY <1>2
<1>9. SocketsOK'
  BY <1>2, <1>4, <1>8 DEF ChatInv, SocketsOK
<1>10. History
  BY <1>2, <1>7 DEF History, ChatInv, ChatTypes, ConversationOK
<1>11. ASSUME NEW v \in Pair
       PROVE  Audience(v)
  <2>1. CASE v = u
    BY <1>2, <1>4, <2>1 DEF Audience
  <2>2. CASE v # u
    BY <1>2, <1>4, <1>5, <1>7, <2>2, ChatSets DEF Audience, Carries, Covered
  <2> QED
    BY <2>1, <2>2
<1>12. ShowsSent' /\ \A v \in Pair : screen'[v].open => screen[v].open
  BY <1>2, <1>5, <1>7 DEF ChatInv, ShowsSent
<1> QED
  BY <1>5, <1>6, <1>7, <1>9, <1>10, <1>11, <1>12, ChatGoesOn

LEMMA DisconnectKeeps ==
  ASSUME AccountsInv, ChatInv, NEW u \in User, Disconnect(u)
  PROVE  ChatInv'
<1>1. /\ socket' = [socket EXCEPT ![u] = NoSocket] /\ screen' = [screen EXCEPT ![u] = Blank]
      /\ stale' = stale \ ({u} \X Message)
      /\ ops' = ops + 1 /\ ops \in Nat /\ UNCHANGED <<job, chat>>
  BY DEF Disconnect, Begin, AccountsInv, AccountTypes
<1>2. /\ socket' = [v \in User |-> socket'[v]] /\ screen' = [v \in User |-> screen'[v]]
      /\ socket'[u] = NoSocket /\ screen'[u] = Blank
      /\ \A v \in User : v = u \/ (socket'[v] = socket[v] /\ screen'[v] = screen[v])
      /\ \A v, m : v # u => (<<v, m>> \in stale' <=> <<v, m>> \in stale)
  BY <1>1 DEF ChatInv, ChatTypes
<1>3. Kept' = Kept /\ Announcing' = Announcing /\ Retracting' = Retracting
  BY <1>1 DEF Kept, Announcing, Retracting, At
<1>4. ChatTypes'
  BY <1>1, <1>2 DEF ChatInv, ChatTypes, Blank
<1>5. SocketsOK'
  <2>1. NoSocket.since = 0 /\ ~NoSocket.on
    BY DEF NoSocket
  <2>2. \A v \in User : socket[v].since \in Nat /\ socket[v].since <= ops + 1
    BY <1>1 DEF ChatInv, SocketsOK
  <2> QED
    BY <1>1, <1>2, <2>1, <2>2 DEF ChatInv, SocketsOK
<1>6. History
  BY <1>1, <1>3 DEF History, ChatInv, ChatTypes, ConversationOK
<1>7. ASSUME NEW v \in Pair
      PROVE  Audience(v)
  <2>1. CASE v = u
    BY <1>1, <1>2, <2>1 DEF Audience, NoSocket
  <2>2. CASE v # u
    BY <1>2, <1>3, <2>2, ChatSets DEF Audience, Carries, Covered
  <2> QED
    BY <2>1, <2>2
<1>8. ASSUME NEW v \in Pair, NEW m \in Message, m \in screen'[v].shows
      PROVE  m \in Kept' \/ m \in Retracting' \/ <<v, m>> \in stale'
  <2>1. v # u
    BY <1>2, <1>8 DEF Blank
  <2> QED
    BY <1>2, <1>3, <1>8, <2>1, ChatSets DEF ChatInv, ShowsSent
<1>9. \A v \in Pair : screen'[v].open => screen[v].open
  BY <1>2, ChatSets DEF Blank
<1> QED
  BY <1>1, <1>4, <1>5, <1>6, <1>7, <1>8, <1>9, ChatGoesOn DEF ShowsSent

LEMMA RestartKeeps ==
  ASSUME AccountsInv, ChatInv, RestartServer
  PROVE  ChatInv'
<1>1. /\ job' = [r \in Request |-> Idle] /\ socket' = [u \in User |-> NoSocket] /\ screen' = [u \in User |-> Blank]
      /\ chat' = chat /\ ops' = ops + 1 /\ ops \in Nat
  BY DEF RestartServer, Restart, Begin, AccountsInv, AccountTypes
<1>2. Kept' = Kept
  BY <1>1 DEF Kept
<1>3. ChatTypes' /\ SocketsOK'
  BY <1>1 DEF ChatInv, ChatTypes, SocketsOK, Blank, NoSocket
<1>4. History
  BY <1>1, <1>2 DEF History, ChatInv, ChatTypes, ConversationOK
<1>5. \A r \in Request : ChatRequestOK(r)'
  BY <1>1, OtherSteps DEF Idle, ChatSteps
<1>6. \A u \in Pair : Audience(u) /\ ~screen'[u].open /\ screen'[u].shows = {}
  BY <1>1, ChatSets DEF Audience, NoSocket, Blank
<1> QED
  BY <1>3, <1>4, <1>5, <1>6, ChatGoesOn DEF ShowsSent

LEMMA ChatStep ==
  ASSUME AccountsInv, ChatInv, [WorkspaceNext]_workspaceVars
  PROVE  ChatInv'
<1>1. CASE AccountsNext /\ UNCHANGED chatVars
  BY <1>1, AccountsAside, AsideKeeps
<1>2. ASSUME NEW r \in Request, AsideHandler(r)
      PROVE  ChatInv'
  BY <1>2, HandlersAside, AsideKeeps
<1>3. ASSUME NEW r \in Request, SendMessage(r)
      PROVE  ChatInv'
  <2>1. ops' = ops /\ At(r, "admitted") /\ Posting(r, job[r].user)
    BY <1>3 DEF SendMessage, Handles
  <2>2. ops' > 0
    BY <2>1, Begun DEF At
  <2> QED
    BY <2>1, <2>2, PostingKeeps
<1>4. ASSUME NEW r \in Request, NEW u, SocketSend(r, u)
      PROVE  ChatInv'
  <2>1. ops' = ops + 1 /\ At(r, "idle") /\ Posting(r, u)
    BY <1>4 DEF SocketSend, OnSocket, Begin
  <2>2. ops' > 0
    BY <2>1, Begun
  <2> QED
    BY <2>1, <2>2, PostingKeeps
<1>5. ASSUME NEW r \in Request, Handling(r)
      PROVE  ChatInv'
  BY <1>2, <1>3, <1>5, OpenDirectKeeps, GetMessagesKeeps, DeleteMessageKeeps, DeleteConversationKeeps
     DEF Handling, AsideHandler
<1>6. ASSUME NEW r \in Request, GoingOn(r)
      PROVE  ChatInv'
  BY <1>2, <1>6, ConnectKeeps, MarkListedKeeps, AnnounceKeeps, RetractKeeps, FailKeeps DEF GoingOn, AsideHandler
<1>7. ASSUME NEW r \in Request, NEW u \in User, Socketing(r, u)
      PROVE  ChatInv'
  BY <1>2, <1>4, <1>7 DEF Socketing, AsideHandler
<1>8. CASE \E u \in User : Disconnect(u) \/ \E there \in BOOLEAN : InRoom(u, there)
  BY <1>8, DisconnectKeeps, RoomAside, AsideKeeps
<1>9. CASE RestartServer
  BY <1>9, RestartKeeps
<1>10. CASE UNCHANGED workspaceVars
  <2>1. Aside
    BY <1>10 DEF workspaceVars, accountVars, chatVars, Aside
  <2> QED
    BY <2>1, AsideKeeps
<1> QED
  BY <1>1, <1>5, <1>6, <1>7, <1>8, <1>9, <1>10 DEF WorkspaceNext

LEMMA ChatStarts ==
  ASSUME Init
  PROVE  ChatInv
<1>1. AccountsInv /\ ops = 0 /\ job = [r \in Request |-> Idle]
  BY AccountsStart DEF Init, AccountsInit
<1>2. ChatTypes
  <2>1. screen = [u \in User |-> screen[u]] /\ \A u \in User : DOMAIN screen[u] = {"open", "shows"}
    BY DEF Init, Blank
  <2>2. socket = [u \in User |-> socket[u]]
    BY DEF Init
  <2>3. DOMAIN chat = {"open", "number", "state", "sender", "unread"} /\ chat.number \in Nat
        /\ chat.state \in [Message -> {"none", "sent", "deleted"}]
    BY DEF Init
  <2> QED
    BY <2>1, <2>2, <2>3 DEF ChatTypes
<1>3. ASSUME NEW u \in User
      PROVE  /\ socket[u].since \in Nat /\ socket[u].since <= ops
             /\ ~socket[u].on => socket[u] = NoSocket /\ screen[u] = Blank
             /\ screen[u].shows \subseteq Kept /\ (screen[u].open => screen[u].shows = Kept)
  <2>1. socket[u] \in {NoSocket} \cup [on : {TRUE}, admin : BOOLEAN, since : {0}]
    BY DEF Init
  <2>2. socket[u].since = 0 /\ (~socket[u].on => socket[u] = NoSocket)
    <3>1. CASE socket[u] = NoSocket
      BY <3>1 DEF NoSocket
    <3>2. CASE socket[u] \in [on : {TRUE}, admin : BOOLEAN, since : {0}]
      <4>1. socket[u].on = TRUE /\ socket[u].since = 0
        BY <3>2
      <4> QED
        BY <4>1
    <3> QED
      BY <2>1, <3>1, <3>2
  <2>3. screen[u] \in {Blank, [open |-> TRUE, shows |-> Kept]} /\ (screen[u].open => socket[u].on)
    BY DEF Init
  <2>4. /\ ~socket[u].on => screen[u] = Blank
        /\ screen[u].shows \subseteq Kept /\ (screen[u].open => screen[u].shows = Kept)
    <3>1. CASE screen[u] = Blank
      BY <3>1 DEF Blank
    <3>2. CASE screen[u] = [open |-> TRUE, shows |-> Kept]
      <4>1. screen[u].open /\ screen[u].shows = Kept
        BY <3>2
      <4> QED
        BY <2>3, <4>1
    <3> QED
      BY <2>3, <3>1, <3>2
  <2> QED
    BY <1>1, <2>2, <2>4
<1>4. SocketsOK
  BY <1>3 DEF SocketsOK
<1>5. ConversationOK
  BY DEF Init, ConversationOK
<1>6. \A r \in Request : ChatRequestOK(r)
  BY <1>1 DEF ChatRequestOK, AnnounceOK, RetractOK, ListOK, BegunOK, At, Idle
<1>7. ShowsSent /\ OpenShows
  BY <1>3, ChatSets DEF ShowsSent, OpenShows, Covered
<1> QED
  BY <1>2, <1>4, <1>5, <1>6, <1>7 DEF ChatInv

LEMMA ChatShows == ASSUME ChatInv PROVE ScreensAgree
<1> SUFFICES ASSUME NEW u \in Pair, screen[u].open, NEW m \in Message
             PROVE  \/ <<u, m>> \in stale
                    \/ m \in Kept /\ (m \in screen[u].shows \/ m \in Announcing)
                    \/ m \notin Kept /\ (m \notin screen[u].shows \/ m \in Retracting)
  BY DEF ScreensAgree
<1>1. CASE m \in Kept
  BY <1>1 DEF ChatInv, OpenShows, Covered
<1>2. CASE m \notin Kept
  BY <1>2 DEF ChatInv, ShowsSent
<1> QED
  BY <1>1, <1>2

LEMMA WorkspaceHolds == Spec => []IInv
<1>1. Init => IInv
  BY AccountsStart, ChatStarts DEF Init, IInv
<1>2. IInv /\ [WorkspaceNext]_workspaceVars => IInv'
  BY StepKinds, AccountsStep, ChatStep DEF Step, IInv, AccountsInv, AccountTypes
<1> QED
  BY <1>1, <1>2, PTL DEF Spec

------------------------------------------------------------------------------
(* A session that has expired or was revoked never becomes valid again,    *)
(* although a request that found it valid extends it later: nothing any    *)
(* request does brings an ended session back.                              *)
THEOREM SessionsStayEnded == Spec => EndedStaysEnded
<1>1. AccountsInv /\ [WorkspaceNext]_workspaceVars
      => [\A s \in Session : session[s].state # "none" /\ ~Live(s) => ~Live(s)']_accountVars
  <2> SUFFICES ASSUME AccountsInv, [WorkspaceNext]_workspaceVars
               PROVE  \A s \in Session : session[s].state # "none" /\ ~Live(s) => ~Live(s)'
    OBVIOUS
  <2>1. Step
    BY StepKinds DEF Step, AccountsInv, AccountTypes
  <2> QED
    BY <2>1, EndedStays
<1>2. IInv => AccountsInv
  BY DEF IInv
<1> QED
  BY <1>1, <1>2, WorkspaceHolds, PTL DEF Spec, EndedStaysEnded

(* A valid session goes back to a password that is no longer the user's    *)
(* only if the login overlapped the change, or the platform made it.       *)
THEOREM OldPasswords == Spec => []OldPasswordsExplained
<1>1. IInv => OldPasswordsExplained
  BY DEF IInv, AccountsInv
<1> QED
  BY <1>1, WorkspaceHolds, PTL

(* Whoever permissionMiddleware lets through has the right, or lost the    *)
(* role that gave it within the life of a cache entry.                     *)
THEOREM Admitted == Spec => []AdmittedByRight
<1>1. IInv => AdmittedByRight
  BY RolesGiveRight DEF IInv
<1> QED
  BY <1>1, WorkspaceHolds, PTL

(* More users than seats are active only after activations that overlapped *)
(* or after the platform changed the plan.                                 *)
THEOREM Seated == Spec => []SeatsExplained
<1>1. IInv => SeatsExplained
  BY DEF IInv, AccountsInv
<1> QED
  BY <1>1, WorkspaceHolds, PTL

(* No reset code takes more wrong guesses than allowed and one for each    *)
(* other request that can be in flight.                                    *)
THEOREM Guesses == Spec => []GuessesBounded
<1>1. IInv => GuessesBounded
  BY GuessesInFlightBound DEF IInv
<1> QED
  BY <1>1, WorkspaceHolds, PTL

(* A client that has the conversation open shows the messages there are,   *)
(* but for those about to be told and for what is excused.                 *)
THEOREM Screens == Spec => []ScreensAgree
<1>1. IInv => ScreensAgree
  BY ChatShows DEF IInv
<1> QED
  BY <1>1, WorkspaceHolds, PTL
==============================================================================
