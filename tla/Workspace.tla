------------------------------ MODULE Workspace ------------------------------
(***************************************************************************)
(* Chat and broadcasts on top of the accounts (chatController,             *)
(* broadcastController, socketServer, chatHandlers, broadcastHandlers).    *)
(*                                                                         *)
(* A handler runs for a request that Accounts has admitted, or for an open *)
(* socket; a socket is authenticated when it connects and never again.     *)
(* Handlers write first and tell the connected clients afterwards.  There  *)
(* are one conversation at a time, of the users of Pair, and one           *)
(* broadcast.                                                              *)
(*                                                                         *)
(* screen[u] is what the client of u has been told: it opens the           *)
(* conversation by listing it while it is connected, adds what is pushed,  *)
(* and takes away what is retracted.                                       *)
(***************************************************************************)
EXTENDS Accounts

CONSTANTS Pair,                \* the users of the conversation
          Message,             \* numbered in the order they are sent
          Chatting, Directing  \* the permissions of chat and of broadcasts

ASSUME ChatSets == Pair \subseteq User /\ Message \subseteq Nat /\ {Chatting, Directing} \subseteq Permission

VARIABLES chat,    \* Conversation, ConversationMember, ChatMessage
          notice,  \* BroadcastMessage, BroadcastRecipient
          socket,  \* connected users, as they were then
          joined,  \* users in the room of the conversation
          screen,
          stale    \* <<u, m>>: there is a reason why the screen of u may be wrong about m

chatVars == <<chat, notice, socket, joined, screen, stale>>
workspaceVars == <<accountVars, chatVars>>

NoSocket == [on |-> FALSE, admin |-> FALSE, since |-> 0]
Blank == [open |-> FALSE, shows |-> {}]
NoNotice == [state |-> "none", sender |-> Owner, to |-> {}, seen |-> {}]

Kept == {m \in Message : chat.state[m] = "sent"}
Member(u) == chat.open /\ u \in Pair
Online(us) == {u \in us : socket[u].on}

(* A handler runs in a request admitted with permission p. *)
Handles(r, p) == At(r, "admitted") /\ job[r].to = {p} /\ UNCHANGED <<tables, cache, now, ops, history>>
(* or on the socket of u.                                                  *)
OnSocket(r, u) == /\ At(r, "idle") /\ Begin /\ socket[u].on
                  /\ UNCHANGED <<tables, cache, now, history>>
(* or goes on. *)
GoesOn(r, step) == At(r, step) /\ UNCHANGED <<tables, cache, now, ops, history>>

(* The screens with m added or taken away for the users us *)
Adding(us, m) == [u \in User |-> IF u \in us THEN [screen[u] EXCEPT !.shows = @ \cup {m}] ELSE screen[u]]
Removing(us, m) == [u \in User |-> IF u \in us THEN [screen[u] EXCEPT !.shows = @ \ {m}] ELSE screen[u]]

------------------------------------------------------------------------------
(* Sockets *)

(* io.use and connection: authenticateToken does not refresh.              *)
Connect(r) ==
  LET u == job[r].user
  IN  /\ GoesOn(r, "found")
      /\ ~socket[u].on
      /\ socket' = [socket EXCEPT ![u] = [on |-> TRUE, admin |-> job[r].admin, since |-> ops]]
      /\ Goes(r, Idle)
      /\ UNCHANGED <<chat, notice, joined, screen, stale>>

Disconnect(u) ==
  /\ Begin
  /\ socket[u].on
  /\ socket' = [socket EXCEPT ![u] = NoSocket]
  /\ joined' = joined \ {u}
  /\ screen' = [screen EXCEPT ![u] = Blank]
  /\ stale' = stale \ ({u} \X Message)
  /\ UNCHANGED <<tables, cache, job, now, history, chat, notice>>

(* conversation:join and conversation:leave *)
InRoom(u, there) ==
  /\ Begin
  /\ socket[u].on
  /\ joined' = IF there THEN joined \cup {u} ELSE joined \ {u}
  /\ joined' # joined
  /\ UNCHANGED <<tables, cache, job, now, history, chat, notice, socket, screen, stale>>

------------------------------------------------------------------------------
(* Conversation *)

OpenDirect(r, other) ==
  LET me == job[r].user
  IN  /\ Handles(r, Chatting)
      /\ {me, other} = Pair /\ me # other
      /\ other \in Active
      /\ job[r].admin \/ user[other].admin
      /\ ~chat.open
      /\ chat' = [chat EXCEPT !.open = TRUE, !.unread = [u \in User |-> {}]]
      /\ Goes(r, Idle)
      /\ UNCHANGED <<notice, socket, joined, screen, stale>>

(* getMessages lists what there is, *)
GetMessages(r) ==
  LET u == job[r].user
  IN  /\ Handles(r, Chatting)
      /\ Member(u)
      /\ Goes(r, [step |-> "list", user |-> u, conversation |-> chat.number,
                  items |-> Kept, since |-> socket[u].since])
      /\ UNCHANGED chatVars

(* then marks everything read and answers.                                 *)
MarkListed(r) ==
  LET j == job[r]
      u == j.user
      there == chat.open /\ j.conversation = chat.number
      shown == there /\ socket[u].on /\ socket[u].since = j.since
  IN  /\ GoesOn(r, "list")
      /\ chat' = IF there THEN [chat EXCEPT !.unread[u] = {}] ELSE chat
      /\ screen' = IF shown THEN [screen EXCEPT ![u] = [open |-> TRUE, shows |-> @.shows \cup j.items]]
                   ELSE screen
      /\ stale' = IF shown THEN stale \cup ({u} \X (j.items \ Kept)) ELSE stale
      /\ Goes(r, Idle)
      /\ UNCHANGED <<notice, socket, joined>>

(* The transaction of sendMessage and chat:send: sending marks all as      *)
(* read.                                                                   *)
Posting(r, u) ==
  LET m == Min({x \in Message : chat.state[x] = "none"})
  IN  /\ Member(u)
      /\ \E x \in Message : chat.state[x] = "none"
      /\ chat' = [chat EXCEPT !.state[m] = "sent", !.sender[m] = u,
                              !.unread = [v \in User |-> IF v = u THEN {}
                                            ELSE IF v \in Pair THEN @[v] \cup {m} ELSE @[v]]]
      /\ Goes(r, [step |-> "announce", user |-> u, message |-> m, conversation |-> chat.number])
      /\ UNCHANGED <<notice, socket, joined, screen, stale>>

SendMessage(r) == Handles(r, Chatting) /\ Posting(r, job[r].user)
SocketSend(r, u) == OnSocket(r, u) /\ Posting(r, u)

(* The members are read again, and told by user and by room.  Too late for *)
(* a message deleted meanwhile.                                            *)
Announce(r) ==
  LET j == job[r]
      told == IF chat.open /\ j.conversation = chat.number THEN Online(Pair) ELSE {}
  IN  /\ GoesOn(r, "announce")
      /\ screen' = Adding(told, j.message)
      /\ stale' = IF j.message \in Kept THEN stale ELSE stale \cup (told \X {j.message})
      /\ Goes(r, Idle)
      /\ UNCHANGED <<chat, notice, socket, joined>>

Reading(r, u) ==
  /\ Member(u)
  /\ chat' = [chat EXCEPT !.unread[u] = {}]
  /\ Goes(r, Idle)
  /\ UNCHANGED <<notice, socket, joined, screen, stale>>

MarkConversationRead(r) == Handles(r, Chatting) /\ Reading(r, job[r].user)
SocketRead(r, u) == OnSocket(r, u) /\ Reading(r, u)

DeleteMessage(r, m) ==
  LET u == job[r].user
  IN  /\ Handles(r, Chatting)
      /\ Member(u) /\ m \in Kept
      /\ job[r].admin \/ chat.sender[m] = u
      /\ chat' = [chat EXCEPT !.state[m] = "deleted",
                              !.unread = [v \in User |-> @[v] \ {m}]]
      /\ Goes(r, [step |-> "retract", user |-> u, message |-> m, conversation |-> chat.number])
      /\ UNCHANGED <<notice, socket, joined, screen, stale>>

(* Mutant: the room is not told. *)
RetractSilently(r) ==
  /\ GoesOn(r, "retract")
  /\ screen' = Removing({job[r].user}, job[r].message)
  /\ stale' = stale \cup ((Online(Pair) \ (joined \cup {job[r].user})) \X {job[r].message})
  /\ Goes(r, Idle)
  /\ UNCHANGED <<chat, notice, socket, joined>>

(* Only who is in the room hears of it.                                    *)
Retract(r) ==
  /\ GoesOn(r, "retract")
  /\ screen' = Removing(joined \cup {job[r].user}, job[r].message)
  /\ stale' = stale \cup ((Online(Pair) \ (joined \cup {job[r].user})) \X {job[r].message})
  /\ Goes(r, Idle)
  /\ UNCHANGED <<chat, notice, socket, joined>>

(* A conversation opened anew is another one, with a room of its own.      *)
DeleteConversation(r) ==
  /\ Handles(r, Chatting)
  /\ Member(job[r].user)
  /\ chat' = [chat EXCEPT !.open = FALSE, !.number = @ + 1,
                          !.state = [m \in Message |-> IF @[m] = "sent" THEN "deleted" ELSE @[m]],
                          !.unread = [u \in User |-> {}]]
  /\ screen' = [u \in User |-> Blank]
  /\ joined' = {}
  /\ Goes(r, Idle)
  /\ UNCHANGED <<notice, socket, stale>>

------------------------------------------------------------------------------
(* Broadcast *)

(* resolveRecipients reads active users only, whether all, those of a role *)
(* or those named.                                                         *)
Resolving(r, u, to) ==
  /\ notice.state = "none"
  /\ to # {} /\ to \subseteq Active \ {u}
  /\ Goes(r, [step |-> "broadcast", user |-> u, to |-> to])
  /\ UNCHANGED chatVars

ResolveRecipients(r, to) == Handles(r, Directing) /\ Resolving(r, job[r].user, to)
SocketResolve(r, u, to) == OnSocket(r, u) /\ socket[u].admin /\ Resolving(r, u, to)

CreateBroadcast(r) ==
  /\ GoesOn(r, "broadcast")
  /\ notice.state = "none"
  /\ notice' = [NoNotice EXCEPT !.state = "sent", !.sender = job[r].user, !.to = job[r].to]
  /\ Goes(r, Idle)
  /\ UNCHANGED <<chat, socket, joined, screen, stale>>

Seeing(r, u) ==
  /\ notice.state = "sent" /\ u \in notice.to \ notice.seen
  /\ notice' = [notice EXCEPT !.seen = @ \cup {u}]
  /\ Goes(r, Idle)
  /\ UNCHANGED <<chat, socket, joined, screen, stale>>

MarkSeen(r) == Handles(r, Chatting) /\ Seeing(r, job[r].user)
SocketSeen(r, u) == OnSocket(r, u) /\ Seeing(r, u)

DeleteBroadcast(r) ==
  /\ Handles(r, Directing)
  /\ notice.state = "sent"
  /\ notice' = [NoNotice EXCEPT !.state = "deleted"]
  /\ Goes(r, Idle)
  /\ UNCHANGED <<chat, socket, joined, screen, stale>>

------------------------------------------------------------------------------
(* The request fails: what it was to tell is not told. *)
Fail(r) ==
  /\ Drop(r)
  /\ stale' = IF job[r].step \in {"announce", "retract"}
              THEN stale \cup (Online(Pair) \X {job[r].message}) ELSE stale
  /\ UNCHANGED <<chat, notice, socket, joined, screen>>

(* The process starts anew, and every socket is closed.                    *)
RestartServer ==
  /\ Restart
  /\ socket' = [u \in User |-> NoSocket]
  /\ joined' = {}
  /\ screen' = [u \in User |-> Blank]
  /\ stale' = {}
  /\ UNCHANGED <<chat, notice>>

Handling(r) ==
  \/ \E u \in Pair : OpenDirect(r, u)
  \/ GetMessages(r) \/ SendMessage(r) \/ MarkConversationRead(r)
  \/ \E m \in Message : DeleteMessage(r, m)
  \/ DeleteConversation(r)
  \/ \E to \in SUBSET User : ResolveRecipients(r, to)
  \/ MarkSeen(r) \/ DeleteBroadcast(r)

Socketing(r, u) ==
  \/ SocketSend(r, u) \/ SocketRead(r, u) \/ SocketSeen(r, u)
  \/ \E to \in SUBSET User : SocketResolve(r, u, to)

GoingOn(r) == Connect(r) \/ MarkListed(r) \/ Announce(r) \/ Retract(r) \/ CreateBroadcast(r) \/ Fail(r)

WorkspaceNext ==
  \/ AccountsNext /\ UNCHANGED chatVars
  \/ \E r \in Request :
       \/ Handling(r) \/ GoingOn(r)
       \/ ops < MaxOps /\ At(r, "idle") /\ \E u \in User : Socketing(r, u)
  \/ \E u \in User : Disconnect(u) \/ \E there \in BOOLEAN : InRoom(u, there)
  \/ RestartServer

(* A client that is connected may have the conversation open, and shows it. *)
Init ==
  /\ AccountsInit
  /\ chat \in [open : BOOLEAN, number : Nat, state : [Message -> {"none", "sent", "deleted"}],
               sender : [Message -> User], unread : [User -> SUBSET Message]]
  /\ chat.open \/ Kept = {}
  /\ notice = NoNotice
  /\ socket \in [User -> {NoSocket} \cup [on : {TRUE}, admin : BOOLEAN, since : {0}]]
  /\ joined \in SUBSET Online(User)
  /\ screen \in [User -> {Blank, [open |-> TRUE, shows |-> Kept]}]
  /\ \A u \in User : screen[u].open => Member(u) /\ socket[u].on
  /\ stale = {}

Spec == Init /\ [][WorkspaceNext]_workspaceVars

------------------------------------------------------------------------------
(* Properties *)

Announcing == {job[r].message : r \in {x \in Request : At(x, "announce")}}
Retracting == {job[r].message : r \in {x \in Request : At(x, "retract")}}

(* A client that has listed the conversation since it connected shows the  *)
(* messages there are: all but those about to be announced, and no other   *)
(* but those about to be retracted.  What is wrong was excused: the client *)
(* was not in the room when a message was deleted, the message was deleted *)
(* before it was announced or listed, or the handler failed in between.    *)
ScreensAgree ==
  \A u \in Pair : screen[u].open =>
    \A m \in Message :
      \/ <<u, m>> \in stale
      \/ m \in Kept /\ (m \in screen[u].shows \/ m \in Announcing)
      \/ m \notin Kept /\ (m \notin screen[u].shows \/ m \in Retracting)
==============================================================================
