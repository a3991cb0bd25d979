----------------------------- MODULE MCWorkspace -----------------------------
(* A small instance of Workspace for TLC. *)
EXTENDS Workspace, TLC

CONSTANTS owner, clerk, temp, STAFF, MESSAGING, im, admin

Symmetry == Permutations(Request)

(* STAFF lacks the chat, MESSAGING has it. *)
ByName == [ro \in Role |-> IF ro = MESSAGING THEN {im} ELSE {}]

(* The owner and a clerk with role MESSAGING are at work, each with a      *)
(* session; both seats are taken.  The clerk is connected, in the room,    *)
(* and has the conversation open, with one message of the owner.  The      *)
(* owner has asked for a reset code.                                       *)
MCInit ==
  /\ now = 0
  /\ code = [c \in Code |-> IF c = 1 THEN Issued(owner) ELSE NoCode]
  /\ user = [u \in User |-> [status |-> IF u = temp THEN "none" ELSE "ACTIVE",
                             admin |-> u = owner, password |-> 0]]
  /\ company = [active |-> TRUE, limit |-> 2, modules |-> Permission]
  /\ session = [s \in Session |-> [user |-> IF s = 1 THEN owner ELSE clerk,
                                   state |-> IF s < 3 THEN "open" ELSE "none",
                                   expires |-> SessionTtl, password |-> 0]]
  /\ access = [named |-> {MESSAGING}, active |-> {MESSAGING},
               assigned |-> {<<clerk, MESSAGING>>}, userPerm |-> {}, rolePerm |-> {}]
  /\ chat = [open |-> TRUE, number |-> 1,
             state |-> [m \in Message |-> IF m = 1 THEN "sent" ELSE "none"],
             sender |-> [m \in Message |-> owner], unread |-> [u \in User |-> {}]]
  /\ socket = [u \in User |-> IF u = clerk THEN [on |-> TRUE, admin |-> FALSE, since |-> 0] ELSE NoSocket]
  /\ joined = {clerk}
  /\ screen = [u \in User |-> IF u = clerk THEN [open |-> TRUE, shows |-> {1}] ELSE Blank]
  /\ Init

MCSpec == MCInit /\ [][WorkspaceNext]_workspaceVars
==============================================================================
