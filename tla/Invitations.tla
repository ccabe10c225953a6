------------------------------ MODULE Invitations ------------------------------
(***************************************************************************)
(* Friend requests and invitations to groups: the handlers of lsp/module.go *)
(* that answer them or, in protect mode, keep them for review; the commands *)
(* with which an administrator deals with those kept                        *)
(* (lsp/privateCommand.go); and the events that make them obsolete.         *)
(*                                                                         *)
(* Every event and every command runs in a goroutine of its own.  A request *)
(* is kept under its RequestId, the millisecond in which it came in.  The   *)
(* texts, and errors of the database, are left out.                         *)
(***************************************************************************)
EXTENDS Naturals, FiniteSets, Functions

CONSTANTS
    Users, Admins,  \* the users who make requests; those who are bot administrators
    Invited,        \* the groups they may invite the bot to
    Commands,       \* goroutines of commands
    MaxRequests,    \* bound: requests
    MaxChanges,     \* bound: changes of the mode, the block list, friends and groups
    SameMillisecond \* two requests may come in one millisecond

ASSUME InvitationsAssumption == MaxChanges \in Nat

Modes == {"public", "private", "protect"}
Kinds == {"friend", "group"}
Requests == 1..MaxRequests

VARIABLES
    mode, blocked,     \* ModeKey; the block list, of users and groups
    friends, joined,   \* the bot's friends, and its groups
    request,           \* request[r]: what request r is, RequestId included
    handler,           \* handler[r]: "none", "block", "list", "decide" or "done"
    pending,           \* pending[k]: the rows of a kind: a function from RequestIds
    groupAdmins,       \* pairs <<g, u>>: u has the role GroupAdmin in g
    command,           \* command[c]: what c has still to do
    changes,
    answers,           \* OneBot: answers[r]: the answers it was given to r
    kept,              \* history: the requests kept for review
    dealt,             \* history: those a command has replied about
    overtaken          \* history: those kept when the user became a friend, or the bot joined

worldVars   == <<friends, joined>>
settingVars == <<mode, blocked>>
requestVars == <<request, handler>>
inviteVars == <<settingVars, worldVars, requestVars, pending, groupAdmins, command, changes,
          answers, kept, dealt, overtaken>>

NoRequest == [kind |-> "none"]
Friend(u, id) == [kind |-> "friend", user |-> u, id |-> id]
Invitation(u, g, id) == [kind |-> "group", user |-> u, group |-> g, id |-> id]
NoCommand == [todo |-> {}, verdict |-> "none"]

InviteInit ==
    /\ mode \in Modes /\ blocked = {}
    /\ friends \in SUBSET Users /\ joined = {}
    /\ request = [r \in Requests |-> NoRequest]
    /\ handler = [r \in Requests |-> "none"]
    /\ pending = [k \in Kinds |-> <<>>]
    /\ groupAdmins = {}
    /\ command = [c \in Commands |-> NoCommand]
    /\ changes = 0
    /\ answers = [r \in Requests |-> {}]
    /\ kept = {} /\ dealt = {} /\ overtaken = {}

-----------------------------------------------------------------------------
(* Helpers *)

Kept(k) == Range(pending[k])

\* The row under RequestId id, whichever request it holds, is deleted.
Without(k, id) == [pending EXCEPT ![k] = Restrict(@, DOMAIN @ \ {id})]

\* saveRequest overwrites the row of another request with this RequestId.
Save(r) ==
    LET q == request[r] IN
    pending' = [pending EXCEPT ![q.kind] =
                  [i \in DOMAIN @ \cup {q.id} |-> IF i = q.id THEN r ELSE @[i]]]

\* SetFriendAddRequest, SetGroupAddRequest
Answer(r, verdict) == answers' = [answers EXCEPT ![r] = @ \cup {verdict}]

Goes(r, from, to) == handler[r] = from /\ handler' = [handler EXCEPT ![r] = to]

Change == changes < MaxChanges /\ changes' = changes + 1

-----------------------------------------------------------------------------
(* What happens outside *)

\* OneBot reports a request; RequestId is the time, in milliseconds.
Arrives(r) ==
    /\ request[r] = NoRequest /\ \A p \in Requests : p < r => request[p] # NoRequest
    /\ \E u \in Users :
       \E id \in {r} \cup (IF SameMillisecond /\ r > 1 THEN {request[r - 1].id} ELSE {}) :
          request' \in {[request EXCEPT ![r] = q] :
                          q \in {Friend(u, id)} \cup {Invitation(u, g, id) : g \in Invited \ joined}}
    /\ handler' = [handler EXCEPT ![r] = "block"]
    /\ UNCHANGED <<settingVars, worldVars, pending, groupAdmins, command, changes, answers, kept, dealt, overtaken>>

\* NewFriendEvent: u is a friend now, and what u has asked for is obsolete.
NewFriend(u) ==
    /\ Change /\ u \notin friends
    /\ friends' = friends \cup {u}
    /\ pending' = [pending EXCEPT !["friend"] =
                     Restrict(@, {i \in DOMAIN @ : request[@[i]].user # u})]
    /\ overtaken' = overtaken \cup {r \in kept : request[r].kind = "friend" /\ request[r].user = u}
    /\ UNCHANGED <<settingVars, joined, requestVars, groupAdmins, command, answers, kept, dealt>>

\* GroupJoinEvent: the invitors become administrators of the group, in one transaction.
GroupJoin(g) ==
    /\ Change /\ g \notin joined
    /\ joined' = joined \cup {g}
    /\ LET mine == {r \in Kept("group") : request[r].group = g} IN
       /\ pending' = [pending EXCEPT !["group"] = Restrict(@, {i \in DOMAIN @ : @[i] \notin mine})]
       /\ groupAdmins' = groupAdmins \cup {<<g, request[r].user>> : r \in mine}
    /\ overtaken' = overtaken \cup {r \in kept : request[r].kind = "group" /\ request[r].group = g}
    /\ UNCHANGED <<settingVars, friends, requestVars, command, answers, kept, dealt>>

\* GroupLeaveEvent, and QuitCommand: RemoveAllByGroup.
GroupLeave(g) ==
    /\ Change /\ g \in joined
    /\ joined' = joined \ {g}
    /\ groupAdmins' = {p \in groupAdmins : p[1] # g}
    /\ UNCHANGED <<settingVars, friends, requestVars, pending, command, answers, kept, dealt, overtaken>>

-----------------------------------------------------------------------------
(* GroupInvitedEvent, NewFriendRequestEvent *)

\* CheckBlockList of the user; a group a blocked user invites to is blocked.
ChecksBlock(r) ==
    /\ handler[r] = "block"
    /\ LET q == request[r] IN
       IF q.user \in blocked
       THEN /\ Goes(r, "block", "done")
            /\ blocked' = blocked \cup (IF q.kind = "group" THEN {q.group} ELSE {})
            /\ Answer(r, "reject")
       ELSE Goes(r, "block", "list") /\ UNCHANGED <<blocked, answers>>
    /\ UNCHANGED <<mode, worldVars, request, pending, groupAdmins, command, changes, kept, dealt, overtaken>>

\* The request for this user, or the invitation to this group, that is kept already.
Duplicates(r) ==
    {p \in Kept(request[r].kind) :
        IF request[r].kind = "friend" THEN request[p].user = request[r].user
        ELSE request[p].group = request[r].group}

\* Mutant of Lists: the one that is kept is deleted.
ListsAndDeletesKept(r) ==
    /\ handler[r] = "list"
    /\ IF Duplicates(r) # {}
       THEN /\ Goes(r, "list", "done")
            /\ pending' = Without(request[r].kind, request[CHOOSE p \in Duplicates(r) : TRUE].id)
       ELSE Goes(r, "list", "decide") /\ UNCHANGED pending
    /\ UNCHANGED <<settingVars, worldVars, request, groupAdmins, command, changes, answers, kept, dealt, overtaken>>

\* ListGroupInvitedRequest, ListNewFriendRequest: a second one is ignored, its row
\* (there is none, unless another has the same RequestId) deleted.
Lists(r) ==
    /\ handler[r] = "list"
    /\ IF Duplicates(r) # {}
       THEN Goes(r, "list", "done") /\ pending' = Without(request[r].kind, request[r].id)
       ELSE Goes(r, "list", "decide") /\ UNCHANGED pending
    /\ UNCHANGED <<settingVars, worldVars, request, groupAdmins, command, changes, answers, kept, dealt, overtaken>>

DecidesFriend(r) ==
    /\ request[r].kind = "friend" /\ Goes(r, "decide", "done")
    /\ IF mode = "protect"
       THEN Save(r) /\ kept' = kept \cup {r} /\ UNCHANGED answers
       ELSE Answer(r, IF mode = "public" THEN "accept" ELSE "reject") /\ UNCHANGED <<pending, kept>>
    /\ UNCHANGED <<settingVars, worldVars, request, groupAdmins, command, changes, dealt, overtaken>>

\* An invitation that is accepted unblocks the group, one that is rejected blocks it.
Decided(r, verdict) ==
    /\ Answer(r, verdict)
    /\ blocked' = IF verdict = "accept" THEN blocked \ {request[r].group}
                  ELSE blocked \cup {request[r].group}
    /\ UNCHANGED <<pending, kept>>

\* An invitor who is no friend is rejected, a bot administrator is not reviewed.
DecidesGroup(r) ==
    /\ request[r].kind = "group" /\ Goes(r, "decide", "done")
    /\ LET u == request[r].user IN
       \/ u \notin friends /\ Decided(r, "reject") /\ UNCHANGED groupAdmins
       \/ u \in friends \cap Admins /\ Decided(r, "accept") /\ UNCHANGED groupAdmins
       \/ u \in friends \ Admins /\ mode = "private" /\ Decided(r, "reject") /\ UNCHANGED groupAdmins
       \/ /\ u \in friends \ Admins /\ mode = "public" /\ Decided(r, "accept")
          /\ groupAdmins' = groupAdmins \cup {<<request[r].group, u>>}
       \/ /\ u \in friends \ Admins /\ mode = "protect"
          /\ Save(r) /\ kept' = kept \cup {r} /\ UNCHANGED <<answers, blocked, groupAdmins>>
    /\ UNCHANGED <<mode, worldVars, request, command, changes, dealt, overtaken>>

-----------------------------------------------------------------------------
(* Commands of administrators *)

\* ModeCommand, BlockCommand
ModeCommand ==
    /\ Change /\ mode' \in Modes \ {mode}
    /\ UNCHANGED <<blocked, worldVars, requestVars, pending, groupAdmins, command, answers, kept, dealt, overtaken>>

BlockCommand ==
    /\ Change
    /\ \E b \in Users \cup Invited :
          blocked' = IF b \in blocked THEN blocked \ {b} ELSE blocked \cup {b}
    /\ UNCHANGED <<mode, worldVars, requestVars, pending, groupAdmins, command, answers, kept, dealt, overtaken>>

\* FriendRequestCommand, GroupRequestCommand: one request, or --all, and --reject or not.
ReadsRequests(c) ==
    /\ command[c] = NoCommand
    /\ \E k \in Kinds, verdict \in {"accept", "reject"} :
       \E todo \in {{r} : r \in Kept(k)} \cup ({Kept(k)} \ {{}}) :
          command' = [command EXCEPT ![c] = [todo |-> todo, verdict |-> verdict]]
    /\ UNCHANGED <<settingVars, worldVars, requestVars, pending, groupAdmins, changes, answers, kept, dealt, overtaken>>

Done(c, r) ==
    LET left == command[c].todo \ {r}
    IN command' = [command EXCEPT ![c] = IF left = {} THEN NoCommand ELSE [@ EXCEPT !.todo = left]]

\* SolveFriendRequest, DeleteNewFriendRequest and the reply.
SolvesFriend(c, r) ==
    /\ r \in command[c].todo /\ request[r].kind = "friend"
    /\ Answer(r, command[c].verdict)
    /\ pending' = Without("friend", request[r].id)
    /\ dealt' = dealt \cup {r}
    /\ Done(c, r)
    /\ UNCHANGED <<settingVars, worldVars, requestVars, groupAdmins, changes, kept, overtaken>>

\* SolveGroupJoinRequest, which does nothing, the role, the block list, and the reply.
SolvesGroup(c, r) ==
    /\ r \in command[c].todo /\ request[r].kind = "group"
    /\ IF command[c].verdict = "accept"
       THEN /\ groupAdmins' = groupAdmins \cup {<<request[r].group, request[r].user>>}
            /\ blocked' = blocked \ {request[r].group}
       ELSE UNCHANGED <<groupAdmins, blocked>>
    /\ pending' = Without("group", request[r].id)
    /\ dealt' = dealt \cup {r}
    /\ Done(c, r)
    /\ UNCHANGED <<mode, worldVars, requestVars, changes, answers, kept, overtaken>>

-----------------------------------------------------------------------------
Handles(r) == ChecksBlock(r) \/ Lists(r) \/ DecidesFriend(r) \/ DecidesGroup(r)

InviteNext ==
    \/ \E r \in Requests : Arrives(r) \/ Handles(r)
    \/ \E u \in Users : NewFriend(u)
    \/ \E g \in Invited : GroupJoin(g) \/ GroupLeave(g)
    \/ ModeCommand \/ BlockCommand
    \/ \E c \in Commands : ReadsRequests(c)
    \/ \E c \in Commands, r \in Requests : SolvesFriend(c, r) \/ SolvesGroup(c, r)

InviteSpec == InviteInit /\ [][InviteNext]_inviteVars

-----------------------------------------------------------------------------
(* Properties *)

\* Every variable stays in its range; a row holds a request of its kind, under its RequestId.
InviteTypeOK ==
    /\ mode \in Modes /\ blocked \subseteq Users \cup Invited
    /\ friends \subseteq Users /\ joined \subseteq Invited
    /\ \A r \in Requests :
          request[r] \in {NoRequest} \cup {Friend(u, id) : u \in Users, id \in Requests}
                         \cup {Invitation(u, g, id) : u \in Users, g \in Invited, id \in Requests}
    /\ handler \in [Requests -> {"none", "block", "list", "decide", "done"}]
    /\ \A k \in Kinds : \A i \in DOMAIN pending[k] :
          request[pending[k][i]].kind = k /\ request[pending[k][i]].id = i
    /\ groupAdmins \subseteq Invited \X Users
    /\ command \in [Commands -> [todo : SUBSET Requests, verdict : {"none", "accept", "reject"}]]
    /\ changes \in 0..MaxChanges
    /\ answers \in [Requests -> SUBSET {"accept", "reject"}]
    /\ kept \subseteq Requests /\ dealt \subseteq kept /\ overtaken \subseteq kept

\* A request kept for review stays where the administrators find it until one of them
\* deals with it, the user becomes a friend, or the bot enters the group; second requests,
\* of the same user or for the same group, do not push it out.
StaysListed ==
    \A r \in kept \ (dealt \cup overtaken) : r \in Kept(request[r].kind)

\* No request is both accepted and rejected.
OneAnswer == \A r \in Requests : Cardinality(answers[r]) <= 1

\* Both: what is kept is neither lost nor answered in two ways.
RequestsKept == StaysListed /\ OneAnswer

\* EXAMPLE.md: the administrators accept and reject the requests that are kept, so what
\* a command says it has dealt with OneBot has been told.
CommandsAnswer == \A r \in dealt : answers[r] # {}
=============================================================================
