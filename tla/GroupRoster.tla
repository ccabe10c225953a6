----------------------------- MODULE GroupRoster -----------------------------
(***************************************************************************)
(* The cached group list and its members (adapter/messenger.go): what the  *)
(* notices of OneBot do to it (handleNoticeEvent, AddGroupMember,          *)
(* RemoveGroupMember, UpdateGroupMember), reloading it (ReloadGroupList,   *)
(* GetGroupMembersByID) and who wins when they overlap.                    *)
(*                                                                         *)
(* Every notice is handled in a goroutine of its own.  A handler looks up  *)
(* the *GroupInfo before it locks groupMu, so it may hold a pointer to an  *)
(* object that a reload has replaced: objects are numbered, and the list   *)
(* maps a group to the number of its object, 0 when it is not listed.      *)
(***************************************************************************)
EXTENDS Naturals, FiniteSets, Sequences, SequencesExt

CONSTANTS
    Groups, Users,  \* groups, and their possible members other than the bot
    Handlers,       \* bound: goroutines in flight
    MaxObjects,     \* bound: *GroupInfo objects reachable at once
    MaxEvents       \* bound: changes on OneBot's side and reloads

\* A notice without a user, "", is about the bot itself.
ASSUME GroupRosterAssumption == "" \notin Users /\ MaxEvents \in Nat

Objects == 1..MaxObjects
Roles   == {"member", "admin"}

VARIABLES
    bot,      \* OneBot's side: the groups the bot is in
    truth,    \* OneBot's side: the role of each user in each group, or "none"
    list,     \* GroupList
    members,  \* per object: the roles of a user's entries in Members, in order
    task,     \* per handler: what it does, how far it is, what it has read
    events,   \* how many changes and reloads there were
    clean     \* history: a reload began when nothing ran, and since then no call failed,
              \* no two handlers ran at once, and the bot kicked nobody

rosterVars == <<bot, truth, list, members, task, events, clean>>

Idle    == [kind |-> "idle", at |-> "", g |-> "", u |-> "", role |-> "", obj |-> 0,
            all |-> <<>>, todo |-> {}]
NoOne   == [u \in Users |-> <<>>]

RosterInit ==
    /\ bot \in SUBSET Groups
    /\ truth \in [Groups -> [Users -> {"none", "member"}]]
    /\ list = [g \in Groups |-> 0]
    /\ members = [o \in Objects |-> NoOne]
    /\ task = [h \in Handlers |-> Idle]
    /\ events = 0 /\ clean = FALSE

\* An object that nothing points to any more, or never did.
Unused == Objects \ ({list[g] : g \in Groups} \cup {task[h].obj : h \in Handlers})

At(h, kinds, l) == task[h].kind \in kinds /\ task[h].at = l
Goto(h, l)      == task' = [task EXCEPT ![h].at = l]
Ends(h)         == task' = [task EXCEPT ![h] = Idle]

-----------------------------------------------------------------------------
(* OneBot's side, and the goroutine that each notice starts *)

Quiet == \A h \in Handlers : task[h] = Idle

Starts(h, kind, l, g, u, role) ==
    /\ task[h] = Idle /\ events < MaxEvents
    /\ events' = events + 1
    /\ clean' = (Quiet /\ (clean \/ kind = "reload") /\ ~(kind = "left" /\ u # ""))
    /\ task' = [task EXCEPT ![h] = [Idle EXCEPT !.kind = kind, !.at = l, !.g = g, !.u = u, !.role = role]]
    /\ UNCHANGED <<list, members>>

MemberJoins(h, g, u) ==
    /\ g \in bot /\ truth[g][u] = "none"
    /\ truth' = [truth EXCEPT ![g][u] = "member"] /\ bot' = bot
    /\ Starts(h, "increase", "find", g, u, "")

MemberLeaves(h, g, u) ==
    /\ g \in bot /\ truth[g][u] # "none"
    /\ truth' = [truth EXCEPT ![g][u] = "none"] /\ bot' = bot
    /\ Starts(h, "decrease", "find", g, u, "")

\* The bot kicks a member: the notice names the bot as its operator.
BotKicks(h, g, u) ==
    /\ g \in bot /\ truth[g][u] # "none"
    /\ truth' = [truth EXCEPT ![g][u] = "none"] /\ bot' = bot
    /\ Starts(h, "left", "find", g, u, "")

AdminChanges(h, g, u, role) ==
    /\ g \in bot /\ truth[g][u] \in Roles \ {role}
    /\ truth' = [truth EXCEPT ![g][u] = role] /\ bot' = bot
    /\ Starts(h, "admin", "find", g, u, role)

BotJoins(h, g) ==
    /\ g \notin bot
    /\ bot' = bot \cup {g} /\ truth' = truth
    /\ Starts(h, "join", "enlist", g, "", "")

BotLeaves(h, g) ==
    /\ g \in bot
    /\ bot' = bot \ {g} /\ truth' = truth
    /\ Starts(h, "left", "find", g, "", "")

Reload(h) ==
    /\ bot' = bot /\ truth' = truth
    /\ Starts(h, "reload", "groups", "", "", "")

-----------------------------------------------------------------------------
(* handleNoticeEvent *)

\* FindGroupByUin, under groupMu.RLock: the object, held after the unlock.
Find(h) ==
    /\ task[h].at = "find"
    /\ LET o == list[task[h].g]
       IN IF o = 0
          THEN Ends(h)
          ELSE task' = [task EXCEPT ![h].obj = o,
                          ![h].at = IF task[h].kind = "increase" THEN "info" ELSE "apply"]
    /\ UNCHANGED <<bot, truth, list, members, events, clean>>

\* AddGroupMember: GetGroupMemberInfo.
GetInfo(h) ==
    /\ At(h, {"increase"}, "info")
    /\ LET role == truth[task[h].g][task[h].u]
       IN \/ role # "none" /\ task' = [task EXCEPT ![h].at = "apply", ![h].role = role] /\ clean' = clean
          \/ Ends(h) /\ clean' = (clean /\ role = "none")
    /\ UNCHANGED <<bot, truth, list, members, events>>

\* The first entry of the user is updated; without one AddGroupMember appends.
ReplaceFirst(entries, role) == <<role>> \o SubSeq(entries, 2, Len(entries))

AddMember(h) ==
    /\ At(h, {"increase"}, "apply")
    /\ members' = [members EXCEPT ![task[h].obj][task[h].u] =
                      IF @ = <<>> THEN <<task[h].role>> ELSE ReplaceFirst(@, task[h].role)]
    /\ Ends(h)
    /\ UNCHANGED <<bot, truth, list, events, clean>>

\* RemoveGroupMember: the first entry.
RemoveMember(h) ==
    /\ At(h, {"decrease"}, "apply")
    /\ members' = [members EXCEPT ![task[h].obj][task[h].u] = IF @ = <<>> THEN @ ELSE Tail(@)]
    /\ Ends(h)
    /\ UNCHANGED <<bot, truth, list, events, clean>>

\* Mutant of UpdateMember: an admin who is dismissed stays one.
UpdateMemberAsAdmin(h) ==
    /\ At(h, {"admin"}, "apply")
    /\ members' = [members EXCEPT ![task[h].obj][task[h].u] =
                      IF @ = <<>> THEN @ ELSE ReplaceFirst(@, "admin")]
    /\ Ends(h)
    /\ UNCHANGED <<bot, truth, list, events, clean>>

\* UpdateGroupMember with the role of a group_admin notice.
UpdateMember(h) ==
    /\ At(h, {"admin"}, "apply")
    /\ members' = [members EXCEPT ![task[h].obj][task[h].u] =
                      IF @ = <<>> THEN @ ELSE ReplaceFirst(@, task[h].role)]
    /\ Ends(h)
    /\ UNCHANGED <<bot, truth, list, events, clean>>

\* The bot left (kick_me, or its own Uin is the operator): the group goes.
RemoveGroup(h) ==
    /\ At(h, {"left"}, "apply")
    /\ list' = [list EXCEPT ![task[h].g] = 0]
    /\ Ends(h)
    /\ UNCHANGED <<bot, truth, members, events, clean>>

\* The bot joined: a group that is listed keeps its object.
Enlist(h) ==
    /\ At(h, {"join"}, "enlist")
    /\ \/ list[task[h].g] # 0 /\ UNCHANGED <<list, members>>
       \/ /\ list[task[h].g] = 0
          /\ \E o \in Unused :
                /\ list' = [list EXCEPT ![task[h].g] = o]
                /\ members' = [members EXCEPT ![o] = NoOne]
    /\ Goto(h, "members")
    /\ UNCHANGED <<bot, truth, events, clean>>

-----------------------------------------------------------------------------
(* GetGroupMembersByID, for a group that was joined and for a reload *)

\* Where a handler goes on after the members of its group.
AfterMembers(h) ==
    IF task[h].kind = "reload"
    THEN task' = [task EXCEPT ![h].at = "next", ![h].obj = 0, ![h].all = <<>>]
    ELSE Ends(h)

AllMembers(g) == [u \in Users |-> IF truth[g][u] = "none" THEN <<>> ELSE <<truth[g][u]>>]

FetchMembers(h) ==
    /\ At(h, {"join", "reload"}, "members")
    /\ \/ /\ task[h].g \in bot
          /\ task' = [task EXCEPT ![h].at = "store", ![h].all = AllMembers(task[h].g)]
          /\ clean' = clean
       \/ AfterMembers(h) /\ clean' = (clean /\ task[h].g \notin bot)
    /\ UNCHANGED <<bot, truth, list, members, events>>

\* FindGroupByUin after the call, before the lock.
FindToStore(h) ==
    /\ At(h, {"join", "reload"}, "store")
    /\ IF list[task[h].g] = 0
       THEN AfterMembers(h)
       ELSE task' = [task EXCEPT ![h].at = "set", ![h].obj = list[task[h].g]]
    /\ UNCHANGED <<bot, truth, list, members, events, clean>>

SetMembers(h) ==
    /\ At(h, {"join", "reload"}, "set")
    /\ members' = [members EXCEPT ![task[h].obj] = task[h].all]
    /\ AfterMembers(h)
    /\ UNCHANGED <<bot, truth, list, events, clean>>

-----------------------------------------------------------------------------
(* reloadLists *)

\* The answer of GetGroupList.
FetchGroups(h) ==
    /\ At(h, {"reload"}, "groups")
    /\ \/ task' = [task EXCEPT ![h].at = "swap", ![h].todo = bot] /\ clean' = clean
       \/ Ends(h) /\ clean' = FALSE
    /\ UNCHANGED <<bot, truth, list, members, events>>

\* ReloadGroupList: every group gets a new object without members.
SwapList(h) ==
    /\ At(h, {"reload"}, "swap")
    /\ \E new \in [Groups -> {0} \cup Unused] :
          /\ \A g \in Groups : new[g] # 0 <=> g \in task[h].todo
          /\ \A g, k \in task[h].todo : new[g] = new[k] => g = k
          /\ list' = new
          /\ members' = [o \in Objects |-> IF o \in {new[g] : g \in Groups} THEN NoOne ELSE members[o]]
    /\ Goto(h, "next")
    /\ UNCHANGED <<bot, truth, events, clean>>

NextGroup(h) ==
    /\ At(h, {"reload"}, "next")
    /\ \/ \E g \in task[h].todo :
             task' = [task EXCEPT ![h].at = "members", ![h].g = g, ![h].todo = @ \ {g}]
       \/ task[h].todo = {} /\ Ends(h)
    /\ UNCHANGED <<bot, truth, list, members, events, clean>>

-----------------------------------------------------------------------------
Change(h) ==
    \/ \E g \in Groups, u \in Users :
          \/ MemberJoins(h, g, u) \/ MemberLeaves(h, g, u) \/ BotKicks(h, g, u)
          \/ \E role \in Roles : AdminChanges(h, g, u, role)
    \/ \E g \in Groups : BotJoins(h, g) \/ BotLeaves(h, g)
    \/ Reload(h)

Step(h) ==
    \/ Find(h) \/ GetInfo(h) \/ AddMember(h) \/ RemoveMember(h) \/ UpdateMember(h)
    \/ RemoveGroup(h) \/ Enlist(h)
    \/ FetchMembers(h) \/ FindToStore(h) \/ SetMembers(h)
    \/ FetchGroups(h) \/ SwapList(h) \/ NextGroup(h)

\* Notices and reloads overlap in every way.
RosterNext == \E h \in Handlers : Change(h) \/ Step(h)
RosterSpec == RosterInit /\ [][RosterNext]_rosterVars

-----------------------------------------------------------------------------
(* Properties *)

RosterTypeOK ==
    /\ bot \subseteq Groups
    /\ truth \in [Groups -> [Users -> Roles \cup {"none"}]]
    /\ list \in [Groups -> {0} \cup Objects]
    /\ \A o \in Objects, u \in Users :
          members[o][u] \in Seq(Roles) /\ Len(members[o][u]) <= 1
    /\ events \in 0..MaxEvents /\ clean \in BOOLEAN
    /\ \A h \in Handlers : task[h].obj \in {0} \cup Objects

\* A reload repairs whatever overlapping notices left wrong, and what is handled
\* one after the other keeps the cache right: the groups listed are those the bot
\* is in, with the members OneBot has.
RosterMatches ==
    Quiet /\ clean =>
        \A g \in Groups : /\ list[g] # 0 <=> g \in bot
                         /\ g \in bot => members[list[g]] = AllMembers(g)

\* A group the bot is in stays listed: only the bot's leaving, or a reload, removes
\* it (the comment in handleNoticeEvent: kicked or left).
KeepsItsGroups ==
    [][\A g \in Groups :
          (g \in bot /\ g \in bot' /\ list[g] # 0 /\ list'[g] = 0) =>
          (\E h \in Handlers : \/ At(h, {"reload"}, "swap")
                               \/ At(h, {"left"}, "apply") /\ task[h].u = "")]_rosterVars
=============================================================================
