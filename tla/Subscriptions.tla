---------------------------- MODULE Subscriptions ----------------------------
(***************************************************************************)
(* The subscriptions of one site (lsp/concern/stateManager.go): the rows of *)
(* the database, which say which group follows which id for which types,    *)
(* and the types that the emit queue, which drives the polling, holds for   *)
(* each id.                                                                 *)
(*                                                                         *)
(* AddGroupConcern and RemoveGroupConcern change the row in a transaction   *)
(* (transactions exclude each other), then read the union of the id's types *)
(* over all groups, then bring the emit queue up to date: three steps, and  *)
(* every command runs in a goroutine of its own.  The order of the ids and  *)
(* the polling itself are in EmitQueue.                                     *)
(***************************************************************************)
EXTENDS Naturals, FiniteSets, Functions

CONSTANTS
    Callers,        \* goroutines that run commands
    Codes,          \* group codes: numbers, since the keys hold their digits
    SiteIds,        \* ids of the site
    Types,          \* the site's trivial concern types
    MaxGroupConcern,\* at most so many ids per group; 0 is no limit
    MaxRestarts     \* bound: how often the process restarts

ASSUME SubscriptionsAssumption ==
    IsFiniteSet(SiteIds) /\ MaxGroupConcern \in Nat /\ MaxRestarts \in Nat

VARIABLES
    db,      \* db[g][i]: the types of GroupConcernStateKey(g, i); no key: {}
    configs, \* the pairs <<g, i>> with a GroupConcernConfigKey
    queue,   \* the emit queue: its ids, each with its types
    call,    \* call[c]: what c runs, see NoCall
    start,   \* StateManager.Start: "new", "adding" or "done"
    toAdd,   \* the ids that Start has still to add to the queue, with their types
    restarts

startVars == <<start, toAdd, restarts>>
subsVars == <<db, configs, queue, call, startVars>>

NoCall == [op |-> "none"]

\* A call between its steps: "read" next reads GetConcern, "poll" next updates the
\* emit queue with all, which GetConcern returned.
Calls == {NoCall} \cup
    [op : {"add", "remove"}, pc : {"read"}, id : SiteIds] \cup
    [op : {"add", "remove"}, pc : {"poll"}, id : SiteIds, all : SUBSET Types]

SubsInit ==
    /\ db = [g \in Codes |-> [i \in SiteIds |-> {}]]
    /\ configs = {}
    /\ queue = <<>>
    /\ call = [c \in Callers |-> NoCall]
    /\ start = "new" /\ toAdd = <<>>
    /\ restarts = 0

-----------------------------------------------------------------------------
(* Helpers *)

\* Mutant of GetConcern: one group's types only.
GetConcernOfOne(i) ==
    LET followers == {g \in Codes : db[g][i] # {}}
    IN IF followers = {} THEN {} ELSE db[CHOOSE g \in followers : TRUE][i]

\* GetConcern(i): the types of i in all groups.
GetConcern(i) == UNION {db[g][i] : g \in Codes}

\* The ids group g follows: GroupTypeById(ListConcernState(...)).
FollowedBy(g) == {i \in SiteIds : db[g][i] # {}}
Followed == {i \in SiteIds : GetConcern(i) # {}}

\* The types the emit queue holds for i.
Polled(i) == IF i \in DOMAIN queue THEN queue[i] ELSE {}

\* EmitQueue's Add, Update and Delete.
QueueAdd(i, all) ==
    [j \in DOMAIN queue \cup {i} |-> IF j = i THEN Polled(i) \cup all ELSE queue[j]]
QueueUpdate(i, all) == [j \in DOMAIN queue |-> IF j = i THEN all ELSE queue[j]]
QueueDelete(i) == Restrict(queue, DOMAIN queue \ {i})

\* strings.HasPrefix on the keys: the digits of g begin the digits of h.
HasPrefix(h, g) ==
    LET begins[n \in 0..h] == n = g \/ (n > 9 /\ begins[n \div 10])
    IN begins[h]

-----------------------------------------------------------------------------
(* AddGroupConcern, RemoveGroupConcern *)

NotCalling(c) == call[c] = NoCall

\* CheckGroupConcern and the limit, in the transaction.
MayAdd(g, i, t) ==
    /\ t \notin db[g][i]
    /\ MaxGroupConcern > 0 => Cardinality(FollowedBy(g)) < MaxGroupConcern

AddTx(c, g, i, t) ==
    /\ NotCalling(c) /\ MayAdd(g, i, t)
    /\ db' = [db EXCEPT ![g][i] = @ \cup {t}]
    /\ call' = [call EXCEPT ![c] = [op |-> "add", pc |-> "read", id |-> i]]
    /\ UNCHANGED <<configs, queue, startVars>>

RemoveTx(c, g, i, t) ==
    /\ NotCalling(c) /\ t \in db[g][i]
    /\ db' = [db EXCEPT ![g][i] = @ \ {t}]
    /\ call' = [call EXCEPT ![c] = [op |-> "remove", pc |-> "read", id |-> i]]
    /\ UNCHANGED <<configs, queue, startVars>>

ReadConcern(c) ==
    /\ call[c].op # "none" /\ call[c].pc = "read"
    /\ call' = [call EXCEPT ![c] =
                  [op |-> @.op, pc |-> "poll", id |-> @.id, all |-> GetConcern(@.id)]]
    /\ UNCHANGED <<db, configs, queue, startVars>>

Poll(c) ==
    /\ call[c].op = "add" /\ call[c].pc = "poll"
    /\ queue' = QueueAdd(call[c].id, call[c].all)
    /\ call' = [call EXCEPT ![c] = NoCall]
    /\ UNCHANGED <<db, configs, startVars>>

PollLess(c) ==
    /\ call[c].op = "remove" /\ call[c].pc = "poll"
    /\ queue' = IF call[c].all = {} THEN QueueDelete(call[c].id)
                ELSE QueueUpdate(call[c].id, call[c].all)
    /\ call' = [call EXCEPT ![c] = NoCall]
    /\ UNCHANGED <<db, configs, startVars>>

-----------------------------------------------------------------------------
(* The operations that are one transaction *)

\* OperateGroupConcernConfig.
Configure(g, i) ==
    /\ configs' = configs \cup {<<g, i>>}
    /\ UNCHANGED <<db, queue, call, startVars>>

\* RemoveAllByGroupCode: the bot left the group.  Every key with the prefix goes;
\* the emit queue is left alone.
RemoveAllByGroupCode(g) ==
    /\ db' = [h \in Codes |-> IF HasPrefix(h, g) THEN [i \in SiteIds |-> {}] ELSE db[h]]
    /\ configs' = {k \in configs : ~HasPrefix(k[1], g)}
    /\ UNCHANGED <<queue, call, startVars>>

\* RemoveAllById: a refresh found that the id is gone from the site.
RemoveAllById(i) ==
    /\ start = "done"
    /\ db' = [g \in Codes |-> [db[g] EXCEPT ![i] = {}]]
    /\ queue' = QueueDelete(i)
    /\ UNCHANGED <<configs, call, startVars>>

-----------------------------------------------------------------------------
(* Start, when the bot is online; commands may come before and meanwhile *)

\* ListConcernState and GroupTypeById: one read transaction.
StartLists ==
    /\ start = "new"
    /\ start' = "adding"
    /\ toAdd' = [i \in Followed |-> GetConcern(i)]
    /\ UNCHANGED <<db, configs, queue, call, restarts>>

StartAdds(i) ==
    /\ start = "adding" /\ i \in DOMAIN toAdd
    /\ queue' = QueueAdd(i, toAdd[i])
    /\ toAdd' = Restrict(toAdd, DOMAIN toAdd \ {i})
    /\ UNCHANGED <<db, configs, call, start, restarts>>

\* All added: go c.Fresh.
StartEnds ==
    /\ start = "adding" /\ toAdd = <<>>
    /\ start' = "done"
    /\ UNCHANGED <<db, configs, queue, call, toAdd, restarts>>

\* The process stops at any point and comes up again: the database is left.
Restart ==
    /\ restarts < MaxRestarts
    /\ restarts' = restarts + 1
    /\ queue' = <<>> /\ toAdd' = <<>>
    /\ start' = "new"
    /\ call' = [c \in Callers |-> NoCall]
    /\ UNCHANGED <<db, configs>>

-----------------------------------------------------------------------------
GroupCommands ==
    \/ \E c \in Callers, g \in Codes, i \in SiteIds, t \in Types :
          AddTx(c, g, i, t) \/ RemoveTx(c, g, i, t)
    \/ \E c \in Callers : ReadConcern(c) \/ Poll(c) \/ PollLess(c)
    \/ \E g \in Codes, i \in SiteIds : Configure(g, i)

SubsNext ==
    \/ GroupCommands
    \/ \E g \in Codes : RemoveAllByGroupCode(g)
    \/ \E i \in SiteIds : RemoveAllById(i) \/ StartAdds(i)
    \/ StartLists \/ StartEnds \/ Restart

SubsSpec == SubsInit /\ [][SubsNext]_subsVars

-----------------------------------------------------------------------------
(* Properties *)

\* Every variable stays in its range, and no group follows more ids than the limit.
SubsTypeOK ==
    /\ db \in [Codes -> [SiteIds -> SUBSET Types]]
    /\ MaxGroupConcern > 0 =>
          \A g \in Codes : Cardinality(FollowedBy(g)) <= MaxGroupConcern
    /\ configs \subseteq Codes \X SiteIds
    /\ DOMAIN queue \subseteq SiteIds
    /\ queue \in [DOMAIN queue -> SUBSET Types]
    /\ call \in [Callers -> Calls]
    /\ start \in {"new", "adding", "done"}
    /\ DOMAIN toAdd \subseteq SiteIds
    /\ toAdd \in [DOMAIN toAdd -> SUBSET Types]
    /\ restarts \in 0..MaxRestarts

\* What is subscribed is polled: once Start is done, and while no command is under
\* way for an id, the emit queue holds it with every type some group follows it for.
SubscribedIsPolled ==
    start = "done" =>
        \A i \in SiteIds :
            (\A c \in Callers : call[c].op # "none" => call[c].id # i)
                => GetConcern(i) \subseteq Polled(i)

\* When the bot leaves a group, what the other groups follow, and their settings,
\* stay.
OwnGroupOnly ==
    [][\A g \in Codes :
          RemoveAllByGroupCode(g) =>
              /\ \A h \in Codes \ {g} : db'[h] = db[h]
              /\ \A k \in configs : k[1] # g => k \in configs']_subsVars
=============================================================================
