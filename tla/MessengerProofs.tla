---------------------------- MODULE MessengerProofs ----------------------------
(***************************************************************************)
(* Proofs about GroupRoster.  While handlers overlap the lists may be wrong *)
(* in any way; from a reload that began when nothing ran, and as long as    *)
(* one handler runs at a time, no call fails and the bot kicks nobody, what *)
(* is wrong is only what the one handler still has to put right.            *)
(*                                                                         *)
(* Proofs about MessageChunks, for messages and texts of any length: the    *)
(* finished chunks are good ones, the open one may still be finished or     *)
(* grow, and a step moves what the message says without changing it.  What  *)
(* recursive functions compute is proved by induction, for which a set of   *)
(* numbers takes the place of the predicate.                                *)
(***************************************************************************)
EXTENDS GroupRoster, MessageChunks, SequenceTheorems, FiniteSetTheorems,
        WellFoundedInduction, TLAPS

-----------------------------------------------------------------------------
(* GroupRoster *)

\* A user has one entry or none.
Entries == {<<>>} \cup {<<r>> : r \in Roles}
Rosters == [Users -> Entries]

Notices == {"increase", "decrease", "admin", "left"}

TaskType ==
    [kind : Notices \cup {"idle", "join", "reload"},
     at : {"", "find", "info", "apply", "enlist", "members", "store", "set", "groups", "swap", "next"},
     g : Groups \cup {""}, u : Users \cup {""}, role : Roles \cup {""}, obj : {0} \cup Objects,
     all : Rosters \cup {<<>>}, todo : SUBSET Groups]

\* How far a handler can be, and what it has read there.
TaskOK(h) ==
    /\ task[h] \in TaskType
    /\ task[h].at = "" => task[h] = Idle
    /\ task[h].at \in {"find", "apply"} => task[h].kind \in Notices
    /\ task[h].at = "info" => task[h].kind = "increase"
    /\ task[h].at = "enlist" => task[h].kind = "join"
    /\ task[h].at \in {"groups", "swap", "next"} => task[h].kind = "reload"
    /\ task[h].at \in {"members", "store", "set"} => task[h].kind \in {"join", "reload"}
    /\ task[h].at \in {"find", "info", "apply", "enlist", "members", "store", "set"} => task[h].g \in Groups
    /\ task[h].kind \in {"increase", "decrease", "admin"} => task[h].u \in Users
    /\ task[h].kind = "admin" => task[h].role \in Roles
    /\ task[h].at \in {"info", "apply", "set"} => task[h].obj \in Objects
    /\ task[h].at = "apply" /\ task[h].kind = "increase" => task[h].role \in Roles
    /\ task[h].at \in {"store", "set"} => task[h].all \in Rosters

Typed ==
    /\ bot \subseteq Groups
    /\ truth \in [Groups -> [Users -> Roles \cup {"none"}]]
    /\ list \in [Groups -> {0} \cup Objects]
    /\ members \in [Objects -> Rosters]
    /\ clean \in BOOLEAN
    /\ task \in [Handlers -> TaskType]
    /\ \A h \in Handlers : TaskOK(h)

\* No two groups share an object.
Distinct == \A g, k \in Groups : list[g] = list[k] /\ list[g] # 0 => g = k

-----------------------------------------------------------------------------
(* What is right, and what a handler still has to put right *)

Known(g) == list[g] # 0 <=> g \in bot
Right(g) == Known(g) /\ (g \in bot => members[list[g]] = AllMembers(g))
AllRight == \A g \in Groups : Right(g)

\* A notice is about one group, and about one member of it unless the bot came or left.
NoticeDue(h) ==
    /\ \A k \in Groups \ {task[h].g} : Right(k)
    /\ task[h].kind \in {"increase", "decrease", "admin"} =>
          /\ task[h].g \in bot /\ list[task[h].g] # 0
          /\ \A v \in Users \ {task[h].u} : members[list[task[h].g]][v] = AllMembers(task[h].g)[v]
          /\ task[h].at \in {"info", "apply"} => task[h].obj = list[task[h].g]
    /\ task[h].kind = "increase" =>
          /\ truth[task[h].g][task[h].u] \in Roles
          /\ task[h].at = "apply" => task[h].role = truth[task[h].g][task[h].u]
    /\ task[h].kind = "decrease" => truth[task[h].g][task[h].u] = "none"
    /\ task[h].kind = "admin" =>
          /\ task[h].role = truth[task[h].g][task[h].u]
          /\ members[list[task[h].g]][task[h].u] # <<>>
    /\ task[h].kind = "left" => task[h].g \notin bot

\* The members of the group at hand have been asked for.
MembersDue(h) ==
    /\ task[h].g \in bot /\ list[task[h].g] # 0
    /\ task[h].at \in {"store", "set"} => task[h].all = AllMembers(task[h].g)
    /\ task[h].at = "set" => task[h].obj = list[task[h].g]

JoinDue(h) ==
    /\ \A k \in Groups \ {task[h].g} : Right(k)
    /\ task[h].g \in bot
    /\ task[h].at # "enlist" => MembersDue(h)

\* A reload knows the groups once it has swapped the list; todo are those whose
\* members it has not asked for.
ReloadDue(h) ==
    /\ task[h].at = "swap" => task[h].todo = bot
    /\ task[h].at \in {"next", "members", "store", "set"} =>
          /\ task[h].todo \subseteq bot
          /\ \A k \in Groups : Known(k)
          /\ \A k \in Groups \ task[h].todo :
                Right(k) \/ (task[h].at # "next" /\ k = task[h].g)
    /\ task[h].at \in {"members", "store", "set"} => MembersDue(h)

Due(h) ==
    /\ task[h].kind \in Notices => NoticeDue(h)
    /\ task[h].kind = "join" => JoinDue(h)
    /\ task[h].kind = "reload" => ReloadDue(h)

\* One handler runs at most, and when it ends all is right.
Orderly ==
    /\ \A h, k \in Handlers : task[h] # Idle /\ task[k] # Idle => h = k
    /\ Quiet => AllRight
    /\ \A h \in Handlers : task[h] # Idle => Due(h)

\* The inductive invariant.
IInv == Typed /\ Distinct /\ (clean => Orderly)

-----------------------------------------------------------------------------
(* Entries and tasks *)

\* Replacing the first of one entry leaves that one, removing it leaves none.
LEMMA OneEntry ==
    ASSUME NEW e \in Entries, e # <<>>, NEW r \in Roles
    PROVE  ReplaceFirst(e, r) = <<r>> /\ Tail(e) = <<>>
  <1>1. PICK x \in Roles : e = <<x>>
    BY DEF Entries
  <1>2. Tail(e) = <<>> /\ SubSeq(e, 2, Len(e)) = <<>>
    BY <1>1
  <1>3. <<r>> \o <<>> = <<r>>
    BY ConcatEmptySeq, <<r>> \in Seq(Roles)
  <1> QED
    BY <1>2, <1>3 DEF ReplaceFirst

\* A member is cached once at most.
LEMMA EntryLength == ASSUME NEW e \in Entries PROVE e \in Seq(Roles) /\ Len(e) <= 1
  <1>1. CASE e = <<>>
    BY <1>1
  <1>2. ASSUME NEW r \in Roles, e = <<r>> PROVE e \in Seq(Roles) /\ Len(e) <= 1
    BY <1>2
  <1> QED
    BY <1>1, <1>2 DEF Entries

\* What OneBot answers about a group is a roster.
LEMMA Fetched == ASSUME Typed, NEW g \in Groups PROVE AllMembers(g) \in Rosters
  <1>1. ASSUME NEW u \in Users PROVE truth[g][u] # "none" => truth[g][u] \in Roles
    BY DEF Typed
  <1> QED
    BY <1>1 DEF AllMembers, Rosters, Entries

\* An entry that is added, updated or removed leaves a roster.
LEMMA Changed ==
    ASSUME Typed, NEW o \in Objects, NEW u \in Users, NEW e \in Entries
    PROVE  [members EXCEPT ![o][u] = e] \in [Objects -> Rosters]
  BY DEF Typed, Rosters

\* The other handlers are where they were.
Others(h) == \A k \in Handlers \ {h} : task'[k] = task[k]

\* If one handler changes, and stays within the types, all do.
LEMMA TaskChanged ==
    ASSUME Typed, NEW h \in Handlers, task' \in [Handlers -> TaskType], Others(h), TaskOK(h)'
    PROVE  \A k \in Handlers : TaskOK(k)'
  BY DEF Typed, TaskOK, Others

\* An idle handler has nothing at hand.
LEMMA IdleOK == Idle \in TaskType /\ Idle.at = "" /\ Idle.kind = "idle"
  BY DEF Idle, TaskType

\* A handler that ends, and one that goes on to l.
LEMMA Ended ==
    ASSUME Typed, NEW h \in Handlers, Ends(h)
    PROVE  task' \in [Handlers -> TaskType] /\ Others(h) /\ task'[h] = Idle /\ TaskOK(h)'
  <1>1. task' \in [Handlers -> TaskType] /\ Others(h) /\ task'[h] = Idle
    BY IdleOK DEF Ends, Typed, Others
  <1> QED
    BY <1>1, IdleOK DEF TaskOK

\* Before the first notice nothing is wrong.
LEMMA InitIInv == RosterInit => IInv
  <1> SUFFICES ASSUME RosterInit PROVE IInv
    OBVIOUS
  <1>1. ASSUME NEW h \in Handlers PROVE TaskOK(h)
    BY IdleOK DEF RosterInit, TaskOK, Idle
  <1>2. Typed
    <2>1. NoOne \in Rosters
      BY DEF NoOne, Rosters, Entries
    <2>2. truth \in [Groups -> [Users -> Roles \cup {"none"}]]
      BY DEF RosterInit, Roles
    <2> QED
      BY <1>1, <2>1, <2>2, IdleOK DEF RosterInit, Typed
  <1>3. Distinct /\ clean = FALSE
    BY DEF RosterInit, Distinct
  <1> QED
    BY <1>2, <1>3 DEF IInv

-----------------------------------------------------------------------------
(* What starts *)

\* The state of OneBot changes, and a handler starts.
LEMMA Started ==
    ASSUME Typed, NEW h \in Handlers, NEW kind \in Notices \cup {"join", "reload"},
           NEW l \in {"find", "enlist", "groups"}, NEW g \in Groups \cup {""}, NEW u \in Users \cup {""},
           NEW role \in Roles \cup {""}, Starts(h, kind, l, g, u, role)
    PROVE  /\ task' \in [Handlers -> TaskType] /\ Others(h)
           /\ task'[h] = [Idle EXCEPT !.kind = kind, !.at = l, !.g = g, !.u = u, !.role = role]
           /\ UNCHANGED <<list, members>> /\ clean' \in BOOLEAN
           /\ clean' => Quiet /\ (clean \/ kind = "reload") /\ ~(kind = "left" /\ u # "")
  <1> DEFINE t == [Idle EXCEPT !.kind = kind, !.at = l, !.g = g, !.u = u, !.role = role]
  <1>1. t \in TaskType
    BY DEF Idle, TaskType
  <1>2. task' = [task EXCEPT ![h] = t] /\ task \in [Handlers -> TaskType]
    BY DEF Starts, Typed
  <1>3. task' \in [Handlers -> TaskType] /\ Others(h) /\ task'[h] = t
    <2> HIDE DEF t
    <2> QED
      BY <1>1, <1>2 DEF Others
  <1>4. clean' = (Quiet /\ (clean \/ kind = "reload") /\ ~(kind = "left" /\ u # ""))
    BY DEF Starts
  <1>5. clean' \in BOOLEAN
    BY <1>4, Zenon
  <1> QED
    BY <1>3, <1>4, <1>5 DEF Starts

\* One handler runs and what is wrong is its own, or nothing runs and all is right.
LEMMA OrderlyAgain ==
    ASSUME NEW h \in Handlers, \A k \in Handlers \ {h} : task'[k] = Idle,
           task'[h] = Idle => AllRight', task'[h] # Idle => Due(h)'
    PROVE  Orderly'
  BY DEF Orderly, Quiet

\* After a change of the role of one member the cache is right but for that entry.
LEMMA MemberChanged ==
    ASSUME Typed, NEW g \in bot, NEW u \in Users, NEW role \in Roles \cup {"none"},
           truth' = [truth EXCEPT ![g][u] = role], UNCHANGED <<bot, list, members>>
    PROVE  /\ truth' \in [Groups -> [Users -> Roles \cup {"none"}]] /\ truth'[g][u] = role
           /\ AllRight => /\ \A k \in Groups \ {g} : Right(k)'
                          /\ list'[g] # 0
                          /\ \A v \in Users \ {u} : members'[list'[g]][v] = AllMembers(g)'[v]
                          /\ truth[g][u] # "none" => members'[list'[g]][u] # <<>>
  <1>1. g \in Groups /\ truth \in [Groups -> [Users -> Roles \cup {"none"}]]
    BY DEF Typed
  <1>2. /\ truth' \in [Groups -> [Users -> Roles \cup {"none"}]] /\ truth'[g][u] = role
        /\ \A k \in Groups \ {g} : truth'[k] = truth[k]
        /\ \A v \in Users \ {u} : truth'[g][v] = truth[g][v]
    BY <1>1
  <1>3. ASSUME AllRight, NEW k \in Groups \ {g} PROVE Right(k)'
    <2>1. AllMembers(k)' = AllMembers(k)
      BY <1>2 DEF AllMembers
    <2> QED
      BY <1>3, <2>1 DEF AllRight, Right, Known
  <1>4. ASSUME AllRight
        PROVE  /\ list[g] # 0 /\ members[list[g]] = AllMembers(g)
               /\ AllMembers(g)[u] = IF truth[g][u] = "none" THEN <<>> ELSE <<truth[g][u]>>
    BY <1>1, <1>4 DEF AllRight, Right, Known, AllMembers
  <1>5. \A v \in Users \ {u} : AllMembers(g)'[v] = AllMembers(g)[v]
    BY <1>2 DEF AllMembers
  <1>6. AllRight => /\ \A v \in Users \ {u} : members'[list'[g]][v] = AllMembers(g)'[v]
                    /\ truth[g][u] # "none" => members'[list'[g]][u] # <<>>
    BY <1>4, <1>5
  <1> QED
    BY <1>2, <1>3, <1>4, <1>6

\* A notice about a member, and the handler that takes it.
LEMMA MemberNotices ==
    ASSUME IInv, NEW h \in Handlers, NEW g \in Groups, NEW u \in Users,
           \/ MemberJoins(h, g, u) \/ MemberLeaves(h, g, u)
           \/ \E role \in Roles : AdminChanges(h, g, u, role)
    PROVE  IInv'
  <1>1. PICK kind \in {"increase", "decrease", "admin"}, new \in Roles \cup {"none"}, role \in Roles \cup {""} :
          /\ Starts(h, kind, "find", g, u, role) /\ g \in bot /\ bot' = bot
          /\ truth' = [truth EXCEPT ![g][u] = new]
          /\ kind = "increase" => new \in Roles
          /\ kind = "decrease" => new = "none"
          /\ kind = "admin" => new = role /\ role \in Roles /\ truth[g][u] \in Roles
    <2>1. CASE MemberJoins(h, g, u)
      BY <2>1 DEF MemberJoins, Roles
    <2>2. CASE MemberLeaves(h, g, u)
      BY <2>2 DEF MemberLeaves
    <2>3. ASSUME NEW r \in Roles, AdminChanges(h, g, u, r)
          PROVE  /\ Starts(h, "admin", "find", g, u, r) /\ g \in bot /\ bot' = bot
                 /\ truth' = [truth EXCEPT ![g][u] = r] /\ truth[g][u] \in Roles
      BY <2>3 DEF AdminChanges
    <2> QED
      BY <2>1, <2>2, <2>3
  <1>2. Typed /\ Distinct /\ (clean => Orderly)
    BY DEF IInv
  <1>3. /\ task' \in [Handlers -> TaskType] /\ Others(h)
        /\ task'[h] = [Idle EXCEPT !.kind = kind, !.at = "find", !.g = g, !.u = u, !.role = role]
        /\ UNCHANGED <<list, members>> /\ clean' \in BOOLEAN
        /\ clean' => Quiet /\ clean
    <2>1. /\ kind \in Notices \cup {"join", "reload"} /\ "find" \in {"find", "enlist", "groups"}
          /\ g \in Groups \cup {""} /\ u \in Users \cup {""} /\ kind # "reload"
      BY <1>1 DEF Notices
    <2>2. /\ task' \in [Handlers -> TaskType] /\ Others(h)
          /\ task'[h] = [Idle EXCEPT !.kind = kind, !.at = "find", !.g = g, !.u = u, !.role = role]
          /\ UNCHANGED <<list, members>> /\ clean' \in BOOLEAN
          /\ clean' => Quiet /\ (clean \/ kind = "reload") /\ ~(kind = "left" /\ u # "")
      BY <1>1, <1>2, <2>1, Started
    <2> QED
      BY <2>1, <2>2
  <1>4. /\ task'[h].kind = kind /\ task'[h].at = "find" /\ task'[h].g = g /\ task'[h].u = u
        /\ task'[h].role = role
    BY <1>3 DEF Idle
  <1>5. Typed'
    <2>1. TaskOK(h)'
      BY <1>1, <1>3, <1>4 DEF TaskOK, Notices
    <2>2. truth' \in [Groups -> [Users -> Roles \cup {"none"}]]
      BY <1>1, <1>2, <1>3, MemberChanged
    <2> QED
      BY <1>1, <1>2, <1>3, <2>1, <2>2, TaskChanged DEF Typed
  <1>6. Distinct'
    BY <1>2, <1>3 DEF Distinct
  <1>7. ASSUME clean' PROVE Orderly'
    <2>1. AllRight /\ \A k \in Handlers : task[k] = Idle
      BY <1>2, <1>3, <1>7 DEF Orderly, Quiet
    <2>2. /\ truth'[g][u] = new
          /\ \A k \in Groups \ {g} : Right(k)'
          /\ list'[g] # 0
          /\ \A v \in Users \ {u} : members'[list'[g]][v] = AllMembers(g)'[v]
          /\ truth[g][u] # "none" => members'[list'[g]][u] # <<>>
      <3>1. UNCHANGED <<bot, list, members>> /\ g \in bot
        BY <1>1, <1>3
      <3> QED
        BY <1>1, <1>2, <2>1, <3>1, MemberChanged
    <2>3. NoticeDue(h)'
      BY <1>1, <1>4, <2>2 DEF NoticeDue, Roles
    <2>4. Due(h)'
      BY <1>4, <2>3 DEF Due
    <2>5. task'[h] # Idle
      BY <1>1, <1>4, IdleOK
    <2> QED
      BY <1>3, <2>1, <2>4, <2>5, OrderlyAgain DEF Others
  <1> QED
    BY <1>5, <1>6, <1>7 DEF IInv

\* The bot comes or goes, or is taken for gone when it kicks a member.
LEMMA GroupNotices ==
    ASSUME IInv, NEW h \in Handlers, NEW g \in Groups,
           BotJoins(h, g) \/ BotLeaves(h, g) \/ \E u \in Users : BotKicks(h, g, u)
    PROVE  IInv'
  <1>0. "" \notin Users
    BY GroupRosterAssumption
  <1>1. PICK kind \in {"join", "left"}, l \in {"enlist", "find"}, u \in Users \cup {""} :
          /\ Starts(h, kind, l, g, u, "")
          /\ kind = "join" => l = "enlist" /\ bot' = bot \cup {g} /\ truth' = truth
          /\ kind = "left" => l = "find"
          /\ kind = "left" /\ u = "" => bot' = bot \ {g} /\ truth' = truth
          /\ bot' \subseteq Groups
          /\ truth' \in [Groups -> [Users -> Roles \cup {"none"}]]
    <2>1. bot \subseteq Groups /\ truth \in [Groups -> [Users -> Roles \cup {"none"}]]
      BY DEF IInv, Typed
    <2>2. CASE BotJoins(h, g)
      BY <2>1, <2>2 DEF BotJoins
    <2>3. CASE BotLeaves(h, g)
      BY <2>1, <2>3 DEF BotLeaves
    <2>4. ASSUME NEW u \in Users, BotKicks(h, g, u)
          PROVE  /\ Starts(h, "left", "find", g, u, "") /\ u # "" /\ bot' = bot
                 /\ truth' \in [Groups -> [Users -> Roles \cup {"none"}]]
      BY <1>0, <2>1, <2>4 DEF BotKicks
    <2> QED
      BY <2>1, <2>2, <2>3, <2>4
  <1>2. Typed /\ Distinct /\ (clean => Orderly)
    BY DEF IInv
  <1>3. /\ task' \in [Handlers -> TaskType] /\ Others(h)
        /\ task'[h] = [Idle EXCEPT !.kind = kind, !.at = l, !.g = g, !.u = u, !.role = ""]
        /\ UNCHANGED <<list, members>> /\ clean' \in BOOLEAN
        /\ clean' => Quiet /\ (clean \/ kind = "reload") /\ ~(kind = "left" /\ u # "")
    <2>1. /\ kind \in Notices \cup {"join", "reload"} /\ l \in {"find", "enlist", "groups"}
          /\ g \in Groups \cup {""} /\ u \in Users \cup {""} /\ "" \in Roles \cup {""}
      BY <1>1 DEF Notices
    <2>2. Typed /\ Starts(h, kind, l, g, u, "")
      BY <1>1, <1>2
    <2> QED
      BY <2>1, <2>2, Started, Zenon
  <1>4. task'[h].kind = kind /\ task'[h].at = l /\ task'[h].g = g
    BY <1>3 DEF Idle
  <1>5. Typed'
    <2>1. TaskOK(h)'
      BY <1>1, <1>3, <1>4 DEF TaskOK, Notices
    <2> QED
      BY <1>1, <1>2, <1>3, <2>1, TaskChanged DEF Typed
  <1>6. Distinct'
    BY <1>2, <1>3 DEF Distinct
  <1>7. ASSUME clean' PROVE Orderly'
    <2>1. AllRight /\ \A k \in Handlers : task[k] = Idle
      BY <1>1, <1>2, <1>3, <1>7 DEF Orderly, Quiet
    <2>2. truth' = truth /\ (kind = "join" => bot' = bot \cup {g}) /\ (kind = "left" => bot' = bot \ {g})
      BY <1>1, <1>3, <1>7
    <2>3. ASSUME NEW k \in Groups \ {g} PROVE Right(k)'
      <3>1. AllMembers(k)' = AllMembers(k)
        BY <2>2 DEF AllMembers
      <3>2. k \in bot' <=> k \in bot
        BY <1>1, <2>2
      <3> QED
        BY <1>3, <2>1, <3>1, <3>2 DEF AllRight, Right, Known
    <2>4. kind = "left" => NoticeDue(h)'
      BY <1>4, <2>2, <2>3 DEF NoticeDue
    <2>5. kind = "join" => JoinDue(h)'
      BY <1>1, <1>4, <2>2, <2>3 DEF JoinDue
    <2>6. Due(h)'
      BY <1>1, <1>4, <2>4, <2>5 DEF Due, Notices
    <2>7. task'[h] # Idle
      BY <1>1, <1>4, IdleOK
    <2> QED
      BY <1>3, <2>1, <2>6, <2>7, OrderlyAgain DEF Others
  <1> QED
    BY <1>5, <1>6, <1>7 DEF IInv

\* A reload begins.
LEMMA Reloads ==
    ASSUME IInv, NEW h \in Handlers, Reload(h)
    PROVE  IInv'
  <1>1. Starts(h, "reload", "groups", "", "", "") /\ bot' = bot /\ truth' = truth
    BY DEF Reload
  <1>2. Typed /\ Distinct /\ (clean => Orderly)
    BY DEF IInv
  <1>3. /\ task' \in [Handlers -> TaskType] /\ Others(h)
        /\ task'[h] = [Idle EXCEPT !.kind = "reload", !.at = "groups", !.g = "", !.u = "", !.role = ""]
        /\ UNCHANGED <<list, members>> /\ clean' \in BOOLEAN
        /\ clean' => Quiet
    <2>1. /\ "reload" \in Notices \cup {"join", "reload"} /\ "groups" \in {"find", "enlist", "groups"}
          /\ "" \in Groups \cup {""} /\ "" \in Users \cup {""} /\ "" \in Roles \cup {""}
      OBVIOUS
    <2>2. /\ task' \in [Handlers -> TaskType] /\ Others(h)
          /\ task'[h] = [Idle EXCEPT !.kind = "reload", !.at = "groups", !.g = "", !.u = "", !.role = ""]
          /\ UNCHANGED <<list, members>> /\ clean' \in BOOLEAN
          /\ clean' => Quiet /\ (clean \/ "reload" = "reload") /\ ~("reload" = "left" /\ "" # "")
      BY <1>1, <1>2, <2>1, Started
    <2> QED
      BY <2>2
  <1>4. task'[h].kind = "reload" /\ task'[h].at = "groups"
    BY <1>3 DEF Idle
  <1>5. Typed'
    <2>1. TaskOK(h)'
      BY <1>3, <1>4 DEF TaskOK
    <2> QED
      BY <1>1, <1>2, <1>3, <2>1, TaskChanged DEF Typed
  <1>6. Distinct'
    BY <1>2, <1>3 DEF Distinct
  <1>7. ASSUME clean' PROVE Orderly'
    <2>1. Due(h)'
      BY <1>4 DEF Due, ReloadDue, Notices
    <2>2. task'[h] # Idle
      BY <1>4, IdleOK
    <2> QED
      BY <1>3, <1>7, <2>1, <2>2, OrderlyAgain DEF Others, Quiet
  <1> QED
    BY <1>5, <1>6, <1>7 DEF IInv

-----------------------------------------------------------------------------
(* The steps of a handler *)

\* While the order is kept, the one that acts is the one that runs.
LEMMA Alone ==
    ASSUME IInv, clean, NEW h \in Handlers, task[h].at # "", Others(h)
    PROVE  Due(h) /\ \A k \in Handlers \ {h} : task'[k] = Idle
  <1>1. task[h] # Idle
    BY IdleOK
  <1> QED
    BY <1>1 DEF IInv, Orderly, Others

\* A step of one handler that stays in the types keeps all of them.
LEMMA StillTyped ==
    ASSUME Typed, NEW h \in Handlers, task' \in [Handlers -> TaskType], Others(h), TaskOK(h)',
           UNCHANGED <<bot, truth>>, list' \in [Groups -> {0} \cup Objects],
           members' \in [Objects -> Rosters], clean' \in BOOLEAN
    PROVE  Typed'
  <1>1. \A k \in Handlers : TaskOK(k)'
    BY TaskChanged
  <1> QED
    BY <1>1 DEF Typed

\* Nothing is wrong any more when its only group is right.
LEMMA RightAgain ==
    ASSUME UNCHANGED <<bot, truth, list, members>>
    PROVE  \A k \in Groups : Right(k)' <=> Right(k)
  <1>1. ASSUME NEW k \in Groups PROVE AllMembers(k)' = AllMembers(k)
    BY DEF AllMembers
  <1> QED
    BY <1>1 DEF Right, Known

\* The handler looks the group up.
LEMMA FindStep ==
    ASSUME IInv, NEW h \in Handlers, Find(h)
    PROVE  IInv'
  <1> DEFINE g == task[h].g
  <1>1. Typed /\ Distinct /\ (clean => Orderly) /\ TaskOK(h) /\ task[h] \in TaskType
    BY DEF IInv, Typed, TaskOK
  <1>2. /\ task[h].at = "find" /\ UNCHANGED <<bot, truth, list, members, clean>>
        /\ g \in Groups /\ task[h].kind \in Notices /\ list[g] \in {0} \cup Objects
    BY <1>1 DEF Find, TaskOK, Typed
  <1>3. Distinct'
    BY <1>1, <1>2 DEF Distinct
  <1>4. /\ list' \in [Groups -> {0} \cup Objects] /\ members' \in [Objects -> Rosters]
        /\ clean' \in BOOLEAN
    BY <1>1, <1>2 DEF Typed
  <1>5. CASE list[g] = 0
    <2>1. task' \in [Handlers -> TaskType] /\ Others(h) /\ task'[h] = Idle /\ TaskOK(h)'
      BY <1>1, <1>5, Ended DEF Find
    <2>2. Typed'
      BY <1>1, <1>2, <1>4, <2>1, StillTyped
    <2>3. ASSUME clean PROVE Orderly'
      <3>1. Due(h) /\ \A k \in Handlers \ {h} : task'[k] = Idle
        BY <1>2, <2>1, <2>3, Alone
      <3>2. NoticeDue(h) /\ g \notin bot
        BY <1>2, <1>5, <3>1 DEF Due, NoticeDue, Notices
      <3>3. AllRight
        BY <1>2, <1>5, <3>2 DEF NoticeDue, AllRight, Right, Known
      <3>4. AllRight'
        BY <1>2, <3>3, RightAgain DEF AllRight
      <3> QED
        BY <2>1, <3>1, <3>4, OrderlyAgain
    <2> QED
      BY <1>2, <1>3, <2>2, <2>3 DEF IInv
  <1>6. CASE list[g] # 0
    <2> DEFINE l == IF task[h].kind = "increase" THEN "info" ELSE "apply"
               t == [task[h] EXCEPT !.obj = list[g], !.at = l]
    <2>1. /\ t \in TaskType /\ t.obj = list[g] /\ t.at = l
          /\ t.kind = task[h].kind /\ t.g = g /\ t.u = task[h].u /\ t.role = task[h].role
      BY <1>1, <1>2 DEF TaskType
    <2>2. task' = [task EXCEPT ![h] = t] /\ task \in [Handlers -> TaskType]
      BY <1>1, <1>6 DEF Find, Typed
    <2>3. task' \in [Handlers -> TaskType] /\ Others(h) /\ task'[h] = t
      <3> HIDE DEF t
      <3> QED
        BY <2>1, <2>2 DEF Others
    <2>4. TaskOK(h)'
      BY <1>1, <1>2, <1>6, <2>1, <2>3 DEF TaskOK, Notices
    <2>5. Typed'
      BY <1>1, <1>2, <1>4, <2>3, <2>4, StillTyped
    <2>6. ASSUME clean PROVE Orderly'
      <3>1. Due(h) /\ \A k \in Handlers \ {h} : task'[k] = Idle
        BY <1>2, <2>3, <2>6, Alone
      <3>2. NoticeDue(h)
        BY <1>2, <3>1 DEF Due
      <3>3. \A k \in Groups \ {g} : Right(k)'
        BY <1>2, <3>2, RightAgain DEF NoticeDue
      <3>4. \A k \in Groups : AllMembers(k)' = AllMembers(k)
        BY <1>2 DEF AllMembers
      <3>5. NoticeDue(h)'
        <4> HIDE DEF t
        <4> QED
          BY <1>2, <2>1, <2>3, <3>2, <3>3, <3>4 DEF NoticeDue
      <3>6. Due(h)' /\ task'[h] # Idle
        BY <1>2, <2>1, <2>3, <3>5, IdleOK DEF Due, Notices
      <3> QED
        BY <3>1, <3>6, OrderlyAgain
    <2> QED
      BY <1>2, <1>3, <2>5, <2>6 DEF IInv
  <1> QED
    BY <1>5, <1>6

\* A step that changes one handler and neither the lists nor OneBot's side keeps what
\* no handler is about.
LEMMA Advances ==
    ASSUME IInv, NEW h \in Handlers, task[h].at # "", NEW t \in TaskType,
           task' = [task EXCEPT ![h] = t]
    PROVE  /\ task' \in [Handlers -> TaskType] /\ Others(h) /\ task'[h] = t
           /\ clean => Due(h) /\ \A k \in Handlers \ {h} : task'[k] = Idle
  <1>1. task' \in [Handlers -> TaskType] /\ Others(h) /\ task'[h] = t
    BY DEF IInv, Typed, Others
  <1> QED
    BY <1>1, Alone

\* A handler that ends has put right the one group it was about.
LEMMA EndsRight ==
    ASSUME IInv, NEW h \in Handlers, task[h].at # "", Ends(h), Typed', Distinct',
           clean' => clean, clean /\ clean' /\ Due(h) => AllRight'
    PROVE  IInv'
  <1>1. Others(h) /\ task'[h] = Idle
    BY Ended DEF IInv
  <1>2. ASSUME clean' PROVE Orderly'
    <2>1. Due(h) /\ \A k \in Handlers \ {h} : task'[k] = Idle
      BY <1>1, <1>2, Alone
    <2> QED
      BY <1>1, <1>2, <2>1, OrderlyAgain
  <1> QED
    BY <1>2 DEF IInv

\* The handler asks OneBot about the member.
LEMMA GetInfoStep ==
    ASSUME IInv, NEW h \in Handlers, GetInfo(h)
    PROVE  IInv'
  <1>1. Typed /\ Distinct /\ TaskOK(h) /\ task[h] \in TaskType /\ task \in [Handlers -> TaskType]
    BY DEF IInv, Typed, TaskOK
  <1>2. PICK g \in Groups, u \in Users : g = task[h].g /\ u = task[h].u
    BY <1>1 DEF GetInfo, At, TaskOK
  <1>3. /\ task[h].at = "info" /\ task[h].kind = "increase" /\ task[h].obj \in Objects
        /\ UNCHANGED <<bot, truth, list, members>> /\ truth[g][u] \in Roles \cup {"none"}
    BY <1>1, <1>2 DEF GetInfo, At, TaskOK, Typed
  <1>4. /\ Distinct' /\ list' \in [Groups -> {0} \cup Objects] /\ members' \in [Objects -> Rosters]
    BY <1>1, <1>3 DEF Distinct, Typed
  <1>5. CASE Ends(h) /\ clean' = (clean /\ truth[g][u] = "none")
    <2>1. clean' \in BOOLEAN
      BY <1>5, Zenon
    <2>2. Typed'
      BY <1>1, <1>3, <1>4, <1>5, <2>1, Ended, StillTyped
    <2>3. ~(clean' /\ Due(h))
      BY <1>2, <1>3, <1>5 DEF Due, NoticeDue, Notices, Roles
    <2> QED
      BY <1>3, <1>4, <1>5, <2>2, <2>3, EndsRight
  <1>6. CASE /\ truth[g][u] # "none" /\ clean' = clean
             /\ task' = [task EXCEPT ![h].at = "apply", ![h].role = truth[g][u]]
    <2> DEFINE t == [task[h] EXCEPT !.at = "apply", !.role = truth[g][u]]
    <2>1. /\ t \in TaskType /\ t.obj = task[h].obj /\ t.at = "apply"
          /\ t.kind = "increase" /\ t.g = g /\ t.u = u /\ t.role = truth[g][u] /\ t.role \in Roles
      BY <1>1, <1>2, <1>3, <1>6 DEF TaskType
    <2>2. task' = [task EXCEPT ![h] = t]
      BY <1>1, <1>6
    <2> HIDE DEF t
    <2>3. /\ task' \in [Handlers -> TaskType] /\ Others(h) /\ task'[h] = t
          /\ clean => Due(h) /\ \A k \in Handlers \ {h} : task'[k] = Idle
      BY <1>3, <2>1, <2>2, Advances
    <2>4. TaskOK(h)'
      BY <1>1, <1>3, <2>1, <2>3 DEF TaskOK, Notices
    <2>5. Typed'
      BY <1>1, <1>3, <1>4, <1>6, <2>3, <2>4, StillTyped DEF Typed
    <2>6. ASSUME clean PROVE Orderly'
      <3>1. NoticeDue(h)
        BY <1>3, <2>3, <2>6 DEF Due, Notices
      <3>2. \A k \in Groups \ {g} : Right(k)'
        BY <1>2, <1>3, <3>1, RightAgain DEF NoticeDue
      <3>3. \A k \in Groups : AllMembers(k)' = AllMembers(k)
        BY <1>3 DEF AllMembers
      <3>4. NoticeDue(h)'
        BY <1>2, <1>3, <2>1, <2>3, <3>1, <3>2, <3>3 DEF NoticeDue
      <3>5. Due(h)' /\ task'[h] # Idle
        BY <2>1, <2>3, <3>4, IdleOK DEF Due
      <3> QED
        BY <2>3, <2>6, <3>5, OrderlyAgain
    <2> QED
      BY <1>4, <1>6, <2>5, <2>6 DEF IInv
  <1> QED
    BY <1>2, <1>5, <1>6 DEF GetInfo

\* The entry a notice is about is changed, and becomes what OneBot has.
LEMMA EntryStep ==
    ASSUME IInv, NEW h \in Handlers, NEW g \in Groups, NEW u \in Users, NEW o \in Objects, NEW e \in Entries,
           task[h].at = "apply", task[h].kind \in {"increase", "decrease", "admin"},
           task[h].g = g, task[h].u = u, task[h].obj = o,
           members' = [members EXCEPT ![o][u] = e], Ends(h), UNCHANGED <<bot, truth, list, clean>>,
           NoticeDue(h) => e = IF truth[g][u] = "none" THEN <<>> ELSE <<truth[g][u]>>
    PROVE  IInv'
  <1>1. Typed /\ Distinct /\ members \in [Objects -> Rosters] /\ list \in [Groups -> {0} \cup Objects]
    BY DEF IInv, Typed
  <1>2. members' \in [Objects -> Rosters]
    BY <1>1, Changed
  <1>3. Typed'
    BY <1>1, <1>2, Ended, StillTyped DEF Typed
  <1>4. Distinct'
    BY <1>1 DEF Distinct
  <1>5. ASSUME Due(h) PROVE AllRight'
    <2>1. NoticeDue(h)
      BY <1>5 DEF Due, Notices
    <2>2. /\ \A k \in Groups \ {g} : Right(k)
          /\ g \in bot /\ list[g] # 0 /\ o = list[g]
          /\ \A v \in Users \ {u} : members[o][v] = AllMembers(g)[v]
      BY <2>1 DEF NoticeDue
    <2>3. \A k \in Groups : AllMembers(k)' = AllMembers(k)
      BY DEF AllMembers
    <2>4. ASSUME NEW k \in Groups \ {g} PROVE Right(k)'
      <3>1. Right(k)
        BY <2>2
      <3>2. ASSUME k \in bot PROVE members'[list[k]] = members[list[k]]
        <4>1. list[k] \in Objects /\ list[k] # o
          BY <1>1, <2>2, <3>1, <3>2 DEF Right, Known, Distinct
        <4> QED
          BY <1>1, <4>1
      <3> QED
        BY <2>3, <3>1, <3>2 DEF Right, Known
    <2>5. Right(g)'
      <3>1. members[o] \in Rosters /\ members'[o] = [members[o] EXCEPT ![u] = e]
        BY <1>1
      <3>2. AllMembers(g)[u] = e
        BY <2>1 DEF AllMembers
      <3>3. ASSUME NEW v \in Users PROVE members'[o][v] = AllMembers(g)[v]
        BY <2>2, <3>1, <3>2 DEF Rosters
      <3>4. members'[o] = AllMembers(g)
        <4>1. members'[o] \in Rosters /\ AllMembers(g) \in Rosters
          BY <1>1, <1>2, Fetched
        <4> QED
          BY <3>3, <4>1 DEF Rosters
      <3> QED
        BY <2>2, <2>3, <3>4 DEF Right, Known
    <2> QED
      BY <2>4, <2>5 DEF AllRight
  <1> QED
    BY <1>3, <1>4, <1>5, EndsRight

\* A member is added, updated or removed.
LEMMA MemberSteps ==
    ASSUME IInv, NEW h \in Handlers, AddMember(h) \/ RemoveMember(h) \/ UpdateMember(h)
    PROVE  IInv'
  <1>1. Typed /\ TaskOK(h) /\ members \in [Objects -> Rosters]
    BY DEF IInv, Typed
  <1>2. /\ task[h].at = "apply" /\ task[h].kind \in {"increase", "decrease", "admin"}
        /\ Ends(h) /\ UNCHANGED <<bot, truth, list, clean>>
    BY DEF AddMember, RemoveMember, UpdateMember, At
  <1>3. PICK g \in Groups, u \in Users, o \in Objects :
           task[h].g = g /\ task[h].u = u /\ task[h].obj = o
    BY <1>1, <1>2 DEF TaskOK
  <1>4. PICK was \in Entries : was = members[o][u]
    BY <1>1 DEF Rosters
  <1>5. CASE AddMember(h)
    <2>1. PICK role \in Roles : role = task[h].role /\ task[h].kind = "increase"
      BY <1>1, <1>5 DEF TaskOK, AddMember, At
    <2>2. /\ <<role>> \in Entries
          /\ (IF was = <<>> THEN <<role>> ELSE ReplaceFirst(was, role)) = <<role>>
      BY OneEntry DEF Entries
    <2>3. members' = [members EXCEPT ![o][u] = <<role>>]
      BY <1>3, <1>4, <1>5, <2>1, <2>2 DEF AddMember
    <2>4. NoticeDue(h) => <<role>> = IF truth[g][u] = "none" THEN <<>> ELSE <<truth[g][u]>>
      BY <1>2, <1>3, <2>1 DEF NoticeDue, Roles
    <2> QED
      BY <1>2, <1>3, <2>2, <2>3, <2>4, EntryStep
  <1>6. CASE RemoveMember(h)
    <2>1. /\ <<>> \in Entries /\ task[h].kind = "decrease"
          /\ (IF was = <<>> THEN was ELSE Tail(was)) = <<>>
      BY <1>6, OneEntry DEF Entries, RemoveMember, At, Roles
    <2>2. members' = [members EXCEPT ![o][u] = <<>>]
      BY <1>3, <1>4, <1>6, <2>1 DEF RemoveMember
    <2>3. NoticeDue(h) => <<>> = IF truth[g][u] = "none" THEN <<>> ELSE <<truth[g][u]>>
      BY <1>3, <2>1 DEF NoticeDue
    <2> QED
      BY <1>2, <1>3, <2>1, <2>2, <2>3, EntryStep
  <1>7. CASE UpdateMember(h)
    <2>1. PICK role \in Roles : role = task[h].role /\ task[h].kind = "admin"
      BY <1>1, <1>7 DEF TaskOK, UpdateMember, At
    <2>2. PICK e \in Entries : /\ e = IF was = <<>> THEN was ELSE ReplaceFirst(was, role)
                               /\ was # <<>> => e = <<role>>
      BY OneEntry DEF Entries
    <2>3. members' = [members EXCEPT ![o][u] = e]
      BY <1>3, <1>4, <1>7, <2>1, <2>2 DEF UpdateMember
    <2>4. NoticeDue(h) => e = IF truth[g][u] = "none" THEN <<>> ELSE <<truth[g][u]>>
      <3>1. NoticeDue(h) => o = list[g] /\ role = truth[g][u] /\ was # <<>>
        BY <1>2, <1>3, <1>4, <2>1 DEF NoticeDue
      <3> QED
        BY <2>2, <3>1 DEF Roles
    <2> QED
      BY <1>2, <1>3, <2>3, <2>4, EntryStep
  <1> QED
    BY <1>5, <1>6, <1>7

\* The bot has left: its group goes from the list.
LEMMA RemoveGroupStep ==
    ASSUME IInv, NEW h \in Handlers, RemoveGroup(h)
    PROVE  IInv'
  <1>1. /\ Typed /\ Distinct /\ TaskOK(h) /\ list \in [Groups -> {0} \cup Objects]
        /\ members \in [Objects -> Rosters] /\ clean \in BOOLEAN
    BY DEF IInv, Typed
  <1>2. /\ task[h].at = "apply" /\ task[h].kind = "left"
        /\ Ends(h) /\ UNCHANGED <<bot, truth, members, clean>>
    BY DEF RemoveGroup, At
  <1>3. PICK g \in Groups : task[h].g = g /\ list' = [list EXCEPT ![g] = 0]
    BY <1>1, <1>2 DEF TaskOK, RemoveGroup
  <1>4. Typed'
    BY <1>1, <1>2, <1>3, Ended, StillTyped
  <1>5. Distinct'
    BY <1>1, <1>3 DEF Distinct
  <1>6. ASSUME Due(h) PROVE AllRight'
    <2>1. NoticeDue(h)
      BY <1>2, <1>6 DEF Due, Notices
    <2>2. \A k \in Groups : AllMembers(k)' = AllMembers(k)
      BY <1>2 DEF AllMembers
    <2> QED
      BY <1>1, <1>2, <1>3, <2>1, <2>2 DEF NoticeDue, AllRight, Right, Known
  <1> QED
    BY <1>2, <1>4, <1>5, <1>6, EndsRight

-----------------------------------------------------------------------------
(* The members of a group *)

\* The bot has joined: its group gets an object that nobody holds.
LEMMA EnlistStep ==
    ASSUME IInv, NEW h \in Handlers, Enlist(h)
    PROVE  IInv'
  <1>1. /\ Typed /\ Distinct /\ TaskOK(h) /\ list \in [Groups -> {0} \cup Objects]
        /\ members \in [Objects -> Rosters] /\ task[h] \in TaskType /\ task \in [Handlers -> TaskType]
    BY DEF IInv, Typed, TaskOK
  <1>2. /\ task[h].at = "enlist" /\ task[h].kind = "join"
        /\ task' = [task EXCEPT ![h].at = "members"] /\ UNCHANGED <<bot, truth, clean>>
    BY DEF Enlist, At, Goto
  <1>3. PICK g \in Groups : task[h].g = g
    BY <1>1, <1>2 DEF TaskOK
  <1> DEFINE Listed ==
               /\ list' \in [Groups -> {0} \cup Objects] /\ members' \in [Objects -> Rosters]
               /\ list'[g] # 0 /\ \A k \in Groups \ {g} : list'[k] = list[k]
               /\ \A k \in Groups : list[k] # 0 => members'[list[k]] = members[list[k]]
               /\ Distinct'
  <1>4. Listed
    <2>1. CASE list[g] # 0 /\ UNCHANGED <<list, members>>
      BY <1>1, <2>1 DEF Distinct
    <2>2. ASSUME list[g] = 0, NEW o \in Unused,
                 list' = [list EXCEPT ![g] = o], members' = [members EXCEPT ![o] = NoOne]
          PROVE  Listed
      <3>1. o \in Objects /\ o # 0 /\ \A k \in Groups : list[k] # o
        BY <2>2 DEF Unused, Objects
      <3>2. NoOne \in Rosters
        BY DEF NoOne, Rosters, Entries
      <3>3. Distinct'
        BY <1>1, <2>2, <3>1 DEF Distinct
      <3> QED
        BY <1>1, <2>2, <3>1, <3>2, <3>3
    <2>3. \/ list[g] # 0 /\ UNCHANGED <<list, members>>
          \/ list[g] = 0 /\ \E o \in Unused : /\ list' = [list EXCEPT ![g] = o]
                                             /\ members' = [members EXCEPT ![o] = NoOne]
      BY <1>3 DEF Enlist
    <2> HIDE DEF Listed
    <2> QED
      BY <2>1, <2>2, <2>3
  <1> DEFINE t == [task[h] EXCEPT !.at = "members"]
  <1>5. t \in TaskType /\ t.at = "members" /\ t.kind = "join" /\ t.g = g
    BY <1>1, <1>2, <1>3 DEF TaskType
  <1>6. task' = [task EXCEPT ![h] = t]
    BY <1>2
  <1> HIDE DEF t
  <1>7. /\ task' \in [Handlers -> TaskType] /\ Others(h) /\ task'[h] = t
        /\ clean => Due(h) /\ \A k \in Handlers \ {h} : task'[k] = Idle
    BY <1>2, <1>5, <1>6, Advances
  <1>8. Typed'
    <2>1. TaskOK(h)'
      BY <1>5, <1>7 DEF TaskOK
    <2> QED
      BY <1>1, <1>2, <1>4, <1>7, <2>1, StillTyped DEF Typed
  <1>9. ASSUME clean PROVE Orderly'
    <2>1. JoinDue(h)
      BY <1>2, <1>7, <1>9 DEF Due
    <2>2. ASSUME NEW k \in Groups \ {g} PROVE Right(k)'
      <3>1. Right(k) /\ AllMembers(k)' = AllMembers(k)
        BY <1>2, <1>3, <2>1 DEF JoinDue, AllMembers
      <3> QED
        BY <1>2, <1>4, <3>1 DEF Right, Known
    <2>3. JoinDue(h)'
      BY <1>2, <1>3, <1>4, <1>5, <1>7, <2>1, <2>2 DEF JoinDue, MembersDue
    <2>4. Due(h)' /\ task'[h] # Idle
      BY <1>5, <1>7, <2>3, IdleOK DEF Due, Notices
    <2> QED
      BY <1>7, <1>9, <2>4, OrderlyAgain
  <1> QED
    BY <1>2, <1>4, <1>8, <1>9 DEF IInv

\* The handler at hand is done with the members of its group.
LEMMA AfterStep ==
    ASSUME IInv, NEW h \in Handlers, NEW g \in Groups, task[h].at \in {"members", "store", "set"},
           task[h].g = g, AfterMembers(h), UNCHANGED <<bot, truth, list>>,
           members' \in [Objects -> Rosters], clean' \in BOOLEAN, clean' => clean,
           clean' /\ Due(h) => Right(g)' /\ \A k \in Groups \ {g} : Right(k) => Right(k)'
    PROVE  IInv'
  <1>1. /\ Typed /\ Distinct /\ TaskOK(h) /\ list \in [Groups -> {0} \cup Objects]
        /\ task[h] \in TaskType /\ task \in [Handlers -> TaskType]
    BY DEF IInv, Typed, TaskOK
  <1>2. Distinct'
    BY <1>1 DEF Distinct
  <1>3. CASE task[h].kind = "join"
    <2>1. Ends(h)
      BY <1>3 DEF AfterMembers
    <2>2. Typed'
      BY <1>1, <2>1, Ended, StillTyped
    <2>3. clean /\ clean' /\ Due(h) => AllRight'
      BY <1>3 DEF Due, JoinDue, AllRight
    <2> QED
      BY <1>2, <2>1, <2>2, <2>3, EndsRight
  <1>4. CASE task[h].kind = "reload"
    <2> DEFINE t == [task[h] EXCEPT !.at = "next", !.obj = 0, !.all = <<>>]
    <2>1. t \in TaskType /\ t.at = "next" /\ t.kind = "reload" /\ t.g = g /\ t.todo = task[h].todo
      BY <1>1, <1>4 DEF TaskType
    <2>2. task' = [task EXCEPT ![h] = t]
      BY <1>1, <1>4 DEF AfterMembers
    <2> HIDE DEF t
    <2>3. /\ task' \in [Handlers -> TaskType] /\ Others(h) /\ task'[h] = t
          /\ clean => Due(h) /\ \A k \in Handlers \ {h} : task'[k] = Idle
      BY <2>1, <2>2, Advances
    <2>4. Typed'
      <3>1. TaskOK(h)'
        BY <2>1, <2>3 DEF TaskOK
      <3> QED
        BY <1>1, <2>3, <3>1, StillTyped
    <2>5. ASSUME clean' PROVE Orderly'
      <3>1. /\ task[h].todo \subseteq bot /\ \A k \in Groups : Known(k)
            /\ \A k \in Groups \ task[h].todo : Right(k) \/ k = g
        BY <1>4, <2>3, <2>5 DEF Due, ReloadDue
      <3>2. \A k \in Groups : Known(k)'
        BY <3>1 DEF Known
      <3>3. \A k \in Groups \ task[h].todo : Right(k)'
        BY <2>3, <2>5, <3>1
      <3>4. ReloadDue(h)'
        BY <2>1, <2>3, <3>1, <3>2, <3>3 DEF ReloadDue
      <3>5. Due(h)' /\ task'[h] # Idle
        BY <2>1, <2>3, <3>4, IdleOK DEF Due, Notices
      <3> QED
        BY <2>3, <2>5, <3>5, OrderlyAgain
    <2> QED
      BY <1>2, <2>4, <2>5 DEF IInv
  <1> QED
    BY <1>1, <1>3, <1>4 DEF TaskOK

\* A handler goes on with the members of its group: only its own record changes.
LEMMA MembersGoOn ==
    ASSUME IInv, NEW h \in Handlers, NEW g \in Groups, NEW t \in TaskType,
           task[h].at \in {"members", "store"}, task[h].g = g, task' = [task EXCEPT ![h] = t],
           UNCHANGED <<bot, truth, list, members, clean>>,
           t.at \in {"store", "set"}, t.kind = task[h].kind, t.g = g, t.todo = task[h].todo,
           t.all \in Rosters, t.at = "set" => t.obj \in Objects,
           Due(h) => t.all = AllMembers(g) /\ (t.at = "set" => t.obj = list[g])
    PROVE  IInv'
  <1>1. /\ Typed /\ Distinct /\ TaskOK(h) /\ list \in [Groups -> {0} \cup Objects]
        /\ members \in [Objects -> Rosters] /\ clean \in BOOLEAN /\ task[h].kind \in {"join", "reload"}
    BY DEF IInv, Typed, TaskOK
  <1>2. /\ task' \in [Handlers -> TaskType] /\ Others(h) /\ task'[h] = t
        /\ clean => Due(h) /\ \A k \in Handlers \ {h} : task'[k] = Idle
    BY Advances
  <1>3. Typed'
    <2>1. TaskOK(h)'
      BY <1>1, <1>2 DEF TaskOK
    <2> QED
      BY <1>1, <1>2, <2>1, StillTyped
  <1>4. Distinct'
    BY <1>1 DEF Distinct
  <1>5. ASSUME clean PROVE Orderly'
    <2>1. \A k \in Groups : (Right(k)' <=> Right(k)) /\ (Known(k)' <=> Known(k))
      BY RightAgain DEF Known
    <2>2. \A k \in Groups : AllMembers(k)' = AllMembers(k)
      BY DEF AllMembers
    <2>3. MembersDue(h) /\ MembersDue(h)'
      BY <1>1, <1>2, <1>5, <2>2 DEF Due, JoinDue, ReloadDue, MembersDue
    <2>4. CASE task[h].kind = "join"
      <3>1. JoinDue(h)'
        BY <1>2, <1>5, <2>1, <2>3, <2>4 DEF Due, JoinDue, MembersDue
      <3> QED
        BY <1>2, <1>5, <2>4, <3>1, IdleOK, OrderlyAgain DEF Due, Notices
    <2>5. CASE task[h].kind = "reload"
      <3>1. ReloadDue(h)'
        BY <1>2, <1>5, <2>1, <2>3, <2>5 DEF Due, ReloadDue
      <3> QED
        BY <1>2, <1>5, <2>5, <3>1, IdleOK, OrderlyAgain DEF Due, Notices
    <2> QED
      BY <1>1, <2>4, <2>5
  <1> QED
    BY <1>3, <1>4, <1>5 DEF IInv

\* The handler asks OneBot for the members.
LEMMA FetchMembersStep ==
    ASSUME IInv, NEW h \in Handlers, FetchMembers(h)
    PROVE  IInv'
  <1>1. /\ Typed /\ TaskOK(h) /\ task[h] \in TaskType /\ members \in [Objects -> Rosters]
        /\ task[h].at = "members" /\ task[h].kind \in {"join", "reload"}
        /\ UNCHANGED <<bot, truth, list, members>>
    BY DEF IInv, Typed, TaskOK, FetchMembers, At
  <1>2. PICK g \in Groups : task[h].g = g
    BY <1>1 DEF TaskOK
  <1>3. Due(h) => g \in bot
    BY <1>1, <1>2 DEF Due, JoinDue, ReloadDue, MembersDue, Notices
  <1>4. CASE AfterMembers(h) /\ clean' = (clean /\ g \notin bot)
    <2>1. clean' \in BOOLEAN
      BY <1>4, Zenon
    <2>2. members' \in [Objects -> Rosters] /\ ~(clean' /\ Due(h)) /\ (clean' => clean)
      BY <1>1, <1>3, <1>4
    <2> QED
      BY <1>1, <1>2, <1>4, <2>1, <2>2, AfterStep
  <1>5. CASE /\ task' = [task EXCEPT ![h].at = "store", ![h].all = AllMembers(g)]
             /\ clean' = clean
    <2> DEFINE t == [task[h] EXCEPT !.at = "store", !.all = AllMembers(g)]
    <2>1. AllMembers(g) \in Rosters
      BY <1>1, Fetched
    <2>2. /\ t \in TaskType /\ t.at = "store" /\ t.kind = task[h].kind /\ t.g = g
          /\ t.todo = task[h].todo /\ t.all = AllMembers(g)
      BY <1>1, <1>2, <2>1 DEF TaskType
    <2>3. task' = [task EXCEPT ![h] = t]
      BY <1>5
    <2> HIDE DEF t
    <2> QED
      <3>1. /\ UNCHANGED <<bot, truth, list, members, clean>> /\ t.at \in {"store", "set"}
            /\ task[h].at \in {"members", "store"} /\ t.all \in Rosters /\ t.at # "set"
        BY <1>1, <1>5, <2>1, <2>2
      <3> QED
        BY <1>2, <2>2, <2>3, <3>1, MembersGoOn
  <1> QED
    BY <1>2, <1>4, <1>5 DEF FetchMembers

\* It looks for the object that is to take them.
LEMMA FindToStoreStep ==
    ASSUME IInv, NEW h \in Handlers, FindToStore(h)
    PROVE  IInv'
  <1>1. /\ Typed /\ TaskOK(h) /\ task[h] \in TaskType /\ members \in [Objects -> Rosters]
        /\ clean \in BOOLEAN /\ list \in [Groups -> {0} \cup Objects]
        /\ task[h].at = "store" /\ task[h].kind \in {"join", "reload"}
        /\ UNCHANGED <<bot, truth, list, members, clean>>
    BY DEF IInv, Typed, TaskOK, FindToStore, At
  <1>2. PICK g \in Groups : task[h].g = g
    BY <1>1 DEF TaskOK
  <1>3. Due(h) => list[g] # 0 /\ task[h].all = AllMembers(g)
    BY <1>1, <1>2 DEF Due, JoinDue, ReloadDue, MembersDue, Notices
  <1>4. CASE list[g] = 0
    <2>1. AfterMembers(h)
      BY <1>2, <1>4 DEF FindToStore
    <2>2. members' \in [Objects -> Rosters] /\ ~Due(h) /\ clean' \in BOOLEAN /\ (clean' => clean)
      BY <1>1, <1>3, <1>4
    <2> QED
      BY <1>1, <1>2, <2>1, <2>2, AfterStep
  <1>5. CASE list[g] # 0
    <2> DEFINE t == [task[h] EXCEPT !.at = "set", !.obj = list[g]]
    <2>1. list[g] \in Objects /\ task[h].all \in Rosters
      BY <1>1, <1>5 DEF TaskOK
    <2>2. /\ t \in TaskType /\ t.at = "set" /\ t.kind = task[h].kind /\ t.g = g
          /\ t.todo = task[h].todo /\ t.all = task[h].all /\ t.obj = list[g]
      BY <1>1, <1>2, <2>1 DEF TaskType
    <2>3. task' = [task EXCEPT ![h] = t]
      BY <1>2, <1>5 DEF FindToStore
    <2> HIDE DEF t
    <2> QED
      BY <1>1, <1>2, <1>3, <1>5, <2>1, <2>2, <2>3, MembersGoOn
  <1> QED
    BY <1>4, <1>5

\* It puts them there.
LEMMA SetMembersStep ==
    ASSUME IInv, NEW h \in Handlers, SetMembers(h)
    PROVE  IInv'
  <1>1. /\ Typed /\ Distinct /\ TaskOK(h) /\ members \in [Objects -> Rosters]
        /\ clean \in BOOLEAN /\ list \in [Groups -> {0} \cup Objects]
        /\ task[h].at = "set" /\ task[h].kind \in {"join", "reload"} /\ task[h].all \in Rosters
        /\ AfterMembers(h) /\ UNCHANGED <<bot, truth, list, clean>>
    BY DEF IInv, Typed, TaskOK, SetMembers, At
  <1>2. PICK g \in Groups, o \in Objects : task[h].g = g /\ task[h].obj = o
    BY <1>1 DEF TaskOK
  <1>3. members' = [members EXCEPT ![o] = task[h].all]
    BY <1>2 DEF SetMembers
  <1>4. members' \in [Objects -> Rosters]
    BY <1>1, <1>3
  <1>5. ASSUME Due(h) PROVE Right(g)' /\ \A k \in Groups \ {g} : Right(k) => Right(k)'
    <2>1. /\ g \in bot /\ list[g] = o /\ list[g] # 0 /\ task[h].all = AllMembers(g)
      BY <1>1, <1>2, <1>5 DEF Due, JoinDue, ReloadDue, MembersDue, Notices
    <2>2. \A k \in Groups : AllMembers(k)' = AllMembers(k)
      BY <1>1 DEF AllMembers
    <2>3. Right(g)'
      BY <1>1, <1>3, <2>1, <2>2 DEF Right, Known
    <2>4. ASSUME NEW k \in Groups \ {g}, Right(k) PROVE Right(k)'
      <3>1. ASSUME k \in bot PROVE members'[list[k]] = members[list[k]]
        <4>1. list[k] \in Objects /\ list[k] # o
          BY <1>1, <2>1, <2>4, <3>1 DEF Right, Known, Distinct
        <4> QED
          BY <1>1, <1>3, <4>1
      <3> QED
        BY <1>1, <2>2, <2>4, <3>1 DEF Right, Known
    <2> QED
      BY <2>3, <2>4
  <1> QED
    BY <1>1, <1>2, <1>4, <1>5, AfterStep

-----------------------------------------------------------------------------
(* A reload *)

\* A reload asks OneBot for the groups.
LEMMA FetchGroupsStep ==
    ASSUME IInv, NEW h \in Handlers, FetchGroups(h)
    PROVE  IInv'
  <1>1. /\ Typed /\ Distinct /\ TaskOK(h) /\ task[h] \in TaskType /\ bot \subseteq Groups
        /\ members \in [Objects -> Rosters] /\ list \in [Groups -> {0} \cup Objects] /\ clean \in BOOLEAN
        /\ task[h].at = "groups" /\ task[h].kind = "reload"
        /\ UNCHANGED <<bot, truth, list, members>>
    BY DEF IInv, Typed, TaskOK, FetchGroups, At
  <1>2. Distinct'
    BY <1>1 DEF Distinct
  <1>3. CASE Ends(h) /\ clean' = FALSE
    <2>1. Typed'
      BY <1>1, <1>3, Ended, StillTyped
    <2> QED
      BY <1>1, <1>2, <1>3, <2>1, EndsRight
  <1>4. CASE task' = [task EXCEPT ![h].at = "swap", ![h].todo = bot] /\ clean' = clean
    <2> DEFINE t == [task[h] EXCEPT !.at = "swap", !.todo = bot]
    <2>1. t \in TaskType /\ t.at = "swap" /\ t.kind = "reload" /\ t.todo = bot
      BY <1>1 DEF TaskType
    <2>2. task' = [task EXCEPT ![h] = t]
      BY <1>4
    <2> HIDE DEF t
    <2>3. /\ task' \in [Handlers -> TaskType] /\ Others(h) /\ task'[h] = t
          /\ clean => Due(h) /\ \A k \in Handlers \ {h} : task'[k] = Idle
      BY <1>1, <2>1, <2>2, Advances
    <2>4. Typed'
      <3>1. TaskOK(h)'
        BY <2>1, <2>3 DEF TaskOK
      <3> QED
        BY <1>1, <1>4, <2>3, <3>1, StillTyped
    <2>5. ASSUME clean PROVE Orderly'
      <3>1. ReloadDue(h)'
        BY <1>1, <2>1, <2>3 DEF ReloadDue
      <3> QED
        BY <2>1, <2>3, <2>5, <3>1, IdleOK, OrderlyAgain DEF Due, Notices
    <2> QED
      BY <1>2, <1>4, <2>4, <2>5 DEF IInv
  <1> QED
    BY <1>3, <1>4 DEF FetchGroups

\* The new list: every group of the answer has an object of its own.
LEMMA SwapListStep ==
    ASSUME IInv, NEW h \in Handlers, SwapList(h)
    PROVE  IInv'
  <1>1. /\ Typed /\ Distinct /\ TaskOK(h) /\ task[h] \in TaskType /\ bot \subseteq Groups
        /\ members \in [Objects -> Rosters] /\ clean \in BOOLEAN
        /\ task[h].at = "swap" /\ task[h].kind = "reload" /\ task[h].todo \subseteq Groups
        /\ UNCHANGED <<bot, truth, clean>> /\ task' = [task EXCEPT ![h].at = "next"]
    BY DEF IInv, Typed, TaskOK, TaskType, SwapList, At, Goto
  <1>2. PICK new \in [Groups -> {0} \cup Unused] :
           /\ \A g \in Groups : new[g] # 0 <=> g \in task[h].todo
           /\ \A g, k \in task[h].todo : new[g] = new[k] => g = k
           /\ list' = new
           /\ members' = [o \in Objects |-> IF o \in {new[g] : g \in Groups} THEN NoOne ELSE members[o]]
    BY DEF SwapList
  <1>3. /\ list' \in [Groups -> {0} \cup Objects] /\ members' \in [Objects -> Rosters]
    <2>1. NoOne \in Rosters
      BY DEF NoOne, Rosters, Entries
    <2> QED
      BY <1>1, <1>2, <2>1 DEF Unused
  <1>4. Distinct'
    BY <1>1, <1>2 DEF Distinct
  <1> DEFINE t == [task[h] EXCEPT !.at = "next"]
  <1>5. t \in TaskType /\ t.at = "next" /\ t.kind = "reload" /\ t.todo = task[h].todo
    BY <1>1 DEF TaskType
  <1>6. task' = [task EXCEPT ![h] = t]
    BY <1>1
  <1> HIDE DEF t
  <1>7. /\ task' \in [Handlers -> TaskType] /\ Others(h) /\ task'[h] = t
        /\ clean => Due(h) /\ \A k \in Handlers \ {h} : task'[k] = Idle
    BY <1>1, <1>5, <1>6, Advances
  <1>8. Typed'
    <2>1. TaskOK(h)'
      BY <1>5, <1>7 DEF TaskOK
    <2> QED
      BY <1>1, <1>3, <1>7, <2>1, StillTyped
  <1>9. ASSUME clean PROVE Orderly'
    <2>1. task[h].todo = bot
      BY <1>1, <1>7, <1>9 DEF Due, ReloadDue
    <2>2. \A k \in Groups : Known(k)' /\ (k \notin bot => Right(k)')
      BY <1>1, <1>2, <2>1 DEF Known, Right
    <2>3. ReloadDue(h)'
      BY <1>1, <1>5, <1>7, <2>1, <2>2 DEF ReloadDue
    <2> QED
      BY <1>5, <1>7, <1>9, <2>3, IdleOK, OrderlyAgain DEF Due, Notices
  <1> QED
    BY <1>1, <1>4, <1>8, <1>9 DEF IInv

\* A reload goes on with the next group, or ends.
LEMMA NextGroupStep ==
    ASSUME IInv, NEW h \in Handlers, NextGroup(h)
    PROVE  IInv'
  <1>1. /\ Typed /\ Distinct /\ TaskOK(h) /\ task[h] \in TaskType /\ bot \subseteq Groups
        /\ members \in [Objects -> Rosters] /\ list \in [Groups -> {0} \cup Objects] /\ clean \in BOOLEAN
        /\ task[h].at = "next" /\ task[h].kind = "reload" /\ task[h].todo \subseteq Groups
        /\ UNCHANGED <<bot, truth, list, members, clean>>
    BY DEF IInv, Typed, TaskOK, TaskType, NextGroup, At
  <1>2. Distinct'
    BY <1>1 DEF Distinct
  <1>3. \A k \in Groups : (Right(k)' <=> Right(k)) /\ (Known(k)' <=> Known(k))
    BY <1>1, RightAgain DEF Known
  <1>4. Due(h) => /\ task[h].todo \subseteq bot /\ \A k \in Groups : Known(k)
                  /\ \A k \in Groups \ task[h].todo : Right(k)
    BY <1>1 DEF Due, ReloadDue
  <1>5. CASE task[h].todo = {} /\ Ends(h)
    <2>1. Typed'
      BY <1>1, <1>5, Ended, StillTyped
    <2>2. Due(h) => AllRight'
      BY <1>3, <1>4, <1>5 DEF AllRight
    <2> QED
      BY <1>1, <1>2, <1>5, <2>1, <2>2, EndsRight
  <1>6. ASSUME NEW g \in task[h].todo,
               task' = [task EXCEPT ![h].at = "members", ![h].g = g, ![h].todo = @ \ {g}]
        PROVE  IInv'
    <2> DEFINE t == [task[h] EXCEPT !.at = "members", !.g = g, !.todo = @ \ {g}]
    <2>1. /\ t \in TaskType /\ t.at = "members" /\ t.kind = "reload" /\ t.g = g /\ g \in Groups
          /\ t.todo = task[h].todo \ {g}
      BY <1>1, <1>6 DEF TaskType
    <2>2. task' = [task EXCEPT ![h] = t]
      BY <1>1, <1>6
    <2> HIDE DEF t
    <2>3. /\ task' \in [Handlers -> TaskType] /\ Others(h) /\ task'[h] = t
          /\ clean => Due(h) /\ \A k \in Handlers \ {h} : task'[k] = Idle
      BY <1>1, <2>1, <2>2, Advances
    <2>4. Typed'
      <3>1. TaskOK(h)'
        BY <2>1, <2>3 DEF TaskOK
      <3> QED
        BY <1>1, <2>3, <3>1, StillTyped
    <2>5. ASSUME clean PROVE Orderly'
      <3>1. g \in bot /\ list[g] # 0
        BY <1>4, <1>6, <2>1, <2>3, <2>5 DEF Known
      <3>2. MembersDue(h)'
        BY <1>1, <2>1, <2>3, <3>1 DEF MembersDue
      <3>3. ReloadDue(h)'
        BY <1>1, <1>3, <1>4, <2>1, <2>3, <2>5, <3>2 DEF ReloadDue
      <3> QED
        BY <2>1, <2>3, <2>5, <3>3, IdleOK, OrderlyAgain DEF Due, Notices
    <2> QED
      BY <1>1, <1>2, <2>4, <2>5 DEF IInv
  <1> QED
    BY <1>5, <1>6 DEF NextGroup

-----------------------------------------------------------------------------
(* The invariant, and theorems *)

\* Every step keeps the invariant.
LEMMA StepIInv == IInv /\ [RosterNext]_rosterVars => IInv'
  <1> SUFFICES ASSUME IInv, [RosterNext]_rosterVars PROVE IInv'
    OBVIOUS
  <1>1. CASE UNCHANGED rosterVars
    <2>1. UNCHANGED <<bot, truth, list, members, task, clean>>
      BY <1>1 DEF rosterVars
    <2>2. Typed' /\ Distinct'
      BY <2>1 DEF IInv, Typed, TaskOK, Distinct
    <2>3. ASSUME clean PROVE Orderly'
      <3>1. \A k \in Groups : (Right(k)' <=> Right(k)) /\ (Known(k)' <=> Known(k))
        BY <2>1, RightAgain DEF Known
      <3>2. \A k : AllMembers(k)' = AllMembers(k)
        BY <2>1 DEF AllMembers
      <3>3. ASSUME NEW h \in Handlers, Due(h) PROVE Due(h)'
        <4>1. NoticeDue(h) => NoticeDue(h)'
          BY <2>1, <3>1, <3>2 DEF NoticeDue
        <4>2. MembersDue(h) => MembersDue(h)'
          BY <2>1, <3>2 DEF MembersDue
        <4>3. (JoinDue(h) => JoinDue(h)') /\ (ReloadDue(h) => ReloadDue(h)')
          BY <2>1, <3>1, <4>2 DEF JoinDue, ReloadDue
        <4> QED
          BY <2>1, <3>3, <4>1, <4>3 DEF Due
      <3> QED
        BY <2>1, <2>3, <3>1, <3>3 DEF IInv, Orderly, Quiet, AllRight
    <2> QED
      BY <2>1, <2>2, <2>3 DEF IInv
  <1>2. ASSUME NEW h \in Handlers, Change(h) PROVE IInv'
    BY <1>2, MemberNotices, GroupNotices, Reloads DEF Change
  <1>3. ASSUME NEW h \in Handlers, Step(h) PROVE IInv'
    BY <1>3, FindStep, GetInfoStep, MemberSteps, RemoveGroupStep, EnlistStep, FetchMembersStep,
       FindToStoreStep, SetMembersStep, FetchGroupsStep, SwapListStep, NextGroupStep DEF Step
  <1> QED
    BY <1>1, <1>2, <1>3 DEF RosterNext

\* Whatever the groups, the users and the number of handlers, the invariant holds.
THEOREM Inductive == RosterSpec => []IInv
  BY InitIInv, StepIInv, PTL DEF RosterSpec

\* A reload repairs whatever overlapping notices left wrong, and what is handled one
\* after the other keeps the cache right: the groups listed are those the bot is in,
\* with the members OneBot has.
THEOREM RosterStaysRight == RosterSpec => []RosterMatches
  <1>1. IInv => RosterMatches
    BY DEF IInv, Orderly, AllRight, Right, Known, RosterMatches
  <1> QED
    BY <1>1, Inductive, PTL

\* The bound on the number of changes is kept.
LEMMA EventsBounded == RosterSpec => [](events \in 0..MaxEvents)
  <1>0. MaxEvents \in Nat
    BY GroupRosterAssumption
  <1>1. RosterInit => events \in 0..MaxEvents
    BY <1>0 DEF RosterInit
  <1>2. events \in 0..MaxEvents /\ [RosterNext]_rosterVars => (events \in 0..MaxEvents)'
    <2> SUFFICES ASSUME events \in 0..MaxEvents, [RosterNext]_rosterVars
                 PROVE  events' \in 0..MaxEvents
      OBVIOUS
    <2>1. CASE UNCHANGED rosterVars
      BY <2>1 DEF rosterVars
    <2>2. ASSUME NEW h \in Handlers, Change(h) PROVE events < MaxEvents /\ events' = events + 1
      BY <2>2 DEF Change, MemberJoins, MemberLeaves, BotKicks, AdminChanges, BotJoins, BotLeaves,
                  Reload, Starts
    <2>3. ASSUME NEW h \in Handlers, Step(h) PROVE events' = events
      BY <2>3 DEF Step, Find, GetInfo, AddMember, RemoveMember, UpdateMember, RemoveGroup, Enlist,
                  FetchMembers, FindToStore, SetMembers, FetchGroups, SwapList, NextGroup
    <2> QED
      BY <1>0, <2>1, <2>2, <2>3 DEF RosterNext
  <1> QED
    BY <1>1, <1>2, PTL DEF RosterSpec

\* Every variable stays in its range: no user has two entries in a group.
THEOREM TypeCorrect == RosterSpec => []RosterTypeOK
  <1>1. IInv /\ events \in 0..MaxEvents => RosterTypeOK
    <2> SUFFICES ASSUME IInv, events \in 0..MaxEvents PROVE RosterTypeOK
      OBVIOUS
    <2>1. Typed
      BY DEF IInv
    <2>2. ASSUME NEW o \in Objects, NEW u \in Users
          PROVE  members[o][u] \in Seq(Roles) /\ Len(members[o][u]) <= 1
      <3>1. members[o][u] \in Entries
        BY <2>1 DEF Typed, Rosters
      <3> QED
        BY <3>1, EntryLength
    <2>3. \A h \in Handlers : task[h].obj \in {0} \cup Objects
      BY <2>1 DEF Typed, TaskType
    <2> QED
      BY <2>1, <2>2, <2>3 DEF Typed, RosterTypeOK
  <1> QED
    BY <1>1, Inductive, EventsBounded, PTL

-----------------------------------------------------------------------------
(* Induction *)

\* The pairs of a number and a greater one.
Below == {p \in Nat \X Nat : p[1] < p[2]}

\* A set of numbers has a least one.
LEMMA Least ==
    ASSUME NEW T, T \subseteq Nat, T # {}
    PROVE  \E m \in T : \A k \in T : m <= k
  <1>1. IsWellFoundedOn(Below, Nat)
    BY NatLessThanWellFounded DEF OpToRel, Below
  <1>2. PICK m \in T : \A k \in T : ~(<<k, m>> \in Below)
    BY <1>1, WFMin
  <1>3. ASSUME NEW k \in T PROVE m <= k
    <2>1. <<k, m>> \in Nat \X Nat /\ <<k, m>> \notin Below
      BY <1>2
    <2> QED
      BY <2>1 DEF Below
  <1> QED
    BY <1>3

\* Induction over the numbers, for a set in the place of the predicate.
LEMMA NumbersInduction ==
    ASSUME NEW T, 0 \in T, \A n \in Nat : n \in T => n + 1 \in T
    PROVE  Nat \subseteq T
  <1> DEFINE Rest == Nat \ T
  <1> SUFFICES ASSUME Rest # {} PROVE FALSE
    OBVIOUS
  <1>1. PICK m \in Rest : \A k \in Rest : m <= k
    <2> HIDE DEF Rest
    <2>1. Rest \subseteq Nat
      BY DEF Rest
    <2> QED
      BY <2>1, Least
  <1>2. m # 0 /\ m - 1 \in Nat /\ (m - 1) + 1 = m
    BY <1>1
  <1>3. m - 1 \in T
    BY <1>1, <1>2
  <1> QED
    BY <1>1, <1>2, <1>3

\* Induction over sequences.
LEMMA SequencesInduction ==
    ASSUME NEW S, NEW T, <<>> \in T,
           \A s \in Seq(S), e \in S : s \in T => Append(s, e) \in T
    PROVE  Seq(S) \subseteq T
  <1> DEFINE L == {n \in Nat : \A s \in Seq(S) : Len(s) = n => s \in T}
  <1>1. 0 \in L
    <2> SUFFICES ASSUME NEW s \in Seq(S), Len(s) = 0 PROVE s \in T
      OBVIOUS
    <2>1. s = <<>>
      BY EmptySeq
    <2> QED
      BY <2>1
  <1>2. ASSUME NEW n \in Nat, n \in L PROVE n + 1 \in L
    <2> SUFFICES ASSUME NEW s \in Seq(S), Len(s) = n + 1 PROVE s \in T
      OBVIOUS
    <2>1. s # <<>>
      BY EmptySeq
    <2>2. PICK r \in Seq(S), e \in S : s = Append(r, e)
      BY <2>1, SequenceEmptyOrAppend
    <2>3. Len(r) = n
      BY <2>2, AppendProperties, LenProperties
    <2> QED
      BY <1>2, <2>2, <2>3
  <1>3. Nat \subseteq L
    <2> HIDE DEF L
    <2> QED
      BY <1>1, <1>2, NumbersInduction
  <1> QED
    BY <1>3, LenProperties

-----------------------------------------------------------------------------
(* FlattenSeq *)

\* f joins the first n sequences of ss, one after another.
Joins(f, ss, n) ==
    f = [i \in 1..n |-> IF i = 1 THEN ss[i] ELSE f[i-1] \o ss[i]]

\* What FlattenSeq returns is the last value of the function it is defined by.
LEMMA FlattenIs ==
    ASSUME NEW ss, Len(ss) # 0, \E f : Joins(f, ss, Len(ss))
    PROVE  \E f : Joins(f, ss, Len(ss)) /\ FlattenSeq(ss) = f[Len(ss)]
  <1> DEFINE g == CHOOSE f : Joins(f, ss, Len(ss))
  <1>1. FlattenSeq(ss) = g[Len(ss)]
    BY DEF FlattenSeq, Joins
  <1>2. Joins(g, ss, Len(ss))
    OBVIOUS
  <1> QED
    BY <1>1, <1>2

\* There is such a function, and it is the only one.
LEMMA JoinsExist ==
    ASSUME NEW ss
    PROVE  \A n \in Nat : \E f : Joins(f, ss, n)
  <1> DEFINE T == {n \in Nat : \E f : Joins(f, ss, n)}
  <1>1. 0 \in T
    <2> DEFINE g == [i \in 1..0 |-> 0]
    <2>1. Joins(g, ss, 0)
      BY DEF Joins
    <2> QED
      BY <2>1
  <1>2. ASSUME NEW n \in Nat, n \in T PROVE n + 1 \in T
    <2>1. PICK f : Joins(f, ss, n)
      BY <1>2
    <2> DEFINE g == [i \in 1..(n+1) |-> IF i <= n THEN f[i]
                                        ELSE IF i = 1 THEN ss[i] ELSE f[n] \o ss[i]]
    <2>2. ASSUME NEW i \in 1..(n+1)
          PROVE  g[i] = IF i = 1 THEN ss[i] ELSE g[i-1] \o ss[i]
      <3>1. CASE i <= n
        <4>1. i \in 1..n /\ (i # 1 => i - 1 \in 1..n)
          BY <3>1
        <4>2. f[i] = IF i = 1 THEN ss[i] ELSE f[i-1] \o ss[i]
          BY <2>1, <4>1 DEF Joins
        <4>3. g[i] = f[i] /\ (i # 1 => g[i-1] = f[i-1])
          BY <3>1, <4>1
        <4> QED
          BY <4>2, <4>3
      <3>2. CASE i = n + 1
        <4>1. i # 1 => i - 1 = n /\ n \in 1..(n+1)
          BY <3>2
        <4> QED
          BY <3>2, <4>1
      <3> QED
        BY <3>1, <3>2
    <2>3. Joins(g, ss, n + 1)
      <3> HIDE DEF g
      <3>1. g = [i \in 1..(n+1) |-> g[i]]
        BY DEF g
      <3> QED
        BY <2>2, <3>1 DEF Joins
    <2> QED
      BY <2>3
  <1> HIDE DEF T
  <1>3. Nat \subseteq T
    BY <1>1, <1>2, NumbersInduction
  <1> QED
    BY <1>3 DEF T

\* Two such functions agree as far as their sequences do.
LEMMA JoinsAgree ==
    ASSUME NEW f, NEW g, NEW ss, NEW tt, NEW m \in Nat, NEW n \in Nat,
           Joins(f, ss, m), Joins(g, tt, n), m <= n,
           \A i \in 1..m : ss[i] = tt[i]
    PROVE  \A i \in 1..m : f[i] = g[i]
  <1> DEFINE T == {k \in Nat : k \in 1..m => f[k] = g[k]}
  <1>1. 0 \in T
    OBVIOUS
  <1>2. ASSUME NEW k \in Nat, k \in T PROVE k + 1 \in T
    <2> SUFFICES ASSUME k + 1 \in 1..m PROVE f[k+1] = g[k+1]
      OBVIOUS
    <2> DEFINE j == k + 1
    <2>1. j \in 1..m /\ j \in 1..n /\ j - 1 = k /\ (j # 1 => k \in 1..m)
      OBVIOUS
    <2>2. f[j] = IF j = 1 THEN ss[j] ELSE f[k] \o ss[j]
      <3> HIDE DEF j
      <3> QED BY <2>1 DEF Joins
    <2>3. g[j] = IF j = 1 THEN tt[j] ELSE g[k] \o tt[j]
      <3> HIDE DEF j
      <3> QED BY <2>1 DEF Joins
    <2> HIDE DEF j
    <2>4. f[j] = g[j]
      BY <1>2, <2>1, <2>2, <2>3
    <2> QED
      BY <2>4 DEF j
  <1> HIDE DEF T
  <1>3. Nat \subseteq T
    BY <1>1, <1>2, NumbersInduction
  <1> QED
    BY <1>3 DEF T

\* Nothing joined is nothing.
LEMMA FlattenEmpty == FlattenSeq(<<>>) = <<>>
  BY DEF FlattenSeq

\* FlattenSeq joins its last sequence to what it makes of the others.
LEMMA FlattenAppend ==
    ASSUME NEW S, NEW ss \in Seq(Seq(S)), NEW s \in Seq(S),
           FlattenSeq(ss) \in Seq(S)
    PROVE  FlattenSeq(Append(ss, s)) = FlattenSeq(ss) \o s
  <1> DEFINE tt == Append(ss, s)
             n  == Len(ss)
  <1>1. n \in Nat /\ Len(tt) = n + 1 /\ tt[n+1] = s /\ \A i \in 1..n : ss[i] = tt[i]
    BY AppendProperties, LenProperties
  <1> HIDE DEF tt
  <1>2. PICK g : Joins(g, tt, n + 1) /\ FlattenSeq(tt) = g[n+1]
    <2> HIDE DEF n
    <2>1. \A k \in Nat : \E f : Joins(f, tt, k)
      BY JoinsExist
    <2>2. Len(tt) \in Nat /\ Len(tt) # 0
      BY <1>1
    <2>3. \E f : Joins(f, tt, Len(tt))
      BY <2>1, <2>2
    <2>4. \E f : Joins(f, tt, Len(tt)) /\ FlattenSeq(tt) = f[Len(tt)]
      BY <2>2, <2>3, FlattenIs
    <2> QED
      BY <1>1, <2>4
  <1>3. CASE n = 0
    <2>1. ss = <<>>
      BY <1>3, EmptySeq
    <2>2. g[1] = tt[1]
      BY <1>2, <1>3 DEF Joins
    <2>3. FlattenSeq(ss) \o s = s
      BY <2>1, FlattenEmpty, ConcatEmptySeq
    <2> QED
      BY <1>1, <1>2, <1>3, <2>2, <2>3 DEF tt
  <1>4. CASE n # 0
    <2>1. PICK f : Joins(f, ss, n) /\ FlattenSeq(ss) = f[n]
      BY <1>1, <1>4, JoinsExist, FlattenIs
    <2>2. f[n] = g[n]
      <3> HIDE DEF n
      <3>0. n \in Nat /\ n # 0
        BY <1>1, <1>4
      <3>1. n \in 1..n /\ n <= n + 1 /\ n + 1 \in Nat
        BY <3>0
      <3> QED
        BY <1>1, <1>2, <2>1, <3>1, JoinsAgree
    <2>3. g[n+1] = g[n] \o tt[n+1]
      <3> HIDE DEF n
      <3>0. n \in Nat /\ n # 0
        BY <1>1, <1>4
      <3>1. n + 1 \in 1..(n+1) /\ n + 1 # 1 /\ (n + 1) - 1 = n
        BY <3>0
      <3> QED
        BY <1>2, <3>1 DEF Joins
    <2> QED
      BY <1>1, <1>2, <2>1, <2>2, <2>3 DEF tt
  <1> QED
    BY <1>3, <1>4

\* Sequences over S are joined to a sequence over S.
LEMMA FlattenType ==
    ASSUME NEW S
    PROVE  \A ss \in Seq(Seq(S)) : FlattenSeq(ss) \in Seq(S)
  <1> DEFINE T == {ss \in Seq(Seq(S)) : FlattenSeq(ss) \in Seq(S)}
  <1>1. <<>> \in T
    BY FlattenEmpty, EmptySeq
  <1>2. ASSUME NEW ss \in Seq(Seq(S)), NEW s \in Seq(S), ss \in T PROVE Append(ss, s) \in T
    BY <1>2, FlattenAppend, ConcatProperties, AppendProperties
  <1> HIDE DEF T
  <1>3. Seq(Seq(S)) \subseteq T
    BY <1>1, <1>2, SequencesInduction
  <1> QED
    BY <1>3 DEF T

\* FlattenSeq of a concatenation is the concatenation of both.
LEMMA FlattenConcat ==
    ASSUME NEW S, NEW rr \in Seq(Seq(S))
    PROVE  \A ss \in Seq(Seq(S)) : FlattenSeq(rr \o ss) = FlattenSeq(rr) \o FlattenSeq(ss)
  <1> DEFINE T == {ss \in Seq(Seq(S)) : FlattenSeq(rr \o ss) = FlattenSeq(rr) \o FlattenSeq(ss)}
  <1>1. <<>> \in T
    BY FlattenEmpty, FlattenType, EmptySeq, ConcatEmptySeq
  <1>2. ASSUME NEW ss \in Seq(Seq(S)), NEW s \in Seq(S), ss \in T PROVE Append(ss, s) \in T
    <2>1. rr \o ss \in Seq(Seq(S)) /\ Append(ss, s) \in Seq(Seq(S))
      BY ConcatProperties, AppendProperties
    <2>2. rr \o Append(ss, s) = Append(rr \o ss, s)
      <3>1. Append(ss, s) = ss \o <<s>> /\ Append(rr \o ss, s) = (rr \o ss) \o <<s>>
            /\ <<s>> \in Seq(Seq(S))
        BY <2>1, AppendIsConcat
      <3> QED
        BY <3>1, ConcatAssociative
    <2>3. FlattenSeq(rr \o Append(ss, s)) = FlattenSeq(rr \o ss) \o s
      BY <2>1, <2>2, FlattenType, FlattenAppend
    <2>4. FlattenSeq(Append(ss, s)) = FlattenSeq(ss) \o s
      BY FlattenType, FlattenAppend
    <2>5. FlattenSeq(rr) \in Seq(S) /\ FlattenSeq(ss) \in Seq(S)
      BY FlattenType
    <2>6. (FlattenSeq(rr) \o FlattenSeq(ss)) \o s = FlattenSeq(rr) \o (FlattenSeq(ss) \o s)
      BY <2>5, ConcatAssociative
    <2> QED
      BY <1>2, <2>1, <2>3, <2>4, <2>6
  <1> HIDE DEF T
  <1>3. Seq(Seq(S)) \subseteq T
    BY <1>1, <1>2, SequencesInduction
  <1> QED
    BY <1>3 DEF T

-----------------------------------------------------------------------------
(* Mapping a sequence to the concatenation of what each element becomes *)

\* F makes a sequence of S of each element of V.
Maps(F, V, S) == F \in [V -> Seq(S)]

\* What F makes of each element of s.
Each(F, s) == [i \in DOMAIN s |-> F[s[i]]]

\* Mapping keeps the length, and gives sequences.
LEMMA EachType ==
    ASSUME NEW S, NEW V, NEW F \in [V -> Seq(S)], NEW s \in Seq(V)
    PROVE  Each(F, s) \in Seq(Seq(S)) /\ Len(Each(F, s)) = Len(s)
  <1>1. Len(s) \in Nat /\ DOMAIN s = 1..Len(s) /\ \A i \in 1..Len(s) : s[i] \in V
    BY LenProperties, ElementOfSeq
  <1> DEFINE Q == Seq(S)
             e == Each(F, s)
             n == Len(s)
  <1>2. n \in Nat /\ e \in [1..n -> Q]
    BY <1>1 DEF Each
  <1>3. e \in Seq(Q) /\ Len(e) = n
    <2> HIDE DEF Q, e, n
    <2>1. e \in Seq(Q)
      BY <1>2, SeqDef
    <2>2. DOMAIN e = 1..n
      BY <1>2
    <2>3. DOMAIN e = 1..Len(e) /\ Len(e) \in Nat
      BY <2>1, LenProperties
    <2> QED
      BY <1>2, <2>1, <2>2, <2>3
  <1> QED
    BY <1>3

\* Mapping a concatenation is the concatenation of both mappings.
LEMMA EachConcat ==
    ASSUME NEW S, NEW V, NEW F \in [V -> Seq(S)], NEW s \in Seq(V), NEW t \in Seq(V)
    PROVE  Each(F, s \o t) = Each(F, s) \o Each(F, t)
  <1>1. s \o t \in Seq(V) /\ Len(s \o t) = Len(s) + Len(t) /\ Len(s) \in Nat /\ Len(t) \in Nat
        /\ DOMAIN s = 1..Len(s) /\ DOMAIN t = 1..Len(t) /\ DOMAIN (s \o t) = 1..(Len(s) + Len(t))
    BY ConcatProperties, LenProperties
  <1>2. /\ Each(F, s \o t) \in Seq(Seq(S)) /\ Each(F, s) \in Seq(Seq(S)) /\ Each(F, t) \in Seq(Seq(S))
        /\ Len(Each(F, s \o t)) = Len(s) + Len(t)
        /\ Len(Each(F, s)) = Len(s) /\ Len(Each(F, t)) = Len(t)
    <2>1. \A r \in Seq(V) : Each(F, r) \in Seq(Seq(S)) /\ Len(Each(F, r)) = Len(r)
      BY EachType
    <2> QED
      BY <1>1, <2>1
  <1>3. /\ Each(F, s) \o Each(F, t) \in Seq(Seq(S))
        /\ Len(Each(F, s) \o Each(F, t)) = Len(s) + Len(t)
        /\ \A i \in 1..(Len(s) + Len(t)) : (Each(F, s) \o Each(F, t))[i] =
               IF i <= Len(s) THEN Each(F, s)[i] ELSE Each(F, t)[i - Len(s)]
    <2> DEFINE Q == Seq(S)
               e == Each(F, s)
               d == Each(F, t)
    <2>1. e \in Seq(Q) /\ d \in Seq(Q) /\ Len(e) = Len(s) /\ Len(d) = Len(t)
      BY <1>2
    <2> HIDE DEF Q, e, d
    <2>2. /\ e \o d \in Seq(Q)
          /\ Len(e \o d) = Len(e) + Len(d)
          /\ \A i \in 1..(Len(e) + Len(d)) : (e \o d)[i] = IF i <= Len(e) THEN e[i] ELSE d[i - Len(e)]
      BY <2>1, ConcatProperties
    <2> QED
      BY <2>1, <2>2 DEF Q, e, d
  <1>4. ASSUME NEW i \in 1..(Len(s) + Len(t))
        PROVE  Each(F, s \o t)[i] = (Each(F, s) \o Each(F, t))[i]
    <2>1. Each(F, s \o t)[i] = F[(s \o t)[i]]
      BY <1>1 DEF Each
    <2>2. (s \o t)[i] = IF i <= Len(s) THEN s[i] ELSE t[i - Len(s)]
      BY ConcatProperties
    <2>3. CASE i <= Len(s)
      <3>1. i \in 1..Len(s)
        BY <1>1, <2>3
      <3>2. Each(F, s)[i] = F[s[i]]
        BY <1>1, <3>1 DEF Each
      <3> QED
        BY <1>3, <2>1, <2>2, <2>3, <3>2
    <2>4. CASE ~(i <= Len(s))
      <3>1. i - Len(s) \in 1..Len(t)
        BY <1>1, <2>4
      <3>2. Each(F, t)[i - Len(s)] = F[t[i - Len(s)]]
        BY <1>1, <3>1 DEF Each
      <3> QED
        BY <1>3, <2>1, <2>2, <2>4, <3>2
    <2> QED
      BY <2>3, <2>4
  <1> QED
    BY <1>2, <1>3, <1>4, SeqEqual

\* What F makes of a concatenation, joined, is what it makes of both.
LEMMA JoinedConcat ==
    ASSUME NEW S, NEW V, NEW F, Maps(F, V, S)
    PROVE  \A s, t \in Seq(V) :
              FlattenSeq(Each(F, s \o t)) = FlattenSeq(Each(F, s)) \o FlattenSeq(Each(F, t))
  <1> SUFFICES ASSUME NEW s \in Seq(V), NEW t \in Seq(V)
               PROVE  FlattenSeq(Each(F, s \o t)) = FlattenSeq(Each(F, s)) \o FlattenSeq(Each(F, t))
    OBVIOUS
  <1>0. F \in [V -> Seq(S)]
    BY DEF Maps
  <1>1. Each(F, s) \in Seq(Seq(S)) /\ Each(F, t) \in Seq(Seq(S))
    BY <1>0, EachType
  <1>2. Each(F, s \o t) = Each(F, s) \o Each(F, t)
    BY <1>0, EachConcat
  <1>3. \A rr, tt \in Seq(Seq(S)) : FlattenSeq(rr \o tt) = FlattenSeq(rr) \o FlattenSeq(tt)
    BY FlattenConcat
  <1> QED
    BY <1>1, <1>2, <1>3

\* One element becomes what F makes of it.
LEMMA JoinedOne ==
    ASSUME NEW S, NEW V, NEW F \in [V -> Seq(S)], NEW x \in V
    PROVE  FlattenSeq(Each(F, <<x>>)) = F[x]
  <1>1. Each(F, <<x>>) = Append(<<>>, F[x])
    <2>1. DOMAIN <<x>> = 1..1 /\ <<x>>[1] = x
      OBVIOUS
    <2>2. Each(F, <<x>>) = [i \in 1..1 |-> F[x]]
      BY <2>1 DEF Each
    <2>3. <<F[x]>> = [i \in 1..1 |-> F[x]]
      OBVIOUS
    <2> QED
      BY <2>2, <2>3
  <1>2. <<>> \in Seq(Seq(S)) /\ <<>> \in Seq(S) /\ F[x] \in Seq(S)
    BY EmptySeq
  <1>3. FlattenSeq(Append(<<>>, F[x])) = FlattenSeq(<<>>) \o F[x]
    BY <1>2, FlattenEmpty, FlattenAppend
  <1>4. <<>> \o F[x] = F[x]
    BY <1>2, ConcatEmptySeq
  <1> QED
    BY <1>1, <1>3, <1>4, FlattenEmpty

\* No elements become nothing.
LEMMA JoinedNone ==
    ASSUME NEW F
    PROVE  FlattenSeq(Each(F, <<>>)) = <<>>
  <1>1. Each(F, <<>>) = <<>>
    BY DEF Each
  <1> QED
    BY <1>1, FlattenEmpty

\* What F makes of a sequence, joined, is a sequence over S.
LEMMA JoinedType ==
    ASSUME NEW S, NEW V, NEW F \in [V -> Seq(S)], NEW s \in Seq(V)
    PROVE  FlattenSeq(Each(F, s)) \in Seq(S)
  BY EachType, FlattenType

-----------------------------------------------------------------------------
(* The counters of a chunk *)

\* f adds up the weights of the first n segments of c.
Sums(f, c, n) == f = [k \in 0..n |-> IF k = 0 THEN 0 ELSE f[k-1] + Weight(c[k])]

\* TextOf is the last of the sums.
LEMMA TextOfIs ==
    ASSUME NEW c, \E f : Sums(f, c, Len(c))
    PROVE  \E f : Sums(f, c, Len(c)) /\ TextOf(c) = f[Len(c)]
  <1> DEFINE g == CHOOSE f : Sums(f, c, Len(c))
  <1>1. TextOf(c) = g[Len(c)]
    BY DEF TextOf, Sums
  <1>2. Sums(g, c, Len(c))
    OBVIOUS
  <1> QED
    BY <1>1, <1>2

\* There is a function of the sums.
LEMMA SumsExist ==
    ASSUME NEW c
    PROVE  \A n \in Nat : \E f : Sums(f, c, n)
  <1> DEFINE T == {n \in Nat : \E f : Sums(f, c, n)}
  <1>1. 0 \in T
    <2> DEFINE g == [k \in 0..0 |-> 0]
    <2>1. Sums(g, c, 0)
      BY DEF Sums
    <2> QED
      BY <2>1
  <1>2. ASSUME NEW n \in Nat, n \in T PROVE n + 1 \in T
    <2>1. PICK f : Sums(f, c, n)
      BY <1>2
    <2> DEFINE g == [k \in 0..(n+1) |-> IF k <= n THEN f[k] ELSE f[n] + Weight(c[k])]
    <2>2. ASSUME NEW k \in 0..(n+1)
          PROVE  g[k] = IF k = 0 THEN 0 ELSE g[k-1] + Weight(c[k])
      <3>1. CASE k <= n
        <4>1. k \in 0..n /\ (k # 0 => k - 1 \in 0..n)
          BY <3>1
        <4>2. f[k] = IF k = 0 THEN 0 ELSE f[k-1] + Weight(c[k])
          BY <2>1, <4>1 DEF Sums
        <4>3. g[k] = f[k] /\ (k # 0 => g[k-1] = f[k-1])
          BY <3>1, <4>1
        <4> QED
          BY <4>2, <4>3
      <3>2. CASE k = n + 1
        <4>1. k # 0 /\ k - 1 = n /\ n \in 0..(n+1) /\ ~(k <= n)
          BY <3>2
        <4>2. g[k] = f[n] + Weight(c[k]) /\ g[n] = f[n]
          BY <4>1
        <4> QED
          BY <4>1, <4>2
      <3> QED
        BY <3>1, <3>2
    <2>3. Sums(g, c, n + 1)
      <3> HIDE DEF g
      <3>1. g = [k \in 0..(n+1) |-> g[k]]
        BY DEF g
      <3> QED
        BY <2>2, <3>1 DEF Sums
    <2> QED
      BY <2>3
  <1> HIDE DEF T
  <1>3. Nat \subseteq T
    BY <1>1, <1>2, NumbersInduction
  <1> QED
    BY <1>3 DEF T

\* The sums up to k depend on the first k segments alone.
LEMMA SumsAgree ==
    ASSUME NEW f, NEW g, NEW c, NEW d, NEW m \in Nat, NEW n \in Nat,
           Sums(f, c, m), Sums(g, d, n), m <= n,
           \A i \in 1..m : c[i] = d[i]
    PROVE  f[m] = g[m]
  <1> DEFINE T == {k \in Nat : k \in 0..m => f[k] = g[k]}
  <1>1. 0 \in T
    BY DEF Sums
  <1>2. ASSUME NEW k \in Nat, k \in T PROVE k + 1 \in T
    <2> SUFFICES ASSUME k + 1 \in 0..m PROVE f[k+1] = g[k+1]
      OBVIOUS
    <2> DEFINE j == k + 1
    <2>1. j \in 1..m /\ j \in 0..m /\ j \in 0..n /\ j - 1 = k /\ k \in 0..m /\ j # 0
      OBVIOUS
    <2> HIDE DEF j
    <2>2. f[j] = f[k] + Weight(c[j])
      BY <2>1 DEF Sums
    <2>3. g[j] = g[k] + Weight(d[j])
      BY <2>1 DEF Sums
    <2>4. f[j] = g[j]
      BY <1>2, <2>1, <2>2, <2>3
    <2> QED
      BY <2>4 DEF j
  <1> HIDE DEF T
  <1>3. Nat \subseteq T
    BY <1>1, <1>2, NumbersInduction
  <1>4. m \in 0..m
    OBVIOUS
  <1> QED
    BY <1>3, <1>4 DEF T

\* What a segment counts is a number.
LEMMA WeightType == ASSUME NEW x \in Segments PROVE Weight(x) \in Nat
  <1>1. x.text \in Seq(Runes)
    BY DEF Segments
  <1>2. Len(x.text) \in Nat
    BY <1>1, LenProperties
  <1> QED
    BY <1>2, MessageChunksAssumption DEF Weight

\* An empty chunk counts nothing.
LEMMA TextOfEmpty == TextOf(<<>>) = 0
  <1>1. Len(<<>>) = 0
    OBVIOUS
  <1>2. PICK f : Sums(f, <<>>, 0) /\ TextOf(<<>>) = f[0]
    <2>1. \E f : Sums(f, <<>>, 0)
      BY SumsExist
    <2> QED
      BY <1>1, <2>1, TextOfIs
  <1> QED
    BY <1>2 DEF Sums

\* A segment more counts what it weighs.
LEMMA TextOfAppend ==
    ASSUME NEW c \in Seq(Segments), NEW x \in Segments
    PROVE  TextOf(Append(c, x)) = TextOf(c) + Weight(x)
  <1> DEFINE d == Append(c, x)
             n == Len(c)
  <1>1. n \in Nat /\ Len(d) = n + 1 /\ d[n+1] = x /\ \A i \in 1..n : c[i] = d[i]
    BY AppendProperties, LenProperties
  <1> HIDE DEF d, n
  <1>2. PICK g : Sums(g, d, n + 1) /\ TextOf(d) = g[n+1]
    <2>1. \A k \in Nat : \E f : Sums(f, d, k)
      BY SumsExist
    <2>2. n + 1 \in Nat
      BY <1>1
    <2>3. \E f : Sums(f, d, Len(d))
      BY <1>1, <2>1, <2>2
    <2>4. \E f : Sums(f, d, Len(d)) /\ TextOf(d) = f[Len(d)]
      BY <2>3, TextOfIs
    <2> QED
      BY <1>1, <2>4
  <1>3. PICK f : Sums(f, c, n) /\ TextOf(c) = f[n]
    <2>1. \A k \in Nat : \E f : Sums(f, c, k)
      BY SumsExist
    <2>2. \E f : Sums(f, c, Len(c)) /\ TextOf(c) = f[Len(c)]
      BY <1>1, <2>1, TextOfIs DEF n
    <2> QED
      BY <2>2 DEF n
  <1>4. f[n] = g[n]
    <2>1. n <= n + 1 /\ n + 1 \in Nat
      BY <1>1
    <2> QED
      BY <1>1, <1>2, <1>3, <2>1, SumsAgree
  <1>5. g[n+1] = g[n] + Weight(d[n+1])
    <2>1. n + 1 \in 0..(n+1) /\ n + 1 # 0 /\ (n + 1) - 1 = n
      BY <1>1
    <2> QED
      BY <1>2, <2>1 DEF Sums
  <1> QED
    BY <1>1, <1>2, <1>3, <1>4, <1>5 DEF d

\* The text of a chunk is a number.
LEMMA TextOfType == \A c \in Seq(Segments) : TextOf(c) \in Nat
  <1> DEFINE T == {c \in Seq(Segments) : TextOf(c) \in Nat}
  <1>1. <<>> \in T
    BY TextOfEmpty, EmptySeq
  <1>2. ASSUME NEW c \in Seq(Segments), NEW x \in Segments, c \in T PROVE Append(c, x) \in T
    <2>1. TextOf(Append(c, x)) = TextOf(c) + Weight(x)
      BY TextOfAppend
    <2>2. Weight(x) \in Nat
      BY WeightType
    <2> QED
      BY <1>2, <2>1, <2>2, AppendProperties
  <1> HIDE DEF T
  <1>3. Seq(Segments) \subseteq T
    BY <1>1, <1>2, SequencesInduction
  <1> QED
    BY <1>3 DEF T

\* An empty chunk has no images.
LEMMA ImagesOfEmpty == ImagesOf(<<>>) = 0
  <1>1. {i \in DOMAIN <<>> : <<>>[i].type = "image"} = {}
    OBVIOUS
  <1> QED
    BY <1>1, FS_EmptySet DEF ImagesOf

\* Only an image is one image more.
LEMMA ImagesOfAppend ==
    ASSUME NEW c \in Seq(Segments), NEW x \in Segments
    PROVE  /\ ImagesOf(c) \in Nat
           /\ ImagesOf(Append(c, x)) = IF x.type = "image" THEN ImagesOf(c) + 1 ELSE ImagesOf(c)
  <1> DEFINE d == Append(c, x)
             n == Len(c)
             A == {i \in DOMAIN c : c[i].type = "image"}
             B == {i \in DOMAIN d : d[i].type = "image"}
  <1>1. /\ n \in Nat /\ DOMAIN c = 1..n /\ DOMAIN d = 1..(n+1)
        /\ d[n+1] = x /\ \A i \in 1..n : c[i] = d[i]
    BY AppendProperties, LenProperties
  <1> HIDE DEF d, n
  <1>2. IsFiniteSet(A) /\ n + 1 \notin A
    <2>1. IsFiniteSet(1..n)
      BY <1>1, FS_Interval
    <2>2. A \subseteq 1..n
      BY <1>1
    <2> QED
      BY <1>1, <2>1, <2>2, FS_Subset
  <1>3. B = IF x.type = "image" THEN A \cup {n + 1} ELSE A
    <2>1. \A i : i \in 1..(n+1) <=> i \in 1..n \/ i = n + 1
      BY <1>1
    <2> QED
      BY <1>1, <2>1
  <1>4. Cardinality(A) \in Nat /\ Cardinality(A \cup {n + 1}) = Cardinality(A) + 1
    <2> HIDE DEF A
    <2> QED
      BY <1>2, FS_CardinalityType, FS_AddElement
  <1>5. ImagesOf(c) = Cardinality(A) /\ ImagesOf(Append(c, x)) = Cardinality(B)
    BY DEF ImagesOf, d
  <1> QED
    BY <1>3, <1>4, <1>5

-----------------------------------------------------------------------------
(* Where a text is cut *)

\* Max returns the largest number of a set that has a bound.
LEMMA Largest ==
    ASSUME NEW N \in Nat, NEW S, S \subseteq 0..N, S # {}
    PROVE  Max(S) \in S /\ \A x \in S : x <= Max(S)
  <1> DEFINE T == {n \in Nat : \A x \in S : x <= n}
  <1>1. N \in T
    OBVIOUS
  <1>2. PICK m \in T : \A k \in T : m <= k
    <2> HIDE DEF T
    <2>1. T \subseteq Nat
      BY DEF T
    <2> QED
      BY <1>1, <2>1, Least
  <1>3. m \in S
    <2> SUFFICES ASSUME m \notin S PROVE FALSE
      OBVIOUS
    <2>1. \A x \in S : x \in Nat /\ x < m
      BY <1>2
    <2> PICK x0 \in S : TRUE
      OBVIOUS
    <2>2. m # 0
      BY <2>1, x0 < m, x0 \in Nat
    <2>3. m - 1 \in Nat /\ ~(m <= m - 1)
      BY <2>2
    <2>4. \A x \in S : x <= m - 1
      BY <2>1, <2>3
    <2>5. m - 1 \in T
      BY <2>3, <2>4
    <2> QED
      BY <1>2, <2>3, <2>5
  <1>4. \A x \in S : m >= x
    BY <1>2
  <1> QED
    BY <1>3, <1>4 DEF Max

\* Min returns the least number of a set.
LEMMA Smallest ==
    ASSUME NEW S, S \subseteq Nat, S # {}
    PROVE  Min(S) \in S /\ \A x \in S : Min(S) <= x
  <1>1. \E m \in S : \A x \in S : m <= x
    BY Least
  <1> QED
    BY <1>1 DEF Min

\* The last position, or zero, is within the limit.
LEMMA LastBound ==
    ASSUME NEW N \in Nat, NEW S, S \subseteq 0..N
    PROVE  Last0(S) \in 0..N
  <1>1. CASE S = {}
    BY <1>1 DEF Last0
  <1>2. CASE S # {}
    <2>1. Max(S) \in S
      BY <1>2, Largest
    <2> QED
      BY <1>2, <2>1 DEF Last0
  <1> QED
    BY <1>1, <1>2

\* A text is cut within the limit.
LEMMA CutWithin ==
    ASSUME NEW t, NEW limit \in Nat \ {0}
    PROVE  CutPos(t, limit) \in 0..limit
  <1>1. NewlinePos(t, limit) \in 0..limit
    <2>1. {i \in 0..limit-1 : t[i+1] = "nl"} \subseteq 0..limit
      OBVIOUS
    <2> QED
      BY <2>1, LastBound DEF NewlinePos
  <1>2. PunctPos(t, limit) \in 0..limit
    <2>1. {i \in 1..limit : \E p \in Puncts : Len(p) <= i /\ SubSeq(t, i - Len(p) + 1, i) = p}
             \subseteq 0..limit
      OBVIOUS
    <2> QED
      BY <2>1, LastBound DEF PunctPos
  <1>3. Max({NewlinePos(t, limit), PunctPos(t, limit)}) \in 0..limit
    <2>1. {NewlinePos(t, limit), PunctPos(t, limit)} \subseteq 0..limit
      BY <1>1, <1>2
    <2> QED
      BY <2>1, Largest
  <1> QED
    BY <1>1, <1>3 DEF CutPos

\* The first n runes of a text.
LEMMA Prefix ==
    ASSUME NEW t \in Seq(Runes), NEW n \in 0..Len(t)
    PROVE  SubSeq(t, 1, n) \in Seq(Runes) /\ Len(SubSeq(t, 1, n)) = n
  <1>1. n \in Int /\ 1 \in Int /\ \A i \in 1..n : t[i] \in Runes
    BY ElementOfSeq, LenProperties
  <1>2. SubSeq(t, 1, n) \in Seq(Runes) /\ Len(SubSeq(t, 1, n)) = IF 1 <= n THEN n - 1 + 1 ELSE 0
    BY <1>1, SubSeqProperties
  <1> QED
    BY <1>2

\* The first n runes of the first m.
LEMMA PrefixOfPrefix ==
    ASSUME NEW t \in Seq(Runes), NEW m \in 0..Len(t), NEW n \in 0..m
    PROVE  SubSeq(SubSeq(t, 1, m), 1, n) = SubSeq(t, 1, n)
  <1>1. Len(t) \in Nat
    BY LenProperties
  <1>2. CASE n = 0
    BY <1>2, SubSeqEmpty
  <1>3. CASE n # 0
    <2>1. /\ 1 \in 1..Len(t) /\ m \in 1..Len(t)
          /\ 1 \in 1..(m-1+1) /\ n \in 1..(m-1+1)
      BY <1>1, <1>3
    <2>2. SubSeq(SubSeq(t, 1, m), 1, n) = SubSeq(t, 1+1-1, 1+n-1)
      BY <2>1, SubSeqOfSubSeq
    <2> QED
      BY <2>2, <1>1
  <1> QED
    BY <1>2, <1>3

\* The part is what the text begins with, and no longer than the limit.
LEMMA PartIsPrefix ==
    ASSUME NEW t \in Seq(Runes), NEW limit \in Nat \ {0}, limit < Len(t)
    PROVE  \E n \in 0..limit : Split(t, limit).part = SubSeq(t, 1, n)
  <1> DEFINE cut == CutPos(t, limit)
             u   == SubSeq(t, 1, cut)
             k   == Last0({i \in 1..Len(u) : u[i] # "nl"})
  <1>1. Len(t) \in Nat /\ cut \in 0..limit /\ cut \in 0..Len(t)
    BY CutWithin, LenProperties
  <1>2. Len(u) = cut
    <2> HIDE DEF cut
    <2> QED
      BY <1>1, Prefix
  <1>3. k \in 0..cut
    <2> HIDE DEF cut, u
    <2>1. {i \in 1..Len(u) : u[i] # "nl"} \subseteq 0..cut /\ cut \in Nat
      BY <1>1, <1>2
    <2> QED
      BY <2>1, LastBound
  <1>4. CASE cut > 0
    <2>1. Split(t, limit).part = SubSeq(u, 1, k)
      BY <1>4 DEF Split, TrimRight
    <2>2. SubSeq(u, 1, k) = SubSeq(t, 1, k)
      <3> HIDE DEF cut, k
      <3> QED
        BY <1>1, <1>3, PrefixOfPrefix
    <2>3. k \in 0..limit
      <3> HIDE DEF cut, k
      <3> QED
        BY <1>1, <1>3
    <2> QED
      BY <2>1, <2>2, <2>3
  <1>5. CASE ~(cut > 0)
    <2>1. Split(t, limit).part = SubSeq(t, 1, limit)
      BY <1>5 DEF Split
    <2> QED
      BY <2>1
  <1> QED
    BY <1>4, <1>5

\* TrimLeft gives a text.
LEMMA TrimmedType ==
    ASSUME NEW t \in Seq(Runes)
    PROVE  TrimLeft(t) \in Seq(Runes)
  <1> DEFINE first == {i \in 1..Len(t) : t[i] # "nl"}
  <1>1. Len(t) \in Nat /\ \A i \in 1..Len(t) : t[i] \in Runes
    BY ElementOfSeq, LenProperties
  <1>2. CASE first = {}
    BY <1>2, EmptySeq DEF TrimLeft
  <1>3. CASE first # {}
    <2>1. Min(first) \in 1..Len(t)
      <3>1. first \subseteq Nat /\ first \subseteq 1..Len(t)
        BY <1>1
      <3> HIDE DEF first
      <3> QED
        BY <1>3, <3>1, Smallest
    <2>2. SubSeq(t, Min(first), Len(t)) \in Seq(Runes)
      <3> HIDE DEF first
      <3>1. \A i \in Min(first)..Len(t) : t[i] \in Runes
        BY <1>1, <2>1
      <3>2. Min(first) \in Int /\ Len(t) \in Int
        BY <1>1, <2>1
      <3> QED
        BY <3>1, <3>2, SubSeqProperties
    <2> QED
      BY <1>3, <2>2 DEF TrimLeft
  <1> QED
    BY <1>2, <1>3

\* What follows the first n runes.
LEMMA Remainder ==
    ASSUME NEW t \in Seq(Runes), NEW n \in 0..Len(t)
    PROVE  /\ SubSeq(t, n + 1, Len(t)) \in Seq(Runes)
           /\ t = SubSeq(t, 1, n) \o SubSeq(t, n + 1, Len(t))
  <1>1. Len(t) \in Nat /\ \A i \in 1..Len(t) : t[i] \in Runes
    BY ElementOfSeq, LenProperties
  <1>2. SubSeq(t, n + 1, Len(t)) \in Seq(Runes)
    <2>1. \A i \in (n+1)..Len(t) : t[i] \in Runes
      BY <1>1
    <2>2. n + 1 \in Int /\ Len(t) \in Int
      BY <1>1
    <2> QED
      BY <2>1, <2>2, SubSeqProperties
  <1>3. SubSeq(t, 1, n) \o SubSeq(t, n + 1, Len(t)) = SubSeq(t, 1, Len(t))
    <2>1. 1 \in 1..(Len(t)+1) /\ n \in (1-1)..Len(t) /\ Len(t) \in n..Len(t)
      BY <1>1
    <2> QED
      BY <2>1, ConcatAdjacentSubSeq
  <1>4. SubSeq(t, 1, Len(t)) = t
    BY SubSeqFull
  <1> QED
    BY <1>2, <1>3, <1>4

-----------------------------------------------------------------------------
(* The limits *)

StandsAlone(c) == (\E i \in DOMAIN c : c[i].type \in SingleTypes) => Len(c) = 1

\* The chunks that may be finished, and those that may still be open: in an open one
\* nothing must be alone.
Good == {c \in Seq(Segments) : /\ c # <<>> /\ StandsAlone(c)
                               /\ TextOf(c) <= MaxText /\ ImagesOf(c) <= MaxImages}
Open == {c \in Seq(Segments) : /\ \A i \in DOMAIN c : c[i].type \notin SingleTypes
                               /\ TextOf(c) <= MaxText /\ ImagesOf(c) <= MaxImages}

\* The inductive invariant.
ChunksIInv == ChunksTypeOK /\ chunks \in Seq(Good) /\ chunk \in Open

\* An open chunk may be finished unless it is empty.
LEMMA OpenIsGood == \A c \in Open : c = <<>> \/ c \in Good
  BY DEF Open, Good, StandsAlone

\* A chunk starts empty.
LEMMA EmptyOpen == <<>> \in Open
  <1>1. <<>> \in Seq(Segments) /\ DOMAIN <<>> = {}
    BY EmptySeq
  <1> QED
    BY <1>1, TextOfEmpty, ImagesOfEmpty, MessageChunksAssumption DEF Open

\* flush finishes good chunks only.
LEMMA FinishedGood == ChunksIInv => Finished \in Seq(Good)
  <1> SUFFICES ASSUME ChunksIInv, chunk # <<>> PROVE Append(chunks, chunk) \in Seq(Good)
    BY DEF ChunksIInv, Finished
  <1>1. chunk \in Good /\ chunks \in Seq(Good)
    BY OpenIsGood DEF ChunksIInv
  <1> QED
    BY <1>1, AppendProperties

\* Good chunks are sequences of segments.
LEMMA GoodSegments == Seq(Good) \subseteq Seq(Seq(Segments))
  <1>1. Good \subseteq Seq(Segments)
    BY DEF Good
  <1> QED
    BY <1>1, SeqMonotonic

\* An open chunk with room takes one segment more.
LEMMA OpenAppend ==
    ASSUME NEW c \in Open, NEW x \in Segments, x.type \notin SingleTypes,
           TextOf(c) + Weight(x) <= MaxText,
           x.type = "image" => ImagesOf(c) < MaxImages
    PROVE  Append(c, x) \in Open /\ Append(c, x) \in Good
  <1> DEFINE d == Append(c, x)
             n == Len(c)
  <1>1. c \in Seq(Segments) /\ n \in Nat
    BY LenProperties DEF Open
  <1>2. /\ d \in Seq(Segments) /\ d # <<>> /\ DOMAIN d = 1..(n+1) /\ DOMAIN c = 1..n
        /\ d[n+1] = x /\ \A i \in 1..n : d[i] = c[i]
    <2>1. /\ d \in Seq(Segments) /\ d # <<>> /\ Len(d) = n + 1
          /\ d[n+1] = x /\ \A i \in 1..n : d[i] = c[i]
      BY <1>1, AppendProperties
    <2> QED
      BY <1>1, <2>1, LenProperties
  <1>3. TextOf(d) <= MaxText
    BY <1>1, TextOfAppend
  <1>4. ImagesOf(d) <= MaxImages
    <2>1. ImagesOf(c) \in Nat /\ ImagesOf(d) = IF x.type = "image" THEN ImagesOf(c) + 1 ELSE ImagesOf(c)
      BY <1>1, ImagesOfAppend
    <2>2. ImagesOf(c) <= MaxImages /\ MaxImages \in Nat
      BY MessageChunksAssumption DEF Open
    <2> QED
      BY <2>1, <2>2
  <1>5. \A i \in DOMAIN d : d[i].type \notin SingleTypes
    <2> HIDE DEF d, n
    <2>1. \A i \in 1..(n+1) : i \in 1..n \/ i = n + 1
      BY <1>1
    <2> QED
      BY <1>2, <2>1 DEF Open
  <1>6. d \in Open
    BY <1>2, <1>3, <1>4, <1>5 DEF Open
  <1> QED
    BY <1>2, <1>6, OpenIsGood

\* A chunk of one segment.
LEMMA OneSegment ==
    ASSUME NEW x \in Segments
    PROVE  /\ <<x>> \in Seq(Segments)
           /\ TextOf(<<x>>) = Weight(x) /\ Weight(x) \in Nat
           /\ ImagesOf(<<x>>) = IF x.type = "image" THEN 1 ELSE 0
           /\ x.type # "text" => Weight(x) <= MaxText
  <1>1. <<>> \in Seq(Segments) /\ <<x>> = Append(<<>>, x)
    BY EmptySeq
  <1>2. TextOf(<<x>>) = 0 + Weight(x)
    BY <1>1, TextOfAppend, TextOfEmpty
  <1>3. ImagesOf(<<x>>) = IF x.type = "image" THEN 0 + 1 ELSE 0
    BY <1>1, ImagesOfAppend, ImagesOfEmpty
  <1>4. Weight(x) \in Nat
    BY WeightType
  <1>5. x.type # "text" => Weight(x) <= MaxText
    BY MessageChunksAssumption DEF Weight
  <1> QED
    BY <1>1, <1>2, <1>3, <1>4, <1>5

\* What must be alone is a chunk of its own.
LEMMA SingleGood ==
    ASSUME NEW x \in Segments, x.type \in SingleTypes
    PROVE  <<x>> \in Good
  <1>1. x.type = "single"
    BY DEF SingleTypes
  <1>2. <<x>> # <<>> /\ Len(<<x>>) = 1
    OBVIOUS
  <1> QED
    BY <1>1, <1>2, OneSegment, MessageChunksAssumption DEF Good, StandsAlone

\* A mark or an image that does not fit starts the next chunk.
LEMMA OneOpen ==
    ASSUME NEW x \in Segments, x.type \notin SingleTypes, x.type # "text"
    PROVE  <<x>> \in Open
  <1>1. \A i \in DOMAIN <<x>> : <<x>>[i] = x
    OBVIOUS
  <1>2. 1 <= MaxImages
    BY MessageChunksAssumption
  <1> QED
    BY <1>1, <1>2, OneSegment, MessageChunksAssumption DEF Open

\* A text is a segment that weighs its length.
LEMMA TextSegType ==
    ASSUME NEW t \in Seq(Runes)
    PROVE  TextSeg(t) \in Segments /\ TextSeg(t).type = "text" /\ TextSeg(t).text = t
           /\ Weight(TextSeg(t)) = Len(t)
  BY DEF TextSeg, Segments, Weight

-----------------------------------------------------------------------------
\* buildMessageChunks starts with one empty chunk.
LEMMA ChunksInitIInv == ChunksInit => ChunksIInv
  <1> SUFFICES ASSUME ChunksInit PROVE ChunksIInv
    OBVIOUS
  <1>1. <<>> \in Seq(Good) /\ <<>> \in Seq(Segments) /\ <<>> \in Seq(Seq(Segments)) /\ <<>> \in Seq(Runes)
    BY EmptySeq
  <1> QED
    BY <1>1, EmptyOpen, TextOfEmpty, ImagesOfEmpty, MessageChunksAssumption
    DEF ChunksInit, ChunksIInv, ChunksTypeOK

\* The segment that is looked at.
LEMMA HeadOf ==
    ASSUME ChunksTypeOK, segs # <<>>
    PROVE  Head(segs) \in Segments /\ Tail(segs) \in Seq(Segments) /\ segs = <<Head(segs)>> \o Tail(segs)
  <1>1. segs \in Seq(Segments)
    BY DEF ChunksTypeOK
  <1>2. Head(segs) \in Segments /\ Tail(segs) \in Seq(Segments)
    BY <1>1, HeadTailProperties
  <1>3. segs = <<Head(segs)>> \o Tail(segs)
    <2>1. Len(segs) \in Nat \ {0}
      BY <1>1, EmptySeq
    <2>2. SubSeq(segs, 1, Len(segs)) = <<segs[1]>> \o SubSeq(segs, 2, Len(segs))
      <3>1. 1 \in 1..Len(segs) /\ Len(segs) \in 1..Len(segs)
        BY <2>1
      <3>2. SubSeq(segs, 1, Len(segs)) = <<segs[1]>> \o SubSeq(segs, 1+1, Len(segs))
        BY <1>1, <3>1, SubSeqRecursiveFirst
      <3> QED
        BY <3>2
    <2>3. Tail(segs) = SubSeq(segs, 2, Len(segs))
      BY <1>1, TailIsSubSeq
    <2>4. SubSeq(segs, 1, Len(segs)) = segs
      BY <1>1, SubSeqFull
    <2>5. segs[1] = Head(segs)
      BY <1>1, <2>1
    <2> QED
      BY <2>2, <2>3, <2>4, <2>5
  <1> QED
    BY <1>2, <1>3

\* flush keeps the invariant.
LEMMA FlushIInv ==
    ASSUME ChunksIInv, Flush
    PROVE  /\ chunks' \in Seq(Good) /\ chunks' \in Seq(Seq(Segments)) /\ chunk' \in Open
           /\ chunk' \in Seq(Segments) /\ textLen' = TextOf(chunk') /\ images' = ImagesOf(chunk')
  <1>1. Finished \in Seq(Good) /\ Finished \in Seq(Seq(Segments)) /\ <<>> \in Seq(Segments)
    BY FinishedGood, GoodSegments, EmptySeq
  <1> QED
    BY <1>1, EmptyOpen, TextOfEmpty, ImagesOfEmpty DEF Flush

\* Every segment and every round over a long text keeps the invariant.
LEMMA ChunksStepIInv == ChunksIInv /\ [ChunksNext]_chunksVars => ChunksIInv'
  <1> SUFFICES ASSUME ChunksIInv, [ChunksNext]_chunksVars PROVE ChunksIInv'
    OBVIOUS
  <1>0. /\ done \in BOOLEAN /\ segs \in Seq(Segments) /\ text \in Seq(Runes)
        /\ chunk \in Seq(Segments) /\ chunk \in Open
        /\ chunks \in Seq(Seq(Segments)) /\ chunks \in Seq(Good)
        /\ textLen = TextOf(chunk) /\ images = ImagesOf(chunk)
        /\ textLen \in Nat /\ images \in Nat /\ textLen <= MaxText /\ images <= MaxImages
        /\ MaxText \in Nat /\ MaxImages \in Nat
    <2>1. chunk \in Seq(Segments)
      BY DEF ChunksIInv, ChunksTypeOK
    <2>2. TextOf(chunk) \in Nat /\ ImagesOf(chunk) \in Nat
      <3>1. PICK x : x \in Segments
        <4>1. <<>> \in Seq(Runes)
          BY EmptySeq
        <4> QED
          BY <4>1, TextSegType
      <3> QED
        BY <2>1, <3>1, TextOfType, ImagesOfAppend
    <2> QED
      BY <2>1, <2>2, MessageChunksAssumption DEF ChunksIInv, ChunksTypeOK, Open
  <1>f. Finished \in Seq(Good) /\ Finished \in Seq(Seq(Segments))
    BY FinishedGood, GoodSegments
  <1>e. <<>> \in Seq(Segments) /\ <<>> \in Seq(Runes) /\ <<>> \in Open
        /\ TextOf(<<>>) = 0 /\ ImagesOf(<<>>) = 0
    BY EmptySeq, EmptyOpen, TextOfEmpty, ImagesOfEmpty
  <1>1. CASE TakeSingle
    <2> DEFINE x == Head(segs)
    <2>1. x \in Segments /\ x.type \in SingleTypes /\ Tail(segs) \in Seq(Segments)
      BY <1>1, HeadOf DEF TakeSingle, Ready, ChunksIInv
    <2>2. <<x>> \in Good
      BY <2>1, SingleGood
    <2>3. Append(Finished, <<x>>) \in Seq(Good)
      <3> HIDE DEF x
      <3> QED
        BY <1>f, <2>2, AppendProperties
    <2> QED
      BY <1>0, <1>e, <1>1, <2>1, <2>3, GoodSegments DEF TakeSingle, ChunksIInv, ChunksTypeOK
  <1>2. CASE TakeText
    <2> DEFINE x == Head(segs)
    <2>1. x \in Segments /\ x.text \in Seq(Runes) /\ Tail(segs) \in Seq(Segments)
      BY <1>2, HeadOf DEF TakeText, Ready, ChunksIInv, Segments
    <2> QED
      BY <1>0, <1>2, <2>1 DEF TakeText, ChunksIInv, ChunksTypeOK
  <1>3. CASE TakeImage
    <2> DEFINE x == Head(segs)
    <2>1. x \in Segments /\ x.type = "image" /\ Tail(segs) \in Seq(Segments)
      BY <1>3, HeadOf DEF TakeImage, Ready, ChunksIInv
    <2>2. x.type \notin SingleTypes /\ x.type # "text" /\ Weight(x) = 0
      BY <2>1 DEF SingleTypes, MarkTypes, Weight
    <2> HIDE DEF x
    <2>3. CASE images >= MaxImages
      <3>1. <<x>> \in Open /\ <<x>> \in Seq(Segments) /\ TextOf(<<x>>) = 0 /\ ImagesOf(<<x>>) = 1
        BY <2>1, <2>2, OneOpen, OneSegment
      <3>2. chunks' = Finished /\ chunk' = <<x>> /\ textLen' = 0 /\ images' = 1
        BY <1>3, <2>3 DEF TakeImage, x
      <3> QED
        BY <1>0, <1>f, <1>3, <2>1, <3>1, <3>2 DEF TakeImage, ChunksIInv, ChunksTypeOK, x
    <2>4. CASE ~(images >= MaxImages)
      <3>1. chunk' = Append(chunk, x) /\ images' = images + 1 /\ UNCHANGED <<chunks, textLen>>
        BY <1>3, <2>4 DEF TakeImage, x
      <3>2. TextOf(chunk) + Weight(x) <= MaxText /\ ImagesOf(chunk) < MaxImages
        BY <1>0, <2>2, <2>4
      <3>3. Append(chunk, x) \in Open
        BY <1>0, <2>1, <2>2, <3>2, OpenAppend
      <3>4. Append(chunk, x) \in Seq(Segments)
        BY <3>3 DEF Open
      <3>5. TextOf(Append(chunk, x)) = textLen /\ ImagesOf(Append(chunk, x)) = images + 1
        BY <1>0, <2>1, <2>2, TextOfAppend, ImagesOfAppend
      <3> QED
        BY <1>0, <1>3, <2>1, <3>1, <3>3, <3>4, <3>5 DEF TakeImage, ChunksIInv, ChunksTypeOK, x
    <2> QED
      BY <2>3, <2>4
  <1>4. CASE TakeMark
    <2> DEFINE x == Head(segs)
    <2>1. x \in Segments /\ x.type \in MarkTypes /\ Tail(segs) \in Seq(Segments)
      BY <1>4, HeadOf DEF TakeMark, Ready, ChunksIInv
    <2>2. x.type \notin SingleTypes /\ x.type # "text" /\ x.type # "image" /\ Weight(x) = MarkLength
          /\ MarkLength \in Nat
      BY <2>1, MessageChunksAssumption DEF SingleTypes, MarkTypes, Weight
    <2> HIDE DEF x
    <2>3. CASE textLen + MarkLength > MaxText
      <3>1. <<x>> \in Open /\ <<x>> \in Seq(Segments) /\ TextOf(<<x>>) = MarkLength /\ ImagesOf(<<x>>) = 0
        BY <2>1, <2>2, OneOpen, OneSegment
      <3>2. chunks' = Finished /\ chunk' = <<x>> /\ textLen' = MarkLength /\ images' = 0
        BY <1>4, <2>3 DEF TakeMark, x
      <3> QED
        BY <1>0, <1>f, <1>4, <2>1, <3>1, <3>2 DEF TakeMark, ChunksIInv, ChunksTypeOK, x
    <2>4. CASE ~(textLen + MarkLength > MaxText)
      <3>1. chunk' = Append(chunk, x) /\ textLen' = textLen + MarkLength /\ UNCHANGED <<chunks, images>>
        BY <1>4, <2>4 DEF TakeMark, x
      <3>2. TextOf(chunk) + Weight(x) <= MaxText
        BY <1>0, <2>2, <2>4
      <3>3. Append(chunk, x) \in Open
        BY <1>0, <2>1, <2>2, <3>2, OpenAppend
      <3>4. Append(chunk, x) \in Seq(Segments)
        BY <3>3 DEF Open
      <3>5. TextOf(Append(chunk, x)) = textLen + MarkLength /\ ImagesOf(Append(chunk, x)) = images
        BY <1>0, <2>1, <2>2, TextOfAppend, ImagesOfAppend
      <3> QED
        BY <1>0, <1>4, <2>1, <3>1, <3>3, <3>4, <3>5 DEF TakeMark, ChunksIInv, ChunksTypeOK, x
    <2> QED
      BY <2>3, <2>4
  <1>5. CASE TextFull
    BY <1>0, <1>5, FlushIInv DEF TextFull, ChunksIInv, ChunksTypeOK
  <1>6. CASE TextFits
    <2> DEFINE x == TextSeg(text)
    <2>1. x \in Segments /\ x.type = "text" /\ Weight(x) = Len(text) /\ Len(text) \in Nat
      BY <1>0, TextSegType, LenProperties
    <2>2. x.type \notin SingleTypes /\ x.type # "image"
      BY <2>1 DEF SingleTypes
    <2>3. chunk' = Append(chunk, x) /\ textLen' = textLen + Len(text) /\ Len(text) <= MaxText - textLen
          /\ text' = <<>> /\ UNCHANGED <<segs, images, chunks, done>>
      BY <1>6 DEF TextFits, Available
    <2> HIDE DEF x
    <2>4. Append(chunk, x) \in Open
      <3>1. TextOf(chunk) + Weight(x) <= MaxText
        BY <1>0, <2>1, <2>3
      <3> QED
        BY <1>0, <2>1, <2>2, <3>1, OpenAppend
    <2>5. Append(chunk, x) \in Seq(Segments)
      BY <2>4 DEF Open
    <2>6. TextOf(Append(chunk, x)) = textLen + Len(text) /\ ImagesOf(Append(chunk, x)) = images
      BY <1>0, <2>1, <2>2, TextOfAppend, ImagesOfAppend
    <2> QED
      BY <1>0, <1>e, <2>3, <2>4, <2>5, <2>6 DEF ChunksIInv, ChunksTypeOK
  <1>7. CASE TextNothing
    BY <1>0, <1>7, FlushIInv DEF TextNothing, ChunksIInv, ChunksTypeOK
  <1>8. CASE TextCut
    <2> DEFINE s == Split(text, Available)
               x == TextSeg(s.part)
    <2>1. Available \in Nat \ {0} /\ Available < Len(text) /\ Available = MaxText - textLen
          /\ Len(text) \in Nat
      BY <1>0, <1>8, LenProperties DEF TextCut, Long, Available
    <2>2. PICK n \in 0..Available : s.part = SubSeq(text, 1, n)
      BY <1>0, <2>1, PartIsPrefix
    <2>3. s.part \in Seq(Runes) /\ Len(s.part) = n /\ n \in 0..Len(text)
      <3> HIDE DEF s
      <3>1. n \in 0..Len(text)
        BY <2>1
      <3> QED
        BY <1>0, <2>2, <3>1, Prefix
    <2>4. x \in Segments /\ x.type = "text" /\ Weight(x) = n
      <3> HIDE DEF s
      <3> QED
        BY <2>3, TextSegType
    <2>5. x.type \notin SingleTypes /\ x.type # "image"
      BY <2>4 DEF SingleTypes
    <2>6. /\ chunks' = Append(chunks, Append(chunk, x))
          /\ text' = LET rest == SubSeq(text, Len(s.part) + 1, Len(text))
                     IN IF s.hard THEN rest ELSE TrimLeft(rest)
          /\ chunk' = <<>> /\ textLen' = 0 /\ images' = 0 /\ UNCHANGED <<segs, done>>
      BY <1>8 DEF TextCut
    <2>7. text' \in Seq(Runes)
      <3> HIDE DEF s, x
      <3>1. SubSeq(text, Len(s.part) + 1, Len(text)) \in Seq(Runes)
        BY <1>0, <2>3, Remainder
      <3>2. TrimLeft(SubSeq(text, Len(s.part) + 1, Len(text))) \in Seq(Runes)
        BY <3>1, TrimmedType
      <3> QED
        BY <2>6, <3>1, <3>2
    <2>8. Append(chunk, x) \in Good
      <3> HIDE DEF s, x
      <3>1. TextOf(chunk) + Weight(x) <= MaxText
        BY <1>0, <2>1, <2>4
      <3> QED
        BY <1>0, <2>4, <2>5, <3>1, OpenAppend
    <2>9. Append(chunks, Append(chunk, x)) \in Seq(Good)
      <3> HIDE DEF s, x
      <3> QED
        BY <1>0, <2>8, AppendProperties
    <2> HIDE DEF s, x
    <2> QED
      BY <1>0, <1>e, <2>6, <2>7, <2>9, GoodSegments DEF ChunksIInv, ChunksTypeOK
  <1>9. CASE Finish
    BY <1>0, <1>9, FlushIInv DEF Finish, ChunksIInv, ChunksTypeOK
  <1>10. CASE UNCHANGED chunksVars
    BY <1>0, <1>10 DEF chunksVars, ChunksIInv, ChunksTypeOK, Good, Open
  <1> QED
    BY <1>1, <1>2, <1>3, <1>4, <1>5, <1>6, <1>7, <1>8, <1>9, <1>10 DEF ChunksNext

\* The inductive invariant of MessageChunks, for messages and texts of any length: the
\* counters describe the open chunk, and no chunk that is finished or open breaks a limit.
THEOREM ChunksInductive == ChunksSpec => []ChunksIInv
  BY ChunksInitIInv, ChunksStepIInv, PTL DEF ChunksSpec

\* currentTextLen and currentImageCount always are what the current chunk holds.
THEOREM ChunksTypeCorrect == ChunksSpec => []ChunksTypeOK
  <1>1. ChunksIInv => ChunksTypeOK
    BY DEF ChunksIInv
  <1> QED
    BY <1>1, ChunksInductive, PTL

\* No chunk is empty, has more text or images than allowed, or holds anything besides a
\* segment that must be alone, whatever the message.
THEOREM LimitsAreKept == ChunksSpec => []WithinLimits
  <1>1. ChunksIInv => WithinLimits
    <2> SUFFICES ASSUME ChunksIInv, NEW k \in DOMAIN Append(chunks, chunk)
                 PROVE  LET c == Append(chunks, chunk)[k]
                        IN /\ k <= Len(chunks) => c # <<>>
                           /\ TextOf(c) <= MaxText /\ ImagesOf(c) <= MaxImages
                           /\ (\E i \in DOMAIN c : c[i].type \in SingleTypes) => Len(c) = 1
      BY DEF WithinLimits
    <2> DEFINE all == Append(chunks, chunk)
               n   == Len(chunks)
    <2>1. chunks \in Seq(Seq(Segments)) /\ chunk \in Seq(Segments) /\ chunks \in Seq(Good) /\ chunk \in Open
      BY DEF ChunksIInv, ChunksTypeOK
    <2>2. /\ n \in Nat /\ DOMAIN all = 1..(n+1) /\ all[n+1] = chunk
          /\ \A i \in 1..n : all[i] = chunks[i]
      <3>1. all \in Seq(Seq(Segments)) /\ Len(all) = n + 1 /\ all[n+1] = chunk
            /\ \A i \in 1..n : all[i] = chunks[i]
        BY <2>1, AppendProperties
      <3> QED
        BY <2>1, <3>1, LenProperties
    <2>3. CASE k = n + 1
      <3>1. all[k] = chunk /\ ~(k <= n)
        BY <2>2, <2>3
      <3> QED
        BY <2>1, <3>1 DEF Open
    <2>4. CASE k # n + 1
      <3>1. k \in 1..n
        <4> HIDE DEF n
        <4> QED
          BY <2>2, <2>4
      <3>2. all[k] \in Good
        BY <2>1, <2>2, <3>1, ElementOfSeq
      <3> QED
        BY <3>2 DEF Good, StandsAlone
    <2> QED
      BY <2>3, <2>4
  <1> QED
    BY <1>1, ChunksInductive, PTL

-----------------------------------------------------------------------------
(* What the chunks say *)

\* Spoken, Said and SaidBy as functions.
RuneSays  == [r \in Runes |-> IF r = "nl" THEN <<>> ELSE <<TextSeg(<<r>>)>>]
SegSays   == [x \in Segments |-> Said(x)]
ChunkSays == [c \in Seq(Segments) |-> SaidBy(c)]

\* What a rune says is a sequence of segments.
LEMMA RuneSaysType == RuneSays \in [Runes -> Seq(Segments)]
  <1>1. ASSUME NEW r \in Runes PROVE TextSeg(<<r>>) \in Segments /\ <<TextSeg(<<r>>)>> \in Seq(Segments)
    <2>1. <<r>> \in Seq(Runes)
      OBVIOUS
    <2>2. TextSeg(<<r>>) \in Segments
      BY <2>1, TextSegType
    <2> QED
      BY <2>2
  <1>2. <<>> \in Seq(Segments)
    BY EmptySeq
  <1> QED
    BY <1>1, <1>2 DEF RuneSays

\* What two texts say, rune by rune.
LEMMA RuneSaysJoined ==
    \A s, t \in Seq(Runes) :
       FlattenSeq(Each(RuneSays, s \o t)) = FlattenSeq(Each(RuneSays, s)) \o FlattenSeq(Each(RuneSays, t))
  <1>1. Maps(RuneSays, Runes, Segments)
    BY RuneSaysType DEF Maps
  <1> QED
    BY <1>1, JoinedConcat

\* Spoken is that mapping, joined.
LEMMA SpokenIs ==
    ASSUME NEW t \in Seq(Runes)
    PROVE  Spoken(t) = FlattenSeq(Each(RuneSays, t)) /\ Spoken(t) \in Seq(Segments)
  <1>1. \A i \in DOMAIN t : t[i] \in Runes
    BY LenProperties, ElementOfSeq
  <1>2. Each(RuneSays, t) = [i \in DOMAIN t |-> IF t[i] = "nl" THEN <<>> ELSE <<TextSeg(<<t[i]>>)>>]
    BY <1>1 DEF Each, RuneSays
  <1>3. FlattenSeq(Each(RuneSays, t)) \in Seq(Segments)
    BY RuneSaysType, JoinedType
  <1> QED
    BY <1>2, <1>3 DEF Spoken

\* Two texts in a row say what each of them says.
LEMMA SpokenConcat ==
    ASSUME NEW t \in Seq(Runes), NEW u \in Seq(Runes)
    PROVE  Spoken(t \o u) = Spoken(t) \o Spoken(u)
  <1>1. t \o u \in Seq(Runes)
    BY ConcatProperties
  <1>2. FlattenSeq(Each(RuneSays, t \o u))
          = FlattenSeq(Each(RuneSays, t)) \o FlattenSeq(Each(RuneSays, u))
    BY RuneSaysJoined
  <1> QED
    BY <1>1, <1>2, SpokenIs

\* An empty text says nothing.
LEMMA SpokenEmpty == Spoken(<<>>) = <<>>
  <1>1. <<>> \in Seq(Runes)
    BY EmptySeq
  <1> QED
    BY <1>1, SpokenIs, JoinedNone

\* Newlines say nothing.
LEMMA BlankSpoken ==
    \A t \in Seq(Runes) : (\A i \in DOMAIN t : t[i] = "nl") => Spoken(t) = <<>>
  <1> DEFINE T == {t \in Seq(Runes) : (\A i \in DOMAIN t : t[i] = "nl") => Spoken(t) = <<>>}
  <1>1. <<>> \in T
    BY SpokenEmpty, EmptySeq
  <1>2. ASSUME NEW t \in Seq(Runes), NEW r \in Runes, t \in T PROVE Append(t, r) \in T
    <2> DEFINE u == Append(t, r)
               n == Len(t)
    <2>1. /\ u \in Seq(Runes) /\ n \in Nat /\ DOMAIN u = 1..(n+1) /\ DOMAIN t = 1..n
          /\ u[n+1] = r /\ \A i \in 1..n : u[i] = t[i]
      <3>1. u \in Seq(Runes) /\ Len(u) = n + 1 /\ u[n+1] = r /\ \A i \in 1..n : u[i] = t[i]
        BY AppendProperties
      <3> QED
        BY <3>1, LenProperties
    <2> SUFFICES ASSUME \A i \in DOMAIN u : u[i] = "nl" PROVE Spoken(u) = <<>>
      BY <2>1
    <2>2. r = "nl" /\ \A i \in DOMAIN t : t[i] = "nl"
      <3> HIDE DEF u, n
      <3>1. n + 1 \in 1..(n+1) /\ \A i \in 1..n : i \in 1..(n+1)
        BY <2>1
      <3> QED
        BY <2>1, <3>1
    <2>3. Spoken(t) = <<>>
      BY <1>2, <2>2
    <2>4. <<r>> \in Seq(Runes) /\ u = t \o <<r>>
      BY AppendIsConcat
    <2>5. Spoken(<<r>>) = <<>>
      <3>1. FlattenSeq(Each(RuneSays, <<r>>)) = RuneSays[r]
        BY RuneSaysType, JoinedOne
      <3>2. RuneSays[r] = <<>>
        BY <2>2 DEF RuneSays
      <3> QED
        BY <2>4, <3>1, <3>2, SpokenIs
    <2>6. Spoken(u) = <<>> \o <<>>
      BY <2>3, <2>4, <2>5, SpokenConcat
    <2> QED
      BY <2>6
  <1> HIDE DEF T
  <1>3. Seq(Runes) \subseteq T
    BY <1>1, <1>2, SequencesInduction
  <1> QED
    BY <1>3 DEF T

\* TrimLeft takes nothing away but newlines.
LEMMA TrimmedSpoken ==
    ASSUME NEW t \in Seq(Runes)
    PROVE  Spoken(TrimLeft(t)) = Spoken(t)
  <1> DEFINE first == {i \in 1..Len(t) : t[i] # "nl"}
             m     == Min(first)
  <1>1. Len(t) \in Nat /\ DOMAIN t = 1..Len(t)
    BY LenProperties
  <1>2. CASE first = {}
    <2>1. \A i \in DOMAIN t : t[i] = "nl"
      BY <1>1, <1>2
    <2> QED
      BY <1>2, <2>1, BlankSpoken, SpokenEmpty DEF TrimLeft
  <1>3. CASE first # {}
    <2>1. m \in first /\ \A i \in first : m <= i
      <3>1. first \subseteq Nat
        BY <1>1
      <3> HIDE DEF first
      <3> QED
        BY <1>3, <3>1, Smallest
    <2>2. m \in 1..Len(t) /\ \A i \in 1..(m-1) : t[i] = "nl"
      <3> HIDE DEF m
      <3> QED
        BY <1>1, <2>1
    <2> DEFINE k  == m - 1
               nl == SubSeq(t, 1, k)
               r  == SubSeq(t, k + 1, Len(t))
    <2>3. k \in 0..Len(t) /\ k + 1 = m
      <3> HIDE DEF m
      <3> QED
        BY <1>1, <2>2
    <2>4. nl \in Seq(Runes) /\ Len(nl) = k /\ r \in Seq(Runes) /\ t = nl \o r
      <3> HIDE DEF k
      <3> QED
        BY <2>3, Prefix, Remainder
    <2>5. Spoken(nl) = <<>>
      <3>1. \A i \in 1..k : nl[i] = "nl"
        <4> HIDE DEF k, m
        <4>1. \A i \in 1..k : t[i] \in Runes /\ i \in 1..(m-1)
          BY <1>1, <2>2, <2>3, ElementOfSeq
        <4>2. \A i \in 1..(k-1+1) : nl[i] = t[1+i-1]
          BY <2>3, <4>1, SubSeqProperties
        <4>3. k \in Nat
          BY <1>1, <2>3
        <4>4. \A i \in 1..k : 1+i-1 = i /\ i \in 1..(k-1+1)
          BY <4>3
        <4> QED
          BY <2>2, <4>1, <4>2, <4>4
      <3>2. DOMAIN nl = 1..k
        <4> HIDE DEF nl, k
        <4> QED
          BY <2>4, LenProperties
      <3> HIDE DEF nl, k
      <3> QED
        BY <2>4, <3>1, <3>2, BlankSpoken
    <2>6. Spoken(t) = Spoken(nl) \o Spoken(r)
      <3> HIDE DEF nl, r
      <3> QED
        BY <2>4, SpokenConcat
    <2>7. Spoken(nl) \o Spoken(r) = Spoken(r)
      <3> HIDE DEF nl, r
      <3> QED
        BY <2>4, <2>5, SpokenIs, ConcatEmptySeq
    <2>8. TrimLeft(t) = r
      <3>1. TrimLeft(t) = SubSeq(t, m, Len(t))
        BY <1>3 DEF TrimLeft
      <3> HIDE DEF m, k
      <3> QED
        BY <2>3, <3>1
    <2> HIDE DEF nl, r
    <2> QED
      BY <2>6, <2>7, <2>8
  <1> QED
    BY <1>2, <1>3

\* What a segment says is a sequence of segments.
LEMMA SegSaysType == SegSays \in [Segments -> Seq(Segments)]
  <1>1. ASSUME NEW x \in Segments PROVE Said(x) \in Seq(Segments)
    <2>1. CASE x.type = "text"
      <3>1. x.text \in Seq(Runes)
        BY DEF Segments
      <3>2. Spoken(x.text) \in Seq(Segments)
        BY <3>1, SpokenIs
      <3> QED
        BY <2>1, <3>2 DEF Said
    <2>2. CASE x.type # "text"
      BY <2>2 DEF Said
    <2> QED
      BY <2>1, <2>2
  <1> QED
    BY <1>1 DEF SegSays

\* What two chunks say, segment by segment.
LEMMA SegSaysJoined ==
    \A s, t \in Seq(Segments) :
       FlattenSeq(Each(SegSays, s \o t)) = FlattenSeq(Each(SegSays, s)) \o FlattenSeq(Each(SegSays, t))
  <1>1. Maps(SegSays, Segments, Segments)
    BY SegSaysType DEF Maps
  <1> QED
    BY <1>1, JoinedConcat

\* SaidBy is that mapping, joined.
LEMMA SaidByIs ==
    ASSUME NEW c \in Seq(Segments)
    PROVE  SaidBy(c) = FlattenSeq(Each(SegSays, c)) /\ SaidBy(c) \in Seq(Segments)
  <1>1. \A i \in DOMAIN c : c[i] \in Segments
    BY LenProperties, ElementOfSeq
  <1>2. Each(SegSays, c) = [i \in DOMAIN c |-> Said(c[i])]
    BY <1>1 DEF Each, SegSays
  <1>3. FlattenSeq(Each(SegSays, c)) \in Seq(Segments)
    BY SegSaysType, JoinedType
  <1> QED
    BY <1>2, <1>3 DEF SaidBy

\* Two chunks in a row say what each of them says.
LEMMA SaidByConcat ==
    ASSUME NEW c \in Seq(Segments), NEW d \in Seq(Segments)
    PROVE  SaidBy(c \o d) = SaidBy(c) \o SaidBy(d)
  <1>1. c \o d \in Seq(Segments)
    BY ConcatProperties
  <1>2. FlattenSeq(Each(SegSays, c \o d))
          = FlattenSeq(Each(SegSays, c)) \o FlattenSeq(Each(SegSays, d))
    BY SegSaysJoined
  <1> QED
    BY <1>1, <1>2, SaidByIs

\* A chunk of one segment says what the segment does.
LEMMA SaidByOne ==
    ASSUME NEW x \in Segments
    PROVE  SaidBy(<<x>>) = Said(x) /\ Said(x) \in Seq(Segments)
  <1>1. <<x>> \in Seq(Segments)
    OBVIOUS
  <1>2. FlattenSeq(Each(SegSays, <<x>>)) = SegSays[x]
    BY SegSaysType, JoinedOne
  <1>3. SegSays[x] = Said(x)
    BY DEF SegSays
  <1> QED
    BY <1>1, <1>2, <1>3, SaidByIs

\* An empty chunk says nothing.
LEMMA SaidByEmpty == SaidBy(<<>>) = <<>>
  <1>1. <<>> \in Seq(Segments)
    BY EmptySeq
  <1> QED
    BY <1>1, SaidByIs, JoinedNone

\* A segment more says what it says at the end.
LEMMA SaidByAppend ==
    ASSUME NEW c \in Seq(Segments), NEW x \in Segments
    PROVE  SaidBy(Append(c, x)) = SaidBy(c) \o Said(x)
  <1>1. Append(c, x) = c \o <<x>> /\ <<x>> \in Seq(Segments)
    BY AppendIsConcat
  <1> QED
    BY <1>1, SaidByConcat, SaidByOne

\* What all of some chunks say.
AllSaid(cs) == FlattenSeq([k \in DOMAIN cs |-> SaidBy(cs[k])])

\* What a chunk says is a sequence of segments.
LEMMA ChunkSaysType == ChunkSays \in [Seq(Segments) -> Seq(Segments)]
  BY SaidByIs DEF ChunkSays

\* What two sequences of chunks say.
LEMMA ChunkSaysJoined ==
    \A s, t \in Seq(Seq(Segments)) :
       FlattenSeq(Each(ChunkSays, s \o t)) = FlattenSeq(Each(ChunkSays, s)) \o FlattenSeq(Each(ChunkSays, t))
  <1>1. Maps(ChunkSays, Seq(Segments), Segments)
    BY ChunkSaysType DEF Maps
  <1> QED
    BY <1>1, JoinedConcat

\* AllSaid is that mapping, joined.
LEMMA AllSaidIs ==
    ASSUME NEW cs \in Seq(Seq(Segments))
    PROVE  AllSaid(cs) = FlattenSeq(Each(ChunkSays, cs)) /\ AllSaid(cs) \in Seq(Segments)
  <1>1. \A k \in DOMAIN cs : cs[k] \in Seq(Segments)
    BY LenProperties, ElementOfSeq
  <1>2. Each(ChunkSays, cs) = [k \in DOMAIN cs |-> SaidBy(cs[k])]
    BY <1>1 DEF Each, ChunkSays
  <1>3. FlattenSeq(Each(ChunkSays, cs)) \in Seq(Segments)
    BY ChunkSaysType, JoinedType
  <1> QED
    BY <1>2, <1>3 DEF AllSaid

\* A chunk more says what it says at the end.
LEMMA AllSaidAppend ==
    ASSUME NEW cs \in Seq(Seq(Segments)), NEW c \in Seq(Segments)
    PROVE  AllSaid(Append(cs, c)) = AllSaid(cs) \o SaidBy(c)
  <1> DEFINE Q == Seq(Segments)
  <1>1. <<c>> \in Seq(Q) /\ Append(cs, c) \in Seq(Q) /\ Append(cs, c) = cs \o <<c>>
    <2> HIDE DEF Q
    <2>1. cs \in Seq(Q) /\ c \in Q
      BY DEF Q
    <2> QED
      BY <2>1, AppendProperties, AppendIsConcat
  <1>2. FlattenSeq(Each(ChunkSays, cs \o <<c>>))
          = FlattenSeq(Each(ChunkSays, cs)) \o FlattenSeq(Each(ChunkSays, <<c>>))
    <2>1. <<c>> \in Seq(Seq(Segments))
      BY <1>1
    <2> QED
      BY <2>1, ChunkSaysJoined
  <1>3. FlattenSeq(Each(ChunkSays, <<c>>)) = ChunkSays[c]
    BY ChunkSaysType, JoinedOne
  <1>4. ChunkSays[c] = SaidBy(c)
    BY DEF ChunkSays
  <1>5. AllSaid(Append(cs, c)) = FlattenSeq(Each(ChunkSays, Append(cs, c)))
    BY <1>1, AllSaidIs
  <1>6. AllSaid(cs) = FlattenSeq(Each(ChunkSays, cs))
    BY AllSaidIs
  <1> QED
    BY <1>1, <1>2, <1>3, <1>4, <1>5, <1>6

\* How concatenations may be regrouped.
LEMMA Regroup ==
    ASSUME NEW h \in Seq(Segments), NEW x \in Seq(Segments), NEW d \in Seq(Segments)
    PROVE  (h \o x) \o d = (h \o <<>>) \o (x \o d)
  <1>1. h \o <<>> = h
    BY ConcatEmptySeq
  <1>2. (h \o x) \o d = h \o (x \o d)
    BY ConcatAssociative
  <1> QED
    BY <1>1, <1>2

\* An empty sequence in the middle changes nothing.
LEMMA RegroupEmpty ==
    ASSUME NEW h \in Seq(Segments), NEW x \in Seq(Segments), NEW d \in Seq(Segments)
    PROVE  ((h \o x) \o <<>>) \o d = (h \o x) \o d
  <1>1. h \o x \in Seq(Segments)
    BY ConcatProperties
  <1>2. (h \o x) \o <<>> = h \o x
    BY <1>1, ConcatEmptySeq
  <1> QED
    BY <1>2

\* What the chunks say, the open one included.
Held(cs, c) == AllSaid(cs) \o SaidBy(c)

\* What is held is a sequence of segments.
LEMMA HeldType ==
    ASSUME NEW cs \in Seq(Seq(Segments)), NEW c \in Seq(Segments)
    PROVE  Held(cs, c) \in Seq(Segments)
  BY AllSaidIs, SaidByIs, ConcatProperties DEF Held

\* What the open chunk takes is said last.
LEMMA HeldAppend ==
    ASSUME NEW cs \in Seq(Seq(Segments)), NEW c \in Seq(Segments), NEW x \in Segments
    PROVE  Held(cs, Append(c, x)) = Held(cs, c) \o Said(x)
  <1>1. AllSaid(cs) \in Seq(Segments) /\ SaidBy(c) \in Seq(Segments) /\ Said(x) \in Seq(Segments)
    BY AllSaidIs, SaidByIs, SaidByOne
  <1>2. SaidBy(Append(c, x)) = SaidBy(c) \o Said(x)
    BY SaidByAppend
  <1>3. AllSaid(cs) \o (SaidBy(c) \o Said(x)) = (AllSaid(cs) \o SaidBy(c)) \o Said(x)
    <2>1. (AllSaid(cs) \o SaidBy(c)) \o Said(x) = AllSaid(cs) \o (SaidBy(c) \o Said(x))
      BY <1>1, ConcatAssociative
    <2> QED
      BY <2>1
  <1> QED
    BY <1>2, <1>3 DEF Held

\* To finish a chunk changes nothing of what is said.
LEMMA HeldEmpty ==
    ASSUME NEW cs \in Seq(Seq(Segments)), NEW c \in Seq(Segments)
    PROVE  Held(Append(cs, c), <<>>) = Held(cs, c)
  <1>1. AllSaid(Append(cs, c)) = Held(cs, c)
    BY AllSaidAppend DEF Held
  <1>2. Held(cs, c) \in Seq(Segments)
    BY HeldType
  <1>3. Held(cs, c) \o <<>> = Held(cs, c)
    BY <1>2, ConcatEmptySeq
  <1> QED
    BY <1>1, <1>3, SaidByEmpty DEF Held

\* flush changes nothing of what is said.
LEMMA HeldFinished ==
    ASSUME chunks \in Seq(Seq(Segments)), chunk \in Seq(Segments)
    PROVE  Held(Finished, <<>>) = Held(chunks, chunk)
  BY HeldEmpty DEF Finished

\* Every step moves what the message says from the segments left to the text at hand, and
\* from there to the open chunk, and changes nothing of it but newlines.
LEMMA MessageKept == ChunksIInv /\ [ChunksNext]_chunksVars => Message' = Message
  <1> SUFFICES ASSUME ChunksIInv, [ChunksNext]_chunksVars PROVE Message' = Message
    OBVIOUS
  <1>0. /\ segs \in Seq(Segments) /\ text \in Seq(Runes)
        /\ chunk \in Seq(Segments) /\ chunks \in Seq(Seq(Segments))
        /\ Finished \in Seq(Seq(Segments)) /\ <<>> \in Seq(Segments)
    BY FinishedGood, GoodSegments, EmptySeq DEF ChunksIInv, ChunksTypeOK
  <1> DEFINE h == Held(chunks, chunk)
             c == Spoken(text)
             d == SaidBy(segs)
             x == Head(segs)
  <1>1. h \in Seq(Segments) /\ c \in Seq(Segments) /\ d \in Seq(Segments)
    BY <1>0, HeldType, SpokenIs, SaidByIs
  <1>2. Message = (h \o c) \o d /\ Message' = (Held(chunks', chunk') \o Spoken(text')) \o SaidBy(segs')
    BY DEF Message, Held, AllSaid
  <1> HIDE DEF h, c, d, x
  <1>3. ASSUME segs # <<>>
        PROVE  /\ x \in Segments /\ Tail(segs) \in Seq(Segments) /\ Said(x) \in Seq(Segments)
               /\ SaidBy(Tail(segs)) \in Seq(Segments)
               /\ d = Said(x) \o SaidBy(Tail(segs))
    <2>1. x \in Segments /\ Tail(segs) \in Seq(Segments) /\ segs = <<x>> \o Tail(segs)
      BY <1>3, HeadOf DEF ChunksIInv, x
    <2>2. <<x>> \in Seq(Segments)
      BY <2>1
    <2>3. SaidBy(<<x>> \o Tail(segs)) = SaidBy(<<x>>) \o SaidBy(Tail(segs))
      BY <2>1, <2>2, SaidByConcat
    <2>4. SaidBy(<<x>>) = Said(x) /\ Said(x) \in Seq(Segments) /\ SaidBy(Tail(segs)) \in Seq(Segments)
      BY <2>1, SaidByOne, SaidByIs
    <2>5. d = SaidBy(<<x>> \o Tail(segs))
      BY <2>1 DEF d
    <2> QED
      BY <2>1, <2>3, <2>4, <2>5
  <1>4. Held(Finished, <<>>) = h
    BY <1>0, HeldFinished DEF h
  <1>5. ASSUME segs # <<>>, text = <<>>, text' = text, segs' = Tail(segs),
               Held(chunks', chunk') = h \o Said(x)
        PROVE  Message' = Message
    <2>1. c = <<>> /\ Spoken(text') = <<>>
      BY <1>5, SpokenEmpty DEF c
    <2> DEFINE s == Said(x)
               r == SaidBy(Tail(segs))
    <2>2. s \in Seq(Segments) /\ r \in Seq(Segments)
      BY <1>3, <1>5
    <2> HIDE DEF s, r
    <2>3. ((h \o s) \o <<>>) \o r = (h \o s) \o r
      BY <1>1, <2>2, RegroupEmpty
    <2>4. (h \o s) \o r = (h \o <<>>) \o (s \o r)
      BY <1>1, <2>2, Regroup
    <2> QED
      BY <1>2, <1>3, <1>5, <2>1, <2>3, <2>4 DEF s, r
  <1>6. ASSUME Flush, UNCHANGED <<segs, text>>
        PROVE  Message' = Message
    BY <1>2, <1>4, <1>6 DEF Flush, h, c, d
  <1>7. CASE TakeSingle
    <2>1. segs # <<>> /\ text = <<>> /\ text' = text /\ segs' = Tail(segs) /\ x.type \in SingleTypes
          /\ chunks' = Append(Finished, <<x>>) /\ chunk' = <<>>
      BY <1>7 DEF TakeSingle, Ready, x
    <2>2. <<x>> \in Seq(Segments) /\ x \in Segments /\ <<x>> = Append(<<>>, x)
      BY <1>3, <2>1
    <2>3. Held(Append(Finished, <<x>>), <<>>) = Held(Finished, <<x>>)
      BY <1>0, <2>2, HeldEmpty
    <2>4. Held(Finished, <<x>>) = h \o Said(x)
      BY <1>0, <1>4, <2>2, HeldAppend
    <2> QED
      BY <1>5, <2>1, <2>3, <2>4
  <1>8. CASE TakeText
    <2>1. segs # <<>> /\ text = <<>> /\ text' = x.text /\ segs' = Tail(segs) /\ x.type = "text"
          /\ UNCHANGED <<chunks, chunk>>
      BY <1>8 DEF TakeText, Ready, x
    <2>2. c = <<>> /\ Spoken(text') = Said(x) /\ Held(chunks', chunk') = h
      BY <2>1, SpokenEmpty DEF c, h, Said
    <2> DEFINE s == Said(x)
               r == SaidBy(Tail(segs))
    <2>3. s \in Seq(Segments) /\ r \in Seq(Segments)
      BY <1>3, <2>1
    <2> HIDE DEF s, r
    <2>4. (h \o s) \o r = (h \o <<>>) \o (s \o r)
      BY <1>1, <2>3, Regroup
    <2> QED
      BY <1>2, <1>3, <2>1, <2>2, <2>4 DEF s, r
  <1>9. ASSUME TakeImage \/ TakeMark
        PROVE  Message' = Message
    <2>1. /\ segs # <<>> /\ text = <<>> /\ text' = text /\ segs' = Tail(segs)
          /\ \/ chunks' = Finished /\ chunk' = <<x>>
             \/ chunk' = Append(chunk, x) /\ chunks' = chunks
      BY <1>9 DEF TakeImage, TakeMark, Ready, x
    <2>2. x \in Segments /\ <<x>> = Append(<<>>, x)
      BY <1>3, <2>1
    <2>3. Held(Finished, <<x>>) = h \o Said(x)
      BY <1>0, <1>4, <2>2, HeldAppend
    <2>4. Held(chunks, Append(chunk, x)) = h \o Said(x)
      BY <1>0, <2>2, HeldAppend DEF h
    <2> QED
      BY <1>5, <2>1, <2>3, <2>4
  <1>10. CASE TextFull
    BY <1>6, <1>10 DEF TextFull
  <1>11. CASE TextFits
    <2> DEFINE y == TextSeg(text)
    <2>1. y \in Segments /\ Said(y) = c
      BY <1>0, TextSegType DEF Said, c
    <2>2. chunk' = Append(chunk, y) /\ text' = <<>> /\ UNCHANGED <<segs, chunks>>
      BY <1>11 DEF TextFits
    <2> HIDE DEF y
    <2>3. Held(chunks', chunk') = h \o c
      BY <1>0, <2>1, <2>2, HeldAppend DEF h
    <2>4. ((h \o c) \o <<>>) \o d = (h \o c) \o d
      BY <1>1, RegroupEmpty
    <2> QED
      BY <1>2, <2>2, <2>3, <2>4, SpokenEmpty DEF d
  <1>12. CASE TextNothing
    BY <1>6, <1>12 DEF TextNothing
  <1>13. CASE TextCut
    <2> DEFINE s    == Split(text, Available)
               y    == TextSeg(s.part)
               rest == SubSeq(text, Len(s.part) + 1, Len(text))
    <2>1. Available \in Nat \ {0} /\ Available < Len(text) /\ Len(text) \in Nat
      <3>1. Len(text) \in Nat /\ textLen \in Nat /\ MaxText \in Nat
        BY <1>0, LenProperties, TextOfType, MessageChunksAssumption DEF ChunksIInv, ChunksTypeOK
      <3> QED
        BY <1>13, <3>1 DEF TextCut, Long, Available
    <2>2. PICK n \in 0..Available : s.part = SubSeq(text, 1, n)
      BY <1>0, <2>1, PartIsPrefix
    <2>3. s.part \in Seq(Runes) /\ Len(s.part) = n /\ n \in 0..Len(text)
      <3> HIDE DEF s
      <3>1. n \in 0..Len(text)
        BY <2>1
      <3> QED
        BY <1>0, <2>2, <3>1, Prefix
    <2>4. /\ chunks' = Append(chunks, Append(chunk, y)) /\ chunk' = <<>>
          /\ text' = IF s.hard THEN rest ELSE TrimLeft(rest)
          /\ UNCHANGED segs
      BY <1>13 DEF TextCut
    <2>5. rest \in Seq(Runes) /\ text = s.part \o rest
      <3> HIDE DEF s
      <3> QED
        BY <1>0, <2>2, <2>3, Remainder
    <2>6. y \in Segments /\ Said(y) = Spoken(s.part) /\ Spoken(s.part) \in Seq(Segments)
      <3> HIDE DEF s
      <3> QED
        BY <2>3, TextSegType, SpokenIs DEF Said
    <2> HIDE DEF s, y, rest
    <2>7. c = Said(y) \o Spoken(text') /\ Spoken(text') \in Seq(Segments)
      <3>1. Spoken(text') = Spoken(rest)
        BY <2>4, <2>5, TrimmedSpoken
      <3>2. Spoken(s.part \o rest) = Spoken(s.part) \o Spoken(rest)
        BY <2>3, <2>5, SpokenConcat
      <3> QED
        BY <2>5, <2>6, <3>1, <3>2, SpokenIs DEF c
    <2>8. Held(chunks', chunk') = h \o Said(y)
      <3>1. Append(chunk, y) \in Seq(Segments)
        BY <1>0, <2>6, AppendProperties
      <3>2. Held(chunks', chunk') = Held(chunks, Append(chunk, y))
        BY <1>0, <2>4, <3>1, HeldEmpty
      <3> QED
        BY <1>0, <2>6, <3>2, HeldAppend DEF h
    <2>9. ((h \o Said(y)) \o Spoken(text')) \o d = (h \o (Said(y) \o Spoken(text'))) \o d
      <3> DEFINE a == Said(y)
                 r == Spoken(text')
      <3>1. a \in Seq(Segments) /\ r \in Seq(Segments)
        BY <2>6, <2>7
      <3> HIDE DEF a, r
      <3>2. (h \o a) \o r = h \o (a \o r)
        BY <1>1, <3>1, ConcatAssociative
      <3> QED
        BY <3>2 DEF a, r
    <2> QED
      BY <1>2, <2>4, <2>7, <2>8, <2>9 DEF d
  <1>14. CASE Finish
    BY <1>6, <1>14 DEF Finish
  <1>15. CASE UNCHANGED chunksVars
    BY <1>2, <1>15 DEF chunksVars, h, c, d
  <1> QED
    BY <1>7, <1>8, <1>9, <1>10, <1>11, <1>12, <1>13, <1>14, <1>15 DEF ChunksNext

\* For messages and texts of any length, what is in the chunks, in the open chunk and still
\* to be looked at is the message: nothing is lost, doubled or moved but newlines.
THEOREM NothingIsLost == ChunksSpec => ContentKept
  <1>1. ChunksIInv /\ [ChunksNext]_chunksVars => [Message' = Message]_chunksVars
    BY MessageKept
  <1> QED
    BY <1>1, ChunksInductive, PTL DEF ChunksSpec, ContentKept
=============================================================================
