----------------------------- MODULE ListLoading -----------------------------
(***************************************************************************)
(* Loading the friend, group and member lists (adapter/messenger.go:       *)
(* RefreshList, reloadLists, startListReloadRetry) and the start of the    *)
(* subscriptions that waits for them (lsp/module.go: waitForBotOnline).    *)
(*                                                                         *)
(* Every lifecycle event starts a RefreshList in a goroutine of its own;   *)
(* one that fails starts the retry goroutine unless one is active.  What   *)
(* the lists hold is left out: a list has been loaded or not, and a reload *)
(* of the group list empties the members of every group.                   *)
(***************************************************************************)
EXTENDS Naturals, FiniteSets

CONSTANTS
    Groups,         \* the groups OneBot returns
    Refreshers,     \* bound: goroutines of lifecycle events in flight
    Retriers,       \* bound: retry goroutines
    MaxRetries,     \* listReloadMaxRetries
    MaxLifecycles   \* bound: lifecycle events

ASSUME ListLoadingAssumption ==
    /\ IsFiniteSet(Groups) /\ Refreshers \cap Retriers = {}
    /\ MaxRetries \in Nat \ {0} /\ MaxLifecycles \in Nat

Loaders == Refreshers \cup Retriers

VARIABLES
    api,          \* the API calls succeed: the environment decides
    lifecycles,   \* how many lifecycle events there were
    friendList, listed, filled,  \* FriendList loaded, GroupList loaded, groups with members
    pc, err, todo,            \* per loader: step, listErr # nil, groups of the snapshot left
    round,        \* per retry goroutine: i
    active,       \* listReloadRetryActive
    loaded,       \* listLoaded
    started,      \* Lsp.started: the subscriptions run
    failing,      \* history: a RefreshList failed and no full reload has ended since
    gaveUp        \* history: the last retry goroutine used up its retries

vars == <<api, lifecycles, friendList, listed, filled, pc, err, todo, round,
          active, loaded, started, failing, gaveUp>>
listVars == <<friendList, listed, filled>>

Init ==
    /\ api \in BOOLEAN /\ lifecycles = 0
    /\ friendList = FALSE /\ listed = FALSE /\ filled = {}
    /\ pc = [p \in Loaders |-> "idle"]
    /\ err = [p \in Loaders |-> FALSE]
    /\ todo = [p \in Loaders |-> {}]
    /\ round = [t \in Retriers |-> 0]
    /\ active = FALSE /\ loaded = FALSE /\ started = FALSE
    /\ failing = FALSE /\ gaveUp = FALSE

Goto(p, l) == pc' = [pc EXCEPT ![p] = l]

-----------------------------------------------------------------------------
(* reloadLists *)

LoadFriends(p) ==
    /\ pc[p] = "friends"
    /\ friendList' = (friendList \/ api)
    /\ err' = [err EXCEPT ![p] = ~api]
    /\ Goto(p, "groups")
    /\ UNCHANGED <<api, lifecycles, listed, filled, todo, round, active, loaded, started, failing, gaveUp>>

\* A new group list has no members; without both lists no members are loaded.
LoadGroups(p) ==
    /\ pc[p] = "groups"
    /\ IF api THEN listed' = TRUE /\ filled' = {} ELSE UNCHANGED <<listed, filled>>
    /\ err' = [err EXCEPT ![p] = @ \/ ~api]
    /\ todo' = [todo EXCEPT ![p] = Groups]
    /\ Goto(p, IF err[p] \/ ~api THEN "end" ELSE "members")
    /\ UNCHANGED <<api, lifecycles, friendList, round, active, loaded, started, failing, gaveUp>>

\* Mutant of LoadMembers: a group whose members fail is passed over.
LoadMembersLeniently(p) ==
    /\ pc[p] = "members" /\ todo[p] # {}
    /\ \E g \in todo[p] :
          /\ filled' = IF api THEN filled \cup {g} ELSE filled
          /\ err' = err
          /\ todo' = [todo EXCEPT ![p] = @ \ {g}]
    /\ UNCHANGED <<api, lifecycles, friendList, listed, pc, round, active, loaded, started, failing, gaveUp>>

LoadMembers(p) ==
    /\ pc[p] = "members" /\ todo[p] # {}
    /\ \E g \in todo[p] :
          /\ filled' = IF api THEN filled \cup {g} ELSE filled
          /\ err' = [err EXCEPT ![p] = @ \/ ~api]
          /\ todo' = [todo EXCEPT ![p] = @ \ {g}]
    /\ UNCHANGED <<api, lifecycles, friendList, listed, pc, round, active, loaded, started, failing, gaveUp>>

LoadEnds(p) ==
    /\ pc[p] = "members" /\ todo[p] = {}
    /\ Goto(p, "end")
    /\ UNCHANGED <<api, lifecycles, listVars, err, todo, round, active, loaded, started, failing, gaveUp>>

Reload(p) == LoadFriends(p) \/ LoadGroups(p) \/ LoadMembers(p) \/ LoadEnds(p)

-----------------------------------------------------------------------------
(* RefreshList and the retry goroutine *)

Lifecycle(p) ==
    /\ pc[p] = "idle" /\ lifecycles < MaxLifecycles
    /\ lifecycles' = lifecycles + 1
    /\ Goto(p, "friends")
    /\ UNCHANGED <<api, listVars, err, todo, round, active, loaded, started, failing, gaveUp>>

RefreshSucceeds(p) ==
    /\ pc[p] = "end" /\ ~err[p]
    /\ loaded' = TRUE /\ failing' = FALSE
    /\ Goto(p, "idle")
    /\ UNCHANGED <<api, lifecycles, listVars, err, todo, round, active, started, gaveUp>>

StartRetry(p, t) ==
    /\ ~active /\ pc[t] = "idle"
    /\ active' = TRUE /\ gaveUp' = FALSE
    /\ round' = [round EXCEPT ![t] = 1]
    /\ pc' = [pc EXCEPT ![p] = "idle", ![t] = "sleep"]

RefreshFails(p) ==
    /\ pc[p] = "end" /\ err[p]
    /\ failing' = TRUE
    /\ \/ \E t \in Retriers : StartRetry(p, t)
       \/ active /\ Goto(p, "idle") /\ UNCHANGED <<active, gaveUp, round>>
    /\ UNCHANGED <<api, lifecycles, listVars, err, todo, loaded, started>>

\* After time.Sleep.
RetryWakes(t) ==
    /\ pc[t] = "sleep"
    /\ Goto(t, IF loaded THEN "exit" ELSE "friends")
    /\ UNCHANGED <<api, lifecycles, listVars, err, todo, round, active, loaded, started, failing, gaveUp>>

\* Mutant of RetryResult: no second round.
RetryResultOnce(t) ==
    /\ pc[t] = "end"
    /\ Goto(t, "exit")
    /\ UNCHANGED <<api, lifecycles, listVars, err, todo, active, started, round, gaveUp, loaded, failing>>

RetryResult(t) ==
    /\ pc[t] = "end"
    /\ \/ /\ ~err[t]
          /\ loaded' = TRUE /\ failing' = FALSE
          /\ Goto(t, "exit") /\ UNCHANGED <<round, gaveUp>>
       \/ /\ err[t] /\ round[t] < MaxRetries
          /\ round' = [round EXCEPT ![t] = @ + 1]
          /\ Goto(t, "sleep") /\ UNCHANGED <<loaded, failing, gaveUp>>
       \/ /\ err[t] /\ round[t] = MaxRetries
          /\ gaveUp' = TRUE
          /\ Goto(t, "exit") /\ UNCHANGED <<round, loaded, failing>>
    /\ UNCHANGED <<api, lifecycles, listVars, err, todo, active, started>>

\* The deferred listReloadRetryActive.Store(false).
RetryExits(t) ==
    /\ pc[t] = "exit"
    /\ active' = FALSE
    /\ Goto(t, "idle")
    /\ UNCHANGED <<api, lifecycles, listVars, err, todo, round, loaded, started, failing, gaveUp>>

Refresher(p) == Reload(p) \/ RefreshSucceeds(p) \/ RefreshFails(p)
Retrier(t)   == Reload(t) \/ RetryWakes(t) \/ RetryResult(t) \/ RetryExits(t)

-----------------------------------------------------------------------------
\* waitForBotOnline, once the bot is connected; it is called again until it succeeds.
StartSubscriptions ==
    /\ loaded /\ ~started
    /\ started' = TRUE
    /\ UNCHANGED <<api, lifecycles, listVars, pc, err, todo, round, active, loaded, failing, gaveUp>>

ApiChanges ==
    /\ api' = ~api
    /\ UNCHANGED <<lifecycles, listVars, pc, err, todo, round, active, loaded, started, failing, gaveUp>>

Next ==
    \/ \E p \in Refreshers : Lifecycle(p) \/ Refresher(p)
    \/ \E t \in Retriers : Retrier(t)
    \/ StartSubscriptions
    \/ ApiChanges

Spec == Init /\ [][Next]_vars

\* Goroutines run and API calls return; nobody owes a lifecycle event.
Fairness ==
    /\ \A p \in Refreshers : WF_vars(Refresher(p))
    /\ \A t \in Retriers : WF_vars(Retrier(t))
    /\ WF_vars(StartSubscriptions)

FairSpec == Spec /\ Fairness

-----------------------------------------------------------------------------
(* Properties *)

TypeOK ==
    /\ {api, friendList, listed, active, loaded, started, failing, gaveUp} \subseteq BOOLEAN
    /\ lifecycles \in 0..MaxLifecycles
    /\ filled \subseteq Groups
    /\ pc \in [Loaders -> {"idle", "sleep", "friends", "groups", "members", "end", "exit"}]
    /\ err \in [Loaders -> BOOLEAN]
    /\ todo \in [Loaders -> SUBSET Groups]
    /\ round \in [Retriers -> 0..MaxRetries]
    /\ \A t, u \in Retriers : pc[t] # "idle" /\ pc[u] # "idle" => t = u
    /\ active = (\E t \in Retriers : pc[t] # "idle")

\* The lists are whole: friends, groups, and the members of every group.
Whole == friendList /\ listed /\ filled = Groups

\* The subscriptions are not started on incomplete lists (reloadLists returns an
\* error when any list fails; waitForBotOnline waits for listLoaded).  It holds up
\* to the second lifecycle event: then one refresh empties the members that another
\* has just loaded.
StartsWhole == [][started' /\ ~started /\ lifecycles = 1 => Whole]_vars

\* While the lists have never been loaded, a failed RefreshList is retried until
\* they are and the subscriptions run, or until the retries are used up.  (One that
\* fails later is not: listLoaded stays set, and the retry goroutine returns.)
FirstLoadEnds == failing /\ ~loaded ~> started \/ gaveUp
=============================================================================
