------------------------------ MODULE LiveStatus ------------------------------
(***************************************************************************)
(* Bilibili's live refresh (lsp/bilibili/concern_fresher.go) for one user:  *)
(* every round fetches the list of followed users who are live, compares it *)
(* with the LiveInfo in the database and raises an event when something has *)
(* changed, which a dispatcher hands to the groups that watch the user      *)
(* (lsp/concern/stateManager.go).  Commands start and stop watching at any  *)
(* moment; to a group that starts watching during a broadcast, Add itself   *)
(* reports it (GroupWatchNotify).                                           *)
(*                                                                         *)
(* LiveInfo is abstracted to its status and title.  What follows notifyChan *)
(* is in NotifyPipeline; an event here reaches a group when its notify is   *)
(* sent to that channel, filters aside.  Watching one's own account, which  *)
(* asks for the room instead of the list, is left out.                      *)
(***************************************************************************)
EXTENDS Naturals, Sequences

CONSTANTS
    Groups,          \* groups that may watch the user
    Titles,          \* titles of a broadcast
    Placeholder,     \* the title the list gives when it has none
    Dispatchers,     \* goroutines of DefaultDispatch
    OnlyOnlineNotify,\* bilibili.onlyOnlineNotify
    Unsub,           \* bilibili.unsub
    AddOverlaps,     \* Add may run while a round or a dispatch does
    EventCap,        \* capacity of eventChan
    MaxBroadcasts,   \* bound: how often the user goes live
    MaxFaults        \* bound: failed requests, restarts, expiries, new titles

ASSUME LiveStatusAssumption == EventCap \in Nat /\ MaxBroadcasts \in Nat /\ MaxFaults \in Nat

VARIABLES
    air,       \* the broadcast: its title, or "off"
    broadcast, \* the number of broadcasts so far
    faults,
    watchers,  \* groups with a subscription for Live
    stored,    \* CurrentLiveKey
    notLive,   \* NotLiveKey
    freshCount,\* the rounds so far, up to AllSent
    phase,     \* where the round is
    found,     \* the user's LiveInfo in the list the round has fetched
    new,       \* the LiveInfo the round is about to store and send
    eventChan,
    dispatch,  \* dispatch[d]: the event d hands out, and to whom still
    adding,    \* adding[g]: where Add for g is
    leaving,   \* groups whose rows are removed, and LiveInfo not yet
    told,      \* history: the last change g was told: "on", "over" or "none"
    heard,     \* history: heard[g][n]: how often g was told that broadcast n began
    missed     \* history: the last change was not told to the groups, or is forgotten

worldVars == <<air, broadcast, faults>>
roundVars == <<phase, found, new, freshCount>>
infoVars  == <<stored, notLive>>
dispVars  == <<eventChan, dispatch, told, heard>>
callVars  == <<watchers, adding, leaving>>
vars == <<worldVars, roundVars, infoVars, dispVars, callVars, missed>>

\* A LiveInfo, nr being the broadcast it is about.
NoInfo == [status |-> "none", title |-> "none", nr |-> 0]
Living(title, nr) == [status |-> "living", title |-> title, nr |-> nr]
Over(nr) == [status |-> "over", title |-> "none", nr |-> nr]

\* The event a LiveInfo is: changed is liveStatusChanged; if not, its title has.
Event(info, changed) == [info |-> info, changed |-> changed]
NoEvent == Event(NoInfo, FALSE)
Free == [event |-> NoEvent, to |-> {}]

\* freshCount.Store(1000): every event is sent.
AllSent == 3
FirstCount == IF OnlyOnlineNotify THEN 0 ELSE AllSent

Init ==
    /\ air = "off" /\ broadcast = 0 /\ faults = 0
    /\ watchers = {} /\ stored = NoInfo /\ notLive = 0
    /\ freshCount = FirstCount
    /\ phase = "idle" /\ found = NoInfo /\ new = NoEvent
    /\ eventChan = <<>> /\ dispatch = [d \in Dispatchers |-> Free]
    /\ adding = [g \in Groups |-> "no"] /\ leaving = {}
    /\ told = [g \in Groups |-> "none"]
    /\ heard = [g \in Groups |-> [n \in 1..MaxBroadcasts |-> 0]]
    /\ missed = FALSE

Delivered == eventChan = <<>> /\ \A d \in Dispatchers : dispatch[d] = Free
NoAdd == \A g \in Groups : adding[g] = "no"

-----------------------------------------------------------------------------
(* The user, and the faults *)

Fault == faults < MaxFaults /\ faults' = faults + 1

GoesLive ==
    /\ air = "off" /\ broadcast < MaxBroadcasts
    /\ broadcast' = broadcast + 1
    /\ air' \in Titles
    /\ UNCHANGED <<faults, roundVars, infoVars, dispVars, callVars, missed>>

GoesOff ==
    /\ air # "off" /\ air' = "off"
    /\ UNCHANGED <<broadcast, faults, roundVars, infoVars, dispVars, callVars, missed>>

Retitles ==
    /\ Fault /\ air # "off" /\ air' \in Titles \ {air}
    /\ UNCHANGED <<broadcast, roundVars, infoVars, dispVars, callVars, missed>>

\* Seven days after AddLiveInfo the key expires; all that went on then is long done.
Expires ==
    /\ Fault /\ stored # NoInfo /\ phase = "idle" /\ Delivered /\ NoAdd
    /\ stored' = NoInfo /\ missed' = TRUE
    /\ heard' = [g \in Groups |-> [n \in 1..MaxBroadcasts |-> 0]]
    /\ UNCHANGED <<air, broadcast, notLive, roundVars, eventChan, dispatch, told, callVars>>

\* The process restarts: the database is left.
Restarts ==
    /\ Fault
    /\ freshCount' = FirstCount
    /\ phase' = "idle" /\ found' = NoInfo /\ new' = NoEvent
    /\ eventChan' = <<>> /\ dispatch' = [d \in Dispatchers |-> Free]
    /\ adding' = [g \in Groups |-> "no"] /\ leaving' = {}
    /\ missed' = (missed \/ phase = "emit" \/ ~Delivered \/ ~NoAdd)
    /\ UNCHANGED <<air, broadcast, watchers, infoVars, told, heard>>

-----------------------------------------------------------------------------
(* A round of fresh *)

\* FeedList, every page of it; a fault loses the user, or the whole list.
Fetches ==
    /\ phase = "idle" /\ (AddOverlaps \/ NoAdd)
    /\ \/ /\ phase' = "list"
          /\ found' = IF air = "off" THEN NoInfo ELSE Living(air, broadcast)
          /\ UNCHANGED faults
       \/ /\ Fault /\ phase' \in {"list", "end"}
          /\ found' = NoInfo
    /\ UNCHANGED <<air, broadcast, new, freshCount, infoVars, dispVars, callVars, missed>>

\* ListConcernState: a user nobody watches is not looked at.
Lists ==
    /\ phase = "list"
    /\ phase' = IF watchers = {} THEN "end" ELSE "compare"
    /\ UNCHANGED <<worldVars, found, new, freshCount, infoVars, dispVars, callVars, missed>>

\* Mutant of ComparesOff: only a user whose end was seen is reported again.
ComparesOffOnly ==
    /\ phase = "compare" /\ stored.status # "living"
    /\ phase' = IF found = NoInfo \/ stored.nr = 1 THEN "end" ELSE "send"
    /\ new' = Event(found, TRUE)
    /\ UNCHANGED <<worldVars, found, freshCount, infoVars, dispVars, callVars, missed>>

\* There is no LiveInfo, or it says the user is not live.
ComparesOff ==
    /\ phase = "compare" /\ stored.status # "living"
    /\ phase' = IF found = NoInfo THEN "end" ELSE "send"
    /\ new' = Event(found, TRUE)
    /\ UNCHANGED <<worldVars, found, freshCount, infoVars, dispVars, callVars, missed>>

\* LiveInfo says living and the list does not: at the third such round the room is asked.
ComparesGone ==
    /\ phase = "compare" /\ stored.status = "living" /\ found = NoInfo
    /\ IF notLive + 1 < 3
       THEN phase' = "end" /\ notLive' = notLive + 1
       ELSE phase' = "confirm" /\ notLive' = 0
    /\ new' = Event(Over(stored.nr), TRUE)
    /\ UNCHANGED <<worldVars, found, freshCount, stored, dispVars, callVars, missed>>

\* Both say living: an event when the title is another.
ComparesLive ==
    /\ phase = "compare" /\ stored.status = "living" /\ found # NoInfo
    /\ notLive' = 0
    /\ phase' = IF found.title \in {stored.title, Placeholder} THEN "end" ELSE "send"
    /\ new' = Event(Living(found.title, stored.nr), FALSE)
    /\ UNCHANGED <<worldVars, found, freshCount, stored, dispVars, callVars, missed>>

\* GetRoomInfo: is the broadcast over?
Confirms ==
    /\ phase = "confirm"
    /\ \/ phase' = (IF air = "off" THEN "send" ELSE "end") /\ UNCHANGED faults
       \/ phase' = "end" /\ Fault
    /\ UNCHANGED <<air, broadcast, found, new, freshCount, infoVars, dispVars, callVars, missed>>

\* sendLiveInfo holds new back: bilibili.onlyOnlineNotify, and these rounds are the first.
HeldBack == freshCount < (IF new.info.status = "living" THEN 1 ELSE 3)

\* Mutant of Sends: the event goes first, and the database only gets what has changed status.
SendsFirst ==
    /\ phase = "send"
    /\ phase' = IF HeldBack THEN "end" ELSE "emit"
    /\ \/ stored' = new.info /\ UNCHANGED faults
       \/ Fault /\ UNCHANGED stored
    /\ missed' = (IF new.changed THEN HeldBack ELSE missed)
    /\ UNCHANGED <<air, broadcast, found, new, freshCount, notLive, dispVars, callVars>>

\* sendLiveInfo: AddLiveInfo, and no event if that fails.
Sends ==
    /\ phase = "send"
    /\ \/ /\ stored' = new.info
          /\ phase' = IF HeldBack THEN "end" ELSE "emit"
          /\ missed' = (IF new.changed THEN HeldBack ELSE missed)
          /\ UNCHANGED faults
       \/ Fault /\ phase' = "end" /\ UNCHANGED <<stored, missed>>
    /\ UNCHANGED <<air, broadcast, found, new, freshCount, notLive, dispVars, callVars>>

\* eventChan <- info
Emits ==
    /\ phase = "emit" /\ Len(eventChan) < EventCap
    /\ eventChan' = Append(eventChan, new)
    /\ phase' = "end"
    /\ UNCHANGED <<worldVars, found, new, freshCount, infoVars, dispatch, told, heard, callVars, missed>>

\* freshCount.Inc, and the timer.
Ends ==
    /\ phase = "end" /\ phase' = "idle"
    /\ freshCount' = IF freshCount < AllSent THEN freshCount + 1 ELSE AllSent
    /\ found' = NoInfo /\ new' = NoEvent
    /\ UNCHANGED <<worldVars, infoVars, dispVars, callVars, missed>>

-----------------------------------------------------------------------------
(* DefaultDispatch *)

\* An event, and ListConcernState: the groups to tell.
Takes(d) ==
    /\ dispatch[d] = Free /\ eventChan # <<>>
    /\ eventChan' = Tail(eventChan)
    /\ dispatch' = [dispatch EXCEPT ![d] = [event |-> Head(eventChan), to |-> watchers]]
    /\ UNCHANGED <<worldVars, roundVars, infoVars, told, heard, callVars, missed>>

\* g is told what the event says: a change of the title tells nothing of the status.
Tell(g, event) ==
    IF ~event.changed THEN UNCHANGED <<told, heard>>
    ELSE IF event.info.status = "over" THEN told' = [told EXCEPT ![g] = "over"] /\ UNCHANGED heard
    ELSE /\ told' = [told EXCEPT ![g] = "on"]
         /\ heard' = [heard EXCEPT ![g][event.info.nr] = @ + 1]

\* notifyChan <- n, for one group.
Delivers(d) ==
    /\ \E g \in dispatch[d].to :
          /\ Tell(g, dispatch[d].event)
          /\ LET event == dispatch[d].event
                 rest  == dispatch[d].to \ {g}
             IN dispatch' = [dispatch EXCEPT ![d] = [event |-> event, to |-> rest]]
    /\ UNCHANGED <<worldVars, roundVars, infoVars, eventChan, callVars, missed>>

\* Every group has its notify.
EventDone(d) ==
    /\ dispatch[d] # Free /\ dispatch[d].to = {}
    /\ dispatch' = [dispatch EXCEPT ![d] = Free]
    /\ UNCHANGED <<worldVars, roundVars, infoVars, eventChan, told, heard, callVars, missed>>

-----------------------------------------------------------------------------
(* Add *)

\* Add reads LiveInfo, and then asks the site about the user.
AddReads(g) ==
    /\ g \notin watchers /\ adding[g] = "no"
    /\ AddOverlaps \/ (phase = "idle" /\ Delivered)
    /\ adding' = [adding EXCEPT ![g] = IF stored.status = "living" THEN "saw" ELSE "read"]
    /\ UNCHANGED <<worldVars, roundVars, infoVars, dispVars, watchers, leaving, missed>>

AddFails(g) ==
    /\ adding[g] \in {"saw", "read"}
    /\ adding' = [adding EXCEPT ![g] = "no"]
    /\ UNCHANGED <<worldVars, roundVars, infoVars, dispVars, watchers, leaving, missed>>

\* AddGroupConcern; GroupWatchNotify only if the LiveInfo read before was living.
AddInserts(g) ==
    /\ adding[g] \in {"saw", "read"}
    /\ watchers' = watchers \cup {g}
    /\ told' = [told EXCEPT ![g] = "none"]
    /\ heard' = [heard EXCEPT ![g] = [n \in 1..MaxBroadcasts |-> 0]]
    /\ adding' = [adding EXCEPT ![g] = IF @ = "saw" THEN "watch" ELSE "no"]
    /\ UNCHANGED <<worldVars, roundVars, infoVars, eventChan, dispatch, leaving, missed>>

GroupWatchNotify(g) ==
    /\ adding[g] = "watch"
    /\ adding' = [adding EXCEPT ![g] = "no"]
    /\ IF stored.status = "living" THEN Tell(g, Event(stored, TRUE)) ELSE UNCHANGED <<told, heard>>
    /\ UNCHANGED <<worldVars, roundVars, infoVars, eventChan, dispatch, watchers, leaving, missed>>

-----------------------------------------------------------------------------
(* Remove, RemoveAllByGroupCode, SyncSub *)

\* Remove: one transaction takes the row and, with the last of them, LiveInfo.
RemoveLive(g) ==
    /\ g \in watchers /\ adding[g] = "no"
    /\ watchers' = watchers \ {g}
    /\ stored' = IF watchers' = {} THEN NoInfo ELSE stored
    /\ UNCHANGED <<worldVars, roundVars, notLive, dispVars, adding, leaving, missed>>

\* RemoveAllByGroupCode: the rows first, LiveInfo later and only with bilibili.unsub.
RemoveAllByGroupCode(g) ==
    /\ g \in watchers /\ adding[g] = "no"
    /\ watchers' = watchers \ {g}
    /\ leaving' = IF Unsub THEN leaving \cup {g} ELSE leaving
    /\ UNCHANGED <<worldVars, roundVars, infoVars, dispVars, adding, missed>>

DeletesLiveInfo(g) ==
    /\ g \in leaving
    /\ leaving' = leaving \ {g}
    /\ stored' = IF watchers = {} THEN NoInfo ELSE stored
    /\ UNCHANGED <<worldVars, roundVars, notLive, dispVars, watchers, adding, missed>>

\* SyncSub: the site refuses to follow the user, RemoveAllById.
RemoveAllById ==
    /\ watchers # {}
    /\ watchers' = {}
    /\ UNCHANGED <<worldVars, roundVars, infoVars, dispVars, adding, leaving, missed>>

-----------------------------------------------------------------------------
World == GoesLive \/ GoesOff \/ Retitles \/ Expires \/ Restarts

Round ==
    \/ Fetches \/ Lists \/ ComparesOff \/ ComparesGone \/ ComparesLive
    \/ Confirms \/ Sends \/ Emits \/ Ends

Dispatch(d) == Takes(d) \/ Delivers(d) \/ EventDone(d)

AddWork(g) == AddInserts(g) \/ GroupWatchNotify(g)

Next ==
    \/ World \/ Round
    \/ \E d \in Dispatchers : Dispatch(d)
    \/ \E g \in Groups :
          AddReads(g) \/ AddFails(g) \/ AddWork(g) \/ RemoveLive(g) \/ RemoveAllByGroupCode(g) \/ DeletesLiveInfo(g)
    \/ RemoveAllById

\* Rounds follow one another, the dispatchers run, a command that runs ends.  Commands
\* and broadcasts need never come.
Fairness ==
    /\ WF_vars(Round)
    /\ \A d \in Dispatchers : WF_vars(Dispatch(d))
    /\ \A g \in Groups : WF_vars(AddWork(g)) /\ WF_vars(DeletesLiveInfo(g))

Spec == Init /\ [][Next]_vars /\ Fairness

-----------------------------------------------------------------------------
(* Properties *)

Infos == {NoInfo} \cup {Living(t, n) : t \in Titles, n \in 1..MaxBroadcasts}
             \cup {Over(n) : n \in 1..MaxBroadcasts}
EventsToSend == {Event(i, c) : i \in Infos, c \in BOOLEAN}

\* Every variable stays in its range.
TypeOK ==
    /\ air \in Titles \cup {"off"} /\ broadcast \in 0..MaxBroadcasts /\ faults \in 0..MaxFaults
    /\ watchers \subseteq Groups /\ leaving \subseteq Groups
    /\ stored \in Infos /\ notLive \in 0..2 /\ freshCount \in 0..AllSent
    /\ phase \in {"idle", "list", "compare", "confirm", "send", "emit", "end"}
    /\ found \in Infos /\ new \in EventsToSend
    /\ eventChan \in Seq(EventsToSend) /\ Len(eventChan) <= EventCap
    /\ dispatch \in [Dispatchers -> [event : EventsToSend, to : SUBSET Groups]]
    /\ adding \in [Groups -> {"no", "read", "saw", "watch"}]
    /\ told \in [Groups -> {"none", "on", "over"}]
    /\ heard \in [Groups -> [1..MaxBroadcasts -> Nat]]
    /\ missed \in BOOLEAN

\* No group is told twice that one broadcast has begun, neither by the rounds, across
\* restarts and failures, nor by the rounds and GroupWatchNotify together.
ToldOnce == \A g \in Groups : \A n \in 1..MaxBroadcasts : heard[g][n] <= 1

\* What the database says, the groups know: when nothing is on its way, every watcher
\* of a user stored as living was told so last, and no watcher of one stored as not
\* living was, unless a restart, an expiry or onlyOnlineNotify has kept it from them.
InStep ==
    phase # "emit" /\ Delivered /\ NoAdd /\ ~missed =>
        \A g \in watchers :
            /\ stored.status = "living" => told[g] = "on"
            /\ stored.status = "over" => told[g] # "on"

\* A broadcast missing in the list is not over: its end is stored, and told, only once
\* it has ended, however often requests fail.
NoFalseEnd ==
    stored.status = "over" => stored.nr < broadcast \/ air = "off"

\* A broadcast is told once, ended only when it has, and what the database says the
\* groups know.
BroadcastsAsStored == ToldOnce /\ InStep /\ NoFalseEnd

\* A broadcast that lasts is reported to every group that watches it.
LiveIsReported ==
    \A g \in Groups :
        <>[](air # "off" /\ g \in watchers) /\ <>[](~missed) => <>[](told[g] = "on")

\* The end of a broadcast is found out and reported.
EndIsReported ==
    \A g \in Groups :
        <>[](air = "off" /\ g \in watchers) /\ <>[](~missed) => <>[](told[g] # "on")
=============================================================================
