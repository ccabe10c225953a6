------------------------------ MODULE TwitchLive ------------------------------
(***************************************************************************)
(* Twitch's live refresh (lsp/twitch/concern.go) for one user: a loop of    *)
(* its own asks for the streams of all users watched, compares the user's   *)
(* with the last status in the database, sends an event if it differs, and  *)
(* then stores it.  A group that starts watching during a broadcast is told *)
(* of it by Add (GroupWatchNotify).  Nothing ever deletes the last status.  *)
(*                                                                         *)
(* Statuses and events carry the number of the broadcast they are about,    *)
(* which the code does not know.  An event here reaches a group when its    *)
(* notify is sent to notifyChan, filters aside.                             *)
(***************************************************************************)
EXTENDS Naturals, Sequences, Functions

CONSTANTS
    StreamGroups,     \* groups that may watch the user
    Titles,           \* titles of a broadcast; "" is none
    Dispatchers,      \* goroutines of DefaultDispatch
    OnlyOnlineNotify, \* twitch.onlyOnlineNotify
    TwitchCap,        \* capacity of eventChan
    MaxBroadcasts,    \* bound: how often the user goes live
    MaxTwitchFaults   \* bound: failed requests and writes, restarts, new titles

ASSUME TwitchLiveAssumption ==
    TwitchCap \in Nat /\ MaxBroadcasts \in Nat /\ MaxTwitchFaults \in Nat

VARIABLES
    live, title,    \* the user is live, under this title
    broadcast,      \* the number of broadcasts so far
    twitchFaults,
    streamWatchers, \* groups with a subscription for Live
    last,           \* lastStatus: <<>>, or one status
    freshCount,     \* the rounds so far, up to AllSent
    twitchPhase,    \* where the round is
    found,          \* the user's status in the streams the round has fetched
    twitchChan,
    dispatch,       \* dispatch[d]: the event d hands out, and to whom still
    streamAdding,   \* adding[g]: where Add for g is
    watch,          \* groups GroupWatchNotify is about to tell of this broadcast
    heard,          \* history: heard[g][n]: how often the rounds told g that n began
    hinted,         \* history: groups Add has told of this broadcast
    again,          \* history: broadcasts whose beginning was sent but not stored
    missed          \* history: groups that need not be told of this broadcast

streamVars == <<live, title, broadcast, twitchFaults>>
twitchRoundVars == <<twitchPhase, found, freshCount>>
dispVars  == <<twitchChan, dispatch>>
watchVars  == <<streamWatchers, streamAdding, watch>>
hearVars  == <<heard, hinted>>
twitchVars == <<streamVars, last, twitchRoundVars, dispVars, watchVars, hearVars, again, missed>>

Status(l, t, n) == [live |-> l, title |-> t, nr |-> n]
Event(kind, n)  == [kind |-> kind, nr |-> n]
NotFound == Status(FALSE, "", 0)
Free == [event |-> Event("none", 0), to |-> {}]

\* freshCount.Store(1000): every event is sent.
AllSent == 3
FirstCount == IF OnlyOnlineNotify THEN 0 ELSE AllSent

Broadcasts == 1..MaxBroadcasts
NeverHeard == [n \in Broadcasts |-> 0]

TwitchInit ==
    /\ live = FALSE /\ title = "" /\ broadcast = 0 /\ twitchFaults = 0
    /\ streamWatchers = {} /\ last = <<>>
    /\ freshCount = FirstCount /\ twitchPhase = "idle" /\ found = NotFound
    /\ twitchChan = <<>> /\ dispatch = [d \in Dispatchers |-> Free]
    /\ streamAdding = [g \in StreamGroups |-> "no"] /\ watch = {}
    /\ heard = [g \in StreamGroups |-> NeverHeard] /\ hinted = {}
    /\ again = {} /\ missed = {}

TwitchFault == twitchFaults < MaxTwitchFaults /\ twitchFaults' = twitchFaults + 1

-----------------------------------------------------------------------------
(* The user, and restarts *)

\* The last status says, or is about to say, that the user is live already.
TakenForLive == (twitchPhase # "idle" /\ found.live) \/ (last # <<>> /\ last[1].live)

GoesLive ==
    /\ ~live /\ broadcast < MaxBroadcasts
    /\ live' = TRUE /\ title' \in Titles /\ broadcast' = broadcast + 1
    /\ missed' = IF TakenForLive THEN StreamGroups ELSE {}
    /\ hinted' = {} /\ watch' = {}
    /\ UNCHANGED <<twitchFaults, last, twitchRoundVars, dispVars, streamWatchers, streamAdding, heard, again>>

GoesOff ==
    /\ live /\ live' = FALSE /\ title' = ""
    /\ UNCHANGED <<broadcast, twitchFaults, last, twitchRoundVars, dispVars, watchVars, hearVars, again,
                   missed>>

Retitles ==
    /\ live /\ TwitchFault /\ title' \in Titles \ {title}
    /\ UNCHANGED <<live, broadcast, last, twitchRoundVars, dispVars, watchVars, hearVars, again,
                   missed>>

Queued == Range(twitchChan) \cup {dispatch[d].event : d \in Dispatchers}

\* The round has told, or may have, that a broadcast began, and has not stored it.
BeginsUnstored == twitchPhase = "store" /\ found.live /\ ~(last # <<>> /\ last[1].live)

\* The process restarts: the database is left.
TwitchRestarts ==
    /\ TwitchFault
    /\ freshCount' = FirstCount /\ twitchPhase' = "idle" /\ found' = NotFound
    /\ twitchChan' = <<>> /\ dispatch' = [d \in Dispatchers |-> Free]
    /\ streamAdding' = [g \in StreamGroups |-> "no"] /\ watch' = {}
    /\ again' = again \cup (IF BeginsUnstored THEN {found.nr} ELSE {})
    /\ missed' = IF Event("on", broadcast) \in Queued THEN StreamGroups
                 ELSE missed \cup {g \in StreamGroups : streamAdding[g] # "no"}
    /\ UNCHANGED <<live, title, broadcast, last, streamWatchers, hearVars>>

-----------------------------------------------------------------------------
(* A round of fresh *)

\* The end of a round, freshCount.Add(1).
EndRound ==
    /\ twitchPhase' = "idle" /\ found' = NotFound
    /\ freshCount' = IF freshCount < AllSent THEN freshCount + 1 ELSE AllSent

\* ListConcernState: without anyone watching there is nothing to ask for.
Lists ==
    /\ twitchPhase = "idle"
    /\ IF streamWatchers = {} THEN EndRound ELSE twitchPhase' = "fetch" /\ UNCHANGED <<found, freshCount>>
    /\ UNCHANGED <<streamVars, last, dispVars, watchVars, hearVars, again, missed>>

Shown == IF live THEN Status(TRUE, title, broadcast) ELSE NotFound

\* Mutant of Fetches: a request that fails is an empty list.
FetchesNoStreams ==
    /\ twitchPhase = "fetch" /\ twitchPhase' = "compare"
    /\ \/ found' = Shown /\ UNCHANGED twitchFaults
       \/ TwitchFault /\ found' = NotFound
    /\ UNCHANGED <<live, title, broadcast, freshCount, last, dispVars, watchVars, hearVars, again,
                   missed>>

\* GetStreamsByLogins; a request that fails ends the round.
FetchesStreams ==
    /\ twitchPhase = "fetch"
    /\ \/ twitchPhase' = "compare" /\ found' = Shown
          /\ UNCHANGED <<twitchFaults, freshCount>>
       \/ TwitchFault /\ EndRound
    /\ UNCHANGED <<live, title, broadcast, last, dispVars, watchVars, hearVars, again, missed>>

\* An event that counts only from the round `from` on, and then the new status.
SendsFrom(from) ==
    /\ twitchPhase' = IF freshCount >= from THEN "emit" ELSE "store"
    /\ missed' = IF found.nr = broadcast /\ freshCount < from THEN StreamGroups ELSE missed

\* Mutant of ComparesFirst: the first status is only stored.
ComparesFirstSilently ==
    /\ twitchPhase = "compare" /\ last = <<>>
    /\ twitchPhase' = "store"
    /\ UNCHANGED <<streamVars, last, found, freshCount, dispVars, watchVars, hearVars, again, missed>>

\* There is no last status.
ComparesFirst ==
    /\ twitchPhase = "compare" /\ last = <<>>
    /\ IF found.live THEN SendsFrom(1) ELSE twitchPhase' = "store" /\ UNCHANGED missed
    /\ UNCHANGED <<streamVars, last, found, freshCount, dispVars, watchVars, hearVars, again>>

\* The status is the same, and so is the title, or there was none.
ComparesSame ==
    /\ twitchPhase = "compare" /\ last # <<>> /\ last[1].live = found.live
    /\ found.live => last[1].title \in {"", found.title}
    /\ EndRound
    /\ UNCHANGED <<streamVars, last, dispVars, watchVars, hearVars, again, missed>>

ComparesTitle ==
    /\ twitchPhase = "compare" /\ last # <<>> /\ last[1].live /\ found.live
    /\ last[1].title \notin {"", found.title}
    /\ twitchPhase' = IF freshCount >= 1 THEN "emit" ELSE "store"
    /\ UNCHANGED <<streamVars, last, found, freshCount, dispVars, watchVars, hearVars, again, missed>>

ComparesChanged ==
    /\ twitchPhase = "compare" /\ last # <<>> /\ last[1].live # found.live
    /\ SendsFrom(IF found.live THEN 1 ELSE 3)
    /\ UNCHANGED <<streamVars, last, found, freshCount, dispVars, watchVars, hearVars, again>>

\* What the round has found out.
NewEvent ==
    IF last # <<>> /\ last[1].live
    THEN Event(IF found.live THEN "title" ELSE "over", last[1].nr)
    ELSE Event("on", found.nr)

\* eventChan <- event
EmitsStatus ==
    /\ twitchPhase = "emit" /\ Len(twitchChan) < TwitchCap
    /\ twitchChan' = Append(twitchChan, NewEvent)
    /\ twitchPhase' = "store"
    /\ UNCHANGED <<streamVars, last, found, freshCount, dispatch, watchVars, hearVars, again, missed>>

\* updateLastStatus, whose failure is only logged.
StoresStatus ==
    /\ twitchPhase = "store"
    /\ \/ /\ last' = <<IF last # <<>> /\ last[1].live /\ found.live
                       THEN [found EXCEPT !.nr = last[1].nr] ELSE found>>
          /\ UNCHANGED <<twitchFaults, again>>
       \/ TwitchFault /\ again' = again \cup (IF BeginsUnstored THEN {found.nr} ELSE {})
          /\ UNCHANGED last
    /\ EndRound
    /\ UNCHANGED <<live, title, broadcast, dispVars, watchVars, hearVars, missed>>

-----------------------------------------------------------------------------
(* DefaultDispatch *)

Takes(d) ==
    /\ dispatch[d] = Free /\ twitchChan # <<>>
    /\ twitchChan' = Tail(twitchChan)
    /\ dispatch' = [dispatch EXCEPT ![d] = IF streamWatchers = {} THEN Free
                                           ELSE [event |-> Head(twitchChan), to |-> streamWatchers]]
    /\ UNCHANGED <<streamVars, last, twitchRoundVars, watchVars, hearVars, again, missed>>

\* notifyChan <- n, for one group.
Delivers(d) ==
    /\ \E g \in dispatch[d].to :
          LET event == dispatch[d].event
              rest == dispatch[d].to \ {g} IN
          /\ dispatch' = [dispatch EXCEPT ![d] = IF rest = {} THEN Free
                                                 ELSE [event |-> event, to |-> rest]]
          /\ heard' = IF event.kind = "on" THEN [heard EXCEPT ![g][event.nr] = @ + 1] ELSE heard
    /\ UNCHANGED <<streamVars, last, twitchRoundVars, twitchChan, watchVars, hinted, again, missed>>

-----------------------------------------------------------------------------
(* Add and Remove *)

\* AddGroupConcern
AddsStream(g) ==
    /\ g \notin streamWatchers /\ streamAdding[g] = "no"
    /\ streamWatchers' = streamWatchers \cup {g}
    /\ streamAdding' = [streamAdding EXCEPT ![g] = "ask"]
    /\ heard' = [heard EXCEPT ![g] = NeverHeard] /\ hinted' = hinted \ {g}
    /\ UNCHANGED <<streamVars, last, twitchRoundVars, dispVars, watch, again, missed>>

\* GetStreamByLogin, in Add and again in GroupWatchNotify: is the user live?
AddAsks(g) ==
    /\ streamAdding[g] \in {"ask", "ask again"}
    /\ \/ /\ streamAdding' = [streamAdding EXCEPT ![g] = IF ~live THEN "no"
                                             ELSE IF @ = "ask" THEN "ask again" ELSE "tell"]
          /\ watch' = IF streamAdding'[g] = "tell" THEN watch \cup {g} ELSE watch
          /\ UNCHANGED <<twitchFaults, missed>>
       \/ /\ TwitchFault /\ streamAdding' = [streamAdding EXCEPT ![g] = "no"]
          /\ missed' = missed \cup {g} /\ UNCHANGED watch
    /\ UNCHANGED <<live, title, broadcast, last, twitchRoundVars, dispVars, streamWatchers, hearVars, again>>

\* GroupWatchNotify: notifyChan <- notify
AddTells(g) ==
    /\ streamAdding[g] = "tell"
    /\ streamAdding' = [streamAdding EXCEPT ![g] = "no"] /\ watch' = watch \ {g}
    /\ hinted' = hinted \cup (watch \cap {g})
    /\ UNCHANGED <<streamVars, last, twitchRoundVars, dispVars, streamWatchers, heard, again, missed>>

RemovesStream(g) ==
    /\ g \in streamWatchers /\ streamAdding[g] = "no"
    /\ streamWatchers' = streamWatchers \ {g}
    /\ UNCHANGED <<streamVars, last, twitchRoundVars, dispVars, streamAdding, watch, hearVars, again, missed>>

-----------------------------------------------------------------------------
Streams == GoesLive \/ GoesOff \/ Retitles \/ TwitchRestarts

TwitchRound ==
    \/ Lists \/ FetchesStreams \/ ComparesFirst \/ ComparesSame \/ ComparesTitle \/ ComparesChanged
    \/ EmitsStatus \/ StoresStatus

Dispatch(d) == Takes(d) \/ Delivers(d)

AddWork(g) == AddAsks(g) \/ AddTells(g)

TwitchNext ==
    \/ Streams \/ TwitchRound
    \/ \E d \in Dispatchers : Dispatch(d)
    \/ \E g \in StreamGroups : AddsStream(g) \/ AddWork(g) \/ RemovesStream(g)

\* Rounds follow one another, the dispatchers run, a command that runs ends.  Commands
\* and broadcasts need never come.
TwitchFairness ==
    /\ WF_twitchVars(TwitchRound)
    /\ \A d \in Dispatchers : WF_twitchVars(Dispatch(d))
    /\ \A g \in StreamGroups : WF_twitchVars(AddWork(g))

TwitchSpec == TwitchInit /\ [][TwitchNext]_twitchVars /\ TwitchFairness

-----------------------------------------------------------------------------
(* Properties *)

Statuses == [live : BOOLEAN, title : Titles \cup {""}, nr : 0..MaxBroadcasts]
LiveEvents == [kind : {"none", "on", "over", "title"}, nr : 0..MaxBroadcasts]

\* Every variable stays in its range.
TwitchTypeOK ==
    /\ live \in BOOLEAN /\ title \in Titles \cup {""}
    /\ broadcast \in 0..MaxBroadcasts /\ twitchFaults \in 0..MaxTwitchFaults
    /\ streamWatchers \subseteq StreamGroups
    /\ last \in {<<>>} \cup {<<s>> : s \in Statuses}
    /\ freshCount \in 0..AllSent
    /\ twitchPhase \in {"idle", "fetch", "compare", "emit", "store"} /\ found \in Statuses
    /\ twitchChan \in Seq(LiveEvents) /\ Len(twitchChan) <= TwitchCap
    /\ dispatch \in [Dispatchers -> [event : LiveEvents, to : SUBSET StreamGroups]]
    /\ streamAdding \in [StreamGroups -> {"no", "ask", "ask again", "tell"}]
    /\ watch \subseteq StreamGroups /\ hinted \subseteq StreamGroups /\ missed \subseteq StreamGroups
    /\ heard \in [StreamGroups -> [Broadcasts -> Nat]]
    /\ again \subseteq Broadcasts

\* The rounds tell no group twice that one broadcast has begun, unless they could not
\* store that they had, or the process ended before they did.
ToldOnce ==
    \A g \in StreamGroups : \A n \in Broadcasts \ again : heard[g][n] <= 1

\* A request that fails ends no broadcast: the end that is told is one of a broadcast
\* that is over.
NoFalseEnd ==
    \A e \in Queued : e.kind = "over" => e.nr < broadcast \/ ~live

\* The rounds tell of a broadcast once, and of its end when it has ended.
StreamsToldTrue == ToldOnce /\ NoFalseEnd

\* A broadcast that lasts is reported to each group that watches, by the rounds or by
\* Add, unless it was taken for the one before, held back by onlyOnlineNotify, or lost
\* with the process or a failed request of Add.
LiveIsReported ==
    \A g \in StreamGroups :
        <>[](live /\ g \in streamWatchers) =>
            <>[](\/ g \in hinted \cup missed
                 \/ \E n \in Broadcasts : n = broadcast /\ heard[g][n] > 0)
=============================================================================
