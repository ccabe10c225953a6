------------------------------- MODULE Dynamics -------------------------------
(***************************************************************************)
(* Bilibili's dynamics of one user (lsp/bilibili): every round fetches the  *)
(* feed of all the accounts the bot follows and marks what it has seen, so  *)
(* that a dynamic is pushed at most once; a group that was pushed a video   *)
(* or an origin already is sent later dynamics about it in a short form     *)
(* that quotes the first message.  Commands start and stop watching at any  *)
(* moment; the account follows the user all the time.                       *)
(*                                                                         *)
(* A dynamic is its place in the order in which they are published, which   *)
(* also stands for its timestamp.  Marks, which expire after 120 hours, and *)
(* the compact marks and messages, after one, outlive a behaviour here.     *)
(***************************************************************************)
EXTENDS Naturals, Sequences, SequencesExt

CONSTANTS
    NewsGroups,      \* groups that may watch the user
    FeedSize,        \* bound: dynamics on the page of the feed that is fetched
    MaxCards,        \* the 3 beyond which freshDynamicNew cuts
    MaxPosts,        \* bound: dynamics published
    MaxDynamicFaults \* bound: failures, restarts and departures of groups

ASSUME DynamicsAssumption ==
    FeedSize \in Nat /\ MaxCards \in Nat /\ MaxPosts \in Nat /\ MaxDynamicFaults \in Nat

VARIABLES
    posts,              \* the dynamics: what each is about, and whether it is of a kind that
                        \* is made compact (a video, a forward)
    dynamicFaults,
    onlyOnline,         \* bilibili.onlyOnlineNotify
    startTs,            \* cacheStartTs: the first dynamic since the start
    followers,          \* groups with a subscription for News
    firstTs,            \* UidFirstTimestamp: <<>>, or the first dynamic that is not too old
    known,              \* the database has the user's UserInfo
    marked,             \* DynamicIdKey: the dynamics seen
    fresh, page, cards, \* the round: what is still to filter, what has passed
    newsChan,           \* the NewsInfo on its way: <<>>, or one sequence of cards
    inbox,              \* inbox[g]: the dynamics to notify g of
    sendingNews,        \* messages being sent
    compacted,          \* CompactMarkKey
    notifyMsg,          \* NotifyMsgKey
    addingNews,         \* addingNews[g]: where Add for g is
    toldNews,           \* history: toldNews[g][p]: the forms in which g got dynamic p
    since,              \* history: since[g]: how many dynamics there were when g began to watch
    lost                \* history: what was cut, too long ago for the page, or lost with the
                        \* process, to all or (<<g, p>>) to one group

postVars  == <<posts, dynamicFaults, onlyOnline>>
dbVars    == <<followers, firstTs, known>>
feedVars  == <<fresh, page, cards, newsChan>>
sendVars  == <<inbox, sendingNews, compacted, notifyMsg>>
toldVars  == <<toldNews, since>>
dynamicVars == <<postVars, startTs, dbVars, marked, feedVars, sendVars, addingNews, toldVars, lost>>

Posts == 1..MaxPosts
Everyone == NewsGroups \X Posts
ToAll(P) == NewsGroups \X P
Message(g, p, form) == [group |-> g, post |-> p, form |-> form]
Key(p) == posts[p].key
NeverTold == [p \in Posts |-> <<>>]

DynamicsInit ==
    /\ posts = <<>> /\ dynamicFaults = 0 /\ onlyOnline \in BOOLEAN /\ startTs = 1
    /\ followers = {} /\ firstTs = <<>> /\ known = FALSE /\ marked = {}
    /\ fresh = "idle" /\ page = <<>> /\ cards = <<>> /\ newsChan = <<>>
    /\ inbox = [g \in NewsGroups |-> <<>>] /\ sendingNews = {}
    /\ compacted = {} /\ notifyMsg = {}
    /\ addingNews = [g \in NewsGroups |-> "no"]
    /\ toldNews = [g \in NewsGroups |-> NeverTold] /\ since = [g \in NewsGroups |-> 0] /\ lost = {}

DynamicsFault == dynamicFaults < MaxDynamicFaults /\ dynamicFaults' = dynamicFaults + 1

-----------------------------------------------------------------------------
(* The user, the bot and the process *)

\* A dynamic of its own, or about what an earlier one is about.
Publishes ==
    LET n == Len(posts) + 1 IN
    /\ n <= MaxPosts
    /\ \E key \in 1..n, compacts \in BOOLEAN :
          /\ key = n \/ (compacts /\ \E p \in 1..(n - 1) : Key(p) = key)
          /\ posts' = Append(posts, [key |-> key, compacts |-> compacts])
    /\ UNCHANGED <<dynamicFaults, onlyOnline, startTs, dbVars, marked, feedVars,
                   sendVars, addingNews, toldVars, lost>>

\* The bot has come online: what is older is not pushed with bilibili.onlyOnlineNotify.
ComesOnline ==
    /\ DynamicsFault /\ onlyOnline
    /\ startTs' = Len(posts) + 1
    /\ UNCHANGED <<posts, onlyOnline, dbVars, marked, feedVars, sendVars,
                   addingNews, toldVars, lost>>

\* The process restarts: the database is left, what is on its way is lost.
DynamicsRestart ==
    /\ DynamicsFault
    /\ startTs' = Len(posts) + 1
    /\ fresh' = "idle" /\ page' = <<>> /\ cards' = <<>> /\ newsChan' = <<>>
    /\ inbox' = [g \in NewsGroups |-> <<>>] /\ sendingNews' = {}
    /\ addingNews' = [g \in NewsGroups |-> "no"]
    /\ lost' = lost \cup ToAll(Range(cards)) \cup ToAll(Range(newsChan))
                    \cup {w \in Everyone : w[2] \in Range(inbox[w[1]])}
                    \cup {<<m.group, m.post>> : m \in sendingNews}
    /\ UNCHANGED <<posts, onlyOnline, dbVars, marked, compacted, notifyMsg,
                   toldVars>>

-----------------------------------------------------------------------------
(* freshDynamicNew *)

Smaller(a, b) == IF a < b THEN a ELSE b

\* The newest FeedSize dynamics, newest first.
Feed == [i \in 1..Smaller(Len(posts), FeedSize) |-> Len(posts) + 1 - i]

\* WebDynamicFeedAll; a page with nothing new, and a request that fails, change nothing.
FetchesFeed ==
    /\ fresh = "idle" /\ posts # <<>> /\ ~(Range(Feed) \subseteq marked)
    /\ fresh' = "filter" /\ page' = Feed
    /\ lost' = lost \cup ToAll(1..Len(posts) \ (Range(Feed) \cup marked))
    /\ UNCHANGED <<postVars, startTs, dbVars, marked, cards, newsChan,
                   sendVars, addingNews, toldVars>>

\* The timestamp of p is below tsLimit.
TooOld(p) ==
    IF onlyOnline THEN p < startTs ELSE firstTs # <<>> /\ p < firstTs[1]

\* filterCard: MarkDynamicId, and only then the timestamp; a card that cannot be marked
\* is left for the next round.
FilterCard ==
    /\ fresh = "filter" /\ page # <<>>
    /\ LET p == Head(page) IN
          \/ /\ marked' = marked \cup {p}
             /\ cards' = IF p \in marked \/ TooOld(p) THEN cards ELSE Append(cards, p)
             /\ lost' = IF TooOld(p) THEN lost \cup ToAll({p} \ marked) ELSE lost
             /\ UNCHANGED dynamicFaults
          \/ DynamicsFault /\ UNCHANGED <<marked, cards, lost>>
    /\ page' = Tail(page)
    /\ UNCHANGED <<posts, onlyOnline, startTs, dbVars, fresh, newsChan,
                   sendVars, addingNews, toldVars>>

\* GetUserInfo, the cut, and eventChan <- news.
Collects ==
    /\ fresh = "filter" /\ page = <<>> /\ newsChan = <<>>
    /\ fresh' = "idle" /\ cards' = <<>>
    /\ newsChan' =
          IF known THEN SubSeq(cards, 1, Smaller(Len(cards), MaxCards)) ELSE <<>>
    /\ lost' = lost \cup ToAll(Range(cards) \ Range(newsChan'))
    /\ UNCHANGED <<postVars, startTs, dbVars, marked, page, sendVars, addingNews,
                   toldVars>>

\* Mutant of Dispatches: a group with notifies on their way is passed over.
DispatchesIfFree ==
    /\ newsChan # <<>> /\ newsChan' = <<>>
    /\ inbox' = [g \in NewsGroups |->
          IF g \in followers /\ inbox[g] = <<>> THEN newsChan ELSE inbox[g]]
    /\ UNCHANGED <<postVars, startTs, dbVars, marked, fresh, page, cards,
                   sendingNews, compacted, notifyMsg, addingNews, toldVars, lost>>

\* DefaultDispatch: every group that watches gets a notify for each card.
Dispatches ==
    /\ newsChan # <<>> /\ newsChan' = <<>>
    /\ inbox' = [g \in NewsGroups |->
          IF g \in followers THEN inbox[g] \o newsChan ELSE inbox[g]]
    /\ UNCHANGED <<postVars, startTs, dbVars, marked, fresh, page, cards,
                   sendingNews, compacted, notifyMsg, addingNews, toldVars, lost>>

-----------------------------------------------------------------------------
(* ConcernNotify *)

\* Mutant of Form: whatever was marked is quoted.
FormQuotes(g, p) ==
    IF ~posts[p].compacts \/ <<g, Key(p)>> \notin compacted THEN "full" ELSE "quote"

\* NotifyBeforeCallback and ToMessage: is p the first about its key in g?
Form(g, p) ==
    IF ~posts[p].compacts \/ <<g, Key(p)>> \notin compacted THEN "full"
    ELSE IF <<g, Key(p)>> \in notifyMsg THEN "quote" ELSE "bare"

\* The compact mark is set, and the message goes to a goroutine, unless the message is
\* empty or none becomes free in a minute.
Prepares(g) ==
    /\ inbox[g] # <<>>
    /\ inbox' = [inbox EXCEPT ![g] = Tail(@)]
    /\ LET p == Head(inbox[g]) IN
          /\ compacted' = compacted \cup {<<g, Key(p)>>}
          /\ \/ /\ sendingNews' = sendingNews \cup {Message(g, p, Form(g, p))}
                /\ UNCHANGED <<dynamicFaults, lost>>
             \/ DynamicsFault /\ lost' = lost \cup {<<g, p>>} /\ UNCHANGED sendingNews
    /\ UNCHANGED <<posts, onlyOnline, startTs, dbVars, marked, feedVars,
                   notifyMsg, addingNews, toldVars>>

\* SendMsg and NotifyAfterCallback: what was sent in full can be quoted.
Sent(m) ==
    /\ m \in sendingNews /\ sendingNews' = sendingNews \ {m}
    /\ \/ /\ toldNews' = [toldNews EXCEPT ![m.group][m.post] = Append(@, m.form)]
          /\ notifyMsg' = notifyMsg \cup
                (IF m.form = "full" THEN {<<m.group, Key(m.post)>>} ELSE {})
          /\ UNCHANGED <<dynamicFaults, lost>>
       \/ /\ DynamicsFault /\ lost' = lost \cup {<<m.group, m.post>>}
          /\ UNCHANGED <<toldNews, notifyMsg>>
    /\ UNCHANGED <<posts, onlyOnline, startTs, dbVars, marked, feedVars, inbox,
                   compacted, addingNews, since>>

-----------------------------------------------------------------------------
(* Add, Remove *)

\* AddGroupConcern
AddsFollower(g) ==
    /\ addingNews[g] = "no" /\ g \notin followers
    /\ addingNews' = [addingNews EXCEPT ![g] = "stamp"]
    /\ followers' = followers \cup {g}
    /\ since' = [since EXCEPT ![g] = Len(posts)]
    /\ UNCHANGED <<postVars, startTs, firstTs, known, marked, feedVars,
                   sendVars, toldNews, lost>>

\* SetUidFirstTimestampIfNotExist: what is older than 30 seconds is too old.
AddStamps(g) ==
    /\ addingNews[g] = "stamp"
    /\ addingNews' = [addingNews EXCEPT ![g] = "save"]
    /\ IF firstTs = <<>>
       THEN \E n \in {Len(posts), Len(posts) + 1} : firstTs' = <<n>>
       ELSE UNCHANGED firstTs
    /\ UNCHANGED <<postVars, startTs, followers, known, marked, feedVars,
                   sendVars, toldVars, lost>>

\* AddUserInfo
AddSaves(g) ==
    /\ addingNews[g] = "save"
    /\ addingNews' = [addingNews EXCEPT ![g] = "no"]
    /\ known' = TRUE
    /\ UNCHANGED <<postVars, startTs, followers, firstTs, marked, feedVars,
                   sendVars, toldVars, lost>>

\* RemoveGroupConcern
Leaves(g) ==
    /\ DynamicsFault /\ g \in followers /\ addingNews[g] = "no"
    /\ followers' = followers \ {g}
    /\ since' = [since EXCEPT ![g] = 0]
    /\ UNCHANGED <<posts, onlyOnline, startTs, firstTs, known, marked, feedVars,
                   sendVars, addingNews, toldNews, lost>>

-----------------------------------------------------------------------------
FeedRound == FetchesFeed \/ FilterCard \/ Collects
Notify == \/ \E g \in NewsGroups : Prepares(g)
          \/ \E m \in sendingNews : Sent(m)
FollowWork(g) == AddStamps(g) \/ AddSaves(g)

DynamicsNext ==
    \/ Publishes \/ ComesOnline \/ DynamicsRestart
    \/ FeedRound \/ Dispatches \/ Notify
    \/ \E g \in NewsGroups : AddsFollower(g) \/ FollowWork(g) \/ Leaves(g)

\* The rounds, the dispatcher, the consumer and its goroutines run; a
\* command that has begun ends.
DynamicsFairness ==
    /\ WF_dynamicVars(FeedRound) /\ WF_dynamicVars(Dispatches) /\ WF_dynamicVars(Notify)
    /\ \A g \in NewsGroups : WF_dynamicVars(FollowWork(g))

DynamicsSpec == DynamicsInit /\ [][DynamicsNext]_dynamicVars /\ DynamicsFairness

-----------------------------------------------------------------------------
(* Properties *)

Forms == {"full", "quote", "bare"}

\* Every variable stays in its range.
DynamicsTypeOK ==
    /\ posts \in Seq([key : Posts, compacts : BOOLEAN]) /\ Len(posts) <= MaxPosts
    /\ dynamicFaults \in 0..MaxDynamicFaults /\ onlyOnline \in BOOLEAN /\ startTs \in 1..(MaxPosts + 1)
    /\ followers \subseteq NewsGroups /\ firstTs \in {<<>>} \cup {<<n>> : n \in 0..(MaxPosts + 1)}
    /\ known \in BOOLEAN /\ marked \subseteq Posts
    /\ fresh \in {"idle", "filter"} /\ page \in Seq(Posts) /\ cards \in Seq(Posts)
    /\ newsChan \in Seq(Posts) /\ Len(newsChan) <= MaxCards
    /\ inbox \in [NewsGroups -> Seq(Posts)]
    /\ sendingNews \subseteq [group : NewsGroups, post : Posts, form : Forms]
    /\ compacted \subseteq NewsGroups \X Posts /\ notifyMsg \subseteq compacted
    /\ addingNews \in [NewsGroups -> {"no", "stamp", "save"}]
    /\ toldNews \in [NewsGroups -> [Posts -> Seq(Forms)]]
    /\ since \in [NewsGroups -> 0..MaxPosts] /\ lost \subseteq Everyone

\* No group gets a dynamic twice, whatever fails and however often the process restarts.
PushedOnce == \A g \in NewsGroups, p \in Posts : Len(toldNews[g][p]) <= 1

\* g has got dynamic p in full, or is getting it.
Full(g, p) == toldNews[g][p] = <<"full">> \/ Message(g, p, "full") \in sendingNews

\* Joint videos and forwards do not flood a group: of those about one thing only one
\* comes in full.
FullOnce ==
    \A g \in NewsGroups : \A p, q \in 1..Len(posts) :
        p # q /\ posts[p].compacts /\ posts[q].compacts /\ Key(p) = Key(q) =>
            ~(Full(g, p) /\ Full(g, q))

\* What is cut short has been shown: a short form comes only where the full one has been
\* sent, is being sent, or was lost on its way; and it quotes only what was sent.
ShownBefore ==
    \A g \in NewsGroups : \A p \in 1..Len(posts) :
        LET Alike == {q \in 1..Len(posts) : Key(q) = Key(p)} IN
        /\ toldNews[g][p] \in {<<"bare">>, <<"quote">>} =>
              \E q \in Alike : Full(g, q) \/ <<g, q>> \in lost
        /\ toldNews[g][p] = <<"quote">> => \E q \in Alike : toldNews[g][q] = <<"full">>

\* No group gets a dynamic twice, nor two in full about one thing, nor a short form of
\* what it was not shown.
DynamicsShownOnce == PushedOnce /\ FullOnce /\ ShownBefore

\* A dynamic published while a group watches the user reaches it, unless it was cut, too
\* many came at once, UserInfo was missing, or the process or the message was lost.
DynamicIsPushed ==
    \A g \in NewsGroups :
        <>[](g \in followers) =>
            <>[](\A p \in (since[g] + 1)..Len(posts) :
                     toldNews[g][p] # <<>> \/ <<g, p>> \in lost)
=============================================================================
