------------------------------ MODULE WeiboNews ------------------------------
(***************************************************************************)
(* The posts of one Weibo user (lsp/weibo): every round fetches the newest   *)
(* ones, marks them all, and pushes those that were not marked and are not   *)
(* older than NewsInfo.LatestNewsTs.  NewsInfo is stamped by the first Add,  *)
(* moved on by the rounds, and deleted by every Remove, also by one for a    *)
(* group that does not watch the user while others do.                       *)
(*                                                                         *)
(* Times are whole seconds, as in the code: several posts, and a command,    *)
(* can have the same one.  Marks expire after 120 hours, which is longer     *)
(* than a behaviour here.                                                    *)
(***************************************************************************)
EXTENDS Naturals, Sequences, FiniteSets, SequencesExt, FiniteSetsExt

CONSTANTS
    WeiboGroups,  \* groups that may watch the user
    FeedSize,     \* bound: posts in one answer of the API
    MaxPosts,     \* bound: posts published
    MaxTime,      \* bound: seconds
    MaxFaults     \* bound: failures, restarts, departures of groups

ASSUME WeiboNewsAssumption ==
    MaxTime \in Nat \ {0} /\ MaxPosts \in Nat /\ MaxFaults \in Nat

VARIABLES
    now, posts, \* the time, and the times of the posts, oldest first
    faults,
    startTs,    \* what the posts pushed must not be older than with weibo.onlyOnlineNotify
    watchers,   \* groups with a subscription for News
    newsTs,     \* NewsInfo: <<>>, or its LatestNewsTs
    marked,     \* MarkMblogIdKey: the posts seen
    phase, page, \* the round: the answer of the API
    news,       \* and the newsInfo it makes: its LatestNewsTs and cards
    onWay,      \* posts on their way through eventChan
    adding,     \* adding[g]: where Add for g is
    removing,   \* groups whose Remove has still to delete NewsInfo
    told,       \* history: told[g][p]: how often g was told of p
    since,      \* history: since[g]: how many posts there were when g began to watch
    wiped,      \* history: NewsInfo has been deleted by a Remove since it was last stamped
    firstWatch, \* history: when a group was the first to watch, no round being on its way
    lost        \* history: posts that are not pushed

newsWorldVars == <<now, posts>>
roundVars == <<phase, page, news>>
commandVars == <<adding, removing>>
historyVars == <<since, wiped, firstWatch, lost>>
newsVars == <<newsWorldVars, faults, startTs, watchers, newsTs, marked, roundVars, onWay,
          commandVars, told, historyVars>>

Posts == 1..MaxPosts
Published == 1..Len(posts)
NoRound == [ts |-> 0, cards |-> {}]

\* Posts that the next round will take for old if LatestNewsTs becomes t.
Missed(t) == {p \in Published \ marked : posts[p] < t}

NewsInit ==
    /\ now = 1 /\ posts = <<>> /\ faults = 0 /\ startTs = 0
    /\ watchers = {} /\ newsTs = <<>> /\ marked = {}
    /\ phase = "idle" /\ page = {} /\ news = NoRound /\ onWay = {}
    /\ adding = [g \in WeiboGroups |-> "no"] /\ removing = {}
    /\ told = [g \in WeiboGroups |-> [p \in Posts |-> 0]]
    /\ since = [g \in WeiboGroups |-> 0] /\ wiped = FALSE /\ firstWatch = 0 /\ lost = {}

Fault == faults < MaxFaults /\ faults' = faults + 1

-----------------------------------------------------------------------------
(* The user, the clock, the bot and the process *)

Passes ==
    /\ now < MaxTime /\ now' = now + 1
    /\ UNCHANGED <<posts, faults, startTs, watchers, newsTs, marked, roundVars,
                   onWay, commandVars, told, historyVars>>

Publishes ==
    /\ Len(posts) < MaxPosts /\ posts' = Append(posts, now)
    /\ UNCHANGED <<now, faults, startTs, watchers, newsTs, marked, roundVars,
                   onWay, commandVars, told, historyVars>>

\* bot_online, with weibo.onlyOnlineNotify.
ComesOnline ==
    /\ Fault /\ startTs' = now
    /\ UNCHANGED <<newsWorldVars, watchers, newsTs, marked, roundVars, onWay,
                   commandVars, told, historyVars>>

\* The process restarts: the database is left.
Restarts ==
    /\ Fault
    /\ phase' = "idle" /\ page' = {} /\ news' = NoRound /\ onWay' = {}
    /\ adding' = [g \in WeiboGroups |-> "no"] /\ removing' = {}
    /\ lost' = lost \cup news.cards \cup onWay
    /\ UNCHANGED <<newsWorldVars, startTs, watchers, newsTs, marked, told, since,
                   wiped, firstWatch>>

-----------------------------------------------------------------------------
(* freshNews *)

\* ApiContainerGetIndexCards; what is older than the page is not seen.
Fetches ==
    /\ phase = "idle" /\ watchers # {}
    /\ phase' = "filter"
    /\ page' = {p \in Published : p + FeedSize > Len(posts)}
    /\ lost' = lost \cup (Published \ (page' \cup marked))
    /\ UNCHANGED <<newsWorldVars, faults, startTs, watchers, newsTs, marked, news,
                   onWay, commandVars, told, since, wiped, firstWatch>>

\* Mutant of LastTs: without NewsInfo every post counts as new.
LastTsZero == IF newsTs = <<>> THEN 0 ELSE newsTs[1]

\* What is older than this is not new; without NewsInfo, all there is.
LastTs == IF newsTs = <<>> THEN now ELSE newsTs[1]

\* Mutant of IsNew: a post of the same second as the last one is old.
IsNewAfter(p) == posts[p] > LastTs /\ posts[p] >= startTs

IsNew(p) == posts[p] >= LastTs /\ posts[p] >= startTs

\* Mutant of Filters: a marked post is judged by its time.
FiltersByTime ==
    /\ phase = "filter" /\ phase' = "store" /\ page' = {}
    /\ marked' = marked \cup page
    /\ LET cards == {p \in page : IsNew(p)} IN
          news' = [ts |-> Max({LastTs} \cup {posts[p] : p \in cards}), cards |-> cards]
    /\ UNCHANGED <<newsWorldVars, faults, startTs, watchers, newsTs, onWay,
                   commandVars, told, historyVars>>

\* GetNewsInfo, and filterCard for every card: MarkMblogId, and only then the time.  A
\* post that could not be marked is judged again by the next round, unless a newer one
\* has moved LatestNewsTs past it.
Filters ==
    /\ phase = "filter" /\ phase' = "store" /\ page' = {}
    /\ \E unmarked \in {{}} \cup {{p} : p \in page} :
          LET seen  == page \ unmarked
              cards == {p \in seen \ marked : IsNew(p)}
              ts    == Max({LastTs} \cup {posts[p] : p \in cards})
          IN  /\ IF unmarked = {} THEN UNCHANGED faults ELSE Fault
              /\ marked' = marked \cup seen
              /\ news' = [ts |-> ts, cards |-> cards]
              /\ lost' = lost \cup {p \in unmarked : posts[p] < ts}
                     \cup {p \in seen : posts[p] < startTs}
                     \cup (IF newsTs = <<>> /\ wiped THEN Missed(now) ELSE {})
    /\ UNCHANGED <<newsWorldVars, startTs, watchers, newsTs, onWay, commandVars, told,
                   since, wiped, firstWatch>>

\* AddNewsInfo, and the event if there are cards; when it fails they stay marked.
Stores ==
    /\ phase = "store" /\ phase' = "idle" /\ news' = NoRound
    /\ \/ /\ newsTs' = <<news.ts>> /\ onWay' = onWay \cup news.cards
          /\ UNCHANGED <<faults, lost>>
       \/ /\ Fault /\ lost' = lost \cup news.cards
          /\ UNCHANGED <<newsTs, onWay>>
    /\ UNCHANGED <<newsWorldVars, startTs, watchers, marked, page, commandVars, told,
                   since, wiped, firstWatch>>

\* DefaultDispatch and notifyGenerator: every group that watches now.
Dispatches ==
    /\ onWay # {} /\ onWay' = {}
    /\ told' = [g \in WeiboGroups |-> [p \in Posts |->
          IF g \in watchers /\ p \in onWay THEN told[g][p] + 1 ELSE told[g][p]]]
    /\ UNCHANGED <<newsWorldVars, faults, startTs, watchers, newsTs, marked, roundVars,
                   commandVars, historyVars>>

-----------------------------------------------------------------------------
(* Add, Remove *)

\* CheckGroupConcern, GetConcern: only the first group to watch stamps NewsInfo.
AddChecks(g) ==
    /\ adding[g] = "no" /\ g \notin watchers \cup removing
    /\ adding' = [adding EXCEPT ![g] = IF watchers = {} THEN "stamp" ELSE "insert"]
    /\ UNCHANGED <<newsWorldVars, faults, startTs, watchers, newsTs, marked, roundVars,
                   onWay, removing, told, historyVars>>

\* AddNewsInfo, after a request; if it fails, Add does.  Another group may have come to
\* watch since the check.
AddStamps(g) ==
    /\ adding[g] = "stamp"
    /\ \/ /\ adding' = [adding EXCEPT ![g] = "insert"] /\ newsTs' = <<now>>
          /\ wiped' = FALSE
          /\ firstWatch' =
                IF watchers = {} /\ phase = "idle" /\ onWay = {} THEN now ELSE firstWatch
          /\ lost' = IF watchers = {} THEN lost ELSE lost \cup Missed(now)
          /\ UNCHANGED faults
       \/ /\ Fault /\ adding' = [adding EXCEPT ![g] = "no"]
          /\ UNCHANGED <<newsTs, wiped, firstWatch, lost>>
    /\ UNCHANGED <<newsWorldVars, startTs, watchers, marked, roundVars, onWay, removing,
                   told, since>>

\* AddGroupConcern
AddInserts(g) ==
    /\ adding[g] = "insert" /\ adding' = [adding EXCEPT ![g] = "no"]
    /\ watchers' = watchers \cup {g}
    /\ since' = [since EXCEPT ![g] = Len(posts)]
    /\ UNCHANGED <<newsWorldVars, faults, startTs, newsTs, marked, roundVars, onWay,
                   removing, told, wiped, firstWatch, lost>>

\* RemoveGroupConcern, which fails for a group that does not watch: Remove goes on.
RemoveBegins(g) ==
    /\ Fault /\ adding[g] = "no" /\ g \notin removing
    /\ watchers' = watchers \ {g}
    /\ since' = [since EXCEPT ![g] = 0]
    /\ removing' = removing \cup {g}
    /\ UNCHANGED <<newsWorldVars, startTs, newsTs, marked, roundVars, onWay, adding, told,
                   wiped, firstWatch, lost>>

\* RemoveUserInfo, RemoveNewsInfo
RemoveDeletes(g) ==
    /\ g \in removing /\ removing' = removing \ {g}
    /\ newsTs' = <<>> /\ wiped' = TRUE
    /\ UNCHANGED <<newsWorldVars, faults, startTs, watchers, marked, roundVars, onWay, adding,
                   told, since, firstWatch, lost>>

-----------------------------------------------------------------------------
Round == Fetches \/ Filters \/ Stores
Command(g) == AddStamps(g) \/ AddInserts(g) \/ RemoveDeletes(g)

NewsNext ==
    \/ Passes \/ Publishes \/ ComesOnline \/ Restarts
    \/ Round \/ Dispatches
    \/ \E g \in WeiboGroups : AddChecks(g) \/ RemoveBegins(g) \/ Command(g)

NewsFairness ==
    /\ WF_newsVars(Round) /\ WF_newsVars(Dispatches)
    /\ \A g \in WeiboGroups : WF_newsVars(Command(g))

NewsSpec == NewsInit /\ [][NewsNext]_newsVars /\ NewsFairness

-----------------------------------------------------------------------------
(* Properties *)

\* Every variable stays in its range.
NewsTypeOK ==
    /\ now \in 1..MaxTime /\ startTs \in 0..MaxTime /\ faults \in 0..MaxFaults
    /\ posts \in Seq(1..MaxTime) /\ Len(posts) <= MaxPosts
    /\ watchers \subseteq WeiboGroups /\ newsTs \in {<<>>} \cup {<<t>> : t \in 1..MaxTime}
    /\ marked \subseteq Posts /\ phase \in {"idle", "filter", "store"}
    /\ page \subseteq Posts /\ news \in [ts : 0..MaxTime, cards : SUBSET marked]
    /\ onWay \subseteq marked
    /\ adding \in [WeiboGroups -> {"no", "stamp", "insert"}] /\ removing \subseteq WeiboGroups
    /\ told \in [WeiboGroups -> [Posts -> 0..2]] /\ since \in [WeiboGroups -> 0..MaxPosts]
    /\ wiped \in BOOLEAN /\ firstWatch \in 0..MaxTime /\ lost \subseteq Posts

\* No group is told of a post twice, whatever fails, restarts or is removed and added
\* again: MarkMblogId comes before every other test.
NewsOnce == \A g \in WeiboGroups, p \in Posts : told[g][p] <= 1

\* Nobody is told of a post that is older than the second in which the first group came
\* to watch (LatestNewsTs is stamped for that), although NewsInfo may be deleted since.
OnlyNewPosts ==
    [][\A g \in WeiboGroups, p \in Posts :
          told'[g][p] > told[g][p] => posts[p] >= firstWatch]_newsVars

\* A post published while a group watches the user reaches it, unless the page was too
\* short for it, it is older than the start, a write to the database failed, the process
\* restarted, or a command stamped or deleted NewsInfo at the wrong moment.
PostIsPushed ==
    \A g \in WeiboGroups :
        <>[](g \in watchers) =>
            <>[](\A p \in (since[g] + 1)..Len(posts) : told[g][p] > 0 \/ p \in lost)
=============================================================================
