------------------------------ MODULE SeriesFeed ------------------------------
(***************************************************************************)
(* Bilibili's subscription of one series of archives (lsp/bilibili): every  *)
(* round fetches the first page of the series and pushes the archives       *)
(* beyond LastAid, which the database keeps (freshSeries); subscribing      *)
(* sets LastAid to the newest archive (addSeries), and the last group to    *)
(* unsubscribe deletes it (removeSeries).  Commands and rounds run at once. *)
(*                                                                         *)
(* An archive is its place in the order in which the series got them; its   *)
(* aid is Aids[i].  What follows the dispatcher is in NotifyPipeline.       *)
(***************************************************************************)
EXTENDS Naturals, Sequences, SequencesExt

CONSTANTS
    SeriesGroups, \* groups that may subscribe
    Aids,         \* the aids, in the order in which the series gets its archives
    PageSize,     \* SeriesArchivesPageSize
    Unsub,        \* bilibili.unsub
    SeriesCap,    \* capacity of eventChan
    MaxCommands,  \* bound: subscribing and unsubscribing
    MaxFaults     \* bound: failed requests and writes, restarts

ASSUME SeriesFeedAssumption ==
    /\ Aids \in Seq(Nat \ {0}) /\ PageSize \in Nat /\ SeriesCap \in Nat
    /\ MaxCommands \in Nat /\ MaxFaults \in Nat

VARIABLES
    published, \* how many archives the series has
    faults, commands,
    watchers,  \* groups with a subscription for Series
    info,      \* SeriesInfoKey: <<>>, or <<LastAid>>
    phase,     \* where freshSeries is
    page,      \* how many archives the series had when its page was fetched
    unpushed,  \* the archives the round has to push
    seriesChan,
    adding,    \* adding[g]: where addSeries for g is
    base,      \* base[g]: the baseline addSeries for g has fetched
    removing,  \* removing[g]: where removeSeries for g is, after the row is gone
    since,     \* history: since[g]: how many archives there were when g subscribed
    early,     \* history: early[g]: what rounds were about to push when g subscribed
    pushed,    \* history: pushed[g][i]: how often g was told of archive i
    passed,    \* history: archives a restart, a page too short or another's
               \* baseline has passed over
    reached,   \* history: archives that LastAid has been at or beyond
    rewound    \* history: archives that LastAid was put back before

worldVars == <<published, faults, commands>>
roundVars == <<phase, page, unpushed>>
callVars  == <<adding, base, removing>>
toldVars  == <<since, early, pushed>>
pastVars  == <<passed, reached, rewound>>
seriesVars == <<worldVars, watchers, info, roundVars, seriesChan, callVars, toldVars, pastVars>>

Archives == 1..Len(Aids)
NeverTold == [i \in Archives |-> 0]

SeriesInit ==
    /\ published = 0 /\ faults = 0 /\ commands = 0 /\ watchers = {} /\ info = <<>>
    /\ phase = "idle" /\ page = 0 /\ unpushed = {} /\ seriesChan = <<>>
    /\ adding = [g \in SeriesGroups |-> "no"] /\ removing = [g \in SeriesGroups |-> "no"]
    /\ base = [g \in SeriesGroups |-> 0] /\ since = [g \in SeriesGroups |-> 0]
    /\ early = [g \in SeriesGroups |-> {}] /\ pushed = [g \in SeriesGroups |-> NeverTold]
    /\ passed = {} /\ reached = {} /\ rewound = {}

Fault == faults < MaxFaults /\ faults' = faults + 1

\* The archives of the page fetched when there were n.
OnPage(n) == {i \in 1..n : i + PageSize > n}

\* Those beyond last, which are pushed in the order of their aids.
NewSeriesArchives(n, last) == {i \in OnPage(n) : Aids[i] > last}

\* The last of some archives, in that order.
LastOf(S) == {i \in S : \A j \in S : Aids[j] <= Aids[i]}

Newest(n) == IF n = 0 THEN 0 ELSE Aids[n]

-----------------------------------------------------------------------------
Publishes ==
    /\ published < Len(Aids) /\ published' = published + 1
    /\ UNCHANGED <<faults, commands, watchers, info, roundVars, seriesChan,
                   callVars, toldVars, pastVars>>

\* The process restarts: the database is left.
Restarts ==
    /\ Fault
    /\ phase' = "idle" /\ page' = 0 /\ unpushed' = {} /\ seriesChan' = <<>>
    /\ adding' = [g \in SeriesGroups |-> "no"] /\ removing' = [g \in SeriesGroups |-> "no"]
    /\ base' = [g \in SeriesGroups |-> 0]
    /\ passed' = passed \cup Range(seriesChan)
                      \cup (IF phase = "emit" THEN unpushed ELSE {})
    /\ UNCHANGED <<published, commands, watchers, info, toldVars, reached, rewound>>

-----------------------------------------------------------------------------
(* freshSeries *)

\* ListConcernState and GetSeriesArchives; a request that fails ends the round here.
Fetches ==
    /\ phase = "idle" /\ watchers # {} /\ published > 0
    /\ phase' = "compare" /\ page' = published
    /\ UNCHANGED <<worldVars, watchers, info, unpushed, seriesChan, callVars,
                   toldVars, pastVars>>

\* GetSeriesInfo finds nothing: the newest archive is to be the baseline.
FindsNone ==
    /\ phase = "compare" /\ info = <<>> /\ phase' = "baseline"
    /\ UNCHANGED <<worldVars, watchers, info, page, unpushed, seriesChan, callVars,
                   toldVars, pastVars>>

\* AddSeriesInfo, by rounds and commands alike, whatever is stored; what an earlier
\* LastAid had reached, and those of seen, come again if they are beyond a.
StoresAid(a, seen) ==
    LET beyond == {i \in 1..published : Aids[i] > a} IN
    /\ info' = <<a>>
    /\ rewound' = rewound \cup (beyond \cap (reached \cup seen))
    /\ reached' = reached \cup (1..published \ beyond)

SetsBaseline ==
    /\ phase = "baseline" /\ phase' = "idle" /\ page' = 0
    /\ \/ /\ StoresAid(Newest(page), {})
          /\ passed' = passed \cup 1..page /\ UNCHANGED faults
       \/ Fault /\ UNCHANGED <<info, pastVars>>
    /\ UNCHANGED <<published, commands, watchers, unpushed, seriesChan, callVars,
                   toldVars>>

\* Mutant of Compares: only the newest archive is pushed.
ComparesNewest ==
    /\ phase = "compare" /\ info # <<>>
    /\ LET new == NewSeriesArchives(page, info[1]) IN
          /\ phase' = IF new = {} THEN "idle" ELSE "store"
          /\ page' = IF new = {} THEN 0 ELSE page
          /\ unpushed' = LastOf(new)
    /\ UNCHANGED <<worldVars, watchers, info, seriesChan, callVars, toldVars,
                   pastVars>>

Compares ==
    /\ phase = "compare" /\ info # <<>>
    /\ LET new == NewSeriesArchives(page, info[1]) IN
          /\ phase' = IF new = {} THEN "idle" ELSE "store"
          /\ page' = IF new = {} THEN 0 ELSE page
          /\ unpushed' = new
    /\ UNCHANGED <<worldVars, watchers, info, seriesChan, callVars, toldVars,
                   pastVars>>

\* Mutant of Stores: a write that fails does not keep the archives from being pushed.
StoresOrNot ==
    /\ phase = "store" /\ phase' = "emit" /\ page' = 0
    /\ \/ (\E i \in LastOf(unpushed) : StoresAid(Aids[i], {})) /\ UNCHANGED faults
       \/ Fault /\ UNCHANGED <<info, reached, rewound>>
    /\ passed' = passed \cup (1..page \ OnPage(page))
    /\ UNCHANGED <<published, commands, watchers, unpushed, seriesChan, callVars,
                   toldVars>>

\* LastAid moves before anything is pushed, and nothing is if that fails.
Stores ==
    /\ phase = "store" /\ page' = 0
    /\ \/ /\ (\E i \in LastOf(unpushed) : StoresAid(Aids[i], {})) /\ phase' = "emit"
          /\ passed' = passed \cup (1..page \ OnPage(page))
          /\ UNCHANGED <<faults, unpushed>>
       \/ /\ Fault /\ phase' = "idle" /\ unpushed' = {}
          /\ UNCHANGED <<info, pastVars>>
    /\ UNCHANGED <<published, commands, watchers, seriesChan, callVars, toldVars>>

\* eventChan <- series
Emits ==
    /\ phase = "emit" /\ Len(seriesChan) < SeriesCap
    /\ \E i \in unpushed :
          /\ \A j \in unpushed : Aids[i] <= Aids[j]
          /\ seriesChan' = Append(seriesChan, i)
          /\ unpushed' = unpushed \ {i}
    /\ phase' = IF unpushed' = {} THEN "idle" ELSE "emit"
    /\ UNCHANGED <<worldVars, watchers, info, page, callVars, toldVars, pastVars>>

\* DefaultDispatch: every group that watches the series is told.
Dispatches ==
    /\ seriesChan # <<>>
    /\ seriesChan' = Tail(seriesChan)
    /\ pushed' = [g \in SeriesGroups |-> IF g \in watchers
                                   THEN [pushed[g] EXCEPT ![Head(seriesChan)] = @ + 1]
                                   ELSE pushed[g]]
    /\ UNCHANGED <<worldVars, watchers, info, roundVars, callVars, since, early,
                   pastVars>>

-----------------------------------------------------------------------------
(* addSeries *)

\* CheckGroupConcern, GetSeriesMeta, GetSeriesArchives: the baseline is the newest
\* archive, or 0 if there is none or the request fails.
AddFetches(g) ==
    /\ adding[g] = "no" /\ removing[g] = "no" /\ g \notin watchers
    /\ commands < MaxCommands /\ commands' = commands + 1
    /\ adding' = [adding EXCEPT ![g] = "store"]
    /\ \/ base' = [base EXCEPT ![g] = Newest(published)] /\ UNCHANGED faults
       \/ Fault /\ base' = [base EXCEPT ![g] = 0]
    /\ since' = [since EXCEPT ![g] = published]
    /\ UNCHANGED <<published, watchers, info, roundVars, seriesChan, removing,
                   early, pushed, pastVars>>

\* Over the LastAid another group's subscription may have, too.
AddStores(g) ==
    /\ adding[g] = "store"
    /\ \/ /\ adding' = [adding EXCEPT ![g] = "insert"]
          /\ StoresAid(base[g], 1..since[g])
          /\ passed' = passed \cup {i \in 1..published : Aids[i] <= base[g]}
          /\ UNCHANGED faults
       \/ Fault /\ adding' = [adding EXCEPT ![g] = "no"] /\ UNCHANGED <<info, pastVars>>
    /\ UNCHANGED <<published, commands, watchers, roundVars, seriesChan, base,
                   removing, toldVars>>

\* What a round has found and not yet pushed.
OnTheWay == Range(seriesChan) \cup unpushed

\* AddGroupConcern
AddInserts(g) ==
    /\ adding[g] = "insert" /\ base' = [base EXCEPT ![g] = 0]
    /\ adding' = [adding EXCEPT ![g] = "no"]
    /\ \/ watchers' = watchers \cup {g} /\ UNCHANGED faults
       \/ Fault /\ UNCHANGED watchers
    /\ early' = [early EXCEPT ![g] = OnTheWay \cup (since[g] + 1)..published]
    /\ since' = [since EXCEPT ![g] = published]
    /\ UNCHANGED <<published, commands, info, roundVars, seriesChan, removing,
                   pushed, pastVars>>

-----------------------------------------------------------------------------
(* removeSeries, and RemoveAllByGroupCode with bilibili.unsub *)

\* RemoveGroupConcern; RemoveAllByGroupCode leaves LastAid alone without bilibili.unsub.
RemoveSeries(g) ==
    /\ g \in watchers /\ adding[g] = "no" /\ removing[g] = "no"
    /\ commands < MaxCommands /\ commands' = commands + 1
    /\ watchers' = watchers \ {g}
    /\ \/ removing' = [removing EXCEPT ![g] = "check"]
       \/ ~Unsub /\ UNCHANGED removing
    /\ since' = [since EXCEPT ![g] = 0] /\ early' = [early EXCEPT ![g] = {}]
    /\ pushed' = [pushed EXCEPT ![g] = NeverTold]
    /\ UNCHANGED <<published, faults, info, roundVars, seriesChan, adding, base,
                   pastVars>>

\* GetConcern: does another group watch the series?
RemoveChecks(g) ==
    /\ removing[g] = "check"
    /\ removing' = [removing EXCEPT ![g] = IF watchers = {} THEN "delete" ELSE "no"]
    /\ UNCHANGED <<worldVars, watchers, info, roundVars, seriesChan, adding, base,
                   toldVars, pastVars>>

\* DeleteSeriesInfo
RemoveDeletes(g) ==
    /\ removing[g] = "delete"
    /\ removing' = [removing EXCEPT ![g] = "no"]
    /\ info' = <<>>
    /\ UNCHANGED <<worldVars, watchers, roundVars, seriesChan, adding, base,
                   toldVars, pastVars>>

-----------------------------------------------------------------------------
Round == Fetches \/ FindsNone \/ SetsBaseline \/ Compares \/ Stores \/ Emits
Command(g) == AddStores(g) \/ AddInserts(g) \/ RemoveChecks(g) \/ RemoveDeletes(g)

SeriesNext ==
    \/ Publishes \/ Restarts
    \/ Round \/ Dispatches
    \/ \E g \in SeriesGroups : AddFetches(g) \/ RemoveSeries(g) \/ Command(g)

\* The rounds and the dispatcher run, and a command that has begun ends.
SeriesFairness ==
    /\ WF_seriesVars(Round) /\ WF_seriesVars(Dispatches)
    /\ \A g \in SeriesGroups : WF_seriesVars(Command(g))

SeriesSpec == SeriesInit /\ [][SeriesNext]_seriesVars /\ SeriesFairness

-----------------------------------------------------------------------------
(* Properties *)

\* Every variable stays in its range, and a round that is pushing has what to push.
SeriesTypeOK ==
    /\ published \in 0..Len(Aids) /\ faults \in 0..MaxFaults /\ commands \in 0..MaxCommands
    /\ watchers \subseteq SeriesGroups
    /\ info \in {<<>>} \cup {<<a>> : a \in {0} \cup Range(Aids)}
    /\ phase \in {"idle", "compare", "baseline", "store", "emit"} /\ page \in 0..Len(Aids)
    /\ unpushed \subseteq Archives /\ seriesChan \in Seq(Archives) /\ Len(seriesChan) <= SeriesCap
    /\ (unpushed # {}) = (phase \in {"store", "emit"})
    /\ adding \in [SeriesGroups -> {"no", "store", "insert"}]
    /\ base \in [SeriesGroups -> {0} \cup Range(Aids)]
    /\ removing \in [SeriesGroups -> {"no", "check", "delete"}]
    /\ since \in [SeriesGroups -> 0..Len(Aids)]
    /\ pushed \in [SeriesGroups -> [Archives -> Nat]] /\ early \in [SeriesGroups -> SUBSET Archives]
    /\ passed \subseteq Archives /\ reached \subseteq Archives /\ rewound \subseteq Archives

\* freshSeries prefers to miss a push rather than to repeat one: whatever fails, no group
\* is told twice of an archive, unless LastAid was put back.
PushedOnce == \A g \in SeriesGroups : \A i \in Archives \ rewound : pushed[g][i] <= 1

\* addSeries: only what comes after the subscription is pushed, and what a round was
\* about to push, unless LastAid was put back.
OnlyNew ==
    \A g \in SeriesGroups : \A i \in (1..since[g]) \ (rewound \cup early[g]) : pushed[g][i] = 0

\* No group is told twice of an archive, nor of one the series had before the group
\* subscribed, unless LastAid was put back.
ArchivesNewAndOnce == PushedOnce /\ OnlyNew

\* An archive that comes while a group watches is pushed to it, unless the process
\* restarted, the page was too short, or another group's subscription moved LastAid.
NewIsPushed ==
    \A g \in SeriesGroups :
        <>[](g \in watchers) =>
            <>[](\A i \in (since[g] + 1)..published : pushed[g][i] > 0 \/ i \in passed)
=============================================================================
