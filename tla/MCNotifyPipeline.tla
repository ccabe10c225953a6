--------------------------- MODULE MCNotifyPipeline --------------------------
(***************************************************************************)
(* Model-checking instance of the pipeline from refreshes to messages       *)
(* (NotifyPipeline) and of two refreshes that fill it: the archives of a    *)
(* Bilibili series (SeriesFeed) and the live status of a Twitch user        *)
(* (TwitchLive).  They share no state in the model: in each behaviour one   *)
(* of them runs, and the others stay in one initial state.                  *)
(***************************************************************************)
EXTENDS NotifyPipeline, SeriesFeed, TwitchLive

VARIABLE part                                           \* the part that runs

\* The aids of three archives, in the order in which the series gets them.
ThreeAids == <<1, 2, 3>>

MCInit ==
    /\ part \in {"notify", "series", "twitch"}
    /\ Init /\ (part # "notify" => \A w \in Workers : worker[w] = "idle")
    /\ SeriesInit /\ TwitchInit

Part(p) == part = p /\ UNCHANGED part

\* The groups of a feed are interchangeable, and so are the titles of broadcasts: the
\* first to subscribe and the first title have a name.
FirstGroup == CHOOSE g \in SeriesGroups : TRUE
FirstIsNamed ==
    commands' = 1 => \A g \in SeriesGroups \ {FirstGroup} : adding'[g] = "no" /\ g \notin watchers'
FirstTitle ==
    broadcast = 0 => title' \in {"", CHOOSE t \in Titles : TRUE}

MCNext ==
    \/ Part("notify") /\ Next /\ UNCHANGED <<seriesVars, twitchVars>>
    \/ Part("series") /\ SeriesNext /\ FirstIsNamed /\ UNCHANGED <<vars, twitchVars>>
    \/ Part("twitch") /\ TwitchNext /\ FirstTitle /\ UNCHANGED <<vars, seriesVars>>

\* The fairness of each part, while it runs.
NotifyIsFair ==
    /\ WF_vars(part = "notify" /\ Fresher)
    /\ \A w \in Workers : WF_vars(part = "notify" /\ Worker(w))
    /\ WF_vars(part = "notify" /\ \E l \in large : LargeSends(l))
    /\ WF_vars(part = "notify" /\ Consumer)
    /\ WF_vars(part = "notify" /\ \E n \in sending : SendEnds(n))
    /\ WF_vars(part = "notify" /\ Stopping)

SeriesIsFair ==
    /\ WF_seriesVars(part = "series" /\ Round)
    /\ WF_seriesVars(part = "series" /\ Dispatches)
    /\ \A g \in SeriesGroups : WF_seriesVars(part = "series" /\ Command(g))

TwitchIsFair ==
    /\ WF_twitchVars(part = "twitch" /\ TwitchRound)
    /\ \A d \in Dispatchers : WF_twitchVars(part = "twitch" /\ Dispatch(d))
    /\ \A g \in StreamGroups : WF_twitchVars(part = "twitch" /\ AddWork(g))

MCSpec ==
    /\ MCInit /\ [][MCNext]_<<part, vars, seriesVars, twitchVars>>
    /\ NotifyIsFair /\ SeriesIsFair /\ TwitchIsFair

-----------------------------------------------------------------------------
\* Every variable of every part stays in its range.
AllTypesOK == TypeOK /\ SeriesTypeOK /\ TwitchTypeOK

\* NotifyPipeline: an event that was found is dealt with, whatever panics, and Stop returns.
PipelineEnds == part = "notify" => EveryNotifyEnds /\ StopEnds

\* SeriesFeed: what comes while a group watches is pushed to it, or was passed over.
SeriesIsPushed == part = "series" => NewIsPushed

\* TwitchLive: a broadcast that lasts is reported to every group that watches.
StreamsAreReported == part = "twitch" => LiveIsReported
=============================================================================
