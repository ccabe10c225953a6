----------------------------- MODULE RefreshProofs -----------------------------
(***************************************************************************)
(* Proofs about SeriesFeed and TwitchLive, the two refresh loops that keep  *)
(* what they told last in the database and write it on their own.           *)
(*                                                                         *)
(* SeriesFeed stores LastAid before it pushes anything, so an archive that  *)
(* is on its way, or was pushed, is one that LastAid has reached: it comes  *)
(* again only if LastAid is put back.  TwitchLive sends before it stores,   *)
(* so the beginning of a broadcast that was sent is in the last status, or  *)
(* about to be, or the write failed.                                        *)
(***************************************************************************)
EXTENDS SeriesFeed, TwitchLive, TLAPS

-----------------------------------------------------------------------------
(* SeriesFeed: the inductive invariant *)

\* LastAid has not fallen behind what was reached, but for what was rewound.
AidsReached ==
    /\ reached \cup unpushed \cup Range(seriesChan) \subseteq 1..published
    /\ page <= published /\ \A g \in SeriesGroups : since[g] <= published
    /\ info # <<>> => \A i \in reached \ rewound : Aids[i] <= info[1]
    /\ phase = "emit" => unpushed \subseteq reached

\* An archive on its way is there once, and no group was told of it.
ArchiveOnce ==
    /\ \A a, b \in 1..Len(seriesChan) :
          a # b /\ seriesChan[a] = seriesChan[b] => seriesChan[a] \in rewound
    /\ \A i \in Range(seriesChan) \ rewound : i \in reached \ unpushed
    /\ \A g \in SeriesGroups, i \in Archives \ rewound :
          /\ i \in OnTheWay => pushed[g][i] = 0
          /\ pushed[g][i] # 0 => pushed[g][i] = 1 /\ i \in reached

\* What a group that watches is not to be told of is neither on its way nor can be again.
Settled ==
    \A g \in SeriesGroups :
        /\ adding[g] # "no" => g \notin watchers
        /\ g \notin watchers => pushed[g] = NeverTold
        /\ adding[g] = "insert" => (1..since[g]) \ rewound \subseteq reached
        /\ g \in watchers =>
              \A i \in (1..since[g]) \ (rewound \cup early[g]) :
                  i \in reached \ OnTheWay /\ pushed[g][i] = 0

\* The inductive invariant.
SeriesIInv == SeriesTypeOK /\ AidsReached /\ ArchiveOnce /\ Settled

-----------------------------------------------------------------------------
(* What the variables may hold *)

\* The aids are positive, and 0 stands for none.
LEMMA AidTypes ==
    /\ Len(Aids) \in Nat /\ Archives = 1..Len(Aids)
    /\ \A i \in Archives : Aids[i] \in Nat \ {0} /\ Aids[i] \in Range(Aids)
    /\ \A n \in 0..Len(Aids) : Newest(n) \in {0} \cup Range(Aids)
    /\ {0} \cup Range(Aids) \subseteq Nat
    /\ NeverTold \in [Archives -> Nat]
  BY SeriesFeedAssumption DEF Archives, Newest, Range, NeverTold

\* At first every variable of SeriesFeed is in its range, ...
LEMMA SeriesInitTypes == SeriesInit => SeriesTypeOK
  <1> SUFFICES ASSUME SeriesInit PROVE SeriesTypeOK
    OBVIOUS
  <1>1. seriesChan \in Seq(Archives) /\ Len(seriesChan) <= SeriesCap
    BY SeriesFeedAssumption DEF SeriesInit
  <1>2. pushed \in [SeriesGroups -> [Archives -> Nat]]
    BY AidTypes DEF SeriesInit
  <1> QED
    BY <1>1, <1>2, SeriesFeedAssumption, AidTypes DEF SeriesInit, SeriesTypeOK

\* AddSeriesInfo keeps the types.
LEMMA StoresAidTypes ==
  ASSUME SeriesTypeOK, NEW a \in {0} \cup Range(Aids), NEW seen, StoresAid(a, seen)
  PROVE  /\ info' \in {<<>>} \cup {<<b>> : b \in {0} \cup Range(Aids)}
         /\ reached' \subseteq Archives /\ rewound' \subseteq Archives
  <1>1. published \in 0..Len(Aids) /\ 1..published \subseteq Archives
    BY AidTypes DEF SeriesTypeOK
  <1>2. info' = <<a>> /\ rewound' \subseteq rewound \cup 1..published
        /\ reached' \subseteq reached \cup 1..published
    BY DEF StoresAid
  <1> QED
    BY <1>1, <1>2 DEF SeriesTypeOK

\* ... and every step keeps it there.
LEMMA SeriesNextTypes == SeriesTypeOK /\ [SeriesNext]_seriesVars => SeriesTypeOK'
  <1> SUFFICES ASSUME SeriesTypeOK, [SeriesNext]_seriesVars PROVE SeriesTypeOK'
    OBVIOUS
  <1> USE DEF worldVars, roundVars, callVars, toldVars, pastVars
  <1>0. Len(Aids) \in Nat /\ MaxCommands \in Nat /\ MaxFaults \in Nat
    BY SeriesFeedAssumption
  <1>a. Archives = 1..Len(Aids) /\ Len(Aids) \in Nat
    BY SeriesFeedAssumption DEF Archives
  <1>1. CASE Publishes
    BY <1>0, <1>1 DEF Publishes, SeriesTypeOK
  <1>2. CASE Restarts
    <2>1. Range(seriesChan) \subseteq Archives
      BY DEF SeriesTypeOK, Range
    <2>2. seriesChan' \in Seq(Archives) /\ Len(seriesChan') <= SeriesCap
      BY <1>0, <1>2, SeriesFeedAssumption DEF Restarts
    <2> QED
      BY <1>0, <1>2, <2>1, <2>2 DEF Restarts, Fault, SeriesTypeOK
  <1>3. CASE Fetches
    BY <1>0, <1>3 DEF Fetches, SeriesTypeOK
  <1>4. CASE FindsNone
    BY <1>0, <1>4 DEF FindsNone, SeriesTypeOK
  <1>5. CASE SetsBaseline
    <2>1. Newest(page) \in {0} \cup Range(Aids)
      BY AidTypes DEF SeriesTypeOK
    <2>2. /\ info' \in {<<>>} \cup {<<b>> : b \in {0} \cup Range(Aids)}
          /\ reached' \subseteq Archives /\ rewound' \subseteq Archives
      BY <1>0, <1>5, <2>1, StoresAidTypes DEF SetsBaseline, SeriesTypeOK
    <2>3. passed' \subseteq Archives
      <3>1. passed' \in {passed, passed \cup 1..page}
        BY <1>5 DEF SetsBaseline
      <3>2. 1..page \subseteq Archives /\ passed \subseteq Archives
        BY <1>a DEF SeriesTypeOK
      <3> QED
        BY <3>1, <3>2
    <2> QED
      BY <1>0, <1>5, <2>2, <2>3 DEF SetsBaseline, Fault, SeriesTypeOK
  <1>6. CASE Compares
    <2>1. NewSeriesArchives(page, info[1]) \subseteq Archives
      BY <1>a DEF SeriesTypeOK, NewSeriesArchives, OnPage
    <2> QED
      BY <1>0, <1>6, <2>1 DEF Compares, SeriesTypeOK
  <1>7. CASE Stores
    <2>1. /\ info' \in {<<>>} \cup {<<b>> : b \in {0} \cup Range(Aids)}
          /\ reached' \subseteq Archives /\ rewound' \subseteq Archives
      <3>1. CASE \E i \in LastOf(unpushed) : StoresAid(Aids[i], {})
        <4>1. PICK i \in LastOf(unpushed) : StoresAid(Aids[i], {})
          BY <3>1
        <4>2. Aids[i] \in {0} \cup Range(Aids)
          BY AidTypes DEF LastOf, SeriesTypeOK
        <4> QED
          BY <4>1, <4>2, StoresAidTypes
      <3> QED
        BY <1>0, <1>7, <3>1 DEF Stores, SeriesTypeOK
    <2>2. passed' \subseteq Archives /\ faults' \in 0..MaxFaults
      <3>1. /\ passed' \in {passed, passed \cup (1..page \ OnPage(page))}
            /\ faults' \in {faults, faults + 1} /\ (faults' # faults => faults < MaxFaults)
        BY <1>7 DEF Stores, Fault
      <3>2. 1..page \subseteq Archives /\ passed \subseteq Archives /\ faults \in 0..MaxFaults
        BY <1>a DEF SeriesTypeOK
      <3> QED
        BY <1>0, <3>1, <3>2
    <2> QED
      BY <1>0, <1>7, <2>1, <2>2 DEF Stores, SeriesTypeOK
  <1>8. CASE Emits
    <2>1. PICK i \in unpushed : seriesChan' = Append(seriesChan, i) /\ unpushed' = unpushed \ {i}
      BY <1>0, <1>8 DEF Emits
    <2>2. seriesChan' \in Seq(Archives) /\ Len(seriesChan') <= SeriesCap
      <3>1. seriesChan \in Seq(Archives) /\ i \in Archives /\ Len(seriesChan) < SeriesCap
        BY <1>8, <2>1 DEF Emits, SeriesTypeOK
      <3> QED
        BY <2>1, <3>1, SeriesFeedAssumption
    <2> QED
      BY <1>0, <1>8, <2>1, <2>2 DEF Emits, SeriesTypeOK
  <1>9. CASE Dispatches
    <2>1. seriesChan' \in Seq(Archives) /\ Len(seriesChan') <= SeriesCap /\ Head(seriesChan) \in Archives
      <3>1. seriesChan \in Seq(Archives) /\ Len(seriesChan) <= SeriesCap /\ seriesChan # <<>>
            /\ seriesChan' = Tail(seriesChan)
        BY <1>9 DEF Dispatches, SeriesTypeOK
      <3> QED
        BY <3>1, SeriesFeedAssumption
    <2>2. pushed' \in [SeriesGroups -> [Archives -> Nat]]
      BY <1>0, <1>9, <2>1 DEF Dispatches, SeriesTypeOK
    <2> QED
      BY <1>0, <1>9, <2>1, <2>2 DEF Dispatches, SeriesTypeOK
  <1>10. ASSUME NEW g \in SeriesGroups, AddFetches(g) PROVE SeriesTypeOK'
    <2>1. base' \in [SeriesGroups -> {0} \cup Range(Aids)]
      BY <1>10, AidTypes DEF AddFetches, SeriesTypeOK
    <2> QED
      BY <1>0, <1>10, <2>1 DEF AddFetches, Fault, SeriesTypeOK
  <1>11. ASSUME NEW g \in SeriesGroups, RemoveSeries(g) PROVE SeriesTypeOK'
    <2>1. removing' \in [SeriesGroups -> {"no", "check", "delete"}]
      BY <1>0, <1>11 DEF RemoveSeries, SeriesTypeOK
    <2>2. pushed' \in [SeriesGroups -> [Archives -> Nat]]
      BY <1>11, AidTypes DEF RemoveSeries, SeriesTypeOK
    <2> QED
      BY <1>0, <1>11, <2>1, <2>2 DEF RemoveSeries, SeriesTypeOK
  <1>12. ASSUME NEW g \in SeriesGroups, AddStores(g) PROVE SeriesTypeOK'
    <2>1. /\ info' \in {<<>>} \cup {<<b>> : b \in {0} \cup Range(Aids)}
          /\ reached' \subseteq Archives /\ rewound' \subseteq Archives
      BY <1>0, <1>12, StoresAidTypes DEF AddStores, SeriesTypeOK
    <2>2. passed' \subseteq Archives /\ faults' \in 0..MaxFaults
      <3>1. /\ passed' \in {passed, passed \cup {i \in 1..published : Aids[i] <= base[g]}}
            /\ faults' \in {faults, faults + 1} /\ (faults' # faults => faults < MaxFaults)
        BY <1>12 DEF AddStores, Fault
      <3>2. 1..published \subseteq Archives /\ passed \subseteq Archives /\ faults \in 0..MaxFaults
        BY <1>a DEF SeriesTypeOK
      <3> QED
        BY <1>0, <3>1, <3>2
    <2> QED
      BY <1>0, <1>12, <2>1, <2>2 DEF AddStores, SeriesTypeOK
  <1>13. ASSUME NEW g \in SeriesGroups, AddInserts(g) PROVE SeriesTypeOK'
    <2>1. OnTheWay \cup ((since[g] + 1)..published) \subseteq Archives
      <3>1. seriesChan \in Seq(Archives) /\ unpushed \subseteq Archives /\ since[g] \in Nat
            /\ published \in 0..Len(Aids)
        BY DEF SeriesTypeOK
      <3>2. Range(seriesChan) \subseteq Archives
        BY <3>1 DEF Range
      <3>3. (since[g] + 1)..published \subseteq Archives
        BY <1>a, <3>1
      <3> QED
        BY <3>1, <3>2, <3>3 DEF OnTheWay
    <2> QED
      BY <1>0, <1>13, <2>1 DEF AddInserts, Fault, SeriesTypeOK
  <1>14. ASSUME NEW g \in SeriesGroups, RemoveChecks(g) PROVE SeriesTypeOK'
    BY <1>0, <1>14 DEF RemoveChecks, SeriesTypeOK
  <1>15. ASSUME NEW g \in SeriesGroups, RemoveDeletes(g) PROVE SeriesTypeOK'
    BY <1>0, <1>15 DEF RemoveDeletes, SeriesTypeOK
  <1>16. CASE UNCHANGED seriesVars
    BY <1>0, <1>16 DEF seriesVars, SeriesTypeOK
  <1> QED
    BY <1>0, <1>1, <1>2, <1>3, <1>4, <1>5, <1>6, <1>7, <1>8, <1>9, <1>10, <1>11, <1>12, <1>13,
       <1>14, <1>15, <1>16 DEF SeriesNext, Round, Command

-----------------------------------------------------------------------------
(* Steps that keep the rest of the invariant *)

\* AddSeriesInfo: LastAid reaches what is up to it, and what was reached beyond it, or
\* seen by then, is rewound.
LEMMA StoresAidReaches ==
  ASSUME SeriesTypeOK, AidsReached, NEW a \in {0} \cup Range(Aids),
         NEW seen \in SUBSET (1..published), StoresAid(a, seen)
  PROVE  /\ info' = <<a>> /\ rewound \subseteq rewound'
         /\ reached \subseteq reached' /\ reached' \subseteq 1..published
         /\ seen \subseteq reached' \cup rewound'
         /\ \A i \in 1..published : Aids[i] <= a => i \in reached'
         /\ \A i \in reached' \ rewound' : Aids[i] <= a
  <1> DEFINE beyond == {i \in 1..published : Aids[i] > a}
  <1>1. /\ info' = <<a>> /\ rewound' = rewound \cup (beyond \cap (reached \cup seen))
        /\ reached' = reached \cup (1..published \ beyond)
    BY DEF StoresAid
  <1>2. \A i \in 1..published : Aids[i] \in Nat
    BY AidTypes DEF SeriesTypeOK
  <1>3. a \in Nat
    BY AidTypes
  <1>4. \A i \in 1..published : i \in beyond \/ Aids[i] <= a
    BY <1>2, <1>3
  <1>5. \A i \in beyond : ~(Aids[i] <= a)
    BY <1>2, <1>3
  <1>6. reached \subseteq 1..published
    BY DEF AidsReached
  <1> HIDE DEF beyond
  <1>7. \A i \in reached' \ rewound' : Aids[i] <= a
    BY <1>1, <1>4, <1>6
  <1>8. \A i \in 1..published : Aids[i] <= a => i \in reached'
    BY <1>1, <1>5
  <1> QED
    BY <1>1, <1>6, <1>7, <1>8

\* Archives may be reached and rewound, and need not be pushed any more.
LEMMA Steady ==
  ASSUME SeriesIInv,
         UNCHANGED <<seriesChan, pushed, watchers, since, early>>,
         unpushed' \subseteq unpushed, reached \subseteq reached', rewound \subseteq rewound',
         \A g \in SeriesGroups : adding'[g] # "no" => adding[g] # "no",
         \A g \in SeriesGroups :
            adding'[g] = "insert" =>
                adding[g] = "insert" \/ (1..since[g]) \ rewound' \subseteq reached'
  PROVE  ArchiveOnce' /\ Settled'
  <1>1. OnTheWay' \subseteq OnTheWay
    BY DEF OnTheWay
  <1>2. ArchiveOnce'
    <2>1. \A a, b \in 1..Len(seriesChan) :
              a # b /\ seriesChan[a] = seriesChan[b] => seriesChan[a] \in rewound'
      BY DEF SeriesIInv, ArchiveOnce
    <2>2. \A i \in Range(seriesChan) \ rewound' : i \in reached' \ unpushed'
      BY DEF SeriesIInv, ArchiveOnce
    <2>3. \A g \in SeriesGroups, i \in Archives \ rewound' :
              /\ i \in OnTheWay' => pushed[g][i] = 0
              /\ pushed[g][i] # 0 => pushed[g][i] = 1 /\ i \in reached'
      BY <1>1 DEF SeriesIInv, ArchiveOnce
    <2> QED
      BY <2>1, <2>2, <2>3 DEF ArchiveOnce, Archives
  <1>3. Settled'
    <2> SUFFICES ASSUME NEW g \in SeriesGroups
                 PROVE  /\ adding'[g] # "no" => g \notin watchers
                        /\ g \notin watchers => pushed[g] = NeverTold
                        /\ adding'[g] = "insert" => (1..since[g]) \ rewound' \subseteq reached'
                        /\ g \in watchers =>
                              \A i \in (1..since[g]) \ (rewound' \cup early[g]) :
                                  i \in reached' \ OnTheWay' /\ pushed[g][i] = 0
      BY DEF Settled, NeverTold, Archives
    <2> QED
      BY <1>1 DEF SeriesIInv, Settled
  <1> QED
    BY <1>2, <1>3

\* A new archive is beyond what was reached.
LEMMA PublishesKeeps == SeriesIInv /\ Publishes => AidsReached' /\ ArchiveOnce' /\ Settled'
  <1> SUFFICES ASSUME SeriesIInv, Publishes PROVE AidsReached' /\ ArchiveOnce' /\ Settled'
    OBVIOUS
  <1> USE DEF worldVars, roundVars, callVars, toldVars, pastVars
  <1>1. ArchiveOnce' /\ Settled'
    BY Steady DEF Publishes
  <1>2. AidsReached'
    <2>1. published \in Nat /\ published' = published + 1 /\ page \in Nat
          /\ since \in [SeriesGroups -> Nat]
      BY AidTypes DEF Publishes, SeriesIInv, SeriesTypeOK
    <2>2. 1..published \subseteq 1..published'
      BY <2>1
    <2>3. page <= published' /\ \A g \in SeriesGroups : since[g] <= published'
      BY <2>1 DEF SeriesIInv, AidsReached
    <2> QED
      BY <2>2, <2>3 DEF Publishes, SeriesIInv, AidsReached
  <1> QED
    BY <1>1, <1>2

\* A restart forgets what was on its way, which stays reached.
LEMMA RestartsKeeps == SeriesIInv /\ Restarts => AidsReached' /\ ArchiveOnce' /\ Settled'
  <1> SUFFICES ASSUME SeriesIInv, Restarts PROVE AidsReached' /\ ArchiveOnce' /\ Settled'
    OBVIOUS
  <1>1. /\ phase' = "idle" /\ page' = 0 /\ unpushed' = {} /\ seriesChan' = <<>>
        /\ adding' = [g \in SeriesGroups |-> "no"]
        /\ UNCHANGED <<published, watchers, info, since, early, pushed, reached, rewound>>
    BY DEF Restarts, toldVars
  <1>2. OnTheWay' = {} /\ Range(seriesChan') = {} /\ Len(seriesChan') = 0
    BY <1>1 DEF OnTheWay, Range
  <1>3. AidsReached'
    BY <1>1, <1>2 DEF SeriesIInv, SeriesTypeOK, AidsReached
  <1>4. ArchiveOnce'
    BY <1>1, <1>2 DEF SeriesIInv, ArchiveOnce, Archives
  <1>5. Settled'
    BY <1>1, <1>2 DEF SeriesIInv, Settled, NeverTold, Archives
  <1> QED
    BY <1>3, <1>4, <1>5

\* Fetching a page, or finding none, reaches and pushes nothing.
LEMMA FetchesKeeps ==
  SeriesIInv /\ (Fetches \/ FindsNone) => AidsReached' /\ ArchiveOnce' /\ Settled'
  <1> SUFFICES ASSUME SeriesIInv, Fetches \/ FindsNone
               PROVE  AidsReached' /\ ArchiveOnce' /\ Settled'
    OBVIOUS
  <1>1. /\ phase' # "emit" /\ page' \in {page, published} /\ published \in Nat
        /\ UNCHANGED <<published, watchers, info, unpushed, seriesChan, adding>>
        /\ UNCHANGED <<since, early, pushed, reached, rewound>>
    BY AidTypes DEF Fetches, FindsNone, SeriesIInv, SeriesTypeOK, worldVars, callVars, toldVars, pastVars
  <1>2. AidsReached'
    BY <1>1 DEF SeriesIInv, AidsReached
  <1> QED
    BY <1>1, <1>2, Steady

\* The first baseline reaches all there is, and pushes nothing.
LEMMA SetsBaselineKeeps == SeriesIInv /\ SetsBaseline => AidsReached' /\ ArchiveOnce' /\ Settled'
  <1> SUFFICES ASSUME SeriesIInv, SetsBaseline PROVE AidsReached' /\ ArchiveOnce' /\ Settled'
    OBVIOUS
  <1>1. /\ phase' = "idle" /\ page' = 0 /\ published \in Nat
        /\ UNCHANGED <<published, watchers, unpushed, seriesChan, adding, since, early, pushed>>
    BY AidTypes DEF SetsBaseline, SeriesIInv, SeriesTypeOK, callVars, toldVars
  <1>2. StoresAid(Newest(page), {}) \/ UNCHANGED <<info, reached, rewound>>
    BY DEF SetsBaseline, pastVars
  <1>3. Newest(page) \in {0} \cup Range(Aids)
    BY AidTypes DEF SeriesIInv, SeriesTypeOK
  <1>4. /\ reached \subseteq reached' /\ rewound \subseteq rewound' /\ reached' \subseteq 1..published
        /\ info' # <<>> => \A i \in reached' \ rewound' : Aids[i] <= info'[1]
    BY <1>2, <1>3, StoresAidReaches DEF SeriesIInv, AidsReached
  <1>5. AidsReached'
    <2>1. page' <= published' /\ \A g \in SeriesGroups : since'[g] <= published'
      BY <1>1 DEF SeriesIInv, AidsReached
    <2>2. unpushed' \cup Range(seriesChan') \subseteq 1..published' /\ phase' # "emit"
      BY <1>1 DEF SeriesIInv, AidsReached
    <2> QED
      BY <1>1, <1>4, <2>1, <2>2 DEF AidsReached
  <1> QED
    BY <1>1, <1>4, <1>5, Steady

\* What a round is to push is beyond LastAid, so it was not reached, or was rewound.
LEMMA ComparesKeeps == SeriesIInv /\ Compares => AidsReached' /\ ArchiveOnce' /\ Settled'
  <1> SUFFICES ASSUME SeriesIInv, Compares PROVE AidsReached' /\ ArchiveOnce' /\ Settled'
    OBVIOUS
  <1>1. /\ info # <<>> /\ phase' # "emit" /\ page' \in {0, page} /\ page \in Nat /\ published \in Nat
        /\ unpushed' = NewSeriesArchives(page, info[1])
        /\ UNCHANGED <<published, watchers, info, seriesChan, adding>>
        /\ UNCHANGED <<since, early, pushed, reached, rewound>>
    BY AidTypes DEF Compares, SeriesIInv, SeriesTypeOK, worldVars, callVars, toldVars, pastVars
  <1>2. unpushed' \subseteq 1..published /\ unpushed' \subseteq Archives
    BY <1>1, AidTypes DEF NewSeriesArchives, OnPage, SeriesIInv, AidsReached, SeriesTypeOK
  <1>3. \A i \in unpushed' : i \notin reached \ rewound
    <2>1. ASSUME NEW i \in unpushed' PROVE ~(Aids[i] <= info[1])
      <3>1. Aids[i] \in Nat /\ Aids[i] > info[1]
        BY <1>1, <1>2, AidTypes DEF NewSeriesArchives
      <3>2. info[1] \in Nat
        BY <1>1, AidTypes DEF SeriesIInv, SeriesTypeOK
      <3> QED
        BY <3>1, <3>2
    <2> QED
      BY <1>1, <2>1 DEF SeriesIInv, AidsReached
  <1>4. AidsReached'
    <2>1. page' <= published
      BY <1>1 DEF SeriesIInv, AidsReached
    <2> QED
      BY <1>1, <1>2, <2>1 DEF SeriesIInv, AidsReached
  <1>5. ArchiveOnce'
    <2>1. \A i \in Range(seriesChan) \ rewound : i \in reached \ unpushed'
      BY <1>3 DEF SeriesIInv, ArchiveOnce
    <2>2. ASSUME NEW g \in SeriesGroups, NEW i \in Archives \ rewound, i \in OnTheWay'
          PROVE  pushed[g][i] = 0
      <3>1. CASE i \in unpushed'
        BY <1>3, <3>1 DEF SeriesIInv, ArchiveOnce
      <3>2. CASE i \in OnTheWay
        BY <3>2 DEF SeriesIInv, ArchiveOnce
      <3> QED
        BY <1>1, <2>2, <3>1, <3>2 DEF OnTheWay
    <2> QED
      BY <1>1, <2>1, <2>2 DEF SeriesIInv, ArchiveOnce, Archives
  <1>6. Settled'
    <2>1. ASSUME NEW g \in watchers, NEW i \in (1..since[g]) \ (rewound \cup early[g])
          PROVE  i \in reached \ OnTheWay' /\ pushed[g][i] = 0
      <3>1. i \in reached \ OnTheWay /\ pushed[g][i] = 0
        BY <2>1 DEF SeriesIInv, SeriesTypeOK, Settled
      <3> QED
        BY <1>1, <1>3, <2>1, <3>1 DEF OnTheWay
    <2> QED
      BY <1>1, <2>1 DEF SeriesIInv, Settled, NeverTold, Archives
  <1> QED
    BY <1>4, <1>5, <1>6

\* LastAid reaches what the round is to push before it pushes any.
LEMMA StoresKeeps == SeriesIInv /\ Stores => AidsReached' /\ ArchiveOnce' /\ Settled'
  <1> SUFFICES ASSUME SeriesIInv, Stores PROVE AidsReached' /\ ArchiveOnce' /\ Settled'
    OBVIOUS
  <1>1. /\ page' = 0 /\ published \in Nat /\ unpushed' \subseteq unpushed
        /\ UNCHANGED <<published, watchers, seriesChan, adding, since, early, pushed>>
    BY AidTypes DEF Stores, SeriesIInv, SeriesTypeOK, callVars, toldVars
  <1>2. CASE \E i \in LastOf(unpushed) : StoresAid(Aids[i], {})
    <2>1. PICK i \in LastOf(unpushed) : StoresAid(Aids[i], {})
      BY <1>2
    <2>2. i \in Archives /\ \A j \in unpushed : Aids[j] <= Aids[i]
      BY DEF LastOf, SeriesIInv, SeriesTypeOK
    <2>3. Aids[i] \in {0} \cup Range(Aids)
      BY <2>2, AidTypes
    <2>4. /\ info' = <<Aids[i]>> /\ rewound \subseteq rewound'
          /\ reached \subseteq reached' /\ reached' \subseteq 1..published
          /\ \A j \in 1..published : Aids[j] <= Aids[i] => j \in reached'
          /\ \A j \in reached' \ rewound' : Aids[j] <= Aids[i]
      BY <2>1, <2>3, StoresAidReaches DEF SeriesIInv
    <2>5. unpushed \subseteq 1..published /\ unpushed \subseteq reached'
      BY <2>2, <2>4 DEF SeriesIInv, AidsReached
    <2>6. AidsReached'
      <3>1. page' <= published' /\ \A g \in SeriesGroups : since'[g] <= published'
        BY <1>1 DEF SeriesIInv, AidsReached
      <3>2. unpushed' \cup Range(seriesChan') \subseteq 1..published'
        BY <1>1 DEF SeriesIInv, AidsReached
      <3> QED
        BY <1>1, <2>4, <2>5, <3>1, <3>2 DEF AidsReached
    <2> QED
      BY <1>1, <2>4, <2>6, Steady
  <1>3. CASE UNCHANGED <<info, reached, rewound>> /\ phase' = "idle"
    <2>1. AidsReached'
      <3>1. page' <= published' /\ \A g \in SeriesGroups : since'[g] <= published'
        BY <1>1 DEF SeriesIInv, AidsReached
      <3>2. unpushed' \cup Range(seriesChan') \subseteq 1..published'
        BY <1>1 DEF SeriesIInv, AidsReached
      <3> QED
        BY <1>1, <1>3, <3>1, <3>2 DEF SeriesIInv, AidsReached
    <2> QED
      BY <1>1, <1>3, <2>1, Steady
  <1> QED
    BY <1>2, <1>3 DEF Stores, pastVars

\* Sending an archive moves it from those to push to the channel.
LEMMA EmitsKeeps == SeriesIInv /\ Emits => AidsReached' /\ ArchiveOnce' /\ Settled'
  <1> SUFFICES ASSUME SeriesIInv, Emits PROVE AidsReached' /\ ArchiveOnce' /\ Settled'
    OBVIOUS
  <1>1. PICK i \in unpushed : /\ seriesChan' = Append(seriesChan, i)
                              /\ unpushed' = unpushed \ {i}
    BY DEF Emits
  <1>2. /\ phase = "emit" /\ phase' \in {"idle", "emit"}
        /\ UNCHANGED <<published, watchers, info, page, adding, since, early, pushed, reached, rewound>>
    BY DEF Emits, worldVars, callVars, toldVars, pastVars
  <1>3. seriesChan \in Seq(Archives) /\ i \in Archives /\ i \in reached
    BY <1>2 DEF SeriesIInv, SeriesTypeOK, AidsReached
  <1>4. Range(seriesChan') = Range(seriesChan) \cup {i}
    BY <1>1, <1>3 DEF Range
  <1>5. OnTheWay' = OnTheWay
    BY <1>1, <1>4 DEF OnTheWay
  <1>6. AidsReached'
    BY <1>1, <1>2, <1>3, <1>4 DEF SeriesIInv, AidsReached
  <1>7. ArchiveOnce'
    <2>1. i \in rewound \/ i \notin Range(seriesChan)
      BY <1>1 DEF SeriesIInv, ArchiveOnce
    <2>2. ASSUME NEW a \in 1..Len(seriesChan'), NEW b \in 1..Len(seriesChan'), a # b,
                 seriesChan'[a] = seriesChan'[b]
          PROVE  seriesChan'[a] \in rewound
      <3>1. Len(seriesChan') = Len(seriesChan) + 1 /\ Len(seriesChan) \in Nat
            /\ \A c \in 1..Len(seriesChan) :
                  seriesChan'[c] = seriesChan[c] /\ seriesChan[c] \in Range(seriesChan)
            /\ seriesChan'[Len(seriesChan) + 1] = i
        BY <1>1, <1>3 DEF Range
      <3>2. CASE a \in 1..Len(seriesChan) /\ b \in 1..Len(seriesChan)
        BY <2>2, <3>1, <3>2 DEF SeriesIInv, ArchiveOnce
      <3>3. CASE a = Len(seriesChan) + 1 /\ b \in 1..Len(seriesChan)
        BY <2>1, <2>2, <3>1, <3>3
      <3>4. CASE b = Len(seriesChan) + 1 /\ a \in 1..Len(seriesChan)
        BY <2>1, <2>2, <3>1, <3>4
      <3> QED
        BY <2>2, <3>1, <3>2, <3>3, <3>4
    <2>3. \A j \in Range(seriesChan') \ rewound : j \in reached \ unpushed'
      BY <1>1, <1>3, <1>4 DEF SeriesIInv, ArchiveOnce
    <2> QED
      BY <1>2, <1>5, <2>2, <2>3 DEF SeriesIInv, ArchiveOnce, Archives
  <1>8. Settled'
    BY <1>2, <1>5 DEF SeriesIInv, Settled, NeverTold, Archives
  <1> QED
    BY <1>6, <1>7, <1>8

\* An archive that is handed out has left the channel, or was rewound.
LEMMA DispatchesKeeps == SeriesIInv /\ Dispatches => AidsReached' /\ ArchiveOnce' /\ Settled'
  <1> SUFFICES ASSUME SeriesIInv, Dispatches PROVE AidsReached' /\ ArchiveOnce' /\ Settled'
    OBVIOUS
  <1> DEFINE h == Head(seriesChan)
  <1>1. /\ seriesChan # <<>> /\ seriesChan' = Tail(seriesChan)
        /\ pushed' = [g \in SeriesGroups |-> IF g \in watchers
                                             THEN [pushed[g] EXCEPT ![h] = @ + 1] ELSE pushed[g]]
        /\ UNCHANGED <<published, watchers, info, phase, page, unpushed>>
        /\ UNCHANGED <<adding, since, early, reached, rewound>>
    BY DEF Dispatches, worldVars, roundVars, callVars, pastVars
  <1>2. seriesChan \in Seq(Archives) /\ pushed \in [SeriesGroups -> [Archives -> Nat]]
    BY DEF SeriesIInv, SeriesTypeOK
  <1>3. /\ Len(seriesChan) \in Nat /\ Len(seriesChan) >= 1 /\ h = seriesChan[1]
        /\ Len(seriesChan') = Len(seriesChan) - 1
        /\ \A c \in 1..Len(seriesChan') : seriesChan'[c] = seriesChan[c + 1]
    BY <1>1, <1>2
  <1>4. h \in Range(seriesChan) /\ Range(seriesChan') \subseteq Range(seriesChan)
        /\ h \in Archives /\ OnTheWay' \subseteq OnTheWay
    <2>1. DOMAIN seriesChan = 1..Len(seriesChan) /\ seriesChan' \in Seq(Archives)
      BY <1>1, <1>2
    <2>2. DOMAIN seriesChan' = 1..Len(seriesChan')
      BY <2>1
    <2>3. 1 \in 1..Len(seriesChan) /\ \A c \in 1..Len(seriesChan') : c + 1 \in 1..Len(seriesChan)
      BY <1>3
    <2>4. h \in Range(seriesChan) /\ h \in Archives
      <3>1. seriesChan[1] \in Range(seriesChan)
        BY <2>1, <2>3 DEF Range
      <3>2. seriesChan[1] \in Archives
        BY <1>2, <2>3
      <3> QED
        BY <1>3, <3>1, <3>2
    <2>5. Range(seriesChan') \subseteq Range(seriesChan)
      BY <1>3, <2>1, <2>2, <2>3 DEF Range
    <2> QED
      BY <1>1, <2>4, <2>5 DEF OnTheWay
  <1>5. h \in rewound \/ h \in reached \ (unpushed \cup Range(seriesChan'))
    <2>1. ASSUME h \in Range(seriesChan'), h \notin rewound PROVE FALSE
      <3>1. PICK c \in 1..Len(seriesChan') : seriesChan'[c] = h
        BY <2>1 DEF Range
      <3>2. c + 1 \in 1..Len(seriesChan) /\ c + 1 # 1 /\ seriesChan[c + 1] = seriesChan[1]
            /\ 1 \in 1..Len(seriesChan)
        BY <1>3, <3>1
      <3> QED
        BY <1>3, <2>1, <3>2 DEF SeriesIInv, ArchiveOnce
    <2>2. h \in rewound \/ h \in reached \ unpushed
      BY <1>4 DEF SeriesIInv, ArchiveOnce
    <2> QED
      BY <2>1, <2>2
  <1> HIDE DEF h
  <1>6. \A g \in SeriesGroups : /\ pushed'[g] \in [Archives -> Nat]
                                /\ \A i \in Archives : i # h => pushed'[g][i] = pushed[g][i]
                                /\ pushed'[g][h] \in {pushed[g][h], pushed[g][h] + 1}
                                /\ g \notin watchers => pushed'[g] = pushed[g]
    BY <1>1, <1>2, <1>4
  <1>7. AidsReached'
    BY <1>1, <1>4 DEF SeriesIInv, AidsReached
  <1>8. ArchiveOnce'
    <2>1. ASSUME NEW a \in 1..Len(seriesChan'), NEW b \in 1..Len(seriesChan'), a # b,
                 seriesChan'[a] = seriesChan'[b]
          PROVE  seriesChan'[a] \in rewound
      <3>1. a + 1 \in 1..Len(seriesChan) /\ b + 1 \in 1..Len(seriesChan) /\ a + 1 # b + 1
            /\ seriesChan'[a] = seriesChan[a + 1] /\ seriesChan'[b] = seriesChan[b + 1]
        BY <1>3, <2>1
      <3> QED
        BY <2>1, <3>1 DEF SeriesIInv, ArchiveOnce
    <2>2. \A i \in Range(seriesChan') \ rewound : i \in reached \ unpushed
      BY <1>4 DEF SeriesIInv, ArchiveOnce
    <2>3. ASSUME NEW g \in SeriesGroups, NEW i \in Archives \ rewound
          PROVE  /\ i \in OnTheWay' => pushed'[g][i] = 0
                 /\ pushed'[g][i] # 0 => pushed'[g][i] = 1 /\ i \in reached
      <3>1. /\ i \in OnTheWay => pushed[g][i] = 0
            /\ pushed[g][i] # 0 => pushed[g][i] = 1 /\ i \in reached
        BY <2>3 DEF SeriesIInv, ArchiveOnce
      <3>2. CASE i # h
        BY <1>4, <1>6, <3>1, <3>2
      <3>3. CASE i = h
        <4>1. i \in OnTheWay /\ i \notin OnTheWay' /\ i \in reached
          BY <1>1, <1>4, <1>5, <2>3, <3>3 DEF OnTheWay
        <4> QED
          BY <1>6, <3>1, <3>3, <4>1
      <3> QED
        BY <3>2, <3>3
    <2> QED
      BY <1>1, <2>1, <2>2, <2>3 DEF ArchiveOnce, Archives
  <1>9. Settled'
    <2>1. ASSUME NEW g \in watchers, NEW i \in (1..since[g]) \ (rewound \cup early[g])
          PROVE  i \in reached \ OnTheWay' /\ pushed'[g][i] = 0
      <3>1. g \in SeriesGroups /\ i \in reached \ OnTheWay /\ pushed[g][i] = 0
        BY <2>1 DEF SeriesIInv, SeriesTypeOK, Settled
      <3>2. i # h /\ i \in Archives
        BY <1>4, <3>1 DEF OnTheWay, SeriesIInv, SeriesTypeOK
      <3> QED
        BY <1>4, <1>6, <3>1, <3>2
    <2>2. \A g \in SeriesGroups : g \notin watchers => pushed'[g] = NeverTold
      BY <1>6 DEF SeriesIInv, Settled
    <2> QED
      BY <1>1, <2>1, <2>2 DEF SeriesIInv, Settled, NeverTold, Archives
  <1> QED
    BY <1>7, <1>8, <1>9

\* A command fetches its baseline for a group that does not watch yet.
LEMMA AddFetchesKeeps ==
  ASSUME SeriesIInv, NEW g \in SeriesGroups, AddFetches(g)
  PROVE  AidsReached' /\ ArchiveOnce' /\ Settled'
  <1>1. /\ g \notin watchers /\ adding' = [adding EXCEPT ![g] = "store"]
        /\ since' = [since EXCEPT ![g] = published] /\ published \in Nat
        /\ UNCHANGED <<published, watchers, info, phase, page, unpushed, seriesChan>>
        /\ UNCHANGED <<early, pushed, reached, rewound>>
    BY AidTypes DEF AddFetches, SeriesIInv, SeriesTypeOK, roundVars, pastVars
  <1>2. since \in [SeriesGroups -> Nat] /\ adding \in [SeriesGroups -> {"no", "store", "insert"}]
    BY AidTypes DEF SeriesIInv, SeriesTypeOK
  <1>3. AidsReached'
    <2>1. \A x \in SeriesGroups : since'[x] <= published
      BY <1>1, <1>2 DEF SeriesIInv, AidsReached
    <2> QED
      BY <1>1, <2>1 DEF SeriesIInv, AidsReached
  <1>4. ArchiveOnce'
    BY <1>1 DEF SeriesIInv, ArchiveOnce, OnTheWay, Archives
  <1>5. Settled'
    <2> SUFFICES ASSUME NEW x \in SeriesGroups
                 PROVE  /\ adding'[x] # "no" => x \notin watchers
                        /\ x \notin watchers => pushed[x] = NeverTold
                        /\ adding'[x] = "insert" => (1..since'[x]) \ rewound \subseteq reached
                        /\ x \in watchers =>
                              \A i \in (1..since'[x]) \ (rewound \cup early[x]) :
                                  i \in reached \ OnTheWay /\ pushed[x][i] = 0
      BY <1>1 DEF Settled, NeverTold, Archives, OnTheWay
    <2>1. x # g => since'[x] = since[x] /\ adding'[x] = adding[x]
      BY <1>1, <1>2
    <2>2. adding'[g] = "store"
      BY <1>1, <1>2
    <2> QED
      BY <1>1, <2>1, <2>2 DEF SeriesIInv, Settled
  <1> QED
    BY <1>3, <1>4, <1>5

\* All that was there when the baseline was fetched is reached, or is rewound.
LEMMA AddStoresKeeps ==
  ASSUME SeriesIInv, NEW g \in SeriesGroups, AddStores(g)
  PROVE  AidsReached' /\ ArchiveOnce' /\ Settled'
  <1>1. /\ adding[g] = "store" /\ published \in Nat
        /\ UNCHANGED <<published, watchers, phase, page, unpushed, seriesChan, since, early, pushed>>
    BY AidTypes DEF AddStores, SeriesIInv, SeriesTypeOK, roundVars, toldVars
  <1>2. adding \in [SeriesGroups -> {"no", "store", "insert"}] /\ since \in [SeriesGroups -> Nat]
        /\ base[g] \in {0} \cup Range(Aids)
    BY AidTypes DEF SeriesIInv, SeriesTypeOK
  <1>3. CASE StoresAid(base[g], 1..since[g]) /\ adding' = [adding EXCEPT ![g] = "insert"]
    <2>1. 1..since[g] \in SUBSET (1..published)
      BY <1>1, <1>2 DEF SeriesIInv, AidsReached
    <2>2. /\ info' = <<base[g]>> /\ rewound \subseteq rewound'
          /\ reached \subseteq reached' /\ reached' \subseteq 1..published
          /\ 1..since[g] \subseteq reached' \cup rewound'
          /\ \A i \in reached' \ rewound' : Aids[i] <= base[g]
      BY <1>2, <1>3, <2>1, StoresAidReaches DEF SeriesIInv
    <2>3. AidsReached'
      BY <1>1, <2>2 DEF SeriesIInv, AidsReached
    <2>4. \A x \in SeriesGroups : x # g => adding'[x] = adding[x]
      BY <1>2, <1>3
    <2> QED
      BY <1>1, <2>2, <2>3, <2>4, Steady
  <1>4. CASE UNCHANGED <<info, reached, rewound>> /\ adding' = [adding EXCEPT ![g] = "no"]
    <2>1. AidsReached'
      BY <1>1, <1>4 DEF SeriesIInv, AidsReached
    <2>2. \A x \in SeriesGroups : adding'[x] # "no" => adding'[x] = adding[x]
      BY <1>2, <1>4
    <2> QED
      BY <1>1, <1>4, <2>1, <2>2, Steady
  <1> QED
    BY <1>3, <1>4 DEF AddStores, pastVars

\* The group counts from what has come by now, but for what is on its way.
LEMMA AddInsertsKeeps ==
  ASSUME SeriesIInv, NEW g \in SeriesGroups, AddInserts(g)
  PROVE  AidsReached' /\ ArchiveOnce' /\ Settled'
  <1>1. /\ adding[g] = "insert" /\ adding' = [adding EXCEPT ![g] = "no"]
        /\ watchers' \subseteq watchers \cup {g} /\ watchers \subseteq watchers'
        /\ early' = [early EXCEPT ![g] = OnTheWay \cup (since[g] + 1)..published]
        /\ since' = [since EXCEPT ![g] = published] /\ published \in Nat
        /\ UNCHANGED <<published, info, phase, page, unpushed, seriesChan, pushed, reached, rewound>>
    BY AidTypes DEF AddInserts, SeriesIInv, SeriesTypeOK, roundVars, pastVars
  <1>2. /\ since \in [SeriesGroups -> Nat] /\ early \in [SeriesGroups -> SUBSET Archives]
        /\ adding \in [SeriesGroups -> {"no", "store", "insert"}]
    BY AidTypes DEF SeriesIInv, SeriesTypeOK
  <1>3. AidsReached'
    <2>1. \A x \in SeriesGroups : since'[x] <= published
      BY <1>1, <1>2 DEF SeriesIInv, AidsReached
    <2> QED
      BY <1>1, <2>1 DEF SeriesIInv, AidsReached
  <1>4. ArchiveOnce'
    BY <1>1 DEF SeriesIInv, ArchiveOnce, OnTheWay, Archives
  <1>5. Settled'
    <2> SUFFICES ASSUME NEW x \in SeriesGroups
                 PROVE  /\ adding'[x] # "no" => x \notin watchers'
                        /\ x \notin watchers' => pushed[x] = NeverTold
                        /\ adding'[x] = "insert" => (1..since'[x]) \ rewound \subseteq reached
                        /\ x \in watchers' =>
                              \A i \in (1..since'[x]) \ (rewound \cup early'[x]) :
                                  i \in reached \ OnTheWay /\ pushed[x][i] = 0
      BY <1>1 DEF Settled, NeverTold, Archives, OnTheWay
    <2>1. CASE x # g
      <3>1. since'[x] = since[x] /\ adding'[x] = adding[x] /\ early'[x] = early[x]
            /\ (x \in watchers') = (x \in watchers)
        BY <1>1, <1>2, <2>1
      <3> QED
        BY <3>1 DEF SeriesIInv, Settled
    <2>2. CASE x = g
      <3>1. /\ adding'[g] = "no" /\ since'[g] = published /\ since[g] \in Nat
            /\ early'[g] = OnTheWay \cup (since[g] + 1)..published
        BY <1>1, <1>2
      <3>2. pushed[g] = NeverTold /\ (1..since[g]) \ rewound \subseteq reached
        BY <1>1 DEF SeriesIInv, Settled
      <3>3. ASSUME NEW i \in (1..published) \ (rewound \cup early'[g])
            PROVE  i \in reached \ OnTheWay /\ pushed[g][i] = 0
        <4>1. i \in 1..since[g] /\ i \notin OnTheWay
          BY <1>1, <3>1, <3>3
        <4>2. i \in Archives
          BY <1>1, <3>3 DEF Archives, SeriesIInv, SeriesTypeOK
        <4> QED
          BY <3>2, <3>3, <4>1, <4>2 DEF NeverTold
      <3> QED
        BY <2>2, <3>1, <3>2, <3>3
    <2> QED
      BY <2>1, <2>2
  <1> QED
    BY <1>3, <1>4, <1>5

\* A group that leaves is told of nothing more.
LEMMA RemoveSeriesKeeps ==
  ASSUME SeriesIInv, NEW g \in SeriesGroups, RemoveSeries(g)
  PROVE  AidsReached' /\ ArchiveOnce' /\ Settled'
  <1>1. /\ adding[g] = "no" /\ watchers' = watchers \ {g} /\ published \in Nat
        /\ since' = [since EXCEPT ![g] = 0]
        /\ early' = [early EXCEPT ![g] = {}] /\ pushed' = [pushed EXCEPT ![g] = NeverTold]
        /\ UNCHANGED <<published, info, phase, page, unpushed, seriesChan, adding, reached, rewound>>
    BY AidTypes DEF RemoveSeries, SeriesIInv, SeriesTypeOK, roundVars, pastVars
  <1>2. /\ since \in [SeriesGroups -> Nat] /\ early \in [SeriesGroups -> SUBSET Archives]
        /\ pushed \in [SeriesGroups -> [Archives -> Nat]]
    BY AidTypes DEF SeriesIInv, SeriesTypeOK
  <1>3. AidsReached'
    <2>1. \A x \in SeriesGroups : since'[x] <= published
      BY <1>1, <1>2 DEF SeriesIInv, AidsReached
    <2> QED
      BY <1>1, <2>1 DEF SeriesIInv, AidsReached
  <1>4. \A x \in SeriesGroups : x # g => since'[x] = since[x] /\ early'[x] = early[x]
                                         /\ pushed'[x] = pushed[x]
    BY <1>1, <1>2
  <1>5. pushed'[g] = NeverTold
    BY <1>1, <1>2
  <1>6. ArchiveOnce'
    <2>1. \A x \in SeriesGroups, i \in Archives \ rewound :
              /\ i \in OnTheWay => pushed'[x][i] = 0
              /\ pushed'[x][i] # 0 => pushed'[x][i] = 1 /\ i \in reached
      BY <1>4, <1>5 DEF SeriesIInv, ArchiveOnce, NeverTold
    <2> QED
      BY <1>1, <2>1 DEF SeriesIInv, ArchiveOnce, OnTheWay, Archives
  <1>7. Settled'
    BY <1>1, <1>4, <1>5 DEF SeriesIInv, Settled, NeverTold, Archives, OnTheWay
  <1> QED
    BY <1>3, <1>6, <1>7

\* LastAid may be deleted behind a command that removes.
LEMMA RemoveChecksKeeps ==
  ASSUME SeriesIInv, NEW g \in SeriesGroups, RemoveChecks(g) \/ RemoveDeletes(g)
  PROVE  AidsReached' /\ ArchiveOnce' /\ Settled'
  <1>1. /\ info' \in {info, <<>>}
        /\ UNCHANGED <<published, watchers, phase, page, unpushed, seriesChan, adding>>
        /\ UNCHANGED <<since, early, pushed, reached, rewound>>
    BY DEF RemoveChecks, RemoveDeletes, worldVars, roundVars, toldVars, pastVars
  <1>2. AidsReached'
    BY <1>1 DEF SeriesIInv, AidsReached
  <1> QED
    BY <1>1, <1>2, Steady

\* At first nothing is published, reached or pushed.
LEMMA SeriesInitIInv == SeriesInit => SeriesIInv
  <1> SUFFICES ASSUME SeriesInit PROVE SeriesIInv
    OBVIOUS
  <1>1. Range(seriesChan) = {} /\ OnTheWay = {} /\ Len(seriesChan) = 0
    BY DEF SeriesInit, Range, OnTheWay
  <1> QED
    BY <1>1, SeriesInitTypes
    DEF SeriesInit, SeriesIInv, AidsReached, ArchiveOnce, Settled, NeverTold, Archives

\* Every step keeps the invariant of SeriesFeed.
LEMMA SeriesNextIInv == SeriesIInv /\ [SeriesNext]_seriesVars => SeriesIInv'
  <1> SUFFICES ASSUME SeriesIInv, [SeriesNext]_seriesVars PROVE SeriesIInv'
    OBVIOUS
  <1>1. SeriesTypeOK'
    BY SeriesNextTypes DEF SeriesIInv
  <1>2. AidsReached' /\ ArchiveOnce' /\ Settled'
    <2>1. CASE UNCHANGED seriesVars
      BY <2>1 DEF seriesVars, worldVars, roundVars, callVars, toldVars, pastVars, SeriesIInv,
         AidsReached, ArchiveOnce, Settled, OnTheWay, NeverTold, Archives
    <2> QED
      BY <2>1, PublishesKeeps, RestartsKeeps, FetchesKeeps, SetsBaselineKeeps, ComparesKeeps,
         StoresKeeps, EmitsKeeps, DispatchesKeeps, AddFetchesKeeps, AddStoresKeeps, AddInsertsKeeps,
         RemoveSeriesKeeps, RemoveChecksKeeps DEF SeriesNext, Round, Command
  <1> QED
    BY <1>1, <1>2 DEF SeriesIInv

\* The invariant says what ArchivesNewAndOnce does.
LEMMA SeriesIInvTells == SeriesIInv => ArchivesNewAndOnce
  <1> SUFFICES ASSUME SeriesIInv PROVE ArchivesNewAndOnce
    OBVIOUS
  <1>1. PushedOnce
    BY DEF SeriesIInv, ArchiveOnce, PushedOnce
  <1>2. OnlyNew
    <2> SUFFICES ASSUME NEW g \in SeriesGroups, NEW i \in (1..since[g]) \ (rewound \cup early[g])
                 PROVE  pushed[g][i] = 0
      BY DEF OnlyNew
    <2>1. CASE g \in watchers
      BY <2>1 DEF SeriesIInv, Settled
    <2>2. CASE g \notin watchers
      <3>1. i \in Archives
        BY SeriesFeedAssumption DEF SeriesIInv, SeriesTypeOK, Archives
      <3> QED
        BY <2>2, <3>1 DEF SeriesIInv, Settled, NeverTold
    <2> QED
      BY <2>1, <2>2
  <1> QED
    BY <1>1, <1>2 DEF ArchivesNewAndOnce

\* Every variable of SeriesFeed stays in its range.
THEOREM SeriesTypeCorrect == SeriesSpec => []SeriesTypeOK
  <1> QED
    BY SeriesInitTypes, SeriesNextTypes, PTL DEF SeriesSpec

\* A group is told of an archive once, and only of one that came after it subscribed or that
\* a round was about to push then, whatever fails, restarts and overlaps, unless LastAid was put
\* back before it.
THEOREM ArchivesArePushedOnce == SeriesSpec => []ArchivesNewAndOnce
  <1> QED
    BY SeriesInitIInv, SeriesNextIInv, SeriesIInvTells, PTL DEF SeriesSpec

-----------------------------------------------------------------------------
(* TwitchLive: the inductive invariant *)

\* The status in the database is live; broadcast n is announced, is over, was announced; a
\* round has its answer.
LastLive == last # <<>> /\ last[1].live
On(n) == Event("on", n)
Ended(n) == n < broadcast \/ ~live
Sent(n) == On(n) \in Queued \/ \E g \in StreamGroups : heard[g][n] > 0
Fetched == twitchPhase \in {"compare", "emit", "store"}

\* What is said is of a broadcast there has been, and an event is sent for a change.
Numbered ==
    /\ found.live => found.nr \in 1..broadcast
    /\ LastLive => last[1].nr \in 1..broadcast
    /\ \A e \in Queued : e.kind # "none" => e.nr \in 1..broadcast
    /\ \A g \in StreamGroups, n \in Broadcasts : heard[g][n] > 0 => n <= broadcast
    /\ live => broadcast \in 1..broadcast
    /\ twitchPhase = "emit" => LastLive \/ found.live
    /\ \A d \in Dispatchers : dispatch[d].event.kind = "none" => dispatch[d].to = {}
    /\ \A e \in Range(twitchChan) : e.kind # "none"

\* A beginning that is sent is in one place, and no group has yet to be told that was.
OneCopyOf(n) ==
    /\ \A a, b \in 1..Len(twitchChan) : twitchChan[a] = On(n) /\ twitchChan[b] = On(n) => a = b
    /\ On(n) \in Range(twitchChan) =>
          /\ \A g \in StreamGroups : heard[g][n] = 0
          /\ \A d \in Dispatchers : dispatch[d].event # On(n)
    /\ \A c, d \in Dispatchers : dispatch[c].event = On(n) /\ dispatch[d].event = On(n) => c = d
    /\ \A d \in Dispatchers : dispatch[d].event = On(n) => \A g \in dispatch[d].to : heard[g][n] = 0
    /\ \A g \in StreamGroups : heard[g][n] <= 1
OneCopy == \A n \in Broadcasts \ again : OneCopyOf(n)

\* The beginning of a broadcast that lasts is stored once it was sent, or is about to be.
Remembered ==
    \A n \in Broadcasts \ again :
        Sent(n) => Ended(n) \/ LastLive \/ (BeginsUnstored /\ found.nr = n)

\* A round about to send a beginning was not preceded by one that did.
Unsent ==
    twitchPhase \in {"compare", "emit"} /\ found.live /\ ~LastLive =>
        found.nr \in again \/ ~Sent(found.nr)

\* A round that finds the user off the air finds out the truth.
TrulyOff ==
    Fetched /\ ~found.live =>
        /\ \A n \in Broadcasts : Sent(n) => Ended(n)
        /\ LastLive => Ended(last[1].nr)

\* The inductive invariant of TwitchLive.
TwitchIInv ==
    TwitchTypeOK /\ Numbered /\ OneCopy /\ Remembered /\ Unsent /\ TrulyOff /\ NoFalseEnd

\* The bounds are naturals, and the statuses and events of the right shape.
LEMMA EventTypes ==
    /\ MaxBroadcasts \in Nat /\ MaxTwitchFaults \in Nat /\ TwitchCap \in Nat
    /\ Broadcasts = 1..MaxBroadcasts /\ NeverHeard \in [Broadcasts -> Nat]
    /\ NotFound \in Statuses /\ NotFound.live = FALSE
    /\ Free \in [event : LiveEvents, to : SUBSET StreamGroups]
    /\ Free.to = {} /\ Free.event.kind = "none"
    /\ FirstCount \in 0..3 /\ AllSent = 3
  BY TwitchLiveAssumption
  DEF Broadcasts, NeverHeard, NotFound, Statuses, Status, Free, LiveEvents, Event, FirstCount, AllSent

\* At first every variable of TwitchLive is in its range, ...
LEMMA TwitchInitTypes == TwitchInit => TwitchTypeOK
  <1> SUFFICES ASSUME TwitchInit PROVE TwitchTypeOK
    OBVIOUS
  <1>1. twitchChan \in Seq(LiveEvents) /\ Len(twitchChan) <= TwitchCap
    <2>1. twitchChan = <<>> /\ TwitchCap \in Nat
      BY EventTypes DEF TwitchInit
    <2> QED
      BY <2>1
  <1>2. heard = [g \in StreamGroups |-> NeverHeard] /\ dispatch = [d \in Dispatchers |-> Free]
        /\ found = NotFound /\ freshCount = FirstCount
    BY DEF TwitchInit
  <1>3. heard \in [StreamGroups -> [Broadcasts -> Nat]]
    BY <1>2, EventTypes
  <1>4. dispatch \in [Dispatchers -> [event : LiveEvents, to : SUBSET StreamGroups]]
    BY <1>2, EventTypes
  <1>5. found \in Statuses /\ freshCount \in 0..AllSent
    BY <1>2, EventTypes
  <1>6. /\ live \in BOOLEAN /\ title \in Titles \cup {""} /\ broadcast = 0 /\ twitchFaults = 0
        /\ streamWatchers = {} /\ last = <<>> /\ twitchPhase = "idle"
        /\ streamAdding \in [StreamGroups -> {"no", "ask", "ask again", "tell"}]
        /\ watch = {} /\ hinted = {} /\ again = {} /\ missed = {}
    BY DEF TwitchInit
  <1>7. broadcast \in 0..MaxBroadcasts /\ twitchFaults \in 0..MaxTwitchFaults
    <2>1. broadcast = 0 /\ twitchFaults = 0 /\ MaxBroadcasts \in Nat /\ MaxTwitchFaults \in Nat
      BY <1>6, EventTypes
    <2> QED
      BY <2>1
  <1> QED
    BY <1>1, <1>3, <1>4, <1>5, <1>6, <1>7 DEF TwitchTypeOK

\* The end of a round keeps the types.
LEMMA EndRoundTypes ==
  ASSUME TwitchTypeOK, EndRound
  PROVE  /\ twitchPhase' = "idle" /\ found' \in Statuses /\ found' = NotFound /\ freshCount' \in 0..AllSent
  <1>1. freshCount \in 0..3 /\ AllSent = 3
    BY EventTypes DEF TwitchTypeOK
  <1>2. freshCount' = IF freshCount < AllSent THEN freshCount + 1 ELSE AllSent
    BY DEF EndRound
  <1>3. freshCount' \in 0..3
    BY <1>1, <1>2
  <1> QED
    BY <1>1, <1>3, EventTypes DEF EndRound

\* The faults stay within their bound.
LEMMA FaultTypes ==
  ASSUME TwitchTypeOK, TwitchFault \/ UNCHANGED twitchFaults
  PROVE  twitchFaults' \in 0..MaxTwitchFaults
  <1>1. twitchFaults \in 0..MaxTwitchFaults
    BY DEF TwitchTypeOK
  <1> QED
    BY <1>1, EventTypes DEF TwitchFault

\* ... and every step keeps it there.
LEMMA TwitchNextTypes == TwitchTypeOK /\ Numbered /\ [TwitchNext]_twitchVars => TwitchTypeOK'
  <1> SUFFICES ASSUME TwitchTypeOK, Numbered, [TwitchNext]_twitchVars PROVE TwitchTypeOK'
    OBVIOUS
  <1> USE DEF streamVars, twitchRoundVars, dispVars, watchVars, hearVars
  <1>0. MaxBroadcasts \in Nat /\ TwitchCap \in Nat /\ Broadcasts = 1..MaxBroadcasts
    BY EventTypes
  <1>a. \A s \in Statuses : /\ s.live \in BOOLEAN /\ s.title \in Titles \cup {""} /\ s.nr \in 0..MaxBroadcasts
                            /\ \A n \in 0..MaxBroadcasts : [s EXCEPT !.nr = n] \in Statuses
    BY DEF Statuses
  <1>b. broadcast \in 0..MaxBroadcasts /\ again \subseteq Broadcasts
    BY DEF TwitchTypeOK
  <1>c. /\ found \in Statuses /\ last \in {<<>>} \cup {<<s>> : s \in Statuses}
        /\ last # <<>> => last[1] \in Statuses
    <2>1. last \in {<<>>} \cup {<<s>> : s \in Statuses}
      BY DEF TwitchTypeOK
    <2>2. last # <<>> => last[1] \in Statuses
      BY <2>1
    <2> QED
      BY <2>1, <2>2 DEF TwitchTypeOK
  <1>d. BeginsUnstored => found.nr \in Broadcasts
    BY <1>0, <1>b DEF BeginsUnstored, Numbered
  <1>1. CASE GoesLive
    <2>1. /\ live' = TRUE /\ title' \in Titles /\ broadcast' \in 0..MaxBroadcasts
          /\ missed' \subseteq StreamGroups /\ hinted' = {} /\ watch' = {}
      BY <1>0, <1>1, <1>b DEF GoesLive
    <2>2. UNCHANGED <<twitchFaults, last, twitchRoundVars, dispVars, streamWatchers, streamAdding, heard, again>>
      BY <1>1 DEF GoesLive
    <2> QED
      BY <2>1, <2>2 DEF TwitchTypeOK
  <1>2. CASE GoesOff
    <2>1. live' = FALSE /\ title' = ""
      BY <1>2 DEF GoesOff
    <2>2. UNCHANGED <<broadcast, twitchFaults, last, twitchRoundVars, dispVars, watchVars, hearVars, again, missed>>
      BY <1>2 DEF GoesOff
    <2> QED
      BY <2>1, <2>2 DEF TwitchTypeOK
  <1>3. CASE Retitles
    <2>1. title' \in Titles /\ twitchFaults' \in 0..MaxTwitchFaults
      BY <1>3, FaultTypes DEF Retitles
    <2>2. UNCHANGED <<live, broadcast, last, twitchRoundVars, dispVars, watchVars, hearVars, again, missed>>
      BY <1>3 DEF Retitles
    <2> QED
      BY <2>1, <2>2 DEF TwitchTypeOK
  <1>4. CASE TwitchRestarts
    <2>1. /\ twitchChan' = <<>> /\ dispatch' = [d \in Dispatchers |-> Free]
          /\ found' = NotFound /\ freshCount' = FirstCount
          /\ again' = again \cup (IF BeginsUnstored THEN {found.nr} ELSE {})
          /\ missed' \subseteq StreamGroups \cup missed /\ twitchFaults' \in 0..MaxTwitchFaults
          /\ UNCHANGED <<live, title, broadcast, last, streamWatchers, hearVars>>
          /\ streamAdding' = [g \in StreamGroups |-> "no"] /\ watch' = {} /\ twitchPhase' = "idle"
      BY <1>4, FaultTypes DEF TwitchRestarts
    <2>2. dispatch' \in [Dispatchers -> [event : LiveEvents, to : SUBSET StreamGroups]]
      BY <2>1, EventTypes
    <2>3. twitchChan' \in Seq(LiveEvents) /\ Len(twitchChan') <= TwitchCap
      BY <1>0, <2>1
    <2>4. again' \subseteq Broadcasts
      BY <1>b, <1>d, <2>1
    <2>5. freshCount' \in 0..AllSent /\ found' \in Statuses
      BY <2>1, EventTypes
    <2> QED
      BY <2>1, <2>2, <2>3, <2>4, <2>5 DEF TwitchTypeOK
  <1>5. CASE Lists
    <2>1. UNCHANGED <<streamVars, last, dispVars, watchVars, hearVars, again, missed>>
      BY <1>5 DEF Lists
    <2>2. EndRound \/ (twitchPhase' = "fetch" /\ UNCHANGED <<found, freshCount>>)
      BY <1>5 DEF Lists
    <2> QED
      BY <2>1, <2>2, EndRoundTypes DEF TwitchTypeOK
  <1>6. CASE FetchesStreams
    <2>1. Shown \in Statuses
      <3>1. title \in Titles \cup {""}
        BY DEF TwitchTypeOK
      <3> QED
        BY <1>b, <3>1, EventTypes DEF Shown, Status, Statuses
    <2>2. UNCHANGED <<live, title, broadcast, last, dispVars, watchVars, hearVars, again, missed>>
      BY <1>6 DEF FetchesStreams
    <2>3. /\ twitchFaults' \in 0..MaxTwitchFaults
          /\ EndRound \/ (twitchPhase' = "compare" /\ found' = Shown /\ UNCHANGED freshCount)
      BY <1>6, FaultTypes DEF FetchesStreams
    <2> QED
      BY <2>1, <2>2, <2>3, EndRoundTypes DEF TwitchTypeOK
  <1>7. CASE ComparesFirst \/ ComparesTitle \/ ComparesChanged
    <2>1. UNCHANGED <<streamVars, last, found, freshCount, dispVars, watchVars, hearVars, again>>
      BY <1>7 DEF ComparesFirst, ComparesTitle, ComparesChanged
    <2>2. twitchPhase' \in {"emit", "store"} /\ missed' \in {missed, StreamGroups}
      BY <1>7 DEF ComparesFirst, ComparesTitle, ComparesChanged, SendsFrom
    <2> QED
      BY <2>1, <2>2 DEF TwitchTypeOK
  <1>8. CASE ComparesSame
    <2>1. UNCHANGED <<streamVars, last, dispVars, watchVars, hearVars, again, missed>> /\ EndRound
      BY <1>8 DEF ComparesSame
    <2> QED
      BY <2>1, EndRoundTypes DEF TwitchTypeOK
  <1>9. CASE EmitsStatus
    <2>1. /\ twitchChan' = Append(twitchChan, NewEvent) /\ Len(twitchChan) < TwitchCap
          /\ twitchChan \in Seq(LiveEvents) /\ twitchPhase' = "store"
          /\ UNCHANGED <<streamVars, last, found, freshCount, dispatch, watchVars, hearVars, again, missed>>
      BY <1>9 DEF EmitsStatus, TwitchTypeOK
    <2>2. NewEvent \in LiveEvents
      BY <1>a, <1>c DEF NewEvent, Event, LiveEvents
    <2>3. twitchChan' \in Seq(LiveEvents) /\ Len(twitchChan') <= TwitchCap
      BY <1>0, <2>1, <2>2
    <2> QED
      BY <2>1, <2>3 DEF TwitchTypeOK
  <1>10. CASE StoresStatus
    <2>1. last' \in {<<>>} \cup {<<s>> : s \in Statuses}
      <3>1. last # <<>> => [found EXCEPT !.nr = last[1].nr] \in Statuses
        BY <1>a, <1>c
      <3>2. last' \in {last, <<found>>} \/ (last # <<>> /\ last' = <<[found EXCEPT !.nr = last[1].nr]>>)
        BY <1>10 DEF StoresStatus
      <3> QED
        BY <1>c, <3>1, <3>2
    <2>2. again' \subseteq Broadcasts
      BY <1>10, <1>b, <1>d DEF StoresStatus
    <2>3. twitchFaults' \in 0..MaxTwitchFaults
      BY <1>10, FaultTypes DEF StoresStatus
    <2>4. UNCHANGED <<live, title, broadcast, dispVars, watchVars, hearVars, missed>> /\ EndRound
      BY <1>10 DEF StoresStatus
    <2> QED
      BY <2>1, <2>2, <2>3, <2>4, EndRoundTypes DEF TwitchTypeOK
  <1>11. ASSUME NEW d \in Dispatchers, Takes(d) PROVE TwitchTypeOK'
    <2>1. twitchChan \in Seq(LiveEvents) /\ twitchChan # <<>> /\ twitchChan' = Tail(twitchChan)
          /\ Len(twitchChan) <= TwitchCap
      BY <1>11 DEF Takes, TwitchTypeOK
    <2>2. twitchChan' \in Seq(LiveEvents) /\ Len(twitchChan') <= TwitchCap /\ Head(twitchChan) \in LiveEvents
      BY <1>0, <2>1
    <2>3. dispatch' \in [Dispatchers -> [event : LiveEvents, to : SUBSET StreamGroups]]
      BY <1>11, <2>2, EventTypes DEF Takes, TwitchTypeOK
    <2>4. UNCHANGED <<streamVars, last, twitchRoundVars, watchVars, hearVars, again, missed>>
      BY <1>11 DEF Takes
    <2> QED
      BY <2>2, <2>3, <2>4 DEF TwitchTypeOK
  <1>12. ASSUME NEW d \in Dispatchers, Delivers(d) PROVE TwitchTypeOK'
    <2>1. PICK g \in dispatch[d].to :
             /\ dispatch' = [dispatch EXCEPT ![d] =
                    IF dispatch[d].to \ {g} = {} THEN Free
                    ELSE [event |-> dispatch[d].event, to |-> dispatch[d].to \ {g}]]
             /\ heard' = IF dispatch[d].event.kind = "on"
                         THEN [heard EXCEPT ![g][dispatch[d].event.nr] = @ + 1] ELSE heard
      BY <1>12 DEF Delivers
    <2>2. dispatch \in [Dispatchers -> [event : LiveEvents, to : SUBSET StreamGroups]]
          /\ heard \in [StreamGroups -> [Broadcasts -> Nat]]
      BY DEF TwitchTypeOK
    <2>3. dispatch' \in [Dispatchers -> [event : LiveEvents, to : SUBSET StreamGroups]]
      <3>1. [event |-> dispatch[d].event, to |-> dispatch[d].to \ {g}]
            \in [event : LiveEvents, to : SUBSET StreamGroups]
        BY <2>2
      <3> QED
        BY <2>1, <2>2, <3>1, EventTypes
    <2>4. heard' \in [StreamGroups -> [Broadcasts -> Nat]]
      <3>1. g \in StreamGroups
        BY <2>2
      <3>2. dispatch[d].event.kind = "on" => dispatch[d].event.nr \in Broadcasts
        BY <1>0, <1>b DEF Numbered, Queued
      <3> QED
        BY <2>1, <2>2, <3>1, <3>2
    <2>5. UNCHANGED <<streamVars, last, twitchRoundVars, twitchChan, watchVars, hinted, again, missed>>
      BY <1>12 DEF Delivers
    <2> QED
      BY <2>3, <2>4, <2>5 DEF TwitchTypeOK
  <1>13. ASSUME NEW g \in StreamGroups, AddsStream(g) PROVE TwitchTypeOK'
    <2>1. /\ streamWatchers' = streamWatchers \cup {g} /\ streamAdding' = [streamAdding EXCEPT ![g] = "ask"]
          /\ heard' = [heard EXCEPT ![g] = NeverHeard] /\ hinted' \subseteq hinted
          /\ UNCHANGED <<streamVars, last, twitchRoundVars, dispVars, watch, again, missed>>
      BY <1>13 DEF AddsStream
    <2>2. heard \in [StreamGroups -> [Broadcasts -> Nat]]
      BY DEF TwitchTypeOK
    <2>3. heard' \in [StreamGroups -> [Broadcasts -> Nat]]
      BY <2>1, <2>2, EventTypes
    <2> QED
      BY <2>1, <2>3 DEF TwitchTypeOK
  <1>14. ASSUME NEW g \in StreamGroups, AddAsks(g) PROVE TwitchTypeOK'
    <2>1. /\ UNCHANGED <<live, title, broadcast, last, twitchRoundVars, dispVars, streamWatchers, hearVars, again>>
          /\ twitchFaults' \in 0..MaxTwitchFaults
      BY <1>14, FaultTypes DEF AddAsks
    <2>2. \E p \in {"no", "ask again", "tell"} : streamAdding' = [streamAdding EXCEPT ![g] = p]
      BY <1>14 DEF AddAsks
    <2>3. watch' \subseteq watch \cup {g} /\ missed' \subseteq missed \cup {g}
      BY <1>14 DEF AddAsks
    <2> QED
      BY <2>1, <2>2, <2>3 DEF TwitchTypeOK
  <1>15. ASSUME NEW g \in StreamGroups, AddTells(g) \/ RemovesStream(g) PROVE TwitchTypeOK'
    <2>1. /\ UNCHANGED <<streamVars, last, twitchRoundVars, dispVars, heard, again, missed>>
          /\ streamWatchers' \subseteq streamWatchers /\ watch' \subseteq watch
          /\ hinted' \subseteq hinted \cup {g}
          /\ streamAdding' \in {streamAdding, [streamAdding EXCEPT ![g] = "no"]}
      BY <1>15 DEF AddTells, RemovesStream
    <2> QED
      BY <2>1 DEF TwitchTypeOK
  <1>16. CASE UNCHANGED twitchVars
    BY <1>16 DEF twitchVars, TwitchTypeOK
  <1> QED
    BY <1>1, <1>2, <1>3, <1>4, <1>5, <1>6, <1>7, <1>8, <1>9, <1>10, <1>11, <1>12, <1>13, <1>14, <1>15, <1>16
    DEF TwitchNext, Streams, TwitchRound, Dispatch, AddWork

-----------------------------------------------------------------------------
(* Steps that keep the rest of the invariant *)

\* The invariant but for the types, after a step.
Kept == Numbered' /\ OneCopy' /\ Remembered' /\ Unsent' /\ TrulyOff' /\ NoFalseEnd'

\* What is said of a broadcast is said of one there has been.
LEMMA NumberTypes ==
  ASSUME TwitchTypeOK, Numbered
  PROVE  /\ broadcast \in Nat /\ broadcast \in 0..MaxBroadcasts
         /\ 1..broadcast \subseteq Broadcasts
         /\ found.live \in BOOLEAN /\ found.live => found.nr \in Broadcasts
         /\ LastLive => last[1].nr \in Broadcasts
  <1>1. broadcast \in 0..MaxBroadcasts /\ found \in Statuses
    BY DEF TwitchTypeOK
  <1>2. broadcast \in Nat /\ 1..broadcast \subseteq Broadcasts
    BY <1>1, EventTypes
  <1> QED
    BY <1>1, <1>2 DEF Numbered, Statuses

\* What is sent is of a broadcast there has been.
LEMMA SentIsPast ==
  ASSUME TwitchTypeOK, Numbered, NEW n \in Broadcasts, Sent(n) PROVE n <= broadcast
  <1>1. CASE On(n) \in Queued
    BY <1>1, NumberTypes DEF Numbered, On, Event
  <1>2. CASE \E g \in StreamGroups : heard[g][n] > 0
    BY <1>2 DEF Numbered
  <1> QED
    BY <1>1, <1>2 DEF Sent

\* Nothing is sent and no group told.
LEMMA SameQueues ==
  ASSUME OneCopy, UNCHANGED <<twitchChan, dispatch, heard>>, again \subseteq again'
  PROVE  OneCopy' /\ Queued' = Queued /\ \A n \in Broadcasts : Sent(n)' <=> Sent(n)
  <1>1. Queued' = Queued
    BY DEF Queued
  <1>2. \A n \in Broadcasts : Sent(n)' <=> Sent(n)
    BY <1>1 DEF Sent, On, Event
  <1>3. OneCopy'
    BY DEF OneCopy, OneCopyOf, On, Event, Broadcasts
  <1> QED
    BY <1>1, <1>2, <1>3

\* What has ended stays so, and nothing else changes.
LEMMA StreamsKeep ==
  ASSUME TwitchIInv, UNCHANGED <<last, twitchPhase, found, twitchChan, dispatch, heard, again>>,
         broadcast' \in Nat, broadcast <= broadcast', live' => broadcast' \in 1..broadcast',
         \A n \in 1..broadcast : Ended(n) => Ended(n)'
  PROVE  Kept
  <1>1. /\ OneCopy' /\ Queued' = Queued /\ (LastLive' <=> LastLive) /\ (BeginsUnstored' <=> BeginsUnstored)
        /\ \A n \in Broadcasts : Sent(n)' <=> Sent(n)
    BY SameQueues DEF TwitchIInv, LastLive, BeginsUnstored
  <1>2. \A n \in Broadcasts : Sent(n) => n \in 1..broadcast
    BY SentIsPast, NumberTypes, EventTypes DEF TwitchIInv
  <1>3. 1..broadcast \subseteq 1..broadcast' /\ broadcast \in Nat
    BY NumberTypes DEF TwitchIInv
  <1>4. Numbered'
    <2>1. \A g \in StreamGroups, n \in Broadcasts : heard[g][n] > 0 => n <= broadcast'
      <3>1. \A g \in StreamGroups, n \in Broadcasts : heard[g][n] > 0 => n \in 1..broadcast
        BY <1>2 DEF Sent
      <3> QED
        BY <1>3, <3>1
    <2> QED
      BY <1>1, <1>3, <2>1 DEF TwitchIInv, Numbered, Broadcasts, LastLive
  <1>5. Remembered'
    BY <1>1, <1>2 DEF TwitchIInv, Remembered, Broadcasts
  <1>6. Unsent'
    BY <1>1, NumberTypes DEF TwitchIInv, Unsent
  <1>7. TrulyOff'
    <2>1. Fetched' <=> Fetched
      BY DEF Fetched
    <2>2. LastLive => last[1].nr \in 1..broadcast
      BY DEF TwitchIInv, Numbered
    <2> QED
      BY <1>1, <1>2, <2>1, <2>2 DEF TwitchIInv, TrulyOff, Broadcasts
  <1>8. NoFalseEnd'
    <2>1. \A e \in Queued : e.kind = "over" => e.nr \in 1..broadcast /\ Ended(e.nr)
      BY DEF TwitchIInv, NoFalseEnd, Numbered, Ended
    <2> QED
      BY <1>1, <2>1 DEF NoFalseEnd, Ended
  <1> QED
    BY <1>1, <1>4, <1>5, <1>6, <1>7, <1>8 DEF Kept

\* The user's own steps change nothing that was sent, and end no broadcast that lasts.
LEMMA GoesLiveKeeps == TwitchIInv /\ (GoesLive \/ GoesOff \/ Retitles) => Kept
  <1> SUFFICES ASSUME TwitchIInv, GoesLive \/ GoesOff \/ Retitles PROVE Kept
    OBVIOUS
  <1>1. UNCHANGED <<last, twitchPhase, found, twitchChan, dispatch, heard, again>>
    BY DEF GoesLive, GoesOff, Retitles, twitchRoundVars, dispVars, hearVars
  <1>2. broadcast \in Nat
    BY NumberTypes DEF TwitchIInv
  <1>3. \/ broadcast' = broadcast + 1
        \/ broadcast' = broadcast /\ (live' => live)
    BY DEF GoesLive, GoesOff, Retitles
  <1>4. \A n \in 1..broadcast : Ended(n) => Ended(n)'
    BY <1>2, <1>3 DEF Ended
  <1>5. live' => broadcast' \in 1..broadcast'
    <2>1. live => broadcast \in 1..broadcast
      BY DEF TwitchIInv, Numbered
    <2>2. broadcast + 1 \in 1..(broadcast + 1)
      BY <1>2
    <2> QED
      BY <1>3, <2>1, <2>2
  <1> QED
    BY <1>1, <1>2, <1>3, <1>4, <1>5, StreamsKeep

\* A round that ends, or begins, has nothing fetched.
LEMMA RoundEndsKeeps ==
  ASSUME TwitchIInv, UNCHANGED <<live, broadcast, last, twitchChan, dispatch, heard, again>>,
         twitchPhase # "store", twitchPhase' \in {"idle", "fetch"}, found' \in {found, NotFound}
  PROVE  Kept
  <1>1. /\ OneCopy' /\ Queued' = Queued /\ (LastLive' <=> LastLive) /\ ~BeginsUnstored
        /\ \A n \in Broadcasts : Sent(n)' <=> Sent(n)
    BY SameQueues DEF TwitchIInv, LastLive, BeginsUnstored
  <1>2. found'.live => found' = found
    BY EventTypes
  <1>3. Numbered'
    BY <1>1, <1>2 DEF TwitchIInv, Numbered, LastLive, Broadcasts
  <1>4. Remembered'
    BY <1>1 DEF TwitchIInv, Remembered, Ended, Broadcasts
  <1> QED
    BY <1>1, <1>3, <1>4 DEF Kept, TwitchIInv, Unsent, TrulyOff, Fetched, NoFalseEnd

\* What a round fetches is the truth of that moment.
LEMMA FetchesStreamsKeeps == TwitchIInv /\ FetchesStreams => Kept
  <1> SUFFICES ASSUME TwitchIInv, FetchesStreams PROVE Kept
    OBVIOUS
  <1>1. /\ twitchPhase = "fetch"
        /\ UNCHANGED <<live, broadcast, last, twitchChan, dispatch, heard, again>>
    BY DEF FetchesStreams, dispVars, hearVars
  <1>2. CASE EndRound
    BY <1>1, <1>2, RoundEndsKeeps DEF EndRound
  <1>3. CASE twitchPhase' = "compare" /\ found' = Shown
    <2>1. /\ OneCopy' /\ Queued' = Queued /\ (LastLive' <=> LastLive) /\ ~BeginsUnstored
          /\ \A n \in Broadcasts : Sent(n)' <=> Sent(n)
      BY <1>1, SameQueues DEF TwitchIInv, LastLive, BeginsUnstored
    <2>2. /\ found'.live => live /\ found'.nr = broadcast
          /\ ~found'.live => ~live
      BY <1>3, EventTypes DEF Shown, Status
    <2>3. broadcast \in Nat /\ 1..broadcast \subseteq Broadcasts
      BY NumberTypes DEF TwitchIInv
    <2>4. live => broadcast \in 1..broadcast
      BY <2>3 DEF TwitchIInv, Numbered
    <2>5. Numbered'
      BY <1>1, <1>3, <2>1, <2>2, <2>4 DEF TwitchIInv, Numbered, LastLive, Broadcasts
    <2>6. Remembered'
      BY <1>1, <2>1 DEF TwitchIInv, Remembered, Ended, Broadcasts
    <2>7. Unsent'
      <3> SUFFICES ASSUME found'.live, ~LastLive, broadcast \notin again, Sent(broadcast) PROVE FALSE
        BY <1>1, <2>1, <2>2, <2>3, <2>4 DEF Unsent
      <3>1. ~Ended(broadcast) /\ broadcast \in Broadcasts
        BY <2>2, <2>3, <2>4 DEF Ended
      <3> QED
        BY <2>1, <3>1 DEF TwitchIInv, Remembered
    <2>8. TrulyOff'
      BY <1>1, <2>2 DEF TrulyOff, Ended
    <2> QED
      BY <1>1, <2>1, <2>5, <2>6, <2>7, <2>8 DEF Kept, TwitchIInv, NoFalseEnd
  <1> QED
    BY <1>2, <1>3 DEF FetchesStreams

\* A round compares with the last status, and sends the beginning only if that is not live.
LEMMA ComparesStatusKeeps ==
  TwitchIInv /\ (ComparesFirst \/ ComparesTitle \/ ComparesChanged) => Kept
  <1> SUFFICES ASSUME TwitchIInv, ComparesFirst \/ ComparesTitle \/ ComparesChanged PROVE Kept
    OBVIOUS
  <1>1. /\ twitchPhase = "compare" /\ twitchPhase' \in {"emit", "store"}
        /\ UNCHANGED <<live, broadcast, last, found, twitchChan, dispatch, heard, again>>
    BY DEF ComparesFirst, ComparesTitle, ComparesChanged, SendsFrom, streamVars, dispVars, hearVars
  <1>2. twitchPhase' = "emit" => LastLive \/ found.live
    <2>1. last # <<>> => last[1].live \in BOOLEAN
      <3>1. last \in {<<>>} \cup {<<s>> : s \in Statuses}
        BY DEF TwitchIInv, TwitchTypeOK
      <3> QED
        <4>1. \A s \in Statuses : s.live \in BOOLEAN
          BY DEF Statuses
        <4>2. last # <<>> => last[1] \in Statuses
          BY <3>1
        <4> QED
          BY <4>1, <4>2
    <2>2. found.live \in BOOLEAN
      BY DEF TwitchIInv, TwitchTypeOK, Statuses
    <2> QED
      BY <2>1, <2>2 DEF ComparesFirst, ComparesTitle, ComparesChanged, LastLive
  <1>3. /\ OneCopy' /\ Queued' = Queued /\ (LastLive' <=> LastLive) /\ ~BeginsUnstored
        /\ \A n \in Broadcasts : Sent(n)' <=> Sent(n)
    BY <1>1, SameQueues DEF TwitchIInv, LastLive, BeginsUnstored
  <1>4. Numbered'
    BY <1>1, <1>2, <1>3 DEF TwitchIInv, Numbered, LastLive, Broadcasts
  <1>5. Remembered'
    BY <1>1, <1>3 DEF TwitchIInv, Remembered, Ended, Broadcasts
  <1>6. Unsent'
    BY <1>1, <1>3, NumberTypes DEF TwitchIInv, Unsent
  <1>7. TrulyOff'
    BY <1>1, <1>3 DEF TwitchIInv, TrulyOff, Fetched, Ended, Broadcasts
  <1> QED
    BY <1>1, <1>3, <1>4, <1>5, <1>6, <1>7 DEF Kept, TwitchIInv, NoFalseEnd

\* An event is put behind the others.
LEMMA Appended ==
  ASSUME TwitchTypeOK, NEW e \in LiveEvents, twitchChan' = Append(twitchChan, e), UNCHANGED dispatch
  PROVE  /\ Range(twitchChan') = Range(twitchChan) \cup {e} /\ Queued' = Queued \cup {e}
         /\ Len(twitchChan) \in Nat /\ Len(twitchChan') = Len(twitchChan) + 1
         /\ twitchChan'[Len(twitchChan')] = e
         /\ \A i \in 1..Len(twitchChan) : twitchChan'[i] = twitchChan[i] /\ twitchChan[i] \in Range(twitchChan)
  <1>1. twitchChan \in Seq(LiveEvents)
    BY DEF TwitchTypeOK
  <1>2. Range(twitchChan') = Range(twitchChan) \cup {e}
    BY <1>1 DEF Range
  <1>3. Queued' = Queued \cup {e}
    BY <1>2 DEF Queued
  <1>4. \A i \in 1..Len(twitchChan) : twitchChan[i] \in Range(twitchChan)
    BY <1>1 DEF Range
  <1> QED
    BY <1>1, <1>2, <1>3, <1>4

\* The beginning of a broadcast is sent where it was not before.
LEMMA EmitsStatusKeeps == TwitchIInv /\ EmitsStatus => Kept
  <1> SUFFICES ASSUME TwitchIInv, EmitsStatus PROVE Kept
    OBVIOUS
  <1>1. /\ twitchPhase = "emit" /\ twitchPhase' = "store" /\ twitchChan' = Append(twitchChan, NewEvent)
        /\ UNCHANGED <<live, broadcast, last, found, dispatch, heard, again>>
    BY DEF EmitsStatus, streamVars, hearVars
  <1>2. /\ LastLive => NewEvent = Event(IF found.live THEN "title" ELSE "over", last[1].nr)
                       /\ last[1].nr \in 1..broadcast
        /\ ~LastLive => NewEvent = On(found.nr) /\ found.live /\ found.nr \in 1..broadcast
    BY <1>1 DEF NewEvent, LastLive, On, TwitchIInv, Numbered
  <1>3. NewEvent \in LiveEvents /\ NewEvent.nr \in 1..broadcast /\ NewEvent.kind # "none"
    <2>1. 1..broadcast \subseteq 0..MaxBroadcasts
      BY NumberTypes, EventTypes DEF TwitchIInv
    <2> QED
      BY <1>2, <2>1 DEF Event, On, LiveEvents
  <1>4. /\ Range(twitchChan') = Range(twitchChan) \cup {NewEvent} /\ Queued' = Queued \cup {NewEvent}
        /\ Len(twitchChan) \in Nat /\ Len(twitchChan') = Len(twitchChan) + 1
        /\ twitchChan'[Len(twitchChan')] = NewEvent
        /\ \A i \in 1..Len(twitchChan) : twitchChan'[i] = twitchChan[i] /\ twitchChan[i] \in Range(twitchChan)
    BY <1>1, <1>3, Appended DEF TwitchIInv
  <1>5. ASSUME NEW n \in Broadcasts
        PROVE  /\ NewEvent = On(n) => ~LastLive /\ n = found.nr /\ (n \in again \/ ~Sent(n))
               /\ NewEvent # On(n) => (Sent(n)' <=> Sent(n))
    <2>1. NewEvent = On(n) => ~LastLive /\ n = found.nr
      BY <1>2 DEF On, Event
    <2>2. ~LastLive => found.nr \in again \/ ~Sent(found.nr)
      BY <1>1, <1>2 DEF TwitchIInv, Unsent
    <2>3. NewEvent # On(n) => (Sent(n)' <=> Sent(n))
      BY <1>1, <1>4 DEF Sent, On, Event
    <2> QED
      BY <2>1, <2>2, <2>3
  <1>6. Numbered'
    BY <1>1, <1>3, <1>4 DEF TwitchIInv, Numbered, LastLive, Broadcasts
  <1>7. OneCopy'
    <2> SUFFICES ASSUME NEW n \in Broadcasts \ again PROVE OneCopyOf(n)'
      BY <1>1 DEF OneCopy, Broadcasts
    <2>1. CASE NewEvent # On(n)
      <3>1. \A a \in 1..Len(twitchChan') : twitchChan'[a] = On(n) => a \in 1..Len(twitchChan)
        BY <1>4, <2>1
      <3>2. On(n) \in Range(twitchChan') => On(n) \in Range(twitchChan)
        BY <1>4, <2>1
      <3> QED
        BY <1>1, <1>4, <3>1, <3>2 DEF TwitchIInv, OneCopy, OneCopyOf, On, Event
    <2>2. CASE NewEvent = On(n)
      <3>1. ~Sent(n)
        BY <1>5, <2>2
      <3>2. On(n) \notin Range(twitchChan) /\ \A d \in Dispatchers : dispatch[d].event # On(n)
        BY <3>1 DEF Sent, Queued
      <3>3. \A g \in StreamGroups : heard[g][n] = 0
        <4>1. heard \in [StreamGroups -> [Broadcasts -> Nat]]
          BY DEF TwitchIInv, TwitchTypeOK
        <4> QED
          BY <3>1, <4>1 DEF Sent
      <3>4. \A a \in 1..Len(twitchChan') : twitchChan'[a] = On(n) => a = Len(twitchChan')
        BY <1>4, <3>2
      <3> QED
        BY <1>1, <3>2, <3>3, <3>4 DEF OneCopyOf, On, Event
    <2> QED
      BY <2>1, <2>2
  <1>8. Remembered'
    <2> SUFFICES ASSUME NEW n \in Broadcasts \ again, Sent(n)'
                 PROVE  Ended(n) \/ LastLive \/ (BeginsUnstored' /\ found.nr = n)
      BY <1>1 DEF Remembered, Ended, LastLive, Broadcasts
    <2>1. CASE NewEvent = On(n)
      BY <1>1, <1>2, <1>5, <2>1 DEF BeginsUnstored, LastLive
    <2>2. CASE NewEvent # On(n)
      BY <1>1, <1>5, <2>2 DEF TwitchIInv, Remembered, BeginsUnstored
    <2> QED
      BY <2>1, <2>2
  <1>9. Unsent'
    BY <1>1 DEF Unsent
  <1>10. TrulyOff'
    <2> SUFFICES ASSUME ~found.live
                 PROVE  (\A n \in Broadcasts : Sent(n)' => Ended(n)) /\ (LastLive => Ended(last[1].nr))
      BY <1>1 DEF TrulyOff, Ended, LastLive, Broadcasts
    <2>1. LastLive /\ \A n \in Broadcasts : NewEvent # On(n)
      BY <1>2, <1>5
    <2> QED
      BY <1>1, <1>5, <2>1 DEF TwitchIInv, TrulyOff, Fetched
  <1>11. NoFalseEnd'
    <2>1. NewEvent.kind = "over" => Ended(NewEvent.nr)
      BY <1>1, <1>2 DEF TwitchIInv, TrulyOff, Fetched, On, Event
    <2> QED
      BY <1>1, <1>4, <2>1 DEF TwitchIInv, NoFalseEnd, Ended
  <1> QED
    BY <1>6, <1>7, <1>8, <1>9, <1>10, <1>11 DEF Kept

\* The status is stored, or the broadcast may be sent again.
LEMMA StoresStatusKeeps == TwitchIInv /\ StoresStatus => Kept
  <1> SUFFICES ASSUME TwitchIInv, StoresStatus PROVE Kept
    OBVIOUS
  <1>1. /\ twitchPhase = "store" /\ twitchPhase' = "idle" /\ found' = NotFound /\ again \subseteq again'
        /\ UNCHANGED <<live, broadcast, twitchChan, dispatch, heard>>
    BY DEF StoresStatus, EndRound, dispVars, hearVars
  <1>2. /\ OneCopy' /\ Queued' = Queued /\ ~BeginsUnstored'
        /\ \A n \in Broadcasts : Sent(n)' <=> Sent(n)
    BY <1>1, SameQueues DEF TwitchIInv, BeginsUnstored
  <1>3. ~found'.live
    BY <1>1, EventTypes
  <1>4. CASE last' = <<IF last # <<>> /\ last[1].live /\ found.live
                       THEN [found EXCEPT !.nr = last[1].nr] ELSE found>>
    <2>1. found \in Statuses
      BY DEF TwitchIInv, TwitchTypeOK
    <2>2. /\ LastLive' <=> found.live
          /\ last'[1].nr = (IF LastLive /\ found.live THEN last[1].nr ELSE found.nr)
      BY <1>4, <2>1 DEF LastLive, Statuses
    <2>3. Numbered'
      BY <1>1, <1>2, <1>3, <2>2 DEF TwitchIInv, Numbered, Broadcasts
    <2>4. Remembered'
      <3> SUFFICES ASSUME NEW n \in Broadcasts \ again, Sent(n), ~found.live PROVE Ended(n)
        BY <1>1, <1>2, <2>2 DEF Remembered, TwitchIInv, Ended, Broadcasts
      <3> QED
        BY <1>1 DEF TwitchIInv, TrulyOff, Fetched
    <2> QED
      BY <1>1, <1>2, <1>3, <2>3, <2>4 DEF Kept, TwitchIInv, Unsent, TrulyOff, Fetched, NoFalseEnd
  <1>5. CASE /\ last' = last
             /\ again' = again \cup (IF BeginsUnstored THEN {found.nr} ELSE {})
    <2>1. LastLive' <=> LastLive
      BY <1>5 DEF LastLive
    <2>2. Numbered'
      BY <1>1, <1>2, <1>3, <1>5, <2>1 DEF TwitchIInv, Numbered, Broadcasts
    <2>3. Remembered'
      BY <1>1, <1>2, <1>5, <2>1 DEF TwitchIInv, Remembered, Ended, Broadcasts
    <2> QED
      BY <1>1, <1>2, <1>3, <2>2, <2>3 DEF Kept, TwitchIInv, Unsent, TrulyOff, Fetched, NoFalseEnd
  <1> QED
    BY <1>4, <1>5 DEF StoresStatus

\* Fewer are told, and of fewer, and what was not stored may be sent again.
LEMMA TwitchRestartsKeeps == TwitchIInv /\ TwitchRestarts => Kept
  <1> SUFFICES ASSUME TwitchIInv, TwitchRestarts PROVE Kept
    OBVIOUS
  <1>1. /\ twitchPhase' = "idle" /\ found' = NotFound /\ twitchChan' = <<>>
        /\ dispatch' = [d \in Dispatchers |-> Free]
        /\ again' = again \cup (IF BeginsUnstored THEN {found.nr} ELSE {})
        /\ UNCHANGED <<live, broadcast, last, heard>>
    BY DEF TwitchRestarts, hearVars
  <1>2. /\ Range(twitchChan') = {} /\ Len(twitchChan') = 0 /\ Queued' \subseteq {Free.event}
        /\ \A d \in Dispatchers : dispatch'[d] = Free
    BY <1>1 DEF Queued, Range
  <1>3. /\ Free.event.kind = "none" /\ Free.to = {} /\ ~found'.live
        /\ \A n \in Broadcasts : On(n) # Free.event
    BY <1>1, EventTypes DEF On, Event
  <1>4. \A n \in Broadcasts : Sent(n)' => Sent(n)
    BY <1>1, <1>2, <1>3 DEF Sent, On, Event
  <1>5. Numbered'
    BY <1>1, <1>2, <1>3 DEF TwitchIInv, Numbered, LastLive, Broadcasts
  <1>6. OneCopy'
    <2> SUFFICES ASSUME NEW n \in Broadcasts \ again' PROVE OneCopyOf(n)'
      BY DEF OneCopy, Broadcasts
    <2>1. n \in Broadcasts \ again
      BY <1>1
    <2>2. \A g \in StreamGroups : heard[g][n] <= 1
      BY <2>1 DEF TwitchIInv, OneCopy, OneCopyOf
    <2> QED
      BY <1>1, <1>2, <1>3, <2>1, <2>2 DEF OneCopyOf, On, Event
  <1>7. Remembered'
    BY <1>1, <1>4 DEF TwitchIInv, Remembered, Ended, LastLive, Broadcasts
  <1> QED
    BY <1>1, <1>2, <1>3, <1>5, <1>6, <1>7 DEF Kept, Unsent, TrulyOff, Fetched, NoFalseEnd

\* A dispatcher takes the event out of the channel.
LEMMA TakesKeeps == ASSUME TwitchIInv, NEW d \in Dispatchers, Takes(d) PROVE Kept
  <1> DEFINE h == Head(twitchChan)
  <1>1. /\ dispatch[d] = Free /\ twitchChan # <<>> /\ twitchChan' = Tail(twitchChan)
        /\ dispatch' = [dispatch EXCEPT ![d] = IF streamWatchers = {} THEN Free
                                               ELSE [event |-> h, to |-> streamWatchers]]
        /\ UNCHANGED <<live, broadcast, last, twitchPhase, found, heard, again>>
    BY DEF Takes, streamVars, twitchRoundVars, hearVars
  <1>2. /\ twitchChan \in Seq(LiveEvents)
        /\ dispatch \in [Dispatchers -> [event : LiveEvents, to : SUBSET StreamGroups]]
        /\ streamWatchers \subseteq StreamGroups
    BY DEF TwitchIInv, TwitchTypeOK
  <1>3. /\ Len(twitchChan) \in Nat /\ h = twitchChan[1] /\ 1 \in 1..Len(twitchChan)
        /\ Len(twitchChan') = Len(twitchChan) - 1
        /\ \A i \in 1..Len(twitchChan') : twitchChan'[i] = twitchChan[i + 1] /\ i + 1 \in 1..Len(twitchChan)
    BY <1>1, <1>2
  <1>4. h \in Range(twitchChan) /\ Range(twitchChan') \subseteq Range(twitchChan)
    <2>1. DOMAIN twitchChan = 1..Len(twitchChan) /\ twitchChan' \in Seq(LiveEvents)
      BY <1>1, <1>2
    <2>2. DOMAIN twitchChan' = 1..Len(twitchChan')
      BY <2>1
    <2> QED
      BY <1>3, <2>1, <2>2 DEF Range
  <1> HIDE DEF h
  <1>5. /\ Free.event.kind = "none" /\ Free.to = {}
        /\ \A n \in Broadcasts : On(n) # Free.event
    BY EventTypes DEF On, Event
  <1>6. /\ \A c \in Dispatchers : c # d => dispatch'[c] = dispatch[c]
        /\ \/ dispatch'[d] = Free
           \/ dispatch'[d].event = h /\ dispatch'[d].to \subseteq StreamGroups /\ streamWatchers # {}
    BY <1>1, <1>2
  <1>7. Queued' \subseteq Queued
    <2>1. ASSUME NEW c \in Dispatchers PROVE dispatch'[c].event \in Queued
      BY <1>1, <1>4, <1>6 DEF Queued
    <2> QED
      BY <1>4, <2>1 DEF Queued
  <1>8. \A n \in Broadcasts : Sent(n)' => Sent(n)
    BY <1>1, <1>7 DEF Sent, On, Event
  <1>9. Numbered'
    <2>1. ASSUME NEW c \in Dispatchers, dispatch'[c].event.kind = "none" PROVE dispatch'[c].to = {}
      BY <1>4, <1>5, <1>6, <2>1 DEF TwitchIInv, Numbered
    <2> QED
      BY <1>1, <1>4, <1>7, <2>1 DEF TwitchIInv, Numbered, LastLive, Broadcasts
  <1>10. OneCopy'
    <2> SUFFICES ASSUME NEW n \in Broadcasts \ again' PROVE OneCopyOf(n)'
      BY DEF OneCopy, Broadcasts
    <2>0. n \in Broadcasts \ again
      BY <1>1
    <2>1. ASSUME NEW a \in 1..Len(twitchChan'), NEW b \in 1..Len(twitchChan'),
                 twitchChan'[a] = On(n), twitchChan'[b] = On(n)
          PROVE  a = b
      <3>1. twitchChan[a + 1] = On(n) /\ twitchChan[b + 1] = On(n)
            /\ a + 1 \in 1..Len(twitchChan) /\ b + 1 \in 1..Len(twitchChan)
        BY <1>3, <2>1
      <3>2. a + 1 = b + 1
        BY <2>0, <3>1 DEF TwitchIInv, OneCopy, OneCopyOf
      <3> QED
        BY <1>3, <3>2
    <2>2. CASE h = On(n)
      <3>1. /\ \A g \in StreamGroups : heard[g][n] = 0
            /\ \A c \in Dispatchers : dispatch[c].event # On(n)
        BY <1>4, <2>0, <2>2 DEF TwitchIInv, OneCopy, OneCopyOf
      <3>2. On(n) \notin Range(twitchChan')
        <4> SUFFICES ASSUME On(n) \in Range(twitchChan') PROVE FALSE
          OBVIOUS
        <4>1. PICK i \in 1..Len(twitchChan') : twitchChan'[i] = On(n)
          <5>1. twitchChan' \in Seq(LiveEvents)
            BY <1>1, <1>2
          <5>2. DOMAIN twitchChan' = 1..Len(twitchChan')
            BY <5>1
          <5> QED
            BY <5>2 DEF Range
        <4>2. twitchChan[i + 1] = On(n) /\ twitchChan[1] = On(n) /\ i + 1 \in 1..Len(twitchChan) /\ i + 1 # 1
          BY <1>3, <2>2, <4>1
        <4> QED
          BY <1>3, <2>0, <4>2 DEF TwitchIInv, OneCopy, OneCopyOf
      <3>3. /\ \A c \in Dispatchers : dispatch'[c].event = On(n) => c = d
            /\ \A c \in Dispatchers : dispatch'[c].to \subseteq StreamGroups
        BY <1>2, <1>5, <1>6, <3>1
      <3>4. /\ \A g \in StreamGroups : heard'[g][n] = 0 /\ heard'[g][n] <= 1
            /\ \A c \in Dispatchers : \A g \in dispatch'[c].to : heard'[g][n] = 0
        BY <1>1, <3>1, <3>3
      <3> QED
        BY <2>1, <3>2, <3>3, <3>4 DEF OneCopyOf, On, Event
    <2>3. CASE h # On(n)
      <3>1. dispatch'[d].event # On(n)
        BY <1>5, <1>6, <2>0, <2>3
      <3>2. On(n) \in Range(twitchChan') => On(n) \in Range(twitchChan)
        BY <1>4
      <3>3. /\ On(n) \in Range(twitchChan) =>
                  /\ \A g \in StreamGroups : heard[g][n] = 0
                  /\ \A c \in Dispatchers : dispatch[c].event # On(n)
            /\ \A b, c \in Dispatchers : dispatch[b].event = On(n) /\ dispatch[c].event = On(n) => b = c
            /\ \A c \in Dispatchers : dispatch[c].event = On(n) => \A g \in dispatch[c].to : heard[g][n] = 0
            /\ \A g \in StreamGroups : heard[g][n] <= 1
        BY <2>0 DEF TwitchIInv, OneCopy, OneCopyOf
      <3>4. \A c \in Dispatchers : dispatch'[c].event = On(n) => dispatch'[c] = dispatch[c]
        BY <1>6, <3>1
      <3> QED
        BY <1>1, <2>1, <3>2, <3>3, <3>4 DEF OneCopyOf, On, Event
    <2> QED
      BY <2>2, <2>3
  <1>11. /\ (LastLive' <=> LastLive) /\ (BeginsUnstored' <=> BeginsUnstored) /\ (Fetched' <=> Fetched)
    BY <1>1 DEF LastLive, BeginsUnstored, Fetched
  <1>12. Remembered'
    BY <1>1, <1>8, <1>11 DEF TwitchIInv, Remembered, Ended, Broadcasts
  <1>13. Unsent'
    BY <1>1, <1>8, <1>11, NumberTypes DEF TwitchIInv, Unsent
  <1>14. TrulyOff'
    BY <1>1, <1>8, <1>11 DEF TwitchIInv, TrulyOff, Ended, Broadcasts
  <1>15. NoFalseEnd'
    BY <1>1, <1>7 DEF TwitchIInv, NoFalseEnd
  <1> QED
    BY <1>9, <1>10, <1>12, <1>13, <1>14, <1>15 DEF Kept

\* A group is told of what was on its way to it.
LEMMA DeliversKeeps == ASSUME TwitchIInv, NEW d \in Dispatchers, Delivers(d) PROVE Kept
  <1> DEFINE event == dispatch[d].event
  <1>1. PICK g \in dispatch[d].to :
           /\ dispatch' = [dispatch EXCEPT ![d] = IF dispatch[d].to \ {g} = {} THEN Free
                                ELSE [event |-> event, to |-> dispatch[d].to \ {g}]]
           /\ heard' = IF event.kind = "on" THEN [heard EXCEPT ![g][event.nr] = @ + 1] ELSE heard
    BY DEF Delivers
  <1>2. UNCHANGED <<live, broadcast, last, twitchPhase, found, twitchChan, again>>
    BY DEF Delivers, streamVars, twitchRoundVars
  <1>3. /\ heard \in [StreamGroups -> [Broadcasts -> Nat]] /\ event \in LiveEvents
        /\ dispatch \in [Dispatchers -> [event : LiveEvents, to : SUBSET StreamGroups]]
        /\ g \in StreamGroups
    BY DEF TwitchIInv, TwitchTypeOK
  <1>4. /\ event \in Queued /\ event.kind # "none" /\ event.nr \in 1..broadcast
        /\ 1..broadcast \subseteq Broadcasts
    BY NumberTypes DEF TwitchIInv, Numbered, Queued
  <1> HIDE DEF event
  <1>5. /\ Free.event.kind = "none" /\ Free.to = {}
        /\ \A n \in Broadcasts : On(n) # Free.event
    BY EventTypes DEF On, Event
  <1>6. /\ \A c \in Dispatchers : c # d => dispatch'[c] = dispatch[c]
        /\ \/ dispatch'[d] = Free
           \/ dispatch'[d].event = event /\ dispatch'[d].to = dispatch[d].to \ {g}
    BY <1>1, <1>3
  <1>7. \A n \in Broadcasts : event = On(n) <=> event.kind = "on" /\ event.nr = n
    BY <1>3 DEF On, Event, LiveEvents
  <1>8. ASSUME NEW n \in Broadcasts, NEW x \in StreamGroups
        PROVE  /\ event = On(n) /\ x = g => heard'[x][n] = heard[x][n] + 1
               /\ ~(event = On(n) /\ x = g) => heard'[x][n] = heard[x][n]
    BY <1>1, <1>3, <1>4, <1>7
  <1>9. Queued' \subseteq Queued \cup {Free.event}
    <2>1. ASSUME NEW c \in Dispatchers PROVE dispatch'[c].event \in Queued \cup {Free.event}
      BY <1>4, <1>6 DEF Queued
    <2> QED
      BY <1>2, <2>1 DEF Queued
  <1>10. \A n \in Broadcasts : Sent(n)' => Sent(n)
    <2> SUFFICES ASSUME NEW n \in Broadcasts, Sent(n)' PROVE Sent(n)
      OBVIOUS
    <2>1. CASE On(n) \in Queued'
      BY <1>5, <1>9, <2>1 DEF Sent
    <2>2. CASE \E x \in StreamGroups : heard'[x][n] > 0
      BY <1>4, <1>8, <2>2 DEF Sent
    <2> QED
      BY <2>1, <2>2 DEF Sent, On, Event
  <1>11. Numbered'
    <2>1. ASSUME NEW c \in Dispatchers, dispatch'[c].event.kind = "none" PROVE dispatch'[c].to = {}
      BY <1>4, <1>5, <1>6, <2>1 DEF TwitchIInv, Numbered
    <2>2. \A x \in StreamGroups, n \in Broadcasts : heard'[x][n] > 0 => n <= broadcast
      <3> SUFFICES ASSUME NEW x \in StreamGroups, NEW n \in Broadcasts, heard'[x][n] > 0
                   PROVE  n <= broadcast
        OBVIOUS
      <3>1. Sent(n)'
        BY DEF Sent
      <3> QED
        BY <1>10, <3>1, SentIsPast DEF TwitchIInv
    <2> QED
      BY <1>2, <1>5, <1>9, <2>1, <2>2 DEF TwitchIInv, Numbered, LastLive, Broadcasts
  <1>12. OneCopy'
    <2> SUFFICES ASSUME NEW n \in Broadcasts \ again' PROVE OneCopyOf(n)'
      BY DEF OneCopy, Broadcasts
    <2>0. n \in Broadcasts \ again
      BY <1>2
    <2>1. /\ \A a, b \in 1..Len(twitchChan) : twitchChan[a] = On(n) /\ twitchChan[b] = On(n) => a = b
          /\ On(n) \in Range(twitchChan) =>
                /\ \A x \in StreamGroups : heard[x][n] = 0
                /\ \A c \in Dispatchers : dispatch[c].event # On(n)
          /\ \A b, c \in Dispatchers : dispatch[b].event = On(n) /\ dispatch[c].event = On(n) => b = c
          /\ \A c \in Dispatchers : dispatch[c].event = On(n) => \A x \in dispatch[c].to : heard[x][n] = 0
          /\ \A x \in StreamGroups : heard[x][n] <= 1
      BY <2>0 DEF TwitchIInv, OneCopy, OneCopyOf
    <2>2. \A c \in Dispatchers : dispatch'[c].event = On(n) =>
              dispatch[c].event = On(n) /\ dispatch'[c].to \subseteq dispatch[c].to
      BY <1>5, <1>6, <2>0 DEF event
    <2>3. \A x \in StreamGroups : heard'[x][n] \in Nat /\ heard[x][n] \in Nat
      BY <1>3, <1>8, <2>0
    <2>4. CASE event = On(n)
      <3>1. /\ heard[g][n] = 0 /\ On(n) \notin Range(twitchChan)
            /\ \A c \in Dispatchers : dispatch[c].event = On(n) => c = d
        BY <2>1, <2>4 DEF event
      <3>2. /\ heard'[g][n] = 1
            /\ \A x \in StreamGroups : x # g => heard'[x][n] = heard[x][n]
        BY <1>3, <1>8, <2>0, <2>4, <3>1
      <3>3. \A x \in dispatch'[d].to : x # g /\ x \in dispatch[d].to /\ x \in StreamGroups
        BY <1>3, <1>5, <1>6
      <3>4. \A c \in Dispatchers : dispatch'[c].event = On(n) =>
                \A x \in dispatch'[c].to : heard'[x][n] = 0
        BY <2>1, <2>2, <3>1, <3>2, <3>3
      <3>5. \A x \in StreamGroups : heard'[x][n] <= 1
        BY <2>1, <3>2
      <3> QED
        BY <1>2, <2>1, <2>2, <3>1, <3>4, <3>5 DEF OneCopyOf, On, Event
    <2>5. CASE event # On(n)
      <3>1. \A x \in StreamGroups : heard'[x][n] = heard[x][n]
        BY <1>8, <2>0, <2>5
      <3>2. \A c \in Dispatchers : dispatch[c].to \subseteq StreamGroups
        BY <1>3
      <3> QED
        BY <1>2, <2>1, <2>2, <3>1, <3>2 DEF OneCopyOf, On, Event
    <2> QED
      BY <2>4, <2>5
  <1>13. /\ (LastLive' <=> LastLive) /\ (BeginsUnstored' <=> BeginsUnstored) /\ (Fetched' <=> Fetched)
    BY <1>2 DEF LastLive, BeginsUnstored, Fetched
  <1>14. Remembered'
    BY <1>2, <1>10, <1>13 DEF TwitchIInv, Remembered, Ended, Broadcasts
  <1>15. Unsent'
    BY <1>2, <1>10, <1>13, NumberTypes DEF TwitchIInv, Unsent
  <1>16. TrulyOff'
    BY <1>2, <1>10, <1>13 DEF TwitchIInv, TrulyOff, Ended, Broadcasts
  <1>17. NoFalseEnd'
    BY <1>2, <1>5, <1>9 DEF TwitchIInv, NoFalseEnd
  <1> QED
    BY <1>11, <1>12, <1>14, <1>15, <1>16, <1>17 DEF Kept

\* A group that starts watching has heard of nothing.
LEMMA AddsKeeps == ASSUME TwitchIInv, NEW g \in StreamGroups, AddsStream(g) PROVE Kept
  <1>1. /\ heard' = [heard EXCEPT ![g] = NeverHeard]
        /\ UNCHANGED <<live, broadcast, last, twitchPhase, found, twitchChan, dispatch, again>>
    BY DEF AddsStream, streamVars, twitchRoundVars, dispVars
  <1>2. heard \in [StreamGroups -> [Broadcasts -> Nat]]
    BY DEF TwitchIInv, TwitchTypeOK
  <1>3. \A x \in StreamGroups, n \in Broadcasts : heard'[x][n] = 0 \/ heard'[x][n] = heard[x][n]
    BY <1>1, <1>2 DEF NeverHeard
  <1>4. Queued' = Queued
    BY <1>1 DEF Queued
  <1>5. \A n \in Broadcasts : Sent(n)' => Sent(n)
    BY <1>1, <1>3, <1>4 DEF Sent, On, Event
  <1>6. Numbered'
    BY <1>1, <1>3, <1>4 DEF TwitchIInv, Numbered, LastLive, Broadcasts
  <1>7. OneCopy'
    <2> SUFFICES ASSUME NEW n \in Broadcasts \ again' PROVE OneCopyOf(n)'
      BY DEF OneCopy, Broadcasts
    <2>1. /\ \A a, b \in 1..Len(twitchChan) : twitchChan[a] = On(n) /\ twitchChan[b] = On(n) => a = b
          /\ On(n) \in Range(twitchChan) =>
                /\ \A x \in StreamGroups : heard[x][n] = 0
                /\ \A c \in Dispatchers : dispatch[c].event # On(n)
          /\ \A b, c \in Dispatchers : dispatch[b].event = On(n) /\ dispatch[c].event = On(n) => b = c
          /\ \A c \in Dispatchers : dispatch[c].event = On(n) => \A x \in dispatch[c].to : heard[x][n] = 0
          /\ \A x \in StreamGroups : heard[x][n] <= 1
      BY <1>1 DEF TwitchIInv, OneCopy, OneCopyOf
    <2>2. \A c \in Dispatchers : dispatch[c].to \subseteq StreamGroups
      BY DEF TwitchIInv, TwitchTypeOK
    <2>3. \A x \in StreamGroups : heard'[x][n] = 0 \/ heard'[x][n] = heard[x][n]
      BY <1>1, <1>3
    <2> QED
      BY <1>1, <2>1, <2>2, <2>3 DEF OneCopyOf, On, Event
  <1>8. /\ (LastLive' <=> LastLive) /\ (BeginsUnstored' <=> BeginsUnstored) /\ (Fetched' <=> Fetched)
    BY <1>1 DEF LastLive, BeginsUnstored, Fetched
  <1>9. Remembered'
    BY <1>1, <1>5, <1>8 DEF TwitchIInv, Remembered, Ended, Broadcasts
  <1>10. Unsent'
    BY <1>1, <1>5, <1>8, NumberTypes DEF TwitchIInv, Unsent
  <1>11. TrulyOff'
    BY <1>1, <1>5, <1>8 DEF TwitchIInv, TrulyOff, Ended, Broadcasts
  <1>12. NoFalseEnd'
    BY <1>1, <1>4 DEF TwitchIInv, NoFalseEnd
  <1> QED
    BY <1>6, <1>7, <1>9, <1>10, <1>11, <1>12 DEF Kept

\* Who watches is nothing the invariant is about, but for what they heard.
LEMMA QuietKeeps ==
  ASSUME TwitchIInv,
         UNCHANGED <<live, broadcast, last, twitchPhase, found, twitchChan, dispatch, heard, again>>
  PROVE  Kept
  <1>1. broadcast \in Nat /\ (live => broadcast \in 1..broadcast)
    BY NumberTypes DEF TwitchIInv, Numbered
  <1> QED
    BY <1>1, StreamsKeep DEF Ended

\* At first nothing is on the air, stored, sent or heard.
LEMMA TwitchInitIInv == TwitchInit => TwitchIInv
  <1> SUFFICES ASSUME TwitchInit PROVE TwitchIInv
    OBVIOUS
  <1>1. /\ live = FALSE /\ broadcast = 0 /\ last = <<>> /\ twitchPhase = "idle" /\ found = NotFound
        /\ twitchChan = <<>> /\ dispatch = [d \in Dispatchers |-> Free]
        /\ heard = [g \in StreamGroups |-> NeverHeard]
    BY DEF TwitchInit
  <1>2. /\ Range(twitchChan) = {} /\ Len(twitchChan) = 0 /\ Queued \subseteq {Free.event}
        /\ \A d \in Dispatchers : dispatch[d] = Free
        /\ \A g \in StreamGroups, n \in Broadcasts : heard[g][n] = 0
    BY <1>1 DEF Queued, Range, NeverHeard
  <1>3. /\ Free.event.kind = "none" /\ Free.to = {} /\ ~found.live
        /\ \A n \in Broadcasts : On(n) # Free.event
    BY <1>1, EventTypes DEF On, Event
  <1>4. ~LastLive /\ \A n \in Broadcasts : ~Sent(n)
    BY <1>1, <1>2, <1>3 DEF LastLive, Sent
  <1>5. Numbered
    BY <1>1, <1>2, <1>3, <1>4 DEF Numbered
  <1>6. OneCopy
    BY <1>2, <1>3 DEF OneCopy, OneCopyOf
  <1> QED
    BY <1>1, <1>2, <1>3, <1>4, <1>5, <1>6, TwitchInitTypes
    DEF TwitchIInv, Remembered, Unsent, TrulyOff, Fetched, NoFalseEnd

\* Every step keeps the invariant of TwitchLive.
LEMMA TwitchNextIInv == TwitchIInv /\ [TwitchNext]_twitchVars => TwitchIInv'
  <1> SUFFICES ASSUME TwitchIInv, [TwitchNext]_twitchVars PROVE TwitchIInv'
    OBVIOUS
  <1>1. TwitchTypeOK'
    BY TwitchNextTypes DEF TwitchIInv
  <1>2. Kept
    <2>1. CASE Lists \/ ComparesSame
      <3>1. /\ twitchPhase # "store" /\ twitchPhase' \in {"idle", "fetch"} /\ found' \in {found, NotFound}
            /\ UNCHANGED <<live, broadcast, last, twitchChan, dispatch, heard, again>>
        BY <2>1 DEF Lists, ComparesSame, EndRound, streamVars, dispVars, hearVars
      <3> QED
        BY <3>1, RoundEndsKeeps
    <2>2. ASSUME NEW g \in StreamGroups, AddWork(g) \/ RemovesStream(g) PROVE Kept
      <3>1. UNCHANGED <<live, broadcast, last, twitchPhase, found, twitchChan, dispatch, heard, again>>
        BY <2>2 DEF AddWork, AddAsks, AddTells, RemovesStream, streamVars, twitchRoundVars, dispVars, hearVars
      <3> QED
        BY <3>1, QuietKeeps
    <2>3. CASE UNCHANGED twitchVars
      <3>1. UNCHANGED <<live, broadcast, last, twitchPhase, found, twitchChan, dispatch, heard, again>>
        BY <2>3 DEF twitchVars, streamVars, twitchRoundVars, dispVars, hearVars
      <3> QED
        BY <3>1, QuietKeeps
    <2> QED
      BY <2>1, <2>2, <2>3, GoesLiveKeeps, FetchesStreamsKeeps, ComparesStatusKeeps, EmitsStatusKeeps, StoresStatusKeeps,
         TwitchRestartsKeeps, TakesKeeps, DeliversKeeps, AddsKeeps
      DEF TwitchNext, Streams, TwitchRound, Dispatch
  <1> QED
    BY <1>1, <1>2 DEF Kept, TwitchIInv

\* The invariant says what StreamsToldTrue does.
LEMMA TwitchIInvTells == TwitchIInv => TwitchTypeOK /\ StreamsToldTrue
  BY DEF TwitchIInv, OneCopy, OneCopyOf, ToldOnce, StreamsToldTrue

\* Every variable of TwitchLive stays in its range.
THEOREM TwitchTypeCorrect == TwitchSpec => []TwitchTypeOK
  <1> QED
    BY TwitchInitIInv, TwitchNextIInv, TwitchIInvTells, PTL DEF TwitchSpec

\* The rounds tell a group once that a broadcast has begun, unless the status could not be stored
\* or a restart came before it was, and the end on its way is that of a broadcast that is over.
THEOREM StreamsAreToldTrue == TwitchSpec => []StreamsToldTrue
  <1> QED
    BY TwitchInitIInv, TwitchNextIInv, TwitchIInvTells, PTL DEF TwitchSpec
=============================================================================
