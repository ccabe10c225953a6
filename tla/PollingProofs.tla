---------------------------- MODULE PollingProofs ----------------------------
(***************************************************************************)
(* Proofs about what is polled, and when.  Subscriptions: what a group      *)
(* follows is held by the emit queue, or Start or an Add is about to put it *)
(* there.  EmitQueue: the list is read as a circle that begins at the       *)
(* cursor, and an id that has waited for another one's turn comes before it.*)
(***************************************************************************)
EXTENDS Subscriptions, EmitQueue, FiniteSetTheorems, SequenceTheorems, TLAPS

(* Subscriptions: the invariant *)

\* One command at a time.
OneCaller == \A c, d \in Callers : c = d

\* What the emit queue holds for i, or Start has still to add.
InSight(i) == Polled(i) \cup (IF i \in DOMAIN toAdd THEN toAdd[i] ELSE {})

\* c is adding a subscription for i.
AddsFor(c, i) == call[c].op = "add" /\ call[c].id = i

\* GetConcern returned at least what is followed by now; and from the moment Start has
\* listed the rows, only an Add for i that has not come to its end leaves a type of i out.
Covered ==
    /\ start # "adding" => DOMAIN toAdd = {}
    /\ \A c \in Callers : call[c].op # "none" /\ call[c].pc = "poll" =>
          GetConcern(call[c].id) \subseteq call[c].all
    /\ start # "new" =>
          \A i \in SiteIds : (\A c \in Callers : ~AddsFor(c, i)) => GetConcern(i) \subseteq InSight(i)

-----------------------------------------------------------------------------
(* Subscriptions: rows *)

Db == [Codes -> [SiteIds -> SUBSET Types]]

WithinLimit == MaxGroupConcern > 0 => \A g \in Codes : Cardinality(FollowedBy(g)) <= MaxGroupConcern

\* Rows that lose types keep within the limit, and an id has no types it did not have.
LEMMA RowsShrink ==
    ASSUME db' \in Db, WithinLimit,
           \A g \in Codes, i \in SiteIds : db'[g][i] \subseteq db[g][i]
    PROVE  WithinLimit' /\ \A i \in SiteIds : GetConcern(i)' \subseteq GetConcern(i)
  <1>1. \A i \in SiteIds : GetConcern(i)' \subseteq GetConcern(i)
    BY DEF GetConcern
  <1>2. ASSUME NEW g \in Codes, MaxGroupConcern > 0
        PROVE  Cardinality(FollowedBy(g)') <= MaxGroupConcern
    <2>1. FollowedBy(g)' \subseteq FollowedBy(g) /\ FollowedBy(g) \subseteq SiteIds
      BY DEF FollowedBy
    <2>2. IsFiniteSet(FollowedBy(g))
      BY <2>1, SubscriptionsAssumption, FS_Subset
    <2>3. /\ IsFiniteSet(FollowedBy(g)')
          /\ Cardinality(FollowedBy(g)') <= Cardinality(FollowedBy(g))
      BY <2>1, <2>2, FS_Subset
    <2>4. Cardinality(FollowedBy(g)) \in Nat /\ Cardinality(FollowedBy(g)') \in Nat
      BY <2>2, <2>3, FS_CardinalityType
    <2>5. Cardinality(FollowedBy(g)) <= MaxGroupConcern
      BY <1>2 DEF WithinLimit
    <2> QED
      BY <2>3, <2>4, <2>5, SubscriptionsAssumption
  <1> QED
    BY <1>1, <1>2 DEF WithinLimit

\* The check in the transaction keeps a group within the limit.
LEMMA RowAdded ==
    ASSUME db \in Db, WithinLimit, NEW g \in Codes, NEW i \in SiteIds, NEW t \in Types,
           MayAdd(g, i, t), db' = [db EXCEPT ![g][i] = @ \cup {t}]
    PROVE  /\ db' \in Db /\ WithinLimit'
           /\ \A j \in SiteIds \ {i} : GetConcern(j)' = GetConcern(j)
  <1>1. /\ db' \in Db
        /\ \A h \in Codes, j \in SiteIds :
              db'[h][j] = IF h = g /\ j = i THEN db[h][j] \cup {t} ELSE db[h][j]
    BY DEF Db
  <1>2. \A j \in SiteIds \ {i} : GetConcern(j)' = GetConcern(j)
    BY <1>1 DEF GetConcern
  <1>3. ASSUME NEW h \in Codes, MaxGroupConcern > 0
        PROVE  Cardinality(FollowedBy(h)') <= MaxGroupConcern
    <2>1. CASE h # g
      <3>1. FollowedBy(h)' = FollowedBy(h)
        BY <1>1, <2>1 DEF FollowedBy
      <3> QED
        BY <1>3, <3>1 DEF WithinLimit
    <2>2. CASE h = g
      <3>1. FollowedBy(g)' = FollowedBy(g) \cup {i} /\ FollowedBy(g) \subseteq SiteIds
        BY <1>1 DEF FollowedBy
      <3>2. IsFiniteSet(FollowedBy(g))
        BY <3>1, SubscriptionsAssumption, FS_Subset
      <3>3. Cardinality(FollowedBy(g) \cup {i}) =
               IF i \in FollowedBy(g) THEN Cardinality(FollowedBy(g))
               ELSE Cardinality(FollowedBy(g)) + 1
        BY <3>2, FS_AddElement
      <3>4. Cardinality(FollowedBy(g)) < MaxGroupConcern
        BY <1>3 DEF MayAdd
      <3>5. Cardinality(FollowedBy(g)) \in Nat
        BY <3>2, FS_CardinalityType
      <3> QED
        BY <2>2, <3>1, <3>3, <3>4, <3>5, SubscriptionsAssumption
    <2> QED
      BY <2>1, <2>2
  <1> QED
    BY <1>1, <1>2, <1>3 DEF WithinLimit

-----------------------------------------------------------------------------
(* Subscriptions: the emit queue as a function, and calls *)

TypedList(q) == DOMAIN q \subseteq SiteIds /\ q \in [DOMAIN q -> SUBSET Types]

\* Adding, updating and deleting leave a list of ids with types.
LEMMA QueueTyped ==
    ASSUME TypedList(queue), NEW i \in SiteIds, NEW all \in SUBSET Types
    PROVE  /\ TypedList(QueueAdd(i, all)) /\ TypedList(QueueUpdate(i, all)) /\ TypedList(QueueDelete(i))
  <1>1. Polled(i) \in SUBSET Types
    BY DEF Polled, TypedList
  <1>2. TypedList(QueueAdd(i, all))
    BY <1>1 DEF TypedList, QueueAdd
  <1>3. TypedList(QueueUpdate(i, all))
    BY DEF TypedList, QueueUpdate
  <1>4. TypedList(QueueDelete(i))
    BY DEF TypedList, QueueDelete, Restrict
  <1> QED
    BY <1>2, <1>3, <1>4

\* A call under way knows its id, and what it read.
LEMMA CallFields ==
    ASSUME call \in [Callers -> Calls], NEW c \in Callers, call[c].op # "none"
    PROVE  /\ call[c].op \in {"add", "remove"} /\ call[c].id \in SiteIds
           /\ call[c].pc \in {"read", "poll"}
           /\ call[c].pc = "poll" => call[c].all \in SUBSET Types
  <1>1. call[c] \in Calls /\ call[c] # NoCall
    BY DEF NoCall
  <1> QED
    BY <1>1 DEF Calls

-----------------------------------------------------------------------------
(* Subscriptions: types *)

SubsTyped ==
    /\ db \in Db /\ WithinLimit /\ configs \subseteq Codes \X SiteIds
    /\ TypedList(queue) /\ call \in [Callers -> Calls]
    /\ start \in {"new", "adding", "done"} /\ TypedList(toAdd)
    /\ restarts \in 0..MaxRestarts

LEMMA TypedIsTypeOK == SubsTyped <=> SubsTypeOK
  BY DEF SubsTyped, SubsTypeOK, Db, WithinLimit, TypedList

LEMMA EmptyList == DOMAIN <<>> = {} /\ TypedList(<<>>)
  BY DEF TypedList

LEMMA InitTyped == SubsInit => SubsTyped
  <1> SUFFICES ASSUME SubsInit PROVE SubsTyped
    OBVIOUS
  <1>1. db \in Db
    BY DEF SubsInit, Db
  <1>2. WithinLimit
    <2> SUFFICES ASSUME NEW g \in Codes, MaxGroupConcern > 0
                 PROVE  Cardinality(FollowedBy(g)) <= MaxGroupConcern
      BY DEF WithinLimit
    <2>1. FollowedBy(g) = {}
      BY DEF FollowedBy, SubsInit
    <2> QED
      BY <2>1, FS_EmptySet, SubscriptionsAssumption
  <1>3. call \in [Callers -> Calls]
    BY DEF SubsInit, Calls
  <1> QED
    BY <1>1, <1>2, <1>3, EmptyList, SubscriptionsAssumption DEF SubsInit, SubsTyped

LEMMA StepTyped == SubsTyped /\ [SubsNext]_subsVars => SubsTyped'
  <1> SUFFICES ASSUME SubsTyped, [SubsNext]_subsVars PROVE SubsTyped'
    OBVIOUS
  <1>1. CASE UNCHANGED subsVars
    BY <1>1 DEF subsVars, startVars, SubsTyped, WithinLimit, FollowedBy, TypedList
  <1>2. ASSUME NEW c \in Callers, NEW g \in Codes, NEW i \in SiteIds, NEW t \in Types,
               AddTx(c, g, i, t)
        PROVE  SubsTyped'
    <2>1. db' \in Db /\ WithinLimit'
      BY <1>2, RowAdded DEF AddTx, SubsTyped
    <2>2. call' \in [Callers -> Calls]
      BY <1>2 DEF AddTx, SubsTyped, Calls
    <2> QED
      BY <1>2, <2>1, <2>2 DEF AddTx, SubsTyped, startVars, TypedList
  <1>3. ASSUME NEW c \in Callers, NEW g \in Codes, NEW i \in SiteIds, NEW t \in Types,
               RemoveTx(c, g, i, t)
        PROVE  SubsTyped'
    <2>1. db' \in Db /\ \A h \in Codes, j \in SiteIds : db'[h][j] \subseteq db[h][j]
      BY <1>3 DEF RemoveTx, SubsTyped, Db
    <2>2. WithinLimit'
      BY <2>1, RowsShrink DEF SubsTyped
    <2>3. call' \in [Callers -> Calls]
      BY <1>3 DEF RemoveTx, SubsTyped, Calls
    <2> QED
      BY <1>3, <2>1, <2>2, <2>3 DEF RemoveTx, SubsTyped, startVars, TypedList
  <1>4. ASSUME NEW c \in Callers, ReadConcern(c) PROVE SubsTyped'
    <2>1. call[c].op \in {"add", "remove"} /\ call[c].id \in SiteIds
      BY <1>4, CallFields DEF ReadConcern, SubsTyped
    <2>2. GetConcern(call[c].id) \in SUBSET Types
      BY <2>1 DEF GetConcern, SubsTyped, Db
    <2>3. call' \in [Callers -> Calls]
      BY <1>4, <2>1, <2>2 DEF ReadConcern, SubsTyped, Calls
    <2> QED
      BY <1>4, <2>3 DEF ReadConcern, SubsTyped, startVars, WithinLimit, FollowedBy, TypedList
  <1>5. ASSUME NEW c \in Callers, Poll(c) \/ PollLess(c) PROVE SubsTyped'
    <2>1. call[c].id \in SiteIds /\ call[c].all \in SUBSET Types
      BY <1>5, CallFields DEF Poll, PollLess, SubsTyped
    <2>2. TypedList(queue')
      <3>1. /\ TypedList(QueueAdd(call[c].id, call[c].all))
            /\ TypedList(QueueUpdate(call[c].id, call[c].all))
            /\ TypedList(QueueDelete(call[c].id))
        BY <2>1, QueueTyped DEF SubsTyped
      <3> QED
        BY <1>5, <3>1 DEF Poll, PollLess
    <2>3. call' \in [Callers -> Calls]
      BY <1>5 DEF Poll, PollLess, SubsTyped, Calls
    <2> QED
      BY <1>5, <2>2, <2>3 DEF Poll, PollLess, SubsTyped, startVars, WithinLimit, FollowedBy, TypedList
  <1>6. ASSUME NEW g \in Codes, NEW i \in SiteIds, Configure(g, i) PROVE SubsTyped'
    BY <1>6 DEF Configure, SubsTyped, startVars, WithinLimit, FollowedBy, TypedList
  <1>7. ASSUME NEW g \in Codes, RemoveAllByGroupCode(g) PROVE SubsTyped'
    <2>1. db' \in Db /\ \A h \in Codes, j \in SiteIds : db'[h][j] \subseteq db[h][j]
      BY <1>7 DEF RemoveAllByGroupCode, SubsTyped, Db
    <2>2. WithinLimit'
      BY <2>1, RowsShrink DEF SubsTyped
    <2> QED
      BY <1>7, <2>1, <2>2 DEF RemoveAllByGroupCode, SubsTyped, startVars, TypedList
  <1>8. ASSUME NEW i \in SiteIds, RemoveAllById(i) PROVE SubsTyped'
    <2>1. db' \in Db /\ \A h \in Codes, j \in SiteIds : db'[h][j] \subseteq db[h][j]
      BY <1>8 DEF RemoveAllById, SubsTyped, Db
    <2>2. WithinLimit'
      BY <2>1, RowsShrink DEF SubsTyped
    <2>3. TypedList(queue')
      BY <1>8, QueueTyped DEF RemoveAllById, SubsTyped
    <2> QED
      BY <1>8, <2>1, <2>2, <2>3 DEF RemoveAllById, SubsTyped, startVars, TypedList
  <1>9. CASE StartLists
    <2>1. \A i \in SiteIds : GetConcern(i) \in SUBSET Types
      BY DEF GetConcern, SubsTyped, Db
    <2>2. TypedList(toAdd')
      BY <1>9, <2>1 DEF StartLists, TypedList, Followed
    <2> QED
      BY <1>9, <2>2 DEF StartLists, SubsTyped, WithinLimit, FollowedBy, TypedList
  <1>10. ASSUME NEW i \in SiteIds, StartAdds(i) PROVE SubsTyped'
    <2>1. toAdd[i] \in SUBSET Types
      BY <1>10 DEF StartAdds, SubsTyped, TypedList
    <2>2. TypedList(queue')
      BY <1>10, <2>1, QueueTyped DEF StartAdds, SubsTyped
    <2>3. TypedList(toAdd')
      BY <1>10 DEF StartAdds, SubsTyped, TypedList, Restrict
    <2> QED
      BY <1>10, <2>2, <2>3 DEF StartAdds, SubsTyped, WithinLimit, FollowedBy
  <1>11. CASE StartEnds
    BY <1>11 DEF StartEnds, SubsTyped, WithinLimit, FollowedBy, TypedList
  <1>12. CASE Restart
    <2>1. call' \in [Callers -> Calls] /\ restarts' \in 0..MaxRestarts
      BY <1>12, SubscriptionsAssumption DEF Restart, SubsTyped, Calls
    <2> QED
      BY <1>12, <2>1, EmptyList DEF Restart, SubsTyped, WithinLimit, FollowedBy
  <1> QED
    BY <1>1, <1>2, <1>3, <1>4, <1>5, <1>6, <1>7, <1>8, <1>9, <1>10, <1>11, <1>12
       DEF SubsNext, GroupCommands

-----------------------------------------------------------------------------
(* Subscriptions: what is followed is in sight *)

LEMMA InitCovered == SubsInit => Covered
  BY EmptyList DEF SubsInit, Covered, NoCall

\* Commands: the rows first, what is read of them, and the emit queue last.
LEMMA CommandCovered ==
    ASSUME SubsTyped, Covered, NEW c \in Callers, \A d \in Callers : d = c,
           \/ \E g \in Codes, i \in SiteIds, t \in Types : AddTx(c, g, i, t) \/ RemoveTx(c, g, i, t)
           \/ ReadConcern(c) \/ Poll(c) \/ PollLess(c)
    PROVE  Covered'
  <1>1. ASSUME NEW g \in Codes, NEW i \in SiteIds, NEW t \in Types, AddTx(c, g, i, t)
        PROVE  Covered'
    <2>1. /\ call[c] = NoCall /\ call'[c] = [op |-> "add", pc |-> "read", id |-> i]
          /\ UNCHANGED <<queue, start, toAdd>>
      BY <1>1 DEF AddTx, NotCalling, SubsTyped, startVars
    <2>2. \A j \in SiteIds \ {i} : GetConcern(j)' = GetConcern(j)
      BY <1>1, RowAdded DEF AddTx, SubsTyped
    <2>3. \A j \in SiteIds : InSight(j)' = InSight(j)
      BY <2>1 DEF InSight, Polled
    <2>4. AddsFor(c, i)' /\ \A j \in SiteIds : ~AddsFor(c, j)
      BY <2>1 DEF AddsFor, NoCall
    <2> QED
      BY <2>1, <2>2, <2>3, <2>4 DEF Covered
  <1>2. ASSUME NEW g \in Codes, NEW i \in SiteIds, NEW t \in Types, RemoveTx(c, g, i, t)
        PROVE  Covered'
    <2>1. /\ call[c] = NoCall /\ call'[c] = [op |-> "remove", pc |-> "read", id |-> i]
          /\ UNCHANGED <<queue, start, toAdd>>
      BY <1>2 DEF RemoveTx, NotCalling, SubsTyped, startVars
    <2>2. db' \in Db /\ \A h \in Codes, j \in SiteIds : db'[h][j] \subseteq db[h][j]
      BY <1>2 DEF RemoveTx, SubsTyped, Db
    <2>3. \A j \in SiteIds : GetConcern(j)' \subseteq GetConcern(j)
      BY <2>2, RowsShrink DEF SubsTyped
    <2>4. \A j \in SiteIds : InSight(j)' = InSight(j)
      BY <2>1 DEF InSight, Polled
    <2>5. \A j \in SiteIds : ~AddsFor(c, j)
      BY <2>1 DEF AddsFor, NoCall
    <2> QED
      BY <2>1, <2>3, <2>4, <2>5 DEF Covered
  <1>3. CASE ReadConcern(c)
    <2>1. call[c].op # "none" /\ call[c].op \in {"add", "remove"} /\ call[c].id \in SiteIds
      BY <1>3, CallFields DEF ReadConcern, SubsTyped
    <2>2. /\ call'[c] = [op |-> call[c].op, pc |-> "poll", id |-> call[c].id,
                         all |-> GetConcern(call[c].id)]
          /\ UNCHANGED <<db, queue, start, toAdd>>
      BY <1>3 DEF ReadConcern, SubsTyped, startVars
    <2>3. \A j \in SiteIds : GetConcern(j)' = GetConcern(j) /\ InSight(j)' = InSight(j)
      BY <2>2 DEF InSight, Polled, GetConcern
    <2>4. \A j \in SiteIds : AddsFor(c, j)' <=> AddsFor(c, j)
      BY <2>2 DEF AddsFor
    <2> PICK k \in SiteIds : k = call[c].id
      BY <2>1
    <2>5. call'[c].id = k /\ call'[c].all = GetConcern(k) /\ GetConcern(k)' = GetConcern(k)
      BY <2>2, <2>3
    <2>6. \A d \in Callers : GetConcern(call[d].id)' \subseteq call'[d].all
      BY <2>5 DEF GetConcern
    <2>7. start # "new" =>
             \A j \in SiteIds : ~AddsFor(c, j) => GetConcern(j) \subseteq InSight(j)
      BY DEF Covered
    <2> QED
      BY <2>2, <2>3, <2>4, <2>6, <2>7 DEF Covered
  <1>4. CASE Poll(c) \/ PollLess(c)
    <2>1. call[c].id \in SiteIds /\ call[c].all \in SUBSET Types
      BY <1>4, CallFields DEF Poll, PollLess, SubsTyped
    <2> PICK i \in SiteIds, all \in SUBSET Types : i = call[c].id /\ all = call[c].all
      BY <2>1
    <2>2. /\ GetConcern(i) \subseteq all /\ call[c].op \in {"add", "remove"}
          /\ call'[c] = NoCall /\ UNCHANGED <<db, start, toAdd>>
      BY <1>4 DEF Poll, PollLess, SubsTyped, startVars, Covered
    <2>3. \A j \in SiteIds \ {i} : ~AddsFor(c, j)
      BY DEF AddsFor
    <2>4. \A j \in SiteIds : GetConcern(j)' = GetConcern(j)
      BY <2>2 DEF GetConcern
    <2>6. \A j \in SiteIds \ {i} : /\ j \in DOMAIN queue' <=> j \in DOMAIN queue
                                   /\ j \in DOMAIN queue => queue'[j] = queue[j]
      <3>1. queue' \in {QueueAdd(i, all), QueueDelete(i), QueueUpdate(i, all)}
        BY <1>4 DEF Poll, PollLess
      <3>2. CASE queue' = QueueAdd(i, all)
        BY <3>2 DEF QueueAdd
      <3>3. CASE queue' = QueueDelete(i)
        BY <3>3 DEF QueueDelete, Restrict
      <3>4. CASE queue' = QueueUpdate(i, all)
        BY <3>4 DEF QueueUpdate
      <3> QED
        BY <3>1, <3>2, <3>3, <3>4
    <2>7. \A j \in SiteIds \ {i} : InSight(j)' = InSight(j)
      BY <2>2, <2>6 DEF InSight, Polled
    <2>8. start # "new" => GetConcern(i) \subseteq InSight(i)'
      <3>1. CASE Poll(c)
        <4>1. queue' = QueueAdd(i, all)
          BY <3>1 DEF Poll
        <4>2. i \in DOMAIN queue' /\ all \subseteq queue'[i]
          BY <4>1 DEF QueueAdd
        <4> QED
          BY <2>2, <4>2 DEF InSight, Polled
      <3>2. CASE PollLess(c) /\ all = {}
        BY <2>2, <3>2
      <3>3. CASE PollLess(c) /\ all # {}
        <4>1. queue' = QueueUpdate(i, all)
          BY <3>3 DEF PollLess
        <4>2. DOMAIN queue' = DOMAIN queue /\ (i \in DOMAIN queue => queue'[i] = all)
          BY <4>1 DEF QueueUpdate
        <4>3. start # "new" => GetConcern(i) \subseteq InSight(i)
          <5>1. ~AddsFor(c, i)
            BY <3>3 DEF AddsFor, PollLess
          <5> QED
            BY <5>1 DEF Covered
        <4> QED
          BY <2>2, <4>2, <4>3 DEF InSight, Polled
      <3> QED
        BY <1>4, <3>1, <3>2, <3>3
    <2>9. start # "new" =>
             \A j \in SiteIds \ {i} : GetConcern(j) \subseteq InSight(j)
      BY <2>3 DEF Covered
    <2>10. start' # "new" => \A j \in SiteIds : GetConcern(j)' \subseteq InSight(j)'
      BY <2>2, <2>4, <2>7, <2>8, <2>9
    <2> QED
      BY <2>2, <2>10 DEF Covered, NoCall
  <1> QED
    BY <1>1, <1>2, <1>3, <1>4

\* The operations of one transaction, and Start.
LEMMA OtherCovered ==
    ASSUME SubsTyped, Covered,
           \/ \E g \in Codes, i \in SiteIds : Configure(g, i)
           \/ \E g \in Codes : RemoveAllByGroupCode(g)
           \/ \E i \in SiteIds : RemoveAllById(i) \/ StartAdds(i)
           \/ StartLists \/ StartEnds \/ Restart
    PROVE  Covered'
  <1>1. ASSUME NEW g \in Codes, NEW i \in SiteIds, Configure(g, i) PROVE Covered'
    BY <1>1 DEF Configure, startVars, Covered, GetConcern, InSight, Polled, AddsFor
  <1>2. ASSUME UNCHANGED <<call, start, toAdd>>,
               db' \in Db, \A h \in Codes, j \in SiteIds : db'[h][j] \subseteq db[h][j],
               \A j \in SiteIds : GetConcern(j)' # {} => InSight(j)' = InSight(j)
        PROVE  Covered'
    <2>1. \A j \in SiteIds : GetConcern(j)' \subseteq GetConcern(j)
      BY <1>2, RowsShrink DEF SubsTyped
    <2>2. \A d \in Callers : call[d].op # "none" => call[d].id \in SiteIds
      BY CallFields DEF SubsTyped
    <2>3. \A d \in Callers, j \in SiteIds : AddsFor(d, j)' <=> AddsFor(d, j)
      BY <1>2 DEF AddsFor
    <2> QED
      BY <1>2, <2>1, <2>2, <2>3 DEF Covered
  <1>3. ASSUME NEW g \in Codes, RemoveAllByGroupCode(g) PROVE Covered'
    <2>1. db' \in Db /\ \A h \in Codes, j \in SiteIds : db'[h][j] \subseteq db[h][j]
      BY <1>3 DEF RemoveAllByGroupCode, SubsTyped, Db
    <2>2. UNCHANGED <<call, start, toAdd, queue>>
      BY <1>3 DEF RemoveAllByGroupCode, startVars
    <2> QED
      BY <1>2, <2>1, <2>2 DEF InSight, Polled
  <1>4. ASSUME NEW i \in SiteIds, RemoveAllById(i) PROVE Covered'
    <2>1. db' \in Db /\ \A h \in Codes, j \in SiteIds : db'[h][j] \subseteq db[h][j]
      BY <1>4 DEF RemoveAllById, SubsTyped, Db
    <2>2. UNCHANGED <<call, start, toAdd>> /\ queue' = QueueDelete(i)
      BY <1>4 DEF RemoveAllById, startVars
    <2>3. GetConcern(i)' = {}
      BY <1>4 DEF RemoveAllById, SubsTyped, Db, GetConcern
    <2>4. \A j \in SiteIds \ {i} : InSight(j)' = InSight(j)
      <3>1. DOMAIN queue' = DOMAIN queue \ {i} /\ \A j \in DOMAIN queue' : queue'[j] = queue[j]
        BY <2>2 DEF QueueDelete, Restrict
      <3> QED
        BY <2>2, <3>1 DEF InSight, Polled
    <2> QED
      BY <1>2, <2>1, <2>2, <2>3, <2>4
  <1>5. ASSUME NEW i \in SiteIds, StartAdds(i) PROVE Covered'
    <2>1. /\ start = "adding" /\ i \in DOMAIN toAdd /\ queue' = QueueAdd(i, toAdd[i])
          /\ DOMAIN toAdd' = DOMAIN toAdd \ {i}
          /\ \A j \in DOMAIN toAdd \ {i} : toAdd'[j] = toAdd[j]
          /\ UNCHANGED <<db, call, start>>
      BY <1>5 DEF StartAdds, Restrict
    <2>2. toAdd[i] \in SUBSET Types
      BY <2>1 DEF SubsTyped, TypedList
    <2>4. /\ DOMAIN queue' = DOMAIN queue \cup {i} /\ queue'[i] = Polled(i) \cup toAdd[i]
          /\ \A j \in DOMAIN queue \ {i} : queue'[j] = queue[j]
      BY <2>1 DEF QueueAdd
    <2>5. \A j \in SiteIds : InSight(j)' = InSight(j)
      BY <2>1, <2>4 DEF InSight, Polled
    <2>6. \A j \in SiteIds : GetConcern(j)' = GetConcern(j)
      BY <2>1 DEF GetConcern
    <2>7. \A d \in Callers : call[d].op # "none" => call[d].id \in SiteIds
      BY CallFields DEF SubsTyped
    <2> QED
      BY <2>1, <2>5, <2>6, <2>7 DEF Covered, AddsFor
  <1>6. CASE StartLists
    <2>1. \A j \in SiteIds : GetConcern(j) \subseteq InSight(j)'
      BY <1>6 DEF StartLists, InSight, Followed
    <2> QED
      BY <1>6, <2>1 DEF StartLists, Covered, GetConcern
  <1>7. CASE StartEnds
    <2>1. DOMAIN toAdd' = {}
      BY <1>7, EmptyList DEF StartEnds
    <2> QED
      BY <1>7, <2>1 DEF StartEnds, Covered, GetConcern, InSight, Polled, AddsFor
  <1>8. CASE Restart
    BY <1>8, EmptyList DEF Restart, Covered, NoCall
  <1> QED
    BY <1>1, <1>3, <1>4, <1>5, <1>6, <1>7, <1>8

LEMMA StepCovered == OneCaller /\ SubsTyped /\ Covered /\ [SubsNext]_subsVars => Covered'
  <1> SUFFICES ASSUME OneCaller, SubsTyped, Covered, [SubsNext]_subsVars PROVE Covered'
    OBVIOUS
  <1>1. CASE UNCHANGED subsVars
    BY <1>1 DEF subsVars, startVars, Covered, GetConcern, InSight, Polled, AddsFor
  <1>2. ASSUME NEW c \in Callers,
               \/ \E g \in Codes, i \in SiteIds, t \in Types : AddTx(c, g, i, t) \/ RemoveTx(c, g, i, t)
               \/ ReadConcern(c) \/ Poll(c) \/ PollLess(c)
        PROVE  Covered'
    <2>1. \A d \in Callers : d = c
      BY DEF OneCaller
    <2> QED
      BY <1>2, <2>1, CommandCovered
  <1> QED
    BY <1>1, <1>2, OtherCovered DEF SubsNext, GroupCommands

\* Every variable stays in its range, with any number of commands at once: no group is
\* over the limit, since CheckGroupConcern and the row are in one transaction.
THEOREM SubscriptionsTypeCorrect == SubsSpec => []SubsTypeOK
  <1>1. SubsSpec => []SubsTyped
    BY InitTyped, StepTyped, PTL DEF SubsSpec
  <1> QED
    BY <1>1, TypedIsTypeOK, PTL

\* With one command at a time, what is subscribed is polled once Start is done, in any
\* order of commands, of departures from groups and of the steps of Start.
THEOREM SubscribedArePolled == ASSUME OneCaller PROVE SubsSpec => []SubscribedIsPolled
  <1>1. SubsTyped /\ Covered => SubscribedIsPolled
    <2> SUFFICES ASSUME SubsTyped, Covered, start = "done", NEW i \in SiteIds,
                        \A c \in Callers : call[c].op # "none" => call[c].id # i
                 PROVE  GetConcern(i) \subseteq Polled(i)
      BY DEF SubscribedIsPolled
    <2>1. \A c \in Callers : ~AddsFor(c, i)
      BY DEF AddsFor
    <2>2. DOMAIN toAdd = {} /\ GetConcern(i) \subseteq InSight(i)
      BY <2>1 DEF Covered
    <2> QED
      BY <2>2 DEF InSight
  <1>2. OneCaller /\ SubsSpec => [](SubsTyped /\ Covered)
    BY InitTyped, StepTyped, InitCovered, StepCovered, PTL DEF SubsSpec
  <1> QED
    BY <1>1, <1>2, PTL

-----------------------------------------------------------------------------
(* EmitQueue: the invariant *)

Injective(q) == \A k, l \in 1..Len(q) : q[k] = q[l] => k = l

\* The cursor cur of the list q is at place c, one past the end when it ran off.
CursorAt(q, cur, c) ==
    /\ c \in 1..(Len(q) + 1)
    /\ c <= Len(q) => cur = q[c]
    /\ c > Len(q) => cur = None

\* Counted from the cursor at c, round the end of the list, place k comes before l.
Earlier(c, k, l) ==
    \/ k < l /\ (l < c \/ k >= c)
    \/ k >= c /\ l < c

\* The next turn of y comes before that of x.
Due(q, c, y, x) ==
    \E k \in 1..Len(q), l \in 1..Len(q) : q[k] = y /\ q[l] = x /\ Earlier(c, k, l)

\* What y has waited for was emitted once, and comes after y now.
Waited(q, c, t) ==
    \A x \in Ids, y \in Ids : t[y][x] # 0 => t[y][x] = 1 /\ Due(q, c, y, x)

Turns == [Ids -> [Ids -> Nat]]

InOrder ==
    \E c \in 1..(Len(eqlist) + 1) :
        CursorAt(eqlist, eqlistCur, c) /\ Waited(eqlist, c, turns)

\* The inductive invariant.
IInv == EmitTypeOK /\ InOrder

-----------------------------------------------------------------------------
(* EmitQueue: the list *)

\* RemoveFirst takes out the one place that holds the id.
LEMMA Removed ==
    ASSUME NEW q \in Seq(Ids), Injective(q), NEW p \in 1..Len(q)
    PROVE  /\ RemoveFirst(q, q[p]) \in Seq(Ids)
           /\ Len(RemoveFirst(q, q[p])) = Len(q) - 1
           /\ \A k \in 1..(Len(q) - 1) :
                 RemoveFirst(q, q[p])[k] = IF k < p THEN q[k] ELSE q[k + 1]
  <1> DEFINE I == {k \in 1..Len(q) : q[k] = q[p]}
  <1>1. I = {p} /\ p \in Int
    BY DEF Injective
  <1>2. Min(I) = p
    BY <1>1 DEF Min
  <1>3. SelectInSeq(q, LAMBDA v : v = q[p]) = p
    BY <1>1, <1>2 DEF SelectInSeq
  <1>4. RemoveFirst(q, q[p]) = SubSeq(q, 1, p - 1) \o SubSeq(q, p + 1, Len(q))
    BY <1>3 DEF RemoveFirst, RemoveAt
  <1> DEFINE a == SubSeq(q, 1, p - 1)
             b == SubSeq(q, p + 1, Len(q))
  <1>5. /\ a \in Seq(Ids) /\ Len(a) = p - 1
        /\ \A k \in 1..(p - 1) : a[k] = q[k]
    OBVIOUS
  <1>6. /\ b \in Seq(Ids) /\ Len(b) = Len(q) - p
        /\ \A k \in 1..(Len(q) - p) : b[k] = q[k + p]
    OBVIOUS
  <1> HIDE DEF a, b
  <1>7. /\ a \o b \in Seq(Ids) /\ Len(a \o b) = Len(q) - 1
        /\ \A k \in 1..(Len(q) - 1) : (a \o b)[k] = IF k <= p - 1 THEN a[k] ELSE b[k - (p - 1)]
    BY <1>5, <1>6, ConcatProperties
  <1>8. ASSUME NEW k \in 1..(Len(q) - 1), k < p PROVE (a \o b)[k] = q[k]
    BY <1>5, <1>7, <1>8
  <1>9. ASSUME NEW k \in 1..(Len(q) - 1), ~(k < p) PROVE (a \o b)[k] = q[k + 1]
    <2>1. (a \o b)[k] = b[k - (p - 1)]
      BY <1>7, <1>9
    <2>2. k - (p - 1) \in 1..(Len(q) - p) /\ (k - (p - 1)) + p = k + 1
      BY <1>9
    <2> QED
      BY <1>6, <2>1, <2>2
  <1> QED
    BY <1>4, <1>7, <1>8, <1>9 DEF a, b

\* Without the id the list stays as it is.
LEMMA NotRemoved ==
    ASSUME NEW q \in Seq(Ids), NEW i, \A k \in 1..Len(q) : q[k] # i
    PROVE  RemoveFirst(q, i) = q
  BY DEF RemoveFirst

\* The element after the one at place p.
LEMMA NextIs ==
    ASSUME eqlist \in Seq(Ids), Injective(eqlist), NEW p \in 1..Len(eqlist)
    PROVE  CursorAt(eqlist, NextOf(eqlist[p]), p + 1)
  <1>1. CASE p < Len(eqlist)
    <2>1. p \in 1..(Len(eqlist) - 1)
      BY <1>1
    <2>2. \A k \in 1..(Len(eqlist) - 1) : eqlist[k] = eqlist[p] => k = p
      BY DEF Injective
    <2>3. NextOf(eqlist[p]) = eqlist[p + 1]
      BY <2>1, <2>2 DEF NextOf
    <2> QED
      BY <1>1, <2>3 DEF CursorAt
  <1>2. CASE p = Len(eqlist)
    <2>1. \A k \in 1..(Len(eqlist) - 1) : eqlist[k] # eqlist[p]
      BY <1>2 DEF Injective
    <2>2. NextOf(eqlist[p]) = None
      BY <2>1 DEF NextOf
    <2> QED
      BY <1>2, <2>2 DEF CursorAt
  <1> QED
    BY <1>1, <1>2

\* What TypeOK says of the list.
ListOK(q, cur) ==
    /\ q \in Seq(Ids) /\ Injective(q)
    /\ cur \in Ids \cup {None}
    /\ cur # None => \E k \in 1..Len(q) : q[k] = cur

RestOK ==
    /\ core \in {"new", "check", "checked", "waiting", "timer", "take", "emit", "exit", "panicked"}
    /\ headE \in Ids \cup {None}
    /\ headE # None <=> core = "emit"
    /\ stopped \in BOOLEAN /\ stopClosed \in BOOLEAN
    /\ stopCall \in {"no", "store", "close", "broadcast", "wait", "returned"}
    /\ fresher \in {"ready", "busy", "gone"}

LEMMA TypeParts ==
    EmitTypeOK <=> ListOK(eqlist, eqlistCur) /\ RestOK /\ turns \in Turns
  <1>1. eqlist \in Seq(Ids) => DOMAIN eqlist = 1..Len(eqlist)
    OBVIOUS
  <1> QED
    BY <1>1 DEF EmitTypeOK, ListOK, RestOK, Turns, Injective, Listed

\* A cursor that is at a place of the list is an id of the list.
LEMMA CursorListed ==
    ASSUME NEW q \in Seq(Ids), Injective(q), NEW cur, NEW c, CursorAt(q, cur, c)
    PROVE  ListOK(q, cur)
  <1>1. Len(q) \in Nat /\ c \in 1..(Len(q) + 1)
    BY DEF CursorAt
  <1>2. CASE c <= Len(q)
    BY <1>1, <1>2 DEF CursorAt, ListOK
  <1>3. CASE c > Len(q)
    BY <1>1, <1>3 DEF CursorAt, ListOK
  <1> QED
    BY <1>1, <1>2, <1>3

-----------------------------------------------------------------------------
(* EmitQueue: Add, Delete and the turn of an id keep the order *)

\* An id that is new goes to the end of the list, which moves no one else.
LEMMA AddsLast ==
    ASSUME NEW q \in Seq(Ids), Injective(q), NEW i \in Ids, \A k \in 1..Len(q) : q[k] # i
    PROVE  /\ Append(q, i) \in Seq(Ids) /\ Injective(Append(q, i))
           /\ Len(Append(q, i)) = Len(q) + 1
           /\ \A k \in 1..Len(q) : Append(q, i)[k] = q[k]
           /\ Append(q, i)[Len(q) + 1] = i
  <1> DEFINE r == Append(q, i)
  <1>1. /\ r \in Seq(Ids) /\ Len(q) \in Nat /\ Len(r) = Len(q) + 1
        /\ r[Len(q) + 1] = i /\ \A k \in 1..Len(q) : r[k] = q[k]
    OBVIOUS
  <1>2. Injective(r)
    <2> SUFFICES ASSUME NEW k \in 1..Len(r), NEW l \in 1..Len(r), r[k] = r[l] PROVE k = l
      BY DEF Injective
    <2>1. \A m \in 1..Len(r) : m \in 1..Len(q) \/ m = Len(q) + 1
      BY <1>1
    <2> QED
      BY <1>1, <2>1 DEF Injective
  <1> QED
    BY <1>1, <1>2

\* Turns that an id that comes or goes has no part in.
LEMMA Forgotten ==
    ASSUME turns \in Turns, NEW i \in Ids
    PROVE  /\ Forget(i) \in Turns
           /\ \A x \in Ids, y \in Ids :
                 Forget(i)[y][x] = IF i \in {x, y} THEN 0 ELSE turns[y][x]
  BY DEF Forget, Turns

\* Add: a new id waits for nobody, and nobody for it.
LEMMA AddKeeps ==
    ASSUME IInv, NEW i \in Ids, Add(i)
    PROVE  ListOK(eqlist', eqlistCur') /\ turns' \in Turns /\ InOrder'
  <1> USE EmitQueueAssumption
  <1>1. /\ ListOK(eqlist, eqlistCur) /\ turns \in Turns /\ Len(eqlist) \in Nat
        /\ eqlist \in Seq(Ids) /\ Injective(eqlist)
    BY TypeParts DEF IInv, ListOK
  <1>2. PICK c \in 1..(Len(eqlist) + 1) :
           CursorAt(eqlist, eqlistCur, c) /\ Waited(eqlist, c, turns)
    BY DEF IInv, InOrder
  <1>3. SUFFICES ASSUME TRUE
                 PROVE  \E d \in 1..(Len(eqlist') + 1) :
                           /\ CursorAt(eqlist', eqlistCur', d) /\ Waited(eqlist', d, turns')
                           /\ eqlist' \in Seq(Ids) /\ Injective(eqlist') /\ turns' \in Turns
    <2>1. InOrder' = \E d \in 1..(Len(eqlist') + 1) :
                        CursorAt(eqlist', eqlistCur', d) /\ Waited(eqlist', d, turns')
      BY DEF InOrder
    <2> QED
      BY <2>1, CursorListed
  <1>4. CASE Listed(i)
    <2>1. eqlist' = eqlist /\ turns' = turns
      BY <1>4 DEF Add
    <2>2. CASE Len(eqlist) = 1
      <3>1. eqlistCur' = eqlist[1]
        BY <2>1, <2>2 DEF Add
      <3>2. CursorAt(eqlist', eqlistCur', 1)
        BY <2>1, <2>2, <3>1 DEF CursorAt
      <3>3. \A x \in Ids, y \in Ids : turns[y][x] = 0
        <4>1. \A k \in 1..Len(eqlist), l \in 1..Len(eqlist) : ~Earlier(c, k, l)
          BY <2>2 DEF Earlier
        <4> QED
          BY <1>2, <4>1 DEF Waited, Due
      <3>4. Waited(eqlist', 1, turns')
        BY <2>1, <3>3 DEF Waited
      <3> QED
        BY <1>1, <2>1, <2>2, <3>2, <3>4
    <2>3. CASE Len(eqlist) # 1
      <3>1. eqlistCur' = eqlistCur
        BY <2>1, <2>3 DEF Add
      <3> QED
        BY <1>1, <1>2, <2>1, <3>1
    <2> QED
      BY <2>2, <2>3
  <1>5. CASE ~Listed(i)
    <2>1. \A k \in 1..Len(eqlist) : eqlist[k] # i
      <3>1. DOMAIN eqlist = 1..Len(eqlist)
        BY <1>1
      <3> QED
        BY <1>5, <3>1 DEF Listed
    <2>2. eqlist' = Append(eqlist, i) /\ turns' = Forget(i)
      BY <1>5 DEF Add
    <2>3. /\ eqlist' \in Seq(Ids) /\ Injective(eqlist') /\ Len(eqlist') = Len(eqlist) + 1
          /\ \A k \in 1..Len(eqlist) : eqlist'[k] = eqlist[k]
          /\ eqlist'[Len(eqlist) + 1] = i
      BY <1>1, <2>1, <2>2, AddsLast
    <2>4. /\ turns' \in Turns
          /\ \A x \in Ids, y \in Ids : turns'[y][x] # 0 => turns'[y][x] = turns[y][x]
      BY <1>1, <2>2, Forgotten
    <2>5. CASE Len(eqlist) = 0
      <3>1. eqlistCur' = eqlist'[1]
        BY <2>3, <2>5 DEF Add
      <3>2. CursorAt(eqlist', eqlistCur', 1)
        BY <2>3, <2>5, <3>1 DEF CursorAt
      <3>3. \A x \in Ids, y \in Ids : turns[y][x] = 0
        BY <1>2, <2>5 DEF Waited, Due
      <3>4. Waited(eqlist', 1, turns')
        BY <2>4, <3>3 DEF Waited
      <3> QED
        BY <2>3, <2>4, <2>5, <3>2, <3>4
    <2>6. CASE Len(eqlist) # 0
      <3>1. eqlistCur' = eqlistCur
        BY <1>1, <2>3, <2>6 DEF Add
      <3> DEFINE d == IF c > Len(eqlist) THEN Len(eqlist) + 2 ELSE c
      <3>2. d \in 1..(Len(eqlist') + 1) /\ CursorAt(eqlist', eqlistCur', d)
        BY <1>1, <1>2, <2>3, <3>1 DEF CursorAt
      <3>3. \A k \in 1..Len(eqlist), l \in 1..Len(eqlist) : Earlier(c, k, l) => Earlier(d, k, l)
        BY <1>1, <1>2 DEF Earlier
      <3>4. \A x \in Ids, y \in Ids : Due(eqlist, c, y, x) => Due(eqlist', d, y, x)
        <4>1. 1..Len(eqlist) \subseteq 1..Len(eqlist')
          BY <1>1, <2>3
        <4> HIDE DEF d
        <4> QED
          BY <2>3, <3>3, <4>1 DEF Due
      <3> HIDE DEF d
      <3>5. Waited(eqlist', d, turns')
        BY <1>2, <2>4, <3>4 DEF Waited
      <3> QED
        BY <2>3, <2>4, <3>2, <3>5
    <2> QED
      BY <2>5, <2>6
  <1> QED
    BY <1>4, <1>5

\* Delete: the others keep their order, and the cursor its place among them.
LEMMA DeleteKeeps ==
    ASSUME IInv, NEW i \in Ids, Delete(i)
    PROVE  ListOK(eqlist', eqlistCur') /\ turns' \in Turns /\ InOrder'
  <1> USE EmitQueueAssumption
  <1>1. /\ ListOK(eqlist, eqlistCur) /\ turns \in Turns /\ Len(eqlist) \in Nat
        /\ eqlist \in Seq(Ids) /\ Injective(eqlist)
    BY TypeParts DEF IInv, ListOK
  <1>2. PICK c \in 1..(Len(eqlist) + 1) :
           CursorAt(eqlist, eqlistCur, c) /\ Waited(eqlist, c, turns)
    BY DEF IInv, InOrder
  <1>3. SUFFICES ASSUME TRUE
                 PROVE  \E d \in 1..(Len(eqlist') + 1) :
                           /\ CursorAt(eqlist', eqlistCur', d) /\ Waited(eqlist', d, turns')
                           /\ eqlist' \in Seq(Ids) /\ Injective(eqlist') /\ turns' \in Turns
    <2>1. InOrder' = \E d \in 1..(Len(eqlist') + 1) :
                        CursorAt(eqlist', eqlistCur', d) /\ Waited(eqlist', d, turns')
      BY DEF InOrder
    <2> QED
      BY <2>1, CursorListed
  <1>4. /\ turns' \in Turns
        /\ \A x \in Ids, y \in Ids :
              turns'[y][x] # 0 => turns'[y][x] = turns[y][x] /\ x # i /\ y # i
    BY <1>1, Forgotten DEF Delete
  <1>5. CASE \A k \in 1..Len(eqlist) : eqlist[k] # i
    <2>1. eqlist' = eqlist
      BY <1>1, <1>5, NotRemoved DEF Delete
    <2>2. eqlistCur # i
      BY <1>1, <1>2, <1>5 DEF CursorAt
    <2>3. eqlistCur' = eqlistCur
      <3>1. CASE eqlist = <<>>
        <4>1. eqlistCur = None
          BY <1>2, <3>1 DEF CursorAt
        <4> QED
          BY <2>1, <3>1, <4>1 DEF Delete
      <3> QED
        BY <2>1, <2>2, <3>1 DEF Delete
    <2>4. Waited(eqlist, c, turns')
      BY <1>2, <1>4 DEF Waited
    <2> QED
      BY <1>1, <1>2, <1>4, <2>1, <2>3, <2>4
  <1>6. ASSUME NEW p \in 1..Len(eqlist), eqlist[p] = i
        PROVE  \E d \in 1..(Len(eqlist') + 1) :
                  /\ CursorAt(eqlist', eqlistCur', d) /\ Waited(eqlist', d, turns')
                  /\ eqlist' \in Seq(Ids) /\ Injective(eqlist') /\ turns' \in Turns
    <2>1. /\ eqlist' \in Seq(Ids) /\ Len(eqlist') = Len(eqlist) - 1
          /\ \A k \in 1..(Len(eqlist) - 1) :
                eqlist'[k] = IF k < p THEN eqlist[k] ELSE eqlist[k + 1]
      BY <1>1, <1>6, Removed DEF Delete
    <2>2. Injective(eqlist')
      <3> SUFFICES ASSUME NEW k \in 1..(Len(eqlist) - 1), NEW l \in 1..(Len(eqlist) - 1),
                          eqlist'[k] = eqlist'[l]
                   PROVE  k = l
        BY <2>1 DEF Injective
      <3> DEFINE Old(m) == IF m < p THEN m ELSE m + 1
      <3>0. /\ Old(k) \in 1..Len(eqlist) /\ eqlist'[k] = eqlist[Old(k)]
            /\ Old(l) \in 1..Len(eqlist) /\ eqlist'[l] = eqlist[Old(l)]
        <4>1. ASSUME NEW m \in 1..(Len(eqlist) - 1), m < p
              PROVE  Old(m) \in 1..Len(eqlist) /\ eqlist'[m] = eqlist[Old(m)]
          BY <1>1, <2>1, <4>1
        <4>2. ASSUME NEW m \in 1..(Len(eqlist) - 1), ~(m < p)
              PROVE  Old(m) \in 1..Len(eqlist) /\ eqlist'[m] = eqlist[Old(m)]
          BY <1>1, <2>1, <4>2
        <4> HIDE DEF Old
        <4> QED
          BY <4>1, <4>2
      <3>1. eqlist[Old(k)] = eqlist[Old(l)] /\ Old(k) \in 1..Len(eqlist) /\ Old(l) \in 1..Len(eqlist)
        BY <3>0
      <3>2. Old(k) = Old(l)
        BY <1>1, <3>1 DEF Injective
      <3> QED
        BY <3>2
    <2> DEFINE d == IF c <= p THEN c ELSE c - 1
    <2>3. d \in 1..(Len(eqlist') + 1)
      BY <1>1, <1>2, <2>1
    <2>4. CursorAt(eqlist', eqlistCur', d)
      <3>1. CASE Len(eqlist) = 1
        <4>1. eqlist' = <<>> /\ p = 1 /\ d = 1
          BY <2>1, <3>1
        <4>2. eqlistCur' = None
          BY <4>1 DEF Delete
        <4> QED
          BY <4>1, <4>2 DEF CursorAt
      <3>2. CASE Len(eqlist) # 1 /\ c = p
        <4>1. eqlistCur = i /\ eqlist' # <<>>
          BY <1>1, <1>2, <1>6, <2>1, <3>2 DEF CursorAt
        <4>2. eqlistCur' = NextOf(eqlist[p])
          BY <1>6, <4>1 DEF Delete
        <4>3. CursorAt(eqlist, eqlistCur', p + 1)
          BY <1>1, <4>2, NextIs
        <4> QED
          BY <1>1, <2>1, <2>3, <3>2, <4>3 DEF CursorAt
      <3>3. CASE Len(eqlist) # 1 /\ c # p
        <4>1. eqlistCur # i /\ eqlist' # <<>>
          BY <1>1, <1>2, <1>6, <2>1, <3>3 DEF CursorAt, Injective
        <4>2. eqlistCur' = eqlistCur
          BY <4>1 DEF Delete
        <4> QED
          BY <1>1, <1>2, <2>1, <2>3, <3>3, <4>2 DEF CursorAt
      <3> QED
        BY <3>1, <3>2, <3>3
    <2>5. Waited(eqlist', d, turns')
      <3> SUFFICES ASSUME NEW x \in Ids \ {i}, NEW y \in Ids \ {i}, Due(eqlist, c, y, x)
                   PROVE  Due(eqlist', d, y, x)
        BY <1>2, <1>4 DEF Waited
      <3>1. PICK k \in 1..Len(eqlist), l \in 1..Len(eqlist) :
               eqlist[k] = y /\ eqlist[l] = x /\ Earlier(c, k, l)
        BY DEF Due
      <3>2. k # p /\ l # p
        BY <1>6, <3>1
      <3> DEFINE New(m) == IF m < p THEN m ELSE m - 1
      <3>3. /\ New(k) \in 1..(Len(eqlist) - 1) /\ eqlist'[New(k)] = y
            /\ New(l) \in 1..(Len(eqlist) - 1) /\ eqlist'[New(l)] = x
        BY <1>1, <2>1, <3>1, <3>2
      <3>4. Earlier(d, New(k), New(l))
        BY <1>1, <1>2, <3>1, <3>2 DEF Earlier
      <3> QED
        BY <2>1, <3>3, <3>4 DEF Due
    <2> QED
      BY <1>4, <2>1, <2>2, <2>3, <2>4, <2>5
  <1> QED
    BY <1>5, <1>6

\* An id is emitted: it has waited for nothing, and nothing that waited for it before
\* waits on; all that is listed waits for its next turn.
LEMMA TakeKeeps ==
    ASSUME IInv, CoreTakes
    PROVE  /\ ListOK(eqlist', eqlistCur') /\ turns' \in Turns /\ InOrder'
           /\ headE' \in Ids \cup {None} /\ (core' = "emit" => headE' # None)
           /\ (core' # "emit" => headE' = headE)
  <1> USE EmitQueueAssumption
  <1>1. /\ ListOK(eqlist, eqlistCur) /\ turns \in Turns /\ Len(eqlist) \in Nat
        /\ eqlist \in Seq(Ids) /\ Injective(eqlist) /\ headE \in Ids \cup {None}
    BY TypeParts DEF IInv, ListOK, RestOK
  <1>2. PICK c \in 1..(Len(eqlist) + 1) :
           CursorAt(eqlist, eqlistCur, c) /\ Waited(eqlist, c, turns)
    BY DEF IInv, InOrder
  <1>3. CASE eqlist = <<>>
    <2>1. UNCHANGED <<eqlist, eqlistCur, turns, headE>> /\ core' = "check"
      BY <1>3 DEF CoreTakes
    <2> QED
      BY <1>1, <2>1 DEF IInv, InOrder
  <1>4. CASE eqlist # <<>>
    <2> DEFINE p == IF c > Len(eqlist) THEN 1 ELSE c
    <2>1. p \in 1..Len(eqlist) /\ eqlist[p] \in Ids
      BY <1>1, <1>2, <1>4
    <2>2. /\ headE' = eqlist[p] /\ eqlistCur' = NextOf(eqlist[p]) /\ turns' = Turn(eqlist[p])
          /\ eqlist' = eqlist /\ core' = "emit"
      <3>1. (IF eqlistCur = None THEN eqlist[1] ELSE eqlistCur) = eqlist[p]
        BY <1>1, <1>2, <2>1 DEF CursorAt
      <3> QED
        BY <1>4, <3>1 DEF CoreTakes
    <2>3. CursorAt(eqlist, eqlistCur', p + 1)
      BY <1>1, <2>1, <2>2, NextIs
    <2>4. \A k \in 1..Len(eqlist), l \in 1..Len(eqlist) :
             /\ ~Earlier(c, k, p)
             /\ k # p => Earlier(p + 1, k, p)
             /\ k # p /\ l # p /\ Earlier(c, k, l) => Earlier(p + 1, k, l)
      BY <1>1, <1>2, <2>1 DEF Earlier
    <2> HIDE DEF p
    <2>5. \A y \in Ids : turns[y][eqlist[p]] = 0
      <3> SUFFICES ASSUME NEW y \in Ids, Due(eqlist, c, y, eqlist[p]) PROVE FALSE
        BY <1>2, <2>1 DEF Waited
      <3> QED
        BY <1>1, <2>1, <2>4 DEF Due, Injective
    <2>6. /\ turns' \in Turns
          /\ \A x \in Ids, y \in Ids :
                turns'[y][x] = IF y = eqlist[p] THEN 0
                               ELSE IF x = eqlist[p] /\ Listed(y) THEN turns[y][x] + 1
                               ELSE turns[y][x]
      <3> DEFINE t == [y \in Ids |-> [x \in Ids |->
                         IF y = eqlist[p] THEN 0
                         ELSE IF x = eqlist[p] /\ Listed(y) THEN turns[y][x] + 1
                         ELSE turns[y][x]]]
      <3>1. turns' = t
        BY <2>2 DEF Turn
      <3>2. \A x \in Ids, y \in Ids : turns[y][x] \in Nat /\ turns[y][x] + 1 \in Nat
        BY <1>1 DEF Turns
      <3>3. t \in Turns
        BY <3>2, Zenon DEF Turns
      <3> QED
        BY <3>1, <3>3
    <2>7. Waited(eqlist, p + 1, turns')
      <3> SUFFICES ASSUME NEW x \in Ids, NEW y \in Ids, turns'[y][x] # 0
                   PROVE  turns'[y][x] = 1 /\ Due(eqlist, p + 1, y, x)
        BY DEF Waited
      <3>1. y # eqlist[p]
        BY <2>6
      <3>2. CASE x = eqlist[p]
        <4>1. Listed(y) /\ turns'[y][x] = 1
          BY <2>5, <2>6, <3>1, <3>2
        <4>2. PICK k \in 1..Len(eqlist) : eqlist[k] = y
          <5>1. DOMAIN eqlist = 1..Len(eqlist)
            BY <1>1
          <5> QED
            BY <4>1, <5>1 DEF Listed
        <4>3. Due(eqlist, p + 1, y, x)
          BY <2>1, <2>4, <3>1, <3>2, <4>2 DEF Due
        <4> QED
          BY <4>1, <4>3
      <3>3. CASE x # eqlist[p]
        <4>1. turns'[y][x] = turns[y][x]
          BY <2>6, <3>1, <3>3
        <4>2. turns[y][x] = 1 /\ Due(eqlist, c, y, x)
          BY <1>2, <4>1 DEF Waited
        <4>3. PICK k \in 1..Len(eqlist), l \in 1..Len(eqlist) :
                 eqlist[k] = y /\ eqlist[l] = x /\ Earlier(c, k, l)
          BY <4>2 DEF Due
        <4>4. Due(eqlist, p + 1, y, x)
          BY <2>4, <3>1, <3>3, <4>3 DEF Due
        <4> QED
          BY <4>1, <4>2, <4>4
      <3> QED
        BY <3>2, <3>3
    <2>8. p + 1 \in 1..(Len(eqlist) + 1)
      BY <1>1, <2>1
    <2>9. InOrder'
      <3>1. \E d \in 1..(Len(eqlist') + 1) :
               CursorAt(eqlist', eqlistCur', d) /\ Waited(eqlist', d, turns')
        BY <2>2, <2>3, <2>7, <2>8
      <3> QED
        BY <3>1 DEF InOrder
    <2>10. ListOK(eqlist', eqlistCur')
      BY <1>1, <2>2, <2>3, CursorListed
    <2> QED
      BY <2>1, <2>2, <2>6, <2>9, <2>10
  <1> QED
    BY <1>3, <1>4

-----------------------------------------------------------------------------
(* EmitQueue: the invariant is kept *)

\* The other steps leave list, cursor and history alone.
LEMMA OthersKeep ==
    ASSUME ListOK(eqlist, eqlistCur), turns \in Turns, InOrder,
           UNCHANGED <<eqlist, eqlistCur, turns>>
    PROVE  ListOK(eqlist', eqlistCur') /\ turns' \in Turns /\ InOrder'
  BY DEF InOrder

\* Where core, the fresher and Stop may be, whatever step is taken.
LEMMA RestStep ==
    ASSUME IInv, [EmitNext]_emitVars
    PROVE  RestOK'
  <1> USE EmitQueueAssumption
  <1>1. RestOK
    BY TypeParts DEF IInv
  <1>2. CASE CoreTakes
    <2>1. /\ headE' \in Ids \cup {None} /\ (core' = "emit" => headE' # None)
          /\ (core' # "emit" => headE' = headE)
      BY <1>2, TakeKeeps
    <2> QED
      BY <1>1, <1>2, <2>1 DEF RestOK, CoreTakes, stopVars
  <1>3. ASSUME NEW i \in Ids, Add(i) \/ Delete(i) PROVE RestOK'
    BY <1>1, <1>3 DEF RestOK, Add, Delete, Wake, coreVars, stopVars
  <1>4. CASE CoreStarts \/ CoreChecks \/ CoreWaits \/ CoreTimer \/ CoreStops \/ CoreEmits
             \/ CorePanics
    BY <1>1, <1>4 DEF RestOK, CoreStarts, CoreChecks, CoreWaits, CoreTimer, CoreStops, CoreEmits,
                      CorePanics, listVars, stopVars
  <1>5. CASE Fresher \/ StopBegins \/ StopWork
    BY <1>1, <1>5 DEF RestOK, Fresher, FresherDone, FresherEnds, StopWork, StopStep, StopBegins,
                      StopStores, StopCloses, StopBroadcasts, StopReturns, Wake, coreVars,
                      stopVars, listVars
  <1>6. CASE UNCHANGED emitVars
    BY <1>1, <1>6 DEF RestOK, emitVars, coreVars, stopVars
  <1> QED
    BY <1>2, <1>3, <1>4, <1>5, <1>6 DEF EmitNext, Core

LEMMA InitIInv == EmitInit => IInv
  <1> SUFFICES ASSUME EmitInit PROVE IInv
    OBVIOUS
  <1>1. eqlist = <<>> /\ Len(eqlist) = 0 /\ eqlist \in Seq(Ids) /\ eqlistCur = None
    BY DEF EmitInit
  <1>2. turns \in Turns /\ \A x \in Ids, y \in Ids : turns[y][x] = 0
    BY DEF EmitInit, Turns
  <1>3. CursorAt(eqlist, eqlistCur, 1) /\ Waited(eqlist, 1, turns) /\ Injective(eqlist)
    BY <1>1, <1>2 DEF CursorAt, Waited, Injective
  <1>4. InOrder
    BY <1>1, <1>3 DEF InOrder
  <1>5. RestOK
    BY DEF EmitInit, RestOK
  <1> QED
    BY <1>2, <1>3, <1>4, <1>5, CursorListed, TypeParts, <1>1 DEF IInv

LEMMA StepIInv == IInv /\ [EmitNext]_emitVars => IInv'
  <1> SUFFICES ASSUME IInv, [EmitNext]_emitVars PROVE IInv'
    OBVIOUS
  <1>1. ListOK(eqlist, eqlistCur) /\ turns \in Turns /\ InOrder
    BY TypeParts DEF IInv
  <1>2. ListOK(eqlist', eqlistCur') /\ turns' \in Turns /\ InOrder'
    <2>1. ASSUME NEW i \in Ids, Add(i) \/ Delete(i)
          PROVE  ListOK(eqlist', eqlistCur') /\ turns' \in Turns /\ InOrder'
      BY <2>1, AddKeeps, DeleteKeeps
    <2>2. CASE CoreTakes
      BY <2>2, TakeKeeps
    <2>3. CASE CoreStarts \/ CoreChecks \/ CoreWaits \/ CoreTimer \/ CoreStops \/ CoreEmits
               \/ CorePanics \/ Fresher \/ StopBegins \/ StopWork \/ UNCHANGED emitVars
      <3>1. UNCHANGED <<eqlist, eqlistCur, turns>>
        BY <2>3 DEF CoreStarts, CoreChecks, CoreWaits, CoreTimer, CoreStops, CoreEmits,
                    CorePanics, Fresher, FresherDone, FresherEnds, StopWork, StopBegins,
                    StopStores, StopCloses, StopBroadcasts, StopReturns, listVars, emitVars
      <3> QED
        BY <1>1, <3>1, OthersKeep
    <2> QED
      BY <2>1, <2>2, <2>3 DEF EmitNext, Core
  <1>3. RestOK'
    BY RestStep
  <1>4. (EmitTypeOK <=> ListOK(eqlist, eqlistCur) /\ RestOK /\ turns \in Turns)'
    BY TypeParts, PTL
  <1> QED
    BY <1>2, <1>3, <1>4 DEF IInv

-----------------------------------------------------------------------------
(* EmitQueue: the theorems *)

\* Whatever is added and deleted, and whenever Stop is called, the invariant holds.
THEOREM Inductive == EmitSpec => []IInv
  BY InitIInv, StepIInv, PTL DEF EmitSpec

\* An id is in the list once, and the cursor never points to an element that Delete
\* took out.
THEOREM TypeCorrect == EmitSpec => []EmitTypeOK
  <1>1. IInv => EmitTypeOK
    BY DEF IInv
  <1> QED
    BY <1>1, Inductive, PTL

\* Polling goes round for any number of ids: while two of them stay in the list
\* neither is emitted twice without the other in between.
THEOREM TurnsAreFair == EmitSpec => []FairTurns
  <1>1. IInv => FairTurns
    <2> SUFFICES ASSUME IInv, NEW x \in Ids, NEW y \in Ids PROVE turns[y][x] <= 1
      BY DEF FairTurns
    <2>1. turns[y][x] \in Nat
      BY TypeParts DEF IInv, Turns
    <2>2. turns[y][x] # 0 => turns[y][x] = 1
      BY DEF IInv, InOrder, Waited
    <2> QED
      BY <2>1, <2>2
  <1> QED
    BY <1>1, Inductive, PTL
==============================================================================
