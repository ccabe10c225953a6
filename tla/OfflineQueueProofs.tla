------------------------- MODULE OfflineQueueProofs -------------------------
(***************************************************************************)
(* Proofs about OfflineQueue.  A chunk that may still be sent is in exactly *)
(* one place: with its sender, in the queue, or in the batch of the flush;  *)
(* and it has not been put on the socket.  Sole states this of a queue q, a *)
(* batch b, the chunks u the senders hold, and the socket's history w.      *)
(***************************************************************************)
EXTENDS OfflineQueue, TLAPS

\* Item k of the sequence q covers chunk i of the message of s.
At(q, k, s, i) == q[k].from = s /\ i \in q[k].parts

Sole(q, b, u, w) ==
    \A s \in Senders, i \in Chunks :
        /\ w[s][i] <= 1
        /\ i \in u[s] =>
              /\ w[s][i] = 0
              /\ \A k \in 1..Len(q) : ~At(q, k, s, i)
              /\ \A k \in 1..Len(b) : ~At(b, k, s, i)
        /\ \A k \in 1..Len(q) : At(q, k, s, i) =>
              /\ w[s][i] = 0
              /\ \A l \in 1..Len(q) : At(q, l, s, i) => k = l
              /\ \A l \in 1..Len(b) : ~At(b, l, s, i)
        /\ \A k \in 1..Len(b) : At(b, k, s, i) =>
              /\ w[s][i] = 0
              /\ \A l \in 1..Len(b) : At(b, l, s, i) => k = l

\* The sequence r is q without its d oldest items, followed by one more.
Keeps(q, r, d) ==
    /\ Len(r) = Len(q) + 1 - d
    /\ \A k \in 1..(Len(r) - 1) : k + d \in 1..Len(q) /\ r[k] = q[k + d]

\* The chunks of the item are in no place, and unsent.
Loose(item, q, b, u, w) ==
    \A i \in item.parts :
        /\ i \notin u[item.from] /\ w[item.from][i] = 0
        /\ \A k \in 1..Len(q) : ~At(q, k, item.from, i)
        /\ \A k \in 1..Len(b) : ~At(b, k, item.from, i)

Unsents   == [Senders -> SUBSET Chunks]
Histories == [Senders -> [Chunks -> Nat]]

-----------------------------------------------------------------------------
(* What each kind of step does to the places of the chunks *)

\* Saving keeps the items that were there, in order, except perhaps the oldest.
LEMMA SavedItems ==
    ASSUME NEW q \in Seq(Items), NEW item \in Items
    PROVE  /\ Saved(q, item) \in Seq(Items)
           /\ Len(Saved(q, item)) \in Nat \ {0}
           /\ Saved(q, item)[Len(Saved(q, item))] = item
           /\ \E d \in 0..1 : Keeps(q, Saved(q, item), d)
  <1> DEFINE r == Saved(q, item)
  <1>1. CASE Len(q) >= MaxQueue
    <2>1. q # <<>> /\ Len(q) \in Nat \ {0}
      BY <1>1, OfflineQueueAssumption
    <2>2. Tail(q) \in Seq(Items) /\ Len(Tail(q)) = Len(q) - 1
          /\ \A k \in 1..(Len(q) - 1) : Tail(q)[k] = q[k + 1]
      BY <2>1
    <2>3. r = Append(Tail(q), item)
      BY <1>1 DEF Saved
    <2>4. r \in Seq(Items) /\ Len(r) = Len(q) /\ r[Len(r)] = item
      BY <2>1, <2>2, <2>3
    <2>5. \A k \in 1..(Len(r) - 1) : r[k] = Tail(q)[k]
      BY <2>1, <2>2, <2>3
    <2>6. Keeps(q, r, 1)
      BY <2>1, <2>2, <2>4, <2>5 DEF Keeps
    <2> QED
      BY <2>1, <2>4, <2>6
  <1>2. CASE ~(Len(q) >= MaxQueue)
    <2>1. r = Append(q, item) /\ Len(q) \in Nat
      BY <1>2 DEF Saved
    <2>2. r \in Seq(Items) /\ Len(r) = Len(q) + 1 /\ r[Len(r)] = item
      BY <2>1
    <2>3. \A k \in 1..(Len(r) - 1) : r[k] = q[k]
      BY <2>1
    <2>4. Keeps(q, r, 0)
      BY <2>1, <2>2, <2>3 DEF Keeps
    <2> QED
      BY <2>1, <2>2, <2>4
  <1> QED
    BY <1>1, <1>2

\* A sender that gives chunks up changes nothing else.
LEMMA SoleGiveUp ==
    ASSUME NEW q, NEW b, NEW w, NEW u \in Unsents, NEW v \in Unsents,
           Sole(q, b, u, w), \A s \in Senders : v[s] \subseteq u[s]
    PROVE  Sole(q, b, v, w)
  BY DEF Sole

\* An item whose chunks are nowhere else and unsent can be saved.
LEMMA SoleSave ==
    ASSUME NEW q \in Seq(Items), NEW b \in Seq(Items), NEW w \in Histories,
           NEW v \in Unsents, NEW item \in Items,
           Sole(q, b, v, w), Loose(item, q, b, v, w)
    PROVE  Sole(Saved(q, item), b, v, w)
  <1> DEFINE r == Saved(q, item)
  <1>1. PICK d \in 0..1 : Keeps(q, r, d)
    BY SavedItems
  <1>2. Len(r) \in Nat \ {0} /\ r[Len(r)] = item
    BY SavedItems
  <1>3. Len(q) \in Nat /\ Len(b) \in Nat /\ item.from \in Senders
    BY DEF Items
  <1> HIDE DEF r
  <1> SUFFICES ASSUME NEW s \in Senders, NEW i \in Chunks
               PROVE  /\ w[s][i] <= 1
                      /\ i \in v[s] =>
                            /\ w[s][i] = 0
                            /\ \A k \in 1..Len(r) : ~At(r, k, s, i)
                            /\ \A k \in 1..Len(b) : ~At(b, k, s, i)
                      /\ \A k \in 1..Len(r) : At(r, k, s, i) =>
                            /\ w[s][i] = 0
                            /\ \A l \in 1..Len(r) : At(r, l, s, i) => k = l
                            /\ \A l \in 1..Len(b) : ~At(b, l, s, i)
                      /\ \A k \in 1..Len(b) : At(b, k, s, i) =>
                            /\ w[s][i] = 0
                            /\ \A l \in 1..Len(b) : At(b, l, s, i) => k = l
    BY DEF Sole, r
  <1>5. item.from = s /\ i \in item.parts =>
          /\ i \notin v[s] /\ w[s][i] = 0
          /\ \A k \in 1..Len(q) : ~At(q, k, s, i)
          /\ \A k \in 1..Len(b) : ~At(b, k, s, i)
    BY DEF Loose
  <1>6. \A k \in 1..Len(r) :
           At(r, k, s, i) <=>
             \/ k = Len(r) /\ item.from = s /\ i \in item.parts
             \/ k < Len(r) /\ At(q, k + d, s, i)
    <2> SUFFICES ASSUME NEW k \in 1..Len(r)
                 PROVE  At(r, k, s, i) <=>
                          \/ k = Len(r) /\ item.from = s /\ i \in item.parts
                          \/ k < Len(r) /\ At(q, k + d, s, i)
      OBVIOUS
    <2>1. CASE k = Len(r)
      BY <1>2, <2>1 DEF At
    <2>2. CASE k < Len(r)
      <3>1. k \in 1..(Len(r) - 1)
        BY <1>2, <2>2
      <3>2. r[k] = q[k + d]
        BY <1>1, <3>1 DEF Keeps
      <3> QED
        BY <1>2, <2>2, <3>2 DEF At
    <2> QED
      BY <1>2, <2>1, <2>2
  <1>7. \A k \in 1..Len(r) : k < Len(r) => k + d \in 1..Len(q)
    BY <1>1, <1>2 DEF Keeps
  <1> QED
    BY <1>1, <1>2, <1>3, <1>5, <1>6, <1>7, SMTT(60) DEF Sole

\* A sender moves the chunks of an item from its own hands to the queue.
LEMMA SoleStore ==
    ASSUME NEW q \in Seq(Items), NEW b \in Seq(Items), NEW w \in Histories,
           NEW u \in Unsents, NEW v \in Unsents, NEW item \in Items,
           Sole(q, b, u, w),
           item.parts \subseteq u[item.from],
           v[item.from] = u[item.from] \ item.parts,
           \A s \in Senders \ {item.from} : v[s] = u[s]
    PROVE  Sole(Saved(q, item), b, v, w)
  <1>1. item.from \in Senders /\ item.parts \subseteq Chunks
    BY DEF Items
  <1>2. \A s \in Senders : v[s] \subseteq u[s]
    OBVIOUS
  <1>3. Sole(q, b, v, w)
    BY <1>2, SoleGiveUp
  <1>4. Loose(item, q, b, v, w)
    BY <1>1 DEF Sole, Loose
  <1> QED
    BY <1>3, <1>4, SoleSave

\* The flush takes the whole queue.
LEMMA SoleTake ==
    ASSUME NEW q \in Seq(Items), NEW b \in Seq(Items), NEW u, NEW w,
           Sole(q, b, u, w)
    PROVE  Sole(<<>>, q, u, w)
  <1>1. Len(<<>>) = 0
    OBVIOUS
  <1> QED
    BY <1>1 DEF Sole

\* The items of a nonempty batch after the first, by their old positions.
LEMMA TailItems ==
    ASSUME NEW b \in Seq(Items), b # <<>>
    PROVE  /\ Head(b) \in Items /\ Head(b) = b[1]
           /\ Tail(b) \in Seq(Items) /\ Len(b) \in Nat \ {0} /\ Len(Tail(b)) = Len(b) - 1
           /\ \A k \in 1..Len(Tail(b)) :
                 /\ k \in Nat /\ k + 1 \in 1..Len(b)
                 /\ \A s, i : At(Tail(b), k, s, i) <=> At(b, k + 1, s, i)
  <1>1. Len(b) \in Nat \ {0} /\ Tail(b) \in Seq(Items) /\ Len(Tail(b)) = Len(b) - 1
    OBVIOUS
  <1>2. \A k \in 1..Len(Tail(b)) : k \in Nat /\ k + 1 \in 1..Len(b) /\ Tail(b)[k] = b[k + 1]
    BY <1>1
  <1>3. Head(b) \in Items /\ Head(b) = b[1]
    BY <1>1
  <1> QED
    BY <1>1, <1>2, <1>3 DEF At

\* The first item of the batch leaves it: the rest stays in one place, and the
\* chunks of that item are in no other place.
LEMMA SoleLeave ==
    ASSUME NEW q \in Seq(Items), NEW b \in Seq(Items), NEW u \in Unsents, NEW w \in Histories,
           Sole(q, b, u, w), b # <<>>
    PROVE  Sole(q, Tail(b), u, w) /\ Loose(Head(b), q, Tail(b), u, w)
  <1> DEFINE t == Tail(b)
             h == Head(b)
  <1>0. /\ h \in Items /\ h = b[1]
        /\ Len(b) \in Nat \ {0} /\ Len(t) = Len(b) - 1
        /\ \A k \in 1..Len(t) :
              /\ k \in Nat /\ k + 1 \in 1..Len(b)
              /\ \A s, i : At(t, k, s, i) <=> At(b, k + 1, s, i)
    BY TailItems
  <1> HIDE DEF t, h
  <1>1. Sole(q, t, u, w)
    <2> SUFFICES ASSUME NEW s \in Senders, NEW i \in Chunks
                 PROVE  /\ w[s][i] <= 1
                        /\ i \in u[s] =>
                              /\ w[s][i] = 0
                              /\ \A k \in 1..Len(q) : ~At(q, k, s, i)
                              /\ \A k \in 1..Len(t) : ~At(t, k, s, i)
                        /\ \A k \in 1..Len(q) : At(q, k, s, i) =>
                              /\ w[s][i] = 0
                              /\ \A l \in 1..Len(q) : At(q, l, s, i) => k = l
                              /\ \A l \in 1..Len(t) : ~At(t, l, s, i)
                        /\ \A k \in 1..Len(t) : At(t, k, s, i) =>
                              /\ w[s][i] = 0
                              /\ \A l \in 1..Len(t) : At(t, l, s, i) => k = l
      BY DEF Sole
    <2>1. \A k \in 1..Len(t) : At(t, k, s, i) => At(b, k + 1, s, i) /\ k + 1 \in 1..Len(b)
      BY <1>0
    <2>2. \A k, l \in 1..Len(t) : k + 1 = l + 1 => k = l
      BY <1>0
    <2> QED
      BY <2>1, <2>2 DEF Sole
  <1>2. 1 \in 1..Len(b) /\ h.from \in Senders /\ h.parts \subseteq Chunks
    BY <1>0 DEF Items
  <1>3. \A i \in h.parts : At(b, 1, h.from, i)
    BY <1>0 DEF At
  <1>4. \A k \in 1..Len(t) : k + 1 # 1
    BY <1>0
  <1>5. ASSUME NEW i \in h.parts, NEW k \in 1..Len(t), At(t, k, h.from, i)
        PROVE FALSE
    <2>1. At(b, k + 1, h.from, i) /\ k + 1 \in 1..Len(b)
      BY <1>5, <1>0
    <2> QED
      BY <2>1, <1>2, <1>3, <1>4 DEF Sole
  <1>6. Loose(h, q, t, u, w)
    BY <1>2, <1>3, <1>5 DEF Sole, Loose
  <1> QED
    BY <1>1, <1>6 DEF t, h

\* Loose chunks can be put on the socket.
LEMMA SoleWrite ==
    ASSUME NEW q, NEW b, NEW u \in Unsents, NEW w \in Histories, NEW item \in Items,
           Sole(q, b, u, w), Loose(item, q, b, u, w)
    PROVE  Sole(q, b, u, Written(w, item.from, item.parts))
  <1> DEFINE x == Written(w, item.from, item.parts)
  <1>1. \A s \in Senders, i \in Chunks :
           x[s][i] = IF s = item.from /\ i \in item.parts THEN w[s][i] + 1 ELSE w[s][i]
    BY DEF Written, Histories, Items
  <1>2. \A s \in Senders, i \in Chunks : w[s][i] \in Nat
    BY DEF Histories
  <1> HIDE DEF x
  <1>3. Sole(q, b, u, x)
    BY <1>1, <1>2, SMTT(30) DEF Sole, Loose
  <1> QED
    BY <1>3 DEF x

-----------------------------------------------------------------------------
(* The inductive invariant *)

UnsentOf == [s \in Senders |-> Unsent(s)]

\* A sender starts with its first chunk and works on a chunk it has; a flush that
\* awaits a result has the item in hand, and one that takes the queue has none.
InHand ==
    /\ \A s \in Senders : pc[s] = "start" => cur[s] = 1
    /\ \A s \in Senders : pc[s] \in {"send", "result", "requeue"} => cur[s] \in 1..n[s]
    /\ fpc = "result" => batch # <<>>
    /\ fpc \in {"free", "check", "take"} => batch = <<>>

\* The inductive invariant.
IInv == TypeOK /\ InHand /\ Sole(queue, Pending, UnsentOf, wire)

\* Initially nothing has been sent or queued.
LEMMA InitIInv == Init => IInv
  <1> SUFFICES ASSUME Init PROVE IInv
    OBVIOUS
  <1>1. ConnOK
    <2>1. clock \in 0..MaxClock /\ hb \in [Handlers -> {<<>>} \cup (BOOLEAN \X BOOLEAN)]
      BY OfflineQueueAssumption DEF Init
    <2> QED
      BY <2>1 DEF Init, ConnOK
  <1>b. SendOK
    BY DEF Init, SendOK, Outcomes, Statuses
  <1>c. QueueOK
    BY OfflineQueueAssumption DEF Init, QueueOK
  <1>d. TimerOK
    <2>1. callbacks \in 0..MaxGoroutines /\ waiting \in 0..MaxGoroutines
      BY OfflineQueueAssumption DEF Init
    <2> QED
      BY <2>1 DEF Init, TimerOK
  <1>e. FlushOK
    <2>1. now \in 0..MaxClock
      BY OfflineQueueAssumption DEF Init
    <2>2. batch \in Seq(Items)
      BY DEF Init
    <2> QED
      BY <2>1, <2>2 DEF Init, FlushOK, Outcomes
  <1>a. wire \in [Senders -> [Chunks -> Nat]]
    BY DEF Init
  <1>2. InHand
    BY DEF Init, InHand
  <1>3. queue = <<>> /\ Pending = <<>> /\ Len(<<>>) = 0
    BY DEF Init, Pending
  <1>4. \A s \in Senders, i \in Chunks : wire[s][i] = 0
    BY DEF Init
  <1>5. Sole(queue, Pending, UnsentOf, wire)
    BY <1>3, <1>4 DEF Sole
  <1> QED
    BY <1>1, <1>a, <1>b, <1>c, <1>d, <1>e, <1>2, <1>5 DEF IInv, TypeOK

\* The pending items of the flush are a sequence of items.
LEMMA PendingType == TypeOK /\ InHand => Pending \in Seq(Items)
  BY DEF TypeOK, FlushOK, InHand, Pending

\* The chunks in the hands of each sender are chunks.
LEMMA UnsentType == TypeOK => UnsentOf \in Unsents
  <1> SUFFICES ASSUME TypeOK, NEW s \in Senders PROVE Unsent(s) \subseteq Chunks
    BY DEF UnsentOf, Unsents
  <1>1. n[s] \in 0..MaxChunks /\ cur[s] \in Nat \ {0} /\ MaxChunks \in Nat
    BY OfflineQueueAssumption DEF TypeOK, SendOK
  <1> QED
    BY <1>1 DEF Unsent, Chunks

\* Writing keeps the history a history.
LEMMA WrittenType ==
    ASSUME NEW s \in Senders, NEW P \in SUBSET Chunks, NEW w \in Histories
    PROVE  Written(w, s, P) \in Histories
  BY DEF Written, Histories

\* Every step keeps the variables in their ranges.  Most parts of TypeOK are
\* about variables that an action leaves alone.
LEMMA Unchanged ==
    ASSUME TypeOK
    PROVE  /\ UNCHANGED connVars => ConnOK'
           /\ UNCHANGED sendVars => SendOK'
           /\ UNCHANGED queue => QueueOK'
           /\ UNCHANGED timerVars => TimerOK'
           /\ UNCHANGED flushVars => FlushOK'
           /\ UNCHANGED wire => wire' \in Histories
  <1>1. UNCHANGED connVars => ConnOK'
    BY DEF TypeOK, ConnOK, connVars
  <1>2. UNCHANGED sendVars => SendOK'
    BY DEF TypeOK, SendOK, sendVars
  <1>3. UNCHANGED queue => QueueOK'
    BY DEF TypeOK, QueueOK
  <1>4. UNCHANGED timerVars => TimerOK'
    BY DEF TypeOK, TimerOK, timerVars
  <1>5. UNCHANGED flushVars => FlushOK'
    BY DEF TypeOK, FlushOK, flushVars
  <1>6. UNCHANGED wire => wire' \in Histories
    BY DEF TypeOK, Histories
  <1> QED
    BY <1>1, <1>2, <1>3, <1>4, <1>5, <1>6

\* saveOfflineMsg never exceeds offlineQueueMaxSize.
LEMMA SavedType ==
    ASSUME NEW q \in Seq(Items), NEW item \in Items, Len(q) <= MaxQueue
    PROVE  Saved(q, item) \in Seq(Items) /\ Len(Saved(q, item)) <= MaxQueue
  <1>1. CASE Len(q) >= MaxQueue
    <2>1. q # <<>> /\ Len(q) = MaxQueue
      BY <1>1, OfflineQueueAssumption
    <2> QED
      BY <2>1 DEF Saved
  <1>2. CASE ~(Len(q) >= MaxQueue)
    BY <1>2, OfflineQueueAssumption DEF Saved
  <1> QED
    BY <1>1, <1>2

\* Every step keeps every variable in its range.
LEMMA TypeStep == TypeOK /\ InHand /\ [Next]_vars => TypeOK'
  <1> SUFFICES ASSUME TypeOK, InHand, [Next]_vars PROVE TypeOK'
    OBVIOUS
  <1> USE OfflineQueueAssumption
  <1>a. ConnOK' /\ SendOK' /\ QueueOK' /\ TimerOK' /\ FlushOK' /\ wire' \in Histories => TypeOK'
    BY DEF TypeOK, Histories
  <1>1. CASE UNCHANGED vars
    BY <1>1, <1>a, Unchanged DEF vars
  <1>2. ASSUME NEW s \in Senders, BeginSend(s) PROVE TypeOK'
    <2>1. SendOK'
      BY <1>2 DEF BeginSend, TypeOK, SendOK, Return, Statuses
    <2> QED
      BY <1>2, <1>a, Unchanged, <2>1 DEF BeginSend
  <1>3. ASSUME NEW s \in Senders, SaveWhole(s) PROVE TypeOK'
    <2>1. SendOK'
      BY <1>3 DEF SaveWhole, TypeOK, SendOK
    <2>2. [from |-> s, parts |-> 1..n[s], at |-> clock] \in Items
      BY DEF Items, Chunks, TypeOK, SendOK, ConnOK
    <2>3. QueueOK'
      BY <1>3, <2>2, SavedType DEF SaveWhole, TypeOK, QueueOK
    <2> QED
      BY <1>3, <1>a, Unchanged, <2>1, <2>3 DEF SaveWhole
  <1>4. ASSUME NEW s \in Senders, SendChunk(s) PROVE TypeOK'
    <2>1. SendOK'
      BY <1>4 DEF SendChunk, TypeOK, SendOK
    <2>2. {cur[s]} \in SUBSET Chunks
      BY <1>4 DEF SendChunk, InHand, TypeOK, SendOK, Chunks
    <2>3. wire' \in Histories
      <3>1. wire \in Histories
        BY DEF TypeOK, Histories
      <3>2. wire' = wire \/ wire' = Written(wire, s, {cur[s]})
        BY <1>4 DEF SendChunk, Transmit
      <3> QED
        BY <2>2, <3>1, <3>2, WrittenType
    <2> QED
      BY <1>4, <1>a, Unchanged, <2>1, <2>3 DEF SendChunk
  <1>5. ASSUME NEW s \in Senders, ChunkResult(s) PROVE TypeOK'
    <2>1. SendOK'
      <3>1. cur' \in [Senders -> Nat \ {0}]
        BY <1>5 DEF ChunkResult, TypeOK, SendOK
      <3>2. status' \in [Senders -> Statuses]
        BY <1>5 DEF ChunkResult, TypeOK, SendOK, Return, Statuses
      <3>3. pc' \in [Senders -> {"start", "save", "send", "result", "requeue", "schedule", "done"}]
        BY <1>5 DEF ChunkResult, TypeOK, SendOK, Return
      <3> QED
        BY <1>5, <3>1, <3>2, <3>3 DEF ChunkResult, TypeOK, SendOK
    <2> QED
      BY <1>5, <1>a, Unchanged, <2>1 DEF ChunkResult
  <1>6. ASSUME NEW s \in Senders, QueueUnsentChunk(s) PROVE TypeOK'
    <2>1. SendOK'
      <3>1. cur' \in [Senders -> Nat \ {0}]
        BY <1>6 DEF QueueUnsentChunk, TypeOK, SendOK
      <3>2. pc' \in [Senders -> {"start", "save", "send", "result", "requeue", "schedule", "done"}]
        BY <1>6 DEF QueueUnsentChunk, TypeOK, SendOK
      <3> QED
        BY <1>6, <3>1, <3>2 DEF QueueUnsentChunk, TypeOK, SendOK
    <2>2. [from |-> s, parts |-> {cur[s]}, at |-> clock] \in Items
      BY <1>6 DEF QueueUnsentChunk, InHand, Items, Chunks, TypeOK, SendOK, ConnOK
    <2>3. QueueOK'
      BY <1>6, <2>2, SavedType DEF QueueUnsentChunk, TypeOK, QueueOK
    <2> QED
      BY <1>6, <1>a, Unchanged, <2>1, <2>3 DEF QueueUnsentChunk
  <1>7. ASSUME NEW s \in Senders, ScheduleFlush(s) PROVE TypeOK'
    <2>1. SendOK'
      BY <1>7 DEF ScheduleFlush, TypeOK, SendOK, Return, Statuses
    <2>2. TimerOK'
      BY <1>7 DEF ScheduleFlush, TypeOK, TimerOK, ArmTimer
    <2> QED
      BY <1>7, <1>a, Unchanged, <2>1, <2>2 DEF ScheduleFlush
  <1>8. CASE TimerFires
    <2>1. TimerOK'
      <3>1. callbacks' \in 0..MaxGoroutines /\ waiting' \in 0..MaxGoroutines
        BY <1>8 DEF TimerFires, TypeOK, TimerOK
      <3> QED
        BY <1>8, <3>1 DEF TimerFires, TimerOK
    <2> QED
      BY <1>8, <1>a, Unchanged, <2>1 DEF TimerFires
  <1>9. CASE TimerCallback
    <2>1. TimerOK'
      BY <1>9 DEF TimerCallback, TypeOK, TimerOK, ArmTimer
    <2> QED
      BY <1>9, <1>a, Unchanged, <2>1 DEF TimerCallback
  <1>10. CASE Flusher
    <2>1. CASE FlushLock
      <3>1. TimerOK' /\ FlushOK'
        BY <2>1 DEF FlushLock, TypeOK, TimerOK, FlushOK
      <3> QED
        BY <2>1, <1>a, Unchanged, <3>1 DEF FlushLock
    <2>2. CASE FlushCheck
      <3>1. FlushOK'
        BY <2>2 DEF FlushCheck, TypeOK, FlushOK
      <3> QED
        BY <2>2, <1>a, Unchanged, <3>1 DEF FlushCheck
    <2>3. CASE FlushTake
      <3>1. FlushOK'
        BY <2>3 DEF FlushTake, TypeOK, FlushOK, QueueOK, ConnOK
      <3>2. QueueOK'
        BY <2>3 DEF FlushTake, QueueOK
      <3> QED
        BY <2>3, <1>a, Unchanged, <3>1, <3>2 DEF FlushTake
    <2>4. CASE FlushDropExpired
      <3>1. FlushOK'
        BY <2>4 DEF FlushDropExpired, TypeOK, FlushOK
      <3> QED
        BY <2>4, <1>a, Unchanged, <3>1 DEF FlushDropExpired
    <2>5. CASE FlushSend
      <3>1. Head(batch) \in Items
        BY <2>5 DEF FlushSend, TypeOK, FlushOK
      <3>2. wire' \in Histories
        <4>1. wire \in Histories /\ Head(batch).from \in Senders /\ Head(batch).parts \in SUBSET Chunks
          BY <3>1 DEF TypeOK, Histories, Items
        <4>2. wire' = wire \/ wire' = Written(wire, Head(batch).from, Head(batch).parts)
          BY <2>5 DEF FlushSend, Transmit
        <4> QED
          BY <4>1, <4>2, WrittenType
      <3>3. FlushOK'
        BY <2>5 DEF FlushSend, TypeOK, FlushOK
      <3> QED
        BY <2>5, <1>a, Unchanged, <3>2, <3>3 DEF FlushSend
    <2>6. CASE FlushResult
      <3>1. batch # <<>> /\ Head(batch) \in Items /\ Tail(batch) \in Seq(Items)
        BY <2>6 DEF FlushResult, InHand, TypeOK, FlushOK
      <3>2. QueueOK'
        BY <2>6, <3>1, SavedType DEF FlushResult, TypeOK, QueueOK
      <3>3. FlushOK'
        BY <2>6, <3>1 DEF FlushResult, TypeOK, FlushOK
      <3> QED
        BY <2>6, <1>a, Unchanged, <3>2, <3>3 DEF FlushResult
    <2>7. CASE FlushEnd
      <3>1. FlushOK'
        BY <2>7 DEF FlushEnd, TypeOK, FlushOK
      <3>2. TimerOK'
        BY <2>7 DEF FlushEnd, ArmTimer, TypeOK, TimerOK
      <3> QED
        BY <2>7, <1>a, Unchanged, <3>1, <3>2 DEF FlushEnd
    <2> QED
      BY <1>10, <2>1, <2>2, <2>3, <2>4, <2>5, <2>6, <2>7 DEF Flusher
  <1>11. CASE Environment
    <2>a. ASSUME ConnOK', TimerOK', UNCHANGED <<sendVars, queue, flushVars, wire>> PROVE TypeOK'
      BY <2>a, <1>a, Unchanged
    <2>1. CASE Lifecycle
      <3>1. ConnOK' /\ TimerOK'
        <4>1. waiting' \in 0..MaxGoroutines
          BY <2>1 DEF Lifecycle, MetaFlush, TypeOK, TimerOK
        <4> QED
          BY <2>1, <4>1 DEF Lifecycle, TypeOK, ConnOK, TimerOK
      <3> QED
        BY <2>1, <2>a, <3>1 DEF Lifecycle
    <2>2. ASSUME NEW h \in Handlers, NEW st \in BOOLEAN, HeartbeatLoad(h, st) PROVE TypeOK'
      <3>1. ConnOK'
        BY <2>2 DEF HeartbeatLoad, TypeOK, ConnOK
      <3> QED
        BY <2>2, <2>a, Unchanged, <3>1 DEF HeartbeatLoad
    <2>3. ASSUME NEW h \in Handlers, HeartbeatStore(h) PROVE TypeOK'
      <3>1. ConnOK'
        BY <2>3 DEF HeartbeatStore, TypeOK, ConnOK
      <3>2. TimerOK'
        <4>1. waiting' \in 0..MaxGoroutines
          BY <2>3 DEF HeartbeatStore, MetaFlush, TypeOK, TimerOK
        <4> QED
          BY <2>3, <4>1 DEF HeartbeatStore, TypeOK, TimerOK
      <3> QED
        BY <2>3, <2>a, <3>1, <3>2 DEF HeartbeatStore
    <2>4. CASE WsUp \/ WsDown \/ Tick \/ Stop
      <3>1. ConnOK'
        <4>1. clock' \in 0..MaxClock
          BY <2>4 DEF WsUp, WsDown, Tick, Stop, TypeOK, ConnOK
        <4> QED
          BY <2>4, <4>1 DEF WsUp, WsDown, Tick, Stop, TypeOK, ConnOK
      <3> QED
        BY <2>4, <2>a, Unchanged, <3>1 DEF WsUp, WsDown, Tick, Stop
    <2> QED
      BY <1>11, <2>1, <2>2, <2>3, <2>4 DEF Environment, Events
  <1> QED
    BY <1>1, <1>2, <1>3, <1>4, <1>5, <1>6, <1>7, <1>8, <1>9, <1>10, <1>11 DEF Next, Sender

\* Every step keeps what senders and the flush have in hand.
LEMMA InHandStep == TypeOK /\ InHand /\ [Next]_vars => InHand'
  <1> SUFFICES ASSUME TypeOK, InHand, [Next]_vars PROVE InHand'
    OBVIOUS
  <1> DEFINE Good(p, c, m) ==
               (p = "start" => c = 1) /\ (p \in {"send", "result", "requeue"} => c \in 1..m)
  <1>0. InHand <=> /\ \A s \in Senders : Good(pc[s], cur[s], n[s])
                   /\ fpc = "result" => batch # <<>>
                   /\ fpc \in {"free", "check", "take"} => batch = <<>>
    BY DEF InHand
  <1>a. InHand' <=> /\ \A s \in Senders : Good(pc'[s], cur'[s], n'[s])
                    /\ fpc' = "result" => batch' # <<>>
                    /\ fpc' \in {"free", "check", "take"} => batch' = <<>>
    BY DEF InHand
  <1>1. ASSUME NEW s \in Senders, Sender(s) PROVE InHand'
    <2>1. UNCHANGED flushVars /\ n' = n
      BY <1>1 DEF Sender, BeginSend, SaveWhole, SendChunk, ChunkResult, QueueUnsentChunk, ScheduleFlush
    <2>2. \A t \in Senders \ {s} : pc'[t] = pc[t] /\ cur'[t] = cur[t]
      BY <1>1 DEF Sender, BeginSend, SaveWhole, SendChunk, ChunkResult, QueueUnsentChunk,
                  ScheduleFlush, Return, TypeOK, SendOK
    <2>3. Good(pc'[s], cur'[s], n[s])
      <3>0. n[s] \in Nat /\ cur[s] \in Nat \ {0} /\ Good(pc[s], cur[s], n[s])
        BY OfflineQueueAssumption, <1>0 DEF TypeOK, SendOK
      <3>1. CASE BeginSend(s)
        BY <3>0, <3>1 DEF BeginSend, Return, TypeOK, SendOK
      <3>2. CASE SaveWhole(s) \/ ScheduleFlush(s)
        BY <3>2 DEF SaveWhole, ScheduleFlush, Return, TypeOK, SendOK
      <3>3. CASE SendChunk(s)
        BY <3>0, <3>3 DEF SendChunk, TypeOK, SendOK
      <3>4. CASE ChunkResult(s)
        BY <3>0, <3>4 DEF ChunkResult, Return, TypeOK, SendOK
      <3>5. CASE QueueUnsentChunk(s)
        BY <3>0, <3>5 DEF QueueUnsentChunk, TypeOK, SendOK
      <3> QED
        BY <1>1, <3>1, <3>2, <3>3, <3>4, <3>5 DEF Sender
    <2> QED
      BY <1>0, <1>a, <2>1, <2>2, <2>3 DEF flushVars
  <1>2. CASE Flusher
    <2>1. UNCHANGED sendVars
      BY <1>2 DEF Flusher, FlushLock, FlushCheck, FlushTake, FlushDropExpired, FlushSend, FlushResult, FlushEnd
    <2>2. /\ fpc' = "result" => batch' # <<>>
          /\ fpc' \in {"free", "check", "take"} => batch' = <<>>
      BY <1>2, <1>0 DEF Flusher, FlushLock, FlushCheck, FlushTake, FlushDropExpired, FlushSend, FlushResult, FlushEnd
    <2> QED
      BY <1>0, <1>a, <2>1, <2>2 DEF sendVars
  <1>3. CASE TimerFires \/ TimerCallback \/ Environment \/ UNCHANGED vars
    <2>1. UNCHANGED <<sendVars, flushVars>>
      BY <1>3 DEF TimerFires, TimerCallback, Environment, Events, Lifecycle, HeartbeatLoad, HeartbeatStore,
                  WsUp, WsDown, Tick, Stop, vars
    <2> QED
      BY <1>0, <1>a, <2>1 DEF sendVars, flushVars
  <1> QED
    BY <1>1, <1>2, <1>3 DEF Next

-----------------------------------------------------------------------------
(* Every chunk stays in one place *)

\* What Unsent is in the next state of a step that leaves the senders alone.
LEMMA UnsentUnchanged == UNCHANGED sendVars => UnsentOf' = UnsentOf
  BY DEF sendVars, UnsentOf, Unsent

\* The chunks from a on are a and those after it.
LEMMA FromOn ==
    ASSUME NEW a \in Nat, NEW m \in Nat, a <= m
    PROVE  a \in a..m /\ (a + 1)..m = (a..m) \ {a}
  <1>1. \A k : k \in (a + 1)..m <=> k \in a..m /\ k # a
    OBVIOUS
  <1> QED
    BY <1>1

\* A step of a sender leaves every chunk in one place.
LEMMA SenderSole ==
    ASSUME IInv, TypeOK', NEW s \in Senders, Sender(s)
    PROVE  Sole(queue, Pending, UnsentOf, wire)'
  <1> DEFINE u == UnsentOf
             v == UnsentOf'
  <1>1. /\ TypeOK /\ InHand /\ Sole(queue, Pending, u, wire)
        /\ queue \in Seq(Items) /\ Pending \in Seq(Items) /\ wire \in Histories
        /\ u \in Unsents /\ v \in Unsents
    <2>1. (TypeOK => UnsentOf \in Unsents)'
      BY UnsentType, PTL
    <2> QED
      BY <2>1, UnsentType, PendingType DEF IInv, TypeOK, QueueOK, Histories
  <1>2. /\ n[s] \in Nat /\ cur[s] \in Nat \ {0} /\ n' = n
        /\ pc[s] \in {"send", "result", "requeue"} => cur[s] \in 1..n[s]
        /\ 1..n[s] \subseteq Chunks
    BY <1>1, OfflineQueueAssumption
       DEF TypeOK, SendOK, InHand, Chunks, Sender, BeginSend, SaveWhole, SendChunk, ChunkResult,
           QueueUnsentChunk, ScheduleFlush
  <1>3. UNCHANGED flushVars /\ Pending' = Pending
    BY DEF Sender, BeginSend, SaveWhole, SendChunk, ChunkResult, QueueUnsentChunk, ScheduleFlush,
           Pending, flushVars
  <1>4. \A t \in Senders \ {s} : v[t] = u[t]
    BY <1>1 DEF Sender, BeginSend, SaveWhole, SendChunk, ChunkResult, QueueUnsentChunk,
                ScheduleFlush, Return, TypeOK, SendOK, UnsentOf, Unsent
  <1>5. u[s] = Unsent(s) /\ v[s] = Unsent(s)'
    BY DEF UnsentOf
  <1> HIDE DEF u, v
  <1>6. CASE v[s] \subseteq u[s] /\ UNCHANGED <<queue, wire>>
    <2>1. \A t \in Senders : v[t] \subseteq u[t]
      BY <1>4, <1>6
    <2>2. Sole(queue, Pending, v, wire)
      BY <1>1, <2>1, SoleGiveUp
    <2> QED
      BY <1>3, <1>6, <2>2 DEF v
  <1>7. ASSUME NEW item \in Items, queue' = Saved(queue, item), UNCHANGED wire,
               item.from = s, item.parts \subseteq u[s], v[s] = u[s] \ item.parts
        PROVE  Sole(queue, Pending, UnsentOf, wire)'
    <2>1. Sole(Saved(queue, item), Pending, v, wire)
      BY <1>1, <1>4, <1>7, SoleStore
    <2> QED
      BY <1>3, <1>7, <2>1 DEF v
  <1>8. CASE BeginSend(s)
    <2>1. v[s] \subseteq u[s]
      BY <1>1, <1>2, <1>5, <1>8 DEF BeginSend, Return, Unsent, TypeOK, SendOK, InHand
    <2> QED
      BY <1>6, <1>8, <2>1 DEF BeginSend
  <1>9. CASE SaveWhole(s)
    <2>1. u[s] = 1..n[s] /\ v[s] = {}
      BY <1>1, <1>5, <1>9 DEF SaveWhole, Unsent, TypeOK, SendOK
    <2> DEFINE item == [from |-> s, parts |-> 1..n[s], at |-> clock]
    <2>2. item \in Items
      BY <1>1, OfflineQueueAssumption DEF Items, Chunks, TypeOK, SendOK, ConnOK
    <2> QED
      BY <1>7, <1>9, <2>1, <2>2 DEF SaveWhole
  <1>10. CASE SendChunk(s)
    <2>a. cur[s] \in Nat /\ n[s] \in Nat /\ cur[s] <= n[s] /\ cur[s] \in Chunks
      <3>1. cur[s] \in 1..n[s]
        BY <1>2, <1>10 DEF SendChunk
      <3> QED
        BY <1>2, <3>1
    <2>1. u[s] = cur[s]..n[s]
      BY <1>5, <1>10 DEF SendChunk, Unsent
    <2>2. v[s] = (IF out'[s] = "notsent" THEN cur[s] ELSE cur[s] + 1)..n[s]
      BY <1>1, <1>5, <1>10 DEF SendChunk, Unsent, TypeOK, SendOK
    <2>3. CASE wire' = wire
      <3>1. cur[s]..n[s] \subseteq u[s] /\ (cur[s] + 1)..n[s] \subseteq u[s]
        BY <2>a, <2>1, FromOn
      <3>2. v[s] = cur[s]..n[s] \/ v[s] = (cur[s] + 1)..n[s]
        BY <2>2
      <3>3. v[s] \subseteq u[s]
        BY <3>1, <3>2
      <3> QED
        BY <1>6, <1>10, <2>3, <3>3 DEF SendChunk
    <2>4. CASE out'[s] # "notsent" /\ wire' = Written(wire, s, {cur[s]})
      <3> DEFINE item == [from |-> s, parts |-> {cur[s]}, at |-> clock]
      <3>1. item \in Items /\ item.from = s /\ item.parts = {cur[s]}
        <4>1. clock \in 0..MaxClock
          BY <1>1 DEF TypeOK, ConnOK
        <4> QED
          BY <2>a, <4>1 DEF Items
      <3> HIDE DEF item
      <3>2. v[s] = u[s] \ {cur[s]} /\ cur[s] \in u[s] /\ cur[s] \in Chunks
        <4>1. u[s] = cur[s]..n[s] /\ v[s] = (cur[s] + 1)..n[s]
          BY <2>1, <2>2, <2>4
        <4> QED
          BY <2>a, <4>1, FromOn
      <3>3. Sole(queue, Pending, v, wire)
        BY <1>1, <1>4, <3>2, SoleGiveUp
      <3>4. Loose(item, queue, Pending, v, wire)
        BY <1>1, <3>1, <3>2 DEF Loose, Sole
      <3>5. Sole(queue, Pending, v, Written(wire, s, {cur[s]}))
        BY <1>1, <3>1, <3>3, <3>4, SoleWrite
      <3> QED
        BY <1>3, <1>10, <2>4, <3>5 DEF SendChunk, v
    <2>5. wire' = wire \/ (out'[s] # "notsent" /\ wire' = Written(wire, s, {cur[s]}))
      BY <1>1, <1>10 DEF SendChunk, Transmit, TypeOK, SendOK
    <2> QED
      BY <2>3, <2>4, <2>5
  <1>11. CASE ChunkResult(s)
    <2>1. v[s] \subseteq u[s]
      BY <1>1, <1>2, <1>5, <1>11 DEF ChunkResult, Return, Unsent, TypeOK, SendOK
    <2> QED
      BY <1>6, <1>11, <2>1 DEF ChunkResult
  <1>12. CASE QueueUnsentChunk(s)
    <2>1. u[s] = cur[s]..n[s]
      BY <1>5, <1>12 DEF QueueUnsentChunk, Unsent
    <2>2. v[s] = (cur[s] + 1)..n[s]
      BY <1>1, <1>2, <1>5, <1>12 DEF QueueUnsentChunk, Unsent, TypeOK, SendOK
    <2> DEFINE item == [from |-> s, parts |-> {cur[s]}, at |-> clock]
    <2>a. cur[s] \in Nat /\ n[s] \in Nat /\ cur[s] <= n[s] /\ cur[s] \in Chunks
      <3>1. cur[s] \in 1..n[s]
        BY <1>2, <1>12 DEF QueueUnsentChunk
      <3> QED
        BY <1>2, <3>1
    <2>3. item \in Items /\ item.from = s /\ item.parts = {cur[s]}
      <3>1. clock \in 0..MaxClock
        BY <1>1 DEF TypeOK, ConnOK
      <3> QED
        BY <2>a, <3>1 DEF Items
    <2>4. queue' = Saved(queue, item) /\ wire' = wire
      BY <1>12 DEF QueueUnsentChunk
    <2> HIDE DEF item
    <2>5. item.parts \subseteq u[s] /\ v[s] = u[s] \ item.parts
      <3>1. cur[s] \in u[s] /\ v[s] = u[s] \ {cur[s]}
        BY <2>a, <2>1, <2>2, FromOn
      <3> QED
        BY <2>3, <3>1
    <2> QED
      BY <1>7, <2>3, <2>4, <2>5
  <1>13. CASE ScheduleFlush(s)
    <2>1. v[s] \subseteq u[s]
      BY <1>1, <1>5, <1>13 DEF ScheduleFlush, Return, Unsent, TypeOK, SendOK
    <2> QED
      BY <1>6, <1>13, <2>1 DEF ScheduleFlush
  <1> QED
    BY <1>8, <1>9, <1>10, <1>11, <1>12, <1>13 DEF Sender

\* A step of the flush leaves every chunk in one place.
LEMMA FlusherSole ==
    ASSUME IInv, TypeOK', InHand', Flusher
    PROVE  Sole(queue, Pending, UnsentOf, wire)'
  <1> DEFINE u == UnsentOf
  <1>1. /\ TypeOK /\ InHand /\ Sole(queue, Pending, u, wire)
        /\ queue \in Seq(Items) /\ batch \in Seq(Items) /\ wire \in Histories
        /\ Pending \in Seq(Items) /\ u \in Unsents
    BY UnsentType, PendingType DEF IInv, TypeOK, QueueOK, FlushOK, Histories
  <1>2. UNCHANGED sendVars /\ u' = u
    <2>1. UNCHANGED sendVars
      BY DEF Flusher, FlushLock, FlushCheck, FlushTake, FlushDropExpired, FlushSend, FlushResult, FlushEnd
    <2> QED
      BY <2>1, UnsentUnchanged
  <1> HIDE DEF u
  <1>3. ASSUME Sole(queue', Pending', u, wire') PROVE Sole(queue, Pending, UnsentOf, wire)'
    BY <1>2, <1>3 DEF u
  <1>4. CASE FlushLock \/ FlushCheck \/ FlushEnd
    <2>1. Pending' = Pending /\ UNCHANGED <<queue, wire>>
      BY <1>4 DEF FlushLock, FlushCheck, FlushEnd, Pending
    <2> QED
      BY <1>1, <1>3, <2>1
  <1>5. CASE FlushTake
    <2>1. Pending' = queue /\ queue' = <<>> /\ wire' = wire
      BY <1>5 DEF FlushTake, Pending
    <2>2. Sole(<<>>, queue, u, wire)
      BY <1>1, SoleTake
    <2> QED
      BY <1>3, <2>1, <2>2
  <1>6. CASE FlushDropExpired
    <2>1. Pending = batch /\ batch # <<>> /\ Pending' = Tail(batch) /\ UNCHANGED <<queue, wire>>
      BY <1>6 DEF FlushDropExpired, Pending
    <2>2. Sole(queue, Tail(batch), u, wire)
      BY <1>1, <2>1, SoleLeave
    <2> QED
      BY <1>3, <2>1, <2>2
  <1>7. CASE FlushSend
    <2>1. Pending = batch /\ batch # <<>> /\ UNCHANGED <<queue, batch>>
      BY <1>7 DEF FlushSend, Pending
    <2>2. CASE fout' = "notsent"
      <3>1. Pending' = batch /\ wire' = wire
        BY <1>7, <2>2 DEF FlushSend, Pending, Transmit
      <3> QED
        BY <1>1, <1>3, <2>1, <3>1
    <2>3. CASE fout' # "notsent"
      <3>1. Pending' = Tail(batch)
        BY <1>7, <2>3 DEF FlushSend, Pending
      <3>2. wire' = wire \/ wire' = Written(wire, Head(batch).from, Head(batch).parts)
        BY <1>7 DEF FlushSend, Transmit
      <3>3. Sole(queue, Tail(batch), u, wire) /\ Loose(Head(batch), queue, Tail(batch), u, wire)
        BY <1>1, <2>1, SoleLeave
      <3>4. Head(batch) \in Items
        BY <1>1, <2>1, TailItems
      <3>5. Sole(queue, Tail(batch), u, Written(wire, Head(batch).from, Head(batch).parts))
        BY <1>1, <3>3, <3>4, SoleWrite
      <3> QED
        BY <1>3, <2>1, <3>1, <3>2, <3>3, <3>5
    <2> QED
      BY <2>2, <2>3
  <1>8. CASE FlushResult
    <2>1. batch # <<>> /\ Pending' = Tail(batch) /\ wire' = wire
      BY <1>1, <1>8 DEF FlushResult, Pending, InHand
    <2>2. CASE fout = "notsent"
      <3>1. Pending = batch /\ queue' = Saved(queue, Head(batch))
        BY <1>8, <2>2 DEF FlushResult, Pending
      <3>2. Sole(queue, Tail(batch), u, wire) /\ Loose(Head(batch), queue, Tail(batch), u, wire)
        BY <1>1, <2>1, <3>1, SoleLeave
      <3>3. Head(batch) \in Items /\ Tail(batch) \in Seq(Items)
        BY <1>1, <2>1, TailItems
      <3>4. Sole(Saved(queue, Head(batch)), Tail(batch), u, wire)
        BY <1>1, <3>2, <3>3, SoleSave
      <3> QED
        BY <1>3, <2>1, <3>1, <3>4
    <2>3. CASE fout # "notsent"
      <3>1. Pending = Tail(batch) /\ queue' = queue
        BY <1>8, <2>3 DEF FlushResult, Pending
      <3> QED
        BY <1>1, <1>3, <2>1, <3>1
    <2> QED
      BY <2>2, <2>3
  <1> QED
    BY <1>4, <1>5, <1>6, <1>7, <1>8 DEF Flusher

\* Every step preserves the invariant.
LEMMA StepIInv == IInv /\ [Next]_vars => IInv'
  <1> SUFFICES ASSUME IInv, [Next]_vars PROVE IInv'
    OBVIOUS
  <1>1. TypeOK' /\ InHand'
    BY TypeStep, InHandStep DEF IInv
  <1>2. Sole(queue, Pending, UnsentOf, wire)'
    <2>1. ASSUME NEW s \in Senders, Sender(s) PROVE Sole(queue, Pending, UnsentOf, wire)'
      BY <1>1, <2>1, SenderSole
    <2>2. CASE Flusher
      BY <1>1, <2>2, FlusherSole
    <2>3. CASE TimerFires \/ TimerCallback \/ Environment \/ UNCHANGED vars
      <3>1. UNCHANGED <<sendVars, flushVars, queue, wire>>
        BY <2>3 DEF TimerFires, TimerCallback, Environment, Events, Lifecycle, HeartbeatLoad,
                    HeartbeatStore, WsUp, WsDown, Tick, Stop, vars
      <3>2. UnsentOf' = UnsentOf /\ Pending' = Pending
        BY <3>1, UnsentUnchanged DEF Pending, flushVars
      <3> QED
        BY <3>1, <3>2 DEF IInv
    <2> QED
      BY <2>1, <2>2, <2>3 DEF Next
  <1> QED
    BY <1>1, <1>2 DEF IInv

-----------------------------------------------------------------------------
(* Theorems *)

\* In every execution, whatever the number of senders and chunks, the invariant holds.
THEOREM Inductive == Spec => []IInv
  BY InitIInv, StepIInv, PTL DEF Spec

\* Every variable stays in its range and the offline queue never exceeds its limit.
THEOREM TypeCorrect == Spec => []TypeOK
  <1>1. IInv => TypeOK
    BY DEF IInv
  <1> QED
    BY <1>1, Inductive, PTL

\* No chunk of any message is ever put on the socket twice: neither the offline
\* queue, nor its retries, nor concurrent flushes duplicate a message.
THEOREM NeverTwice == Spec => []AtMostOnce
  <1>1. IInv => AtMostOnce
    BY DEF IInv, Sole, AtMostOnce
  <1> QED
    BY <1>1, Inductive, PTL

\* What may still be sent is unsent.
LEMMA HeldNotSent == IInv => HeldIsUnsent
  <1> SUFFICES ASSUME IInv, NEW s \in Senders, NEW i \in Chunks, Held(s, i)
               PROVE  wire[s][i] = 0
    BY DEF HeldIsUnsent
  <1>1. CASE i \in Unsent(s)
    BY <1>1 DEF IInv, Sole, UnsentOf
  <1>2. CASE \E item \in Stored : item.from = s /\ i \in item.parts
    <2>1. DOMAIN queue = 1..Len(queue) /\ DOMAIN Pending = 1..Len(Pending)
      BY PendingType DEF IInv, TypeOK, QueueOK
    <2>2. \/ \E k \in 1..Len(queue) : At(queue, k, s, i)
          \/ \E k \in 1..Len(Pending) : At(Pending, k, s, i)
      BY <1>2, <2>1 DEF Stored, At
    <2> QED
      BY <2>2 DEF IInv, Sole
  <1> QED
    BY <1>1, <1>2 DEF Held

\* What a sender, the queue or a flush still means to send has not been put on
\* the socket before.
THEOREM HeldUnsent == Spec => []HeldIsUnsent
  BY HeldNotSent, Inductive, PTL

-----------------------------------------------------------------------------
(* What a step does to the stored items *)

Elems(q) == {q[k] : k \in 1..Len(q)}

\* Stored is what the queue and the pending part of the batch hold.
LEMMA StoredElems ==
    ASSUME TypeOK, InHand
    PROVE  Stored = Elems(queue) \cup Elems(Pending)
  <1>1. DOMAIN queue = 1..Len(queue) /\ DOMAIN Pending = 1..Len(Pending)
    BY PendingType DEF TypeOK, QueueOK
  <1> QED
    BY <1>1 DEF Stored, Elems

\* A nonempty sequence holds its first item and those of the rest.
LEMMA TailElems ==
    ASSUME NEW b \in Seq(Items), b # <<>>
    PROVE  Elems(b) = {Head(b)} \cup Elems(Tail(b))
  <1>1. /\ Len(b) \in Nat \ {0} /\ Head(b) = b[1] /\ Len(Tail(b)) = Len(b) - 1
        /\ \A k \in 1..Len(Tail(b)) : Tail(b)[k] = b[k + 1]
    BY DEF Items
  <1>2. Elems(b) \subseteq {Head(b)} \cup Elems(Tail(b))
    <2> SUFFICES ASSUME NEW k \in 1..Len(b), k # 1 PROVE b[k] \in Elems(Tail(b))
      BY <1>1 DEF Elems
    <2>1. k - 1 \in 1..Len(Tail(b)) /\ (k - 1) + 1 = k
      BY <1>1
    <2>2. b[k] = Tail(b)[k - 1]
      BY <1>1, <2>1
    <2> QED
      BY <2>1, <2>2 DEF Elems
  <1>3. \A k \in 1..Len(Tail(b)) : k + 1 \in 1..Len(b)
    BY <1>1
  <1>4. 1 \in 1..Len(b)
    BY <1>1
  <1> QED
    BY <1>1, <1>2, <1>3, <1>4 DEF Elems

\* An appended item joins the others.
LEMMA AppendElems ==
    ASSUME NEW q \in Seq(Items), NEW item \in Items
    PROVE  Elems(Append(q, item)) = Elems(q) \cup {item}
  <1> DEFINE r == Append(q, item)
  <1>1. /\ Len(q) \in Nat /\ Len(r) = Len(q) + 1 /\ r[Len(q) + 1] = item
        /\ \A k \in 1..Len(q) : r[k] = q[k]
    OBVIOUS
  <1>2. 1..Len(r) = 1..Len(q) \cup {Len(q) + 1}
    BY <1>1
  <1> QED
    BY <1>1, <1>2 DEF Elems

\* saveOfflineMsg loses only the oldest item, of a full queue.
LEMMA SavedElems ==
    ASSUME NEW q \in Seq(Items), NEW item \in Items, Len(q) <= MaxQueue
    PROVE  /\ item \in Elems(Saved(q, item))
           /\ Elems(Saved(q, item)) \subseteq Elems(q) \cup {item}
           /\ \A x \in Elems(q) :
                 x \in Elems(Saved(q, item)) \/ (Len(q) = MaxQueue /\ x = Head(q))
  <1>1. CASE Len(q) >= MaxQueue
    <2>1. q # <<>> /\ Len(q) = MaxQueue /\ Tail(q) \in Seq(Items)
      BY <1>1, OfflineQueueAssumption
    <2>2. Elems(Saved(q, item)) = Elems(Tail(q)) \cup {item}
      BY <1>1, <2>1, AppendElems DEF Saved
    <2> QED
      BY <2>1, <2>2, TailElems
  <1>2. CASE ~(Len(q) >= MaxQueue)
    BY <1>2, AppendElems DEF Saved
  <1> QED
    BY <1>1, <1>2

\* Two stored items never share a chunk, and no sender holds a stored chunk.
LEMMA StoredSole ==
    ASSUME IInv, NEW x \in Stored, NEW i \in x.parts
    PROVE  /\ x \in Items /\ x.from \in Senders /\ i \in Chunks
           /\ i \notin Unsent(x.from)
           /\ \A y \in Stored : y.from = x.from /\ i \in y.parts => y = x
  <1>1. /\ queue \in Seq(Items) /\ Pending \in Seq(Items)
        /\ Stored = Elems(queue) \cup Elems(Pending)
        /\ Sole(queue, Pending, UnsentOf, wire)
    BY StoredElems, PendingType DEF IInv, TypeOK, QueueOK
  <1>2. x \in Items /\ x.from \in Senders /\ i \in Chunks
    <2>1. x \in Items
      BY <1>1 DEF Elems
    <2> QED
      BY <2>1 DEF Items
  <1>3. \A y \in Stored : y.from = x.from /\ i \in y.parts =>
           \/ \E k \in 1..Len(queue) : y = queue[k] /\ At(queue, k, x.from, i)
           \/ \E k \in 1..Len(Pending) : y = Pending[k] /\ At(Pending, k, x.from, i)
    BY <1>1 DEF Elems, At
  <1>4. \/ \E k \in 1..Len(queue) : x = queue[k] /\ At(queue, k, x.from, i)
        \/ \E k \in 1..Len(Pending) : x = Pending[k] /\ At(Pending, k, x.from, i)
    BY <1>3
  <1>5. i \notin Unsent(x.from)
    BY <1>1, <1>2, <1>4 DEF Sole, UnsentOf
  <1>6. ASSUME NEW y \in Stored, y.from = x.from, i \in y.parts PROVE y = x
    BY <1>1, <1>2, <1>3, <1>4, <1>6 DEF Sole
  <1> QED
    BY <1>2, <1>5, <1>6

\* A sender saves at most one item, of chunks in its hands, and loses a chunk
\* from its hands without storing it only by sending it or by giving up.
LEMMA SenderStores ==
    ASSUME IInv, NEW s \in Senders, Sender(s)
    PROVE  /\ Pending' = Pending
           /\ \A t \in Senders \ {s} : Unsent(t)' = Unsent(t)
           /\ \/ /\ queue' = queue
                 /\ \A i \in Unsent(s) \ Unsent(s)' :
                       \/ wire' = Written(wire, s, {i})
                       \/ out[s]' = "unknown"
                       \/ out[s] \in {"rejected", "notsent"} /\ status[s]' = out[s]
              \/ \E item \in Items : /\ queue' = Saved(queue, item)
                                     /\ item.from = s /\ item.parts \subseteq Unsent(s)
                                     /\ Unsent(s) \subseteq item.parts \cup Unsent(s)'
  <1>1. Pending' = Pending
    BY DEF Sender, BeginSend, SaveWhole, SendChunk, ChunkResult, QueueUnsentChunk, ScheduleFlush,
           Pending, flushVars
  <1>2. /\ TypeOK /\ InHand /\ SendOK /\ clock \in 0..MaxClock
        /\ n[s] \in 0..MaxChunks /\ n[s] \in Nat /\ cur[s] \in Nat \ {0} /\ 1..n[s] \subseteq Chunks
        /\ pc[s] \in {"send", "result", "requeue"} => cur[s] \in 1..n[s]
    BY OfflineQueueAssumption DEF IInv, TypeOK, SendOK, ConnOK, InHand, Chunks
  <1>3. ASSUME NEW t \in Senders \ {s} PROVE Unsent(t)' = Unsent(t)
    BY <1>2 DEF Sender, BeginSend, SaveWhole, SendChunk, ChunkResult, QueueUnsentChunk,
                ScheduleFlush, Return, SendOK, Unsent
  <1>4. CASE BeginSend(s)
    <2>1. Unsent(s) \subseteq Unsent(s)'
      BY <1>2, <1>4 DEF BeginSend, Return, Unsent, SendOK, InHand
    <2> QED
      BY <1>1, <1>3, <1>4, <2>1 DEF BeginSend
  <1>5. CASE SaveWhole(s)
    <2> DEFINE item == [from |-> s, parts |-> 1..n[s], at |-> clock]
    <2>1. item \in Items /\ Unsent(s) = 1..n[s]
      BY <1>2, <1>5 DEF SaveWhole, Items, Unsent
    <2> QED
      BY <1>1, <1>3, <1>5, <2>1 DEF SaveWhole
  <1>6. CASE SendChunk(s)
    <2>1. cur[s] \in Nat /\ n[s] \in Nat /\ cur[s] <= n[s]
      BY <1>2, <1>6 DEF SendChunk
    <2>2. Unsent(s) = cur[s]..n[s]
      BY <1>6 DEF SendChunk, Unsent
    <2>3. Unsent(s)' = (IF out'[s] = "notsent" THEN cur[s] ELSE cur[s] + 1)..n[s]
      BY <1>2, <1>6 DEF SendChunk, Unsent, SendOK
    <2>4. \A i \in Unsent(s) \ Unsent(s)' : i = cur[s] /\ out'[s] # "notsent"
      BY <2>1, <2>2, <2>3, FromOn
    <2>5. out'[s] # "notsent" => wire' = Written(wire, s, {cur[s]}) \/ out'[s] = "unknown"
      BY <1>2, <1>6 DEF SendChunk, Transmit, SendOK
    <2> QED
      BY <1>1, <1>3, <1>6, <2>4, <2>5 DEF SendChunk
  <1>7. CASE ChunkResult(s)
    <2>1. cur[s] \in Nat /\ n[s] \in Nat /\ cur[s] <= n[s]
      BY <1>2, <1>7 DEF ChunkResult
    <2>2. out' = out /\ queue' = queue
      BY <1>7 DEF ChunkResult
    <2>3. CASE out[s] = "ok"
      <3>1. Unsent(s) = (cur[s] + 1)..n[s]
        BY <1>7, <2>3 DEF ChunkResult, Unsent
      <3>2. CASE cur[s] < n[s]
        BY <1>1, <1>2, <1>3, <1>7, <2>2, <2>3, <3>1, <3>2 DEF ChunkResult, Unsent, SendOK
      <3>3. CASE cur[s] = n[s]
        <4>1. Unsent(s) = {}
          BY <2>1, <3>1, <3>3
        <4> QED
          BY <1>1, <1>3, <2>2, <4>1
      <3> QED
        BY <2>1, <3>2, <3>3
    <2>4. CASE out[s] = "unknown"
      BY <1>1, <1>3, <2>2, <2>4
    <2>5. CASE out[s] = "rejected" \/ (out[s] = "notsent" /\ ~QueueEnabled)
      <3>1. status[s]' = out[s]
        BY <1>2, <1>7, <2>5 DEF ChunkResult, Return, SendOK
      <3> QED
        BY <1>1, <1>3, <2>2, <2>5, <3>1
    <2>6. CASE out[s] = "notsent" /\ QueueEnabled
      BY <1>1, <1>2, <1>3, <1>7, <2>2, <2>6 DEF ChunkResult, Unsent, SendOK
    <2> QED
      BY <1>2, <2>3, <2>4, <2>5, <2>6 DEF SendOK, Outcomes
  <1>8. CASE QueueUnsentChunk(s)
    <2> DEFINE item == [from |-> s, parts |-> {cur[s]}, at |-> clock]
    <2>1. cur[s] \in Nat /\ n[s] \in Nat /\ cur[s] <= n[s] /\ cur[s] \in Chunks
      <3>1. cur[s] \in 1..n[s]
        BY <1>2, <1>8 DEF QueueUnsentChunk
      <3> QED
        BY <1>2, <3>1
    <2>2. Unsent(s) = cur[s]..n[s]
      BY <1>8 DEF QueueUnsentChunk, Unsent
    <2>3. Unsent(s)' = (cur[s] + 1)..n[s]
      BY <1>2, <1>8 DEF QueueUnsentChunk, Unsent, SendOK
    <2>4. cur[s] \in Unsent(s) /\ Unsent(s) \subseteq {cur[s]} \cup Unsent(s)'
      BY <2>1, <2>2, <2>3, FromOn
    <2>5. item \in Items
      BY <1>2, <2>1 DEF Items
    <2> QED
      BY <1>1, <1>3, <1>8, <2>4, <2>5 DEF QueueUnsentChunk
  <1>9. CASE ScheduleFlush(s)
    <2>1. Unsent(s) = {} /\ queue' = queue
      BY <1>9 DEF ScheduleFlush, Unsent
    <2> QED
      BY <1>1, <1>3, <2>1
  <1> QED
    BY <1>4, <1>5, <1>6, <1>7, <1>8, <1>9 DEF Sender

\* A flush stores nothing new, and lets go only of the item at hand, when it has
\* expired or its attempt cannot be repeated, and of the oldest of a full queue.
LEMMA FlusherStores ==
    ASSUME IInv, TypeOK', InHand', Flusher
    PROVE  /\ Stored' \subseteq Stored
           /\ \A x \in Stored :
                 \/ x \in Stored'
                 \/ Len(queue) = MaxQueue /\ x = Head(queue)
                 \/ /\ fpc = "loop" /\ batch # <<>> /\ x = Head(batch)
                    /\ \/ now > Head(batch).at + Expire
                       \/ fout' = "unknown"
                       \/ wire' = Written(wire, x.from, x.parts)
  <1>1. /\ queue \in Seq(Items) /\ Len(queue) <= MaxQueue /\ batch \in Seq(Items)
        /\ fpc = "result" => batch # <<>>
        /\ fpc \in {"free", "check", "take"} => batch = <<>>
        /\ Stored = Elems(queue) \cup Elems(Pending)
    BY StoredElems DEF IInv, TypeOK, QueueOK, FlushOK, InHand
  <1>2. Stored' = Elems(queue') \cup Elems(Pending')
    <2>1. (TypeOK /\ InHand => Stored = Elems(queue) \cup Elems(Pending))'
      <3>1. TypeOK /\ InHand => Stored = Elems(queue) \cup Elems(Pending)
        BY StoredElems
      <3> QED
        BY StoredElems, PTL
    <2> QED
      BY <2>1 DEF Elems
  <1>3. CASE FlushLock \/ FlushCheck \/ FlushEnd
    <2>1. Pending' = Pending /\ queue' = queue
      BY <1>3 DEF FlushLock, FlushCheck, FlushEnd, Pending
    <2> QED
      BY <1>1, <1>2, <2>1
  <1>4. CASE FlushTake
    <2>1. Pending = batch /\ batch = <<>> /\ Pending' = queue /\ queue' = <<>>
      BY <1>1, <1>4 DEF FlushTake, Pending
    <2>2. Elems(<<>>) = {}
      BY DEF Elems
    <2> QED
      BY <1>1, <1>2, <2>1, <2>2
  <1>5. CASE FlushDropExpired
    <2>1. /\ Pending = batch /\ batch # <<>> /\ Pending' = Tail(batch) /\ queue' = queue
          /\ fpc = "loop" /\ now > Head(batch).at + Expire
      BY <1>5 DEF FlushDropExpired, Pending
    <2>2. Elems(batch) = {Head(batch)} \cup Elems(Tail(batch))
      BY <1>1, <2>1, TailElems
    <2> QED
      BY <1>1, <1>2, <2>1, <2>2
  <1>6. CASE FlushSend
    <2>1. Pending = batch /\ batch # <<>> /\ queue' = queue /\ batch' = batch /\ fpc = "loop"
      BY <1>6 DEF FlushSend, Pending
    <2>2. CASE fout' = "notsent"
      <3>1. Pending' = batch
        BY <1>6, <2>2 DEF FlushSend, Pending
      <3> QED
        BY <1>1, <1>2, <2>1, <3>1
    <2>3. CASE fout' # "notsent"
      <3>1. Pending' = Tail(batch)
        BY <1>6, <2>3 DEF FlushSend, Pending
      <3>2. fout' = "unknown" \/ wire' = Written(wire, Head(batch).from, Head(batch).parts)
        BY <1>6, <2>3 DEF FlushSend, Transmit
      <3>3. Elems(batch) = {Head(batch)} \cup Elems(Tail(batch))
        BY <1>1, <2>1, TailElems
      <3> QED
        BY <1>1, <1>2, <2>1, <3>1, <3>2, <3>3
    <2> QED
      BY <2>2, <2>3
  <1>7. CASE FlushResult
    <2>1. batch # <<>> /\ Pending' = Tail(batch)
      BY <1>1, <1>7 DEF FlushResult, Pending
    <2>2. CASE fout = "notsent"
      <3>1. Pending = batch /\ queue' = Saved(queue, Head(batch))
        BY <1>7, <2>2 DEF FlushResult, Pending
      <3>2. Head(batch) \in Items /\ Elems(batch) = {Head(batch)} \cup Elems(Tail(batch))
        BY <1>1, <2>1, TailItems, TailElems
      <3>3. /\ Head(batch) \in Elems(queue')
            /\ Elems(queue') \subseteq Elems(queue) \cup {Head(batch)}
            /\ \A x \in Elems(queue) :
                  x \in Elems(queue') \/ (Len(queue) = MaxQueue /\ x = Head(queue))
        BY <1>1, <3>1, <3>2, SavedElems
      <3> QED
        BY <1>1, <1>2, <2>1, <3>1, <3>2, <3>3
    <2>3. CASE fout # "notsent"
      <3>1. Pending = Tail(batch) /\ queue' = queue
        BY <1>7, <2>3 DEF FlushResult, Pending
      <3> QED
        BY <1>1, <1>2, <2>1, <3>1
    <2> QED
      BY <2>2, <2>3
  <1> QED
    BY <1>3, <1>4, <1>5, <1>6, <1>7 DEF Flusher

\* The other steps leave senders, queue and batch alone.
LEMMA OtherStores ==
    ASSUME TimerFires \/ TimerCallback \/ Environment \/ UNCHANGED vars
    PROVE  Stored' = Stored /\ \A s \in Senders : Unsent(s)' = Unsent(s)
  <1>1. UNCHANGED <<sendVars, flushVars, queue>>
    BY DEF TimerFires, TimerCallback, Environment, Events, Lifecycle, HeartbeatLoad,
           HeartbeatStore, WsUp, WsDown, Tick, Stop, vars
  <1>2. Pending' = Pending
    BY <1>1 DEF Pending, flushVars
  <1> QED
    BY <1>1, <1>2 DEF Stored, Unsent, sendVars

-----------------------------------------------------------------------------
(* Action properties *)

\* An item that is stored again keeps the CreatedAt it was first queued with.
THEOREM CreationTimeKept == Spec => KeepsCreationTime
  <1> DEFINE Kept == \A x \in Stored, y \in Stored' :
                        x.from = y.from /\ x.parts = y.parts /\ x.parts # {} => x.at = y.at
  <1>1. ASSUME IInv, IInv', [Next]_vars PROVE Kept
    <2> SUFFICES ASSUME NEW x \in Stored, NEW y \in Stored', NEW i \in x.parts,
                        x.from = y.from, x.parts = y.parts
                 PROVE  x.at = y.at
      OBVIOUS
    <2>1. CASE y \in Stored
      BY <1>1, <2>1, StoredSole
    <2>2. ASSUME NEW s \in Senders, Sender(s), y \notin Stored PROVE FALSE
      <3>1. /\ queue \in Seq(Items) /\ Len(queue) <= MaxQueue
            /\ Stored = Elems(queue) \cup Elems(Pending)
        BY <1>1, StoredElems DEF IInv, TypeOK, QueueOK
      <3>2. Stored' = Elems(queue') \cup Elems(Pending')
        <4>1. (TypeOK /\ InHand => Stored = Elems(queue) \cup Elems(Pending))'
          BY StoredElems, PTL
        <4> QED
          BY <1>1, <4>1 DEF IInv, Elems
      <3>3. PICK item \in Items : /\ queue' = Saved(queue, item)
                                  /\ item.from = s /\ item.parts \subseteq Unsent(s)
        BY <1>1, <2>2, <3>1, <3>2, SenderStores
      <3>4. y = item
        BY <1>1, <2>2, <3>1, <3>2, <3>3, SenderStores, SavedElems
      <3> QED
        BY <1>1, <3>3, <3>4, StoredSole
    <2>3. CASE Flusher
      BY <1>1, <2>1, <2>3, FlusherStores DEF IInv
    <2>4. CASE TimerFires \/ TimerCallback \/ Environment \/ UNCHANGED vars
      BY <2>1, <2>4, OtherStores
    <2> QED
      BY <1>1, <2>1, <2>2, <2>3, <2>4 DEF Next
  <1>2. IInv /\ IInv' /\ [Next]_vars => [Kept]_vars
    BY <1>1
  <1>3. Spec => [][Kept]_vars
    BY <1>2, Inductive, PTL DEF Spec
  <1> QED
    BY <1>3 DEF KeepsCreationTime

\* An unsent chunk that is written is on the socket once.
LEMMA WrittenOnce ==
    ASSUME IInv, NEW s \in Senders, NEW P \in SUBSET Chunks, NEW i \in P,
           Held(s, i), wire' = Written(wire, s, P)
    PROVE  wire[s][i]' = 1
  <1>1. wire \in Histories /\ i \in Chunks
    BY DEF IInv, TypeOK, Histories
  <1>2. wire[s][i] = 0
    BY <1>1, HeldNotSent DEF HeldIsUnsent
  <1> QED
    BY <1>1, <1>2 DEF Written, Histories

\* No chunk is lost silently: what nothing holds any more was sent, dropped as the
\* oldest of a full queue, expired, or given up by an attempt that is never repeated.
THEOREM LossesAccounted == Spec => NoSilentLoss
  <1> DEFINE Why(s, i) ==
               \/ wire[s][i]' = 1
               \/ Len(queue) = MaxQueue /\ Head(queue).from = s /\ i \in Head(queue).parts
               \/ fpc = "loop" /\ batch # <<>>
                     /\ (now > Head(batch).at + Expire \/ fout' = "unknown")
                     /\ Head(batch).from = s /\ i \in Head(batch).parts
               \/ out[s]' = "unknown"
               \/ out[s] \in {"rejected", "notsent"} /\ status[s]' = out[s]
             Lost == \A s \in Senders, i \in Chunks : Held(s, i) /\ ~Held(s, i)' => Why(s, i)
  <1>1. ASSUME IInv, IInv', [Next]_vars PROVE Lost
    <2> SUFFICES ASSUME NEW s \in Senders, NEW i \in Chunks, Held(s, i), ~Held(s, i)'
                 PROVE  Why(s, i)
      OBVIOUS
    <2>0. i \notin Unsent(s)' /\ \A item \in Stored' : ~(item.from = s /\ i \in item.parts)
      BY DEF Held
    <2>1. ASSUME NEW t \in Senders, Sender(t) PROVE Why(s, i)
      <3>1. /\ queue \in Seq(Items) /\ Len(queue) <= MaxQueue
            /\ Stored = Elems(queue) \cup Elems(Pending)
        BY <1>1, StoredElems DEF IInv, TypeOK, QueueOK
      <3>2. Stored' = Elems(queue') \cup Elems(Pending)
        <4>1. (TypeOK /\ InHand => Stored = Elems(queue) \cup Elems(Pending))'
          BY StoredElems, PTL
        <4>2. Pending' = Pending
          BY <1>1, <2>1, SenderStores
        <4> QED
          BY <1>1, <4>1, <4>2 DEF IInv, Elems
      <3>3. CASE i \in Unsent(s)
        <4>1. s = t
          BY <1>1, <2>0, <2>1, <3>3, SenderStores
        <4>2. CASE \/ wire' = Written(wire, s, {i})
                   \/ out[s]' = "unknown"
                   \/ out[s] \in {"rejected", "notsent"} /\ status[s]' = out[s]
          BY <1>1, <4>2, WrittenOnce
        <4>3. ASSUME NEW item \in Items, queue' = Saved(queue, item), item.from = s,
                     Unsent(s) \subseteq item.parts \cup Unsent(s)'
              PROVE  Why(s, i)
          BY <2>0, <3>1, <3>2, <3>3, <4>3, SavedElems
        <4> QED
          BY <1>1, <2>0, <2>1, <3>3, <4>1, <4>2, <4>3, SenderStores
      <3>4. ASSUME NEW x \in Stored, x.from = s, i \in x.parts PROVE Why(s, i)
        <4>1. x \in Elems(queue) \ Elems(queue')
          BY <2>0, <3>1, <3>2, <3>4
        <4>2. PICK item \in Items : queue' = Saved(queue, item)
          BY <1>1, <2>1, <4>1, SenderStores
        <4> QED
          BY <3>1, <3>4, <4>1, <4>2, SavedElems
      <3> QED
        BY <3>3, <3>4 DEF Held
    <2>2. CASE Flusher
      <3>1. UNCHANGED sendVars
        BY <2>2 DEF Flusher, FlushLock, FlushCheck, FlushTake, FlushDropExpired, FlushSend,
                    FlushResult, FlushEnd
      <3>2. i \notin Unsent(s)
        BY <2>0, <3>1 DEF Unsent, sendVars
      <3>3. PICK x \in Stored : x.from = s /\ i \in x.parts
        BY <3>2 DEF Held
      <3>4. x \in Items /\ x.parts \in SUBSET Chunks
        <4>1. x \in Items
          BY <1>1, <3>3, StoredSole
        <4> QED
          BY <4>1 DEF Items
      <3>5. \/ Len(queue) = MaxQueue /\ x = Head(queue)
            \/ /\ fpc = "loop" /\ batch # <<>> /\ x = Head(batch)
               /\ \/ now > Head(batch).at + Expire
                  \/ fout' = "unknown"
                  \/ wire' = Written(wire, x.from, x.parts)
        BY <1>1, <2>0, <2>2, <3>3, FlusherStores DEF IInv
      <3>6. CASE wire' = Written(wire, x.from, x.parts)
        BY <1>1, <3>3, <3>4, <3>6, WrittenOnce
      <3> QED
        BY <3>3, <3>5, <3>6
    <2>3. CASE TimerFires \/ TimerCallback \/ Environment \/ UNCHANGED vars
      BY <2>0, <2>3, OtherStores DEF Held
    <2> QED
      BY <1>1, <2>1, <2>2, <2>3 DEF Next
  <1>2. IInv /\ IInv' /\ [Next]_vars => [Lost]_vars
    BY <1>1
  <1>3. Spec => [][Lost]_vars
    BY <1>2, Inductive, PTL DEF Spec
  <1> QED
    BY <1>3 DEF NoSilentLoss
=============================================================================
