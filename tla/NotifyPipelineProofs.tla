------------------------- MODULE NotifyPipelineProofs -------------------------
(***************************************************************************)
(* Proofs about NotifyPipeline.  Places says where the stages are, seen     *)
(* from the channels that Lsp.Stop has closed; Tracked says that no notify  *)
(* is out of sight between its generation and its end.                      *)
(***************************************************************************)
EXTENDS NotifyPipeline, FiniteSetTheorems, SequenceTheorems, TLAPS

(* Sequences and the sets of their items *)

LEMMA EmptyItems == ToSet(<<>>) = {}
  BY DEF ToSet

LEMMA AppendItems ==
    ASSUME NEW T, NEW s \in Seq(T), NEW x \in T
    PROVE  /\ Append(s, x) \in Seq(T) /\ Len(Append(s, x)) = Len(s) + 1
           /\ ToSet(Append(s, x)) = ToSet(s) \cup {x}
  <1> DEFINE a == Append(s, x)
  <1>1. /\ a \in Seq(T) /\ Len(s) \in Nat /\ Len(a) = Len(s) + 1
        /\ a[Len(s) + 1] = x /\ \A i \in 1..Len(s) : a[i] = s[i]
    BY AppendProperties
  <1>2. DOMAIN a = 1..(Len(s) + 1) /\ DOMAIN s = 1..Len(s)
    BY <1>1, LenProperties
  <1>3. DOMAIN a = DOMAIN s \cup {Len(s) + 1} /\ \A i \in DOMAIN s : a[i] = s[i]
    BY <1>1, <1>2
  <1> HIDE DEF a
  <1>4. ToSet(a) = ToSet(s) \cup {x}
    BY <1>1, <1>3 DEF ToSet
  <1> QED
    BY <1>1, <1>4 DEF a

LEMMA TailItems ==
    ASSUME NEW T, NEW s \in Seq(T), s # <<>>
    PROVE  /\ Head(s) \in T /\ Tail(s) \in Seq(T)
           /\ Len(s) \in Nat \ {0} /\ Len(Tail(s)) = Len(s) - 1
           /\ Len(s) # 1 => Tail(s) # <<>>
           /\ ToSet(s) = {Head(s)} \cup ToSet(Tail(s))
  <1> DEFINE t == Tail(s)
  <1>1. /\ Head(s) \in T /\ t \in Seq(T) /\ Len(t) = Len(s) - 1
        /\ \A i \in 1..Len(t) : t[i] = s[i + 1]
    BY HeadTailProperties
  <1>2. Len(s) \in Nat \ {0} /\ DOMAIN s = 1..Len(s) /\ DOMAIN t = 1..Len(t) /\ Head(s) = s[1]
    BY <1>1, EmptySeq, LenProperties
  <1>3. Len(s) # 1 => t # <<>>
    <2>1. Len(s) # 1 => Len(t) # 0
      BY <1>1, <1>2
    <2> QED
      BY <2>1
  <1> HIDE DEF t
  <1>4. ToSet(s) \subseteq {Head(s)} \cup ToSet(t)
    <2> SUFFICES ASSUME NEW i \in 1..Len(s) PROVE s[i] \in {Head(s)} \cup ToSet(t)
      BY <1>2 DEF ToSet
    <2>1. CASE i = 1
      BY <1>2, <2>1
    <2>2. CASE i # 1
      <3>1. i - 1 \in 1..Len(t) /\ t[i - 1] = s[i]
        BY <1>1, <1>2, <2>2
      <3> QED
        BY <1>2, <3>1 DEF ToSet
    <2> QED
      BY <2>1, <2>2
  <1>5. {Head(s)} \cup ToSet(t) \subseteq ToSet(s)
    <2>1. \A i \in 1..Len(t) : i + 1 \in 1..Len(s)
      BY <1>1, <1>2
    <2>2. Head(s) \in ToSet(s)
      BY <1>2 DEF ToSet
    <2>3. ToSet(t) \subseteq ToSet(s)
      BY <1>1, <1>2, <2>1 DEF ToSet
    <2> QED
      BY <2>2, <2>3
  <1> QED
    BY <1>1, <1>2, <1>3, <1>4, <1>5 DEF t

\* SetToSeq lists the elements of a finite set.
LEMMA SetToSeqItems ==
    ASSUME NEW S, IsFiniteSet(S)
    PROVE  SetToSeq(S) \in Seq(S) /\ ToSet(SetToSeq(S)) = S
  <1> DEFINE n == Cardinality(S)
             f == SetToSeq(S)
  <1>1. n \in Nat /\ ExistsBijection(1..n, S)
    BY FS_CardinalityType
  <1>2. \E g \in [1..n -> S] : IsInjective(g)
    BY <1>1 DEF ExistsBijection, Bijection, Injection
  <1>3. f \in [1..n -> S] /\ IsInjective(f)
    BY <1>2 DEF SetToSeq
  <1>4. f \in Injection(1..n, S) /\ IsFiniteSet(1..n) /\ Cardinality(1..n) = n
    BY <1>1, <1>3, FS_Interval DEF Injection
  <1>5. f \in Surjection(1..n, S)
    BY <1>4, FS_Injection
  <1>6. ToSet(f) = S
    BY <1>3, <1>5 DEF ToSet, Surjection
  <1>7. f \in Seq(S)
    BY <1>1, <1>3, SeqDef
  <1> QED
    BY <1>6, <1>7

-----------------------------------------------------------------------------
(* Types *)

LEMMA NotifiesFinite == IsFiniteSet(Notifies)
  BY FS_Product, NotifyPipelineAssumption DEF Notifies

\* A set of one element at most, told by its cardinality.
LEMMA OneOrNone ==
    /\ Cardinality({}) = 0 /\ \A x : Cardinality({x}) = 1
    /\ \A S : IsFiniteSet(S) => (Cardinality(S) = 0 <=> S = {})
    /\ \A S : IsFiniteSet(S) => (Cardinality(S) = 1 <=> \E x : S = {x})
  BY FS_EmptySet, FS_Singleton

LEMMA InitType == Init => TypeOK
  <1> SUFFICES ASSUME Init PROVE TypeOK
    OBVIOUS
  <1>1. batch \in Seq(Events) /\ eventChan \in Seq(Events) /\ notifyChan \in Seq(Notifies)
        /\ Len(eventChan) = 0 /\ Len(notifyChan) = 0
    BY EmptySeq DEF Init
  <1>2. /\ worker \in [Workers -> {"idle", "event", "sending", "respawn", "gone"}]
        /\ \A w \in Workers : worker[w] # "event"
    BY DEF Init
  <1>3. /\ todo \in [Workers -> Seq(Notifies)] /\ \A w \in Workers : todo[w] = <<>>
        /\ event \in [Workers -> SUBSET Events] /\ \A w \in Workers : event[w] = {}
    BY EmptySeq DEF Init
  <1>4. /\ EventCap \in Nat /\ NotifyCap \in Nat /\ NotifyParallel \in Nat /\ 0 \in 0..MaxPanics
    BY NotifyPipelineAssumption
  <1>5. crashed \in BOOLEAN /\ dispatchPanicked \in BOOLEAN
    BY DEF Init
  <1> QED
    BY <1>1, <1>2, <1>3, <1>4, <1>5, OneOrNone DEF Init, TypeOK

LEMMA FresherType == TypeOK /\ Fresher => TypeOK'
  <1> SUFFICES ASSUME TypeOK, Fresher PROVE TypeOK'
    OBVIOUS
  <1> USE DEF fresherVars, workerVars, consumerVars, endVars, panicVars, history
  <1>1. CASE FreshTakes \/ FreshRespawns \/ FreshEnds
    BY <1>1 DEF FreshTakes, FreshRespawns, FreshEnds, TypeOK
  <1>2. ASSUME NEW events \in SUBSET Events, FreshFinds(events) PROVE TypeOK'
    <2>1. IsFiniteSet(events)
      BY FS_Subset, NotifyPipelineAssumption
    <2>2. batch' \in Seq(Events)
      BY <1>2, <2>1, SetToSeqItems, SeqMonotonic DEF FreshFinds
    <2> QED
      BY <1>2, <2>2 DEF FreshFinds, TypeOK
  <1>3. CASE FreshSends
    <2>1. CASE batch = <<>>
      BY <1>3, <2>1 DEF FreshSends, TypeOK
    <2>2. CASE batch # <<>>
      <3>1. /\ Head(batch) \in Events /\ Tail(batch) \in Seq(Events)
            /\ Append(eventChan, Head(batch)) \in Seq(Events)
            /\ Len(Append(eventChan, Head(batch))) = Len(eventChan) + 1
        BY <2>2, TailItems, AppendItems DEF TypeOK
      <3>2. Len(eventChan) < EventCap /\ eventChan' = Append(eventChan, Head(batch))
        BY <1>3, <2>2 DEF FreshSends
      <3>3. Len(eventChan) \in Nat /\ EventCap \in Nat
        BY LenProperties, NotifyPipelineAssumption DEF TypeOK
      <3>4. eventChan' \in Seq(Events) /\ Len(eventChan') <= EventCap
        BY <3>1, <3>2, <3>3
      <3>5. batch' \in Seq(Events) /\ handed' \subseteq Events
        BY <1>3, <2>2, <3>1 DEF FreshSends, TypeOK
      <3>6. /\ fresher = "sending" /\ fresher' = fresher
            /\ UNCHANGED <<unseen, workerVars, large, notifyChan, consumerVars,
                           sending, endVars, panicVars, generated, ended>>
        BY <1>3, <2>2 DEF FreshSends
      <3> QED
        BY <3>4, <3>5, <3>6 DEF TypeOK
    <2> QED
      BY <2>1, <2>2
  <1>4. CASE FreshPanics
    BY <1>4, NotifyPipelineAssumption DEF FreshPanics, Panic, TypeOK
  <1> QED
    BY <1>1, <1>2, <1>3, <1>4 DEF Fresher

LEMMA WorkerType == ASSUME NEW w \in Workers PROVE TypeOK /\ Worker(w) => TypeOK'
  <1> SUFFICES ASSUME TypeOK, Worker(w) PROVE TypeOK'
    OBVIOUS
  <1> USE DEF fresherVars, consumerVars, endVars, panicVars, history
  <1>1. CASE WorkerTakes(w)
    <2>1. /\ Head(eventChan) \in Events /\ Tail(eventChan) \in Seq(Events)
          /\ Len(Tail(eventChan)) <= EventCap
      <3>1. eventChan # <<>> /\ eventChan \in Seq(Events) /\ Len(eventChan) <= EventCap
        BY <1>1 DEF WorkerTakes, TypeOK
      <3> QED
        BY <3>1, TailItems, NotifyPipelineAssumption
    <2>2. todo[w] = <<>> /\ Cardinality({Head(eventChan)}) = 1
      BY <1>1, OneOrNone DEF WorkerTakes, TypeOK
    <2> QED
      BY <1>1, <2>1, <2>2 DEF WorkerTakes, TypeOK
  <1>2. ASSUME NEW to \in SUBSET Groups, WorkerGenerates(w, to) PROVE TypeOK'
    <2> DEFINE notifies == event[w] \X to
    <2>1. notifies \subseteq Notifies
      BY DEF TypeOK, Notifies
    <2>2. IsFiniteSet(notifies)
      BY <2>1, NotifiesFinite, FS_Subset
    <2>3. SetToSeq(notifies) \in Seq(Notifies)
      BY <2>1, <2>2, SetToSeqItems, SeqMonotonic
    <2>4. Cardinality(notifies) >= LargeNotifyLimit => SetToSeq(notifies) # <<>>
      BY <2>2, SetToSeqItems, EmptyItems, OneOrNone, NotifyPipelineAssumption
    <2>5. todo[w] = <<>> /\ Cardinality({}) = 0
      BY <1>2, OneOrNone DEF WorkerGenerates, TypeOK
    <2>6. generated' \subseteq Notifies
      BY <1>2, <2>1 DEF WorkerGenerates, TypeOK
    <2> HIDE DEF notifies
    <2>7. \/ /\ large' = large \cup {SetToSeq(notifies)} /\ SetToSeq(notifies) # <<>>
             /\ worker' = [worker EXCEPT ![w] = "idle"] /\ todo' = todo
          \/ /\ todo' = [todo EXCEPT ![w] = SetToSeq(notifies)]
             /\ worker' = [worker EXCEPT ![w] = "sending"] /\ large' = large
      BY <1>2, <2>4 DEF WorkerGenerates, notifies
    <2>8. \A l \in large' : l \in Seq(Notifies) /\ l # <<>>
      BY <2>3, <2>7 DEF TypeOK
    <2>9. /\ todo' \in [Workers -> Seq(Notifies)]
          /\ worker' \in [Workers -> {"idle", "event", "sending", "respawn", "gone"}]
      BY <2>3, <2>7 DEF TypeOK
    <2>10. /\ worker'[w] \in {"idle", "sending"}
           /\ todo'[w] # <<>> => worker'[w] = "sending"
           /\ \A v \in Workers \ {w} : worker'[v] = worker[v] /\ todo'[v] = todo[v]
      BY <2>5, <2>7 DEF TypeOK
    <2>11. /\ event' = [event EXCEPT ![w] = {}]
           /\ UNCHANGED <<fresherVars, eventChan, notifyChan, consumerVars,
                          sending, endVars, panicVars, handed, ended>>
      BY <1>2 DEF WorkerGenerates
    <2>12. /\ event' \in [Workers -> SUBSET Events] /\ event'[w] = {}
           /\ \A v \in Workers \ {w} : event'[v] = event[v]
      BY <2>11 DEF TypeOK
    <2>13. \A v \in Workers :
              /\ Cardinality(event'[v]) = IF worker'[v] = "event" THEN 1 ELSE 0
              /\ todo'[v] # <<>> => worker'[v] = "sending"
      <3>1. Cardinality(event'[w]) = 0 /\ worker'[w] # "event"
        BY <2>5, <2>10, <2>12
      <3>2. \A v \in Workers \ {w} :
               /\ Cardinality(event'[v]) = IF worker'[v] = "event" THEN 1 ELSE 0
               /\ todo'[v] # <<>> => worker'[v] = "sending"
        BY <2>10, <2>12 DEF TypeOK
      <3> QED
        BY <2>10, <3>1, <3>2
    <2> QED
      BY <2>6, <2>8, <2>9, <2>11, <2>12, <2>13 DEF TypeOK
  <1>3. CASE WorkerSends(w)
    <2>1. CASE todo[w] = <<>>
      BY <1>3, <2>1 DEF WorkerSends, TypeOK
    <2>2. CASE todo[w] # <<>>
      <3>1. todo[w] \in Seq(Notifies) /\ notifyChan \in Seq(Notifies)
        BY DEF TypeOK
      <3>2. /\ Tail(todo[w]) \in Seq(Notifies)
            /\ Append(notifyChan, Head(todo[w])) \in Seq(Notifies)
            /\ Len(Append(notifyChan, Head(todo[w]))) = Len(notifyChan) + 1
        BY <2>2, <3>1, TailItems, AppendItems
      <3>3. Len(notifyChan) < NotifyCap /\ Len(notifyChan) \in Nat
        BY <1>3, <2>2, <3>1, LenProperties DEF WorkerSends, Send
      <3>4. notifyChan' \in Seq(Notifies) /\ Len(notifyChan') <= NotifyCap
        BY <1>3, <2>2, <3>2, <3>3, NotifyPipelineAssumption DEF WorkerSends, Send
      <3>5. /\ worker[w] = "sending" /\ todo' = [todo EXCEPT ![w] = Tail(todo[w])]
            /\ UNCHANGED <<worker, fresherVars, eventChan, event, large, consumerVars,
                           sending, endVars, panicVars, history>>
        BY <1>3, <2>2 DEF WorkerSends
      <3> QED
        BY <3>2, <3>4, <3>5 DEF TypeOK
    <2> QED
      BY <2>1, <2>2
  <1>4. CASE WorkerPanics(w)
    <2>1. todo[w] = <<>> /\ Cardinality({}) = 0
      BY <1>4, OneOrNone DEF WorkerPanics, TypeOK
    <2> QED
      BY <1>4, <2>1, NotifyPipelineAssumption DEF WorkerPanics, Panic, TypeOK
  <1>5. CASE WorkerLoses(w)
    BY <1>5, EmptySeq DEF WorkerLoses, TypeOK
  <1>6. CASE WorkerRespawns(w)
    BY <1>6 DEF WorkerRespawns, TypeOK
  <1>7. CASE WorkerEnds(w)
    BY <1>7 DEF WorkerEnds, TypeOK
  <1> QED
    BY <1>1, <1>2, <1>3, <1>4, <1>5, <1>6, <1>7 DEF Worker

LEMMA LargeType == ASSUME NEW l \in large PROVE TypeOK /\ LargeSends(l) => TypeOK'
  <1> SUFFICES ASSUME TypeOK, LargeSends(l) PROVE TypeOK'
    OBVIOUS
  <1> USE DEF fresherVars, workerVars, consumerVars, panicVars, history
  <1>1. l \in Seq(Notifies) /\ l # <<>> /\ notifyChan \in Seq(Notifies)
    BY DEF TypeOK
  <1>2. CASE NotifyClosed
    BY <1>2 DEF LargeSends, TypeOK
  <1>3. CASE ~NotifyClosed
    <2>1. /\ Append(notifyChan, Head(l)) \in Seq(Notifies)
          /\ Len(Append(notifyChan, Head(l))) = Len(notifyChan) + 1
      BY <1>1, TailItems, AppendItems
    <2>2. Len(notifyChan) < NotifyCap /\ Len(notifyChan) \in Nat
      BY <1>1, <1>3, LenProperties DEF LargeSends, Send
    <2>3. \A k \in large' : k \in large \/ (k = Tail(l) /\ Len(l) # 1)
      BY <1>3 DEF LargeSends
    <2>4. \A k \in large' : k \in Seq(Notifies) /\ k # <<>>
      BY <1>1, <2>3, TailItems DEF TypeOK
    <2>5. notifyChan' \in Seq(Notifies) /\ Len(notifyChan') <= NotifyCap
      BY <1>3, <2>1, <2>2, NotifyPipelineAssumption DEF LargeSends, Send
    <2>6. UNCHANGED <<fresherVars, eventChan, workerVars, consumerVars,
                      sending, stop, crashed, panicVars, history>>
      BY <1>3 DEF LargeSends
    <2> QED
      BY <2>4, <2>5, <2>6 DEF TypeOK
  <1> QED
    BY <1>2, <1>3

LEMMA ConsumerType == TypeOK /\ Consumer => TypeOK'
  <1> SUFFICES ASSUME TypeOK, Consumer PROVE TypeOK'
    OBVIOUS
  <1> USE DEF fresherVars, workerVars, consumerVars, endVars, panicVars, history
  <1>0. Cardinality({}) = 0
    BY OneOrNone
  <1>1. CASE ConsumerTakes
    <2>1. notifyChan # <<>> /\ notifyChan \in Seq(Notifies) /\ Len(notifyChan) <= NotifyCap
      BY <1>1 DEF ConsumerTakes, TypeOK
    <2>2. /\ Head(notifyChan) \in Notifies /\ Tail(notifyChan) \in Seq(Notifies)
          /\ Len(Tail(notifyChan)) <= NotifyCap
      BY <2>1, TailItems, NotifyPipelineAssumption
    <2>3. Cardinality({Head(notifyChan)}) = 1
      BY OneOrNone
    <2> QED
      BY <1>1, <2>2, <2>3 DEF ConsumerTakes, TypeOK
  <1>2. CASE ConsumerDrops
    BY <1>0, <1>2 DEF ConsumerDrops, TypeOK
  <1>3. CASE ConsumerSpawns
    <2>1. IsFiniteSet(handling) /\ IsFiniteSet(sending)
      BY NotifiesFinite, FS_Subset DEF TypeOK
    <2>2. PICK n : handling = {n}
      BY <1>3, <2>1, OneOrNone DEF ConsumerSpawns, TypeOK
    <2>3. /\ Cardinality(sending) \in Nat
          /\ Cardinality(sending \cup {n}) \in {Cardinality(sending), Cardinality(sending) + 1}
      BY <2>1, FS_AddElement, FS_CardinalityType
    <2>4. Cardinality(sending) < NotifyParallel /\ sending' = sending \cup {n}
      BY <1>3, <2>2 DEF ConsumerSpawns
    <2>5. Cardinality(sending') <= NotifyParallel
      BY <2>3, <2>4, NotifyPipelineAssumption
    <2> QED
      BY <1>0, <1>3, <2>5 DEF ConsumerSpawns, TypeOK
  <1>4. CASE ConsumerPanics
    BY <1>0, <1>4, NotifyPipelineAssumption DEF ConsumerPanics, Panic, TypeOK
  <1>5. CASE ConsumerRestarts \/ ConsumerEnds
    BY <1>5 DEF ConsumerRestarts, ConsumerEnds, TypeOK
  <1> QED
    BY <1>1, <1>2, <1>3, <1>4, <1>5 DEF Consumer

LEMMA SendEndsType == ASSUME NEW n \in sending PROVE TypeOK /\ SendEnds(n) => TypeOK'
  <1> SUFFICES ASSUME TypeOK, SendEnds(n) PROVE TypeOK'
    OBVIOUS
  <1>1. IsFiniteSet(sending)
    BY NotifiesFinite, FS_Subset DEF TypeOK
  <1>2. Cardinality(sending') <= Cardinality(sending) /\ Cardinality(sending) \in Nat
        /\ Cardinality(sending') \in Nat
    BY <1>1, FS_RemoveElement, FS_CardinalityType DEF SendEnds
  <1>3. Cardinality(sending') <= NotifyParallel
    BY <1>2, NotifyPipelineAssumption DEF TypeOK
  <1> QED
    BY <1>3 DEF SendEnds, TypeOK, fresherVars, workerVars, consumerVars, endVars, panicVars

LEMMA StoppingType == TypeOK /\ (StopEmitting \/ Stopping) => TypeOK'
  BY DEF StopEmitting, Stopping, StopFresher, StopWorkers, StopConsumer, StopSends, StopStep,
         TypeOK, fresherVars, workerVars, consumerVars, panicVars, history

LEMMA TypeStep == TypeOK /\ [Next]_vars => TypeOK'
  <1> SUFFICES ASSUME TypeOK, [Next]_vars PROVE TypeOK'
    OBVIOUS
  <1>1. CASE UNCHANGED vars
    BY <1>1 DEF vars, fresherVars, workerVars, consumerVars, endVars, panicVars, history, TypeOK
  <1> QED
    BY <1>1, FresherType, WorkerType, LargeType, ConsumerType, SendEndsType, StoppingType DEF Next

\* Every variable stays in its range, the channels and the sends under way within their
\* capacity, and each goroutine holds what its place says.
THEOREM TypeCorrect == Spec => []TypeOK
  BY InitType, TypeStep, PTL DEF Spec

-----------------------------------------------------------------------------
(* The inductive invariant *)

\* Where the stages are, seen from the channels that Lsp.Stop has closed.
Places ==
    /\ EventClosed => fresher \in {"ready", "respawn", "gone"}
    /\ ~dispatchPanicked => \A w \in Workers : worker[w] # "respawn"
    /\ NotifyClosed /\ ~dispatchPanicked => \A w \in Workers : worker[w] = "gone"
    /\ (\A w \in Workers : worker[w] = "gone") => EventClosed /\ eventChan = <<>>
    /\ consumer = "gone" => NotifyClosed /\ notifyChan = <<>>
    /\ stop \in {"sends", "returned"} => consumer = "gone"
    /\ stop = "returned" => sending = {}

\* A notify that was made is with a worker or the goroutine of a large event, in the
\* channel, with the consumer, or being sent; or it has been.
Somewhere(n) ==
    \/ \E w \in Workers : n \in ToSet(todo[w])
    \/ \E l \in large : n \in ToSet(l)
    \/ n \in ToSet(notifyChan)
    \/ n \in handling \/ n \in sending \/ n \in ended

Tracked == ~dispatchPanicked => \A n \in generated : Somewhere(n)

LEMMA InitPlaces == Init => Places /\ Tracked
  <1> SUFFICES ASSUME Init PROVE Places /\ Tracked
    OBVIOUS
  <1>1. \E w \in Workers : worker[w] # "gone"
    <2>1. PICK started \in {Workers, {CHOOSE w \in Workers : TRUE}} :
             worker = [w \in Workers |-> IF w \in started THEN "idle" ELSE "gone"]
      BY DEF Init
    <2>2. \E w \in Workers : w \in started
      BY <2>1, NotifyPipelineAssumption
    <2> QED
      BY <2>1, <2>2
  <1>2. \A w \in Workers : worker[w] # "respawn"
    BY DEF Init
  <1>3. Places
    BY <1>1, <1>2 DEF Init, Places, EventClosed, NotifyClosed
  <1> QED
    BY <1>3 DEF Init, Tracked

\* The fresher sends to an open channel only, and does not start again once it is closed.
LEMMA FresherPlaces == TypeOK /\ Places /\ Fresher => Places'
  <1> SUFFICES ASSUME TypeOK, Places, Fresher PROVE Places'
    OBVIOUS
  <1>1. UNCHANGED <<workerVars, large, notifyChan, consumerVars, sending, endVars,
                    dispatchPanicked>>
    BY DEF Fresher, FreshTakes, FreshFinds, FreshSends, FreshPanics, FreshRespawns, FreshEnds,
           panicVars
  <1>2. EventClosed => fresher' \in {"ready", "respawn", "gone"} /\ eventChan' = eventChan
    BY DEF Fresher, FreshTakes, FreshFinds, FreshSends, FreshPanics, FreshRespawns, FreshEnds,
           Places, EmitClosed, EventClosed
  <1> QED
    BY <1>1, <1>2 DEF Places, EventClosed, NotifyClosed, workerVars, consumerVars, endVars

\* A worker goes only when eventChan is closed and empty, and respawns only after a panic.
LEMMA WorkerPlaces == ASSUME NEW w \in Workers PROVE TypeOK /\ Places /\ Worker(w) => Places'
  <1> SUFFICES ASSUME TypeOK, Places, Worker(w) PROVE Places'
    OBVIOUS
  <1> USE DEF EventClosed, NotifyClosed
  <1>1. UNCHANGED <<fresherVars, consumerVars, sending, endVars>>
    BY DEF Worker, WorkerTakes, WorkerGenerates, WorkerSends, WorkerPanics, WorkerLoses,
           WorkerRespawns, WorkerEnds
  <1>2. worker[w] # "gone"
    BY DEF Worker, WorkerTakes, WorkerGenerates, WorkerSends, WorkerPanics, WorkerLoses,
           WorkerRespawns, WorkerEnds
  <1>3. NotifyClosed => dispatchPanicked
    BY <1>2 DEF Places
  <1>4. dispatchPanicked => dispatchPanicked'
    BY DEF Worker, WorkerTakes, WorkerGenerates, WorkerSends, WorkerPanics, WorkerLoses,
           WorkerRespawns, WorkerEnds, panicVars
  <1>5. ~dispatchPanicked' => \A v \in Workers : worker'[v] # "respawn"
    BY <1>3, <1>4 DEF Worker, WorkerTakes, WorkerGenerates, WorkerSends, WorkerPanics, WorkerLoses,
           WorkerRespawns, WorkerEnds, Places, TypeOK
  <1>6. (\A v \in Workers : worker'[v] = "gone") => EventClosed /\ eventChan' = <<>>
    <2> SUFFICES ASSUME \A v \in Workers : worker'[v] = "gone"
                 PROVE  EventClosed /\ eventChan' = <<>>
      OBVIOUS
    <2>1. worker'[w] = "gone"
      OBVIOUS
    <2>2. WorkerEnds(w)
      BY <1>2, <2>1 DEF Worker, WorkerTakes, WorkerGenerates, WorkerSends, WorkerPanics,
                        WorkerLoses, WorkerRespawns, TypeOK
    <2> QED
      BY <2>2 DEF WorkerEnds
  <1>7. NotifyClosed => notifyChan' = notifyChan
    BY DEF Worker, WorkerTakes, WorkerGenerates, WorkerSends, WorkerPanics, WorkerLoses,
           WorkerRespawns, WorkerEnds
  <1> QED
    BY <1>1, <1>3, <1>4, <1>5, <1>6, <1>7 DEF Places, fresherVars, consumerVars, endVars

LEMMA LargePlaces == ASSUME NEW l \in large PROVE Places /\ LargeSends(l) => Places'
  <1> SUFFICES ASSUME Places, LargeSends(l) PROVE Places'
    OBVIOUS
  <1>1. UNCHANGED <<fresher, eventChan, worker, consumer, sending, stop, dispatchPanicked>>
    BY DEF LargeSends, fresherVars, workerVars, consumerVars, panicVars
  <1>2. NotifyClosed => notifyChan' = notifyChan
    BY DEF LargeSends
  <1> QED
    BY <1>1, <1>2 DEF Places, EventClosed, NotifyClosed

LEMMA ConsumerPlaces == Places /\ Consumer => Places'
  <1> SUFFICES ASSUME Places, Consumer PROVE Places'
    OBVIOUS
  <1>1. UNCHANGED <<fresher, eventChan, worker, stop, dispatchPanicked>>
    BY DEF Consumer, ConsumerTakes, ConsumerDrops, ConsumerSpawns, ConsumerPanics,
           ConsumerRestarts, ConsumerEnds, fresherVars, workerVars, endVars, panicVars
  <1>2. consumer # "gone" /\ (consumer' = "gone" => NotifyClosed /\ notifyChan' = <<>>)
    BY DEF Consumer, ConsumerTakes, ConsumerDrops, ConsumerSpawns, ConsumerPanics,
           ConsumerRestarts, ConsumerEnds
  <1> QED
    BY <1>1, <1>2 DEF Places, EventClosed, NotifyClosed

LEMMA StoppingPlaces == Places /\ (StopEmitting \/ Stopping) => Places'
  <1> SUFFICES ASSUME Places, StopEmitting \/ Stopping PROVE Places'
    OBVIOUS
  <1>1. UNCHANGED <<fresher, eventChan, worker, notifyChan, consumer, sending, dispatchPanicked>>
    BY DEF StopEmitting, Stopping, StopFresher, StopWorkers, StopConsumer, StopSends, StopStep,
           fresherVars, workerVars, consumerVars, panicVars
  <1>2. CASE StopEmitting
    BY <1>1, <1>2 DEF StopEmitting, StopStep, Places, EventClosed, NotifyClosed
  <1>3. CASE StopFresher
    BY <1>1, <1>3 DEF StopFresher, StopStep, Places, EventClosed, NotifyClosed
  <1>4. CASE StopWorkers
    BY <1>1, <1>4 DEF StopWorkers, StopStep, Places, EventClosed, NotifyClosed
  <1>5. CASE StopConsumer
    BY <1>1, <1>5 DEF StopConsumer, StopStep, Places, EventClosed, NotifyClosed
  <1>6. CASE StopSends
    BY <1>1, <1>6 DEF StopSends, StopStep, Places, EventClosed, NotifyClosed
  <1> QED
    BY <1>2, <1>3, <1>4, <1>5, <1>6 DEF Stopping

LEMMA StepPlaces == TypeOK /\ Places /\ [Next]_vars => Places'
  <1> SUFFICES ASSUME TypeOK, Places, [Next]_vars PROVE Places'
    OBVIOUS
  <1>1. CASE UNCHANGED vars
    BY <1>1 DEF vars, fresherVars, workerVars, consumerVars, endVars, panicVars, Places,
                EventClosed, NotifyClosed
  <1>2. ASSUME NEW n \in sending, SendEnds(n) PROVE Places'
    BY <1>2 DEF SendEnds, Running, fresherVars, workerVars, consumerVars, endVars, panicVars,
                Places, EventClosed, NotifyClosed
  <1> QED
    BY <1>1, <1>2, FresherPlaces, WorkerPlaces, LargePlaces, ConsumerPlaces, StoppingPlaces DEF Next

-----------------------------------------------------------------------------
(* No notify is out of sight *)

\* A worker hands a notify on before it forgets it, unless it finds notifyChan closed, which
\* only a worker that panicked before can.
LEMMA WorkerTracked ==
    ASSUME NEW w \in Workers, TypeOK, Places, Tracked, Worker(w)
    PROVE  Tracked'
  <1> SUFFICES ASSUME ~dispatchPanicked', NEW n \in generated' PROVE Somewhere(n)'
    BY DEF Tracked
  <1>1. UNCHANGED <<handling, sending, ended>>
    BY DEF Worker, WorkerTakes, WorkerGenerates, WorkerSends, WorkerPanics, WorkerLoses,
           WorkerRespawns, WorkerEnds, consumerVars, history
  <1>2. ~dispatchPanicked /\ ~NotifyClosed
    <2>1. worker[w] # "gone"
      BY DEF Worker, WorkerTakes, WorkerGenerates, WorkerSends, WorkerPanics, WorkerLoses,
             WorkerRespawns, WorkerEnds
    <2>2. dispatchPanicked => dispatchPanicked'
      BY DEF Worker, WorkerTakes, WorkerGenerates, WorkerSends, WorkerPanics, WorkerLoses,
             WorkerRespawns, WorkerEnds, panicVars
    <2> QED
      BY <2>1, <2>2 DEF Places
  <1>3. ASSUME NEW to \in SUBSET Groups, WorkerGenerates(w, to) PROVE Somewhere(n)'
    <2> DEFINE notifies == event[w] \X to
    <2>1. ToSet(SetToSeq(notifies)) = notifies
      <3>1. notifies \subseteq Notifies
        BY DEF TypeOK, Notifies
      <3> QED
        BY <3>1, NotifiesFinite, FS_Subset, SetToSeqItems
    <2>2. generated' = generated \cup notifies /\ notifyChan' = notifyChan
      BY <1>3 DEF WorkerGenerates
    <2>3. todo[w] = <<>>
      BY <1>3 DEF WorkerGenerates, TypeOK
    <2>4. \/ large' = large \cup {SetToSeq(notifies)} /\ todo' = todo
          \/ todo' = [todo EXCEPT ![w] = SetToSeq(notifies)] /\ large' = large
      BY <1>3 DEF WorkerGenerates
    <2> HIDE DEF notifies
    <2>5. CASE n \in notifies
      <3>1. (\E l \in large' : n \in ToSet(l)) \/ n \in ToSet(todo'[w])
        BY <2>1, <2>4, <2>5 DEF TypeOK
      <3> QED
        BY <3>1 DEF Somewhere
    <2>6. CASE n \notin notifies
      <3>1. Somewhere(n)
        BY <1>2, <2>2, <2>6 DEF Tracked
      <3>2. \A v \in Workers : n \in ToSet(todo[v]) => n \in ToSet(todo'[v])
        BY <2>3, <2>4, EmptyItems DEF TypeOK
      <3>3. large \subseteq large'
        BY <2>4
      <3> QED
        BY <1>1, <2>2, <3>1, <3>2, <3>3 DEF Somewhere
    <2> QED
      BY <2>5, <2>6
  <1>4. CASE WorkerSends(w) /\ todo[w] # <<>>
    <2>1. /\ generated' = generated /\ large' = large
          /\ notifyChan' = Append(notifyChan, Head(todo[w]))
          /\ todo' = [todo EXCEPT ![w] = Tail(todo[w])]
      BY <1>4 DEF WorkerSends, Send, history
    <2>2. /\ todo[w] \in Seq(Notifies) /\ Head(todo[w]) \in Notifies
          /\ ToSet(todo[w]) = {Head(todo[w])} \cup ToSet(Tail(todo[w]))
      <3>1. todo[w] \in Seq(Notifies)
        BY DEF TypeOK
      <3> QED
        BY <1>4, <3>1, TailItems
    <2>3. ToSet(notifyChan') = ToSet(notifyChan) \cup {Head(todo[w])}
      <3>1. notifyChan \in Seq(Notifies)
        BY DEF TypeOK
      <3> QED
        BY <2>1, <2>2, <3>1, AppendItems
    <2>4. Somewhere(n)
      BY <1>2, <2>1 DEF Tracked
    <2>5. todo'[w] = Tail(todo[w]) /\ \A v \in Workers \ {w} : todo'[v] = todo[v]
      BY <2>1 DEF TypeOK
    <2>6. \A v \in Workers :
             n \in ToSet(todo[v]) => n \in ToSet(todo'[v]) \/ n \in ToSet(notifyChan')
      BY <2>2, <2>3, <2>5
    <2> QED
      BY <1>1, <2>1, <2>3, <2>4, <2>6 DEF Somewhere
  <1>5. CASE \/ WorkerTakes(w) \/ (WorkerSends(w) /\ todo[w] = <<>>)
             \/ WorkerPanics(w) \/ WorkerRespawns(w) \/ WorkerEnds(w)
    <2>1. UNCHANGED <<todo, large, notifyChan, generated>>
      BY <1>5 DEF WorkerTakes, WorkerSends, WorkerPanics, WorkerRespawns, WorkerEnds, history
    <2> QED
      BY <1>1, <1>2, <2>1 DEF Tracked, Somewhere
  <1>6. ~WorkerLoses(w)
    BY <1>2 DEF WorkerLoses
  <1> QED
    BY <1>3, <1>4, <1>5, <1>6 DEF Worker

LEMMA LargeTracked ==
    ASSUME NEW l \in large, TypeOK, Tracked, LargeSends(l)
    PROVE  Tracked'
  <1> SUFFICES ASSUME ~dispatchPanicked', NEW n \in generated' PROVE Somewhere(n)'
    BY DEF Tracked
  <1>1. UNCHANGED <<todo, handling, sending, ended, generated, dispatchPanicked>>
    BY DEF LargeSends, workerVars, consumerVars, history, panicVars
  <1>2. Somewhere(n)
    BY <1>1 DEF Tracked
  <1>3. CASE NotifyClosed
    BY <1>1, <1>2, <1>3 DEF LargeSends, Somewhere
  <1>4. CASE ~NotifyClosed
    <2>1. /\ l \in Seq(Notifies) /\ l # <<>> /\ notifyChan \in Seq(Notifies)
      BY DEF TypeOK
    <2>2. /\ notifyChan' = Append(notifyChan, Head(l))
          /\ large' = (large \ {l}) \cup IF Len(l) = 1 THEN {} ELSE {Tail(l)}
      BY <1>4 DEF LargeSends, Send
    <2>3. ToSet(notifyChan') = ToSet(notifyChan) \cup {Head(l)}
      BY <2>1, <2>2, TailItems, AppendItems
    <2>4. ToSet(l) = {Head(l)} \cup (IF Len(l) = 1 THEN {} ELSE ToSet(Tail(l)))
      <3>1. ToSet(l) = {Head(l)} \cup ToSet(Tail(l)) /\ Tail(l) \in Seq(Notifies)
            /\ Len(Tail(l)) = Len(l) - 1 /\ Len(l) \in Nat
        BY <2>1, TailItems
      <3>2. \A s \in Seq(Notifies) : Len(s) = 0 => s = <<>>
        OBVIOUS
      <3>3. Len(l) = 1 => Len(Tail(l)) = 0
        BY <3>1
      <3>4. Len(l) = 1 => Tail(l) = <<>>
        BY <3>1, <3>2, <3>3
      <3>5. Len(l) = 1 => ToSet(Tail(l)) = {}
        BY <3>4, EmptyItems
      <3> QED
        BY <3>1, <3>5
    <2>5. (\E k \in large : n \in ToSet(k)) =>
             (\E k \in large' : n \in ToSet(k)) \/ n \in ToSet(notifyChan')
      BY <2>2, <2>3, <2>4
    <2> QED
      BY <1>1, <1>2, <2>3, <2>5 DEF Somewhere
  <1> QED
    BY <1>3, <1>4

LEMMA ConsumerTracked ==
    ASSUME TypeOK, Tracked, Consumer
    PROVE  Tracked'
  <1> SUFFICES ASSUME ~dispatchPanicked', NEW n \in generated' PROVE Somewhere(n)'
    BY DEF Tracked
  <1>1. UNCHANGED <<todo, large, generated, dispatchPanicked>>
    BY DEF Consumer, ConsumerTakes, ConsumerDrops, ConsumerSpawns, ConsumerPanics,
           ConsumerRestarts, ConsumerEnds, workerVars, history, panicVars
  <1>2. Somewhere(n)
    BY <1>1 DEF Tracked
  <1>3. CASE ConsumerTakes
    <2>1. /\ handling' = {Head(notifyChan)} /\ notifyChan' = Tail(notifyChan)
          /\ sending' = sending /\ ended' = ended
      BY <1>3 DEF ConsumerTakes, history
    <2>2. ToSet(notifyChan) = {Head(notifyChan)} \cup ToSet(Tail(notifyChan))
      BY <1>3, TailItems DEF ConsumerTakes, TypeOK
    <2>3. handling = {}
      BY <1>3, NotifiesFinite, FS_Subset, OneOrNone DEF ConsumerTakes, TypeOK
    <2> QED
      BY <1>1, <1>2, <2>1, <2>2, <2>3 DEF Somewhere
  <1>4. CASE ~ConsumerTakes
    <2>1. /\ notifyChan' = notifyChan
          /\ handling \cup sending \cup ended \subseteq handling' \cup sending' \cup ended'
      BY <1>4 DEF Consumer, ConsumerDrops, ConsumerSpawns, ConsumerPanics,
                  ConsumerRestarts, ConsumerEnds, consumerVars, history
    <2> QED
      BY <1>1, <1>2, <2>1 DEF Somewhere
  <1> QED
    BY <1>3, <1>4

LEMMA StepTracked == TypeOK /\ Places /\ Tracked /\ [Next]_vars => Tracked'
  <1> SUFFICES ASSUME TypeOK, Places, Tracked, [Next]_vars PROVE Tracked'
    OBVIOUS
  <1>1. CASE Fresher \/ StopEmitting \/ Stopping \/ UNCHANGED vars
    <2>1. UNCHANGED <<todo, large, notifyChan, handling, sending, ended, generated,
                      dispatchPanicked>>
      BY <1>1 DEF Fresher, FreshTakes, FreshFinds, FreshSends, FreshPanics, FreshRespawns,
                  FreshEnds, StopEmitting, Stopping, StopFresher, StopWorkers, StopConsumer,
                  StopSends, StopStep, vars, workerVars, consumerVars, panicVars, history
    <2> QED
      BY <2>1 DEF Tracked, Somewhere
  <1>2. ASSUME NEW n \in sending, SendEnds(n) PROVE Tracked'
    <2>1. /\ UNCHANGED <<todo, large, notifyChan, handling, generated, dispatchPanicked>>
          /\ sending \cup ended \subseteq sending' \cup ended'
      BY <1>2 DEF SendEnds, workerVars, consumerVars, panicVars
    <2> QED
      BY <2>1 DEF Tracked, Somewhere
  <1> QED
    BY <1>1, <1>2, WorkerTracked, LargeTracked, ConsumerTracked DEF Next

-----------------------------------------------------------------------------
(* Theorems *)

\* In every execution, for all numbers of events, groups and workers and all capacities.
THEOREM Inductive == Spec => [](TypeOK /\ Places /\ Tracked)
  BY InitType, InitPlaces, TypeStep, StepPlaces, StepTracked, PTL DEF Spec

\* Once eventChan is closed the fresher has nothing to send, even when it panicked on the way;
\* once notifyChan is closed no worker has, unless a panic in Dispatch left one unwaited for.
THEOREM ChannelsClosedBehindWriters == Spec => []ClosedBehindWriters
  <1>1. TypeOK /\ Places => ClosedBehindWriters
    <2> SUFFICES ASSUME TypeOK, Places PROVE ClosedBehindWriters
      OBVIOUS
    <2>1. \A w \in Workers : worker[w] = "gone" => event[w] = {} /\ todo[w] = <<>>
      BY FS_Subset, OneOrNone, NotifyPipelineAssumption DEF TypeOK
    <2> QED
      BY <2>1 DEF ClosedBehindWriters, Places, TypeOK
  <1> QED
    BY <1>1, Inductive, PTL

\* When Lsp.Stop returns, every event a refresh handed over has been dispatched and every
\* notify made of it is sent, dropped with a log line, or with the goroutine of a large event,
\* unless Dispatch panicked.
THEOREM StoppingDelivers == Spec => []StopDelivers
  <1>1. TypeOK /\ Places /\ Tracked => StopDelivers
    <2> SUFFICES ASSUME TypeOK, Places, Tracked, stop = "returned", ~dispatchPanicked
                 PROVE  /\ eventChan = <<>> /\ \A w \in Workers : event[w] = {}
                        /\ \A n \in generated :
                              n \in ended \/ \E l \in large : n \in ToSet(l)
      BY DEF StopDelivers
    <2>1. \A w \in Workers : event[w] = {} /\ todo[w] = <<>> /\ worker[w] = "gone"
      <3>1. \A w \in Workers : worker[w] = "gone"
        BY DEF Places, NotifyClosed
      <3> QED
        BY <3>1, FS_Subset, OneOrNone, NotifyPipelineAssumption DEF TypeOK
    <2>2. consumer = "gone" /\ notifyChan = <<>> /\ sending = {} /\ eventChan = <<>>
      BY <2>1 DEF Places
    <2>3. handling = {}
      BY <2>2, NotifiesFinite, FS_Subset, OneOrNone DEF TypeOK
    <2>4. \A n \in generated : Somewhere(n)
      BY DEF Tracked
    <2> QED
      BY <2>1, <2>2, <2>3, <2>4, EmptyItems DEF Somewhere
  <1> QED
    BY <1>1, Inductive, PTL
=============================================================================
