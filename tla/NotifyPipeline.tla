--------------------------- MODULE NotifyPipeline ----------------------------
(***************************************************************************)
(* From a refresh to the messages, and the shutdown of it all.              *)
(*                                                                         *)
(* The fresher of a site (StateManager.Fresh running EmitQueueFresher) puts *)
(* events in eventChan; Dispatch workers make one notify per subscribed     *)
(* group of each and put them in notifyChan, a goroutine of its own doing   *)
(* so, slowly, for an event with many of them; Lsp.ConcernNotify takes the  *)
(* notifies and sends each in a goroutine, at most NotifyParallel at once.  *)
(* Lsp.Stop closes the channels in the order of the pipeline, waiting for   *)
(* each stage to end.  Any user code along the way may panic; every stage   *)
(* recovers.                                                                *)
(*                                                                         *)
(* Which groups get a notify (the subscriptions and the filters of the      *)
(* moment) is any set of groups.  One site; SendMsg is one step.            *)
(***************************************************************************)
EXTENDS Naturals, Sequences, FiniteSets, SequencesExt

CONSTANTS
    Events,           \* events the refreshes find, each once
    Groups,
    Workers,          \* Dispatch goroutines
    LargeNotifyLimit, \* an event with so many notifies is large
    EventCap,         \* capacity of eventChan (4)
    NotifyCap,        \* capacity of notifyChan (25)
    NotifyParallel,   \* msgLimit
    MaxPanics         \* bound: how often a stage panics

ASSUME NotifyPipelineAssumption ==
    /\ IsFiniteSet(Events) /\ IsFiniteSet(Groups) /\ Workers # {}
    /\ LargeNotifyLimit \in Nat \ {0}
    /\ EventCap \in Nat \ {0} /\ NotifyCap \in Nat \ {0}
    /\ NotifyParallel \in Nat \ {0}
    /\ MaxPanics \in Nat

Notifies == Events \X Groups

VARIABLES
    unseen,     \* the events no refresh has found yet
    fresher,    \* "ready", "fetching" (in doFresh), "sending", "respawn" or "gone"
    batch,      \* the events fresher still has to send
    eventChan,
    worker,     \* worker[w]: "idle", "event", "sending", "respawn" or "gone"
    event,      \* event[w]: {} or the event w generates notifies for
    todo,       \* todo[w]: the notifies w still has to send
    large,      \* the goroutines of large events: what each still has to send
    notifyChan,
    consumer,   \* ConcernNotify: "idle", "handling", "restarting" or "gone"
    handling,   \* {} or the notify consumer handles
    sending,    \* notifies whose goroutine runs
    stop,       \* where Lsp.Stop is, see Closed
    panics,     \* panics so far
    dispatchPanicked, \* one of them in Dispatch
    crashed,    \* a panic nobody recovers ended the process
    handed,     \* history: events put in eventChan
    generated,  \* history: notifies generated
    ended       \* history: notifies sent, or dropped with a log line

fresherVars == <<unseen, fresher, batch>>
workerVars == <<worker, event, todo>>
consumerVars == <<consumer, handling>>
endVars == <<stop, crashed>>
panicVars == <<panics, dispatchPanicked>>
history == <<handed, generated, ended>>
vars == <<fresherVars, eventChan, workerVars, large, notifyChan, consumerVars,
          sending, endVars, panicVars, history>>

\* StateManager.Start starts several workers, or one on a machine of less than 3 CPUs.
Init ==
    /\ unseen = Events /\ fresher = "ready" /\ batch = <<>>
    /\ eventChan = <<>>
    /\ \E started \in {Workers, {CHOOSE w \in Workers : TRUE}} :
          worker = [w \in Workers |-> IF w \in started THEN "idle" ELSE "gone"]
    /\ event = [w \in Workers |-> {}]
    /\ todo = [w \in Workers |-> <<>>]
    /\ large = {}
    /\ notifyChan = <<>>
    /\ consumer = "idle" /\ handling = {}
    /\ sending = {}
    /\ stop = "no" /\ crashed = FALSE
    /\ panics = 0 /\ dispatchPanicked = FALSE
    /\ handed = {} /\ generated = {} /\ ended = {}

-----------------------------------------------------------------------------
(* Helpers *)

\* Lsp.Stop waits for "fresher", "workers", "consumer" and "sends" in turn, closing
\* emitChan before the first, eventChan before the second, notifyChan before the third.
EmitClosed == stop # "no"
EventClosed == stop \in {"workers", "consumer", "sends", "returned"}
NotifyClosed == stop \in {"consumer", "sends", "returned"}

\* The process runs: no panic ended it, and Lsp.Stop has not returned.
Running == ~crashed /\ stop # "returned"

Panic ==
    /\ panics < MaxPanics
    /\ panics' = panics + 1

\* ch <- n on notifyChan.
Send(n) ==
    /\ Len(notifyChan) < NotifyCap
    /\ notifyChan' = Append(notifyChan, n)

-----------------------------------------------------------------------------
(* Fresh, running EmitQueueFresher *)

\* An id comes from emitChan, to be refreshed.
FreshTakes ==
    /\ Running /\ fresher = "ready" /\ ~EmitClosed
    /\ fresher' = "fetching"
    /\ UNCHANGED <<unseen, batch, eventChan, workerVars, large, notifyChan, consumerVars,
                   sending, endVars, panicVars, history>>

\* doFresh returns the new events (none, after an error).
FreshFinds(events) ==
    /\ Running /\ fresher = "fetching"
    /\ events \subseteq unseen
    /\ unseen' = unseen \ events
    /\ batch' = SetToSeq(events)
    /\ fresher' = "sending"
    /\ UNCHANGED <<eventChan, workerVars, large, notifyChan, consumerVars,
                   sending, endVars, panicVars, history>>

FreshSends ==
    /\ Running /\ fresher = "sending"
    /\ IF batch = <<>>
       THEN fresher' = "ready" /\ UNCHANGED <<batch, eventChan, handed>>
       ELSE /\ ~EventClosed /\ Len(eventChan) < EventCap
            /\ eventChan' = Append(eventChan, Head(batch))
            /\ batch' = Tail(batch)
            /\ handed' = handed \cup {Head(batch)}
            /\ UNCHANGED fresher
    /\ UNCHANGED <<unseen, workerVars, large, notifyChan, consumerVars,
                   sending, endVars, panicVars, generated, ended>>

\* doFresh panics: Fresh is done (freshWg.Done), and starts again in a new goroutine.
FreshPanics ==
    /\ Running /\ fresher = "fetching"
    /\ Panic
    /\ fresher' = "respawn"
    /\ UNCHANGED <<unseen, batch, eventChan, workerVars, large, notifyChan, consumerVars,
                   sending, endVars, dispatchPanicked, history>>

FreshRespawns ==
    /\ Running /\ fresher = "respawn"
    /\ fresher' = "ready"
    /\ UNCHANGED <<unseen, batch, eventChan, workerVars, large, notifyChan, consumerVars,
                   sending, endVars, panicVars, history>>

\* emitChan is closed, or the context cancelled.
FreshEnds ==
    /\ Running /\ fresher = "ready" /\ EmitClosed
    /\ fresher' = "gone"
    /\ UNCHANGED <<unseen, batch, eventChan, workerVars, large, notifyChan, consumerVars,
                   sending, endVars, panicVars, history>>

-----------------------------------------------------------------------------
(* Dispatch, running DefaultDispatch *)

WorkerTakes(w) ==
    /\ Running /\ worker[w] = "idle" /\ eventChan # <<>>
    /\ worker' = [worker EXCEPT ![w] = "event"]
    /\ event' = [event EXCEPT ![w] = {Head(eventChan)}]
    /\ eventChan' = Tail(eventChan)
    /\ UNCHANGED <<fresherVars, todo, large, notifyChan, consumerVars,
                   sending, endVars, panicVars, history>>

\* One notify for every group in to, the groups that follow the event's id and whose
\* filters let it through.
WorkerGenerates(w, to) ==
    /\ Running /\ worker[w] = "event"
    /\ LET notifies == event[w] \X to IN
       /\ generated' = generated \cup notifies
       /\ IF Cardinality(notifies) >= LargeNotifyLimit
          THEN /\ large' = large \cup {SetToSeq(notifies)}
               /\ worker' = [worker EXCEPT ![w] = "idle"]
               /\ UNCHANGED todo
          ELSE /\ todo' = [todo EXCEPT ![w] = SetToSeq(notifies)]
               /\ worker' = [worker EXCEPT ![w] = "sending"]
               /\ UNCHANGED large
    /\ event' = [event EXCEPT ![w] = {}]
    /\ UNCHANGED <<fresherVars, eventChan, notifyChan, consumerVars,
                   sending, endVars, panicVars, handed, ended>>

WorkerSends(w) ==
    /\ Running /\ worker[w] = "sending"
    /\ IF todo[w] = <<>>
       THEN worker' = [worker EXCEPT ![w] = "idle"] /\ UNCHANGED <<todo, notifyChan>>
       ELSE /\ ~NotifyClosed /\ Send(Head(todo[w]))
            /\ todo' = [todo EXCEPT ![w] = Tail(@)]
            /\ UNCHANGED worker
    /\ UNCHANGED <<fresherVars, eventChan, event, large, consumerVars,
                   sending, endVars, panicVars, history>>

\* NotifyGenerator or a filter panics: the event is lost, Dispatch is done (wg.Done)
\* and starts again in a new goroutine.
WorkerPanics(w) ==
    /\ Running /\ worker[w] = "event"
    /\ Panic /\ dispatchPanicked' = TRUE
    /\ worker' = [worker EXCEPT ![w] = "respawn"]
    /\ event' = [event EXCEPT ![w] = {}]
    /\ UNCHANGED <<fresherVars, eventChan, todo, large, notifyChan, consumerVars,
                   sending, endVars, history>>

\* A respawned worker that Lsp.Stop did not wait for finds notifyChan closed: it
\* panics, and the rest of its notifies are lost.
WorkerLoses(w) ==
    /\ Running /\ worker[w] = "sending" /\ todo[w] # <<>> /\ NotifyClosed
    /\ worker' = [worker EXCEPT ![w] = "respawn"]
    /\ todo' = [todo EXCEPT ![w] = <<>>]
    /\ UNCHANGED <<fresherVars, eventChan, event, large, notifyChan, consumerVars,
                   sending, endVars, panicVars, history>>

WorkerRespawns(w) ==
    /\ Running /\ worker[w] = "respawn"
    /\ worker' = [worker EXCEPT ![w] = "idle"]
    /\ UNCHANGED <<fresherVars, eventChan, event, todo, large, notifyChan, consumerVars,
                   sending, endVars, panicVars, history>>

WorkerEnds(w) ==
    /\ Running /\ worker[w] = "idle" /\ eventChan = <<>> /\ EventClosed
    /\ worker' = [worker EXCEPT ![w] = "gone"]
    /\ UNCHANGED <<fresherVars, eventChan, event, todo, large, notifyChan, consumerVars,
                   sending, endVars, panicVars, history>>

\* A tick of the goroutine of a large event.  No wait group counts it, and nothing
\* recovers its panic when notifyChan is closed.
LargeSends(l) ==
    /\ Running
    /\ IF NotifyClosed
       THEN crashed' = TRUE /\ UNCHANGED <<large, notifyChan>>
       ELSE /\ Send(Head(l))
            /\ large' = (large \ {l}) \cup IF Len(l) = 1 THEN {} ELSE {Tail(l)}
            /\ UNCHANGED crashed
    /\ UNCHANGED <<fresherVars, eventChan, workerVars, consumerVars,
                   sending, stop, panicVars, history>>

-----------------------------------------------------------------------------
(* ConcernNotify *)

ConsumerTakes ==
    /\ Running /\ consumer = "idle" /\ notifyChan # <<>>
    /\ consumer' = "handling"
    /\ handling' = {Head(notifyChan)}
    /\ notifyChan' = Tail(notifyChan)
    /\ UNCHANGED <<fresherVars, eventChan, workerVars, large,
                   sending, endVars, panicVars, history>>

\* The bot is muted, the message is empty or for Telegram, or the sends before it take
\* more than a minute.
ConsumerDrops ==
    /\ Running /\ consumer = "handling"
    /\ consumer' = "idle" /\ handling' = {}
    /\ ended' = ended \cup handling
    /\ UNCHANGED <<fresherVars, eventChan, workerVars, large, notifyChan,
                   sending, endVars, panicVars, handed, generated>>

\* Mutant of ConsumerSpawns: the permit is released before the send.
ConsumerSpawnsFreely ==
    /\ Running /\ consumer = "handling"
    /\ sending' = sending \cup handling
    /\ consumer' = "idle" /\ handling' = {}
    /\ UNCHANGED <<fresherVars, eventChan, workerVars, large, notifyChan,
                   endVars, panicVars, history>>

ConsumerSpawns ==
    /\ Running /\ consumer = "handling"
    /\ Cardinality(sending) < NotifyParallel
    /\ sending' = sending \cup handling
    /\ consumer' = "idle" /\ handling' = {}
    /\ UNCHANGED <<fresherVars, eventChan, workerVars, large, notifyChan,
                   endVars, panicVars, history>>

\* Mutant of ConsumerPanics: consumeConcernNotify returns as if notifyChan were closed.
ConsumerPanicEnds ==
    /\ Running /\ consumer = "handling"
    /\ Panic
    /\ consumer' = "gone" /\ handling' = {}
    /\ ended' = ended \cup handling
    /\ UNCHANGED <<fresherVars, eventChan, workerVars, large, notifyChan,
                   sending, endVars, dispatchPanicked, handed, generated>>

\* A callback or ToMessage panics: this notify is lost, ConcernNotify goes on.
ConsumerPanics ==
    /\ Running /\ consumer = "handling"
    /\ Panic
    /\ consumer' = "restarting" /\ handling' = {}
    /\ ended' = ended \cup handling
    /\ UNCHANGED <<fresherVars, eventChan, workerVars, large, notifyChan,
                   sending, endVars, dispatchPanicked, handed, generated>>

ConsumerRestarts ==
    /\ Running /\ consumer = "restarting"
    /\ consumer' = "idle"
    /\ UNCHANGED <<fresherVars, eventChan, workerVars, large, notifyChan, handling,
                   sending, endVars, panicVars, history>>

ConsumerEnds ==
    /\ Running /\ consumer = "idle" /\ notifyChan = <<>> /\ NotifyClosed
    /\ consumer' = "gone"
    /\ UNCHANGED <<fresherVars, eventChan, workerVars, large, notifyChan, handling,
                   sending, endVars, panicVars, history>>

SendEnds(n) ==
    /\ Running /\ n \in sending
    /\ sending' = sending \ {n}
    /\ ended' = ended \cup {n}
    /\ UNCHANGED <<fresherVars, eventChan, workerVars, large, notifyChan, consumerVars,
                   endVars, panicVars, handed, generated>>

-----------------------------------------------------------------------------
(* Lsp.Stop: concern.StopAll (StateManager.Stop, close(notifyChan)), then the waits *)

StopStep(from, to) ==
    /\ Running /\ stop = from /\ stop' = to
    /\ UNCHANGED <<fresherVars, eventChan, workerVars, large, notifyChan, consumerVars,
                   sending, crashed, panicVars, history>>

\* The emit queue is stopped (see EmitQueue), emitChan closed, the context cancelled.
StopEmitting == StopStep("no", "fresher")

\* Mutant of StopFresher: no freshWg.Wait.
StopFresherAtOnce == StopStep("fresher", "workers")

\* freshWg.Wait(), close(eventChan).
StopFresher == fresher \in {"respawn", "gone"} /\ StopStep("fresher", "workers")

\* wg.Wait(), close(notifyChan).
StopWorkers ==
    /\ \A w \in Workers : worker[w] \in {"respawn", "gone"}
    /\ StopStep("workers", "consumer")

\* l.wg.Wait().
StopConsumer == consumer = "gone" /\ StopStep("consumer", "sends")

\* Mutant of StopSends: no notifyWg.Wait.
StopSendsAtOnce == StopStep("sends", "returned")

\* notifyWg.Wait(); the process exits.
StopSends == sending = {} /\ StopStep("sends", "returned")

-----------------------------------------------------------------------------
Fresher ==
    \/ FreshTakes \/ \E events \in SUBSET Events : FreshFinds(events)
    \/ FreshSends \/ FreshPanics \/ FreshRespawns \/ FreshEnds

Worker(w) ==
    \/ WorkerTakes(w) \/ \E to \in SUBSET Groups : WorkerGenerates(w, to)
    \/ WorkerSends(w) \/ WorkerPanics(w) \/ WorkerLoses(w) \/ WorkerRespawns(w)
    \/ WorkerEnds(w)

Consumer ==
    \/ ConsumerTakes \/ ConsumerDrops \/ ConsumerSpawns
    \/ ConsumerPanics \/ ConsumerRestarts \/ ConsumerEnds

Stopping == StopFresher \/ StopWorkers \/ StopConsumer \/ StopSends

Next ==
    \/ Fresher
    \/ \E w \in Workers : Worker(w)
    \/ \E l \in large : LargeSends(l)
    \/ Consumer
    \/ \E n \in sending : SendEnds(n)
    \/ StopEmitting \/ Stopping

\* Every goroutine runs on, a refresh and a send end.  Nothing makes the bot stop.
Fairness ==
    /\ WF_vars(Fresher)
    /\ \A w \in Workers : WF_vars(Worker(w))
    /\ WF_vars(\E l \in large : LargeSends(l))
    /\ WF_vars(Consumer)
    /\ WF_vars(\E n \in sending : SendEnds(n))
    /\ WF_vars(Stopping)

Spec == Init /\ [][Next]_vars /\ Fairness

-----------------------------------------------------------------------------
(* Properties *)

\* Every variable stays in its range, the channels and the running sends within their
\* capacity, and each goroutine holds what its place says.
TypeOK ==
    /\ unseen \subseteq Events /\ batch \in Seq(Events)
    /\ fresher \in {"ready", "fetching", "sending", "respawn", "gone"}
    /\ batch # <<>> => fresher = "sending"
    /\ eventChan \in Seq(Events) /\ Len(eventChan) <= EventCap
    /\ worker \in [Workers -> {"idle", "event", "sending", "respawn", "gone"}]
    /\ event \in [Workers -> SUBSET Events]
    /\ todo \in [Workers -> Seq(Notifies)]
    /\ \A w \in Workers :
          /\ Cardinality(event[w]) = IF worker[w] = "event" THEN 1 ELSE 0
          /\ todo[w] # <<>> => worker[w] = "sending"
    /\ \A l \in large : l \in Seq(Notifies) /\ l # <<>>
    /\ notifyChan \in Seq(Notifies) /\ Len(notifyChan) <= NotifyCap
    /\ consumer \in {"idle", "handling", "restarting", "gone"}
    /\ handling \subseteq Notifies
    /\ Cardinality(handling) = IF consumer = "handling" THEN 1 ELSE 0
    /\ sending \subseteq Notifies /\ Cardinality(sending) <= NotifyParallel
    /\ stop \in {"no", "fresher", "workers", "consumer", "sends", "returned"}
    /\ panics \in 0..MaxPanics
    /\ dispatchPanicked \in BOOLEAN /\ crashed \in BOOLEAN
    /\ handed \subseteq Events /\ generated \subseteq Notifies /\ ended \subseteq Notifies

\* The channels are closed behind their last writer: once eventChan is closed the
\* fresher has nothing to send, even when it panicked on the way, and once notifyChan
\* is closed no worker has, unless one panicked.
ClosedBehindWriters ==
    /\ EventClosed => fresher # "fetching" /\ batch = <<>>
    /\ NotifyClosed /\ ~dispatchPanicked =>
          \A w \in Workers : event[w] = {} /\ todo[w] = <<>>

\* Stopping loses nothing that is on its way: when Stop returns, every event that a
\* refresh handed over has been dispatched, and every notify made of it is sent or
\* dropped with a log line, but for large events and a panic in Dispatch.
StopDelivers ==
    stop = "returned" /\ ~dispatchPanicked =>
        /\ eventChan = <<>> /\ \A w \in Workers : event[w] = {}
        /\ \A n \in generated :
              n \in ended \/ \E l \in large : n \in ToSet(l)

\* No goroutine sends on the closed notifyChan without recovering.
NeverCrashes == ~crashed

\* A notify that was made is sent or dropped in the end, whatever panics, unless the
\* process ends or the worker that holds it finds notifyChan closed.  (Both histories only
\* grow, and there are finitely many notifies, so this says it of each one.)
EveryNotifyEnds ==
    []<>(generated \subseteq ended \/ ~Running \/ NotifyClosed)

\* Stop returns (or the process has crashed): no stage waits for another for good.
StopEnds == stop = "fresher" ~> ~Running
=============================================================================
