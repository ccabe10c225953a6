---------------------------- MODULE OfflineQueue ----------------------------
(***************************************************************************)
(* The sending side of Messenger (adapter/messenger.go): SendGroupMessage  *)
(* and SendPrivateMessage, which share their control flow, the offline     *)
(* queue they fall back to, its retry timer, and the flushes that the      *)
(* timer and the OneBot meta events start.                                 *)
(*                                                                         *)
(* A message is identified by the goroutine that sends it; what matters of *)
(* its content is how many chunks buildMessageChunks cuts it into.  A      *)
(* queued item covers a set of chunks: all of them when the message was    *)
(* stored before it was cut, one when it was stored by queueUnsentChunks.  *)
(***************************************************************************)
EXTENDS Naturals, Sequences

CONSTANTS
    Senders,        \* goroutines that each send one message
    MaxChunks,      \* most chunks a message is cut into
    QueueEnabled,   \* bot.offlineQueue.enable
    MaxQueue,       \* offlineQueueMaxSize
    Expire,         \* bot.offlineQueue.expire, in clock ticks
    MaxClock,       \* bound: ticks of the clock
    Handlers,       \* bound: heartbeat handlers in flight
    MaxGoroutines   \* bound: timer callbacks, and flushes waiting for the mutex

ASSUME OfflineQueueAssumption ==
    /\ MaxChunks \in Nat
    /\ QueueEnabled \in BOOLEAN
    /\ MaxQueue \in Nat \ {0}
    /\ Expire \in Nat
    /\ MaxClock \in Nat
    /\ MaxGoroutines \in Nat \ {0}

VARIABLES
    online,     \* Messenger.Online, the account state the heartbeats report
    ws,         \* WSClient.isConnected (and conn # nil)
    stopped,    \* stopChan closed
    clock,      \* time.Now()
    hb,         \* per heartbeat handler: <<>> or <<wasOnline, status>>
    pc, n, cur, out, status,    \* per sender: see TypeOK
    queue,      \* offlineQueue
    scheduled,  \* offlineFlushScheduled: TRUE iff a timer is armed
    callbacks,  \* timer callbacks that have cleared scheduled
    waiting,    \* goroutines at offlineQueueFlushMu.Lock()
    fpc, batch, now, failed, fout,  \* the flush that holds the mutex
    wire        \* how often each chunk has been put on the socket

connVars  == <<online, ws, stopped, clock, hb>>
sendVars  == <<pc, n, cur, out, status>>
timerVars == <<scheduled, callbacks, waiting>>
flushVars == <<fpc, batch, now, failed, fout>>
vars == <<connVars, sendVars, queue, timerVars, flushVars, wire>>

Chunks   == 1..MaxChunks
Items    == [from : Senders, parts : SUBSET Chunks, at : 0..MaxClock]
Outcomes == {"ok", "notsent", "unknown", "rejected"}
Statuses == {"none", "sent", "queued", "notsent", "unknown", "rejected"}

Init ==
    /\ online = FALSE /\ ws = FALSE /\ stopped = FALSE /\ clock = 0
    /\ hb = [h \in Handlers |-> <<>>]
    /\ pc = [s \in Senders |-> "start"]
    /\ n \in [Senders -> 0..MaxChunks]
    /\ cur = [s \in Senders |-> 1]
    /\ out = [s \in Senders |-> "ok"]
    /\ status = [s \in Senders |-> "none"]
    /\ queue = <<>>
    /\ scheduled = FALSE /\ callbacks = 0 /\ waiting = 0
    /\ fpc = "free" /\ batch = <<>> /\ now = 0 /\ failed = FALSE /\ fout = "ok"
    /\ wire = [s \in Senders |-> [i \in Chunks |-> 0]]

-----------------------------------------------------------------------------
(* Helpers *)

IsConnected == online /\ ws

\* Mutant of Saved: the limit is off by one.
SavedTooLate(q, item)  == Append(IF Len(q) > MaxQueue THEN Tail(q) ELSE q, item)

\* saveOfflineMsg: at the limit the oldest item makes room for the new one.
Saved(q, item) == Append(IF Len(q) >= MaxQueue THEN Tail(q) ELSE q, item)

\* scheduleOfflineQueueFlush: at most one timer is armed.
ArmTimer == scheduled' = (scheduled \/ QueueEnabled)

\* A request for the chunks P of the message of s is put on the socket.
Written(w, s, P) ==
    [w EXCEPT ![s] = [i \in Chunks |-> IF i \in P THEN @[i] + 1 ELSE @[i]]]

\* Adapter.SendGroupMessage / SendPrivateMessage, down to SendAndWait: with no
\* connection the request fails before it is written; with one it is answered,
\* or its result stays unknown (timeout, lost connection or a failed write),
\* in which case it may or may not have reached OneBot.
Transmit(s, P, o) ==
    \/ ~ws /\ o = "notsent" /\ wire' = wire
    \/ ws /\ o \in {"ok", "rejected", "unknown"} /\ wire' = Written(wire, s, P)
    \/ ws /\ o = "unknown" /\ wire' = wire

Return(s, st) ==
    /\ pc' = [pc EXCEPT ![s] = "done"]
    /\ status' = [status EXCEPT ![s] = st]

-----------------------------------------------------------------------------
(* SendGroupMessage and SendPrivateMessage *)

\* The connection check and, for a message that goes out now, the cut into chunks.
BeginSend(s) ==
    /\ pc[s] = "start"
    /\ \/ /\ QueueEnabled /\ ~IsConnected
          /\ pc' = [pc EXCEPT ![s] = "save"] /\ status' = status
       \/ /\ ~(QueueEnabled /\ ~IsConnected) /\ n[s] = 0
          /\ Return(s, "unknown")      \* "no message chunks to send" has no class
       \/ /\ ~(QueueEnabled /\ ~IsConnected) /\ n[s] > 0
          /\ pc' = [pc EXCEPT ![s] = "send"] /\ status' = status
    /\ UNCHANGED <<connVars, n, cur, out, queue, timerVars, flushVars, wire>>

SaveWhole(s) ==
    /\ pc[s] = "save"
    /\ queue' = Saved(queue, [from |-> s, parts |-> 1..n[s], at |-> clock])
    /\ pc' = [pc EXCEPT ![s] = "schedule"]
    /\ UNCHANGED <<connVars, n, cur, out, status, timerVars, flushVars, wire>>

SendChunk(s) ==
    /\ pc[s] = "send"
    /\ \E o \in Outcomes :
          /\ Transmit(s, {cur[s]}, o)
          /\ out' = [out EXCEPT ![s] = o]
    /\ pc' = [pc EXCEPT ![s] = "result"]
    /\ UNCHANGED <<connVars, n, cur, status, queue, timerVars, flushVars>>

ChunkResult(s) ==
    /\ pc[s] = "result"
    /\ \/ /\ out[s] = "ok" /\ cur[s] < n[s]
          /\ pc' = [pc EXCEPT ![s] = "send"]
          /\ cur' = [cur EXCEPT ![s] = @ + 1] /\ status' = status
       \/ /\ out[s] = "ok" /\ cur[s] = n[s]
          /\ Return(s, "sent") /\ cur' = cur
       \/ /\ out[s] \in {"unknown", "rejected"}
          /\ Return(s, out[s]) /\ cur' = cur
       \/ /\ out[s] = "notsent" /\ QueueEnabled
          /\ pc' = [pc EXCEPT ![s] = "requeue"] /\ UNCHANGED <<cur, status>>
       \/ /\ out[s] = "notsent" /\ ~QueueEnabled
          /\ Return(s, "notsent") /\ cur' = cur
    /\ UNCHANGED <<connVars, n, out, queue, timerVars, flushVars, wire>>

\* Mutant of QueueUnsentChunk: stores the whole message again.
QueueUnsentWhole(s) ==
    /\ pc[s] = "requeue"
    /\ queue' = Saved(queue, [from |-> s, parts |-> 1..n[s], at |-> clock])
    /\ cur' = cur /\ pc' = [pc EXCEPT ![s] = "schedule"]
    /\ UNCHANGED <<connVars, n, out, status, timerVars, flushVars, wire>>

\* queueUnsentChunks stores the failed chunk and the ones after it one by one,
\* taking offlineQueueMu for each.
QueueUnsentChunk(s) ==
    /\ pc[s] = "requeue"
    /\ queue' = Saved(queue, [from |-> s, parts |-> {cur[s]}, at |-> clock])
    /\ \/ /\ cur[s] < n[s]
          /\ cur' = [cur EXCEPT ![s] = @ + 1] /\ pc' = pc
       \/ /\ cur[s] = n[s]
          /\ cur' = cur /\ pc' = [pc EXCEPT ![s] = "schedule"]
    /\ UNCHANGED <<connVars, n, out, status, timerVars, flushVars, wire>>

ScheduleFlush(s) ==
    /\ pc[s] = "schedule"
    /\ ArmTimer
    /\ Return(s, "queued")
    /\ UNCHANGED <<connVars, n, cur, out, queue, callbacks, waiting, flushVars, wire>>

-----------------------------------------------------------------------------
(* The timer of scheduleOfflineQueueFlush *)

TimerFires ==
    /\ scheduled /\ callbacks < MaxGoroutines
    /\ scheduled' = FALSE
    /\ callbacks' = callbacks + 1
    /\ UNCHANGED <<connVars, sendVars, queue, waiting, flushVars, wire>>

TimerCallback ==
    /\ callbacks > 0
    /\ callbacks' = callbacks - 1
    /\ \/ /\ stopped
          /\ UNCHANGED <<scheduled, waiting>>
       \/ /\ ~stopped /\ IsConnected /\ waiting < MaxGoroutines
          /\ waiting' = waiting + 1 /\ UNCHANGED scheduled
       \/ /\ ~stopped /\ ~IsConnected /\ queue # <<>>
          /\ ArmTimer /\ UNCHANGED waiting
       \/ /\ ~stopped /\ ~IsConnected /\ queue = <<>>
          /\ UNCHANGED <<scheduled, waiting>>
    /\ UNCHANGED <<connVars, sendVars, queue, flushVars, wire>>

-----------------------------------------------------------------------------
(* flushOfflineQueue *)

FlushLock ==
    /\ waiting > 0 /\ fpc = "free"
    /\ waiting' = waiting - 1
    /\ fpc' = "check"
    /\ UNCHANGED <<connVars, sendVars, queue, scheduled, callbacks, batch, now, failed, fout, wire>>

FlushCheck ==
    /\ fpc = "check"
    /\ fpc' = IF IsConnected THEN "take" ELSE "free"
    /\ UNCHANGED <<connVars, sendVars, queue, timerVars, batch, now, failed, fout, wire>>

FlushTake ==
    /\ fpc = "take"
    /\ fpc' = IF queue = <<>> THEN "free" ELSE "loop"
    /\ batch' = queue /\ queue' = <<>>
    /\ now' = clock /\ failed' = FALSE
    /\ UNCHANGED <<connVars, sendVars, timerVars, fout, wire>>

FlushDropExpired ==
    /\ fpc = "loop" /\ batch # <<>>
    /\ now > Head(batch).at + Expire
    /\ batch' = Tail(batch)
    /\ UNCHANGED <<connVars, sendVars, queue, timerVars, fpc, now, failed, fout, wire>>

FlushSend ==
    /\ fpc = "loop" /\ batch # <<>>
    /\ now <= Head(batch).at + Expire
    /\ \E o \in Outcomes :
          /\ Transmit(Head(batch).from, Head(batch).parts, o)
          /\ fout' = o
    /\ fpc' = "result"
    /\ UNCHANGED <<connVars, sendVars, queue, timerVars, batch, now, failed>>

\* Mutants of FlushResult: an unknown result is retried; the item of a failed
\* attempt is not stored again; it is stored with a new CreatedAt.
FlushResultWith(retried, item) ==
    /\ fpc = "result"
    /\ IF fout \in retried
       THEN queue' = Saved(queue, item) /\ failed' = TRUE
       ELSE UNCHANGED <<queue, failed>>
    /\ batch' = Tail(batch)
    /\ fpc' = "loop"
    /\ UNCHANGED <<connVars, sendVars, timerVars, now, fout, wire>>
FlushRetriesUnknown == FlushResultWith({"notsent", "unknown"}, Head(batch))
FlushForgets        == FlushResultWith({}, Head(batch))
FlushRenews         == FlushResultWith({"notsent"}, [Head(batch) EXCEPT !.at = clock])

FlushResult ==
    /\ fpc = "result"
    /\ \/ /\ fout = "notsent"
          /\ queue' = Saved(queue, Head(batch)) /\ failed' = TRUE
       \/ /\ fout # "notsent"
          /\ UNCHANGED <<queue, failed>>
    /\ batch' = Tail(batch)
    /\ fpc' = "loop"
    /\ UNCHANGED <<connVars, sendVars, timerVars, now, fout, wire>>

FlushEnd ==
    /\ fpc = "loop" /\ batch = <<>>
    /\ IF failed THEN ArmTimer ELSE UNCHANGED scheduled
    /\ fpc' = "free"
    /\ UNCHANGED <<connVars, sendVars, queue, callbacks, waiting, batch, now, failed, fout, wire>>

-----------------------------------------------------------------------------
(* Meta events, the socket, time and shutdown *)

\* Mutant of MetaFlush: coming back online does not flush.
NoMetaFlush(wasOnline) == UNCHANGED waiting

\* The flush that a meta event starts when the account was not online before.
MetaFlush(wasOnline) ==
    IF ~wasOnline /\ QueueEnabled
    THEN waiting < MaxGoroutines /\ waiting' = waiting + 1
    ELSE UNCHANGED waiting

\* A lifecycle event: Online.Swap(true).
Lifecycle ==
    /\ online' = TRUE
    /\ MetaFlush(online)
    /\ UNCHANGED <<ws, stopped, clock, hb, sendVars, queue, scheduled, callbacks, flushVars, wire>>

\* A heartbeat is handled in a goroutine of its own: Online.Load() ...
HeartbeatLoad(h, st) ==
    /\ hb[h] = <<>>
    /\ hb' = [hb EXCEPT ![h] = <<online, st>>]
    /\ UNCHANGED <<online, ws, stopped, clock, sendVars, queue, timerVars, flushVars, wire>>

\* ... and later Online.Store(status), with the flush if the account came back.
HeartbeatStore(h) ==
    /\ hb[h] # <<>>
    /\ online' = hb[h][2]
    /\ IF hb[h][2] THEN MetaFlush(hb[h][1]) ELSE UNCHANGED waiting
    /\ hb' = [hb EXCEPT ![h] = <<>>]
    /\ UNCHANGED <<ws, stopped, clock, sendVars, queue, scheduled, callbacks, flushVars, wire>>

\* The socket opens (not after Stop) and closes: the WSClient module.
WsUp   == /\ ~ws /\ ~stopped /\ ws' = TRUE
          /\ UNCHANGED <<online, stopped, clock, hb, sendVars, queue, timerVars, flushVars, wire>>
WsDown == /\ ws /\ ws' = FALSE
          /\ UNCHANGED <<online, stopped, clock, hb, sendVars, queue, timerVars, flushVars, wire>>

Tick == /\ clock < MaxClock /\ clock' = clock + 1
        /\ UNCHANGED <<online, ws, stopped, hb, sendVars, queue, timerVars, flushVars, wire>>

\* Messenger.Stop: stopChan is closed; the adapter then drops the socket (WsDown).
Stop == /\ ~stopped /\ stopped' = TRUE
        /\ UNCHANGED <<online, ws, clock, hb, sendVars, queue, timerVars, flushVars, wire>>

-----------------------------------------------------------------------------
Sender(s) ==
    \/ BeginSend(s) \/ SaveWhole(s) \/ SendChunk(s) \/ ChunkResult(s)
    \/ QueueUnsentChunk(s) \/ ScheduleFlush(s)

Flusher ==
    \/ FlushLock \/ FlushCheck \/ FlushTake \/ FlushDropExpired
    \/ FlushSend \/ FlushResult \/ FlushEnd

Events ==
    \/ Lifecycle
    \/ \E h \in Handlers, st \in BOOLEAN : HeartbeatLoad(h, st)
    \/ \E h \in Handlers : HeartbeatStore(h)
    \/ WsUp \/ Tick

Environment == Events \/ WsDown \/ Stop

Next ==
    \/ \E s \in Senders : Sender(s)
    \/ TimerFires \/ TimerCallback
    \/ Flusher
    \/ Environment

Spec == Init /\ [][Next]_vars

\* Goroutines and timers run; nothing obliges the network or OneBot to act.
Fairness ==
    /\ \A s \in Senders : WF_vars(Sender(s))
    /\ WF_vars(TimerFires)
    /\ WF_vars(TimerCallback)
    /\ WF_vars(Flusher)
    /\ \A h \in Handlers : WF_vars(HeartbeatStore(h))

FairSpec == Spec /\ Fairness

-----------------------------------------------------------------------------
(* Properties *)

\* The chunks of the message of s that s itself has still to put on the socket
\* or to store.
Unsent(s) ==
    CASE pc[s] \in {"start", "save"} -> 1..n[s]
      [] pc[s] \in {"send", "requeue"} -> cur[s]..n[s]
      [] pc[s] = "result" -> (IF out[s] = "notsent" THEN cur[s] ELSE cur[s] + 1)..n[s]
      [] OTHER -> {}

\* The items of the batch that the flush has still to send or to store again.
Pending == IF fpc = "result" /\ fout # "notsent" THEN Tail(batch) ELSE batch
Stored  == {queue[k] : k \in DOMAIN queue} \cup {Pending[k] : k \in DOMAIN Pending}

\* Chunk i of s has not been put on the socket and something still holds it.
Held(s, i) ==
    \/ i \in Unsent(s)
    \/ \E item \in Stored : item.from = s /\ i \in item.parts

ConnOK ==
    /\ online \in BOOLEAN /\ ws \in BOOLEAN /\ stopped \in BOOLEAN
    /\ clock \in 0..MaxClock
    /\ hb \in [Handlers -> {<<>>} \cup (BOOLEAN \X BOOLEAN)]

SendOK ==
    /\ pc \in [Senders -> {"start", "save", "send", "result", "requeue", "schedule", "done"}]
    /\ n \in [Senders -> 0..MaxChunks]
    /\ cur \in [Senders -> Nat \ {0}]
    /\ out \in [Senders -> Outcomes]
    /\ status \in [Senders -> Statuses]

QueueOK == queue \in Seq(Items) /\ Len(queue) <= MaxQueue

TimerOK ==
    /\ scheduled \in BOOLEAN
    /\ callbacks \in 0..MaxGoroutines /\ waiting \in 0..MaxGoroutines

FlushOK ==
    /\ fpc \in {"free", "check", "take", "loop", "result"}
    /\ batch \in Seq(Items)
    /\ now \in 0..MaxClock /\ failed \in BOOLEAN /\ fout \in Outcomes

\* Every variable stays in its range; the queue never exceeds offlineQueueMaxSize
\* (saveOfflineMsg).
TypeOK ==
    /\ ConnOK /\ SendOK /\ QueueOK /\ TimerOK /\ FlushOK
    /\ wire \in [Senders -> [Chunks -> Nat]]

\* No chunk is put on the socket twice, whatever the queue, its retries and
\* concurrent flushes do: only ErrRequestNotSent leads to another attempt, and
\* chunks already sent are not queued again.
AtMostOnce == \A s \in Senders, i \in Chunks : wire[s][i] <= 1

\* A chunk that something still means to send has not been put on the socket.
HeldIsUnsent == \A s \in Senders, i \in Chunks : Held(s, i) => wire[s][i] = 0

\* A chunk disappears without having been put on the socket only because the full
\* queue dropped it as its oldest item, because it expired, or because the attempt
\* at it (or at a chunk before it) ended in a way that is never retried.
NoSilentLoss ==
    [][\A s \in Senders, i \in Chunks :
          Held(s, i) /\ ~Held(s, i)' =>
            \/ wire[s][i]' = 1
            \/ Len(queue) = MaxQueue /\ Head(queue).from = s /\ i \in Head(queue).parts
            \/ fpc = "loop" /\ batch # <<>>
                  /\ (now > Head(batch).at + Expire \/ fout' = "unknown")
                  /\ Head(batch).from = s /\ i \in Head(batch).parts
            \/ out[s]' = "unknown"
            \/ out[s] \in {"rejected", "notsent"} /\ status[s]' = out[s]]_vars

\* Storing an item again does not renew its life: an item keeps the CreatedAt it
\* was first queued with (flushOfflineQueue saves the item it took).
KeepsCreationTime ==
    [][\A x \in Stored, y \in Stored' :
          x.from = y.from /\ x.parts = y.parts /\ x.parts # {} => x.at = y.at]_vars

\* scheduleOfflineQueueFlush and registerEventHandlers: queued messages are not
\* stranded; once the bot stays online and connected the queue drains.
QueueDrains ==
    <>[](online /\ ws /\ ~stopped) => []<>(queue = <<>>)
=============================================================================
