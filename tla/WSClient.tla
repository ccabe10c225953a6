------------------------------ MODULE WSClient ------------------------------
(***************************************************************************)
(* WSClient (adapter/wsclient.go): the WebSocket connection to OneBot, in   *)
(* both modes, and the calls that SendAndWait makes over it.                *)
(*                                                                         *)
(* Connections are installed, replaced, lost and closed by Stop, while      *)
(* calls register a response channel under an echo, take the connection,    *)
(* write, and wait for the answer that handleMessage gives them from a      *)
(* goroutine of its own.  Everything done under c.mu is one step.  A        *)
(* channel is identified by the request whose SendAndWait made it; OneBot   *)
(* answers a request at most once, on the connection it came from.  Pings,  *)
(* the read limit and deadlines show here only as reads that fail.          *)
(***************************************************************************)
EXTENDS Naturals

CONSTANTS
    Conns,          \* bound: connections there will ever be
    Requests,       \* calls of SendAndWait
    Echoes,         \* values of "action:UnixNano"
    UniqueEchoes,   \* TRUE iff no two calls read the same clock value
    None            \* nil

ASSUME WSClientAssumption ==
    /\ UniqueEchoes \in BOOLEAN
    /\ None \notin Conns \cup Requests \cup Echoes

VARIABLES
    conn, isConnected,  \* WSClient.conn and isConnected
    responseCh,         \* WSClient.responseCh: per echo a channel or None
    stop,               \* Stop: "no", "closing" (stopChan closed) or "done"
    loop,               \* "server", or where connectLoop is: "check", "dial", "handle", "exit"
    sock,               \* per connection: "none", "up" (not yet installed), "open" or "closed"
    handler,            \* per connection, its handleConnection: "none", "select", "leave", "done"
    pc, echo, target, result,   \* per request, its SendAndWait
    buffer, closed,     \* per request, its channel: what it holds, and whether it is closed
    msg,                \* per request, where it or its answer is: see TypeOK
    verdict,            \* per request, what OneBot did with it
    claim,              \* per request, the channel handleMessage took for its answer
    panicked            \* a channel was closed twice or written after it was closed

connVars == <<conn, isConnected, stop, loop, sock, handler>>
callVars == <<pc, echo, target, result>>
chanVars == <<buffer, closed, panicked>>
peerVars == <<msg, verdict, claim>>
vars == <<connVars, responseCh, callVars, chanVars, peerVars>>

Init ==
    /\ conn = None /\ isConnected = FALSE
    /\ responseCh = [e \in Echoes |-> None]
    /\ stop = "no"
    /\ loop \in {"server", "check"}
    /\ sock = [k \in Conns |-> "none"]
    /\ handler = [k \in Conns |-> "none"]
    /\ pc = [r \in Requests |-> "start"]
    /\ echo = [r \in Requests |-> None]
    /\ target = [r \in Requests |-> None]
    /\ result = [r \in Requests |-> "none"]
    /\ buffer = [r \in Requests |-> "empty"]
    /\ closed = {}
    /\ msg = [r \in Requests |-> "none"]
    /\ verdict = [r \in Requests |-> "none"]
    /\ claim = [r \in Requests |-> None]
    /\ panicked = FALSE

-----------------------------------------------------------------------------
(* Helpers *)

Registered == {responseCh[e] : e \in Echoes} \ {None}

\* close(ch) for each channel of C.
Close(C) ==
    /\ closed' = closed \cup C
    /\ panicked' = (panicked \/ C \cap closed # {})

\* Closes and forgets every registered channel.
FailAllCalls ==
    /\ Close(Registered)
    /\ responseCh' = [e \in Echoes |-> None]

\* The socket of the current connection, if any, is closed.
Hangup == IF conn = None THEN sock ELSE [sock EXCEPT ![conn] = "closed"]

-----------------------------------------------------------------------------
(* Connections *)

\* ws-server: a client completes the upgrade, as long as the listener is open.
Upgrade(k) ==
    /\ loop = "server" /\ stop # "done"
    /\ sock[k] = "none"
    /\ sock' = [sock EXCEPT ![k] = "up"]
    /\ UNCHANGED <<conn, isConnected, stop, loop, handler, responseCh, callVars, chanVars, peerVars>>

\* ws-reverse: connectLoop looks at stopChan before it dials, and while it waits
\* between two attempts.
LoopCheck ==
    /\ loop = "check"
    /\ loop' = IF stop = "no" THEN "dial" ELSE "exit"
    /\ UNCHANGED <<conn, isConnected, stop, sock, handler, responseCh, callVars, chanVars, peerVars>>

Dial(k) ==
    /\ loop = "dial" /\ sock[k] = "none"
    /\ sock' = [sock EXCEPT ![k] = "up"] /\ loop' = "handle"
    /\ UNCHANGED <<conn, isConnected, stop, handler, responseCh, callVars, chanVars, peerVars>>

DialFails ==
    /\ loop = "dial"
    /\ loop' = "check"
    /\ UNCHANGED <<conn, isConnected, stop, sock, handler, responseCh, callVars, chanVars, peerVars>>

\* Mutant of Install: the connection that is replaced stays open.
InstallKeepsOld(k) ==
    /\ sock[k] = "up"
    /\ sock' = [sock EXCEPT ![k] = "open"]
    /\ conn' = k /\ isConnected' = TRUE
    /\ handler' = [handler EXCEPT ![k] = "select"]
    /\ UNCHANGED <<stop, loop, responseCh, callVars, chanVars, peerVars>>

\* The new connection replaces the current one, which is closed, and its
\* handleConnection and readLoop start.
Install(k) ==
    /\ sock[k] = "up"
    /\ sock' = [Hangup EXCEPT ![k] = "open"]
    /\ conn' = k /\ isConnected' = TRUE
    /\ handler' = [handler EXCEPT ![k] = "select"]
    /\ UNCHANGED <<stop, loop, responseCh, callVars, chanVars, peerVars>>

\* The peer closes, the network fails, or nothing is read for PongWait.
ReadFails(k) ==
    /\ sock[k] = "open"
    /\ sock' = [sock EXCEPT ![k] = "closed"]
    /\ UNCHANGED <<conn, isConnected, stop, loop, handler, responseCh, callVars, chanVars, peerVars>>

LeaveWhen(k, cond) ==
    /\ handler[k] = "select" /\ cond
    /\ handler' = [handler EXCEPT ![k] = "leave"]
    /\ sock' = [sock EXCEPT ![k] = "closed"]
    /\ UNCHANGED <<conn, isConnected, stop, loop, responseCh, callVars, chanVars, peerVars>>

\* Mutant of HandlerLeaves: the select does not listen to stopChan.
LeavesOnError(k) == LeaveWhen(k, sock[k] = "closed" \/ conn # k)

\* handleConnection leaves its select on stopChan, on a read error, or because
\* the ticker found the connection replaced; its deferred function then closes
\* the socket ...
HandlerLeaves(k) == LeaveWhen(k, stop # "no" \/ sock[k] = "closed" \/ conn # k)

\* ... and, unless another connection is current by then, forgets the connection
\* and fails the calls that wait.
HandlerCleansUp(k) ==
    /\ handler[k] = "leave"
    /\ handler' = [handler EXCEPT ![k] = "done"]
    /\ \/ conn = k
          /\ conn' = None /\ isConnected' = FALSE
          /\ FailAllCalls
       \/ conn # k
          /\ UNCHANGED <<conn, isConnected, responseCh, closed, panicked>>
    /\ loop' = IF loop = "handle" THEN "check" ELSE loop
    /\ UNCHANGED <<stop, sock, callVars, buffer, peerVars>>

StopBegins ==
    /\ stop = "no" /\ stop' = "closing"
    /\ UNCHANGED <<conn, isConnected, loop, sock, handler, responseCh, callVars, chanVars, peerVars>>

StopEnds ==
    /\ stop = "closing" /\ stop' = "done"
    /\ isConnected' = FALSE /\ conn' = None
    /\ sock' = Hangup
    /\ FailAllCalls
    /\ UNCHANGED <<loop, handler, callVars, buffer, peerVars>>

-----------------------------------------------------------------------------
(* SendAndWait *)

Register(r) ==
    /\ pc[r] = "start"
    /\ \E e \in Echoes :
          /\ UniqueEchoes => \A s \in Requests : echo[s] # e
          /\ echo' = [echo EXCEPT ![r] = e]
          /\ responseCh' = [responseCh EXCEPT ![e] = r]
    /\ pc' = [pc EXCEPT ![r] = "take"]
    /\ UNCHANGED <<connVars, target, result, chanVars, peerVars>>

\* Mutant of TakeConn: no check for a nil connection.
TakeAnyConn(r) ==
    /\ pc[r] = "take"
    /\ target' = [target EXCEPT ![r] = conn]
    /\ pc' = [pc EXCEPT ![r] = "write"] /\ result' = result
    /\ UNCHANGED <<connVars, responseCh, echo, chanVars, peerVars>>

\* SendRawData takes the connection there is now.
TakeConn(r) ==
    /\ pc[r] = "take"
    /\ target' = [target EXCEPT ![r] = conn]
    /\ \/ /\ conn # None
          /\ pc' = [pc EXCEPT ![r] = "write"] /\ result' = result
       \/ /\ conn = None
          /\ pc' = [pc EXCEPT ![r] = "return"]
          /\ result' = [result EXCEPT ![r] = "notsent"]
    /\ UNCHANGED <<connVars, responseCh, echo, chanVars, peerVars>>

\* The write succeeds or fails; either way OneBot may have got the request, if
\* the socket was still open.  A request that is lost is never handled.
WriteWith(r, failure) ==
    /\ pc[r] = "write"
    /\ \/ pc' = [pc EXCEPT ![r] = "wait"] /\ result' = result
       \/ pc' = [pc EXCEPT ![r] = "return"]
          /\ result' = [result EXCEPT ![r] = failure]
    /\ \/ msg' = msg
       \/ sock[target[r]] = "open" /\ msg' = [msg EXCEPT ![r] = "request"]
    /\ UNCHANGED <<connVars, responseCh, echo, target, chanVars, verdict, claim>>

\* Mutant of Write: a failed write counts as not sent.
WriteNotSent(r) == WriteWith(r, "notsent")

Write(r) == WriteWith(r, "unknown")

\* <-ch: the answer, or the channel was closed.
Receive(r) ==
    /\ pc[r] = "wait"
    /\ \/ /\ buffer[r] # "empty"
          /\ result' = [result EXCEPT ![r] = IF buffer[r] = "accepted" THEN "ok" ELSE "rejected"]
          /\ buffer' = [buffer EXCEPT ![r] = "empty"]
       \/ /\ buffer[r] = "empty" /\ r \in closed
          /\ result' = [result EXCEPT ![r] = "unknown"] /\ buffer' = buffer
    /\ pc' = [pc EXCEPT ![r] = "return"]
    /\ UNCHANGED <<connVars, responseCh, echo, target, closed, panicked, peerVars>>

Timeout(r) ==
    /\ pc[r] = "wait"
    /\ result' = [result EXCEPT ![r] = "unknown"]
    /\ pc' = [pc EXCEPT ![r] = "return"]
    /\ UNCHANGED <<connVars, responseCh, echo, target, chanVars, peerVars>>

\* The deferred function: whatever channel is registered under the echo, this
\* call's own one is closed and the entry deleted.
Return(r) ==
    /\ pc[r] = "return"
    /\ pc' = [pc EXCEPT ![r] = "done"]
    /\ IF responseCh[echo[r]] # None
       THEN Close({r}) /\ responseCh' = [responseCh EXCEPT ![echo[r]] = None]
       ELSE UNCHANGED <<closed, panicked, responseCh>>
    /\ UNCHANGED <<connVars, echo, target, result, buffer, peerVars>>

-----------------------------------------------------------------------------
(* OneBot, readLoop and handleMessage *)

\* OneBot handles a request that reached it, and answers.
OneBotHandles(r) ==
    /\ msg[r] = "request"
    /\ \E v \in {"accepted", "rejected"} : verdict' = [verdict EXCEPT ![r] = v]
    /\ msg' = [msg EXCEPT ![r] = "answer"]
    /\ UNCHANGED <<connVars, responseCh, callVars, chanVars, claim>>

\* readLoop reads the answer and starts a goroutine for it.
ReadAnswer(r) ==
    /\ msg[r] = "answer" /\ sock[target[r]] = "open"
    /\ msg' = [msg EXCEPT ![r] = "read"]
    /\ UNCHANGED <<connVars, responseCh, callVars, chanVars, verdict, claim>>

\* Mutant of HandleMessage: the channel stays registered.
HandleKeepsEntry(r) ==
    /\ msg[r] = "read"
    /\ \/ responseCh[echo[r]] # None
          /\ claim' = [claim EXCEPT ![r] = responseCh[echo[r]]]
          /\ msg' = [msg EXCEPT ![r] = "claimed"]
       \/ responseCh[echo[r]] = None
          /\ msg' = [msg EXCEPT ![r] = "gone"] /\ claim' = claim
    /\ UNCHANGED <<connVars, responseCh, callVars, chanVars, verdict>>

\* handleMessage takes the channel out of the map.  An answer nobody waits for
\* goes to the event handler, which knows no such event.
HandleMessage(r) ==
    /\ msg[r] = "read"
    /\ \/ responseCh[echo[r]] # None
          /\ claim' = [claim EXCEPT ![r] = responseCh[echo[r]]]
          /\ responseCh' = [responseCh EXCEPT ![echo[r]] = None]
          /\ msg' = [msg EXCEPT ![r] = "claimed"]
       \/ responseCh[echo[r]] = None
          /\ msg' = [msg EXCEPT ![r] = "gone"] /\ UNCHANGED <<claim, responseCh>>
    /\ UNCHANGED <<connVars, callVars, chanVars, verdict>>

\* After the unlock the answer goes into the channel, unless it is full.
GiveAnswer(r) ==
    /\ msg[r] = "claimed"
    /\ buffer' = IF claim[r] \notin closed /\ buffer[claim[r]] = "empty"
                 THEN [buffer EXCEPT ![claim[r]] = verdict[r]] ELSE buffer
    /\ panicked' = (panicked \/ claim[r] \in closed)
    /\ msg' = [msg EXCEPT ![r] = "gone"]
    /\ UNCHANGED <<connVars, responseCh, callVars, closed, verdict, claim>>

-----------------------------------------------------------------------------
SendAndWait(r) ==
    Register(r) \/ TakeConn(r) \/ Write(r) \/ Receive(r) \/ Timeout(r) \/ Return(r)

Connection(k) ==
    \/ Upgrade(k) \/ Dial(k) \/ Install(k) \/ ReadFails(k)
    \/ HandlerLeaves(k) \/ HandlerCleansUp(k)

Answer(r) == OneBotHandles(r) \/ ReadAnswer(r) \/ HandleMessage(r) \/ GiveAnswer(r)

Next ==
    \/ \E r \in Requests : SendAndWait(r) \/ Answer(r)
    \/ \E k \in Conns : Connection(k)
    \/ LoopCheck \/ DialFails
    \/ StopBegins \/ StopEnds

\* Goroutines that can run do, and a call's timer fires; nobody has to call Stop,
\* and neither OneBot nor the network owes anything.
Fairness ==
    /\ \A r \in Requests :
          /\ WF_vars(TakeConn(r) \/ Write(r) \/ Receive(r) \/ Timeout(r) \/ Return(r))
          /\ WF_vars(HandleMessage(r) \/ GiveAnswer(r))
    /\ \A k \in Conns : WF_vars(Install(k)) /\ WF_vars(HandlerLeaves(k) \/ HandlerCleansUp(k))
    /\ WF_vars(LoopCheck)
    /\ WF_vars(StopEnds)

Spec == Init /\ [][Next]_vars /\ Fairness

-----------------------------------------------------------------------------
(* Properties *)

\* Every variable stays in its range, and no call goes on to write without a
\* connection (SendRawData).
TypeOK ==
    /\ conn \in Conns \cup {None} /\ isConnected \in BOOLEAN
    /\ responseCh \in [Echoes -> Requests \cup {None}]
    /\ stop \in {"no", "closing", "done"}
    /\ loop \in {"server", "check", "dial", "handle", "exit"}
    /\ sock \in [Conns -> {"none", "up", "open", "closed"}]
    /\ handler \in [Conns -> {"none", "select", "leave", "done"}]
    /\ pc \in [Requests -> {"start", "take", "write", "wait", "return", "done"}]
    /\ echo \in [Requests -> Echoes \cup {None}]
    /\ target \in [Requests -> Conns \cup {None}]
    /\ \A r \in Requests : pc[r] = "write" => target[r] # None
    /\ result \in [Requests -> {"none", "ok", "rejected", "notsent", "unknown"}]
    /\ buffer \in [Requests -> {"empty", "accepted", "rejected"}]
    /\ closed \subseteq Requests
    /\ msg \in [Requests -> {"none", "request", "answer", "read", "claimed", "gone"}]
    /\ verdict \in [Requests -> {"none", "accepted", "rejected"}]
    /\ claim \in [Requests -> Requests \cup {None}]
    /\ panicked \in BOOLEAN

\* No response channel is closed twice, and no answer is sent on a closed one,
\* however answers, timeouts, lost connections and Stop race.
NoPanic == ~panicked

\* Whatever connections come and go, at most one socket is open, it is the one
\* new requests use, and a handler watches it (startServer, connect, Stop).
OneOpenSocket ==
    /\ \A k \in Conns : sock[k] = "open" => k = conn /\ handler[k] = "select"
    /\ isConnected <=> conn # None
    /\ conn # None => handler[conn] \in {"select", "leave"}

\* Stop is final: even if a dial or an upgrade was under way, in the end there is
\* no connection and no call waits.
StopIsFinal ==
    (stop = "done") ~> [](conn = None /\ ~isConnected /\ \A k \in Conns : sock[k] # "open")

RPC == INSTANCE RequestResponse WITH
    call <- [r \in Requests |->
                IF pc[r] = "start" THEN "idle" ELSE IF pc[r] = "done" THEN "done" ELSE "open"],
    result <- [r \in Requests |-> IF pc[r] = "done" THEN result[r] ELSE "none"],
    verdict <- verdict

\* Every call returns, and what it returns is what became of this very request:
\* the meaning wsclient.go gives to its four kinds of error, and to success.
ImplementsRPC == RPC!Spec
=============================================================================
