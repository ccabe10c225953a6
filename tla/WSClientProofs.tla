---------------------------- MODULE WSClientProofs ----------------------------
(***************************************************************************)
(* Proofs about WSClient.  Stages says how far a call and its answer can be *)
(* from each other; Own, which needs that echoes are unique, says that a    *)
(* registered or claimed channel belongs to the call whose echo it is found *)
(* under, and is open.                                                      *)
(***************************************************************************)
EXTENDS WSClient, TLAPS

\* What SendAndWait, OneBot and handleMessage know of a call at each point of it.
Stages ==
    \A r \in Requests :
        /\ echo[r] = None <=> pc[r] = "start"
        /\ pc[r] \in {"start", "take", "write"} => msg[r] = "none"
        /\ verdict[r] = "none" <=> msg[r] \in {"none", "request"}
        /\ msg[r] = "claimed" => claim[r] \in Requests
        /\ result[r] = "none" <=> pc[r] \in {"start", "take", "write", "wait"}
        /\ result[r] = "notsent" => msg[r] = "none"

\* A registered channel belongs to a call under way that has this echo, and is open.
EntriesOwn ==
    \A e \in Echoes : responseCh[e] # None =>
        /\ echo[responseCh[e]] = e
        /\ pc[responseCh[e]] \in {"take", "write", "wait", "return"}
        /\ responseCh[e] \notin closed

\* A claimed channel is that of the call that is answered, registered no more, and open.
ClaimsOwn ==
    \A r \in Requests : msg[r] = "claimed" =>
        claim[r] = r /\ responseCh[echo[r]] = None /\ r \notin closed

\* What a channel holds, and what a call made of it, is what OneBot did with the call.
AnswersOwn ==
    \A r \in Requests :
        /\ buffer[r] # "empty" => verdict[r] = buffer[r] /\ msg[r] = "gone"
        /\ msg[r] = "request" => result[r] \in {"none", "unknown"}
        /\ result[r] = "ok" => verdict[r] = "accepted"
        /\ result[r] = "rejected" => verdict[r] = "rejected"

Own ==
    /\ \A r, s \in Requests : echo[r] = echo[s] /\ echo[r] # None => r = s
    /\ \A r \in Requests : pc[r] = "start" => r \notin closed
    /\ EntriesOwn /\ ClaimsOwn /\ AnswersOwn
    /\ ~panicked

-----------------------------------------------------------------------------
(* Types and stages *)

LEMMA InitStages == Init => TypeOK /\ Stages
  <1> SUFFICES ASSUME Init PROVE TypeOK /\ Stages
    OBVIOUS
  <1>1. isConnected \in BOOLEAN /\ panicked \in BOOLEAN
    BY DEF Init
  <1>2. Stages
    BY WSClientAssumption DEF Init, Stages
  <1>3. buffer \in [Requests -> {"empty", "accepted", "rejected"}]
        /\ claim \in [Requests -> Requests \cup {None}]
        /\ responseCh \in [Echoes -> Requests \cup {None}]
    BY DEF Init
  <1> QED
    BY <1>1, <1>2, <1>3 DEF Init, TypeOK

\* Failing all calls closes channels of calls and forgets them.
LEMMA FailAllType ==
    ASSUME TypeOK, FailAllCalls
    PROVE  /\ closed' \subseteq Requests /\ panicked' \in BOOLEAN
           /\ responseCh' \in [Echoes -> Requests \cup {None}]
  <1>1. Registered \subseteq Requests
    BY DEF Registered, TypeOK
  <1>2. panicked' \in BOOLEAN
    BY DEF FailAllCalls, Close
  <1> QED
    BY <1>1, <1>2 DEF FailAllCalls, Close, TypeOK

\* A connection, the dial loop or Stop changes nothing that the stages tell of, and
\* closes channels of calls only.
LEMMA ConnectionStages ==
    ASSUME TypeOK, Stages,
           (\E k \in Conns : Connection(k)) \/ LoopCheck \/ DialFails \/ StopBegins \/ StopEnds
    PROVE  TypeOK' /\ Stages'
  <1>1. ASSUME NEW k \in Conns, Connection(k) PROVE TypeOK' /\ Stages'
    <2> USE DEF Connection, Upgrade, Dial, Install, ReadFails, HandlerLeaves, LeaveWhen,
                HandlerCleansUp
    <2>1. UNCHANGED <<callVars, buffer, peerVars>>
      BY <1>1 DEF chanVars, FailAllCalls
    <2>2. Stages'
      BY <2>1 DEF Stages, callVars, peerVars
    <2>3. /\ closed' \subseteq Requests /\ panicked' \in BOOLEAN
          /\ responseCh' \in [Echoes -> Requests \cup {None}]
      <3>1. \/ UNCHANGED <<closed, panicked, responseCh>>
            \/ FailAllCalls
        BY <1>1 DEF chanVars
      <3> QED
        BY <3>1, FailAllType DEF TypeOK
    <2>4. conn' \in Conns \cup {None} /\ isConnected' \in BOOLEAN /\ stop' = stop
      BY <1>1 DEF TypeOK
    <2>5. loop' \in {"server", "check", "dial", "handle", "exit"}
      BY <1>1 DEF TypeOK
    <2>6. sock' \in [Conns -> {"none", "up", "open", "closed"}]
      BY <1>1 DEF Hangup, TypeOK
    <2>7. handler' \in [Conns -> {"none", "select", "leave", "done"}]
      BY <1>1 DEF TypeOK
    <2> HIDE DEF Connection
    <2> QED
      BY <2>1, <2>2, <2>3, <2>4, <2>5, <2>6, <2>7 DEF TypeOK, callVars, peerVars
  <1>2. CASE LoopCheck \/ DialFails \/ StopBegins
    BY <1>2 DEF LoopCheck, DialFails, StopBegins, TypeOK, Stages, callVars, chanVars, peerVars
  <1>3. CASE StopEnds
    <2>1. /\ closed' \subseteq Requests /\ panicked' \in BOOLEAN
          /\ responseCh' \in [Echoes -> Requests \cup {None}]
      BY <1>3, FailAllType DEF StopEnds
    <2>2. Stages'
      BY <1>3 DEF StopEnds, Stages, callVars, peerVars
    <2>3. sock' \in [Conns -> {"none", "up", "open", "closed"}]
      BY <1>3 DEF StopEnds, Hangup, TypeOK
    <2> QED
      BY <1>3, <2>1, <2>2, <2>3 DEF StopEnds, TypeOK, callVars, peerVars
  <1> QED
    BY <1>1, <1>2, <1>3

\* Each step of SendAndWait takes its call to the next stage.
LEMMA CallStages ==
    ASSUME TypeOK, Stages, NEW r \in Requests, SendAndWait(r)
    PROVE  TypeOK' /\ Stages'
  <1>1. CASE Register(r)
    BY <1>1, WSClientAssumption DEF Register, TypeOK, Stages, connVars, chanVars, peerVars
  <1>2. CASE TakeConn(r)
    BY <1>2 DEF TakeConn, TypeOK, Stages, connVars, chanVars, peerVars
  <1>3. CASE Write(r)
    BY <1>3 DEF Write, WriteWith, TypeOK, Stages, connVars, chanVars
  <1>4. CASE Receive(r)
    <2>1. \/ buffer' = buffer \/ buffer' = [buffer EXCEPT ![r] = "empty"]
      BY <1>4 DEF Receive
    <2>2. buffer' \in [Requests -> {"empty", "accepted", "rejected"}]
      BY <2>1 DEF TypeOK
    <2>3. \E v \in {"ok", "rejected", "unknown"} : result' = [result EXCEPT ![r] = v]
      BY <1>4 DEF Receive
    <2>4. /\ pc[r] = "wait" /\ pc' = [pc EXCEPT ![r] = "return"]
          /\ UNCHANGED <<connVars, responseCh, echo, target, closed, panicked, peerVars>>
      BY <1>4 DEF Receive
    <2>5. TypeOK'
      BY <2>2, <2>3, <2>4 DEF TypeOK, connVars, peerVars
    <2>6. Stages'
      BY <2>3, <2>4 DEF TypeOK, Stages, peerVars
    <2> QED
      BY <2>5, <2>6
  <1>5. CASE Timeout(r)
    BY <1>5 DEF Timeout, TypeOK, Stages, connVars, chanVars, peerVars
  <1>6. CASE Return(r)
    <2>1. panicked' \in BOOLEAN
      BY <1>6 DEF Return, Close, TypeOK
    <2>2. closed' \subseteq Requests /\ responseCh' \in [Echoes -> Requests \cup {None}]
      BY <1>6 DEF Return, Close, TypeOK
    <2> QED
      BY <1>6, <2>1, <2>2 DEF Return, TypeOK, Stages, connVars, peerVars
  <1> QED
    BY <1>1, <1>2, <1>3, <1>4, <1>5, <1>6 DEF SendAndWait

\* Each step of the answer moves it on.
LEMMA AnswerStages ==
    ASSUME TypeOK, Stages, NEW r \in Requests, Answer(r)
    PROVE  TypeOK' /\ Stages'
  <1>1. CASE OneBotHandles(r)
    BY <1>1 DEF OneBotHandles, TypeOK, Stages, connVars, callVars, chanVars
  <1>2. CASE ReadAnswer(r)
    BY <1>2 DEF ReadAnswer, TypeOK, Stages, connVars, callVars, chanVars
  <1>3. CASE HandleMessage(r)
    <2>1. echo[r] \in Echoes
      BY <1>3 DEF HandleMessage, TypeOK, Stages
    <2> QED
      BY <1>3, <2>1 DEF HandleMessage, TypeOK, Stages, connVars, callVars, chanVars
  <1>4. CASE GiveAnswer(r)
    BY <1>4 DEF GiveAnswer, TypeOK, Stages, connVars, callVars
  <1> QED
    BY <1>1, <1>2, <1>3, <1>4 DEF Answer

LEMMA StepStages == TypeOK /\ Stages /\ [Next]_vars => TypeOK' /\ Stages'
  <1> SUFFICES ASSUME TypeOK, Stages, [Next]_vars PROVE TypeOK' /\ Stages'
    OBVIOUS
  <1>1. CASE UNCHANGED vars
    BY <1>1 DEF vars, connVars, callVars, chanVars, peerVars, TypeOK, Stages
  <1> QED
    BY <1>1, ConnectionStages, CallStages, AnswerStages DEF Next

\* In every execution, whatever the number of connections, calls and echoes.
THEOREM StagesHold == Spec => [](TypeOK /\ Stages)
  BY InitStages, StepStages, PTL DEF Spec

\* Every variable stays in its range, and no call goes on to write without a connection,
\* even if two calls share an echo.
THEOREM TypeCorrect == Spec => []TypeOK
  BY StagesHold, PTL

-----------------------------------------------------------------------------
(* One open socket *)

LEMMA InitSocket == Init => OneOpenSocket
  BY DEF Init, OneOpenSocket

\* Only the steps of connections and of Stop touch the sockets.
LEMMA SocketStep == TypeOK /\ OneOpenSocket /\ [Next]_vars => OneOpenSocket'
  <1> SUFFICES ASSUME TypeOK, OneOpenSocket, [Next]_vars PROVE OneOpenSocket'
    OBVIOUS
  <1>1. ASSUME NEW k \in Conns, Connection(k) PROVE OneOpenSocket'
    <2>1. CASE Upgrade(k) \/ Dial(k)
      BY <2>1 DEF Upgrade, Dial, OneOpenSocket, TypeOK
    <2>2. CASE Install(k)
      <3>1. CASE conn = None
        <4>1. sock' = [sock EXCEPT ![k] = "open"]
          BY <2>2, <3>1 DEF Install, Hangup
        <4> QED
          BY <2>2, <3>1, <4>1, WSClientAssumption DEF Install, OneOpenSocket, TypeOK
      <3>2. CASE conn # None
        <4>1. sock' = [[sock EXCEPT ![conn] = "closed"] EXCEPT ![k] = "open"]
          BY <2>2, <3>2 DEF Install, Hangup
        <4> QED
          BY <2>2, <3>2, <4>1, WSClientAssumption DEF Install, OneOpenSocket, TypeOK
      <3> QED
        BY <3>1, <3>2
    <2>3. CASE ReadFails(k)
      BY <2>3 DEF ReadFails, OneOpenSocket, TypeOK
    <2>4. CASE HandlerLeaves(k)
      BY <2>4 DEF HandlerLeaves, LeaveWhen, OneOpenSocket, TypeOK
    <2>5. CASE HandlerCleansUp(k)
      BY <2>5, WSClientAssumption DEF HandlerCleansUp, OneOpenSocket, TypeOK
    <2> QED
      BY <1>1, <2>1, <2>2, <2>3, <2>4, <2>5 DEF Connection
  <1>2. CASE StopEnds
    BY <1>2 DEF StopEnds, Hangup, OneOpenSocket, TypeOK
  <1>3. CASE LoopCheck \/ DialFails \/ StopBegins
    BY <1>3 DEF LoopCheck, DialFails, StopBegins, OneOpenSocket
  <1>4. ASSUME NEW r \in Requests, SendAndWait(r) \/ Answer(r) PROVE OneOpenSocket'
    <2>1. UNCHANGED connVars
      BY <1>4 DEF SendAndWait, Register, TakeConn, Write, WriteWith, Receive, Timeout, Return,
                  Answer, OneBotHandles, ReadAnswer, HandleMessage, GiveAnswer
    <2> QED
      BY <2>1 DEF connVars, OneOpenSocket
  <1>5. CASE UNCHANGED vars
    BY <1>5 DEF vars, connVars, OneOpenSocket
  <1> QED
    BY <1>1, <1>2, <1>3, <1>4, <1>5 DEF Next

\* Whatever connections are upgraded, dialled, replaced, lost or stopped, at most one socket
\* is open: the current one, with a handler that watches it.
THEOREM SingleSocket == Spec => []OneOpenSocket
  BY InitSocket, SocketStep, TypeCorrect, PTL DEF Spec

-----------------------------------------------------------------------------
(* Channels and answers belong to their calls *)

LEMMA InitOwn == Init => Own
  BY DEF Init, Own, EntriesOwn, ClaimsOwn, AnswersOwn

\* Failing all calls closes no channel twice, and none that is claimed.
LEMMA FailAllOwn ==
    ASSUME TypeOK, Stages, Own, FailAllCalls, UNCHANGED <<callVars, buffer, peerVars>>
    PROVE  Own'
  <1>1. \A e \in Echoes : responseCh'[e] = None
    BY DEF FailAllCalls
  <1>2. \A r \in Registered : r \notin closed /\ pc[r] # "start"
    BY DEF Registered, Own, EntriesOwn
  <1>3. closed' = closed \cup Registered /\ ~panicked'
    BY <1>2 DEF FailAllCalls, Close, Own
  <1>4. \A r \in Requests : msg[r] = "claimed" => echo[r] \in Echoes
    BY DEF TypeOK, Stages
  <1>5. ASSUME NEW r \in Requests, msg[r] = "claimed" PROVE r \notin Registered
    <2> SUFFICES ASSUME NEW e \in Echoes, responseCh[e] = r PROVE FALSE
      BY DEF Registered
    <2>1. echo[r] = e
      BY WSClientAssumption DEF Own, EntriesOwn
    <2> QED
      BY <1>5, <2>1, WSClientAssumption DEF Own, ClaimsOwn
  <1>6. EntriesOwn'
    BY <1>1 DEF EntriesOwn
  <1>7. ClaimsOwn'
    BY <1>1, <1>3, <1>4, <1>5 DEF ClaimsOwn, Own, callVars, peerVars
  <1>8. AnswersOwn'
    BY DEF AnswersOwn, Own, callVars, peerVars
  <1>9. \A r \in Requests : pc[r] = "start" => r \notin closed'
    BY <1>2, <1>3 DEF Own
  <1> QED
    BY <1>3, <1>6, <1>7, <1>8, <1>9 DEF Own, callVars

LEMMA OwnUnchanged ==
    ASSUME Own, UNCHANGED <<responseCh, callVars, chanVars, peerVars>>
    PROVE  Own'
  BY DEF Own, EntriesOwn, ClaimsOwn, AnswersOwn, callVars, chanVars, peerVars

LEMMA ConnectionOwn ==
    ASSUME TypeOK, Stages, Own,
           (\E k \in Conns : Connection(k)) \/ LoopCheck \/ DialFails \/ StopBegins \/ StopEnds
    PROVE  Own'
  <1>1. \/ UNCHANGED <<responseCh, callVars, chanVars, peerVars>>
        \/ FailAllCalls /\ UNCHANGED <<callVars, buffer, peerVars>>
    BY DEF Connection, Upgrade, Dial, Install, ReadFails, HandlerLeaves, LeaveWhen,
           HandlerCleansUp, LoopCheck, DialFails, StopBegins, StopEnds, chanVars
  <1> QED
    BY <1>1, FailAllOwn, OwnUnchanged

\* A call touches only its own channel and its own entry.
LEMMA CallOwn ==
    ASSUME UniqueEchoes, TypeOK, Stages, Own, NEW r \in Requests, SendAndWait(r)
    PROVE  Own'
  <1>1. CASE Register(r)
    <2>1. PICK e \in Echoes : /\ \A s \in Requests : echo[s] # e
                              /\ echo' = [echo EXCEPT ![r] = e]
                              /\ responseCh' = [responseCh EXCEPT ![e] = r]
      BY <1>1 DEF Register
    <2>2. /\ pc[r] = "start" /\ pc' = [pc EXCEPT ![r] = "take"]
          /\ UNCHANGED <<result, chanVars, peerVars>>
      BY <1>1 DEF Register
    <2>3. \A a, b \in Requests : echo'[a] = echo'[b] /\ echo'[a] # None => a = b
      BY <2>1 DEF Own, TypeOK
    <2>4. EntriesOwn'
      BY <2>1, <2>2, WSClientAssumption DEF Own, EntriesOwn, TypeOK, chanVars
    <2>5. ClaimsOwn'
      BY <2>1, <2>2 DEF Own, ClaimsOwn, Stages, TypeOK, chanVars, peerVars
    <2> QED
      BY <2>2, <2>3, <2>4, <2>5 DEF Own, AnswersOwn, TypeOK, chanVars, peerVars
  <1>2. CASE TakeConn(r)
    <2>1. /\ pc[r] = "take" /\ UNCHANGED <<responseCh, echo, chanVars, peerVars>>
          /\ \E p \in {"write", "return"} : pc' = [pc EXCEPT ![r] = p]
          /\ result' = result \/ result' = [result EXCEPT ![r] = "notsent"]
      BY <1>2 DEF TakeConn
    <2>2. msg[r] = "none"
      BY <2>1 DEF Stages
    <2>3. EntriesOwn' /\ ClaimsOwn'
      BY <2>1 DEF Own, EntriesOwn, ClaimsOwn, TypeOK, chanVars, peerVars
    <2>4. AnswersOwn'
      BY <2>1, <2>2 DEF Own, AnswersOwn, TypeOK, chanVars, peerVars
    <2> QED
      BY <2>1, <2>3, <2>4 DEF Own, TypeOK, chanVars
  <1>3. CASE Write(r)
    <2>1. /\ pc[r] = "write" /\ UNCHANGED <<responseCh, echo, chanVars, verdict, claim>>
          /\ \E p \in {"wait", "return"} : pc' = [pc EXCEPT ![r] = p]
          /\ result' = result \/ result' = [result EXCEPT ![r] = "unknown"]
          /\ msg' = msg \/ msg' = [msg EXCEPT ![r] = "request"]
      BY <1>3 DEF Write, WriteWith
    <2>2. msg[r] = "none" /\ verdict[r] = "none" /\ result[r] = "none"
      BY <2>1 DEF Stages
    <2>3. EntriesOwn' /\ ClaimsOwn'
      BY <2>1 DEF Own, EntriesOwn, ClaimsOwn, TypeOK, chanVars
    <2>4. AnswersOwn'
      BY <2>1, <2>2 DEF Own, AnswersOwn, TypeOK, chanVars
    <2> QED
      BY <2>1, <2>3, <2>4 DEF Own, TypeOK, chanVars
  <1>4. CASE Receive(r)
    <2>1. /\ pc[r] = "wait" /\ UNCHANGED <<responseCh, echo, closed, panicked, peerVars>>
          /\ pc' = [pc EXCEPT ![r] = "return"]
      BY <1>4 DEF Receive
    <2>2. EntriesOwn' /\ ClaimsOwn'
      BY <2>1 DEF Own, EntriesOwn, ClaimsOwn, TypeOK, peerVars
    <2>3. ASSUME buffer[r] # "empty" PROVE AnswersOwn'
      <3>1. /\ result' = [result EXCEPT ![r] = IF buffer[r] = "accepted" THEN "ok" ELSE "rejected"]
            /\ buffer' = [buffer EXCEPT ![r] = "empty"]
        BY <1>4, <2>3 DEF Receive
      <3>2. buffer[r] \in {"accepted", "rejected"} /\ verdict[r] = buffer[r] /\ msg[r] = "gone"
        BY <2>3 DEF Own, AnswersOwn, TypeOK
      <3> QED
        BY <2>1, <3>1, <3>2 DEF Own, AnswersOwn, TypeOK, peerVars
    <2>4. ASSUME buffer[r] = "empty" PROVE AnswersOwn'
      <3>1. result' = [result EXCEPT ![r] = "unknown"] /\ buffer' = buffer
        BY <1>4, <2>4 DEF Receive
      <3> QED
        BY <2>1, <3>1 DEF Own, AnswersOwn, TypeOK, peerVars
    <2>5. AnswersOwn'
      BY <2>3, <2>4
    <2> QED
      BY <2>1, <2>2, <2>5 DEF Own, TypeOK
  <1>5. CASE Timeout(r)
    <2>1. /\ pc[r] = "wait" /\ UNCHANGED <<responseCh, echo, chanVars, peerVars>>
          /\ pc' = [pc EXCEPT ![r] = "return"]
          /\ result' = [result EXCEPT ![r] = "unknown"]
      BY <1>5 DEF Timeout
    <2> QED
      BY <2>1 DEF Own, EntriesOwn, ClaimsOwn, AnswersOwn, TypeOK, chanVars, peerVars
  <1>6. CASE Return(r)
    <2>1. /\ pc[r] = "return" /\ UNCHANGED <<echo, result, buffer, peerVars>>
          /\ pc' = [pc EXCEPT ![r] = "done"]
      BY <1>6 DEF Return
    <2>2. echo[r] \in Echoes
      BY <2>1 DEF TypeOK, Stages
    <2>3. AnswersOwn'
      BY <2>1 DEF Own, AnswersOwn, TypeOK, peerVars
    <2>4. CASE responseCh[echo[r]] # None
      <3>1. /\ closed' = closed \cup {r} /\ responseCh' = [responseCh EXCEPT ![echo[r]] = None]
            /\ panicked' = (panicked \/ {r} \cap closed # {})
        BY <1>6, <2>4 DEF Return, Close
      <3>2. responseCh[echo[r]] \in Requests /\ echo[responseCh[echo[r]]] = echo[r]
        BY <2>2, <2>4 DEF Own, EntriesOwn, TypeOK
      <3>3. responseCh[echo[r]] = r
        BY <2>2, <3>2, WSClientAssumption DEF Own
      <3>4. r \notin closed
        BY <2>2, <2>4, <3>3 DEF Own, EntriesOwn
      <3>5. ~panicked'
        BY <3>1, <3>4 DEF Own
      <3>6. EntriesOwn'
        <4> SUFFICES ASSUME NEW e \in Echoes, responseCh'[e] # None
                     PROVE  /\ echo'[responseCh'[e]] = e
                            /\ pc'[responseCh'[e]] \in {"take", "write", "wait", "return"}
                            /\ responseCh'[e] \notin closed'
          BY DEF EntriesOwn
        <4>1. e # echo[r] /\ responseCh'[e] = responseCh[e] /\ responseCh[e] \in Requests
          BY <2>2, <3>1 DEF TypeOK
        <4>2. echo[responseCh[e]] = e /\ responseCh[e] # r
          BY <4>1 DEF Own, EntriesOwn
        <4> QED
          BY <2>1, <3>1, <4>1, <4>2 DEF Own, EntriesOwn, TypeOK
      <3>7. ClaimsOwn'
        BY <2>1, <2>2, <2>4, <3>1 DEF Own, ClaimsOwn, TypeOK, peerVars
      <3> QED
        BY <2>1, <2>3, <3>1, <3>5, <3>6, <3>7 DEF Own, TypeOK
    <2>5. CASE responseCh[echo[r]] = None
      <3>1. UNCHANGED <<closed, panicked, responseCh>>
        BY <1>6, <2>5 DEF Return
      <3>2. \A e \in Echoes : responseCh[e] # None => responseCh[e] # r
        BY <2>5 DEF Own, EntriesOwn
      <3>3. EntriesOwn'
        BY <2>1, <3>1, <3>2 DEF Own, EntriesOwn, TypeOK
      <3>4. ClaimsOwn'
        BY <2>1, <3>1 DEF Own, ClaimsOwn, peerVars
      <3> QED
        BY <2>1, <2>3, <3>1, <3>3, <3>4 DEF Own, TypeOK
    <2> QED
      BY <2>4, <2>5
  <1> QED
    BY <1>1, <1>2, <1>3, <1>4, <1>5, <1>6 DEF SendAndWait

\* The answer to a call reaches the channel of that call, which is open.
LEMMA AnswerOwn ==
    ASSUME TypeOK, Stages, Own, NEW r \in Requests, Answer(r)
    PROVE  Own'
  <1>1. CASE OneBotHandles(r)
    <2>1. /\ msg[r] = "request" /\ UNCHANGED <<responseCh, callVars, chanVars, claim>>
          /\ \E v \in {"accepted", "rejected"} : verdict' = [verdict EXCEPT ![r] = v]
          /\ msg' = [msg EXCEPT ![r] = "answer"]
      BY <1>1 DEF OneBotHandles
    <2>2. EntriesOwn' /\ ClaimsOwn'
      BY <2>1 DEF Own, EntriesOwn, ClaimsOwn, TypeOK, callVars, chanVars
    <2>3. buffer[r] = "empty" /\ result[r] \in {"none", "unknown"}
      BY <2>1 DEF Own, AnswersOwn
    <2>4. AnswersOwn'
      BY <2>1, <2>3 DEF Own, AnswersOwn, TypeOK, callVars, chanVars
    <2> QED
      BY <2>1, <2>2, <2>4 DEF Own, callVars, chanVars
  <1>2. CASE ReadAnswer(r)
    <2>1. /\ msg[r] = "answer" /\ msg' = [msg EXCEPT ![r] = "read"]
          /\ UNCHANGED <<responseCh, callVars, chanVars, verdict, claim>>
      BY <1>2 DEF ReadAnswer
    <2> QED
      BY <2>1 DEF Own, EntriesOwn, ClaimsOwn, AnswersOwn, TypeOK, callVars, chanVars
  <1>3. CASE HandleMessage(r)
    <2>1. msg[r] = "read" /\ UNCHANGED <<callVars, chanVars, verdict>> /\ echo[r] \in Echoes
      BY <1>3 DEF HandleMessage, TypeOK, Stages
    <2>2. CASE responseCh[echo[r]] # None
      <3>1. /\ claim' = [claim EXCEPT ![r] = responseCh[echo[r]]]
            /\ responseCh' = [responseCh EXCEPT ![echo[r]] = None]
            /\ msg' = [msg EXCEPT ![r] = "claimed"]
        BY <1>3, <2>2 DEF HandleMessage
      <3>2. responseCh[echo[r]] \in Requests /\ echo[responseCh[echo[r]]] = echo[r]
        BY <2>1, <2>2 DEF Own, EntriesOwn, TypeOK
      <3>3. responseCh[echo[r]] = r /\ r \notin closed
        BY <2>1, <2>2, <3>2, WSClientAssumption DEF Own, EntriesOwn
      <3>4. EntriesOwn'
        BY <2>1, <3>1 DEF Own, EntriesOwn, TypeOK, callVars, chanVars
      <3>5. ClaimsOwn'
        BY <2>1, <3>1, <3>3 DEF Own, ClaimsOwn, TypeOK, callVars, chanVars
      <3>6. AnswersOwn'
        BY <2>1, <3>1 DEF Own, AnswersOwn, TypeOK, callVars, chanVars
      <3> QED
        BY <2>1, <3>4, <3>5, <3>6 DEF Own, callVars, chanVars
    <2>3. CASE responseCh[echo[r]] = None
      <3>1. msg' = [msg EXCEPT ![r] = "gone"] /\ UNCHANGED <<claim, responseCh>>
        BY <1>3, <2>3 DEF HandleMessage
      <3> QED
        BY <2>1, <3>1 DEF Own, EntriesOwn, ClaimsOwn, AnswersOwn, TypeOK, callVars, chanVars
    <2> QED
      BY <2>2, <2>3
  <1>4. CASE GiveAnswer(r)
    <2>1. /\ msg[r] = "claimed" /\ msg' = [msg EXCEPT ![r] = "gone"]
          /\ UNCHANGED <<responseCh, callVars, closed, verdict, claim>>
      BY <1>4 DEF GiveAnswer
    <2>2. claim[r] = r /\ r \notin closed
      BY <2>1 DEF Own, ClaimsOwn
    <2>3. ~panicked' /\ buffer' \in {buffer, [buffer EXCEPT ![r] = verdict[r]]}
      BY <1>4, <2>2 DEF GiveAnswer, Own
    <2>4. EntriesOwn' /\ ClaimsOwn'
      BY <2>1 DEF Own, EntriesOwn, ClaimsOwn, TypeOK, callVars
    <2>5. AnswersOwn'
      BY <2>1, <2>3 DEF Own, AnswersOwn, TypeOK, callVars
    <2> QED
      BY <2>1, <2>3, <2>4, <2>5 DEF Own, callVars
  <1> QED
    BY <1>1, <1>2, <1>3, <1>4 DEF Answer

LEMMA StepOwn == ASSUME UniqueEchoes PROVE TypeOK /\ Stages /\ Own /\ [Next]_vars => Own'
  <1> SUFFICES ASSUME TypeOK, Stages, Own, [Next]_vars PROVE Own'
    OBVIOUS
  <1>1. CASE UNCHANGED vars
    BY <1>1, OwnUnchanged DEF vars
  <1> QED
    BY <1>1, ConnectionOwn, CallOwn, AnswerOwn DEF Next

\* In every execution in which no two calls share an echo.
THEOREM OwnHolds == ASSUME UniqueEchoes PROVE Spec => []Own
  <1>1. TypeOK /\ Stages /\ Own /\ [Next]_vars => Own'
    BY StepOwn
  <1> QED
    BY <1>1, InitOwn, StagesHold, PTL DEF Spec

\* As long as no two calls share an echo, no response channel is closed twice and no answer is
\* sent on a closed one, however answers, timeouts, lost connections and Stop race.
THEOREM NeverPanics == ASSUME UniqueEchoes PROVE Spec => []NoPanic
  <1>1. Own => NoPanic
    BY DEF Own, NoPanic
  <1> QED
    BY <1>1, OwnHolds, PTL

-----------------------------------------------------------------------------
(* SendAndWait implements RequestResponse, but for termination *)

LEMMA InitRPC == Init => RPC!Init
  BY DEF Init, RPC!Init

\* Each step of WSClient is a step of RequestResponse or changes nothing it shows.
LEMMA StepRPC ==
    ASSUME TypeOK, Stages, Own, [Next]_vars
    PROVE  [RPC!Next]_RPC!vars
  <1> DEFINE call == [r \in Requests |->
                        IF pc[r] = "start" THEN "idle"
                        ELSE IF pc[r] = "done" THEN "done" ELSE "open"]
             told == [r \in Requests |-> IF pc[r] = "done" THEN result[r] ELSE "none"]
  <1>1. ASSUME NEW r \in Requests, Register(r) PROVE RPC!Call(r)
    <2>1. call[r] = "idle" /\ call' = [call EXCEPT ![r] = "open"]
      BY <1>1 DEF Register, TypeOK
    <2>2. told' = told /\ verdict' = verdict
      BY <1>1 DEF Register, TypeOK, peerVars
    <2> QED
      BY <2>1, <2>2 DEF RPC!Call
  <1>2. ASSUME NEW r \in Requests, Return(r) PROVE RPC!Return(r)
    <2>1. call[r] = "open" /\ call' = [call EXCEPT ![r] = "done"]
      BY <1>2 DEF Return, TypeOK
    <2>2. told' = [told EXCEPT ![r] = result[r]] /\ verdict' = verdict
      BY <1>2 DEF Return, TypeOK, peerVars
    <2>3. /\ result[r] \in {"ok", "rejected", "notsent", "unknown"}
          /\ result[r] = "ok" => verdict[r] = "accepted"
          /\ result[r] = "rejected" => verdict[r] = "rejected"
          /\ result[r] = "notsent" => verdict[r] = "none"
      BY <1>2 DEF Return, TypeOK, Stages, Own, AnswersOwn
    <2> QED
      BY <2>1, <2>2, <2>3 DEF RPC!Return
  <1>3. ASSUME NEW r \in Requests, OneBotHandles(r) PROVE RPC!Handle(r)
    <2>1. verdict[r] = "none" /\ pc[r] \in {"wait", "return", "done"}
      BY <1>3 DEF OneBotHandles, TypeOK, Stages
    <2>2. pc[r] = "done" => result[r] = "unknown"
      BY <1>3 DEF OneBotHandles, TypeOK, Stages, Own, AnswersOwn
    <2>3. call[r] = "open" \/ (call[r] = "done" /\ told[r] = "unknown")
      BY <1>3, <2>1, <2>2
    <2>4. call' = call /\ told' = told
      BY <1>3 DEF OneBotHandles, callVars
    <2> QED
      BY <1>3, <2>1, <2>3, <2>4 DEF OneBotHandles, RPC!Handle
  <1>4. ASSUME NEW r \in Requests, TakeConn(r) \/ Write(r) \/ Receive(r) \/ Timeout(r)
        PROVE  UNCHANGED RPC!vars
    <2>1. \E p \in {"write", "wait", "return"} : pc' = [pc EXCEPT ![r] = p]
      BY <1>4 DEF TakeConn, Write, WriteWith, Receive, Timeout
    <2>2. pc[r] \in {"take", "write", "wait"} /\ verdict' = verdict
      BY <1>4 DEF TakeConn, Write, WriteWith, Receive, Timeout, peerVars
    <2>3. \A s \in Requests \ {r} : result'[s] = result[s]
      BY <1>4 DEF TakeConn, Write, WriteWith, Receive, Timeout, TypeOK
    <2>4. call' = call
      BY <2>1, <2>2 DEF TypeOK
    <2>5. told' = told
      BY <2>1, <2>2, <2>3 DEF TypeOK
    <2> QED
      BY <2>2, <2>4, <2>5 DEF RPC!vars
  <1>5. ASSUME NEW r \in Requests, ReadAnswer(r) \/ HandleMessage(r) \/ GiveAnswer(r)
        PROVE  UNCHANGED RPC!vars
    BY <1>5 DEF ReadAnswer, HandleMessage, GiveAnswer, callVars, RPC!vars
  <1>6. ASSUME (\E k \in Conns : Connection(k)) \/ LoopCheck \/ DialFails \/ StopBegins \/ StopEnds
        PROVE  UNCHANGED RPC!vars
    <2>1. UNCHANGED <<callVars, peerVars>>
      BY <1>6 DEF Connection, Upgrade, Dial, Install, ReadFails, HandlerLeaves, LeaveWhen,
                  HandlerCleansUp, LoopCheck, DialFails, StopBegins, StopEnds
    <2> QED
      BY <2>1 DEF callVars, peerVars, RPC!vars
  <1>7. CASE UNCHANGED vars
    BY <1>7 DEF vars, callVars, peerVars, RPC!vars
  <1> QED
    BY <1>1, <1>2, <1>3, <1>4, <1>5, <1>6, <1>7 DEF Next, SendAndWait, Answer, RPC!Next

\* As long as no two calls share an echo, a call is told what became of this very request: the
\* safety half of ImplementsRPC, all of RPC!Spec but its fairness.
THEOREM AnswersTrue == ASSUME UniqueEchoes PROVE Spec => RPC!Init /\ [][RPC!Next]_RPC!vars
  <1>1. TypeOK /\ Stages /\ Own /\ [Next]_vars => [RPC!Next]_RPC!vars
    BY StepRPC
  <1> QED
    BY <1>1, InitRPC, OwnHolds, StagesHold, PTL DEF Spec

\* In RequestResponse no step makes a result untrue.
LEMMA ResultsStay ==
    ASSUME TypeOK, RPC!ResultsStayTrue, [RPC!Next]_RPC!vars
    PROVE  RPC!ResultsStayTrue'
  <1> DEFINE call == [r \in Requests |->
                        IF pc[r] = "start" THEN "idle"
                        ELSE IF pc[r] = "done" THEN "done" ELSE "open"]
             told == [r \in Requests |-> IF pc[r] = "done" THEN result[r] ELSE "none"]
             True(r) == /\ told[r] = "ok" => verdict[r] = "accepted"
                        /\ told[r] = "rejected" => verdict[r] = "rejected"
                        /\ told[r] = "notsent" => verdict[r] = "none"
                        /\ told[r] = "none" <=> call[r] # "done"
  <1>1. /\ DOMAIN call = Requests /\ DOMAIN told = Requests /\ DOMAIN verdict = Requests
        /\ call = [r \in Requests |-> call[r]] /\ told = [r \in Requests |-> told[r]]
        /\ verdict = [r \in Requests |-> verdict[r]]
    BY DEF TypeOK
  <1>2. \A r \in Requests : True(r)
    BY DEF RPC!ResultsStayTrue
  <1>3. \/ \E r \in Requests : RPC!Call(r) \/ RPC!Handle(r) \/ RPC!Return(r)
        \/ call' = call /\ told' = told /\ verdict' = verdict
    BY DEF RPC!Next, RPC!vars
  <1> SUFFICES ASSUME NEW s \in Requests PROVE True(s)'
    BY DEF RPC!ResultsStayTrue
  <1>4. CASE call' = call /\ told' = told /\ verdict' = verdict
    <2> HIDE DEF call, told
    <2> QED
      BY <1>2, <1>4
  <1>5. ASSUME NEW r \in Requests, RPC!Call(r) PROVE True(s)'
    <2>1. call[r] = "idle" /\ call' = [call EXCEPT ![r] = "open"] /\ told' = told /\ verdict' = verdict
      BY <1>5 DEF RPC!Call
    <2> HIDE DEF call, told
    <2> QED
      BY <1>1, <1>2, <2>1
  <1>6. ASSUME NEW r \in Requests, RPC!Handle(r) PROVE True(s)'
    <2>1. /\ verdict[r] = "none"
          /\ call[r] = "open" \/ (call[r] = "done" /\ told[r] = "unknown")
          /\ call' = call /\ told' = told
          /\ \A t \in Requests \ {r} : verdict'[t] = verdict[t]
      BY <1>1, <1>6 DEF RPC!Handle
    <2> HIDE DEF call, told
    <2> QED
      BY <1>1, <1>2, <2>1
  <1>7. ASSUME NEW r \in Requests, RPC!Return(r) PROVE True(s)'
    <2>1. PICK res \in {"ok", "rejected", "notsent", "unknown"} :
             /\ res = "ok" => verdict[r] = "accepted"
             /\ res = "rejected" => verdict[r] = "rejected"
             /\ res = "notsent" => verdict[r] = "none"
             /\ told' = [told EXCEPT ![r] = res]
      BY <1>7 DEF RPC!Return
    <2>2. call' = [call EXCEPT ![r] = "done"] /\ verdict' = verdict
      BY <1>7 DEF RPC!Return
    <2> HIDE DEF call, told
    <2> QED
      BY <1>1, <1>2, <2>1, <2>2
  <1> QED
    BY <1>3, <1>4, <1>5, <1>6, <1>7

\* As long as no two calls share an echo, what a call has returned stays true of its request
\* through every later answer, timeout, lost connection and Stop: above all, what was returned
\* as not sent never reaches OneBot, so that the offline queue may send it again.
THEOREM ResultsKept == ASSUME UniqueEchoes PROVE Spec => []RPC!ResultsStayTrue
  <1>1. RPC!Init => RPC!ResultsStayTrue
    BY DEF RPC!Init, RPC!ResultsStayTrue
  <1> QED
    BY <1>1, ResultsStay, AnswersTrue, TypeCorrect, PTL
=============================================================================
