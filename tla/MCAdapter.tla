------------------------------ MODULE MCAdapter ------------------------------
(***************************************************************************)
(* Model-checking instance of three parts of the OneBot adapter that share  *)
(* no state in the model: the WebSocket client (WSClient), cutting messages *)
(* (MessageChunks), and the notices that change the lists (GroupRoster).    *)
(* In each behaviour one of them runs, and the others stay in one initial   *)
(* state, in which nothing is due.                                          *)
(***************************************************************************)
EXTENDS WSClient, GroupRoster, MessageChunks

CONSTANTS
    MaxRunes,      \* bound: runes of the one text of a message
    MaxSegments    \* bound: segments of a message of several

VARIABLE part      \* the part that runs

\* Every text of at most MaxRunes runes, and every mixture of these segments; its
\* texts need a cut or not depending on what precedes them.
Texts  == UNION {[1..k -> Runes] : k \in 0..MaxRunes}
Pieces == {TextSeg(<<"a", "nl">>), TextSeg(<<"a", "p", "a">>),
           Seg("image", 1), Seg("at", 1), Seg("face", 1), Seg("single", 1)}
AllMessages ==
    {<<TextSeg(t)>> : t \in Texts} \cup UNION {[1..k -> Pieces] : k \in 0..MaxSegments}

MCInit ==
    /\ part \in {"ws", "chunks", "roster"}
    /\ Init /\ (part # "ws" => loop = "server")
    /\ ChunksInit /\ (part # "chunks" => segs = <<>>)
    /\ RosterInit
    /\ part # "roster" => bot = {} /\ truth \in [Groups -> [Users -> {"none"}]]

\* Calls, connections and echoes are interchangeable: each call has an echo of its
\* own, fixed beforehand, and one of the calls and one of the connections are named.
FirstCall == CHOOSE r \in Requests : TRUE
FirstConn == CHOOSE k \in Conns : TRUE
OwnEcho   == CHOOSE f \in [Requests -> Echoes] : \A r, s \in Requests : f[r] = f[s] => r = s

\* Either calls race with each other over one connection, or connections replace
\* each other under one call.
OneConnection == \A k \in Conns \ {FirstConn} : sock[k] = "none"
OneCall       == \A r \in Requests \ {FirstCall} : pc[r] = "start"

Within ==
    /\ OneConnection \/ OneCall
    /\ \A r \in Requests : echo[r] \in {None, OwnEcho[r]}

Part(p) == part = p /\ UNCHANGED part

MCNext ==
    \/ Part("ws")     /\ Next /\ Within' /\ UNCHANGED <<chunksVars, rosterVars>>
    \/ Part("chunks") /\ ChunksNext     /\ UNCHANGED <<vars, rosterVars>>
    \/ Part("roster") /\ RosterNext       /\ UNCHANGED <<vars, chunksVars>>

MCSpec == MCInit /\ [][MCNext]_<<part, vars, chunksVars, rosterVars>> /\ Fairness

-----------------------------------------------------------------------------
\* Every variable of every part stays in its range: among them, no call goes on to write
\* without a connection, and no member is cached twice.
AllTypesOK == TypeOK /\ ChunksTypeOK /\ RosterTypeOK
=============================================================================
