------------------------------- MODULE MCSite --------------------------------
(***************************************************************************)
(* Model-checking instance of four parts of a site's module that share no   *)
(* state in the model: the emit queue (EmitQueue), and of Bilibili the live *)
(* status of a user (LiveStatus), the dynamics of a user (Dynamics) and the *)
(* alerts of an expired login (LoginAlert).  In each behaviour one of them  *)
(* runs, and the others stay in one initial state.                          *)
(***************************************************************************)
EXTENDS LiveStatus, EmitQueue, LoginAlert, Dynamics

VARIABLE part \* the part that runs

MCInit ==
    /\ part \in {"emit", "live", "alert", "news"}
    /\ Init /\ EmitInit /\ AlertInit
    /\ DynamicsInit /\ (part # "news" => ~onlyOnline)

Part(p) == part = p /\ UNCHANGED part

MCNext ==
    \/ Part("emit") /\ EmitNext /\ UNCHANGED <<vars, alertVars, dynamicVars>>
    \/ Part("live") /\ Next /\ UNCHANGED <<emitVars, alertVars, dynamicVars>>
    \/ Part("alert") /\ AlertNext /\ UNCHANGED <<vars, emitVars, dynamicVars>>
    \/ Part("news") /\ DynamicsNext /\ UNCHANGED <<vars, emitVars, alertVars>>

\* The fairness of each part, while it runs.
EmitIsFair ==
    /\ WF_emitVars(part = "emit" /\ Core)
    /\ SF_emitVars(part = "emit" /\ CoreStops)
    /\ WF_emitVars(part = "emit" /\ Fresher)
    /\ WF_emitVars(part = "emit" /\ StopWork)

LiveIsFair ==
    /\ WF_vars(part = "live" /\ Round)
    /\ \A d \in Dispatchers : WF_vars(part = "live" /\ Dispatch(d))
    /\ \A g \in Groups :
          /\ WF_vars(part = "live" /\ AddWork(g))
          /\ WF_vars(part = "live" /\ DeletesLiveInfo(g))

AlertIsFair ==
    /\ \A s \in Sources : WF_alertVars(part = "alert" /\ Handles(s))
    /\ \A s \in Polls : WF_alertVars(part = "alert" /\ Asks(s))

NewsIsFair ==
    /\ WF_dynamicVars(part = "news" /\ FeedRound)
    /\ WF_dynamicVars(part = "news" /\ Dispatches)
    /\ WF_dynamicVars(part = "news" /\ Notify)
    /\ \A g \in NewsGroups : WF_dynamicVars(part = "news" /\ FollowWork(g))

MCSpec ==
    /\ MCInit
    /\ [][MCNext]_<<part, vars, emitVars, alertVars, dynamicVars>>
    /\ EmitIsFair /\ LiveIsFair /\ AlertIsFair /\ NewsIsFair

-----------------------------------------------------------------------------
\* Every variable of every part stays in its range, the cursor of EmitQueue in its list.
AllTypesOK == TypeOK /\ EmitTypeOK /\ AlertTypeOK /\ DynamicsTypeOK

\* EmitQueue: no id starves, no signal of Add is lost, and Stop returns but for the one
\* missed broadcast.
QueueLives == part = "emit" => EveryIdEmitted /\ StopEnds

\* LiveStatus: a broadcast that lasts, and its end, are reported to every group that watches.
BroadcastsAreReported == part = "live" => LiveIsReported /\ EndIsReported

\* LoginAlert: an outage that lasts is reported to every administrator, and forgotten
\* when the login works again.
OutagesAreReported == part = "alert" => OutageIsReported /\ OutageIsForgotten

\* Dynamics: what is published while a group watches reaches it, or was cut or lost.
DynamicsArePushed == part = "news" => DynamicIsPushed
=============================================================================
