--------------------------- MODULE MCOfflineQueue ---------------------------
(* Model-checking instance of OfflineQueue. *)
EXTENDS OfflineQueue, TLC

\* Senders are interchangeable.
Symmetry == Permutations(Senders)

\* Everything that happens without a lost socket or Stop.
Quiet ==
    \/ \E s \in Senders : Sender(s)
    \/ TimerFires \/ TimerCallback
    \/ Flusher
    \/ Events

\* Without Stop: after it timer callbacks return at once and the socket stays
\* down, it adds no other step.
SafetySpec == Init /\ [][Quiet \/ WsDown]_vars

\* The environment in which the socket, once open, stays open: only the online
\* state that the heartbeats report comes and goes.
StableSocketSpec == Init /\ [][Quiet \/ Stop]_vars /\ Fairness
=============================================================================
