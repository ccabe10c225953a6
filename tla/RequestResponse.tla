--------------------------- MODULE RequestResponse ---------------------------
(***************************************************************************)
(* What a call of WSClient.SendAndWait promises its caller, with no sockets,*)
(* goroutines or channels: every call returns, with one of four results.    *)
(* "ok" and "rejected" report what OneBot did with this very request;       *)
(* "notsent" means that OneBot never gets it, now or later; "unknown"       *)
(* leaves everything open.  OneBot handles a request at most once.          *)
(***************************************************************************)
CONSTANT Requests

VARIABLES
    call,       \* per request: "idle", "open" or "done"
    result,     \* what the caller was told, "none" before the call returns
    verdict     \* what OneBot did with the request, "none" if it has not handled it

vars == <<call, result, verdict>>

Init ==
    /\ call = [r \in Requests |-> "idle"]
    /\ result = [r \in Requests |-> "none"]
    /\ verdict = [r \in Requests |-> "none"]

Call(r) ==
    /\ call[r] = "idle"
    /\ call' = [call EXCEPT ![r] = "open"]
    /\ UNCHANGED <<result, verdict>>

\* OneBot may handle a request while its call is open, and also after the
\* caller gave up without learning the result.
Handle(r) ==
    /\ verdict[r] = "none"
    /\ \/ call[r] = "open"
       \/ call[r] = "done" /\ result[r] = "unknown"
    /\ \E v \in {"accepted", "rejected"} : verdict' = [verdict EXCEPT ![r] = v]
    /\ UNCHANGED <<call, result>>

Return(r) ==
    /\ call[r] = "open"
    /\ \E res \in {"ok", "rejected", "notsent", "unknown"} :
          /\ res = "ok" => verdict[r] = "accepted"
          /\ res = "rejected" => verdict[r] = "rejected"
          /\ res = "notsent" => verdict[r] = "none"
          /\ result' = [result EXCEPT ![r] = res]
    /\ call' = [call EXCEPT ![r] = "done"]
    /\ UNCHANGED verdict

Next == \E r \in Requests : Call(r) \/ Handle(r) \/ Return(r)

Spec == Init /\ [][Next]_vars /\ \A r \in Requests : WF_vars(Return(r))

-----------------------------------------------------------------------------
\* A result stays true after the call has returned it: what was accepted or rejected was,
\* and what is said not to have been sent never reaches OneBot, however late.
ResultsStayTrue ==
    \A r \in Requests :
        /\ result[r] = "ok" => verdict[r] = "accepted"
        /\ result[r] = "rejected" => verdict[r] = "rejected"
        /\ result[r] = "notsent" => verdict[r] = "none"
        /\ result[r] = "none" <=> call[r] # "done"
=============================================================================
