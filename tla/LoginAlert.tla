------------------------------ MODULE LoginAlert ------------------------------
(***************************************************************************)
(* Bilibili's alert that its login has expired (bilibili/login_alert.go).   *)
(* The live poll, the dynamic poll and the self check run in goroutines of  *)
(* their own; one that is told the account is not logged in marks itself    *)
(* invalid and sends a private message to every bot administrator, one that *)
(* is answered marks itself recovered.  When all have recovered a new       *)
(* generation begins, in which administrators may be alerted again.         *)
(*                                                                         *)
(* A message handed to the offline queue counts as delivered: the flush     *)
(* that sends it is in OfflineQueue.  An answer that says neither changes   *)
(* nothing and is left out.                                                 *)
(***************************************************************************)
EXTENDS Naturals, FiniteSets

CONSTANTS
    Admins,       \* the bot administrators
    QueueEnabled, \* bot.offlineQueue.enable
    MaxOutages,   \* bound: how often the login expires
    MaxAlertFaults \* bound: messages that fail although the bot is connected

ASSUME LoginAlertAssumption == MaxOutages \in Nat /\ MaxAlertFaults \in Nat

\* The sources of alerts; the self check stands for both of the polls.
Polls == {"dynamic", "live"}
Self == "self"
Sources == Polls \cup {Self}

VARIABLES
    loggedIn, outages,
    ready,          \* bilibiliLoginAlertBotReady: online, and connected
    alertFaults,
    generation, invalidSources, sentAdmins,   \* bilibiliLoginAlertStatus
    sending,        \* bilibiliLoginAlertSending
    pc,             \* pc[s]: where source s is
    gen,            \* gen[s]: the generation markInvalid returned
    todo,           \* todo[s]: administrators that s has still to look at
    admin,          \* admin[s]: {} or the one s sends to
    delivered,      \* history: the pairs of an administrator and a generation with an alert
    doubled         \* history: some pair had two

loginVars == <<loggedIn, outages, ready, alertFaults>>
statusVars == <<generation, invalidSources, sentAdmins>>
alertCallVars == <<gen, todo, admin>>
history == <<delivered, doubled>>
alertVars == <<loginVars, statusVars, sending, pc, alertCallVars, history>>

AlertInit ==
    /\ loggedIn = TRUE /\ outages = 0 /\ ready = TRUE /\ alertFaults = 0
    /\ generation = 0 /\ invalidSources = {} /\ sentAdmins = {}
    /\ sending = FALSE
    /\ pc = [s \in Sources |-> "idle"]
    /\ gen = [s \in Sources |-> 0]
    /\ todo = [s \in Sources |-> {}]
    /\ admin = [s \in Sources |-> {}]
    /\ delivered = {} /\ doubled = FALSE

-----------------------------------------------------------------------------
(* The account and the connection *)

LogsOut ==
    /\ loggedIn /\ outages < MaxOutages
    /\ loggedIn' = FALSE /\ outages' = outages + 1
    /\ UNCHANGED <<ready, alertFaults, statusVars, sending, pc, alertCallVars, history>>

LogsIn ==
    /\ ~loggedIn /\ loggedIn' = TRUE
    /\ UNCHANGED <<outages, ready, alertFaults, statusVars, sending, pc, alertCallVars, history>>

ReadyChanges ==
    /\ ready' = ~ready
    /\ UNCHANGED <<loggedIn, outages, alertFaults, statusVars, sending, pc, alertCallVars, history>>

-----------------------------------------------------------------------------
(* A source asks the site *)

Goes(s, from, to) == pc[s] = from /\ pc' = [pc EXCEPT ![s] = to]

\* The local variables of a goroutine that has returned are gone.
Generation(s, g) == gen' = [gen EXCEPT ![s] = IF pc'[s] = "idle" THEN 0 ELSE g]

\* The rounds of fresh wait for the bot to be connected; the self check does not.
Asks(s) ==
    /\ s \in Polls => ready
    /\ Goes(s, "idle", IF loggedIn THEN "valid" ELSE "invalid")
    /\ UNCHANGED <<loginVars, statusVars, sending, alertCallVars, history>>

\* A new generation: everything of the last one is forgotten.  The history keeps the
\* alerts of generations that a goroutine still works on.
NewGeneration ==
    /\ generation' = generation + 1 /\ sentAdmins' = {}
    /\ delivered' = {d \in delivered :
          \E s \in Sources : pc[s] \in {"next", "send", "sent"} /\ gen[s] = d[2]}

\* markRecovered
MarkRecovered(s) ==
    /\ Goes(s, "valid", "idle")
    /\ invalidSources' = IF s = Self THEN {} ELSE invalidSources \ {s}
    /\ IF invalidSources # {} /\ invalidSources' = {}
       THEN NewGeneration ELSE UNCHANGED <<generation, sentAdmins, delivered>>
    /\ UNCHANGED <<loginVars, sending, alertCallVars, doubled>>

\* markInvalid
MarkInvalid(s) ==
    /\ Goes(s, "invalid", "claim")
    /\ invalidSources' = invalidSources \cup (IF s = Self THEN Polls ELSE {s})
    /\ Generation(s, generation)
    /\ UNCHANGED <<loginVars, generation, sentAdmins, sending, todo, admin, history>>

-----------------------------------------------------------------------------
(* notifyBilibiliLoginExpired, after markInvalid *)

\* Mutant of Claims: the flag is set and not looked at.
ClaimsAnyway(s) ==
    /\ Goes(s, "claim", "check") /\ sending' = TRUE
    /\ UNCHANGED <<loginVars, statusVars, alertCallVars, history>>

\* CompareAndSwap(false, true): one goroutine at a time sends, the others leave.
Claims(s) ==
    /\ Goes(s, "claim", IF sending THEN "idle" ELSE "check")
    /\ sending' = TRUE
    /\ Generation(s, gen[s])
    /\ UNCHANGED <<loginVars, statusVars, todo, admin, history>>

\* Mutant of ChecksReady: the flag stays when the bot is not connected.
ChecksReadyOnly(s) ==
    /\ Goes(s, "check", IF ready THEN "next" ELSE "idle")
    /\ todo' = [todo EXCEPT ![s] = IF ready THEN Admins ELSE {}]
    /\ Generation(s, gen[s])
    /\ UNCHANGED <<loginVars, statusVars, sending, admin, history>>

ChecksReady(s) ==
    /\ Goes(s, "check", IF ready THEN "next" ELSE "idle")
    /\ todo' = [todo EXCEPT ![s] = IF ready THEN Admins ELSE {}]
    /\ sending' = ready
    /\ Generation(s, gen[s])
    /\ UNCHANGED <<loginVars, statusVars, admin, history>>

\* shouldSend
ShouldSend(s, a) == gen[s] = generation /\ a \notin sentAdmins

NextAdmin(s, a) ==
    /\ a \in todo[s]
    /\ Goes(s, "next", IF ShouldSend(s, a) THEN "send" ELSE "next")
    /\ todo' = [todo EXCEPT ![s] = @ \ {a}]
    /\ admin' = [admin EXCEPT ![s] = IF ShouldSend(s, a) THEN {a} ELSE {}]
    /\ UNCHANGED <<loginVars, statusVars, sending, gen, history>>

Deliver(s) ==
    /\ delivered' = delivered \cup {<<a, gen[s]>> : a \in admin[s]}
    /\ doubled' = (doubled \/ \E a \in admin[s] : <<a, gen[s]>> \in delivered)

\* sendBilibiliLoginExpiredAlertToAdmin: without a connection the offline queue may
\* take the message, whose ID -1 reads like a failure here.
SendToAdmin(s) ==
    \/ /\ ready /\ Goes(s, "send", "sent") /\ Deliver(s)
       /\ UNCHANGED <<loginVars, statusVars, sending, alertCallVars>>
    \/ /\ ~ready /\ QueueEnabled /\ Goes(s, "send", "next") /\ Deliver(s)
       /\ admin' = [admin EXCEPT ![s] = {}]
       /\ UNCHANGED <<loginVars, statusVars, sending, gen, todo>>
    \/ /\ ~ready /\ ~QueueEnabled /\ Goes(s, "send", "next")
       /\ admin' = [admin EXCEPT ![s] = {}]
       /\ UNCHANGED <<loginVars, statusVars, sending, gen, todo, history>>
    \/ /\ ready /\ alertFaults < MaxAlertFaults /\ Goes(s, "send", "next")
       /\ alertFaults' = alertFaults + 1
       /\ admin' = [admin EXCEPT ![s] = {}]
       /\ UNCHANGED <<loggedIn, outages, ready, statusVars, sending, gen, todo, history>>

\* markSent
MarkSent(s) ==
    /\ Goes(s, "sent", "next")
    /\ sentAdmins' = IF gen[s] = generation THEN sentAdmins \cup admin[s] ELSE sentAdmins
    /\ admin' = [admin EXCEPT ![s] = {}]
    /\ UNCHANGED <<loginVars, generation, invalidSources, sending, gen, todo, history>>

\* The deferred Store(false).
Returns(s) ==
    /\ todo[s] = {} /\ Goes(s, "next", "idle")
    /\ sending' = FALSE
    /\ Generation(s, gen[s])
    /\ UNCHANGED <<loginVars, statusVars, todo, admin, history>>

-----------------------------------------------------------------------------
Handles(s) ==
    \/ MarkRecovered(s) \/ MarkInvalid(s) \/ Claims(s) \/ ChecksReady(s)
    \/ \E a \in Admins : NextAdmin(s, a)
    \/ SendToAdmin(s) \/ MarkSent(s) \/ Returns(s)

AlertNext ==
    \/ LogsOut \/ LogsIn \/ ReadyChanges
    \/ \E s \in Sources : Asks(s) \/ Handles(s)

\* An answer is handled, and the rounds of fresh go on; a self check need not come.
AlertFairness ==
    /\ \A s \in Sources : WF_alertVars(Handles(s))
    /\ \A s \in Polls : WF_alertVars(Asks(s))

AlertSpec == AlertInit /\ [][AlertNext]_alertVars /\ AlertFairness

-----------------------------------------------------------------------------
(* Properties *)

\* Every variable stays in its range: only the polls are ever invalid themselves.
AlertTypeOK ==
    /\ loggedIn \in BOOLEAN /\ ready \in BOOLEAN /\ sending \in BOOLEAN /\ doubled \in BOOLEAN
    /\ outages \in 0..MaxOutages /\ alertFaults \in 0..MaxAlertFaults
    /\ generation \in Nat /\ invalidSources \subseteq Polls /\ sentAdmins \subseteq Admins
    /\ pc \in [Sources -> {"idle", "valid", "invalid", "claim", "check", "next", "send", "sent"}]
    /\ gen \in [Sources -> 0..generation] /\ todo \in [Sources -> SUBSET Admins]
    /\ admin \in [Sources -> SUBSET Admins]
    /\ \A s \in Sources : Cardinality(admin[s]) = IF pc[s] \in {"send", "sent"} THEN 1 ELSE 0
    /\ delivered \subseteq Admins \X (0..generation)

\* An administrator counts as alerted only if an alert of this very generation has
\* reached him: an old one does not keep the next outage from him.
SentWereAlerted == \A a \in sentAdmins : <<a, generation>> \in delivered

\* In one generation of failures an administrator gets one alert, whichever sources
\* fail at the same time and whatever recovers meanwhile, and only then counts as
\* alerted.  With the offline queue it may be several: a message that the queue takes
\* is taken for one that failed, and sent again.
AlertedOnce == ~doubled /\ SentWereAlerted

\* An outage that lasts is reported to every administrator, once the bot stays
\* connected, though it was not when it began and messages have failed.
OutageIsReported ==
    <>[](~loggedIn) /\ <>[]ready => <>[](\A a \in Admins : <<a, generation>> \in delivered)

\* When the login works again no source stays invalid, so that the next outage is
\* reported afresh.
OutageIsForgotten == <>[](loggedIn /\ ready) => <>[](invalidSources = {})
=============================================================================
