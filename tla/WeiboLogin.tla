------------------------------ MODULE WeiboLogin ------------------------------
(***************************************************************************)
(* The SUB cookie of the Weibo module in login mode (lsp/weibo).  Five       *)
(* goroutines replace the cookies that requests carry: the hourly refresh,   *)
(* the health monitor (ForceFreshCookie), a request that was answered with a *)
(* login page (RefreshSessionCookie), the refresh from an API, and a login   *)
(* by QR code.  All of them read a SUB, make slow requests for the other     *)
(* cookies, and store both; only two of them hold refreshMu meanwhile, so    *)
(* that an older SUB can be stored over a newer one.                         *)
(*                                                                         *)
(* A SUB is the number under which it was issued; 0 is none.  weibo.sub does *)
(* not change in memory: the reload is suppressed after WriteBackConfig.     *)
(***************************************************************************)
EXTENDS Naturals

CONSTANTS
    MaxSubs,      \* bound: SUBs issued
    MaxFailures   \* bound: requests that fail or are answered with a login page

ASSUME WeiboLoginAssumption == MaxSubs \in Nat \ {0} /\ MaxFailures \in Nat

VARIABLES
    config,     \* weibo.sub
    issued,     \* SUBs issued so far, the one the API gives again counted too
    failures,
    runtimeSUB,
    inUse,      \* SUB in visitorCookiesOpt
    healthy,    \* cookieHealthy
    refreshMu,  \* who holds it
    hourly, force, session, refresh, qr \* the goroutines: where they are, and with which SUB

goroutines == <<hourly, force, session, refresh, qr>>
loginVars == <<config, issued, failures, runtimeSUB, inUse, healthy, refreshMu, goroutines>>

Subs == 0..MaxSubs
Idle == [at |-> "idle", sub |-> 0]
At(place, sub) == [at |-> place, sub |-> sub]

LoginInit ==
    /\ config \in {0, 1} /\ issued = 1 /\ failures = 0
    /\ runtimeSUB = 0 /\ inUse = 0 /\ healthy = FALSE /\ refreshMu = "free"
    /\ hourly = Idle /\ force = Idle /\ session = Idle /\ refresh = Idle /\ qr = Idle

\* The module is on; without a SUB it stays off.
Started == runtimeSUB # 0

Fails == failures < MaxFailures /\ failures' = failures + 1

\* The first that is set.
FirstSet(a, b) == IF a # 0 THEN a ELSE b

\* Start: the SUB of weibo.sub, or one from the API or a QR code, which is then in use
\* at once unless its other cookies cannot be had.  The goroutines run from now on.
Starts ==
    /\ ~Started
    /\ runtimeSUB' = 1
    /\ inUse' = 0 \/ (config = 0 /\ inUse' = 1)
    /\ UNCHANGED <<config, issued, failures, healthy, refreshMu, goroutines>>

-----------------------------------------------------------------------------
(* The hourly refresh *)

\* Mutant of HourlyReads: the SUB the process started with.
HourlyReadsFirst ==
    /\ Started /\ hourly.at = "idle" /\ hourly' = At("fetch", 1)
    /\ UNCHANGED <<config, issued, failures, runtimeSUB, inUse, healthy, refreshMu,
                   force, session, refresh, qr>>

HourlyReads ==
    /\ Started /\ hourly.at = "idle" /\ hourly' = At("fetch", runtimeSUB)
    /\ UNCHANGED <<config, issued, failures, runtimeSUB, inUse, healthy, refreshMu,
                   force, session, refresh, qr>>

\* freshCookieOpt, without refreshMu.
HourlyStores ==
    /\ hourly.at = "fetch" /\ hourly' = Idle
    /\ \/ inUse' = hourly.sub /\ UNCHANGED failures
       \/ Fails /\ UNCHANGED inUse
    /\ UNCHANGED <<config, issued, runtimeSUB, healthy, refreshMu, force, session, refresh, qr>>

-----------------------------------------------------------------------------
(* ForceFreshCookie *)

\* The monitor has found the cookies unhealthy, and has the lock: what is in use is kept.
ForceLocks ==
    /\ Started /\ force.at = "idle" /\ ~healthy /\ refreshMu = "free"
    /\ force' = At("fetch", FirstSet(inUse, FirstSet(config, runtimeSUB)))
    /\ refreshMu' = "force"
    /\ UNCHANGED <<config, issued, failures, runtimeSUB, inUse, healthy, hourly, session, refresh, qr>>

ForceStores ==
    /\ force.at = "fetch" /\ force' = Idle /\ refreshMu' = "free"
    /\ \/ inUse' = force.sub /\ healthy' = TRUE /\ UNCHANGED failures
       \/ Fails /\ healthy' = FALSE /\ UNCHANGED inUse
    /\ UNCHANGED <<config, issued, runtimeSUB, hourly, session, refresh, qr>>

-----------------------------------------------------------------------------
(* apiContainerGetIndexCardsLogin, RefreshSessionCookie *)

\* A login page instead of the cards.
RequestFails ==
    /\ Started /\ Fails /\ session.at = "idle" /\ session' = At("lock", 0)
    /\ UNCHANGED <<config, issued, runtimeSUB, inUse, healthy, refreshMu, hourly, force, refresh, qr>>

\* Mutant of SessionLocks: the lock is not waited for.
SessionLocksAnyway ==
    /\ session.at = "lock"
    /\ LET sub == FirstSet(inUse, config) IN
          IF sub = 0
          THEN session' = Idle /\ healthy' = FALSE /\ UNCHANGED refreshMu
          ELSE session' = At("fetch", sub) /\ refreshMu' = "session" /\ UNCHANGED healthy
    /\ UNCHANGED <<config, issued, failures, runtimeSUB, inUse, hourly, force, refresh, qr>>

\* Without a SUB there is nothing to refresh.
SessionLocks ==
    /\ session.at = "lock" /\ refreshMu = "free"
    /\ LET sub == FirstSet(inUse, config) IN
          IF sub = 0
          THEN session' = Idle /\ healthy' = FALSE /\ UNCHANGED refreshMu
          ELSE session' = At("fetch", sub) /\ refreshMu' = "session" /\ UNCHANGED healthy
    /\ UNCHANGED <<config, issued, failures, runtimeSUB, inUse, hourly, force, refresh, qr>>

SessionStores ==
    /\ session.at = "fetch" /\ refreshMu' = "free"
    /\ \/ inUse' = session.sub /\ session' = At("retry", 0) /\ UNCHANGED <<failures, healthy>>
       \/ Fails /\ session' = Idle /\ healthy' = FALSE /\ UNCHANGED inUse
    /\ UNCHANGED <<config, issued, runtimeSUB, hourly, force, refresh, qr>>

\* The second answer; markCookieUnhealthy does not know whose cookies failed.
SessionRetries ==
    /\ session.at = "retry" /\ session' = Idle
    /\ healthy' \in {healthy, FALSE}
    /\ UNCHANGED <<config, issued, failures, runtimeSUB, inUse, refreshMu, hourly, force, refresh, qr>>

-----------------------------------------------------------------------------
(* refreshSubFromAPI *)

\* A SUB the API has given before, or a new one; the one in weibo.sub changes nothing.
RefreshFetches ==
    /\ Started /\ refresh.at = "idle" /\ issued < MaxSubs
    /\ \E sub \in 1..(issued + 1) :
          /\ issued' = issued + 1
          /\ refresh' = IF sub = config THEN Idle ELSE At("store", sub)
    /\ UNCHANGED <<config, failures, runtimeSUB, inUse, healthy, refreshMu,
                   hourly, force, session, qr>>

RefreshStores ==
    /\ refresh.at = "store" /\ refresh' = At("set", refresh.sub)
    /\ inUse' = refresh.sub
    /\ UNCHANGED <<config, issued, failures, runtimeSUB, healthy, refreshMu,
                   hourly, force, session, qr>>

\* setRuntimeSUB
RefreshSets ==
    /\ refresh.at = "set" /\ refresh' = Idle
    /\ runtimeSUB' = refresh.sub
    /\ UNCHANGED <<config, issued, failures, inUse, healthy, refreshMu,
                   hourly, force, session, qr>>

-----------------------------------------------------------------------------
(* A login by QR code *)

\* setRuntimeSUB
QRScanned ==
    /\ Started /\ qr.at = "idle" /\ issued < MaxSubs
    /\ issued' = issued + 1 /\ runtimeSUB' = issued + 1
    /\ qr' = At("fetch", issued + 1)
    /\ UNCHANGED <<config, failures, inUse, healthy, refreshMu, hourly, force, session, refresh>>

\* freshCookieOpt
QRLoads ==
    /\ qr.at = "fetch" /\ qr' = Idle
    /\ \/ inUse' = qr.sub /\ UNCHANGED failures
       \/ Fails /\ UNCHANGED inUse
    /\ UNCHANGED <<config, issued, runtimeSUB, healthy, refreshMu, hourly, force, session, refresh>>

-----------------------------------------------------------------------------
Hourly  == HourlyReads \/ HourlyStores
Forced  == ForceLocks \/ ForceStores
Session == SessionLocks \/ SessionStores \/ SessionRetries
Refresh == RefreshStores \/ RefreshSets

LoginNext == Starts \/ Hourly \/ Forced \/ Session \/ Refresh \/ QRLoads
             \/ RequestFails \/ RefreshFetches \/ QRScanned

\* The tickers tick, requests end, and the lock is passed on to who waits for it.
LoginFairness ==
    /\ WF_loginVars(Hourly) /\ WF_loginVars(Forced) /\ WF_loginVars(Session)
    /\ WF_loginVars(Refresh) /\ WF_loginVars(QRLoads)

LoginSpec == LoginInit /\ [][LoginNext]_loginVars /\ LoginFairness

-----------------------------------------------------------------------------
(* Properties *)

States(places) == [at : places, sub : Subs]

\* Every variable stays in its range, and refreshMu is held by exactly the one goroutine
\* that is in its requests under it.
LoginTypeOK ==
    /\ config \in {0, 1} /\ issued \in 1..MaxSubs /\ failures \in 0..MaxFailures
    /\ runtimeSUB \in Subs /\ inUse \in Subs /\ healthy \in BOOLEAN
    /\ hourly \in States({"idle", "fetch"}) /\ force \in States({"idle", "fetch"})
    /\ session \in States({"idle", "lock", "fetch", "retry"})
    /\ refresh \in States({"idle", "store", "set"}) /\ qr \in States({"idle", "fetch"})
    /\ refreshMu \in {"free", "force", "session"}
    /\ force.at = "fetch" <=> refreshMu = "force"
    /\ session.at = "fetch" <=> refreshMu = "session"

\* However the refreshes overlap, once no more SUBs are issued and requests succeed, the
\* one that was adopted last is in use for good, and the cookies count as healthy:
\* what a slow refresh has overwritten comes back with the next hour.
LoginSettles == <>[](Started => inUse = runtimeSUB /\ healthy)
=============================================================================
