------------------------------ MODULE EmitQueue ------------------------------
(***************************************************************************)
(* EmitQueue (utils/emitQueue.go): the list of subscribed ids of a site,    *)
(* whose core goroutine hands one id at a time to the site's fresher        *)
(* (StateManager.EmitQueueFresher), waiting an interval in between.         *)
(*                                                                         *)
(* The condition variable is modelled as sync.Cond works: Wait first joins  *)
(* the list of waiters and then releases the lock.  Stop takes no lock.     *)
(* What an element holds besides its id (the types to refresh) belongs to   *)
(* the Subscriptions module.                                                *)
(***************************************************************************)
EXTENDS Naturals, Sequences, SequencesExt

CONSTANTS
    Ids,    \* the ids there may be subscriptions for
    None    \* nil

ASSUME EmitQueueAssumption == None \notin Ids

VARIABLES
    eqlist,     \* the ids, oldest first
    eqlistCur,  \* the element to emit next, or None
    core,       \* where core is: see TypeOK
    headE,      \* the element core is emitting, or None
    stopped,    \* stopped, the flag
    stopClosed, \* the channel stop is closed
    stopCall,   \* where Stop is: "no", "store", "close", "broadcast", "wait", "returned"
    fresher,    \* EmitQueueFresher: "ready" to receive, "busy" in doFresh, or "gone"
    turns       \* history: turns[y][x] is how often x was emitted since the last turn of y

listVars == <<eqlist, eqlistCur>>
coreVars == <<core, headE>>
stopVars == <<stopped, stopClosed, stopCall>>
emitVars == <<listVars, coreVars, stopVars, fresher, turns>>

EmitInit ==
    /\ eqlist = <<>> /\ eqlistCur = None
    /\ core = "new" /\ headE = None
    /\ stopped = FALSE /\ stopClosed = FALSE /\ stopCall = "no"
    /\ fresher = "ready"
    /\ turns = [y \in Ids |-> [x \in Ids |-> 0]]

-----------------------------------------------------------------------------
(* Helpers *)

Listed(i) == \E k \in DOMAIN eqlist : eqlist[k] = i

\* list.Element.Next(): the element after i, None for the last one or for an
\* element that is no longer in the list.
NextOf(i) ==
    IF \E k \in 1..(Len(eqlist) - 1) : eqlist[k] = i
    THEN eqlist[(CHOOSE k \in 1..(Len(eqlist) - 1) : eqlist[k] = i) + 1]
    ELSE None

\* The lock of the condition variable is free: core holds it over two steps only
\* between its check of the list and its Wait.
Unlocked == core # "checked"

\* cond.Signal and cond.Broadcast: a waiting core goes back to its check.
Wake == core' = IF core = "waiting" THEN "check" ELSE core

\* i enters the list, or leaves it: its turns and those it waited for start over.
Forget(i) == [y \in Ids |-> [x \in Ids |-> IF i \in {x, y} THEN 0 ELSE turns[y][x]]]

\* i is emitted: it has had its turn, and everything else listed waits on.
Turn(i) == [y \in Ids |-> [x \in Ids |->
              IF y = i THEN 0 ELSE IF x = i /\ Listed(y) THEN turns[y][x] + 1 ELSE turns[y][x]]]

-----------------------------------------------------------------------------
(* Add and Delete (Update changes only the types of an element) *)

\* Mutant of Add: no signal.
AddSilently(i) ==
    /\ Unlocked
    /\ eqlist' = IF Listed(i) THEN eqlist ELSE Append(eqlist, i)
    /\ eqlistCur' = IF Len(eqlist') = 1 THEN eqlist'[1] ELSE eqlistCur
    /\ turns' = IF Listed(i) THEN turns ELSE Forget(i)
    /\ UNCHANGED <<coreVars, stopVars, fresher>>

\* Mutant of Add: a new element is emitted next.
AddNext(i) ==
    /\ Unlocked
    /\ eqlist' = IF Listed(i) THEN eqlist ELSE Append(eqlist, i)
    /\ eqlistCur' = i
    /\ Wake
    /\ turns' = IF Listed(i) THEN turns ELSE Forget(i)
    /\ UNCHANGED <<headE, stopVars, fresher>>

Add(i) ==
    /\ Unlocked
    /\ eqlist' = IF Listed(i) THEN eqlist ELSE Append(eqlist, i)
    /\ IF Len(eqlist') = 1
       THEN eqlistCur' = eqlist'[1] /\ Wake
       ELSE UNCHANGED <<eqlistCur, core>>
    /\ turns' = IF Listed(i) THEN turns ELSE Forget(i)
    /\ UNCHANGED <<headE, stopVars, fresher>>

\* Mutant of Delete: the cursor may be left on the deleted element.
DeleteKeepsCursor(i) ==
    /\ Unlocked
    /\ eqlist' = RemoveFirst(eqlist, i)
    /\ eqlistCur' = IF eqlist' = <<>> THEN None ELSE eqlistCur
    /\ turns' = Forget(i)
    /\ UNCHANGED <<coreVars, stopVars, fresher>>

Delete(i) ==
    /\ Unlocked
    /\ eqlist' = RemoveFirst(eqlist, i)
    /\ eqlistCur' = IF eqlist' = <<>> THEN None
                    ELSE IF eqlistCur = i THEN NextOf(i) ELSE eqlistCur
    /\ turns' = Forget(i)
    /\ UNCHANGED <<coreVars, stopVars, fresher>>

-----------------------------------------------------------------------------
(* core *)

\* The goroutine that Start created runs: wg.Add(1).
CoreStarts ==
    /\ core = "new"
    /\ core' = "check"
    /\ UNCHANGED <<listVars, headE, stopVars, fresher, turns>>

\* With the lock: is there something to emit, or is the queue stopped?
CoreChecks ==
    /\ core = "check"
    /\ core' = IF eqlist = <<>> /\ ~stopped THEN "checked" ELSE "timer"
    /\ UNCHANGED <<listVars, headE, stopVars, fresher, turns>>

\* cond.Wait(): join the waiters, release the lock.
CoreWaits ==
    /\ core = "checked"
    /\ core' = "waiting"
    /\ UNCHANGED <<listVars, headE, stopVars, fresher, turns>>

\* The select after the wait: the timer fired, or (CoreStops) stop is closed.
CoreTimer ==
    /\ core = "timer"
    /\ core' = "take"
    /\ UNCHANGED <<listVars, headE, stopVars, fresher, turns>>

CoreStops ==
    /\ core \in {"timer", "emit"} /\ stopClosed
    /\ core' = "exit" /\ headE' = None
    /\ UNCHANGED <<listVars, stopVars, fresher, turns>>

\* The element at the cursor, or the first one when the cursor ran off the end.
CoreTakes ==
    /\ core = "take"
    /\ \/ /\ eqlist # <<>>
          /\ headE' = IF eqlistCur = None THEN eqlist[1] ELSE eqlistCur
          /\ eqlistCur' = NextOf(headE')
          /\ turns' = Turn(headE')
          /\ core' = "emit"
       \/ /\ eqlist = <<>>
          /\ core' = "check"
          /\ UNCHANGED <<headE, eqlistCur, turns>>
    /\ UNCHANGED <<eqlist, stopVars, fresher>>

CoreEmits ==
    /\ core = "emit" /\ fresher = "ready" /\ stopCall # "returned"
    /\ fresher' = "busy"
    /\ core' = "check" /\ headE' = None
    /\ UNCHANGED <<listVars, stopVars, turns>>

\* A send on emitChan after StateManager.Stop closed it panics.  A core that starts
\* only after wg.Wait (CoreStarts) can get here.
CorePanics ==
    /\ core = "emit" /\ stopCall = "returned"
    /\ core' = "panicked" /\ headE' = None
    /\ UNCHANGED <<listVars, stopVars, fresher, turns>>

FresherDone ==
    /\ fresher = "busy"
    /\ fresher' = "ready"
    /\ UNCHANGED <<listVars, coreVars, stopVars, turns>>

-----------------------------------------------------------------------------
(* Stop, called by StateManager.Stop, which then closes emitChan; it takes no lock *)

StopStep(from, to) == stopCall = from /\ stopCall' = to

StopBegins ==
    /\ StopStep("no", "store")
    /\ UNCHANGED <<listVars, coreVars, stopped, stopClosed, fresher, turns>>

StopStores ==
    /\ StopStep("store", "close") /\ stopped' = TRUE
    /\ UNCHANGED <<listVars, coreVars, stopClosed, fresher, turns>>

StopCloses ==
    /\ StopStep("close", "broadcast") /\ stopClosed' = TRUE
    /\ UNCHANGED <<listVars, coreVars, stopped, fresher, turns>>

StopBroadcasts ==
    /\ StopStep("broadcast", "wait") /\ Wake
    /\ UNCHANGED <<listVars, headE, stopped, stopClosed, fresher, turns>>

\* wg.Wait(): core is done, or has not yet called wg.Add.  The caller then closes
\* emitChan.
StopReturns ==
    /\ StopStep("wait", "returned") /\ core \in {"new", "exit"}
    /\ UNCHANGED <<listVars, coreVars, stopped, stopClosed, fresher, turns>>

\* The fresher finds emitChan closed, or its context cancelled.
FresherEnds ==
    /\ fresher = "ready" /\ stopCall = "returned"
    /\ fresher' = "gone"
    /\ UNCHANGED <<listVars, coreVars, stopVars, turns>>

-----------------------------------------------------------------------------
Core ==
    \/ CoreStarts \/ CoreChecks \/ CoreWaits
    \/ CoreTimer \/ CoreStops \/ CoreTakes
    \/ CoreEmits \/ CorePanics

Fresher == FresherDone \/ FresherEnds

StopWork == StopStores \/ StopCloses \/ StopBroadcasts \/ StopReturns

EmitNext ==
    \/ \E i \in Ids : Add(i) \/ Delete(i)
    \/ Core \/ Fresher
    \/ StopBegins \/ StopWork

\* core, the fresher and Stop run on, and a refresh ends; select picks at random, so
\* it does not pass over a closed stop forever.  Commands (Add, Delete) and the
\* shutdown need never come.
EmitFairness ==
    /\ WF_emitVars(Core) /\ SF_emitVars(CoreStops)
    /\ WF_emitVars(Fresher) /\ WF_emitVars(StopWork)

EmitSpec == EmitInit /\ [][EmitNext]_emitVars /\ EmitFairness

-----------------------------------------------------------------------------
(* Properties *)

\* Every variable stays in its range; an id is in the list once, and the cursor
\* never points to an element that Delete took out.
EmitTypeOK ==
    /\ eqlist \in Seq(Ids)
    /\ \A k, l \in DOMAIN eqlist : eqlist[k] = eqlist[l] => k = l
    /\ eqlistCur \in Ids \cup {None}
    /\ eqlistCur # None => Listed(eqlistCur)
    /\ core \in {"new", "check", "checked", "waiting", "timer", "take", "emit", "exit", "panicked"}
    /\ headE \in Ids \cup {None}
    /\ headE # None <=> core = "emit"
    /\ stopped \in BOOLEAN /\ stopClosed \in BOOLEAN
    /\ stopCall \in {"no", "store", "close", "broadcast", "wait", "returned"}
    /\ fresher \in {"ready", "busy", "gone"}
    /\ turns \in [Ids -> [Ids -> Nat]]

\* Polling goes round: while two ids stay in the list, neither is emitted twice
\* without the other being emitted in between, whatever is added and deleted
\* around them (Add resets the cursor, Delete moves it).
FairTurns == \A x, y \in Ids : turns[y][x] <= 1

\* No id starves and no signal of Add is lost: once the commands leave the list
\* alone, every id in it is emitted again and again until the queue is stopped.
\* (While they do not, it can starve: ids deleted and added again go to the end of
\* the list, which the cursor then need not leave.)
EveryIdEmitted ==
    \A i \in Ids :
        <>[][FALSE]_eqlist /\ <>[](Listed(i) /\ stopCall = "no") => []<>(headE = i)

\* Stop returns, whatever core is doing, but in one case, which the code lets happen:
\* core found the list empty before Stop set the flag and joins the waiters after the
\* broadcast (which takes no lock), so it sleeps for good and Stop waits for it.
StopEnds ==
    stopCall = "store" ~>
        (stopCall = "returned" \/ (stopCall = "wait" /\ core = "waiting" /\ eqlist = <<>>))
=============================================================================
