---------------------------- MODULE BilibiliProofs ----------------------------
(***************************************************************************)
(* Proofs about three parts of Bilibili that share no state.                *)
(*                                                                         *)
(* LoginAlert: the flag sending lets one goroutine at a time into the loop  *)
(* over the administrators; what that one has delivered and not yet booked  *)
(* is all that sentAdmins can lack.                                         *)
(*                                                                         *)
(* Dynamics: a dynamic is marked once, and from then on it is in one place  *)
(* between the feed and a group; the marks of CompactMarkKey are exactly    *)
(* what a group was shown, or is being shown.                               *)
(*                                                                         *)
(* LiveStatus: an event on its way is about a broadcast no group has heard  *)
(* of, and the last of those on their way says what the database says.      *)
(***************************************************************************)
EXTENDS LoginAlert, Dynamics, LiveStatus, FiniteSetTheorems, TLAPS

-----------------------------------------------------------------------------
(* LoginAlert *)

Places == {"idle", "valid", "invalid", "claim", "check", "next", "send", "sent"}

\* The source s holds the flag sending.
Holds(s) == pc[s] \in {"check", "next", "send", "sent"}

OneHolder ==
    /\ \A s \in Sources : Holds(s) => sending
    /\ \A s, t \in Sources : Holds(s) /\ Holds(t) => s = t

\* Whom a goroutine has just told, and whom it has booked, has an alert of its generation.
Booked ==
    /\ \A s \in Sources, a \in Admins : pc[s] = "sent" /\ a \in admin[s] => <<a, gen[s]>> \in delivered
    /\ \A a \in sentAdmins : <<a, generation>> \in delivered

\* Without the offline queue the converse holds: whom a goroutine is about to tell has
\* no alert, and of the present generation no one has but whom it has yet to book.
NotYet ==
    /\ \A s \in Sources, a \in Admins : pc[s] = "send" /\ a \in admin[s] => <<a, gen[s]>> \notin delivered
    /\ \A a \in Admins :
          <<a, generation>> \in delivered =>
             \/ a \in sentAdmins
             \/ \E s \in Sources : pc[s] = "sent" /\ gen[s] = generation /\ a \in admin[s]
    /\ ~doubled

History == Booked /\ (QueueEnabled = FALSE => NotYet)

-----------------------------------------------------------------------------
(* The range of the variables *)

WorldOK ==
    /\ loggedIn \in BOOLEAN
    /\ outages \in 0..MaxOutages /\ alertFaults \in 0..MaxAlertFaults

StatusOK ==
    /\ generation \in Nat /\ invalidSources \subseteq Polls /\ sentAdmins \subseteq Admins
    /\ ready \in BOOLEAN /\ sending \in BOOLEAN /\ doubled \in BOOLEAN
    /\ delivered \subseteq Admins \X (0..generation)

\* A source works on one administrator exactly while it sends and books.
CallOK ==
    /\ pc \in [Sources -> Places]
    /\ gen \in [Sources -> 0..generation] /\ todo \in [Sources -> SUBSET Admins]
    /\ admin \in [Sources -> SUBSET Admins]
    /\ \A s \in Sources :
          /\ pc[s] \in {"send", "sent"} => \E a \in Admins : admin[s] = {a}
          /\ pc[s] \notin {"send", "sent"} => admin[s] = {}

\* The inductive invariant.
AlertIInv == StatusOK /\ CallOK /\ OneHolder /\ History

\* The ranges above are those of TypeOK.
LEMMA AlertIInvIsTyped == WorldOK /\ AlertIInv => AlertTypeOK
  <1> SUFFICES ASSUME WorldOK, AlertIInv PROVE AlertTypeOK
    OBVIOUS
  <1>1. ASSUME NEW s \in Sources
        PROVE  Cardinality(admin[s]) = IF pc[s] \in {"send", "sent"} THEN 1 ELSE 0
    <2>1. CASE pc[s] \in {"send", "sent"}
      <3>1. PICK a \in Admins : admin[s] = {a}
        BY <2>1 DEF AlertIInv, CallOK
      <3> QED
        BY <2>1, <3>1, FS_Singleton
    <2>2. CASE pc[s] \notin {"send", "sent"}
      <3>1. admin[s] = {}
        BY <2>2 DEF AlertIInv, CallOK
      <3> QED
        BY <2>2, <3>1, FS_EmptySet
    <2> QED
      BY <2>1, <2>2
  <1> QED
    BY <1>1 DEF AlertIInv, WorldOK, StatusOK, CallOK, Places, AlertTypeOK

\* At first nobody holds the flag and nobody is told.
LEMMA AlertInitIInv == AlertInit => AlertIInv
  <1> SUFFICES ASSUME AlertInit PROVE AlertIInv
    OBVIOUS
  <1>2. StatusOK
    BY DEF AlertInit, StatusOK
  <1>3. CallOK
    <2>1. 0 \in 0..0
      OBVIOUS
    <2> QED
      BY <2>1 DEF AlertInit, CallOK, Places
  <1>4. OneHolder /\ History
    BY DEF AlertInit, OneHolder, Holds, History, Booked, NotYet
  <1> QED
    BY <1>2, <1>3, <1>4 DEF AlertIInv

-----------------------------------------------------------------------------
(* The steps of a source *)

\* The account, the connection and the bounds on their changes.
LEMMA WorldStep ==
    ASSUME WorldOK, [AlertNext]_alertVars
    PROVE  WorldOK'
  <1> USE LoginAlertAssumption
  <1>1. CASE UNCHANGED loginVars
    BY <1>1 DEF WorldOK, loginVars
  <1>2. CASE LogsOut
    <2>1. outages \in 0..MaxOutages /\ outages < MaxOutages /\ outages' = outages + 1
      BY <1>2 DEF WorldOK, LogsOut
    <2>2. outages' \in 0..MaxOutages
      BY <2>1
    <2>3. loggedIn' = FALSE /\ UNCHANGED <<ready, alertFaults>>
      BY <1>2 DEF LogsOut
    <2> QED
      BY <2>2, <2>3, Zenon DEF WorldOK
  <1>5. CASE LogsIn \/ ReadyChanges
    <2>1. loggedIn' \in BOOLEAN /\ UNCHANGED <<outages, alertFaults>>
      BY <1>5 DEF WorldOK, LogsIn, ReadyChanges
    <2> QED
      BY <2>1 DEF WorldOK
  <1>3. ASSUME NEW s \in Sources, SendToAdmin(s) PROVE WorldOK'
    <2>1. CASE UNCHANGED loginVars
      BY <1>1, <2>1
    <2>2. CASE /\ alertFaults < MaxAlertFaults /\ alertFaults' = alertFaults + 1
               /\ UNCHANGED <<loggedIn, outages, ready>>
      BY <2>2 DEF WorldOK
    <2> QED
      BY <1>3, <2>1, <2>2 DEF SendToAdmin
  <1>4. ASSUME NEW s \in Sources, Asks(s) \/ (Handles(s) /\ ~SendToAdmin(s)) PROVE WorldOK'
    <2>1. UNCHANGED loginVars
      BY <1>4 DEF Asks, Handles, MarkRecovered, MarkInvalid, Claims, ChecksReady, NextAdmin,
                  MarkSent, Returns
    <2> QED
      BY <1>1, <2>1
  <1> QED
    BY <1>1, <1>2, <1>3, <1>4, <1>5 DEF AlertNext, alertVars

\* One goroutine at a time holds the flag.
LEMMA HolderStep ==
    ASSUME AlertIInv, [AlertNext]_alertVars
    PROVE  OneHolder'
  <1>1. pc \in [Sources -> Places] /\ OneHolder /\ sending \in BOOLEAN
    BY DEF AlertIInv, CallOK, StatusOK
  <1>2. CASE UNCHANGED <<pc, sending>>
    BY <1>1, <1>2 DEF OneHolder, Holds
  <1>3. ASSUME NEW s \in Sources, Asks(s) \/ MarkRecovered(s) \/ MarkInvalid(s) PROVE OneHolder'
    <2>1. /\ sending' = sending /\ \A t \in Sources \ {s} : pc'[t] = pc[t]
          /\ pc'[s] \in {"idle", "valid", "invalid", "claim"}
      BY <1>1, <1>3 DEF Asks, MarkRecovered, MarkInvalid, Goes
    <2> QED
      BY <1>1, <2>1 DEF OneHolder, Holds
  <1>4. ASSUME NEW s \in Sources, Claims(s) PROVE OneHolder'
    <2>1. /\ sending' = TRUE /\ \A t \in Sources \ {s} : pc'[t] = pc[t]
          /\ sending => pc'[s] = "idle"
      BY <1>1, <1>4 DEF Claims, Goes
    <2> QED
      BY <1>1, <2>1 DEF OneHolder, Holds
  <1>5. ASSUME NEW s \in Sources, ChecksReady(s) \/ Returns(s) PROVE OneHolder'
    <2>1. /\ Holds(s) /\ \A t \in Sources \ {s} : pc'[t] = pc[t]
          /\ pc'[s] = "idle" \/ (pc'[s] = "next" /\ sending' = TRUE)
      BY <1>1, <1>5 DEF ChecksReady, Returns, Goes, Holds
    <2> QED
      BY <1>1, <2>1 DEF OneHolder, Holds
  <1>6. ASSUME NEW s \in Sources, NEW a \in Admins, NextAdmin(s, a) \/ SendToAdmin(s) \/ MarkSent(s)
        PROVE  OneHolder'
    <2>1. Holds(s) /\ sending' = sending /\ \A t \in Sources \ {s} : pc'[t] = pc[t]
      BY <1>1, <1>6 DEF NextAdmin, SendToAdmin, MarkSent, Goes, Holds
    <2> QED
      BY <1>1, <2>1 DEF OneHolder, Holds
  <1>7. ASSUME NEW s \in Sources, SendToAdmin(s) \/ MarkSent(s) PROVE OneHolder'
    <2>1. Holds(s) /\ sending' = sending /\ \A t \in Sources \ {s} : pc'[t] = pc[t]
      BY <1>1, <1>7 DEF SendToAdmin, MarkSent, Goes, Holds
    <2> QED
      BY <1>1, <2>1 DEF OneHolder, Holds
  <1>8. CASE LogsOut \/ LogsIn \/ ReadyChanges \/ UNCHANGED alertVars
    <2>1. UNCHANGED <<pc, sending>>
      BY <1>8 DEF LogsOut, LogsIn, ReadyChanges, alertVars
    <2> QED
      BY <1>2, <2>1
  <1> QED
    BY <1>3, <1>4, <1>5, <1>6, <1>7, <1>8 DEF AlertNext, Handles

\* What is left of the last generation when a new one begins.
LEMMA Renewed ==
    ASSUME AlertIInv, NewGeneration, UNCHANGED <<ready, sending, gen, todo, admin, doubled>>,
           NEW s \in Sources, Goes(s, "valid", "idle"), invalidSources' \subseteq Polls
    PROVE  StatusOK' /\ CallOK' /\ History'
  <1>1. /\ StatusOK /\ CallOK /\ OneHolder /\ History
        /\ generation \in Nat /\ generation' = generation + 1 /\ sentAdmins' = {}
        /\ delivered \subseteq Admins \X (0..generation) /\ delivered' \subseteq delivered
    BY DEF AlertIInv, StatusOK, NewGeneration
  <1>2. 0..generation \subseteq 0..generation' /\ generation' \in Nat
        /\ \A g \in 0..generation : g # generation'
    BY <1>1
  <1>3. StatusOK'
    BY <1>1, <1>2 DEF StatusOK
  <1>4. /\ pc' \in [Sources -> Places] /\ pc[s] = "valid" /\ pc'[s] = "idle"
        /\ \A t \in Sources \ {s} : pc'[t] = pc[t]
    BY <1>1 DEF CallOK, Goes, Places
  <1>5. CallOK'
    <2>1. gen \in [Sources -> 0..generation']
      BY <1>1, <1>2 DEF CallOK
    <2>2. ASSUME NEW t \in Sources
          PROVE  /\ pc'[t] \in {"send", "sent"} => \E a \in Admins : admin[t] = {a}
                 /\ pc'[t] \notin {"send", "sent"} => admin[t] = {}
      BY <1>1, <1>4 DEF CallOK
    <2> QED
      BY <1>1, <1>4, <2>1, <2>2 DEF CallOK
  <1>6. ASSUME NEW t \in Sources, NEW a \in Admins
        PROVE  /\ QueueEnabled = FALSE /\ pc'[t] = "send" /\ a \in admin[t] => <<a, gen[t]>> \notin delivered'
               /\ pc'[t] = "sent" /\ a \in admin[t] => <<a, gen[t]>> \in delivered'
    <2>1. pc'[t] \in {"send", "sent"} => pc'[t] = pc[t]
      BY <1>4
    <2> QED
      BY <1>1, <2>1 DEF History, Booked, NotYet, NewGeneration
  <1>7. \A a \in Admins : <<a, generation'>> \notin delivered'
    BY <1>1, <1>2
  <1> QED
    BY <1>1, <1>3, <1>5, <1>6, <1>7 DEF History, Booked, NotYet

\* A source that asks, gives notice, takes the flag or returns it tells nobody.
LEMMA NoAlert ==
    ASSUME AlertIInv, NEW s \in Sources, Asks(s) \/ MarkInvalid(s) \/ Claims(s) \/ ChecksReady(s) \/ Returns(s)
    PROVE  StatusOK' /\ CallOK' /\ History'
  <1>1. StatusOK /\ CallOK /\ OneHolder /\ History /\ generation \in Nat /\ pc \in [Sources -> Places]
    BY DEF AlertIInv, StatusOK, CallOK
  <1>2. /\ UNCHANGED <<ready, generation, sentAdmins, admin, delivered, doubled>>
        /\ pc' \in [Sources -> Places] /\ \A t \in Sources \ {s} : pc'[t] = pc[t]
        /\ pc[s] \notin {"send", "sent"} /\ pc'[s] \notin {"send", "sent"}
    BY <1>1 DEF Asks, MarkInvalid, Claims, ChecksReady, Returns, Goes, Places, history, statusVars,
                alertCallVars, loginVars
  <1>3. gen' \in [Sources -> 0..generation] /\ \A t \in Sources \ {s} : gen'[t] = gen[t]
    <2>1. gen' = gen \/ \E g \in 0..generation : gen' = [gen EXCEPT ![s] = g]
      <3>1. 0 \in 0..generation /\ generation \in 0..generation /\ gen[s] \in 0..generation
        BY <1>1 DEF CallOK
      <3>2. CASE Asks(s)
        BY <3>2 DEF Asks, alertCallVars
      <3>3. ASSUME NEW g \in 0..generation, Generation(s, g)
            PROVE  \E k \in 0..generation : gen' = [gen EXCEPT ![s] = k]
        BY <3>1, <3>3 DEF Generation
      <3> QED
        BY <3>1, <3>2, <3>3 DEF MarkInvalid, Claims, ChecksReady, Returns
    <2> QED
      BY <1>1, <2>1 DEF CallOK
  <1>4. todo' \in [Sources -> SUBSET Admins]
    <2>1. todo' = todo \/ \E A \in SUBSET Admins : todo' = [todo EXCEPT ![s] = A]
      <3>1. CASE ChecksReady(s)
        <4>1. (IF ready THEN Admins ELSE {}) \in SUBSET Admins
          OBVIOUS
        <4> QED
          BY <3>1, <4>1 DEF ChecksReady
      <3> QED
        BY <3>1 DEF Asks, MarkInvalid, Claims, Returns, alertCallVars
    <2> QED
      BY <1>1, <2>1 DEF CallOK
  <1>5. sending' \in BOOLEAN /\ invalidSources' \subseteq Polls
    <2>1. CASE MarkInvalid(s)
      BY <1>1, <2>1 DEF MarkInvalid, StatusOK, Sources
    <2> QED
      BY <1>1, <2>1 DEF StatusOK, Asks, Claims, ChecksReady, Returns, statusVars
  <1>6. CallOK'
    BY <1>1, <1>2, <1>3, <1>4 DEF CallOK
  <1>7. StatusOK'
    BY <1>1, <1>2, <1>5 DEF StatusOK
  <1>8. History'
    <2>1. \A t \in Sources : pc'[t] \in {"send", "sent"} \/ pc[t] \in {"send", "sent"} =>
             t # s /\ pc'[t] = pc[t] /\ gen'[t] = gen[t]
      BY <1>2, <1>3
    <2> QED
      BY <1>1, <1>2, <2>1 DEF History, Booked, NotYet
  <1> QED
    BY <1>6, <1>7, <1>8

\* The next administrator: one who is alerted of this generation is passed over, and
\* the one goroutine that holds the flag has nothing to book.
LEMMA Chooses ==
    ASSUME AlertIInv, NEW s \in Sources, NEW a \in Admins, NextAdmin(s, a)
    PROVE  StatusOK' /\ CallOK' /\ History'
  <1>1. StatusOK /\ CallOK /\ OneHolder /\ History /\ generation \in Nat /\ pc \in [Sources -> Places]
    BY DEF AlertIInv, StatusOK, CallOK
  <1>2. /\ UNCHANGED <<ready, statusVars, sending, gen, history>> /\ pc[s] = "next"
        /\ pc' \in [Sources -> Places] /\ \A t \in Sources \ {s} : pc'[t] = pc[t]
        /\ pc'[s] = IF ShouldSend(s, a) THEN "send" ELSE "next"
    BY <1>1 DEF NextAdmin, Goes, Places, loginVars
  <1>3. /\ todo' \in [Sources -> SUBSET Admins] /\ admin' \in [Sources -> SUBSET Admins]
        /\ \A t \in Sources \ {s} : admin'[t] = admin[t]
        /\ admin'[s] = IF ShouldSend(s, a) THEN {a} ELSE {}
    BY <1>1 DEF NextAdmin, CallOK
  <1>4. StatusOK'
    BY <1>1, <1>2 DEF StatusOK, statusVars, history
  <1>5. CallOK'
    <2>1. generation' = generation /\ gen' = gen
      BY <1>2 DEF statusVars
    <2>2. ASSUME NEW t \in Sources
          PROVE  /\ pc'[t] \in {"send", "sent"} => \E b \in Admins : admin'[t] = {b}
                 /\ pc'[t] \notin {"send", "sent"} => admin'[t] = {}
      BY <1>1, <1>2, <1>3 DEF CallOK
    <2> QED
      BY <1>1, <1>2, <1>3, <2>1, <2>2 DEF CallOK
  <1>6. QueueEnabled = FALSE /\ ShouldSend(s, a) => <<a, gen[s]>> \notin delivered
    <2> SUFFICES ASSUME QueueEnabled = FALSE, gen[s] = generation, a \notin sentAdmins,
                        <<a, generation>> \in delivered
                 PROVE  FALSE
      BY DEF ShouldSend
    <2>1. PICK t \in Sources : pc[t] = "sent"
      BY <1>1 DEF History, Booked, NotYet
    <2> QED
      BY <1>1, <1>2, <2>1 DEF OneHolder, Holds
  <1>7. ASSUME NEW t \in Sources, NEW b \in Admins
        PROVE  /\ QueueEnabled = FALSE /\ pc'[t] = "send" /\ b \in admin'[t] =>
                     <<b, gen[t]>> \notin delivered
               /\ pc'[t] = "sent" /\ b \in admin'[t] => <<b, gen[t]>> \in delivered
    <2>1. CASE t = s
      BY <1>2, <1>3, <1>6, <2>1
    <2>2. CASE t # s
      BY <1>1, <1>2, <1>3, <2>2 DEF History, Booked, NotYet
    <2> QED
      BY <2>1, <2>2
  <1>8. ASSUME NEW t \in Sources, pc[t] = "sent" PROVE pc'[t] = "sent" /\ admin'[t] = admin[t]
    BY <1>2, <1>3, <1>8
  <1>9. History'
    BY <1>1, <1>2, <1>7, <1>8 DEF History, Booked, NotYet, statusVars, history
  <1> QED
    BY <1>4, <1>5, <1>9

\* A message: it is delivered and has to be booked, or it is not and nothing is booked.
LEMMA SendsOne ==
    ASSUME AlertIInv, NEW s \in Sources, SendToAdmin(s)
    PROVE  StatusOK' /\ CallOK' /\ History'
  <1>1. StatusOK /\ CallOK /\ OneHolder /\ History /\ generation \in Nat /\ pc \in [Sources -> Places]
    BY DEF AlertIInv, StatusOK, CallOK
  <1>2. /\ UNCHANGED <<ready, statusVars, sending, gen, todo>> /\ pc[s] = "send"
        /\ pc' \in [Sources -> Places] /\ \A t \in Sources \ {s} : pc'[t] = pc[t]
        /\ \/ pc'[s] = "sent" /\ Deliver(s) /\ admin' = admin
           \/ /\ pc'[s] = "next" /\ admin' = [admin EXCEPT ![s] = {}]
              /\ UNCHANGED history \/ (QueueEnabled # FALSE /\ Deliver(s))
    BY <1>1 DEF SendToAdmin, Goes, Places, loginVars, alertCallVars
  <1>3. PICK a \in Admins : admin[s] = {a}
    BY <1>1, <1>2 DEF CallOK
  <1>4. /\ gen[s] \in 0..generation
        /\ QueueEnabled = FALSE => <<a, gen[s]>> \notin delivered
    BY <1>1, <1>2, <1>3 DEF History, NotYet, CallOK
  <1>5. /\ admin' \in [Sources -> SUBSET Admins] /\ \A t \in Sources \ {s} : admin'[t] = admin[t]
        /\ admin'[s] = IF pc'[s] = "sent" THEN {a} ELSE {}
    BY <1>1, <1>2, <1>3 DEF CallOK
  <1>6. CallOK'
    <2>1. ASSUME NEW t \in Sources
          PROVE  /\ pc'[t] \in {"send", "sent"} => \E b \in Admins : admin'[t] = {b}
                 /\ pc'[t] \notin {"send", "sent"} => admin'[t] = {}
      BY <1>1, <1>2, <1>5 DEF CallOK
    <2> QED
      BY <1>1, <1>2, <1>5, <2>1 DEF CallOK, statusVars
  <1>7. /\ doubled' \in BOOLEAN
        /\ delivered' = delivered \/ delivered' = delivered \cup {<<a, gen[s]>>}
        /\ pc'[s] = "sent" => <<a, gen[s]>> \in delivered'
        /\ QueueEnabled = FALSE => /\ doubled' = doubled
                                   /\ pc'[s] # "sent" => delivered' = delivered
    <2>1. CASE UNCHANGED history /\ pc'[s] = "next"
      BY <1>1, <2>1 DEF StatusOK, history
    <2>2. CASE Deliver(s)
      <3>1. delivered' = delivered \cup {<<a, gen[s]>>}
        BY <1>3, <2>2 DEF Deliver
      <3>2. doubled' = (doubled \/ <<a, gen[s]>> \in delivered)
        BY <1>3, <2>2 DEF Deliver
      <3>3. doubled \in BOOLEAN
        BY <1>1 DEF StatusOK
      <3>4. doubled' \in BOOLEAN
        BY <3>2, Zenon
      <3>5. QueueEnabled = FALSE => doubled' = doubled
        BY <1>4, <3>2, <3>3
      <3> QED
        BY <1>2, <3>1, <3>4, <3>5 DEF history
    <2> QED
      BY <1>2, <2>1, <2>2
  <1>8. StatusOK'
    BY <1>1, <1>2, <1>4, <1>7 DEF StatusOK, statusVars
  <1>9. Booked'
    <2>1. ASSUME NEW t \in Sources, NEW b \in Admins, pc'[t] = "sent", b \in admin'[t]
          PROVE  <<b, gen[t]>> \in delivered'
      <3>1. CASE t = s
        BY <1>5, <1>7, <2>1, <3>1
      <3>2. CASE t # s
        BY <1>1, <1>2, <1>5, <1>7, <2>1, <3>2 DEF History, Booked
      <3> QED
        BY <3>1, <3>2
    <2>2. \A b \in sentAdmins : <<b, generation>> \in delivered'
      BY <1>1, <1>7 DEF History, Booked
    <2> QED
      BY <1>2, <2>1, <2>2 DEF Booked, statusVars
  <1>10. ASSUME QueueEnabled = FALSE PROVE NotYet'
    <2>1. ASSUME NEW t \in Sources PROVE pc'[t] # "send"
      BY <1>1, <1>2 DEF OneHolder, Holds
    <2>2. ASSUME NEW b \in Admins, <<b, generation>> \in delivered', b \notin sentAdmins
          PROVE  \E t \in Sources : pc'[t] = "sent" /\ gen[t] = generation /\ b \in admin'[t]
      <3>1. CASE <<b, generation>> \in delivered
        <4>1. PICK t \in Sources : pc[t] = "sent" /\ gen[t] = generation /\ b \in admin[t]
          BY <1>1, <1>10, <2>2, <3>1 DEF History, NotYet
        <4> QED
          BY <1>2, <1>5, <4>1
      <3>2. CASE <<b, generation>> \notin delivered
        <4>1. b = a /\ gen[s] = generation /\ pc'[s] = "sent"
          BY <1>7, <1>10, <2>2, <3>2
        <4> QED
          BY <1>5, <4>1
      <3> QED
        BY <3>1, <3>2
    <2>3. ~doubled'
      BY <1>1, <1>7, <1>10 DEF History, NotYet
    <2>4. UNCHANGED <<generation, gen, sentAdmins>>
      BY <1>2 DEF statusVars
    <2> QED
      BY <2>1, <2>2, <2>3, <2>4 DEF NotYet
  <1> QED
    BY <1>6, <1>8, <1>9, <1>10 DEF History

\* The alert is booked, if no new generation has begun since.
LEMMA Books ==
    ASSUME AlertIInv, NEW s \in Sources, MarkSent(s)
    PROVE  StatusOK' /\ CallOK' /\ History'
  <1>1. StatusOK /\ CallOK /\ OneHolder /\ History /\ generation \in Nat /\ pc \in [Sources -> Places]
    BY DEF AlertIInv, StatusOK, CallOK
  <1>2. /\ UNCHANGED <<ready, generation, invalidSources, sending, gen, todo, history>>
        /\ pc[s] = "sent" /\ pc'[s] = "next"
        /\ pc' \in [Sources -> Places] /\ \A t \in Sources \ {s} : pc'[t] = pc[t]
        /\ sentAdmins' = IF gen[s] = generation THEN sentAdmins \cup admin[s] ELSE sentAdmins
    BY <1>1 DEF MarkSent, Goes, Places, loginVars
  <1>3. /\ admin' \in [Sources -> SUBSET Admins] /\ admin'[s] = {} /\ admin[s] \subseteq Admins
        /\ \A t \in Sources \ {s} : admin'[t] = admin[t]
    BY <1>1 DEF MarkSent, CallOK
  <1>4. StatusOK'
    BY <1>1, <1>2, <1>3 DEF StatusOK, history
  <1>5. CallOK'
    <2>1. ASSUME NEW t \in Sources
          PROVE  /\ pc'[t] \in {"send", "sent"} => \E b \in Admins : admin'[t] = {b}
                 /\ pc'[t] \notin {"send", "sent"} => admin'[t] = {}
      BY <1>1, <1>2, <1>3 DEF CallOK
    <2> QED
      BY <1>1, <1>2, <1>3, <2>1 DEF CallOK
  <1>6. ASSUME NEW t \in Sources, NEW b \in Admins
        PROVE  /\ QueueEnabled = FALSE /\ pc'[t] = "send" /\ b \in admin'[t] =>
                     <<b, gen[t]>> \notin delivered
               /\ pc'[t] = "sent" /\ b \in admin'[t] => <<b, gen[t]>> \in delivered
    BY <1>1, <1>2, <1>3 DEF History, Booked, NotYet
  <1>7. ASSUME NEW b \in Admins
        PROVE  /\ b \in sentAdmins' => <<b, generation>> \in delivered
               /\ QueueEnabled = FALSE /\ <<b, generation>> \in delivered =>
                     \/ b \in sentAdmins'
                     \/ \E t \in Sources : pc'[t] = "sent" /\ gen[t] = generation /\ b \in admin'[t]
    <2>1. b \in sentAdmins' => <<b, generation>> \in delivered
      BY <1>1, <1>2 DEF History, Booked, NotYet
    <2>2. ASSUME QueueEnabled = FALSE, <<b, generation>> \in delivered, b \notin sentAdmins'
          PROVE  \E t \in Sources : pc'[t] = "sent" /\ gen[t] = generation /\ b \in admin'[t]
      <3>1. PICK t \in Sources : pc[t] = "sent" /\ gen[t] = generation /\ b \in admin[t]
        BY <1>1, <1>2, <2>2 DEF History, Booked, NotYet
      <3>2. t # s
        BY <1>2, <2>2, <3>1
      <3> QED
        BY <1>2, <1>3, <3>1, <3>2
    <2> QED
      BY <2>1, <2>2
  <1>8. History'
    BY <1>1, <1>2, <1>4, <1>6, <1>7 DEF StatusOK, History, Booked, NotYet, history
  <1> QED
    BY <1>4, <1>5, <1>8

\* markRecovered: a source is no longer invalid, and perhaps a new generation begins.
LEMMA Recovers ==
    ASSUME AlertIInv, NEW s \in Sources, MarkRecovered(s)
    PROVE  StatusOK' /\ CallOK' /\ History'
  <1>1. StatusOK /\ CallOK /\ OneHolder /\ History /\ generation \in Nat /\ pc \in [Sources -> Places]
    BY DEF AlertIInv, StatusOK, CallOK
  <1>2. /\ invalidSources' \subseteq Polls /\ Goes(s, "valid", "idle")
        /\ UNCHANGED <<ready, sending, gen, todo, admin, doubled>>
    BY <1>1 DEF MarkRecovered, StatusOK, loginVars, alertCallVars
  <1>3. CASE NewGeneration
    BY <1>2, <1>3, Renewed
  <1>4. CASE UNCHANGED <<generation, sentAdmins, delivered>>
    <2>1. /\ pc' \in [Sources -> Places] /\ pc[s] = "valid" /\ pc'[s] = "idle"
          /\ \A t \in Sources \ {s} : pc'[t] = pc[t]
      BY <1>1, <1>2 DEF Goes, Places
    <2>2. StatusOK'
      BY <1>1, <1>2, <1>4 DEF StatusOK
    <2>3. \A t \in Sources : pc'[t] \in {"send", "sent"} \/ pc[t] \in {"send", "sent"} => pc'[t] = pc[t]
      BY <2>1
    <2>4. CallOK'
      <3>1. ASSUME NEW t \in Sources
            PROVE  /\ pc'[t] \in {"send", "sent"} => \E b \in Admins : admin[t] = {b}
                   /\ pc'[t] \notin {"send", "sent"} => admin[t] = {}
        BY <1>1, <2>3 DEF CallOK
      <3> QED
        BY <1>1, <1>2, <1>4, <2>1, <3>1 DEF CallOK
    <2>5. History'
      BY <1>1, <1>2, <1>4, <2>3 DEF History, Booked, NotYet
    <2> QED
      BY <2>2, <2>4, <2>5
  <1> QED
    BY <1>3, <1>4 DEF MarkRecovered

-----------------------------------------------------------------------------
(* The invariant *)

\* Every step keeps the invariant.
LEMMA AlertStepIInv == AlertIInv /\ [AlertNext]_alertVars => AlertIInv'
  <1> SUFFICES ASSUME AlertIInv, [AlertNext]_alertVars PROVE AlertIInv'
    OBVIOUS
  <1>1. OneHolder'
    BY HolderStep
  <1>2. ASSUME NEW s \in Sources, Asks(s) \/ Handles(s) PROVE StatusOK' /\ CallOK' /\ History'
    BY <1>2, NoAlert, Chooses, SendsOne, Books, Recovers DEF Handles
  <1>3. CASE LogsOut \/ LogsIn \/ ReadyChanges \/ UNCHANGED alertVars
    <2>1. /\ UNCHANGED <<statusVars, sending, pc, alertCallVars, history>>
          /\ ready' \in BOOLEAN
      BY <1>3, Zenon DEF LogsOut, LogsIn, ReadyChanges, alertVars, loginVars, AlertIInv, StatusOK
    <2>2. StatusOK'
      <3>1. UNCHANGED <<generation, invalidSources, sentAdmins, sending, delivered, doubled>>
        BY <2>1 DEF statusVars, history
      <3> QED
        BY <2>1, <3>1, Zenon DEF AlertIInv, StatusOK
    <2>3. CallOK'
      BY <2>1 DEF AlertIInv, CallOK, statusVars, alertCallVars
    <2>4. History'
      BY <2>1 DEF AlertIInv, History, Booked, NotYet, statusVars, alertCallVars, history
    <2> QED
      BY <1>1, <2>2, <2>3, <2>4 DEF AlertIInv
  <1> QED
    BY <1>1, <1>2, <1>3 DEF AlertNext, AlertIInv

-----------------------------------------------------------------------------
(* Theorems *)

\* Whatever the number of administrators, outages and failed messages, the invariant holds.
THEOREM AlertInductive == AlertSpec => []AlertIInv
  BY AlertInitIInv, AlertStepIInv, PTL DEF AlertSpec

\* Every variable stays in its range: a goroutine that is sending has one administrator
\* at hand, and only the polls are invalid themselves.
THEOREM AlertTypeCorrect == AlertSpec => []AlertTypeOK
  <1>1. AlertInit => WorldOK
    BY LoginAlertAssumption DEF AlertInit, WorldOK
  <1>2. WorldOK /\ [AlertNext]_alertVars => WorldOK'
    BY WorldStep
  <1>3. AlertSpec => []WorldOK
    BY <1>1, <1>2, PTL DEF AlertSpec
  <1> QED
    BY <1>3, AlertInductive, AlertIInvIsTyped, PTL

\* In one generation of failures an administrator gets one alert, whichever sources fail
\* at the same time and whatever recovers meanwhile, as long as no offline queue takes
\* messages that notifyBilibiliLoginExpired counts as failed.
THEOREM AlertsOnce == ASSUME QueueEnabled = FALSE PROVE AlertSpec => []AlertedOnce
  <1>1. AlertIInv => AlertedOnce
    BY DEF AlertIInv, History, Booked, NotYet, AlertedOnce, SentWereAlerted
  <1> QED
    BY <1>1, AlertInductive, PTL

\* An alert of an old generation never keeps an administrator from hearing of the next
\* outage.
THEOREM SentAreAlerted == AlertSpec => []SentWereAlerted
  <1>1. AlertIInv => SentWereAlerted
    BY DEF AlertIInv, History, Booked, SentWereAlerted
  <1> QED
    BY <1>1, AlertInductive, PTL

-----------------------------------------------------------------------------
(* Dynamics *)

\* What a group has got, or is getting.
Reached(g) ==
    {p \in Posts : toldNews[g][p] # <<>>} \cup {m.post : m \in {x \in sendingNews : x.group = g}}

\* The dynamics a round has found and not yet handed out.
Waiting == Range(cards) \cup Range(newsChan)

\* A dynamic is marked once it is found, and is then in one place.
OnePlace ==
    /\ Range(page) \subseteq 1..Len(posts) /\ marked \subseteq 1..Len(posts)
    /\ IsInjective(cards) /\ IsInjective(newsChan) /\ Range(cards) \cap Range(newsChan) = {}
    /\ Waiting \subseteq marked
    /\ \A g \in NewsGroups :
          /\ IsInjective(inbox[g])
          /\ Range(inbox[g]) \cup Reached(g) \subseteq marked
          /\ Range(inbox[g]) \cap (Waiting \cup Reached(g)) = {}
          /\ Waiting \cap Reached(g) = {}

\* A message is under way once, to a group that has not got the dynamic.
OneMessage ==
    /\ \A m \in sendingNews : toldNews[m.group][m.post] = <<>>
    /\ \A m, n \in sendingNews : m.group = n.group /\ m.post = n.post => m = n
    /\ \A g \in NewsGroups, p \in Posts : toldNews[g][p] \in {<<>>} \cup {<<f>> : f \in Forms}

\* g has got p in the form f, or is getting it.
Gets(g, p, f) == toldNews[g][p] = <<f>> \/ Message(g, p, f) \in sendingNews

\* What g was shown, or was to be shown, of the thing k.
Shown(g, k) ==
    \E q \in 1..Len(posts) : Key(q) = k /\ (Gets(g, q, "full") \/ <<g, q>> \in lost)
Quotable(g, k) ==
    \E q \in 1..Len(posts) : Key(q) = k /\ toldNews[g][q] = <<"full">>

\* The marks tell what has been shown, and what is shown is marked.
Explained ==
    /\ \A g \in NewsGroups, k \in Posts : <<g, k>> \in compacted => Shown(g, k)
    /\ \A g \in NewsGroups, k \in Posts : <<g, k>> \in notifyMsg => Quotable(g, k)
    /\ \A g \in NewsGroups, p \in 1..Len(posts), f \in Forms :
          Gets(g, p, f) => <<g, Key(p)>> \in compacted
    /\ \A g \in NewsGroups, p \in 1..Len(posts) : Gets(g, p, "quote") => <<g, Key(p)>> \in notifyMsg

\* The inductive invariant of Dynamics.
DynamicsIInv == DynamicsTypeOK /\ OnePlace /\ OneMessage /\ Explained /\ FullOnce
-----------------------------------------------------------------------------
(* What the variables may hold *)

\* The bounds are naturals, and nobody is told anything at first.
LEMMA PostTypes ==
    /\ FeedSize \in Nat /\ MaxCards \in Nat /\ MaxPosts \in Nat /\ MaxDynamicFaults \in Nat
    /\ Posts = 1..MaxPosts /\ NeverTold \in [Posts -> Seq(Forms)]
  BY DynamicsAssumption DEF Posts, NeverTold

\* At first every variable is in its range.
LEMMA DynamicsInitTypes == DynamicsInit => DynamicsTypeOK
  <1> SUFFICES ASSUME DynamicsInit PROVE DynamicsTypeOK
    OBVIOUS
  <1>1. /\ posts = <<>> /\ page = <<>> /\ cards = <<>> /\ newsChan = <<>> /\ firstTs = <<>>
        /\ inbox = [g \in NewsGroups |-> <<>>] /\ toldNews = [g \in NewsGroups |-> NeverTold]
    BY DEF DynamicsInit
  <1>2. /\ posts \in Seq([key : Posts, compacts : BOOLEAN]) /\ Len(posts) = 0
        /\ page \in Seq(Posts) /\ cards \in Seq(Posts) /\ newsChan \in Seq(Posts) /\ Len(newsChan) = 0
        /\ inbox \in [NewsGroups -> Seq(Posts)]
    BY <1>1
  <1>3. toldNews \in [NewsGroups -> [Posts -> Seq(Forms)]]
    BY <1>1, PostTypes
  <1>4. /\ dynamicFaults = 0 /\ onlyOnline \in BOOLEAN /\ startTs = 1 /\ followers = {} /\ known = FALSE
        /\ marked = {} /\ fresh = "idle" /\ sendingNews = {} /\ compacted = {} /\ notifyMsg = {}
        /\ addingNews = [g \in NewsGroups |-> "no"] /\ since = [g \in NewsGroups |-> 0] /\ lost = {}
    BY DEF DynamicsInit
  <1>5. /\ Len(posts) <= MaxPosts /\ Len(newsChan) <= MaxCards
        /\ dynamicFaults \in 0..MaxDynamicFaults /\ startTs \in 1..(MaxPosts + 1)
    BY <1>2, <1>4, PostTypes
  <1>6. since \in [NewsGroups -> 0..MaxPosts]
    BY <1>4, PostTypes
  <1> QED
    BY <1>1, <1>2, <1>3, <1>4, <1>5, <1>6 DEF DynamicsTypeOK

\* The faults stay within their bound.
LEMMA DynamicsFaultTypes ==
  ASSUME DynamicsTypeOK, DynamicsFault \/ UNCHANGED dynamicFaults
  PROVE  dynamicFaults' \in 0..MaxDynamicFaults
  <1>1. dynamicFaults \in 0..MaxDynamicFaults
    BY DEF DynamicsTypeOK
  <1> QED
    BY <1>1, PostTypes DEF DynamicsFault

\* What a round reads is a sequence of posts that are published.
LEMMA FeedTypes ==
  ASSUME DynamicsTypeOK PROVE Feed \in Seq(Posts) /\ Range(Feed) \subseteq 1..Len(posts)
  <1> DEFINE k == Smaller(Len(posts), FeedSize)
  <1>1. Len(posts) \in Nat /\ Len(posts) <= MaxPosts
    BY DEF DynamicsTypeOK
  <1>2. k \in Nat /\ k <= Len(posts)
    BY <1>1, PostTypes DEF Smaller
  <1> HIDE DEF k
  <1>3. \A i \in 1..k : Len(posts) + 1 - i \in 1..Len(posts)
    BY <1>1, <1>2
  <1>4. 1..Len(posts) \subseteq Posts
    BY <1>1, PostTypes
  <1>5. Feed = [i \in 1..k |-> Len(posts) + 1 - i]
    BY DEF Feed, k
  <1>6. Range(Feed) \subseteq 1..Len(posts)
    BY <1>3, <1>5 DEF Range
  <1>7. Feed \in Seq(Posts)
    BY <1>2, <1>3, <1>4, <1>5
  <1> QED
    BY <1>6, <1>7

\* What a published post is about.
LEMMA KeyTypes ==
  ASSUME DynamicsTypeOK, NEW p \in 1..Len(posts)
  PROVE  p \in Posts /\ Key(p) \in Posts /\ posts[p].compacts \in BOOLEAN
  <1> DEFINE R == [key : Posts, compacts : BOOLEAN]
  <1>1. posts \in Seq(R) /\ Len(posts) <= MaxPosts
    BY DEF DynamicsTypeOK
  <1> HIDE DEF R
  <1>2. posts[p] \in R /\ Len(posts) \in Nat
    BY <1>1
  <1>3. p \in Posts
    BY <1>1, <1>2, PostTypes
  <1> QED
    BY <1>2, <1>3 DEF Key, R

\* The head of an inbox is a dynamic that was published.
LEMMA HeadKey ==
  ASSUME DynamicsTypeOK, OnePlace, NEW g \in NewsGroups, inbox[g] # <<>>
  PROVE  /\ Head(inbox[g]) \in 1..Len(posts) /\ Head(inbox[g]) \in Range(inbox[g])
         /\ Key(Head(inbox[g])) \in Posts
  <1>1. inbox[g] \in Seq(Posts) /\ posts \in Seq([key : Posts, compacts : BOOLEAN])
    BY DEF DynamicsTypeOK
  <1>2. Head(inbox[g]) = inbox[g][1] /\ 1 \in DOMAIN inbox[g]
    BY <1>1
  <1>3. Head(inbox[g]) \in Range(inbox[g])
    BY <1>2 DEF Range
  <1>4. Head(inbox[g]) \in 1..Len(posts)
    BY <1>3 DEF OnePlace
  <1> QED
    BY <1>3, <1>4, KeyTypes

\* A message that is under way is about a published dynamic that is marked.
LEMMA SentMark ==
  ASSUME DynamicsIInv, NEW m \in sendingNews
  PROVE  /\ m = Message(m.group, m.post, m.form) /\ m.group \in NewsGroups /\ m.form \in Forms
         /\ m.post \in 1..Len(posts) /\ m.post \in Posts /\ m.post \in Reached(m.group)
         /\ <<m.group, Key(m.post)>> \in compacted
  <1>1. m \in [group : NewsGroups, post : Posts, form : Forms]
    BY DEF DynamicsIInv, DynamicsTypeOK
  <1>2. m = Message(m.group, m.post, m.form)
    BY <1>1 DEF Message
  <1>3. m.post \in Reached(m.group)
    BY DEF Reached
  <1>4. m.post \in 1..Len(posts)
    BY <1>1, <1>3 DEF DynamicsIInv, OnePlace
  <1>5. Gets(m.group, m.post, m.form)
    BY <1>2 DEF Gets
  <1> QED
    BY <1>1, <1>2, <1>3, <1>4, <1>5 DEF DynamicsIInv, Explained

\* Every step keeps every variable in its range.
LEMMA DynamicsNextTypes == DynamicsIInv /\ [DynamicsNext]_dynamicVars => DynamicsTypeOK'
  <1> SUFFICES ASSUME DynamicsIInv, [DynamicsNext]_dynamicVars PROVE DynamicsTypeOK'
    OBVIOUS
  <1>t. DynamicsTypeOK /\ OnePlace
    BY DEF DynamicsIInv
  <1> USE DEF postVars, dbVars, feedVars, sendVars, toldVars
  <1>0. MaxPosts \in Nat /\ MaxCards \in Nat /\ Posts = 1..MaxPosts
    BY PostTypes
  <1>a. /\ posts \in Seq([key : Posts, compacts : BOOLEAN]) /\ Len(posts) <= MaxPosts /\ Len(posts) \in Nat
        /\ page \in Seq(Posts) /\ cards \in Seq(Posts) /\ newsChan \in Seq(Posts)
        /\ inbox \in [NewsGroups -> Seq(Posts)] /\ sendingNews \subseteq [group : NewsGroups, post : Posts, form : Forms]
    BY <1>t DEF DynamicsTypeOK
  <1>b. \A p \in 1..Len(posts) : Key(p) \in Posts
    BY <1>t, KeyTypes
  <1>c. Len(posts) + 1 \in 1..(MaxPosts + 1) /\ Len(posts) \in 0..MaxPosts
    BY <1>0, <1>a
  <1>1. CASE Publishes
    <2>1. PICK key \in 1..(Len(posts) + 1), compacts \in BOOLEAN :
              posts' = Append(posts, [key |-> key, compacts |-> compacts])
      BY <1>1 DEF Publishes
    <2>2. Len(posts) + 1 <= MaxPosts
      BY <1>1 DEF Publishes
    <2>3. [key |-> key, compacts |-> compacts] \in [key : Posts, compacts : BOOLEAN]
      BY <1>0, <1>a, <2>2
    <2>4. posts' \in Seq([key : Posts, compacts : BOOLEAN]) /\ Len(posts') <= MaxPosts
      BY <1>a, <2>1, <2>2, <2>3
    <2>5. UNCHANGED <<dynamicFaults, onlyOnline, startTs, dbVars, marked, feedVars, sendVars, addingNews, toldVars, lost>>
      BY <1>1 DEF Publishes
    <2> QED
      BY <1>t, <2>4, <2>5 DEF DynamicsTypeOK
  <1>2. CASE ComesOnline
    <2>1. UNCHANGED <<posts, onlyOnline, dbVars, marked, feedVars, sendVars, addingNews, toldVars, lost>>
          /\ startTs' = Len(posts) + 1 /\ dynamicFaults' \in 0..MaxDynamicFaults
      BY <1>2, <1>t, DynamicsFaultTypes DEF ComesOnline
    <2> QED
      BY <1>t, <1>c, <2>1 DEF DynamicsTypeOK
  <1>3. CASE DynamicsRestart
    <2>1. /\ startTs' = Len(posts) + 1 /\ fresh' = "idle" /\ page' = <<>> /\ cards' = <<>> /\ newsChan' = <<>>
          /\ inbox' = [g \in NewsGroups |-> <<>>] /\ sendingNews' = {}
          /\ addingNews' = [g \in NewsGroups |-> "no"] /\ dynamicFaults' \in 0..MaxDynamicFaults
          /\ UNCHANGED <<posts, onlyOnline, dbVars, marked, compacted, notifyMsg, toldVars>>
      BY <1>3, <1>t, DynamicsFaultTypes DEF DynamicsRestart
    <2>2. lost' = lost \cup ToAll(Range(cards)) \cup ToAll(Range(newsChan))
                       \cup {w \in Everyone : w[2] \in Range(inbox[w[1]])}
                       \cup {<<m.group, m.post>> : m \in sendingNews}
      BY <1>3 DEF DynamicsRestart
    <2>3. Range(cards) \subseteq Posts /\ Range(newsChan) \subseteq Posts
      BY <1>a DEF Range
    <2>4. {<<m.group, m.post>> : m \in sendingNews} \subseteq Everyone
      BY <1>a DEF Everyone
    <2>5. lost' \subseteq Everyone
      BY <1>t, <2>2, <2>3, <2>4 DEF ToAll, Everyone, DynamicsTypeOK
    <2>6. page' \in Seq(Posts) /\ cards' \in Seq(Posts) /\ newsChan' \in Seq(Posts) /\ Len(newsChan') <= MaxCards
          /\ inbox' \in [NewsGroups -> Seq(Posts)]
      BY <1>0, <2>1
    <2> QED
      BY <1>t, <1>c, <2>1, <2>5, <2>6 DEF DynamicsTypeOK
  <1>4. CASE FetchesFeed
    <2>1. /\ fresh' = "filter" /\ page' = Feed /\ lost' = lost \cup ToAll(1..Len(posts) \ (Range(Feed) \cup marked))
          /\ UNCHANGED <<postVars, startTs, dbVars, marked, cards, newsChan, sendVars, addingNews, toldVars>>
      BY <1>4 DEF FetchesFeed
    <2>2. lost' \subseteq Everyone
      BY <1>t, <1>0, <1>a, <2>1 DEF ToAll, Everyone, DynamicsTypeOK
    <2> QED
      BY <1>t, <2>1, <2>2, FeedTypes DEF DynamicsTypeOK
  <1>5. CASE FilterCard
    <2> DEFINE p == Head(page)
    <2>1. /\ page # <<>> /\ page' = Tail(page) /\ marked' \in {marked, marked \cup {p}}
          /\ cards' \in {cards, Append(cards, p)} /\ lost' \in {lost, lost \cup ToAll({p} \ marked)}
          /\ dynamicFaults' \in 0..MaxDynamicFaults
          /\ UNCHANGED <<posts, onlyOnline, startTs, dbVars, fresh, newsChan, sendVars, addingNews, toldVars>>
      BY <1>5, <1>t, DynamicsFaultTypes DEF FilterCard
    <2>2. p \in Posts /\ page' \in Seq(Posts)
      BY <1>a, <2>1
    <2> HIDE DEF p
    <2>3. cards' \in Seq(Posts)
      <3>1. Append(cards, p) \in Seq(Posts)
        BY <1>a, <2>2
      <3> QED
        BY <1>a, <2>1, <3>1
    <2>4. marked' \subseteq Posts /\ lost' \subseteq Everyone
      <3>1. marked \subseteq Posts /\ lost \subseteq Everyone
        BY <1>t DEF DynamicsTypeOK
      <3>2. ToAll({p} \ marked) \subseteq Everyone
        BY <2>2 DEF ToAll, Everyone
      <3> QED
        BY <2>1, <2>2, <3>1, <3>2
    <2> QED
      BY <1>t, <2>1, <2>2, <2>3, <2>4 DEF DynamicsTypeOK
  <1>6. CASE Collects
    <2> DEFINE k == Smaller(Len(cards), MaxCards)
    <2>1. /\ fresh' = "idle" /\ cards' = <<>> /\ newsChan' \in {<<>>, SubSeq(cards, 1, k)}
          /\ lost' = lost \cup ToAll(Range(cards) \ Range(newsChan'))
          /\ UNCHANGED <<postVars, startTs, dbVars, marked, page, sendVars, addingNews, toldVars>>
      BY <1>6 DEF Collects
    <2>2. k \in Nat /\ k <= Len(cards) /\ k <= MaxCards
      BY <1>0, <1>a DEF Smaller
    <2> HIDE DEF k
    <2>3. newsChan' \in Seq(Posts) /\ Len(newsChan') <= MaxCards
      <3>1. \A i \in 1..k : cards[i] \in Posts
        BY <1>a, <2>2
      <3>2. SubSeq(cards, 1, k) = [i \in 1..k |-> cards[i]]
        BY <1>a, <2>2
      <3>3. SubSeq(cards, 1, k) \in Seq(Posts) /\ Len(SubSeq(cards, 1, k)) = k
        BY <2>2, <3>1, <3>2
      <3>4. CASE newsChan' = <<>>
        BY <1>0, <3>4
      <3>5. CASE newsChan' = SubSeq(cards, 1, k)
        BY <2>2, <3>3, <3>5
      <3> QED
        BY <2>1, <3>4, <3>5
    <2>4. lost' \subseteq Everyone
      <3>1. Range(cards) \subseteq Posts
        BY <1>a DEF Range
      <3> QED
        BY <1>t, <2>1, <3>1 DEF ToAll, Everyone, DynamicsTypeOK
    <2>5. cards' \in Seq(Posts)
      BY <2>1
    <2> QED
      BY <1>t, <2>1, <2>3, <2>4, <2>5 DEF DynamicsTypeOK
  <1>7. CASE Dispatches
    <2>1. /\ newsChan' = <<>>
          /\ inbox' = [g \in NewsGroups |-> IF g \in followers THEN inbox[g] \o newsChan ELSE inbox[g]]
          /\ UNCHANGED <<postVars, startTs, dbVars, marked, fresh, page, cards, sendingNews, compacted,
                         notifyMsg, addingNews, toldVars, lost>>
      BY <1>7 DEF Dispatches
    <2>2. \A g \in NewsGroups : inbox[g] \o newsChan \in Seq(Posts)
      BY <1>a
    <2>3. newsChan' \in Seq(Posts) /\ Len(newsChan') <= MaxCards
      BY <1>0, <2>1
    <2>4. inbox' \in [NewsGroups -> Seq(Posts)]
      BY <1>a, <2>1, <2>2
    <2> QED
      BY <1>t, <2>1, <2>3, <2>4 DEF DynamicsTypeOK
  <1>8. ASSUME NEW g \in NewsGroups, Prepares(g) PROVE DynamicsTypeOK'
    <2> DEFINE p == Head(inbox[g])
    <2>1. /\ inbox[g] # <<>> /\ inbox' = [inbox EXCEPT ![g] = Tail(@)]
          /\ compacted' = compacted \cup {<<g, Key(p)>>}
          /\ sendingNews' \in {sendingNews, sendingNews \cup {Message(g, p, Form(g, p))}}
          /\ lost' \in {lost, lost \cup {<<g, p>>}} /\ dynamicFaults' \in 0..MaxDynamicFaults
          /\ UNCHANGED <<posts, onlyOnline, startTs, dbVars, marked, feedVars, notifyMsg, addingNews, toldVars>>
      BY <1>8, <1>t, DynamicsFaultTypes DEF Prepares
    <2>2. p \in Posts /\ inbox' \in [NewsGroups -> Seq(Posts)]
      <3>1. inbox[g] \in Seq(Posts)
        BY <1>a
      <3>2. p \in Posts /\ Tail(inbox[g]) \in Seq(Posts)
        BY <2>1, <3>1
      <3> QED
        BY <1>a, <2>1, <3>2
    <2>3. Key(p) \in Posts
      BY <1>t, <2>1, HeadKey
    <2> HIDE DEF p
    <2>4. Message(g, p, Form(g, p)) \in [group : NewsGroups, post : Posts, form : Forms]
      BY <2>2 DEF Message, Form, Forms
    <2>5. /\ compacted' \subseteq NewsGroups \X Posts /\ notifyMsg' \subseteq compacted'
          /\ sendingNews' \subseteq [group : NewsGroups, post : Posts, form : Forms]
          /\ lost' \subseteq Everyone
      <3>1. /\ compacted \subseteq NewsGroups \X Posts /\ notifyMsg \subseteq compacted
            /\ lost \subseteq Everyone
        BY <1>t DEF DynamicsTypeOK
      <3>2. <<g, Key(p)>> \in NewsGroups \X Posts /\ <<g, p>> \in Everyone
        BY <2>2, <2>3 DEF Everyone
      <3> QED
        BY <1>a, <2>1, <2>4, <3>1, <3>2
    <2> QED
      BY <1>t, <2>1, <2>2, <2>5 DEF DynamicsTypeOK
  <1>9. ASSUME NEW m \in sendingNews, Sent(m) PROVE DynamicsTypeOK'
    <2>1. m.group \in NewsGroups /\ m.post \in Posts /\ m.form \in Forms
      BY <1>a
    <2>2. /\ sendingNews' = sendingNews \ {m}
          /\ toldNews' \in {toldNews, [toldNews EXCEPT ![m.group][m.post] = Append(@, m.form)]}
          /\ notifyMsg' \subseteq notifyMsg \cup {<<m.group, Key(m.post)>>}
          /\ lost' \in {lost, lost \cup {<<m.group, m.post>>}} /\ dynamicFaults' \in 0..MaxDynamicFaults
          /\ UNCHANGED <<posts, onlyOnline, startTs, dbVars, marked, feedVars, inbox, compacted, addingNews, since>>
      BY <1>9, <1>t, DynamicsFaultTypes DEF Sent
    <2>3. toldNews' \in [NewsGroups -> [Posts -> Seq(Forms)]]
      <3>1. toldNews \in [NewsGroups -> [Posts -> Seq(Forms)]]
        BY <1>t DEF DynamicsTypeOK
      <3>2. Append(toldNews[m.group][m.post], m.form) \in Seq(Forms)
        BY <2>1, <3>1
      <3>3. [toldNews[m.group] EXCEPT ![m.post] = Append(@, m.form)] \in [Posts -> Seq(Forms)]
        BY <2>1, <3>1, <3>2
      <3>4. [toldNews EXCEPT ![m.group][m.post] = Append(@, m.form)] \in [NewsGroups -> [Posts -> Seq(Forms)]]
        BY <2>1, <3>1, <3>3
      <3> QED
        BY <2>2, <3>1, <3>4
    <2>4. lost' \subseteq Everyone
      <3>1. lost \subseteq Everyone /\ <<m.group, m.post>> \in Everyone
        BY <1>t, <2>1 DEF Everyone, DynamicsTypeOK
      <3> QED
        BY <2>2, <3>1
    <2>6. sendingNews' \subseteq [group : NewsGroups, post : Posts, form : Forms]
      BY <1>a, <2>2
    <2>5. notifyMsg' \subseteq compacted'
      BY <1>t, <1>9, <2>1, <2>2, SentMark DEF DynamicsTypeOK
    <2> QED
      BY <1>t, <2>2, <2>3, <2>4, <2>5, <2>6 DEF DynamicsTypeOK
  <1>10. ASSUME NEW g \in NewsGroups, AddsFollower(g) \/ Leaves(g) PROVE DynamicsTypeOK'
    <2>1. /\ followers' \subseteq followers \cup {g}
          /\ addingNews' \in {addingNews, [addingNews EXCEPT ![g] = "stamp"]}
          /\ \E n \in {0, Len(posts)} : since' = [since EXCEPT ![g] = n]
          /\ dynamicFaults' \in 0..MaxDynamicFaults
          /\ UNCHANGED <<posts, onlyOnline, startTs, firstTs, known, marked, feedVars, sendVars, toldNews, lost>>
      BY <1>10, <1>t, DynamicsFaultTypes DEF AddsFollower, Leaves
    <2>2. since' \in [NewsGroups -> 0..MaxPosts]
      <3>1. PICK n \in {0, Len(posts)} : since' = [since EXCEPT ![g] = n]
        BY <2>1
      <3>2. n \in 0..MaxPosts /\ since \in [NewsGroups -> 0..MaxPosts]
        BY <1>0, <1>c, <1>t DEF DynamicsTypeOK
      <3> QED
        BY <3>1, <3>2
    <2> QED
      BY <1>t, <2>1, <2>2 DEF DynamicsTypeOK
  <1>11. ASSUME NEW g \in NewsGroups, FollowWork(g) PROVE DynamicsTypeOK'
    <2>1. /\ known' \in {known, TRUE}
          /\ addingNews' \in {[addingNews EXCEPT ![g] = "save"], [addingNews EXCEPT ![g] = "no"]}
          /\ firstTs' \in {firstTs, <<Len(posts)>>, <<Len(posts) + 1>>}
          /\ UNCHANGED <<postVars, startTs, followers, marked, feedVars, sendVars, toldVars, lost>>
      BY <1>11 DEF FollowWork, AddStamps, AddSaves
    <2>2. firstTs' \in {<<>>} \cup {<<n>> : n \in 0..(MaxPosts + 1)}
      <3>1. firstTs \in {<<>>} \cup {<<n>> : n \in 0..(MaxPosts + 1)}
        BY <1>t DEF DynamicsTypeOK
      <3>2. Len(posts) \in 0..(MaxPosts + 1) /\ Len(posts) + 1 \in 0..(MaxPosts + 1)
        BY <1>0, <1>a
      <3> QED
        BY <2>1, <3>1, <3>2
    <2> QED
      BY <1>t, <2>1, <2>2 DEF DynamicsTypeOK
  <1>12. CASE UNCHANGED dynamicVars
    BY <1>t, <1>12 DEF dynamicVars, DynamicsTypeOK
  <1> QED
    BY <1>1, <1>2, <1>3, <1>4, <1>5, <1>6, <1>7, <1>8, <1>9, <1>10, <1>11, <1>12
    DEF DynamicsNext, FeedRound, Notify

(* Sequences without repetitions *)

\* Append: what the sequence holds, and when it holds nothing twice.
LEMMA AppendsNew ==
  ASSUME NEW S, NEW s \in Seq(S), NEW x \in S
  PROVE  /\ Range(Append(s, x)) = Range(s) \cup {x}
         /\ IsInjective(s) /\ x \notin Range(s) => IsInjective(Append(s, x))
  <1>1. /\ DOMAIN s = 1..Len(s) /\ Len(s) \in Nat /\ DOMAIN Append(s, x) = 1..(Len(s) + 1)
        /\ \A i \in 1..Len(s) : Append(s, x)[i] = s[i]
        /\ Append(s, x)[Len(s) + 1] = x
    OBVIOUS
  <1>2. 1..(Len(s) + 1) = 1..Len(s) \cup {Len(s) + 1}
    BY <1>1
  <1> QED
    BY <1>1, <1>2 DEF Range, IsInjective

\* Head and Tail divide what a sequence holds.
LEMMA TakesHead ==
  ASSUME NEW S, NEW s \in Seq(S), s # <<>>
  PROVE  /\ Head(s) \in S /\ Tail(s) \in Seq(S) /\ Range(s) = Range(Tail(s)) \cup {Head(s)}
         /\ IsInjective(s) => IsInjective(Tail(s)) /\ Head(s) \notin Range(Tail(s))
  <1>1. /\ DOMAIN s = 1..Len(s) /\ Len(s) \in Nat \ {0} /\ Head(s) = s[1] /\ Head(s) \in S
        /\ Tail(s) \in Seq(S) /\ DOMAIN Tail(s) = 1..(Len(s) - 1)
        /\ \A i \in 1..(Len(s) - 1) : Tail(s)[i] = s[i + 1]
    OBVIOUS
  <1>2. /\ \A i \in 1..(Len(s) - 1) : i + 1 \in 1..Len(s) /\ i + 1 # 1
        /\ \A i \in 1..Len(s) : i = 1 \/ (i - 1 \in 1..(Len(s) - 1) /\ (i - 1) + 1 = i)
        /\ \A i, j \in 1..(Len(s) - 1) : i + 1 = j + 1 => i = j
        /\ 1 \in 1..Len(s)
    BY <1>1
  <1>3. Range(Tail(s)) \cup {Head(s)} \subseteq Range(s)
    BY <1>1, <1>2 DEF Range
  <1>4. ASSUME NEW i \in 1..Len(s) PROVE s[i] \in Range(Tail(s)) \cup {Head(s)}
    <2>1. CASE i # 1
      <3>1. Tail(s)[i - 1] = s[i] /\ i - 1 \in DOMAIN Tail(s)
        BY <1>1, <1>2, <2>1
      <3> QED
        BY <3>1 DEF Range
    <2> QED
      BY <1>1, <2>1
  <1>5. ASSUME IsInjective(s) PROVE IsInjective(Tail(s)) /\ Head(s) \notin Range(Tail(s))
    BY <1>1, <1>2, <1>5 DEF Range, IsInjective
  <1>6. Range(s) \subseteq Range(Tail(s)) \cup {Head(s)}
    BY <1>1, <1>4 DEF Range
  <1> QED
    BY <1>1, <1>3, <1>5, <1>6

\* A concatenation holds what its parts hold.
LEMMA Concatenates ==
  ASSUME NEW S, NEW s \in Seq(S), NEW t \in Seq(S)
  PROVE  /\ Range(s \o t) = Range(s) \cup Range(t)
         /\ IsInjective(s) /\ IsInjective(t) /\ Range(s) \cap Range(t) = {} => IsInjective(s \o t)
  <1> DEFINE n == Len(s) m == Len(t)
  <1>1. /\ n \in Nat /\ m \in Nat /\ DOMAIN s = 1..n /\ DOMAIN t = 1..m /\ DOMAIN (s \o t) = 1..(n + m)
        /\ \A i \in 1..n : (s \o t)[i] = s[i]
        /\ \A i \in 1..(n + m) : i > n => (s \o t)[i] = t[i - n]
    OBVIOUS
  <1> HIDE DEF n, m
  <1>2. /\ \A i \in 1..(n + m) : i \in 1..n \/ (i > n /\ i - n \in 1..m)
        /\ 1..n \subseteq 1..(n + m)
        /\ \A j \in 1..m : n + j \in 1..(n + m) /\ n + j > n /\ (n + j) - n = j
        /\ \A i, j \in 1..(n + m) : i - n = j - n => i = j
    BY <1>1
  <1>3. Range(s \o t) \subseteq Range(s) \cup Range(t)
    BY <1>1, <1>2 DEF Range
  <1>4. Range(s) \cup Range(t) \subseteq Range(s \o t)
    <2>1. ASSUME NEW i \in 1..n PROVE s[i] \in Range(s \o t)
      <3>1. (s \o t)[i] = s[i] /\ i \in 1..(n + m)
        BY <1>1, <1>2
      <3> QED
        BY <1>1, <3>1 DEF Range
    <2>2. ASSUME NEW j \in 1..m PROVE t[j] \in Range(s \o t)
      <3>1. (s \o t)[n + j] = t[j] /\ n + j \in 1..(n + m)
        BY <1>1, <1>2
      <3> QED
        BY <1>1, <3>1 DEF Range
    <2> QED
      BY <1>1, <2>1, <2>2 DEF Range
  <1>5. ASSUME IsInjective(s), IsInjective(t), Range(s) \cap Range(t) = {}
        PROVE  IsInjective(s \o t)
    <2> SUFFICES ASSUME NEW i \in 1..(n + m), NEW j \in 1..(n + m), (s \o t)[i] = (s \o t)[j]
                 PROVE  i = j
      BY <1>1 DEF IsInjective
    <2>1. CASE i \in 1..n /\ j \in 1..n
      BY <1>1, <1>5, <2>1 DEF IsInjective
    <2>2. CASE i > n /\ i - n \in 1..m /\ j > n /\ j - n \in 1..m
      <3>1. t[i - n] = t[j - n]
        BY <1>1, <2>2
      <3>2. i - n = j - n
        BY <1>1, <1>5, <2>2, <3>1 DEF IsInjective
      <3> QED
        BY <1>1, <1>2, <3>2
    <2>3. CASE i \in 1..n /\ j > n /\ j - n \in 1..m
      BY <1>1, <1>5, <2>3 DEF Range
    <2>4. CASE j \in 1..n /\ i > n /\ i - n \in 1..m
      BY <1>1, <1>5, <2>4 DEF Range
    <2> QED
      BY <1>2, <2>1, <2>2, <2>3, <2>4
  <1> QED
    BY <1>3, <1>4, <1>5

\* The front of a sequence holds part of it.
LEMMA Cuts ==
  ASSUME NEW S, NEW s \in Seq(S), NEW k \in Nat, k <= Len(s)
  PROVE  /\ Range(SubSeq(s, 1, k)) \subseteq Range(s)
         /\ IsInjective(s) => IsInjective(SubSeq(s, 1, k))
  <1>1. /\ DOMAIN s = 1..Len(s) /\ 1..k \subseteq DOMAIN s
        /\ SubSeq(s, 1, k) = [i \in 1..k |-> s[i]]
    OBVIOUS
  <1> QED
    BY <1>1 DEF Range, IsInjective
-----------------------------------------------------------------------------
(* Messages *)

\* What g has got or is getting it has been reached by.
LEMMA GetsReached ==
  ASSUME DynamicsIInv, NEW g \in NewsGroups, NEW p \in Posts
  PROVE  /\ (\E f \in Forms : Gets(g, p, f)) <=> p \in Reached(g)
         /\ p \in Reached(g) => p \in 1..Len(posts)
  <1>1. toldNews[g][p] \in {<<>>} \cup {<<f>> : f \in Forms}
    BY DEF DynamicsIInv, OneMessage
  <1>2. \A f \in Forms : <<f>> # <<>>
    OBVIOUS
  <1>3. ASSUME NEW m \in sendingNews, m.group = g, m.post = p PROVE Gets(g, p, m.form) /\ m.form \in Forms
    BY <1>3, SentMark DEF Gets
  <1>4. ASSUME p \in Reached(g) PROVE \E f \in Forms : Gets(g, p, f)
    BY <1>1, <1>3, <1>4 DEF Reached, Gets
  <1>5. ASSUME NEW f \in Forms, Gets(g, p, f) PROVE p \in Reached(g)
    BY <1>2, <1>5 DEF Reached, Gets, Message
  <1>6. Reached(g) \subseteq 1..Len(posts)
    BY DEF DynamicsIInv, OnePlace
  <1> QED
    BY <1>4, <1>5, <1>6

\* Full is what the invariant calls being got in full.
LEMMA FullIsGot == \A g, p : Full(g, p) <=> Gets(g, p, "full")
  BY DEF Full, Gets

\* Where nothing new is got, and what is no longer got was lost, the marks still tell.
LEMMA NothingNew ==
  ASSUME DynamicsIInv, UNCHANGED <<posts, compacted>>, lost \subseteq lost', notifyMsg \subseteq notifyMsg',
         \A g \in NewsGroups, p \in 1..Len(posts), f \in Forms : Gets(g, p, f)' => Gets(g, p, f),
         \A g \in NewsGroups, p \in 1..Len(posts) :
             Gets(g, p, "full") => Gets(g, p, "full")' \/ <<g, p>> \in lost',
         \A g \in NewsGroups, k \in Posts : <<g, k>> \in notifyMsg' => Quotable(g, k)'
  PROVE  Explained' /\ FullOnce'
  <1>1. /\ \A g \in NewsGroups, k \in Posts : <<g, k>> \in compacted => Shown(g, k)
        /\ \A g \in NewsGroups, p \in 1..Len(posts), f \in Forms :
              Gets(g, p, f) => <<g, Key(p)>> \in compacted
        /\ \A g \in NewsGroups, p \in 1..Len(posts) : Gets(g, p, "quote") => <<g, Key(p)>> \in notifyMsg
        /\ FullOnce
    BY DEF DynamicsIInv, Explained
  <1>2. Len(posts)' = Len(posts) /\ \A p : Key(p)' = Key(p)
    BY DEF Key
  <1>3. ASSUME NEW g \in NewsGroups, NEW k \in Posts, Shown(g, k) PROVE Shown(g, k)'
    BY <1>2, <1>3 DEF Shown
  <1>4. {"full", "quote"} \subseteq Forms
    BY DEF Forms
  <1>5. Explained'
    BY <1>1, <1>2, <1>3, <1>4 DEF Explained
  <1>6. FullOnce'
    BY <1>1, <1>2, <1>4, FullIsGot DEF FullOnce, Full, Gets
  <1> QED
    BY <1>5, <1>6

\* A step that neither publishes nor sends.
LEMMA QuietMessages ==
  ASSUME DynamicsIInv, UNCHANGED <<posts, sendingNews, compacted, notifyMsg, toldNews>>, lost \subseteq lost'
  PROVE  OneMessage' /\ Explained' /\ FullOnce' /\ \A g : Reached(g)' = Reached(g)
  <1>1. OneMessage' /\ \A g : Reached(g)' = Reached(g)
    BY DEF DynamicsIInv, OneMessage, Reached
  <1>2. \A g, p, f : Gets(g, p, f)' <=> Gets(g, p, f)
    BY DEF Gets
  <1>3. \A g, k : Quotable(g, k)' <=> Quotable(g, k)
    BY DEF Quotable, Key
  <1>4. \A g \in NewsGroups, k \in Posts : <<g, k>> \in notifyMsg => Quotable(g, k)
    BY DEF DynamicsIInv, Explained
  <1>5. Explained' /\ FullOnce'
    BY <1>2, <1>3, <1>4, NothingNew
  <1> QED
    BY <1>1, <1>5

\* Publishing changes no mark and no message, and a new post is marked for nobody.
LEMMA PublishMessages ==
  ASSUME DynamicsIInv, Publishes
  PROVE  OneMessage' /\ Explained' /\ FullOnce' /\ \A g : Reached(g)' = Reached(g)
  <1> DEFINE n == Len(posts) + 1
  <1>1. /\ n <= MaxPosts /\ UNCHANGED <<sendingNews, compacted, notifyMsg, toldNews, lost>>
        /\ \E key \in 1..n, compacts \in BOOLEAN : posts' = Append(posts, [key |-> key, compacts |-> compacts])
    BY DEF Publishes, sendVars, toldVars
  <1>2. posts \in Seq([key : Posts, compacts : BOOLEAN])
    BY DEF DynamicsIInv, DynamicsTypeOK
  <1>3. Len(posts') = n /\ \A p \in 1..Len(posts) : posts'[p] = posts[p]
    BY <1>1, <1>2
  <1>4. Len(posts) \in Nat /\ 1..n = 1..Len(posts) \cup {n} /\ n \notin 1..Len(posts) /\ n \in Posts
    BY <1>1, <1>2, PostTypes
  <1> HIDE DEF n
  <1>5. \A p \in 1..Len(posts) : Key(p)' = Key(p)
    BY <1>3 DEF Key
  <1>6. \A g, p, f : (Gets(g, p, f)' <=> Gets(g, p, f)) /\ (Full(g, p)' <=> Full(g, p))
    BY <1>1 DEF Gets, Full
  <1>7. \A g \in NewsGroups, f \in Forms : ~Gets(g, n, f)
    BY <1>4, GetsReached
  <1>8. ASSUME NEW g \in NewsGroups, NEW k \in Posts
        PROVE  (Shown(g, k) => Shown(g, k)') /\ (Quotable(g, k) => Quotable(g, k)')
    BY <1>1, <1>3, <1>4, <1>5, <1>6 DEF Shown, Quotable
  <1>9. "quote" \in Forms /\ "full" \in Forms
    BY DEF Forms
  <1>10. Explained'
    <2>1. Explained
      BY DEF DynamicsIInv
    <2> QED
      BY <2>1, <1>1, <1>3, <1>4, <1>5, <1>6, <1>7, <1>8, <1>9 DEF Explained
  <1>11. FullOnce'
    <2>1. FullOnce /\ \A g \in NewsGroups : ~Full(g, n)
      BY <1>7, <1>9, FullIsGot DEF DynamicsIInv
    <2> QED
      BY <2>1, <1>3, <1>4, <1>5, <1>6 DEF FullOnce
  <1>12. OneMessage' /\ \A g : Reached(g)' = Reached(g)
    BY <1>1 DEF DynamicsIInv, OneMessage, Reached
  <1> QED
    BY <1>10, <1>11, <1>12

\* A restart loses what was being sent, and keeps the marks.
LEMMA RestartMessages ==
  ASSUME DynamicsIInv, DynamicsRestart
  PROVE  OneMessage' /\ Explained' /\ FullOnce' /\ \A g \in NewsGroups : Reached(g)' \subseteq Reached(g)
  <1>1. /\ UNCHANGED <<posts, compacted, notifyMsg, toldNews>> /\ sendingNews' = {} /\ lost \subseteq lost'
        /\ {<<m.group, m.post>> : m \in sendingNews} \subseteq lost'
    BY DEF DynamicsRestart, toldVars
  <1>2. \A g, p, f : Gets(g, p, f)' => Gets(g, p, f)
    BY <1>1 DEF Gets
  <1>3. \A g, p : Gets(g, p, "full") => Gets(g, p, "full")' \/ <<g, p>> \in lost'
    <2>1. \A g, p : Message(g, p, "full").group = g /\ Message(g, p, "full").post = p
      BY DEF Message
    <2>2. \A g, p : Message(g, p, "full") \in sendingNews => <<g, p>> \in lost'
      BY <1>1, <2>1
    <2> QED
      BY <1>1, <2>2 DEF Gets
  <1>4. \A g, k : Quotable(g, k)' <=> Quotable(g, k)
    BY <1>1 DEF Quotable, Key
  <1>5. \A g \in NewsGroups, k \in Posts : <<g, k>> \in notifyMsg => Quotable(g, k)
    BY DEF DynamicsIInv, Explained
  <1>6. Explained' /\ FullOnce'
    BY <1>1, <1>2, <1>3, <1>4, <1>5, NothingNew
  <1>7. OneMessage' /\ \A g \in NewsGroups : Reached(g)' \subseteq Reached(g)
    BY <1>1 DEF DynamicsIInv, OneMessage, Reached
  <1> QED
    BY <1>6, <1>7

\* Preparing a notify: the head of the queue gets one message, in the form the marks call for.
LEMMA PrepareMessages ==
  ASSUME DynamicsIInv, NEW g \in NewsGroups, Prepares(g)
  PROVE  /\ OneMessage' /\ Explained' /\ FullOnce'
         /\ \A h \in NewsGroups : Reached(h)' \subseteq Reached(h) \cup (IF h = g THEN {Head(inbox[g])} ELSE {})
  <1>a. PICK p, form, key : p = Head(inbox[g]) /\ form = Form(g, p) /\ key = Key(p)
    OBVIOUS
  <1> DEFINE msg == Message(g, p, form)
  <1>1. /\ inbox[g] # <<>> /\ UNCHANGED <<posts, notifyMsg, toldNews>>
        /\ compacted' = compacted \cup {<<g, key>>}
        /\ \/ sendingNews' = sendingNews \cup {msg} /\ UNCHANGED lost
           \/ sendingNews' = sendingNews /\ lost' = lost \cup {<<g, p>>}
    BY <1>a DEF Prepares, toldVars
  <1>2. DynamicsTypeOK /\ OnePlace /\ OneMessage /\ Explained /\ FullOnce
    BY DEF DynamicsIInv
  <1>3. p \in 1..Len(posts) /\ p \in Posts /\ p \in Range(inbox[g]) /\ key \in Posts
    <2>1. p \in 1..Len(posts) /\ p \in Range(inbox[g])
      BY <1>1, <1>2, <1>a, HeadKey
    <2>2. p \in Posts /\ Key(p) \in Posts
      BY <1>2, <2>1, KeyTypes
    <2> QED
      BY <1>a, <2>1, <2>2
  <1>4. p \notin Reached(g)
    BY <1>2, <1>3 DEF OnePlace
  <1>5. form \in Forms /\ "full" \in Forms /\ "quote" \in Forms
    BY <1>a DEF Form, Forms
  <1>6. /\ msg.group = g /\ msg.post = p
        /\ \A h, q, f : Message(h, q, f) = msg => h = g /\ q = p /\ f = form
    BY DEF Message
  <1>7. toldNews[g][p] = <<>> /\ \A m \in sendingNews : m.group = g => m.post # p
    BY <1>3, <1>4 DEF Reached
  <1>8. /\ <<g, key>> \notin compacted \/ ~posts[p].compacts => form = "full"
        /\ form = "quote" => <<g, key>> \in notifyMsg
        /\ form = "full" => <<g, key>> \notin compacted \/ ~posts[p].compacts
    BY <1>a DEF Form
  <1> HIDE DEF msg
  <1>9. OneMessage'
    BY <1>1, <1>2, <1>6, <1>7 DEF OneMessage
  <1>10. \A h \in NewsGroups : Reached(h)' \subseteq Reached(h) \cup (IF h = g THEN {p} ELSE {})
    BY <1>1, <1>6 DEF Reached
  <1>11. \A h, q, f : /\ Gets(h, q, f) => Gets(h, q, f)'
                      /\ Gets(h, q, f)' => Gets(h, q, f) \/ (h = g /\ q = p /\ f = form)
    BY <1>1, <1>6 DEF Gets
  <1>12. Gets(g, p, form)' \/ <<g, p>> \in lost'
    BY <1>1 DEF Gets, msg
  <1>13. (\A q : Key(q)' = Key(q)) /\ Key(p) = key
    BY <1>1, <1>a DEF Key
  <1>14. lost \subseteq lost'
    BY <1>1
  <1>15. Explained'
    <2>1. ASSUME NEW h \in NewsGroups, NEW k \in Posts, Shown(h, k) PROVE Shown(h, k)'
      BY <1>1, <1>11, <1>13, <1>14, <2>1 DEF Shown
    <2>2. ASSUME <<g, key>> \notin compacted PROVE Shown(g, key)'
      BY <1>1, <1>3, <1>8, <1>12, <1>13, <2>2 DEF Shown
    <2>3. ASSUME NEW h \in NewsGroups, NEW k \in Posts, <<h, k>> \in compacted' PROVE Shown(h, k)'
      <3>1. CASE <<h, k>> \in compacted
        BY <1>2, <2>1, <3>1 DEF Explained
      <3>2. CASE <<h, k>> \notin compacted
        <4>1. h = g /\ k = key
          BY <1>1, <2>3, <3>2
        <4> QED
          BY <2>2, <3>2, <4>1
      <3> QED
        BY <3>1, <3>2
    <2>4. ASSUME NEW h \in NewsGroups, NEW k \in Posts, <<h, k>> \in notifyMsg' PROVE Quotable(h, k)'
      <3>1. Quotable(h, k)
        BY <1>1, <1>2, <2>4 DEF Explained
      <3> QED
        BY <1>1, <1>13, <3>1 DEF Quotable
    <2>5. ASSUME NEW h \in NewsGroups, NEW q \in 1..Len(posts)', NEW f \in Forms, Gets(h, q, f)'
          PROVE  <<h, Key(q)>>' \in compacted'
      BY <1>1, <1>2, <1>11, <1>13, <2>5 DEF Explained
    <2>6. ASSUME NEW h \in NewsGroups, NEW q \in 1..Len(posts)', Gets(h, q, "quote")'
          PROVE  <<h, Key(q)>>' \in notifyMsg'
      BY <1>1, <1>2, <1>8, <1>11, <1>13, <2>6 DEF Explained
    <2> QED
      BY <2>3, <2>4, <2>5, <2>6 DEF Explained
  <1>16. FullOnce'
    <2> SUFFICES ASSUME NEW h \in NewsGroups, NEW q \in 1..Len(posts), NEW r \in 1..Len(posts), q # r,
                        posts[q].compacts, posts[r].compacts, Key(q) = Key(r),
                        Gets(h, q, "full")', Gets(h, r, "full")'
                 PROVE  FALSE
      BY <1>1, <1>13 DEF FullOnce, Full, Gets
    <2>1. ASSUME NEW x \in 1..Len(posts), Key(x) = Key(p), Gets(g, x, "full") PROVE <<g, key>> \in compacted
      BY <1>2, <1>5, <1>13, <2>1 DEF Explained
    <2>2. CASE Gets(h, q, "full") /\ Gets(h, r, "full")
      BY <1>2, <2>2, FullIsGot DEF FullOnce
    <2>3. CASE h = g /\ q = p /\ form = "full" /\ Gets(h, r, "full")
      BY <1>8, <2>1, <2>3
    <2>4. CASE h = g /\ r = p /\ form = "full" /\ Gets(h, q, "full")
      BY <1>8, <2>1, <2>4
    <2> QED
      BY <1>11, <2>2, <2>3, <2>4
  <1> QED
    BY <1>9, <1>10, <1>15, <1>16, <1>a

\* A message that is sent is no longer under way; one that failed is lost.
LEMMA SentMessages ==
  ASSUME DynamicsIInv, NEW m \in sendingNews, Sent(m)
  PROVE  OneMessage' /\ Explained' /\ FullOnce' /\ \A g \in NewsGroups : Reached(g)' \subseteq Reached(g)
  <1> DEFINE h == m.group q == m.post f == m.form
  <1>1. DynamicsTypeOK /\ OnePlace /\ OneMessage /\ Explained /\ FullOnce
    BY DEF DynamicsIInv
  <1>2. m = Message(h, q, f) /\ h \in NewsGroups /\ q \in Posts /\ q \in 1..Len(posts) /\ f \in Forms /\ q \in Reached(h)
    BY SentMark
  <1>3. toldNews[h][q] = <<>> /\ \A n \in sendingNews : n # m => n.group # h \/ n.post # q
    BY <1>1 DEF OneMessage
  <1>4. /\ UNCHANGED <<posts, compacted>> /\ sendingNews' = sendingNews \ {m} /\ lost \subseteq lost'
        /\ \/ /\ toldNews' = [toldNews EXCEPT ![h][q] = Append(@, f)]
              /\ notifyMsg' = notifyMsg \cup (IF f = "full" THEN {<<h, Key(q)>>} ELSE {})
           \/ UNCHANGED <<toldNews, notifyMsg>> /\ <<h, q>> \in lost'
    BY DEF Sent
  <1>5. toldNews \in [NewsGroups -> [Posts -> Seq(Forms)]]
    BY <1>1 DEF DynamicsTypeOK
  <1>6. \A g, p, e : Message(g, p, e).group = g /\ Message(g, p, e).post = p /\ Message(g, p, e).form = e
    BY DEF Message
  <1> HIDE DEF h, q, f
  <1>7. CASE toldNews' = [toldNews EXCEPT ![h][q] = Append(@, f)] /\ notifyMsg' = notifyMsg \cup (IF f = "full" THEN {<<h, Key(q)>>} ELSE {})
    <2>1. /\ toldNews'[h][q] = <<f>>
          /\ \A g \in NewsGroups, p \in Posts : g # h \/ p # q => toldNews'[g][p] = toldNews[g][p]
      <3>1. toldNews'[h][q] = Append(<<>>, f)
        BY <1>2, <1>3, <1>5, <1>7
      <3> QED
        BY <1>2, <1>5, <1>7, <3>1
    <2>2. OneMessage'
      <3>1. \A n \in sendingNews : n.group \in NewsGroups /\ n.post \in Posts
        BY SentMark
      <3>2. \A n \in sendingNews' : toldNews'[n.group][n.post] = <<>>
        BY <1>1, <1>3, <1>4, <2>1, <3>1 DEF OneMessage
      <3>3. \A g \in NewsGroups, p \in Posts : toldNews'[g][p] \in {<<>>} \cup {<<e>> : e \in Forms}
        <4>1. \A g \in NewsGroups, p \in Posts : toldNews[g][p] \in {<<>>} \cup {<<e>> : e \in Forms}
          BY <1>1 DEF OneMessage
        <4> SUFFICES ASSUME NEW g \in NewsGroups, NEW p \in Posts
                     PROVE  toldNews'[g][p] \in {<<>>} \cup {<<e>> : e \in Forms}
          OBVIOUS
        <4>2. CASE g = h /\ p = q
          BY <1>2, <2>1, <4>2
        <4>3. CASE g # h \/ p # q
          BY <2>1, <4>1, <4>3
        <4> QED
          BY <4>2, <4>3
      <3> QED
        BY <1>1, <1>4, <3>2, <3>3 DEF OneMessage
    <2>3. \A g \in NewsGroups, p \in Posts, e \in Forms : Gets(g, p, e)' <=> Gets(g, p, e)
      <3> SUFFICES ASSUME NEW g \in NewsGroups, NEW p \in Posts, NEW e \in Forms
                   PROVE  Gets(g, p, e)' <=> Gets(g, p, e)
        OBVIOUS
      <3>1. CASE g # h \/ p # q
        <4>1. Message(g, p, e) # m
          BY <1>2, <1>6, <3>1
        <4> QED
          BY <1>4, <2>1, <3>1, <4>1 DEF Gets
      <3>2. CASE g = h /\ p = q
        <4>1. Message(g, p, e) \in sendingNews <=> e = f
          BY <1>2, <1>3, <1>6, <3>2
        <4>2. Message(g, p, e) \notin sendingNews'
          BY <1>2, <1>4, <1>6, <3>2, <4>1
        <4>3. <<f>> = <<e>> <=> f = e
          OBVIOUS
        <4>4. <<>> # <<e>>
          OBVIOUS
        <4> QED
          BY <1>3, <2>1, <3>2, <4>1, <4>2, <4>3, <4>4 DEF Gets
      <3> QED
        BY <3>1, <3>2
    <2>4. 1..Len(posts) \subseteq Posts /\ "full" \in Forms
      BY <1>1, KeyTypes DEF Forms
    <2>5. ASSUME NEW g \in NewsGroups, NEW k \in Posts, <<g, k>> \in notifyMsg' PROVE Quotable(g, k)'
      <3>1. CASE <<g, k>> \in notifyMsg
        <4>1. PICK p \in 1..Len(posts) : Key(p) = k /\ toldNews[g][p] = <<"full">>
          BY <1>1, <3>1 DEF Explained, Quotable
        <4>2. g # h \/ p # q
          BY <1>3, <4>1
        <4>3. toldNews'[g][p] = <<"full">>
          BY <2>1, <2>4, <4>1, <4>2
        <4> QED
          BY <1>4, <4>1, <4>3 DEF Quotable, Key
      <3>2. CASE <<g, k>> \notin notifyMsg
        <4>1. f = "full" /\ g = h /\ k = Key(q)
          BY <1>7, <2>5, <3>2
        <4> QED
          BY <1>2, <1>4, <2>1, <4>1 DEF Quotable, Key
      <3> QED
        BY <3>1, <3>2
    <2>6. notifyMsg \subseteq notifyMsg'
      BY <1>7
    <2>7. Explained' /\ FullOnce'
      BY <1>4, <2>3, <2>4, <2>5, <2>6, NothingNew
    <2>8. \A g \in NewsGroups : Reached(g)' \subseteq Reached(g)
      BY <1>2, <1>4, <2>1 DEF Reached
    <2> QED
      BY <2>2, <2>7, <2>8
  <1>8. CASE UNCHANGED <<toldNews, notifyMsg>> /\ <<h, q>> \in lost'
    <2>1. OneMessage' /\ \A g \in NewsGroups : Reached(g)' \subseteq Reached(g)
      BY <1>1, <1>4, <1>8 DEF OneMessage, Reached
    <2>2. \A g, p, e : Gets(g, p, e)' => Gets(g, p, e)
      BY <1>4, <1>8 DEF Gets
    <2>3. \A g, p : Gets(g, p, "full") => Gets(g, p, "full")' \/ <<g, p>> \in lost'
      BY <1>2, <1>4, <1>6, <1>8 DEF Gets
    <2>4. \A g \in NewsGroups, k \in Posts : <<g, k>> \in notifyMsg => Quotable(g, k)
      BY <1>1 DEF Explained
    <2>5. \A g, k : Quotable(g, k)' <=> Quotable(g, k)
      BY <1>4, <1>8 DEF Quotable, Key
    <2>6. Explained' /\ FullOnce'
      BY <1>4, <1>8, <2>2, <2>3, <2>4, <2>5, NothingNew
    <2> QED
      BY <2>1, <2>6
  <1> QED
    BY <1>4, <1>7, <1>8

\* Where the places do not change and the marks grow, they are still one.
LEMMA SamePlaces ==
  ASSUME OnePlace, Range(page') \subseteq 1..Len(posts'), Len(posts) \in Nat, Len(posts') \in Nat,
         Len(posts) <= Len(posts'), UNCHANGED <<marked, cards, newsChan, inbox>>,
         \A g \in NewsGroups : Reached(g)' \subseteq Reached(g)
  PROVE  OnePlace'
  <1>1. 1..Len(posts) \subseteq 1..Len(posts')
    OBVIOUS
  <1>2. Waiting' = Waiting
    BY DEF Waiting
  <1> QED
    BY <1>1, <1>2 DEF OnePlace

\* A restart empties every place but the marks.
LEMMA RestartPlaces ==
  ASSUME DynamicsIInv, DynamicsRestart PROVE OnePlace'
  <1>1. /\ page' = <<>> /\ cards' = <<>> /\ newsChan' = <<>> /\ UNCHANGED <<posts, marked>>
        /\ inbox' = [g \in NewsGroups |-> <<>>]
    BY DEF DynamicsRestart
  <1>2. \A g \in NewsGroups : Reached(g)' \subseteq Reached(g)
    BY RestartMessages
  <1>3. Range(<<>>) = {} /\ IsInjective(<<>>)
    BY DEF Range, IsInjective
  <1>4. Waiting' = {} /\ \A g \in NewsGroups : inbox'[g] = <<>>
    BY <1>1, <1>3 DEF Waiting
  <1>5. OnePlace
    BY DEF DynamicsIInv
  <1> QED
    BY <1>1, <1>2, <1>3, <1>4, <1>5 DEF OnePlace

\* A card that passes the filter was not marked before, and is in no place yet.
LEMMA FilterPlaces ==
  ASSUME DynamicsIInv, FilterCard PROVE OnePlace'
  <1> DEFINE p == Head(page)
  <1>1. /\ page # <<>> /\ page' = Tail(page)
        /\ UNCHANGED <<posts, newsChan, inbox, sendingNews, toldNews>>
        /\ \/ marked' = marked \cup {p} /\ UNCHANGED cards
           \/ marked' = marked \cup {p} /\ p \notin marked /\ cards' = Append(cards, p)
           \/ UNCHANGED <<marked, cards>>
    BY DEF FilterCard, sendVars, toldVars
  <1>2. OnePlace /\ page \in Seq(Posts) /\ cards \in Seq(Posts)
    BY DEF DynamicsIInv, DynamicsTypeOK
  <1>3. p \in Posts /\ p \in Range(page) /\ Range(page') \subseteq Range(page)
    BY <1>1, <1>2, TakesHead
  <1>4. p \in 1..Len(posts)
    BY <1>2, <1>3 DEF OnePlace
  <1>5. /\ Range(Append(cards, p)) = Range(cards) \cup {p}
        /\ IsInjective(cards) /\ p \notin Range(cards) => IsInjective(Append(cards, p))
    BY <1>2, <1>3, AppendsNew
  <1>6. \A g : Reached(g)' = Reached(g)
    BY <1>1 DEF Reached
  <1> HIDE DEF p
  <1>7. Range(page') \subseteq 1..Len(posts)
    BY <1>2, <1>3 DEF OnePlace
  <1>8. CASE cards' = cards
    <2>1. marked' \subseteq 1..Len(posts) /\ marked \subseteq marked' /\ Waiting' = Waiting
      BY <1>1, <1>2, <1>4, <1>8 DEF OnePlace, Waiting
    <2> QED
      BY <1>1, <1>2, <1>6, <1>7, <1>8, <2>1 DEF OnePlace
  <1>9. CASE marked' = marked \cup {p} /\ p \notin marked /\ cards' = Append(cards, p)
    <2>1. /\ Waiting' = Waiting \cup {p} /\ p \notin Waiting
          /\ \A g \in NewsGroups : p \notin Range(inbox[g]) \cup Reached(g)
      BY <1>1, <1>2, <1>5, <1>9 DEF OnePlace, Waiting
    <2>2. IsInjective(cards') /\ Range(cards') = Range(cards) \cup {p}
      BY <1>2, <1>5, <1>9, <2>1 DEF OnePlace, Waiting
    <2>3. p \notin Range(newsChan)
      BY <2>1 DEF Waiting
    <2> QED
      BY <1>1, <1>2, <1>4, <1>6, <1>7, <1>9, <2>1, <2>2, <2>3 DEF OnePlace
  <1> QED
    BY <1>1, <1>8, <1>9

\* The cards of a round go to the channel at once, or are cut.
LEMMA CollectPlaces ==
  ASSUME DynamicsIInv, Collects PROVE OnePlace'
  <1> DEFINE k == Smaller(Len(cards), MaxCards)
  <1>1. /\ cards' = <<>> /\ newsChan' \in {<<>>, SubSeq(cards, 1, k)}
        /\ UNCHANGED <<posts, marked, page, inbox, sendingNews, toldNews>>
    BY DEF Collects, postVars, sendVars, toldVars
  <1>2. OnePlace /\ cards \in Seq(Posts)
    BY DEF DynamicsIInv, DynamicsTypeOK
  <1>3. k \in Nat /\ k <= Len(cards)
    BY <1>2, PostTypes DEF Smaller
  <1> HIDE DEF k
  <1>4. /\ Range(SubSeq(cards, 1, k)) \subseteq Range(cards)
        /\ IsInjective(cards) => IsInjective(SubSeq(cards, 1, k))
    BY <1>2, <1>3, Cuts
  <1>5. Range(<<>>) = {} /\ IsInjective(<<>>)
    BY DEF Range, IsInjective
  <1>6. Range(newsChan') \subseteq Range(cards) /\ IsInjective(newsChan')
    <2>1. IsInjective(cards)
      BY <1>2 DEF OnePlace
    <2> QED
      BY <1>1, <1>4, <1>5, <2>1
  <1>7. Waiting' \subseteq Waiting /\ \A g : Reached(g)' = Reached(g)
    BY <1>1, <1>5, <1>6 DEF Waiting, Reached
  <1> QED
    BY <1>1, <1>2, <1>5, <1>6, <1>7 DEF OnePlace

\* What the channel holds goes to every follower, who has none of it.
LEMMA DispatchPlaces ==
  ASSUME DynamicsIInv, Dispatches PROVE OnePlace'
  <1>1. /\ newsChan' = <<>> /\ UNCHANGED <<posts, marked, page, cards, sendingNews, toldNews>>
        /\ inbox' = [g \in NewsGroups |-> IF g \in followers THEN inbox[g] \o newsChan ELSE inbox[g]]
    BY DEF Dispatches, postVars, toldVars
  <1>2. OnePlace /\ newsChan \in Seq(Posts) /\ \A g \in NewsGroups : inbox[g] \in Seq(Posts)
    BY DEF DynamicsIInv, DynamicsTypeOK
  <1>3. Range(<<>>) = {} /\ IsInjective(<<>>)
    BY DEF Range, IsInjective
  <1>4. /\ Waiting = Range(cards) \cup Range(newsChan) /\ Waiting' = Range(cards)
        /\ \A g : Reached(g)' = Reached(g)
    BY <1>1, <1>3 DEF Waiting, Reached
  <1>5. ASSUME NEW g \in NewsGroups
        PROVE  Range(inbox'[g]) \subseteq Range(inbox[g]) \cup Range(newsChan) /\ IsInjective(inbox'[g])
    <2>1. IsInjective(newsChan) /\ IsInjective(inbox[g]) /\ Range(inbox[g]) \cap Range(newsChan) = {}
      BY <1>2, <1>4 DEF OnePlace
    <2>2. /\ Range(inbox[g] \o newsChan) = Range(inbox[g]) \cup Range(newsChan)
          /\ IsInjective(inbox[g] \o newsChan)
      BY <1>2, <2>1, Concatenates
    <2> QED
      BY <1>1, <2>1, <2>2
  <1>6. Range(cards) \cap Range(newsChan) = {}
    BY <1>2 DEF OnePlace
  <1> QED
    BY <1>1, <1>2, <1>3, <1>4, <1>5, <1>6 DEF OnePlace

\* The head of a group's queue leaves it for the message.
LEMMA PreparePlaces ==
  ASSUME DynamicsIInv, NEW g \in NewsGroups, Prepares(g) PROVE OnePlace'
  <1>a. PICK p : p = Head(inbox[g])
    OBVIOUS
  <1>1. /\ inbox[g] # <<>> /\ inbox' = [inbox EXCEPT ![g] = Tail(@)]
        /\ UNCHANGED <<posts, marked, page, cards, newsChan>>
    BY DEF Prepares, feedVars
  <1>2. OnePlace /\ inbox \in [NewsGroups -> Seq(Posts)]
    BY DEF DynamicsIInv, DynamicsTypeOK
  <1>3. \A h \in NewsGroups : Reached(h)' \subseteq Reached(h) \cup (IF h = g THEN {p} ELSE {})
    BY <1>a, PrepareMessages
  <1>4. /\ inbox'[g] = Tail(inbox[g]) /\ \A h \in NewsGroups : h # g => inbox'[h] = inbox[h]
    BY <1>1, <1>2
  <1>5. IsInjective(inbox[g])
    BY <1>2 DEF OnePlace
  <1>6. /\ Range(inbox[g]) = Range(Tail(inbox[g])) \cup {p}
        /\ IsInjective(Tail(inbox[g])) /\ p \notin Range(Tail(inbox[g]))
    BY <1>a, <1>1, <1>2, <1>5, TakesHead
  <1>7. Waiting' = Waiting
    BY <1>1 DEF Waiting
  <1>8. ASSUME NEW h \in NewsGroups
        PROVE  /\ IsInjective(inbox'[h])
               /\ Range(inbox'[h]) \cup Reached(h)' \subseteq marked
               /\ Range(inbox'[h]) \cap (Waiting \cup Reached(h)') = {}
               /\ Waiting \cap Reached(h)' = {}
    <2>1. /\ IsInjective(inbox[h]) /\ Range(inbox[h]) \cup Reached(h) \subseteq marked
          /\ Range(inbox[h]) \cap (Waiting \cup Reached(h)) = {} /\ Waiting \cap Reached(h) = {}
      BY <1>2 DEF OnePlace
    <2>2. CASE h = g
      BY <1>3, <1>4, <1>6, <2>1, <2>2
    <2>3. CASE h # g
      BY <1>3, <1>4, <2>1, <2>3
    <2> QED
      BY <2>2, <2>3
  <1> QED
    BY <1>1, <1>2, <1>7, <1>8 DEF OnePlace

\* Every step leaves a dynamic in one place.
LEMMA PlacesKept == DynamicsIInv /\ [DynamicsNext]_dynamicVars => OnePlace'
  <1> SUFFICES ASSUME DynamicsIInv, [DynamicsNext]_dynamicVars PROVE OnePlace'
    OBVIOUS
  <1> USE DEF postVars, dbVars, feedVars, sendVars, toldVars
  <1>1. OnePlace /\ posts \in Seq([key : Posts, compacts : BOOLEAN])
    BY DEF DynamicsIInv, DynamicsTypeOK
  <1>2. Len(posts) \in Nat /\ Range(page) \subseteq 1..Len(posts)
    BY <1>1 DEF OnePlace
  <1>3. CASE Publishes
    <2>1. UNCHANGED <<page, marked, cards, newsChan, inbox>> /\ \E x : posts' = Append(posts, x)
      BY <1>3 DEF Publishes
    <2>2. Len(posts') = Len(posts) + 1
      BY <1>1, <2>1
    <2>3. \A g \in NewsGroups : Reached(g)' \subseteq Reached(g)
      BY <1>3, PublishMessages
    <2> QED
      BY <1>1, <1>2, <2>1, <2>2, <2>3, SamePlaces
  <1>4. CASE FetchesFeed
    <2>1. page' = Feed /\ UNCHANGED <<posts, marked, cards, newsChan, inbox, sendingNews, toldNews>>
      BY <1>4 DEF FetchesFeed
    <2>2. Range(Feed) \subseteq 1..Len(posts)
      BY FeedTypes DEF DynamicsIInv
    <2>3. \A g \in NewsGroups : Reached(g)' \subseteq Reached(g)
      BY <2>1 DEF Reached
    <2> QED
      BY <1>1, <1>2, <2>1, <2>2, <2>3, SamePlaces
  <1>5. ASSUME NEW m \in sendingNews, Sent(m) PROVE OnePlace'
    <2>1. UNCHANGED <<posts, page, marked, cards, newsChan, inbox>>
      BY <1>5 DEF Sent
    <2>2. \A g \in NewsGroups : Reached(g)' \subseteq Reached(g)
      BY <1>5, SentMessages
    <2> QED
      BY <1>1, <1>2, <2>1, <2>2, SamePlaces
  <1>6. CASE ComesOnline \/ (\E g \in NewsGroups : AddsFollower(g) \/ FollowWork(g) \/ Leaves(g))
             \/ UNCHANGED dynamicVars
    <2>1. UNCHANGED <<posts, page, marked, cards, newsChan, inbox, sendingNews, toldNews>>
      BY <1>6 DEF ComesOnline, AddsFollower, FollowWork, AddStamps, AddSaves, Leaves, dynamicVars
    <2>2. \A g \in NewsGroups : Reached(g)' \subseteq Reached(g)
      BY <2>1 DEF Reached
    <2> QED
      BY <1>1, <1>2, <2>1, <2>2, SamePlaces
  <1> QED
    BY <1>3, <1>4, <1>5, <1>6, RestartPlaces, FilterPlaces, CollectPlaces, DispatchPlaces, PreparePlaces
    DEF DynamicsNext, FeedRound, Notify

\* Every step keeps the messages apart, and the marks true.
LEMMA MessagesKept ==
    DynamicsIInv /\ [DynamicsNext]_dynamicVars => OneMessage' /\ Explained' /\ FullOnce'
  <1> SUFFICES ASSUME DynamicsIInv, [DynamicsNext]_dynamicVars
               PROVE  OneMessage' /\ Explained' /\ FullOnce'
    OBVIOUS
  <1>1. CASE Publishes \/ DynamicsRestart \/ Notify
    BY <1>1, PublishMessages, RestartMessages, PrepareMessages, SentMessages DEF Notify
  <1>2. CASE ComesOnline \/ FeedRound \/ Dispatches
             \/ (\E g \in NewsGroups : AddsFollower(g) \/ FollowWork(g) \/ Leaves(g))
             \/ UNCHANGED dynamicVars
    <2> USE DEF postVars, dbVars, feedVars, sendVars, toldVars
    <2>1. UNCHANGED <<posts, sendingNews, compacted, notifyMsg, toldNews>> /\ lost \subseteq lost'
      BY <1>2 DEF ComesOnline, FeedRound, FetchesFeed, FilterCard, Collects, Dispatches, AddsFollower,
                  FollowWork, AddStamps, AddSaves, Leaves, dynamicVars
    <2> QED
      BY <2>1, QuietMessages
  <1> QED
    BY <1>1, <1>2 DEF DynamicsNext

\* At first nothing is marked and nothing under way.
LEMMA DynamicsInitIInv == DynamicsInit => DynamicsIInv
  <1> SUFFICES ASSUME DynamicsInit PROVE DynamicsIInv
    OBVIOUS
  <1>1. DynamicsTypeOK
    BY DynamicsInitTypes
  <1>2. /\ posts = <<>> /\ page = <<>> /\ cards = <<>> /\ newsChan = <<>> /\ marked = {} /\ sendingNews = {}
        /\ compacted = {} /\ notifyMsg = {}
        /\ \A g \in NewsGroups : inbox[g] = <<>> /\ \A p \in Posts : toldNews[g][p] = <<>>
    BY DEF DynamicsInit, NeverTold
  <1>3. Range(<<>>) = {} /\ IsInjective(<<>>) /\ 1..Len(posts) = {}
    BY <1>2 DEF Range, IsInjective
  <1>4. Waiting = {} /\ \A g \in NewsGroups : Reached(g) = {}
    BY <1>2, <1>3 DEF Waiting, Reached
  <1>5. OnePlace
    BY <1>2, <1>3, <1>4 DEF OnePlace
  <1>6. OneMessage
    BY <1>2 DEF OneMessage
  <1>7. Explained /\ FullOnce
    BY <1>2, <1>3 DEF Explained, FullOnce
  <1> QED
    BY <1>1, <1>5, <1>6, <1>7 DEF DynamicsIInv

\* The invariant of Dynamics holds in every behaviour.
LEMMA DynamicsInductive == DynamicsSpec => []DynamicsIInv
  <1>1. DynamicsIInv /\ [DynamicsNext]_dynamicVars => DynamicsIInv'
    BY DynamicsNextTypes, PlacesKept, MessagesKept DEF DynamicsIInv
  <1> QED
    BY <1>1, DynamicsInitIInv, PTL DEF DynamicsSpec

\* Every variable stays in its range.
THEOREM DynamicsTypeCorrect == DynamicsSpec => []DynamicsTypeOK
  <1>1. DynamicsIInv => DynamicsTypeOK
    BY DEF DynamicsIInv
  <1> QED
    BY <1>1, DynamicsInductive, PTL

\* No group gets a dynamic twice, nor two in full about one thing, nor a short form of
\* what it was not shown, whatever fails, restarts and overlaps: filterCard marks before
\* anything is cut or sent, and a mark of the short form is undone with its message.
THEOREM DynamicsAreShownOnce == DynamicsSpec => []DynamicsShownOnce
  <1>1. ASSUME DynamicsIInv PROVE DynamicsShownOnce
    <2>1. /\ DynamicsTypeOK /\ OneMessage /\ Explained /\ FullOnce
          /\ \A g \in NewsGroups, p \in Posts : toldNews[g][p] \in {<<>>} \cup {<<f>> : f \in Forms}
      BY <1>1 DEF DynamicsIInv, OneMessage
    <2>2. PushedOnce
      <3> SUFFICES ASSUME NEW g \in NewsGroups, NEW p \in Posts PROVE Len(toldNews[g][p]) <= 1
        BY DEF PushedOnce
      <3>1. CASE toldNews[g][p] = <<>>
        BY <3>1
      <3>2. ASSUME NEW f \in Forms, toldNews[g][p] = <<f>> PROVE Len(toldNews[g][p]) <= 1
        BY <3>2
      <3> QED
        BY <2>1, <3>1, <3>2
    <2>3. ASSUME NEW g \in NewsGroups, NEW p \in 1..Len(posts)
          PROVE  /\ toldNews[g][p] \in {<<"bare">>, <<"quote">>} => Shown(g, Key(p))
                 /\ toldNews[g][p] = <<"quote">> => Quotable(g, Key(p))
      <3>1. Key(p) \in Posts /\ {"bare", "quote"} \subseteq Forms
        BY <2>1, KeyTypes DEF Forms
      <3>2. toldNews[g][p] \in {<<"bare">>, <<"quote">>} => \E f \in Forms : Gets(g, p, f)
        BY <3>1 DEF Gets
      <3>3. toldNews[g][p] = <<"quote">> => Gets(g, p, "quote")
        BY DEF Gets
      <3> QED
        BY <2>1, <3>1, <3>2, <3>3 DEF Explained
    <2>4. ShownBefore
      BY <2>3, FullIsGot DEF ShownBefore, Shown, Quotable
    <2> QED
      BY <2>1, <2>2, <2>4 DEF DynamicsShownOnce
  <1> QED
    BY <1>1, DynamicsInductive, PTL

-----------------------------------------------------------------------------
(* LiveStatus *)

\* An event that tells that broadcast n has begun.
Begins(event, n) == event.changed /\ event.info.status = "living" /\ event.info.nr = n

\* A round compares with what it has found: the end of a broadcast is stored only
\* when it is true, and a LiveInfo never falls behind the one before.
Truthful ==
    /\ air # "off" => broadcast # 0
    /\ stored.nr <= broadcast /\ found.nr <= broadcast /\ new.info.nr <= broadcast
    /\ stored.status = "over" => stored.nr < broadcast \/ air = "off"
    /\ found.status \in {"none", "living"}
    /\ found.status = "living" =>
          stored.nr <= found.nr /\ (stored.status = "over" => stored.nr < found.nr)
    /\ phase = "confirm" => new.info.status = "over" /\ new.changed /\ found = NoInfo
    /\ phase = "send" =>
          \/ /\ new.info.status = "over" /\ new.changed /\ found = NoInfo
             /\ new.info.nr < broadcast \/ air = "off"
          \/ /\ new.info.status = "living" /\ found.status = "living"
             /\ new.info.nr <= found.nr
             /\ new.changed => new.info = found /\ stored.nr < new.info.nr

\* Only what has a status is sent.
Spoken ==
    /\ phase = "emit" => new.info.status # "none"
    /\ \A i \in 1..Len(eventChan) : eventChan[i].info.status # "none"
    /\ \A d \in Dispatchers : dispatch[d].to # {} => dispatch[d].event.info.status # "none"

\* While a command adds a group, no round and no event is under way, and the
\* LiveInfo it has read is still the one in the database.
Calm ==
    /\ ~NoAdd => phase = "idle" /\ Delivered
    /\ phase \in {"confirm", "send"} /\ watchers # {} /\ (new.info.status = "over" \/ ~new.changed) =>
          stored.status = "living" /\ stored.nr = new.info.nr
    /\ \A g \in Groups :
          /\ adding[g] = "read" => stored.status # "living"
          /\ adding[g] \in {"saw", "read"} => g \notin watchers
          /\ adding[g] = "watch" => told[g] = "none" /\ \A n \in 1..MaxBroadcasts : heard[g][n] = 0

InChan(n) == \E i \in 1..Len(eventChan) : Begins(eventChan[i], n)
InDispatch(n) == \E d \in Dispatchers : Begins(dispatch[d].event, n)
Heard(n) == \E g \in watchers : heard[g][n] # 0
AtEmit(n) == phase = "emit" /\ Begins(new, n)

\* To a group that has heard of broadcast n nothing is on its way that tells it again.
OnceEach ==
    \A g \in Groups, n \in 1..MaxBroadcasts :
        /\ heard[g][n] <= 1
        /\ \A d \in Dispatchers :
              Begins(dispatch[d].event, n) /\ g \in dispatch[d].to =>
                 /\ heard[g][n] = 0
                 /\ \A e \in Dispatchers :
                       Begins(dispatch[e].event, n) /\ g \in dispatch[e].to => d = e

\* While somebody watches, one event at most tells of broadcast n, and the LiveInfo
\* has got as far.
OneEvent ==
    watchers # {} => \A n \in 1..MaxBroadcasts :
        /\ AtEmit(n) \/ InChan(n) \/ InDispatch(n) \/ Heard(n) => n <= stored.nr
        /\ AtEmit(n) => ~InChan(n)
        /\ AtEmit(n) \/ InChan(n) => ~InDispatch(n) /\ ~Heard(n)
        /\ \A i, j \in 1..Len(eventChan) : Begins(eventChan[i], n) /\ Begins(eventChan[j], n) => i = j

\* A LiveInfo says the same as the one in the database.
Agrees(live) ==
    IF live THEN stored.status # "over" ELSE stored.status # "living"

EmitsChange == phase = "emit" /\ new.changed
ChanChanges == \E i \in 1..Len(eventChan) : eventChan[i].changed
Told(g) == \E d \in Dispatchers : g \in dispatch[d].to /\ dispatch[d].event.changed

\* The last word on its way to a group, or the last it has got, is that of the database.
LastWord ==
    watchers # {} /\ ~missed =>
        /\ EmitsChange => Agrees(new.info.status = "living")
        /\ ~EmitsChange =>
              \A i \in 1..Len(eventChan) :
                  eventChan[i].changed /\ (\A j \in (i + 1)..Len(eventChan) : ~eventChan[j].changed) =>
                      Agrees(eventChan[i].info.status = "living")
        /\ ~EmitsChange /\ ~ChanChanges =>
              /\ \A d \in Dispatchers :
                    dispatch[d].to # {} /\ dispatch[d].event.changed =>
                        Agrees(dispatch[d].event.info.status = "living")
              /\ \A g \in watchers : adding[g] = "no" /\ ~Told(g) => Agrees(told[g] = "on")

\* The machine has fewer than three CPUs.
OneDispatcher == \A d, e \in Dispatchers : d = e

\* The inductive invariant of LiveStatus.
LiveIInv ==
    /\ TypeOK /\ Truthful /\ Spoken
    /\ AddOverlaps = FALSE => Calm /\ OnceEach /\ OneEvent
    /\ AddOverlaps = FALSE /\ OneDispatcher => LastWord

\* The three kinds of LiveInfo, and their fields.
LEMMA InfoTypes ==
    /\ EventCap \in Nat /\ MaxBroadcasts \in Nat /\ MaxFaults \in Nat
    /\ NoInfo \in Infos /\ NoInfo.status = "none" /\ NoInfo.nr = 0
    /\ \A t \in Titles, n \in 1..MaxBroadcasts : Living(t, n) \in Infos
    /\ \A n \in 1..MaxBroadcasts : Over(n) \in Infos
    /\ \A t, n : Living(t, n).status = "living" /\ Living(t, n).nr = n /\ Living(t, n).title = t
    /\ \A n : Over(n).status = "over" /\ Over(n).nr = n
    /\ \A i \in Infos :
          /\ i.status \in {"none", "living", "over"}
          /\ i.status = "none" => i = NoInfo
          /\ i.status # "none" => i.nr \in 1..MaxBroadcasts
          /\ i.status = "living" => i.title \in Titles
          /\ i.nr \in Nat
  <1>1. EventCap \in Nat /\ MaxBroadcasts \in Nat /\ MaxFaults \in Nat
    BY LiveStatusAssumption
  <1>2. /\ NoInfo.status = "none" /\ NoInfo.nr = 0
        /\ \A t, n : Living(t, n).status = "living" /\ Living(t, n).nr = n /\ Living(t, n).title = t
        /\ \A n : Over(n).status = "over" /\ Over(n).nr = n
    BY DEF NoInfo, Living, Over
  <1>3. /\ NoInfo \in Infos
        /\ \A t \in Titles, n \in 1..MaxBroadcasts : Living(t, n) \in Infos
        /\ \A n \in 1..MaxBroadcasts : Over(n) \in Infos
    BY DEF Infos
  <1>4. ASSUME NEW i \in Infos
        PROVE  \/ i = NoInfo
               \/ \E t \in Titles, n \in 1..MaxBroadcasts : i = Living(t, n)
               \/ \E n \in 1..MaxBroadcasts : i = Over(n)
    BY DEF Infos
  <1>5. ASSUME NEW i \in Infos
        PROVE  /\ i.status \in {"none", "living", "over"}
               /\ i.status = "none" => i = NoInfo
               /\ i.status # "none" => i.nr \in 1..MaxBroadcasts
               /\ i.status = "living" => i.title \in Titles
               /\ i.nr \in Nat
    <2>1. CASE i = NoInfo
      BY <1>2, <2>1
    <2>2. ASSUME NEW t \in Titles, NEW n \in 1..MaxBroadcasts, i = Living(t, n)
          PROVE  i.status = "living" /\ i.nr \in 1..MaxBroadcasts /\ i.title \in Titles
      BY <1>2, <2>2
    <2>3. ASSUME NEW n \in 1..MaxBroadcasts, i = Over(n)
          PROVE  i.status = "over" /\ i.nr \in 1..MaxBroadcasts
      BY <1>2, <2>3
    <2> QED
      BY <1>1, <1>4, <2>1, <2>2, <2>3
  <1> QED
    BY <1>1, <1>2, <1>3, <1>5

\* The fields of an event.
LEMMA EventTypes ==
    /\ NoEvent \in EventsToSend /\ NoEvent.info = NoInfo /\ NoEvent.changed = FALSE
    /\ \A i \in Infos, c \in BOOLEAN : Event(i, c) \in EventsToSend
    /\ \A i, c : Event(i, c).info = i /\ Event(i, c).changed = c
    /\ \A e \in EventsToSend : e.info \in Infos /\ e.changed \in BOOLEAN
    /\ Free \in [event : EventsToSend, to : SUBSET Groups] /\ Free.event = NoEvent /\ Free.to = {}
  <1>1. \A i, c : Event(i, c).info = i /\ Event(i, c).changed = c
    BY DEF Event
  <1>2. \A i \in Infos, c \in BOOLEAN : Event(i, c) \in EventsToSend
    BY DEF EventsToSend
  <1>3. NoEvent \in EventsToSend /\ NoEvent.info = NoInfo /\ NoEvent.changed = FALSE
    <2>1. NoInfo \in Infos /\ FALSE \in BOOLEAN
      BY InfoTypes
    <2>2. Event(NoInfo, FALSE) \in EventsToSend
      BY <1>2, <2>1, Zenon
    <2> QED
      BY <1>1, <2>2, Zenon DEF NoEvent
  <1>4. \A e \in EventsToSend : e.info \in Infos /\ e.changed \in BOOLEAN
    BY <1>1 DEF EventsToSend
  <1> QED
    BY <1>1, <1>2, <1>3, <1>4 DEF Free

\* The types of what is in the database and of a round.
LEMMA RoundTypes ==
  ASSUME TypeOK
  PROVE  /\ air \in Titles \cup {"off"} /\ broadcast \in 0..MaxBroadcasts /\ broadcast \in Nat
         /\ stored \in Infos /\ found \in Infos /\ new \in EventsToSend /\ new.info \in Infos
         /\ new.changed \in BOOLEAN /\ stored.nr \in Nat /\ found.nr \in Nat /\ new.info.nr \in Nat
         /\ freshCount \in 0..AllSent /\ notLive \in 0..2 /\ missed \in BOOLEAN
         /\ watchers \subseteq Groups /\ leaving \subseteq Groups
  <1>1. /\ air \in Titles \cup {"off"} /\ broadcast \in 0..MaxBroadcasts
        /\ stored \in Infos /\ found \in Infos /\ new \in EventsToSend
        /\ freshCount \in 0..AllSent /\ notLive \in 0..2 /\ missed \in BOOLEAN
        /\ watchers \subseteq Groups /\ leaving \subseteq Groups
    BY DEF TypeOK
  <1>2. broadcast \in Nat
    BY <1>1, InfoTypes
  <1>3. new.info \in Infos /\ new.changed \in BOOLEAN
    BY <1>1, EventTypes
  <1>4. stored.nr \in Nat /\ found.nr \in Nat /\ new.info.nr \in Nat
    BY <1>1, <1>3, InfoTypes
  <1> QED
    BY <1>1, <1>2, <1>3, <1>4

\* The types of the dispatchers, the calls and the history.
LEMMA CallTypes ==
  ASSUME TypeOK
  PROVE  /\ eventChan \in Seq(EventsToSend) /\ Len(eventChan) \in Nat /\ Len(eventChan) <= EventCap
         /\ \A i \in 1..Len(eventChan) :
               /\ eventChan[i] \in EventsToSend /\ eventChan[i].info \in Infos
               /\ eventChan[i].changed \in BOOLEAN
         /\ dispatch \in [Dispatchers -> [event : EventsToSend, to : SUBSET Groups]]
         /\ \A d \in Dispatchers :
               /\ dispatch[d].event \in EventsToSend /\ dispatch[d].to \subseteq Groups
               /\ dispatch[d].event.info \in Infos /\ dispatch[d].event.changed \in BOOLEAN
               /\ dispatch[d] = [event |-> dispatch[d].event, to |-> dispatch[d].to]
         /\ adding \in [Groups -> {"no", "read", "saw", "watch"}]
         /\ told \in [Groups -> {"none", "on", "over"}]
         /\ heard \in [Groups -> [1..MaxBroadcasts -> Nat]]
  <1>1. /\ eventChan \in Seq(EventsToSend) /\ Len(eventChan) <= EventCap
        /\ dispatch \in [Dispatchers -> [event : EventsToSend, to : SUBSET Groups]]
        /\ adding \in [Groups -> {"no", "read", "saw", "watch"}]
        /\ told \in [Groups -> {"none", "on", "over"}]
        /\ heard \in [Groups -> [1..MaxBroadcasts -> Nat]]
    BY DEF TypeOK
  <1>2. Len(eventChan) \in Nat /\ \A i \in 1..Len(eventChan) : eventChan[i] \in EventsToSend
    BY <1>1
  <1>3. \A i \in 1..Len(eventChan) : eventChan[i].info \in Infos /\ eventChan[i].changed \in BOOLEAN
    BY <1>2, EventTypes
  <1>4. ASSUME NEW d \in Dispatchers
        PROVE  /\ dispatch[d].event \in EventsToSend /\ dispatch[d].to \subseteq Groups
               /\ dispatch[d] = [event |-> dispatch[d].event, to |-> dispatch[d].to]
    BY <1>1
  <1>5. \A d \in Dispatchers : dispatch[d].event.info \in Infos /\ dispatch[d].event.changed \in BOOLEAN
    BY <1>4, EventTypes
  <1> QED
    BY <1>1, <1>2, <1>3, <1>4, <1>5

\* What Tell does to g, and that it does nothing to any other.
LEMMA Tells ==
  ASSUME TypeOK, NEW g \in Groups, NEW event \in EventsToSend, Tell(g, event)
  PROVE  /\ told' \in [Groups -> {"none", "on", "over"}] /\ heard' \in [Groups -> [1..MaxBroadcasts -> Nat]]
         /\ \A h \in Groups : h # g => told'[h] = told[h] /\ heard'[h] = heard[h]
         /\ ~event.changed => told'[g] = told[g]
         /\ event.changed /\ event.info.status = "living" => told'[g] = "on"
         /\ event.changed /\ event.info.status = "over" => told'[g] = "over"
         /\ \A n \in 1..MaxBroadcasts :
               /\ Begins(event, n) => heard'[g][n] = heard[g][n] + 1
               /\ heard'[g][n] # heard[g][n] => event.info.status # "over" /\ event.changed /\ event.info.nr = n
  <1>1. told \in [Groups -> {"none", "on", "over"}] /\ heard \in [Groups -> [1..MaxBroadcasts -> Nat]]
    BY CallTypes
  <1>2. CASE ~event.changed
    BY <1>1, <1>2 DEF Tell, Begins
  <1>3. CASE event.changed /\ event.info.status = "over"
    BY <1>1, <1>3 DEF Tell, Begins
  <1>4. CASE event.changed /\ event.info.status # "over"
    <2>1. /\ told' = [told EXCEPT ![g] = "on"]
          /\ heard' = [heard EXCEPT ![g][event.info.nr] = @ + 1]
      BY <1>4 DEF Tell
    <2>2. heard[g] \in [1..MaxBroadcasts -> Nat] /\ MaxBroadcasts \in Nat
      BY <1>1, InfoTypes
    <2>a. PICK f : f = [n \in 1..MaxBroadcasts |-> IF n = event.info.nr THEN heard[g][n] + 1 ELSE heard[g][n]]
      OBVIOUS
    <2>b. f \in [1..MaxBroadcasts -> Nat]
      <3>1. \A n \in 1..MaxBroadcasts : heard[g][n] \in Nat /\ heard[g][n] + 1 \in Nat
        BY <2>2
      <3> QED
        BY <2>a, <3>1
    <2>c. f = [heard[g] EXCEPT ![event.info.nr] = @ + 1]
      <3>1. CASE event.info.nr \in 1..MaxBroadcasts
        BY <2>2, <2>a, <3>1
      <3>2. CASE event.info.nr \notin 1..MaxBroadcasts
        <4>1. f = heard[g]
          BY <2>2, <2>a, <3>2
        <4> QED
          BY <2>2, <3>2, <4>1
      <3> QED
        BY <3>1, <3>2
    <2>3. /\ [heard[g] EXCEPT ![event.info.nr] = @ + 1] \in [1..MaxBroadcasts -> Nat]
          /\ \A n \in 1..MaxBroadcasts :
                /\ n = event.info.nr => [heard[g] EXCEPT ![event.info.nr] = @ + 1][n] = heard[g][n] + 1
                /\ n # event.info.nr => [heard[g] EXCEPT ![event.info.nr] = @ + 1][n] = heard[g][n]
      BY <2>a, <2>b, <2>c
    <2>4. heard' \in [Groups -> [1..MaxBroadcasts -> Nat]]
      BY <1>1, <2>1, <2>3
    <2>5. \A h \in Groups : h # g => told'[h] = told[h] /\ heard'[h] = heard[h]
      BY <1>1, <2>1
    <2>6. told' \in [Groups -> {"none", "on", "over"}] /\ told'[g] = "on"
      BY <1>1, <2>1
    <2>7. heard'[g] = [heard[g] EXCEPT ![event.info.nr] = @ + 1]
      BY <1>1, <2>1
    <2> QED
      BY <1>4, <2>3, <2>4, <2>5, <2>6, <2>7 DEF Begins
  <1> QED
    BY <1>2, <1>3, <1>4

\* At first nobody is live, nobody watches, and nothing is on its way.
LEMMA LiveInitIInv == Init => LiveIInv
  <1> SUFFICES ASSUME Init PROVE LiveIInv
    OBVIOUS
  <1>1. /\ air = "off" /\ broadcast = 0 /\ faults = 0 /\ watchers = {} /\ stored = NoInfo /\ notLive = 0
        /\ freshCount \in {0, 3} /\ phase = "idle" /\ found = NoInfo /\ new = NoEvent /\ eventChan = <<>>
        /\ dispatch = [d \in Dispatchers |-> Free] /\ adding = [g \in Groups |-> "no"] /\ leaving = {}
        /\ told = [g \in Groups |-> "none"]
        /\ heard = [g \in Groups |-> [n \in 1..MaxBroadcasts |-> 0]] /\ missed = FALSE
    BY DEF Init, FirstCount, AllSent
  <1>2. eventChan \in Seq(EventsToSend) /\ Len(eventChan) <= EventCap /\ 1..Len(eventChan) = {}
    BY <1>1, InfoTypes
  <1>3. broadcast \in 0..MaxBroadcasts /\ faults \in 0..MaxFaults /\ freshCount \in 0..AllSent
    BY <1>1, InfoTypes DEF AllSent
  <1>4. heard \in [Groups -> [1..MaxBroadcasts -> Nat]]
    BY <1>1
  <1>5. dispatch \in [Dispatchers -> [event : EventsToSend, to : SUBSET Groups]]
    BY <1>1, EventTypes
  <1>a. adding \in [Groups -> {"no", "read", "saw", "watch"}] /\ told \in [Groups -> {"none", "on", "over"}]
    BY <1>1
  <1>b. /\ air \in Titles \cup {"off"} /\ stored \in Infos /\ notLive \in 0..2 /\ found \in Infos
        /\ new \in EventsToSend /\ missed \in BOOLEAN
        /\ phase \in {"idle", "list", "compare", "confirm", "send", "emit", "end"}
        /\ watchers \subseteq Groups /\ leaving \subseteq Groups
    <2>4. missed \in BOOLEAN
      BY <1>1, Zenon
    <2>1. /\ notLive \in 0..2
          /\ phase \in {"idle", "list", "compare", "confirm", "send", "emit", "end"}
          /\ watchers \subseteq Groups /\ leaving \subseteq Groups
      BY <1>1
    <2>2. stored \in Infos /\ found \in Infos
      BY <1>1, InfoTypes, Zenon
    <2>3. air \in Titles \cup {"off"} /\ new \in EventsToSend
      BY <1>1, EventTypes, Zenon
    <2> QED
      BY <2>1, <2>2, <2>3, <2>4
  <1>6. TypeOK
    BY <1>2, <1>3, <1>4, <1>5, <1>a, <1>b DEF TypeOK
  <1>7. Truthful
    BY <1>1, InfoTypes, EventTypes DEF Truthful
  <1>8. Spoken
    BY <1>1, <1>2, EventTypes DEF Spoken
  <1>9. Calm
    BY <1>1 DEF Calm, NoAdd
  <1>10. OnceEach
    BY <1>1, EventTypes DEF OnceEach, Begins
  <1>11. OneEvent /\ LastWord
    BY <1>1 DEF OneEvent, LastWord
  <1> QED
    BY <1>6, <1>7, <1>8, <1>9, <1>10, <1>11 DEF LiveIInv

\* The faults stay within their bound.
LEMMA FaultTypes ==
  ASSUME TypeOK, Fault \/ UNCHANGED faults PROVE faults' \in 0..MaxFaults
  <1>1. faults \in 0..MaxFaults
    BY DEF TypeOK
  <1> QED
    BY <1>1, InfoTypes DEF Fault

\* The user, an expiry and a restart keep every variable in its range, ...
LEMMA WorldTypes == ASSUME TypeOK, World PROVE TypeOK'
  <1> USE DEF worldVars, roundVars, infoVars, dispVars, callVars
  <1>1. CASE GoesLive
    <2>1. /\ broadcast < MaxBroadcasts /\ broadcast' = broadcast + 1 /\ air' \in Titles
          /\ UNCHANGED <<faults, roundVars, infoVars, dispVars, callVars, missed>>
      BY <1>1 DEF GoesLive
    <2>2. broadcast' \in 0..MaxBroadcasts
      BY <2>1, InfoTypes, RoundTypes
    <2> QED
      BY <2>1, <2>2 DEF TypeOK
  <1>2. CASE GoesOff
    <2>1. air' = "off" /\ UNCHANGED <<broadcast, faults, roundVars, infoVars, dispVars, callVars, missed>>
      BY <1>2 DEF GoesOff
    <2> QED
      BY <2>1 DEF TypeOK
  <1>3. CASE Retitles
    <2>1. /\ air' \in Titles /\ faults' \in 0..MaxFaults
          /\ UNCHANGED <<broadcast, roundVars, infoVars, dispVars, callVars, missed>>
      BY <1>3, FaultTypes DEF Retitles
    <2> QED
      BY <2>1 DEF TypeOK
  <1>4. CASE Expires
    <2>1. /\ stored' = NoInfo /\ missed' = TRUE /\ faults' \in 0..MaxFaults
          /\ heard' = [g \in Groups |-> [n \in 1..MaxBroadcasts |-> 0]]
          /\ UNCHANGED <<air, broadcast, notLive, roundVars, eventChan, dispatch, told, callVars>>
      BY <1>4, FaultTypes DEF Expires
    <2>2. heard' \in [Groups -> [1..MaxBroadcasts -> Nat]]
      BY <2>1
    <2>3. stored' \in Infos
      BY <2>1, InfoTypes
    <2> QED
      BY <2>1, <2>2, <2>3 DEF TypeOK
  <1>5. CASE Restarts
    <2>1. /\ freshCount' \in {0, 3} /\ phase' = "idle" /\ found' = NoInfo /\ new' = NoEvent
          /\ eventChan' = <<>> /\ dispatch' = [d \in Dispatchers |-> Free]
          /\ adding' = [g \in Groups |-> "no"] /\ leaving' = {}
          /\ faults' \in 0..MaxFaults
          /\ UNCHANGED <<air, broadcast, watchers, infoVars, told, heard>>
      BY <1>5, FaultTypes DEF Restarts, FirstCount, AllSent
    <2>2. missed' \in BOOLEAN
      <3>1. missed' = (missed \/ phase = "emit" \/ ~Delivered \/ ~NoAdd) /\ missed \in BOOLEAN
        BY <1>5, RoundTypes DEF Restarts
      <3> QED
        BY <3>1
    <2>3. found' \in Infos /\ new' \in EventsToSend
      BY <2>1, InfoTypes, EventTypes, Zenon
    <2>4. eventChan' \in Seq(EventsToSend) /\ Len(eventChan') <= EventCap
      BY <2>1, InfoTypes
    <2>5. dispatch' \in [Dispatchers -> [event : EventsToSend, to : SUBSET Groups]]
      BY <2>1, EventTypes
    <2>6. freshCount' \in 0..AllSent /\ adding' \in [Groups -> {"no", "read", "saw", "watch"}]
      BY <2>1 DEF AllSent
    <2> QED
      BY <2>1, <2>2, <2>3, <2>4, <2>5, <2>6 DEF TypeOK
  <1> QED
    BY <1>1, <1>2, <1>3, <1>4, <1>5 DEF World

\* ... so does a round, ...
LEMMA RoundKeepsTypes == ASSUME TypeOK, Truthful, Round PROVE TypeOK'
  <1> USE DEF worldVars, roundVars, infoVars, dispVars, callVars
  <1> DEFINE Phases == {"idle", "list", "compare", "confirm", "send", "emit", "end"}
  <1>1. CASE Fetches
    <2>1. /\ phase' \in {"list", "end"} /\ faults' \in 0..MaxFaults
          /\ found' = NoInfo \/ (air # "off" /\ found' = Living(air, broadcast))
          /\ UNCHANGED <<air, broadcast, new, freshCount, infoVars, dispVars, callVars, missed>>
      BY <1>1, FaultTypes DEF Fetches
    <2>2. air # "off" => air \in Titles /\ broadcast \in 1..MaxBroadcasts
      BY RoundTypes, InfoTypes DEF Truthful
    <2>3. found' \in Infos
      BY <2>1, <2>2, InfoTypes
    <2> QED
      BY <2>1, <2>3 DEF TypeOK
  <1>2. CASE Lists
    <2>1. /\ phase' \in Phases
          /\ UNCHANGED <<worldVars, found, new, freshCount, infoVars, dispVars, callVars, missed>>
      BY <1>2 DEF Lists
    <2> QED
      BY <2>1 DEF TypeOK
  <1>3. CASE ComparesOff
    <2>1. /\ phase' \in Phases /\ new' = Event(found, TRUE)
          /\ UNCHANGED <<worldVars, found, freshCount, infoVars, dispVars, callVars, missed>>
      BY <1>3 DEF ComparesOff
    <2>2. new' \in EventsToSend
      <3>1. found \in Infos /\ TRUE \in BOOLEAN
        BY RoundTypes
      <3> QED
        BY <2>1, <3>1, EventTypes, Zenon
    <2> QED
      BY <2>1, <2>2 DEF TypeOK
  <1>4. CASE ComparesGone
    <2>1. /\ phase' \in Phases /\ new' = Event(Over(stored.nr), TRUE)
          /\ UNCHANGED <<worldVars, found, freshCount, stored, dispVars, callVars, missed>>
      BY <1>4 DEF ComparesGone
    <2>2. new' \in EventsToSend
      <3>1. stored.nr \in 1..MaxBroadcasts
        BY <1>4, RoundTypes, InfoTypes DEF ComparesGone
      <3>2. Over(stored.nr) \in Infos /\ TRUE \in BOOLEAN
        BY <3>1, InfoTypes
      <3> QED
        BY <2>1, <3>2, EventTypes, Zenon
    <2>3. notLive' \in 0..2
      <3>1. notLive' = 0 \/ (notLive' = notLive + 1 /\ notLive + 1 < 3)
        BY <1>4 DEF ComparesGone
      <3> QED
        BY <3>1, RoundTypes
    <2> QED
      BY <2>1, <2>2, <2>3 DEF TypeOK
  <1>5. CASE ComparesLive
    <2>1. /\ phase' \in Phases /\ notLive' = 0 /\ new' = Event(Living(found.title, stored.nr), FALSE)
          /\ UNCHANGED <<worldVars, found, freshCount, stored, dispVars, callVars, missed>>
      BY <1>5 DEF ComparesLive
    <2>2. new' \in EventsToSend
      <3>1. stored.nr \in 1..MaxBroadcasts
        BY <1>5, RoundTypes, InfoTypes DEF ComparesLive
      <3>2. found.title \in Titles
        BY <1>5, RoundTypes, InfoTypes DEF ComparesLive, Truthful
      <3>3. Living(found.title, stored.nr) \in Infos /\ FALSE \in BOOLEAN
        BY <3>1, <3>2, InfoTypes
      <3> QED
        BY <2>1, <3>3, EventTypes, Zenon
    <2>3. notLive' \in 0..2
      BY <2>1
    <2> QED
      BY <2>1, <2>2, <2>3 DEF TypeOK
  <1>6. CASE Confirms
    <2>1. /\ phase' \in Phases /\ faults' \in 0..MaxFaults
          /\ UNCHANGED <<air, broadcast, found, new, freshCount, infoVars, dispVars, callVars, missed>>
      BY <1>6, FaultTypes DEF Confirms
    <2> QED
      BY <2>1 DEF TypeOK
  <1>7. CASE Sends
    <2>1. /\ phase' \in Phases /\ faults' \in 0..MaxFaults /\ stored' \in {new.info, stored}
          /\ UNCHANGED <<air, broadcast, found, new, freshCount, notLive, dispVars, callVars>>
      BY <1>7, FaultTypes DEF Sends
    <2>2. missed' \in BOOLEAN
      <3>1. missed' = HeldBack \/ missed' = missed
        BY <1>7 DEF Sends
      <3>2. HeldBack \in BOOLEAN /\ missed \in BOOLEAN
        BY RoundTypes DEF HeldBack
      <3> QED
        BY <3>1, <3>2
    <2>3. stored' \in Infos
      BY <2>1, RoundTypes
    <2> QED
      BY <2>1, <2>2, <2>3 DEF TypeOK
  <1>8. CASE Emits
    <2>1. /\ Len(eventChan) < EventCap /\ eventChan' = Append(eventChan, new) /\ phase' = "end"
          /\ UNCHANGED <<worldVars, found, new, freshCount, infoVars, dispatch, told, heard, callVars, missed>>
      BY <1>8 DEF Emits
    <2>2. eventChan' \in Seq(EventsToSend) /\ Len(eventChan') <= EventCap
      BY <2>1, RoundTypes, CallTypes, InfoTypes
    <2> QED
      BY <2>1, <2>2 DEF TypeOK
  <1>9. CASE Ends
    <2>1. /\ phase' = "idle" /\ found' = NoInfo /\ new' = NoEvent
          /\ UNCHANGED <<worldVars, infoVars, dispVars, callVars, missed>>
      BY <1>9 DEF Ends
    <2>2. freshCount' \in 0..AllSent
      BY <1>9, RoundTypes DEF Ends, AllSent
    <2>3. found' \in Infos /\ new' \in EventsToSend
      BY <2>1, InfoTypes, EventTypes, Zenon
    <2> QED
      BY <2>1, <2>2, <2>3 DEF TypeOK
  <1> QED
    BY <1>1, <1>2, <1>3, <1>4, <1>5, <1>6, <1>7, <1>8, <1>9 DEF Round

\* ... so does a dispatcher, ...
LEMMA DispatchTypes == ASSUME TypeOK, NEW d \in Dispatchers, Dispatch(d) PROVE TypeOK'
  <1> USE DEF worldVars, roundVars, infoVars, dispVars, callVars
  <1>1. CASE Takes(d)
    <2>1. /\ eventChan # <<>> /\ eventChan' = Tail(eventChan)
          /\ dispatch' = [dispatch EXCEPT ![d] = [event |-> Head(eventChan), to |-> watchers]]
          /\ UNCHANGED <<worldVars, roundVars, infoVars, told, heard, callVars, missed>>
      BY <1>1 DEF Takes
    <2>2. /\ eventChan' \in Seq(EventsToSend) /\ Len(eventChan') <= EventCap
          /\ Head(eventChan) \in EventsToSend
      BY <2>1, CallTypes, InfoTypes
    <2>3. [event |-> Head(eventChan), to |-> watchers] \in [event : EventsToSend, to : SUBSET Groups]
      BY <2>2, RoundTypes
    <2>4. dispatch' \in [Dispatchers -> [event : EventsToSend, to : SUBSET Groups]]
      BY <2>1, <2>3, CallTypes
    <2> QED
      BY <2>1, <2>2, <2>4 DEF TypeOK
  <1>2. CASE Delivers(d)
    <2>1. PICK g \in dispatch[d].to :
             /\ Tell(g, dispatch[d].event)
             /\ dispatch' = [dispatch EXCEPT ![d] = [event |-> dispatch[d].event, to |-> dispatch[d].to \ {g}]]
      BY <1>2 DEF Delivers
    <2>2. UNCHANGED <<worldVars, roundVars, infoVars, eventChan, callVars, missed>>
      BY <1>2 DEF Delivers
    <2>3. g \in Groups /\ dispatch[d].event \in EventsToSend
      BY CallTypes
    <2>4. told' \in [Groups -> {"none", "on", "over"}] /\ heard' \in [Groups -> [1..MaxBroadcasts -> Nat]]
      BY <2>1, <2>3, Tells
    <2>5. [event |-> dispatch[d].event, to |-> dispatch[d].to \ {g}] \in [event : EventsToSend, to : SUBSET Groups]
      BY CallTypes
    <2>6. dispatch' \in [Dispatchers -> [event : EventsToSend, to : SUBSET Groups]]
      BY <2>1, <2>5, CallTypes
    <2> QED
      BY <2>2, <2>4, <2>6 DEF TypeOK
  <1>3. CASE EventDone(d)
    <2>1. /\ dispatch' = [dispatch EXCEPT ![d] = Free]
          /\ UNCHANGED <<worldVars, roundVars, infoVars, eventChan, told, heard, callVars, missed>>
      BY <1>3 DEF EventDone
    <2>2. dispatch' \in [Dispatchers -> [event : EventsToSend, to : SUBSET Groups]]
      BY <2>1, CallTypes, EventTypes
    <2> QED
      BY <2>1, <2>2 DEF TypeOK
  <1> QED
    BY <1>1, <1>2, <1>3 DEF Dispatch

\* ... so does Add, ...
LEMMA AddTypes ==
  ASSUME TypeOK, NEW g \in Groups, AddReads(g) \/ AddFails(g) \/ AddWork(g) PROVE TypeOK'
  <1> USE DEF worldVars, roundVars, infoVars, dispVars, callVars
  <1>1. CASE AddReads(g) \/ AddFails(g)
    <2>1. /\ UNCHANGED <<worldVars, roundVars, infoVars, dispVars, watchers, leaving, missed>>
          /\ \E a \in {"saw", "read", "no"} : adding' = [adding EXCEPT ![g] = a]
      BY <1>1 DEF AddReads, AddFails
    <2>2. adding' \in [Groups -> {"no", "read", "saw", "watch"}]
      BY <2>1, CallTypes
    <2> QED
      BY <2>1, <2>2 DEF TypeOK
  <1>2. CASE AddInserts(g)
    <2>1. /\ watchers' = watchers \cup {g} /\ told' = [told EXCEPT ![g] = "none"]
          /\ heard' = [heard EXCEPT ![g] = [n \in 1..MaxBroadcasts |-> 0]]
          /\ \E a \in {"watch", "no"} : adding' = [adding EXCEPT ![g] = a]
          /\ UNCHANGED <<worldVars, roundVars, infoVars, eventChan, dispatch, leaving, missed>>
      BY <1>2 DEF AddInserts
    <2>2. adding' \in [Groups -> {"no", "read", "saw", "watch"}] /\ told' \in [Groups -> {"none", "on", "over"}]
      BY <2>1, CallTypes
    <2>3. heard' \in [Groups -> [1..MaxBroadcasts -> Nat]]
      BY <2>1, CallTypes
    <2>4. watchers' \subseteq Groups
      BY <2>1, RoundTypes
    <2> QED
      BY <2>1, <2>2, <2>3, <2>4 DEF TypeOK
  <1>3. CASE GroupWatchNotify(g)
    <2>1. /\ adding' = [adding EXCEPT ![g] = "no"]
          /\ \/ stored.status = "living" /\ Tell(g, Event(stored, TRUE))
             \/ UNCHANGED <<told, heard>>
          /\ UNCHANGED <<worldVars, roundVars, infoVars, eventChan, dispatch, watchers, leaving, missed>>
      BY <1>3 DEF GroupWatchNotify
    <2>2. Event(stored, TRUE) \in EventsToSend
      <3>1. stored \in Infos /\ TRUE \in BOOLEAN
        BY RoundTypes
      <3> QED
        BY <3>1, EventTypes, Zenon
    <2>3. told' \in [Groups -> {"none", "on", "over"}] /\ heard' \in [Groups -> [1..MaxBroadcasts -> Nat]]
      BY <2>1, <2>2, Tells, CallTypes
    <2>4. adding' \in [Groups -> {"no", "read", "saw", "watch"}]
      BY <2>1, CallTypes
    <2> QED
      BY <2>1, <2>3, <2>4 DEF TypeOK
  <1> QED
    BY <1>1, <1>2, <1>3 DEF AddWork

\* Remove takes no more than it says.
LEMMA Removes ==
  ASSUME NEW g, RemoveLive(g) \/ RemoveAllByGroupCode(g) \/ DeletesLiveInfo(g) \/ RemoveAllById
  PROVE  /\ watchers' \subseteq watchers /\ leaving' \subseteq leaving \cup {g}
         /\ stored' = stored \/ (stored' = NoInfo /\ watchers' = {})
         /\ UNCHANGED <<worldVars, roundVars, notLive, dispVars, adding, missed>>
  BY DEF RemoveLive, RemoveAllByGroupCode, DeletesLiveInfo, RemoveAllById, infoVars

\* ... and so do the ways to stop watching.
LEMMA RemoveTypes ==
  ASSUME TypeOK, NEW g, g \in Groups \/ RemoveAllById,
         RemoveLive(g) \/ RemoveAllByGroupCode(g) \/ DeletesLiveInfo(g) \/ RemoveAllById
  PROVE  TypeOK'
  <1>1. leaving' \subseteq Groups /\ watchers' \subseteq Groups
    <2>1. CASE RemoveAllById
      BY <2>1, RoundTypes DEF RemoveAllById
    <2>2. CASE g \in Groups
      BY <2>2, Removes, RoundTypes
    <2> QED
      BY <2>1, <2>2
  <1>2. stored' \in Infos
    BY Removes, RoundTypes, InfoTypes
  <1> QED
    BY <1>1, <1>2, Removes DEF TypeOK, worldVars, roundVars, dispVars

\* Every step keeps every variable in its range.
LEMMA LiveNextTypes == TypeOK /\ Truthful /\ [Next]_vars => TypeOK'
  <1> SUFFICES ASSUME TypeOK, Truthful, [Next]_vars PROVE TypeOK'
    OBVIOUS
  <1>1. CASE World \/ Round
    BY <1>1, WorldTypes, RoundKeepsTypes
  <1>2. CASE \E d \in Dispatchers : Dispatch(d)
    BY <1>2, DispatchTypes
  <1>3. ASSUME NEW g \in Groups, AddReads(g) \/ AddFails(g) \/ AddWork(g) PROVE TypeOK'
    BY <1>3, AddTypes
  <1>4. ASSUME NEW g \in Groups, RemoveLive(g) \/ RemoveAllByGroupCode(g) \/ DeletesLiveInfo(g) PROVE TypeOK'
    BY <1>4, RemoveTypes
  <1>5. CASE RemoveAllById
    BY <1>5, RemoveTypes
  <1>6. CASE UNCHANGED vars
    BY <1>6 DEF vars, worldVars, roundVars, infoVars, dispVars, callVars, TypeOK
  <1> QED
    BY <1>1, <1>2, <1>3, <1>4, <1>5, <1>6 DEF Next

\* A round stays truthful when LiveInfo is left alone or cleared, ...
LEMMA SameTruth ==
  ASSUME TypeOK, Truthful, UNCHANGED <<air, broadcast, found, new, phase>>,
         stored' = stored \/ stored' = NoInfo
  PROVE  Truthful'
  <1>1. broadcast \in Nat /\ NoInfo.nr = 0 /\ NoInfo.status = "none" /\ \A n \in Nat : 0 <= n
    BY RoundTypes, InfoTypes
  <1>2. CASE stored' = stored
    BY <1>2 DEF Truthful
  <1>3. CASE stored' = NoInfo
    <2>1. /\ stored'.nr = 0 /\ stored'.status = "none" /\ found.nr \in Nat /\ new.info.nr \in Nat
          /\ stored'.nr <= broadcast /\ stored'.nr <= found.nr
      BY <1>1, <1>3, RoundTypes
    <2>2. phase = "send" /\ new.info.status # "over" /\ new.changed => stored'.nr < new.info.nr
      <3>1. phase = "send" /\ new.info.status # "over" /\ new.changed =>
               new.info.status = "living" /\ stored.nr < new.info.nr
        BY DEF Truthful
      <3> QED
        BY <2>1, <3>1, RoundTypes
    <2> QED
      BY <1>3, <2>1, <2>2 DEF Truthful
  <1> QED
    BY <1>2, <1>3

\* ... when the user goes live or off, or the process restarts, ...
LEMMA WorldTruth == ASSUME TypeOK, Truthful, World PROVE Truthful'
  <1> USE DEF worldVars, roundVars, infoVars
  <1>0. broadcast \in Nat /\ stored.nr \in Nat /\ found.nr \in Nat /\ new.info.nr \in Nat
    BY RoundTypes
  <1>1. CASE GoesLive
    <2>1. air = "off" /\ broadcast' = broadcast + 1 /\ UNCHANGED <<found, new, phase, stored>>
      BY <1>1 DEF GoesLive
    <2>2. /\ stored.nr <= broadcast /\ found.nr <= broadcast /\ new.info.nr <= broadcast
      BY DEF Truthful
    <2>3. /\ broadcast' # 0 /\ stored.nr < broadcast' /\ new.info.nr < broadcast'
          /\ stored.nr <= broadcast' /\ found.nr <= broadcast' /\ new.info.nr <= broadcast'
      BY <1>0, <2>1, <2>2
    <2> QED
      BY <2>1, <2>3 DEF Truthful
  <1>2. CASE GoesOff
    <2>1. air' = "off" /\ UNCHANGED <<broadcast, found, new, phase, stored>>
      BY <1>2 DEF GoesOff
    <2> QED
      BY <2>1 DEF Truthful
  <1>3. CASE Retitles
    <2>1. air # "off" /\ UNCHANGED <<broadcast, found, new, phase, stored>>
      BY <1>3 DEF Retitles
    <2> QED
      BY <2>1 DEF Truthful
  <1>4. CASE Expires
    <2>1. stored' = NoInfo /\ UNCHANGED <<air, broadcast, found, new, phase>>
      BY <1>4 DEF Expires
    <2> QED
      BY <2>1, SameTruth
  <1>5. CASE Restarts
    <2>1. /\ phase' = "idle" /\ found' = NoInfo /\ new' = NoEvent /\ UNCHANGED <<air, broadcast, stored>>
      BY <1>5 DEF Restarts
    <2>2. found'.status = "none" /\ found'.nr = 0 /\ new'.info.nr = 0
      BY <2>1, InfoTypes, EventTypes
    <2> QED
      BY <1>0, <2>1, <2>2 DEF Truthful
  <1> QED
    BY <1>1, <1>2, <1>3, <1>4, <1>5 DEF World

\* ... and in every step of its own.
LEMMA RoundTruth == ASSUME TypeOK, Truthful, Round PROVE Truthful'
  <1> USE DEF worldVars, roundVars, infoVars
  <1>0. /\ broadcast \in Nat /\ stored.nr \in Nat /\ found.nr \in Nat /\ new.info.nr \in Nat
        /\ stored \in Infos /\ found \in Infos
    BY RoundTypes
  <1>00. /\ stored.nr <= broadcast /\ found.nr <= broadcast /\ new.info.nr <= broadcast
         /\ found.status \in {"none", "living"}
    BY DEF Truthful
  <1>1. CASE Fetches
    <2>1. /\ phase' \in {"list", "end"} /\ UNCHANGED <<air, broadcast, new, stored>>
          /\ found' = NoInfo \/ (air # "off" /\ found' = Living(air, broadcast))
      BY <1>1 DEF Fetches
    <2>2. CASE found' = NoInfo
      <3>1. found'.status = "none" /\ found'.nr = 0
        BY <2>2, InfoTypes
      <3> QED
        BY <1>0, <2>1, <3>1 DEF Truthful
    <2>3. CASE air # "off" /\ found' = Living(air, broadcast)
      <3>1. found'.status = "living" /\ found'.nr = broadcast
        BY <2>3, InfoTypes
      <3>2. stored.status = "over" => stored.nr < broadcast
        BY <2>3 DEF Truthful
      <3> QED
        BY <1>0, <2>1, <2>3, <3>1, <3>2 DEF Truthful
    <2> QED
      BY <2>1, <2>2, <2>3
  <1>2. CASE Lists
    <2>1. phase' \in {"end", "compare"} /\ UNCHANGED <<air, broadcast, found, new, stored>>
      BY <1>2 DEF Lists
    <2> QED
      BY <2>1 DEF Truthful
  <1>3. CASE ComparesOff
    <2>1. /\ stored.status # "living" /\ new' = Event(found, TRUE)
          /\ phase' = IF found = NoInfo THEN "end" ELSE "send"
          /\ UNCHANGED <<air, broadcast, found, stored>>
      BY <1>3 DEF ComparesOff
    <2>0. UNCHANGED <<air, broadcast, found, stored>>
      BY <2>1
    <2>2. new'.info = found /\ new'.changed = TRUE
      BY <2>1, EventTypes
    <2>3. found # NoInfo => found.status = "living" /\ found.nr # 0
      BY <1>0, <1>00, InfoTypes
    <2>4. found # NoInfo => stored.nr < found.nr
      <3>1. CASE stored.status = "over"
        BY <2>3, <3>1 DEF Truthful
      <3>2. CASE stored.status # "over"
        <4>1. stored.nr = 0
          BY <1>0, <2>1, <3>2, InfoTypes
        <4> QED
          BY <1>0, <2>3, <4>1
      <3> QED
        BY <3>1, <3>2
    <2>5. CASE found = NoInfo
      <3>1. phase' = "end" /\ found'.status = "none" /\ new'.info.nr = 0
        BY <2>1, <2>2, <2>5, InfoTypes
      <3> QED
        BY <1>0, <1>00, <2>0, <3>1 DEF Truthful
    <2>6. CASE found # NoInfo
      <3>1. phase' = "send" /\ new'.info = found /\ found.status = "living" /\ stored.nr < found.nr
        BY <2>1, <2>2, <2>3, <2>4, <2>6
      <3>2. stored.nr <= found.nr /\ found.nr <= found.nr
        BY <1>0, <3>1
      <3> QED
        BY <1>00, <2>0, <3>1, <3>2 DEF Truthful
    <2> QED
      BY <2>5, <2>6
  <1>4. CASE ComparesGone
    <2>1. /\ found = NoInfo /\ new' = Event(Over(stored.nr), TRUE) /\ phase' \in {"end", "confirm"}
          /\ UNCHANGED <<air, broadcast, found, stored>>
      BY <1>4 DEF ComparesGone
    <2>2. new'.info.status = "over" /\ new'.info.nr = stored.nr /\ new'.changed = TRUE
      <3>1. new'.info = Over(stored.nr) /\ new'.changed = TRUE
        BY <2>1, EventTypes, Zenon
      <3> QED
        BY <3>1, InfoTypes, Zenon
    <2> QED
      BY <1>00, <2>1, <2>2 DEF Truthful
  <1>5. CASE ComparesLive
    <2>1. /\ stored.status = "living" /\ found # NoInfo /\ phase' \in {"end", "send"}
          /\ new' = Event(Living(found.title, stored.nr), FALSE)
          /\ UNCHANGED <<air, broadcast, found, stored>>
      BY <1>5 DEF ComparesLive
    <2>2. new'.info.status = "living" /\ new'.info.nr = stored.nr /\ new'.changed = FALSE
      <3>1. new'.info = Living(found.title, stored.nr)
        BY <2>1, EventTypes, Zenon
      <3>2. new'.info.status = "living" /\ new'.info.nr = stored.nr
        BY <3>1 DEF Living
      <3>3. new'.changed = FALSE
        BY <2>1 DEF Event
      <3> QED
        BY <3>2, <3>3
    <2>3. found.status = "living"
      BY <1>0, <1>00, <2>1, InfoTypes
    <2>4. stored.nr <= found.nr
      BY <2>3 DEF Truthful
    <2> QED
      BY <1>00, <2>1, <2>2, <2>3, <2>4 DEF Truthful
  <1>6. CASE Confirms
    <2>1. /\ phase = "confirm" /\ (phase' = "end" \/ (phase' = "send" /\ air = "off"))
          /\ UNCHANGED <<air, broadcast, found, new, stored>>
      BY <1>6 DEF Confirms
    <2>2. new.info.status = "over" /\ new.changed /\ found = NoInfo
      BY <2>1 DEF Truthful
    <2> QED
      BY <2>1, <2>2 DEF Truthful
  <1>7. CASE Sends
    <2>1. /\ phase = "send" /\ phase' \in {"emit", "end"} /\ (stored' = new.info \/ stored' = stored)
          /\ UNCHANGED <<air, broadcast, found, new>>
      BY <1>7 DEF Sends
    <2>2. CASE stored' = stored
      BY <2>1, <2>2 DEF Truthful
    <2>3. CASE stored' = new.info
      <3>1. CASE new.info.status = "over"
        <4>1. found = NoInfo /\ (new.info.nr < broadcast \/ air = "off")
          BY <2>1, <3>1 DEF Truthful
        <4>2. found.status = "none"
          BY <4>1, InfoTypes
        <4> QED
          BY <1>00, <2>1, <2>3, <4>1, <4>2 DEF Truthful
      <3>2. CASE new.info.status # "over"
        <4>1. new.info.status = "living" /\ found.status = "living" /\ new.info.nr <= found.nr
          BY <2>1, <3>2 DEF Truthful
        <4> QED
          BY <1>00, <2>1, <2>3, <4>1 DEF Truthful
      <3> QED
        BY <3>1, <3>2
    <2> QED
      BY <2>1, <2>2, <2>3
  <1>8. CASE Emits
    <2>1. phase' = "end" /\ UNCHANGED <<air, broadcast, found, new, stored>>
      BY <1>8 DEF Emits
    <2> QED
      BY <2>1 DEF Truthful
  <1>9. CASE Ends
    <2>1. phase' = "idle" /\ found' = NoInfo /\ new' = NoEvent /\ UNCHANGED <<air, broadcast, stored>>
      BY <1>9 DEF Ends
    <2>2. found'.status = "none" /\ found'.nr = 0 /\ new'.info.nr = 0
      BY <2>1, InfoTypes, EventTypes
    <2> QED
      BY <1>0, <2>1, <2>2 DEF Truthful
  <1> QED
    BY <1>1, <1>2, <1>3, <1>4, <1>5, <1>6, <1>7, <1>8, <1>9 DEF Round

\* Dispatchers and commands leave the round alone; at most they clear LiveInfo.
LEMMA OthersFrame ==
  ASSUME (\E d \in Dispatchers : Dispatch(d))
         \/ (\E g \in Groups : AddReads(g) \/ AddFails(g) \/ AddWork(g) \/ RemoveLive(g)
                               \/ RemoveAllByGroupCode(g) \/ DeletesLiveInfo(g))
         \/ RemoveAllById \/ UNCHANGED vars
  PROVE  /\ UNCHANGED <<air, broadcast, found, new, phase, missed>>
         /\ stored' = stored \/ (stored' = NoInfo /\ watchers' = {})
  BY DEF Dispatch, Takes, Delivers, EventDone, AddReads, AddFails, AddWork, AddInserts, GroupWatchNotify,
         RemoveLive, RemoveAllByGroupCode, DeletesLiveInfo, RemoveAllById, vars, worldVars, roundVars,
         infoVars

\* Every step keeps what a round is about to store true.
LEMMA TruthKept == ASSUME TypeOK, Truthful, [Next]_vars PROVE Truthful'
  BY WorldTruth, RoundTruth, OthersFrame, SameTruth DEF Next

\* Every step sends only what has a status.
LEMMA SpokenKept == ASSUME TypeOK, Truthful, Spoken, [Next]_vars PROVE Spoken'
  <1> USE DEF worldVars, roundVars, infoVars, dispVars, callVars
  <1>0. eventChan \in Seq(EventsToSend) /\ Len(eventChan) \in Nat
    BY CallTypes
  <1>1. CASE GoesLive \/ GoesOff \/ Retitles \/ Expires \/ UNCHANGED vars
             \/ (\E g \in Groups : AddReads(g) \/ AddFails(g) \/ AddWork(g) \/ RemoveLive(g)
                                   \/ RemoveAllByGroupCode(g) \/ DeletesLiveInfo(g))
             \/ RemoveAllById
    <2>1. UNCHANGED <<phase, new, eventChan, dispatch>>
      BY <1>1 DEF GoesLive, GoesOff, Retitles, Expires, AddReads, AddFails, AddWork, AddInserts,
                  GroupWatchNotify, RemoveLive, RemoveAllByGroupCode, DeletesLiveInfo, RemoveAllById, vars
    <2> QED
      BY <2>1 DEF Spoken
  <1>2. CASE Restarts
    <2>1. phase' = "idle" /\ eventChan' = <<>> /\ dispatch' = [d \in Dispatchers |-> Free]
      BY <1>2 DEF Restarts
    <2> QED
      BY <2>1, EventTypes DEF Spoken
  <1>3. CASE Fetches \/ Lists \/ ComparesOff \/ ComparesGone \/ ComparesLive \/ Confirms \/ Ends
    <2>1. phase' # "emit" /\ UNCHANGED <<eventChan, dispatch>>
      BY <1>3 DEF Fetches, Lists, ComparesOff, ComparesGone, ComparesLive, Confirms, Ends
    <2> QED
      BY <2>1 DEF Spoken
  <1>4. CASE Sends
    <2>1. phase = "send" /\ UNCHANGED <<new, eventChan, dispatch>>
      BY <1>4 DEF Sends
    <2>2. new.info.status # "none"
      BY <2>1 DEF Truthful
    <2> QED
      BY <2>1, <2>2 DEF Spoken
  <1>5. CASE Emits
    <2>1. phase = "emit" /\ phase' = "end" /\ eventChan' = Append(eventChan, new) /\ UNCHANGED dispatch
      BY <1>5 DEF Emits
    <2>2. /\ Len(eventChan') = Len(eventChan) + 1 /\ eventChan'[Len(eventChan) + 1] = new
          /\ \A i \in 1..Len(eventChan) : eventChan'[i] = eventChan[i]
          /\ \A i \in 1..(Len(eventChan) + 1) : i \in 1..Len(eventChan) \/ i = Len(eventChan) + 1
      BY <1>0, <2>1
    <2> QED
      BY <2>1, <2>2 DEF Spoken
  <1>6. ASSUME NEW d \in Dispatchers, Takes(d) PROVE Spoken'
    <2>1. /\ eventChan # <<>> /\ eventChan' = Tail(eventChan) /\ UNCHANGED <<phase, new>>
          /\ dispatch' = [dispatch EXCEPT ![d] = [event |-> Head(eventChan), to |-> watchers]]
      BY <1>6 DEF Takes
    <2>2. /\ Len(eventChan') = Len(eventChan) - 1 /\ Head(eventChan) = eventChan[1] /\ 1 \in 1..Len(eventChan)
          /\ \A i \in 1..(Len(eventChan) - 1) : eventChan'[i] = eventChan[i + 1] /\ i + 1 \in 1..Len(eventChan)
      BY <1>0, <2>1
    <2>3. \A i \in 1..Len(eventChan') : eventChan'[i].info.status # "none"
      BY <2>2 DEF Spoken
    <2>4. /\ dispatch'[d].event = eventChan[1] /\ \A e \in Dispatchers : e # d => dispatch'[e] = dispatch[e]
      BY <2>1, <2>2, CallTypes
    <2>5. \A e \in Dispatchers : dispatch'[e].to # {} => dispatch'[e].event.info.status # "none"
      BY <2>2, <2>4 DEF Spoken
    <2> QED
      BY <2>1, <2>3, <2>5 DEF Spoken
  <1>7. ASSUME NEW d \in Dispatchers, Delivers(d) \/ EventDone(d) PROVE Spoken'
    <2>1. UNCHANGED <<phase, new, eventChan>>
      BY <1>7 DEF Delivers, EventDone
    <2>2. \/ \E g \in dispatch[d].to :
                dispatch' = [dispatch EXCEPT ![d] = [event |-> dispatch[d].event, to |-> dispatch[d].to \ {g}]]
          \/ dispatch' = [dispatch EXCEPT ![d] = Free]
      BY <1>7 DEF Delivers, EventDone
    <2>3. /\ \/ dispatch'[d].event = dispatch[d].event /\ dispatch'[d].to \subseteq dispatch[d].to
             \/ dispatch'[d].to = {}
          /\ \A e \in Dispatchers : e # d => dispatch'[e] = dispatch[e]
      BY <2>2, CallTypes, EventTypes
    <2>4. \A e \in Dispatchers : dispatch'[e].to # {} => dispatch'[e].event.info.status # "none"
      BY <2>3 DEF Spoken
    <2> QED
      BY <2>1, <2>4 DEF Spoken
  <1> QED
    BY <1>1, <1>2, <1>3, <1>4, <1>5, <1>6, <1>7 DEF Next, World, Round, Dispatch

\* What the send to eventChan changes, and what it leaves.
LEMMA EmitStep ==
  ASSUME TypeOK, Emits
  PROVE  /\ Len(eventChan) \in Nat /\ Len(eventChan)' = Len(eventChan) + 1
         /\ eventChan'[Len(eventChan) + 1] = new
         /\ \A i \in 1..Len(eventChan) : i \in 1..Len(eventChan)' /\ eventChan'[i] = eventChan[i]
         /\ \A i \in 1..Len(eventChan)' : i \in 1..Len(eventChan) \/ i = Len(eventChan) + 1
         /\ phase = "emit" /\ phase' = "end"
         /\ UNCHANGED <<stored, watchers, new, dispatch, told, heard, missed, adding>>
  <1>1. /\ eventChan' = Append(eventChan, new) /\ phase = "emit" /\ phase' = "end"
        /\ UNCHANGED <<stored, watchers, new, dispatch, told, heard, missed, adding>>
    BY DEF Emits, infoVars, callVars
  <1>2. eventChan \in Seq(EventsToSend) /\ Len(eventChan) \in Nat
    BY CallTypes
  <1> QED
    BY <1>1, <1>2

\* A dispatcher takes the first event, for all who watch now.
LEMMA TakeStep ==
  ASSUME TypeOK, NEW d \in Dispatchers, Takes(d)
  PROVE  /\ Len(eventChan) \in Nat /\ Len(eventChan)' = Len(eventChan) - 1 /\ 1 \in 1..Len(eventChan)
         /\ eventChan # <<>>
         /\ \A i \in 1..Len(eventChan)' : i + 1 \in 1..Len(eventChan) /\ eventChan'[i] = eventChan[i + 1]
         /\ \A i \in 1..Len(eventChan) :
               i = 1 \/ (i - 1 \in 1..Len(eventChan)' /\ eventChan'[i - 1] = eventChan[i])
         /\ dispatch[d].to = {} /\ dispatch'[d].event = eventChan[1] /\ dispatch'[d].to = watchers
         /\ dispatch[d] = Free
         /\ \A e \in Dispatchers : e # d => dispatch'[e] = dispatch[e]
         /\ UNCHANGED <<stored, watchers, phase, new, told, heard, missed, adding>>
  <1>1. /\ eventChan # <<>> /\ eventChan' = Tail(eventChan) /\ dispatch[d] = Free
        /\ dispatch' = [dispatch EXCEPT ![d] = [event |-> Head(eventChan), to |-> watchers]]
        /\ UNCHANGED <<stored, watchers, phase, new, told, heard, missed, adding>>
    BY DEF Takes, roundVars, infoVars, callVars
  <1>2. eventChan \in Seq(EventsToSend) /\ Len(eventChan) \in Nat
    BY CallTypes
  <1>3. /\ Len(eventChan') = Len(eventChan) - 1 /\ Head(eventChan) = eventChan[1] /\ 1 \in 1..Len(eventChan)
        /\ \A i \in 1..(Len(eventChan) - 1) : eventChan'[i] = eventChan[i + 1] /\ i + 1 \in 1..Len(eventChan)
    BY <1>1, <1>2
  <1>4. \A i \in 1..Len(eventChan) :
            i = 1 \/ (i - 1 \in 1..(Len(eventChan) - 1) /\ eventChan'[i - 1] = eventChan[(i - 1) + 1] /\ (i - 1) + 1 = i)
    BY <1>2, <1>3
  <1>5. /\ dispatch'[d].event = eventChan[1] /\ dispatch'[d].to = watchers
        /\ \A e \in Dispatchers : e # d => dispatch'[e] = dispatch[e]
    BY <1>1, <1>3, CallTypes
  <1>6. dispatch[d].to = {}
    BY <1>1, EventTypes
  <1> QED
    BY <1>1, <1>2, <1>3, <1>4, <1>5, <1>6

\* A dispatcher tells one group and forgets it.
LEMMA DeliverStep ==
  ASSUME TypeOK, NEW d \in Dispatchers, Delivers(d)
  PROVE  /\ \E g \in dispatch[d].to :
               /\ g \in Groups /\ Tell(g, dispatch[d].event) /\ dispatch'[d].to = dispatch[d].to \ {g}
         /\ dispatch'[d].event = dispatch[d].event
         /\ \A e \in Dispatchers : e # d => dispatch'[e] = dispatch[e]
         /\ UNCHANGED <<stored, watchers, phase, new, eventChan, missed, adding>>
  <1>1. /\ \E g \in dispatch[d].to :
              /\ Tell(g, dispatch[d].event)
              /\ dispatch' = [dispatch EXCEPT ![d] = [event |-> dispatch[d].event, to |-> dispatch[d].to \ {g}]]
        /\ UNCHANGED <<stored, watchers, phase, new, eventChan, missed, adding>>
    BY DEF Delivers, roundVars, infoVars, callVars
  <1> QED
    BY <1>1, CallTypes

\* A dispatcher that has told all is free.
LEMMA DoneStep ==
  ASSUME TypeOK, NEW d \in Dispatchers, EventDone(d)
  PROVE  /\ dispatch[d].to = {} /\ dispatch[d] # Free /\ dispatch'[d].event = NoEvent /\ dispatch'[d].to = {}
         /\ \A e \in Dispatchers : e # d => dispatch'[e] = dispatch[e]
         /\ UNCHANGED <<stored, watchers, phase, new, eventChan, missed, adding, told, heard>>
  <1>1. /\ dispatch[d].to = {} /\ dispatch[d] # Free /\ dispatch' = [dispatch EXCEPT ![d] = Free]
        /\ UNCHANGED <<stored, watchers, phase, new, eventChan, missed, adding, told, heard>>
    BY DEF EventDone, roundVars, infoVars, callVars
  <1> QED
    BY <1>1, CallTypes, EventTypes

\* When everything is delivered, nothing is on its way.
LEMMA NothingOnItsWay ==
  ASSUME TypeOK, Delivered
  PROVE  /\ 1..Len(eventChan) = {} /\ ~ChanChanges
         /\ \A n : ~InChan(n) /\ ~InDispatch(n)
         /\ \A d \in Dispatchers : dispatch[d].to = {} /\ ~dispatch[d].event.changed
  <1>1. eventChan = <<>> /\ \A d \in Dispatchers : dispatch[d] = Free
    BY DEF Delivered
  <1>2. 1..Len(eventChan) = {}
    BY <1>1
  <1>3. \A d \in Dispatchers : dispatch[d].to = {} /\ dispatch[d].event.changed = FALSE
    BY <1>1, EventTypes
  <1> QED
    BY <1>2, <1>3 DEF ChanChanges, InChan, InDispatch, Begins

\* While a round or a dispatcher is at work, no command adds a group.
LEMMA NoAddMeanwhile ==
  ASSUME AddOverlaps = FALSE, TypeOK, Calm, Round \/ \E d \in Dispatchers : Dispatch(d)
  PROVE  NoAdd /\ NoAdd'
  <1>1. phase # "idle" \/ NoAdd \/ ~Delivered
    <2>1. CASE Round
      BY <2>1 DEF Round, Fetches, Lists, ComparesOff, ComparesGone, ComparesLive, Confirms, Sends, Emits, Ends
    <2>2. ASSUME NEW d \in Dispatchers, Dispatch(d) PROVE ~Delivered
      <3>1. CASE Takes(d)
        BY <3>1, TakeStep DEF Delivered
      <3>2. CASE Delivers(d)
        BY <3>2, DeliverStep, NothingOnItsWay
      <3>3. CASE EventDone(d)
        BY <3>3, DoneStep DEF Delivered
      <3> QED
        BY <2>2, <3>1, <3>2, <3>3 DEF Dispatch
    <2> QED
      BY <2>1, <2>2
  <1>2. NoAdd
    BY <1>1 DEF Calm
  <1>3. UNCHANGED adding
    BY DEF Round, Fetches, Lists, ComparesOff, ComparesGone, ComparesLive, Confirms, Sends, Emits, Ends,
           Dispatch, Takes, Delivers, EventDone, callVars
  <1> QED
    BY <1>2, <1>3 DEF NoAdd

\* What a step of Add finds and leaves.
LEMMA AddFrame ==
  ASSUME AddOverlaps = FALSE, TypeOK, Calm, NEW g \in Groups, AddReads(g) \/ AddFails(g) \/ AddWork(g)
  PROVE  /\ phase = "idle" /\ Delivered
         /\ UNCHANGED <<stored, phase, new, eventChan, dispatch, missed>>
  <1>1. phase = "idle" /\ Delivered
    <2>1. CASE AddReads(g)
      BY <2>1 DEF AddReads
    <2>2. CASE AddFails(g) \/ AddWork(g)
      <3>1. adding[g] # "no"
        BY <2>2 DEF AddFails, AddWork, AddInserts, GroupWatchNotify
      <3> QED
        BY <3>1 DEF Calm, NoAdd
    <2> QED
      BY <2>1, <2>2
  <1>2. UNCHANGED <<stored, phase, new, eventChan, dispatch, missed>>
    BY DEF AddReads, AddFails, AddWork, AddInserts, GroupWatchNotify, roundVars, infoVars, dispVars
  <1> QED
    BY <1>1, <1>2

\* Every step keeps commands that add and rounds apart.
LEMMA CalmKept ==
  ASSUME AddOverlaps = FALSE, TypeOK, Truthful, Calm, [Next]_vars PROVE Calm'
  <1> USE DEF worldVars, roundVars, infoVars, dispVars, callVars
  <1> DEFINE Rising == phase \in {"confirm", "send"} /\ watchers # {} /\ (new.info.status = "over" \/ ~new.changed)
                          => stored.status = "living" /\ stored.nr = new.info.nr
             Reading == \A g \in Groups :
                          /\ adding[g] = "read" => stored.status # "living"
                          /\ adding[g] \in {"saw", "read"} => g \notin watchers
                          /\ adding[g] = "watch" => told[g] = "none" /\ \A n \in 1..MaxBroadcasts : heard[g][n] = 0
             Still == ~NoAdd => phase = "idle" /\ Delivered
  <1>0. Rising /\ Reading /\ Still
    BY DEF Calm
  <1>1. CASE GoesLive \/ GoesOff \/ Retitles \/ UNCHANGED vars
    <2>1. UNCHANGED <<roundVars, infoVars, dispVars, callVars>>
      BY <1>1 DEF GoesLive, GoesOff, Retitles, vars
    <2> QED
      BY <2>1 DEF Calm, NoAdd, Delivered
  <1>2. CASE Expires
    <2>1. NoAdd /\ phase = "idle" /\ UNCHANGED <<phase, adding, watchers>>
      BY <1>2 DEF Expires
    <2> QED
      BY <2>1 DEF Calm, NoAdd
  <1>3. CASE Restarts
    <2>1. phase' = "idle" /\ adding' = [g \in Groups |-> "no"]
      BY <1>3 DEF Restarts
    <2>2. \A g \in Groups : adding'[g] = "no"
      BY <2>1
    <2> QED
      BY <2>1, <2>2 DEF Calm, NoAdd
  <1>4. CASE Round
    <2>1. NoAdd /\ NoAdd'
      BY <1>4, NoAddMeanwhile
    <2>2. Rising'
      <3>1. CASE Fetches \/ Lists \/ Sends \/ Emits \/ Ends
        <4>1. phase' \notin {"confirm", "send"}
          BY <3>1 DEF Fetches, Lists, Sends, Emits, Ends
        <4> QED
          BY <4>1
      <3>2. CASE ComparesOff
        <4>1. new' = Event(found, TRUE) /\ (found = NoInfo => phase' = "end")
          BY <3>2 DEF ComparesOff
        <4>2. new'.info = found /\ new'.changed = TRUE
          BY <4>1, EventTypes
        <4>3. found.status # "over"
          BY DEF Truthful
        <4> QED
          BY <4>1, <4>2, <4>3
      <3>3. CASE ComparesGone
        <4>1. stored.status = "living" /\ new' = Event(Over(stored.nr), TRUE) /\ UNCHANGED stored
          BY <3>3 DEF ComparesGone
        <4>2. new'.info = Over(stored.nr)
          BY <4>1, EventTypes, Zenon
        <4>3. new'.info.nr = stored.nr
          BY <4>2 DEF Over
        <4> QED
          BY <4>1, <4>3
      <3>4. CASE ComparesLive
        <4>1. /\ stored.status = "living" /\ new' = Event(Living(found.title, stored.nr), FALSE)
              /\ UNCHANGED stored
          BY <3>4 DEF ComparesLive
        <4>2. new'.info = Living(found.title, stored.nr)
          BY <4>1, EventTypes, Zenon
        <4>3. new'.info.nr = stored.nr
          BY <4>2 DEF Living
        <4> QED
          BY <4>1, <4>3
      <3>5. CASE Confirms
        <4>1. phase = "confirm" /\ UNCHANGED <<new, stored, watchers>>
          BY <3>5 DEF Confirms
        <4> QED
          BY <1>0, <4>1
      <3> QED
        BY <1>4, <3>1, <3>2, <3>3, <3>4, <3>5 DEF Round
    <2> QED
      BY <2>1, <2>2 DEF Calm, NoAdd
  <1>5. CASE \E d \in Dispatchers : Dispatch(d)
    <2>1. NoAdd /\ NoAdd'
      BY <1>5, NoAddMeanwhile
    <2>2. UNCHANGED <<roundVars, infoVars, watchers>>
      BY <1>5 DEF Dispatch, Takes, Delivers, EventDone
    <2> QED
      BY <2>1, <2>2 DEF Calm, NoAdd
  <1>6. ASSUME NEW g \in Groups, AddReads(g) \/ AddFails(g) \/ AddWork(g) PROVE Calm'
    <2>1. /\ phase = "idle" /\ Delivered /\ UNCHANGED <<stored, phase, new, eventChan, dispatch>>
      BY <1>6, AddFrame
    <2>2. Still' /\ Rising'
      BY <2>1 DEF Delivered
    <2>3. Reading'
      <3>0. /\ adding \in [Groups -> {"no", "read", "saw", "watch"}]
            /\ told \in [Groups -> {"none", "on", "over"}]
            /\ heard \in [Groups -> [1..MaxBroadcasts -> Nat]]
        BY CallTypes
      <3>1. CASE AddReads(g)
        <4>1. /\ adding' = [adding EXCEPT ![g] = IF stored.status = "living" THEN "saw" ELSE "read"]
              /\ g \notin watchers /\ UNCHANGED <<watchers, told, heard>>
          BY <3>1 DEF AddReads
        <4>2. \A h \in Groups : h # g => adding'[h] = adding[h]
          BY <3>0, <4>1
        <4>3. adding'[g] = IF stored.status = "living" THEN "saw" ELSE "read"
          BY <3>0, <4>1
        <4> QED
          BY <1>0, <2>1, <4>1, <4>2, <4>3
      <3>2. CASE AddFails(g)
        <4>1. adding' = [adding EXCEPT ![g] = "no"] /\ UNCHANGED <<watchers, told, heard>>
          BY <3>2 DEF AddFails
        <4>2. adding'[g] = "no" /\ \A h \in Groups : h # g => adding'[h] = adding[h]
          BY <3>0, <4>1
        <4> QED
          BY <1>0, <2>1, <4>1, <4>2
      <3>3. CASE AddInserts(g)
        <4>1. /\ watchers' = watchers \cup {g} /\ told' = [told EXCEPT ![g] = "none"]
              /\ heard' = [heard EXCEPT ![g] = [n \in 1..MaxBroadcasts |-> 0]]
              /\ \E a \in {"watch", "no"} : adding' = [adding EXCEPT ![g] = a]
          BY <3>3 DEF AddInserts
        <4>2. /\ adding'[g] \in {"watch", "no"} /\ told'[g] = "none"
              /\ \A h \in Groups : h # g => adding'[h] = adding[h] /\ told'[h] = told[h]
          BY <3>0, <4>1
        <4>3. /\ \A n \in 1..MaxBroadcasts : heard'[g][n] = 0
              /\ \A h \in Groups : h # g => heard'[h] = heard[h]
          BY <3>0, <4>1
        <4> QED
          BY <1>0, <2>1, <4>1, <4>2, <4>3
      <3>4. CASE GroupWatchNotify(g)
        <4>1. /\ adding' = [adding EXCEPT ![g] = "no"] /\ UNCHANGED watchers
              /\ \/ Tell(g, Event(stored, TRUE))
                 \/ UNCHANGED <<told, heard>>
          BY <3>4 DEF GroupWatchNotify
        <4>2. adding'[g] = "no" /\ \A h \in Groups : h # g => adding'[h] = adding[h]
          BY <3>0, <4>1
        <4>3. Event(stored, TRUE) \in EventsToSend
          <5>1. stored \in Infos /\ TRUE \in BOOLEAN
            BY RoundTypes
          <5> QED
            BY <5>1, EventTypes, Zenon
        <4>4. \A h \in Groups : h # g => told'[h] = told[h] /\ heard'[h] = heard[h]
          BY <4>1, <4>3, Tells
        <4> QED
          BY <1>0, <2>1, <4>1, <4>2, <4>4
      <3> QED
        BY <1>6, <3>1, <3>2, <3>3, <3>4 DEF AddWork
    <2> QED
      BY <2>2, <2>3 DEF Calm
  <1>7. CASE RemoveAllById \/ \E g \in Groups : RemoveLive(g) \/ RemoveAllByGroupCode(g) \/ DeletesLiveInfo(g)
    <2>1. /\ watchers' \subseteq watchers
          /\ stored' = stored \/ (stored' = NoInfo /\ watchers' = {})
          /\ UNCHANGED <<roundVars, dispVars, adding>>
      BY <1>7, Removes
    <2>2. NoInfo.status # "living"
      BY InfoTypes
    <2>3. Still'
      BY <1>0, <2>1 DEF NoAdd, Delivered
    <2>4. Rising' /\ Reading'
      BY <1>0, <2>1, <2>2
    <2> QED
      BY <2>3, <2>4 DEF Calm
  <1> QED
    BY <1>1, <1>2, <1>3, <1>4, <1>5, <1>6, <1>7 DEF Next, World

\* Steps that leave the groups, LiveInfo and what is on its way alone.
LEMMA RoundFrame ==
  ASSUME Fetches \/ Lists \/ ComparesOff \/ ComparesGone \/ ComparesLive \/ Confirms \/ Ends
  PROVE  phase' # "emit" /\ phase # "emit" /\ UNCHANGED <<stored, watchers, eventChan, dispatch, told, heard, missed, adding>>
  BY DEF Fetches, Lists, ComparesOff, ComparesGone, ComparesLive, Confirms, Ends, infoVars, dispVars, callVars

\* The user's own steps reach the program only through the list.
LEMMA WorldFrame ==
  ASSUME GoesLive \/ GoesOff \/ Retitles \/ UNCHANGED vars
  PROVE  UNCHANGED <<stored, watchers, phase, new, eventChan, dispatch, told, heard, missed, adding>>
  BY DEF GoesLive, GoesOff, Retitles, vars, roundVars, infoVars, dispVars, callVars

\* After a restart nothing is on its way.
LEMMA RestartFrame ==
  ASSUME Restarts
  PROVE  /\ phase' = "idle" /\ 1..Len(eventChan)' = {} /\ ~ChanChanges'
         /\ \A n : ~InChan(n)' /\ ~InDispatch(n)'
         /\ \A d \in Dispatchers : dispatch'[d].to = {} /\ ~dispatch'[d].event.changed
         /\ \A g \in Groups : adding'[g] = "no"
         /\ missed' = (missed \/ phase = "emit" \/ ~Delivered \/ ~NoAdd)
         /\ UNCHANGED <<stored, watchers, told, heard>>
  <1>1. /\ phase' = "idle" /\ eventChan' = <<>> /\ dispatch' = [d \in Dispatchers |-> Free]
        /\ adding' = [g \in Groups |-> "no"]
        /\ missed' = (missed \/ phase = "emit" \/ ~Delivered \/ ~NoAdd)
        /\ UNCHANGED <<stored, watchers, told, heard>>
    BY DEF Restarts, infoVars
  <1>2. 1..Len(eventChan)' = {}
    BY <1>1
  <1>3. \A d \in Dispatchers : dispatch'[d].to = {} /\ dispatch'[d].event.changed = FALSE
    BY <1>1, EventTypes
  <1> QED
    BY <1>1, <1>2, <1>3 DEF ChanChanges, InChan, InDispatch, Begins

\* An expiry finds nothing on its way, and forgets who has heard what.
LEMMA ExpireFrame ==
  ASSUME Expires
  PROVE  /\ phase = "idle" /\ Delivered /\ stored' = NoInfo /\ missed' = TRUE
         /\ \A g \in Groups, n \in 1..MaxBroadcasts : heard'[g][n] = 0
         /\ UNCHANGED <<watchers, phase, new, eventChan, dispatch, told, adding>>
  BY DEF Expires, roundVars, callVars

\* A LiveInfo is stored: no older than the one before, and newer when it tells of a broadcast.
LEMMA SendStep ==
  ASSUME AddOverlaps = FALSE, TypeOK, Truthful, Calm, Sends
  PROVE  /\ phase = "send" /\ phase' \in {"emit", "end"}
         /\ UNCHANGED <<watchers, new, eventChan, dispatch, told, heard, adding>>
         /\ \/ /\ stored' = new.info
               /\ \/ new.changed /\ missed' = (phase' # "emit")
                  \/ ~new.changed /\ UNCHANGED missed
            \/ phase' = "end" /\ UNCHANGED <<stored, missed>>
         /\ watchers # {} =>
               /\ stored.nr <= stored'.nr
               /\ ~new.changed => stored'.status = stored.status
               /\ \A n : Begins(new, n) => stored.nr < n
         /\ new.info.status # "none"
  <1>1. /\ phase = "send" /\ phase' \in {"emit", "end"}
        /\ UNCHANGED <<watchers, new, eventChan, dispatch, told, heard, adding>>
        /\ \/ /\ stored' = new.info /\ phase' = IF HeldBack THEN "end" ELSE "emit"
              /\ missed' = (IF new.changed THEN HeldBack ELSE missed)
           \/ phase' = "end" /\ UNCHANGED <<stored, missed>>
    BY DEF Sends, dispVars, callVars
  <1>2. HeldBack \in BOOLEAN /\ stored.nr \in Nat /\ new.info.nr \in Nat
    BY RoundTypes DEF HeldBack
  <1>3. \/ stored' = new.info /\ (\/ new.changed /\ missed' = (phase' # "emit")
                                  \/ ~new.changed /\ UNCHANGED missed)
        \/ phase' = "end" /\ UNCHANGED <<stored, missed>>
    BY <1>1, <1>2
  <1>4. new.info.status # "none" /\ \A n : Begins(new, n) => stored.nr < n
    BY <1>1 DEF Truthful, Begins
  <1>5. ASSUME watchers # {} PROVE stored.nr <= stored'.nr /\ (~new.changed => stored'.status = stored.status)
    <2>1. CASE new.info.status = "over" \/ ~new.changed
      <3>1. stored.status = "living" /\ stored.nr = new.info.nr
        BY <1>1, <1>5, <2>1 DEF Calm
      <3>2. ~new.changed => new.info.status = "living"
        BY <1>1 DEF Truthful
      <3> QED
        BY <1>2, <1>3, <3>1, <3>2
    <2>2. CASE new.info.status # "over" /\ new.changed
      <3>1. stored.nr < new.info.nr
        BY <1>1, <2>2 DEF Truthful
      <3> QED
        BY <1>2, <1>3, <2>2, <3>1
    <2> QED
      BY <2>1, <2>2
  <1> QED
    BY <1>1, <1>3, <1>4, <1>5

\* A group that starts to watch has heard of nothing.
LEMMA InsertStep ==
  ASSUME TypeOK, NEW g \in Groups, AddInserts(g)
  PROVE  /\ watchers' = watchers \cup {g} /\ told'[g] = "none" /\ adding[g] \in {"saw", "read"}
         /\ adding'[g] = IF adding[g] = "saw" THEN "watch" ELSE "no"
         /\ \A n \in 1..MaxBroadcasts : heard'[g][n] = 0
         /\ \A h \in Groups : h # g => adding'[h] = adding[h] /\ told'[h] = told[h] /\ heard'[h] = heard[h]
  <1>1. /\ watchers' = watchers \cup {g} /\ told' = [told EXCEPT ![g] = "none"] /\ adding[g] \in {"saw", "read"}
        /\ heard' = [heard EXCEPT ![g] = [n \in 1..MaxBroadcasts |-> 0]]
        /\ adding' = [adding EXCEPT ![g] = IF @ = "saw" THEN "watch" ELSE "no"]
    BY DEF AddInserts
  <1>2. /\ adding \in [Groups -> {"no", "read", "saw", "watch"}]
        /\ told \in [Groups -> {"none", "on", "over"}]
        /\ heard \in [Groups -> [1..MaxBroadcasts -> Nat]]
    BY CallTypes
  <1>3. /\ adding'[g] = IF adding[g] = "saw" THEN "watch" ELSE "no"
        /\ \A h \in Groups : h # g => adding'[h] = adding[h]
    BY <1>1, <1>2
  <1>4. told'[g] = "none" /\ \A h \in Groups : h # g => told'[h] = told[h]
    BY <1>1, <1>2
  <1>5. /\ \A n \in 1..MaxBroadcasts : heard'[g][n] = 0
        /\ \A h \in Groups : h # g => heard'[h] = heard[h]
    BY <1>1, <1>2
  <1> QED
    BY <1>1, <1>3, <1>4, <1>5

\* GroupWatchNotify tells the group of the broadcast in the database, and of no other.
LEMMA WatchStep ==
  ASSUME TypeOK, NEW g \in Groups, GroupWatchNotify(g)
  PROVE  /\ adding[g] = "watch" /\ adding'[g] = "no" /\ UNCHANGED watchers
         /\ \A h \in Groups : h # g => adding'[h] = adding[h] /\ told'[h] = told[h] /\ heard'[h] = heard[h]
         /\ stored.status = "living" => told'[g] = "on"
         /\ stored.status # "living" => told'[g] = told[g]
         /\ \A n \in 1..MaxBroadcasts :
               heard'[g][n] = heard[g][n] \/ (heard'[g][n] = heard[g][n] + 1 /\ n = stored.nr)
  <1>1. /\ adding[g] = "watch" /\ adding' = [adding EXCEPT ![g] = "no"] /\ UNCHANGED watchers
        /\ \/ stored.status = "living" /\ Tell(g, Event(stored, TRUE))
           \/ stored.status # "living" /\ UNCHANGED <<told, heard>>
    BY DEF GroupWatchNotify
  <1>2. adding'[g] = "no" /\ \A h \in Groups : h # g => adding'[h] = adding[h]
    BY <1>1, CallTypes
  <1>3. /\ Event(stored, TRUE) \in EventsToSend
        /\ Event(stored, TRUE).info = stored /\ Event(stored, TRUE).changed = TRUE
    <2>1. stored \in Infos /\ TRUE \in BOOLEAN
      BY RoundTypes
    <2> QED
      BY <2>1, EventTypes, Zenon
  <1>4. CASE stored.status = "living" /\ Tell(g, Event(stored, TRUE))
    <2> DEFINE e == Event(stored, TRUE)
    <2>1. e \in EventsToSend /\ e.info = stored /\ e.changed /\ Tell(g, e)
      BY <1>3, <1>4
    <2> HIDE DEF e
    <2>2. /\ \A h \in Groups : h # g => told'[h] = told[h] /\ heard'[h] = heard[h]
          /\ told'[g] = "on"
          /\ \A n \in 1..MaxBroadcasts :
                /\ Begins(e, n) => heard'[g][n] = heard[g][n] + 1
                /\ heard'[g][n] # heard[g][n] => e.info.nr = n
      BY <1>4, <2>1, Tells
    <2>3. \A n \in 1..MaxBroadcasts : n = stored.nr => Begins(e, n)
      BY <1>4, <2>1 DEF Begins
    <2> QED
      BY <1>1, <1>2, <1>4, <2>1, <2>2, <2>3
  <1>5. CASE stored.status # "living" /\ UNCHANGED <<told, heard>>
    BY <1>1, <1>2, <1>5
  <1> QED
    BY <1>1, <1>4, <1>5

\* Every step keeps what is on its way to a group to what it has not heard.
LEMMA OnceEachKept ==
  ASSUME AddOverlaps = FALSE, TypeOK, Truthful, Spoken, Calm, OnceEach, OneEvent, [Next]_vars
  PROVE  OnceEach'
  <1>1. CASE GoesLive \/ GoesOff \/ Retitles \/ UNCHANGED vars
    BY <1>1, WorldFrame DEF OnceEach
  <1>2. CASE Fetches \/ Lists \/ ComparesOff \/ ComparesGone \/ ComparesLive \/ Confirms \/ Ends
    BY <1>2, RoundFrame DEF OnceEach
  <1>3. CASE Sends
    BY <1>3, SendStep DEF OnceEach
  <1>4. CASE Emits
    BY <1>4, EmitStep DEF OnceEach
  <1>5. CASE Expires
    <2>1. \A n : ~InDispatch(n)'
      BY <1>5, ExpireFrame, NothingOnItsWay DEF InDispatch
    <2>2. \A d \in Dispatchers : \A n : ~Begins(dispatch[d].event, n)'
      BY <2>1 DEF InDispatch
    <2>3. 0 <= 1
      OBVIOUS
    <2> QED
      BY <1>5, <2>2, <2>3, ExpireFrame DEF OnceEach
  <1>6. CASE Restarts
    BY <1>6, RestartFrame DEF OnceEach
  <1>7. ASSUME NEW d \in Dispatchers, Takes(d) PROVE OnceEach'
    <2>1. /\ 1 \in 1..Len(eventChan) /\ dispatch'[d].event = eventChan[1] /\ dispatch'[d].to = watchers
          /\ \A e \in Dispatchers : e # d => dispatch'[e] = dispatch[e]
          /\ UNCHANGED heard
      BY <1>7, TakeStep
    <2> SUFFICES ASSUME NEW g \in Groups, NEW n \in 1..MaxBroadcasts
                 PROVE  /\ heard[g][n] <= 1
                        /\ \A a \in Dispatchers :
                              Begins(dispatch'[a].event, n) /\ g \in dispatch'[a].to =>
                                 /\ heard[g][n] = 0
                                 /\ \A e \in Dispatchers :
                                       Begins(dispatch'[e].event, n) /\ g \in dispatch'[e].to => a = e
      BY <2>1 DEF OnceEach, Begins
    <2>2. CASE g \in watchers /\ Begins(eventChan[1], n)
      <3>1. InChan(n)
        BY <2>1, <2>2 DEF InChan
      <3>2. ~InDispatch(n) /\ ~Heard(n)
        BY <2>2, <3>1 DEF OneEvent
      <3>3. heard[g][n] = 0 /\ \A e \in Dispatchers : ~Begins(dispatch[e].event, n)
        BY <2>2, <3>2 DEF Heard, InDispatch
      <3>4. 0 <= 1
        OBVIOUS
      <3> QED
        BY <2>1, <3>3, <3>4
    <2>3. CASE ~(g \in watchers /\ Begins(eventChan[1], n))
      BY <2>1, <2>3 DEF OnceEach
    <2> QED
      BY <2>2, <2>3
  <1>8. ASSUME NEW d \in Dispatchers, Delivers(d) PROVE OnceEach'
    <2>1. PICK g \in dispatch[d].to :
             g \in Groups /\ Tell(g, dispatch[d].event) /\ dispatch'[d].to = dispatch[d].to \ {g}
      BY <1>8, DeliverStep
    <2>2. /\ dispatch'[d].event = dispatch[d].event
          /\ \A e \in Dispatchers : e # d => dispatch'[e] = dispatch[e]
      BY <1>8, DeliverStep
    <2>3. dispatch[d].event \in EventsToSend /\ dispatch[d].event.info.status \in {"living", "over"}
      <3>1. dispatch[d].event \in EventsToSend /\ dispatch[d].event.info \in Infos
        BY CallTypes
      <3>2. dispatch[d].event.info.status # "none"
        BY <2>1 DEF Spoken
      <3> QED
        BY <3>1, <3>2, InfoTypes
    <2>4. /\ \A h \in Groups : h # g => heard'[h] = heard[h]
          /\ \A n \in 1..MaxBroadcasts :
               /\ Begins(dispatch[d].event, n) => heard'[g][n] = heard[g][n] + 1
               /\ ~Begins(dispatch[d].event, n) => heard'[g][n] = heard[g][n]
      BY <2>1, <2>3, Tells DEF Begins
    <2>5. \A e \in Dispatchers : dispatch'[e].event = dispatch[e].event /\ dispatch'[e].to \subseteq dispatch[e].to
      BY <2>1, <2>2
    <2>6. g \notin dispatch'[d].to
      BY <2>1
    <2> SUFFICES ASSUME NEW h \in Groups, NEW n \in 1..MaxBroadcasts
                 PROVE  /\ heard'[h][n] <= 1
                        /\ \A a \in Dispatchers :
                              Begins(dispatch'[a].event, n) /\ h \in dispatch'[a].to =>
                                 /\ heard'[h][n] = 0
                                 /\ \A e \in Dispatchers :
                                       Begins(dispatch'[e].event, n) /\ h \in dispatch'[e].to => a = e
      BY DEF OnceEach, Begins
    <2>7. CASE h = g /\ Begins(dispatch[d].event, n)
      <3>1. heard[g][n] = 0 /\ \A e \in Dispatchers : Begins(dispatch[e].event, n) /\ g \in dispatch[e].to => d = e
        BY <2>1, <2>7 DEF OnceEach
      <3>2. heard'[g][n] <= 1
        BY <2>4, <2>7, <3>1
      <3> QED
        BY <2>5, <2>6, <2>7, <3>1, <3>2
    <2>8. CASE ~(h = g /\ Begins(dispatch[d].event, n))
      <3>1. heard'[h][n] = heard[h][n]
        BY <2>4, <2>8
      <3> QED
        BY <2>5, <3>1 DEF OnceEach
    <2> QED
      BY <2>7, <2>8
  <1>9. ASSUME NEW d \in Dispatchers, EventDone(d) PROVE OnceEach'
    <2>1. /\ dispatch'[d].to = {} /\ \A e \in Dispatchers : e # d => dispatch'[e] = dispatch[e]
          /\ UNCHANGED heard
      BY <1>9, DoneStep
    <2> QED
      BY <2>1 DEF OnceEach
  <1>10. ASSUME NEW g \in Groups, AddReads(g) \/ AddFails(g) \/ AddWork(g) PROVE OnceEach'
    <2>1. Delivered /\ UNCHANGED <<stored, dispatch>>
      BY <1>10, AddFrame
    <2>2. \A d \in Dispatchers : dispatch'[d].to = {}
      BY <2>1, NothingOnItsWay
    <2>3. \A h \in Groups, n \in 1..MaxBroadcasts : heard[h][n] <= 1
      BY DEF OnceEach
    <2>4. \A h \in Groups, n \in 1..MaxBroadcasts : heard'[h][n] <= 1
      <3>1. CASE AddReads(g) \/ AddFails(g)
        BY <2>3, <3>1 DEF AddReads, AddFails, dispVars
      <3>2. CASE AddInserts(g)
        <4>1. 0 <= 1
          OBVIOUS
        <4> QED
          BY <2>3, <3>2, <4>1, InsertStep
      <3>3. CASE GroupWatchNotify(g)
        <4>1. \A n \in 1..MaxBroadcasts : heard[g][n] = 0
          BY <3>3, WatchStep DEF Calm
        <4>2. \A n \in 1..MaxBroadcasts : heard'[g][n] <= 1
          BY <2>3, <3>3, <4>1, WatchStep
        <4> QED
          BY <2>3, <3>3, <4>2, WatchStep
      <3> QED
        BY <1>10, <3>1, <3>2, <3>3 DEF AddWork
    <2> QED
      BY <2>2, <2>4 DEF OnceEach
  <1>11. CASE RemoveAllById \/ \E g \in Groups : RemoveLive(g) \/ RemoveAllByGroupCode(g) \/ DeletesLiveInfo(g)
    BY <1>11, Removes DEF OnceEach, dispVars
  <1> QED
    BY <1>1, <1>2, <1>3, <1>4, <1>5, <1>6, <1>7, <1>8, <1>9, <1>10, <1>11 DEF Next, World, Round, Dispatch

\* Nothing new on its way, and the LiveInfo no older.
LEMMA SameEvents ==
  ASSUME TypeOK, TypeOK', OneEvent, watchers # {}, stored.nr <= stored'.nr, UNCHANGED eventChan,
         \A n \in 1..MaxBroadcasts :
            /\ AtEmit(n)' => AtEmit(n)
            /\ InDispatch(n)' => InDispatch(n)
            /\ Heard(n)' => Heard(n) \/ InDispatch(n) \/ (n = stored.nr /\ phase = "idle" /\ Delivered)
  PROVE  OneEvent'
  <1>1. \A n \in 1..MaxBroadcasts : n \in Nat
    BY InfoTypes
  <1>2. stored.nr \in Nat /\ stored'.nr \in Nat
    BY InfoTypes DEF TypeOK
  <1>3. \A n : InChan(n)' <=> InChan(n)
    BY DEF InChan, Begins
  <1>4. \A n \in 1..MaxBroadcasts : AtEmit(n)' \/ InChan(n)' \/ InDispatch(n)' \/ Heard(n)' => n <= stored'.nr
    BY <1>1, <1>2, <1>3 DEF OneEvent
  <1>5. phase = "idle" /\ Delivered => \A n : ~AtEmit(n) /\ ~InChan(n)
    BY NothingOnItsWay DEF AtEmit
  <1>6. \A n \in 1..MaxBroadcasts :
            /\ AtEmit(n)' => ~InChan(n)'
            /\ AtEmit(n)' \/ InChan(n)' => ~InDispatch(n)' /\ ~Heard(n)'
    BY <1>3, <1>5 DEF OneEvent
  <1>7. \A n \in 1..MaxBroadcasts : \A i, j \in 1..Len(eventChan)' :
            Begins(eventChan[i], n)' /\ Begins(eventChan[j], n)' => i = j
    BY DEF OneEvent, Begins
  <1> QED
    BY <1>4, <1>6, <1>7 DEF OneEvent

\* Every step keeps to one event for each broadcast.
LEMMA OneEventKept ==
  ASSUME AddOverlaps = FALSE, TypeOK, TypeOK', Truthful, Spoken, Calm, OneEvent, [Next]_vars
  PROVE  OneEvent'
  <1>0. stored.nr \in Nat /\ stored'.nr \in Nat /\ \A k \in Nat : k <= k
    BY InfoTypes DEF TypeOK
  <1>1. CASE GoesLive \/ GoesOff \/ Retitles \/ UNCHANGED vars
    BY <1>1, WorldFrame DEF OneEvent, AtEmit, InChan, InDispatch, Heard, Begins
  <1>2. CASE Fetches \/ Lists \/ ComparesOff \/ ComparesGone \/ ComparesLive \/ Confirms \/ Ends
    <2>1. CASE watchers = {}
      BY <1>2, <2>1, RoundFrame DEF OneEvent
    <2>2. CASE watchers # {}
      <3>1. stored.nr <= stored'.nr /\ UNCHANGED eventChan
        BY <1>0, <1>2, RoundFrame
      <3>2. \A n \in 1..MaxBroadcasts :
               ~AtEmit(n)' /\ (InDispatch(n)' => InDispatch(n)) /\ (Heard(n)' => Heard(n))
        BY <1>2, RoundFrame DEF AtEmit, InDispatch, Heard, Begins
      <3> QED
        BY <2>2, <3>1, <3>2, SameEvents
    <2> QED
      BY <2>1, <2>2
  <1>3. CASE Sends
    <2>1. CASE watchers = {}
      BY <1>3, <2>1, SendStep DEF OneEvent
    <2>2. CASE watchers # {}
      <3>1. /\ stored.nr <= stored'.nr /\ UNCHANGED <<watchers, new, eventChan, dispatch, heard>>
            /\ phase = "send" /\ (phase' = "emit" => stored' = new.info)
            /\ \A n : Begins(new, n) => stored.nr < n
        BY <1>3, <2>2, SendStep
      <3>2. \A n : ~AtEmit(n) /\ (InChan(n)' <=> InChan(n)) /\ (InDispatch(n)' <=> InDispatch(n))
                   /\ (Heard(n)' <=> Heard(n))
        BY <3>1 DEF AtEmit, InChan, InDispatch, Heard, Begins
      <3>3. \A n : AtEmit(n)' => n = stored'.nr /\ stored.nr < n
        BY <3>1 DEF AtEmit, Begins
      <3>4. ASSUME NEW n \in 1..MaxBroadcasts
            PROVE  /\ AtEmit(n)' \/ InChan(n)' \/ InDispatch(n)' \/ Heard(n)' => n <= stored'.nr
                   /\ AtEmit(n)' => ~InChan(n)'
                   /\ AtEmit(n)' \/ InChan(n)' => ~InDispatch(n)' /\ ~Heard(n)'
        <4>1. n \in Nat
          BY InfoTypes
        <4>2. /\ InChan(n) \/ InDispatch(n) \/ Heard(n) => n <= stored.nr
              /\ InChan(n) => ~InDispatch(n) /\ ~Heard(n)
          BY <2>2 DEF OneEvent
        <4>3. AtEmit(n)' => ~InChan(n) /\ ~InDispatch(n) /\ ~Heard(n)
          BY <1>0, <3>3, <4>1, <4>2
        <4>4. InChan(n) \/ InDispatch(n) \/ Heard(n) => n <= stored'.nr
          BY <1>0, <3>1, <4>1, <4>2
        <4>5. AtEmit(n)' => n <= stored'.nr
          BY <1>0, <3>3
        <4> QED
          BY <3>2, <4>2, <4>3, <4>4, <4>5
      <3>5. \A n \in 1..MaxBroadcasts : \A i, j \in 1..Len(eventChan)' :
                Begins(eventChan[i], n)' /\ Begins(eventChan[j], n)' => i = j
        BY <2>2, <3>1 DEF OneEvent, Begins
      <3> QED
        BY <3>4, <3>5 DEF OneEvent
    <2> QED
      BY <2>1, <2>2
  <1>4. CASE Emits
    <2> SUFFICES ASSUME watchers' # {} PROVE OneEvent'
      BY DEF OneEvent
    <2>1. /\ Len(eventChan) \in Nat /\ Len(eventChan)' = Len(eventChan) + 1
          /\ eventChan'[Len(eventChan) + 1] = new
          /\ \A i \in 1..Len(eventChan) : i \in 1..Len(eventChan)' /\ eventChan'[i] = eventChan[i]
          /\ \A i \in 1..Len(eventChan)' : i \in 1..Len(eventChan) \/ i = Len(eventChan) + 1
          /\ phase = "emit" /\ phase' = "end"
          /\ UNCHANGED <<stored, watchers, dispatch, heard>>
      BY <1>4, EmitStep
    <2>2. \A n : ~AtEmit(n)' /\ (InDispatch(n)' <=> InDispatch(n)) /\ (Heard(n)' <=> Heard(n))
      BY <2>1 DEF AtEmit, InDispatch, Heard, Begins
    <2>3. \A n : InChan(n)' => InChan(n) \/ AtEmit(n)
      BY <2>1 DEF InChan, AtEmit, Begins
    <2>4. \A n \in 1..MaxBroadcasts :
            /\ AtEmit(n)' \/ InChan(n)' \/ InDispatch(n)' \/ Heard(n)' => n <= stored'.nr
            /\ AtEmit(n)' => ~InChan(n)'
            /\ AtEmit(n)' \/ InChan(n)' => ~InDispatch(n)' /\ ~Heard(n)'
      BY <2>1, <2>2, <2>3 DEF OneEvent
    <2>5. ASSUME NEW n \in 1..MaxBroadcasts, NEW i \in 1..Len(eventChan)', NEW j \in 1..Len(eventChan)',
                 Begins(eventChan'[i], n), Begins(eventChan'[j], n)
          PROVE  i = j
      <3>1. CASE i \in 1..Len(eventChan) /\ j \in 1..Len(eventChan)
        <4>1. Begins(eventChan[i], n) /\ Begins(eventChan[j], n)
          BY <2>1, <2>5, <3>1
        <4> QED
          BY <2>1, <3>1, <4>1 DEF OneEvent
      <3>2. CASE i = Len(eventChan) + 1 /\ j \in 1..Len(eventChan)
        <4>1. Begins(new, n) /\ Begins(eventChan[j], n)
          BY <2>1, <2>5, <3>2
        <4> QED
          BY <2>1, <3>2, <4>1 DEF OneEvent, AtEmit, InChan
      <3>3. CASE j = Len(eventChan) + 1 /\ i \in 1..Len(eventChan)
        <4>1. Begins(new, n) /\ Begins(eventChan[i], n)
          BY <2>1, <2>5, <3>3
        <4> QED
          BY <2>1, <3>3, <4>1 DEF OneEvent, AtEmit, InChan
      <3> QED
        BY <2>1, <3>1, <3>2, <3>3
    <2>6. \A n \in 1..MaxBroadcasts : \A i, j \in 1..Len(eventChan)' :
                Begins(eventChan[i], n)' /\ Begins(eventChan[j], n)' => i = j
      BY <2>5 DEF Begins
    <2> QED
      BY <2>4, <2>6 DEF OneEvent
  <1>5. CASE Expires \/ Restarts
    <2> SUFFICES ASSUME watchers' # {} PROVE OneEvent'
      BY DEF OneEvent
    <2>1. phase' = "idle" /\ 1..Len(eventChan)' = {} /\ \A n : ~InChan(n)' /\ ~InDispatch(n)'
      <3>1. CASE Expires
        <4>1. Delivered /\ phase = "idle" /\ UNCHANGED <<phase, eventChan, dispatch>>
          BY <3>1, ExpireFrame
        <4>2. 1..Len(eventChan) = {} /\ \A n : ~InChan(n) /\ ~InDispatch(n)
          BY <4>1, NothingOnItsWay
        <4> QED
          BY <4>1, <4>2 DEF InChan, InDispatch, Begins
      <3>2. CASE Restarts
        BY <3>2, RestartFrame
      <3> QED
        BY <1>5, <3>1, <3>2
    <2>2. \A n \in 1..MaxBroadcasts : Heard(n)' => n <= stored'.nr
      <3>1. CASE Expires
        <4>1. watchers' \subseteq Groups
          BY DEF TypeOK
        <4>2. \A n \in 1..MaxBroadcasts : ~Heard(n)'
          BY <3>1, <4>1, ExpireFrame DEF Heard
        <4> QED
          BY <4>2
      <3>2. CASE Restarts
        BY <3>2, RestartFrame DEF OneEvent, Heard
      <3> QED
        BY <1>5, <3>1, <3>2
    <2>3. \A n : ~AtEmit(n)'
      BY <2>1 DEF AtEmit
    <2> QED
      BY <2>1, <2>2, <2>3 DEF OneEvent
  <1>6. ASSUME NEW d \in Dispatchers, Takes(d) PROVE OneEvent'
    <2> SUFFICES ASSUME watchers' # {} PROVE OneEvent'
      BY DEF OneEvent
    <2>1. /\ Len(eventChan) \in Nat /\ Len(eventChan)' = Len(eventChan) - 1 /\ 1 \in 1..Len(eventChan)
          /\ \A i \in 1..Len(eventChan)' : i + 1 \in 1..Len(eventChan) /\ eventChan'[i] = eventChan[i + 1]
          /\ dispatch'[d].event = eventChan[1]
          /\ \A e \in Dispatchers : e # d => dispatch'[e] = dispatch[e]
          /\ UNCHANGED <<stored, watchers, phase, new, heard>>
      BY <1>6, TakeStep
    <2>2. \A n : (AtEmit(n)' <=> AtEmit(n)) /\ (Heard(n)' <=> Heard(n))
      BY <2>1 DEF AtEmit, Heard, Begins
    <2>3. \A n : InChan(n)' => InChan(n)
      BY <2>1 DEF InChan, Begins
    <2>4. \A n : InDispatch(n)' => InDispatch(n) \/ Begins(eventChan[1], n)
      BY <2>1 DEF InDispatch, Begins
    <2>5. \A n : Begins(eventChan[1], n) => InChan(n)
      BY <2>1 DEF InChan
    <2>6. ASSUME NEW n \in 1..MaxBroadcasts, InChan(n)' PROVE ~Begins(eventChan[1], n)
      <3>1. PICK i \in 1..Len(eventChan)' : Begins(eventChan'[i], n)
        BY <2>6 DEF InChan, Begins
      <3>2. i + 1 \in 1..Len(eventChan) /\ Begins(eventChan[i + 1], n) /\ i + 1 # 1
        BY <2>1, <3>1
      <3> QED
        BY <2>1, <3>2 DEF OneEvent
    <2>7. \A n \in 1..MaxBroadcasts :
            /\ AtEmit(n)' \/ InChan(n)' \/ InDispatch(n)' \/ Heard(n)' => n <= stored'.nr
            /\ AtEmit(n)' => ~InChan(n)'
            /\ AtEmit(n)' \/ InChan(n)' => ~InDispatch(n)' /\ ~Heard(n)'
      BY <2>1, <2>2, <2>3, <2>4, <2>5, <2>6 DEF OneEvent
    <2>8. \A n \in 1..MaxBroadcasts : \A i, j \in 1..Len(eventChan)' :
                Begins(eventChan[i], n)' /\ Begins(eventChan[j], n)' => i = j
      <3> SUFFICES ASSUME NEW n \in 1..MaxBroadcasts, NEW i \in 1..Len(eventChan)', NEW j \in 1..Len(eventChan)',
                          Begins(eventChan'[i], n), Begins(eventChan'[j], n)
                   PROVE  i = j
        BY DEF Begins
      <3>1. /\ i + 1 \in 1..Len(eventChan) /\ Begins(eventChan[i + 1], n)
            /\ j + 1 \in 1..Len(eventChan) /\ Begins(eventChan[j + 1], n)
        BY <2>1
      <3>2. i + 1 = j + 1
        BY <2>1, <3>1 DEF OneEvent
      <3> QED
        BY <2>1, <3>2
    <2> QED
      BY <2>7, <2>8 DEF OneEvent
  <1>7. ASSUME NEW d \in Dispatchers, Delivers(d) PROVE OneEvent'
    <2> SUFFICES ASSUME watchers' # {} PROVE OneEvent'
      BY DEF OneEvent
    <2>1. PICK g \in dispatch[d].to : g \in Groups /\ Tell(g, dispatch[d].event)
      BY <1>7, DeliverStep
    <2>2. /\ dispatch'[d].event = dispatch[d].event
          /\ \A e \in Dispatchers : e # d => dispatch'[e] = dispatch[e]
          /\ UNCHANGED <<stored, watchers, phase, new, eventChan>>
      BY <1>7, DeliverStep
    <2>3. dispatch[d].event \in EventsToSend /\ dispatch[d].event.info.status \in {"living", "over"}
      <3>1. dispatch[d].event \in EventsToSend /\ dispatch[d].event.info \in Infos
        BY CallTypes
      <3>2. dispatch[d].event.info.status # "none"
        BY <2>1 DEF Spoken
      <3> QED
        BY <3>1, <3>2, InfoTypes
    <2>4. /\ \A h \in Groups : h # g => heard'[h] = heard[h]
          /\ \A n \in 1..MaxBroadcasts :
               heard'[g][n] # heard[g][n] => Begins(dispatch[d].event, n)
      BY <2>1, <2>3, Tells DEF Begins
    <2>5. \A n : (AtEmit(n)' => AtEmit(n)) /\ (InDispatch(n)' => InDispatch(n))
      BY <2>2 DEF AtEmit, InDispatch, Begins
    <2>6. \A n \in 1..MaxBroadcasts : Heard(n)' => Heard(n) \/ InDispatch(n)
      <3>1. watchers' \subseteq Groups
        BY DEF TypeOK
      <3> QED
        BY <2>2, <2>4, <3>1 DEF Heard, InDispatch
    <2>7. stored.nr <= stored'.nr /\ watchers # {}
      BY <1>0, <2>2
    <2> QED
      BY <2>2, <2>5, <2>6, <2>7, SameEvents
  <1>8. ASSUME NEW d \in Dispatchers, EventDone(d) PROVE OneEvent'
    <2> SUFFICES ASSUME watchers' # {} PROVE OneEvent'
      BY DEF OneEvent
    <2>1. /\ dispatch'[d].event = NoEvent /\ \A e \in Dispatchers : e # d => dispatch'[e] = dispatch[e]
          /\ UNCHANGED <<stored, watchers, phase, new, eventChan, heard>>
      BY <1>8, DoneStep
    <2>2. \A n : ~Begins(NoEvent, n)
      BY EventTypes DEF Begins
    <2>3. \A n : (AtEmit(n)' => AtEmit(n)) /\ (InDispatch(n)' => InDispatch(n)) /\ (Heard(n)' => Heard(n))
      BY <2>1, <2>2 DEF AtEmit, InDispatch, Heard, Begins
    <2>4. stored.nr <= stored'.nr /\ watchers # {}
      BY <1>0, <2>1
    <2> QED
      BY <2>1, <2>3, <2>4, SameEvents
  <1>9. ASSUME NEW g \in Groups, AddReads(g) \/ AddFails(g) \/ AddWork(g) PROVE OneEvent'
    <2> SUFFICES ASSUME watchers' # {} PROVE OneEvent'
      BY DEF OneEvent
    <2>1. phase = "idle" /\ Delivered /\ UNCHANGED <<stored, phase, new, eventChan, dispatch>>
      BY <1>9, AddFrame
    <2>2. 1..Len(eventChan) = {} /\ \A n : ~AtEmit(n) /\ ~InChan(n) /\ ~InDispatch(n)
      BY <2>1, NothingOnItsWay DEF AtEmit
    <2>3. 1..Len(eventChan)' = {} /\ \A n : ~AtEmit(n)' /\ ~InChan(n)' /\ ~InDispatch(n)'
      BY <2>1, <2>2 DEF AtEmit, InChan, InDispatch, Begins
    <2>4. watchers \subseteq Groups /\ watchers' \subseteq Groups
      BY DEF TypeOK
    <2>5. \A n \in 1..MaxBroadcasts : Heard(n)' => Heard(n) \/ n = stored.nr
      <3>1. CASE AddReads(g) \/ AddFails(g)
        BY <3>1 DEF AddReads, AddFails, dispVars, Heard
      <3>2. CASE AddInserts(g)
        BY <2>4, <3>2, InsertStep DEF Heard
      <3>3. CASE GroupWatchNotify(g)
        BY <2>4, <3>3, WatchStep DEF Heard
      <3> QED
        BY <1>9, <3>1, <3>2, <3>3 DEF AddWork
    <2>6. \A n \in 1..MaxBroadcasts : Heard(n) => watchers # {} /\ n <= stored.nr
      BY DEF OneEvent, Heard
    <2>7. \A n \in 1..MaxBroadcasts : Heard(n)' => n <= stored'.nr
      BY <1>0, <2>1, <2>5, <2>6
    <2> QED
      BY <2>3, <2>7 DEF OneEvent
  <1>10. CASE RemoveAllById \/ \E g \in Groups : RemoveLive(g) \/ RemoveAllByGroupCode(g) \/ DeletesLiveInfo(g)
    <2> SUFFICES ASSUME watchers' # {} PROVE OneEvent'
      BY DEF OneEvent
    <2>1. /\ watchers' \subseteq watchers /\ stored' = stored
          /\ UNCHANGED <<phase, new, eventChan, dispatch, heard>>
      BY <1>10, Removes DEF roundVars, dispVars
    <2>2. \A n : (AtEmit(n)' => AtEmit(n)) /\ (InDispatch(n)' => InDispatch(n)) /\ (Heard(n)' => Heard(n))
      BY <2>1 DEF AtEmit, InDispatch, Heard, Begins
    <2>3. stored.nr <= stored'.nr /\ watchers # {}
      BY <1>0, <2>1
    <2> QED
      BY <2>1, <2>2, <2>3, SameEvents
  <1> QED
    BY <1>1, <1>2, <1>3, <1>4, <1>5, <1>6, <1>7, <1>8, <1>9, <1>10 DEF Next, World, Round, Dispatch

\* A step that leaves what is told, and on its way, alone, and LiveInfo's status.
LEMMA SameWord ==
  ASSUME LastWord, watchers # {}, stored'.status = stored.status,
         UNCHANGED <<watchers, eventChan, dispatch, told, adding, missed>>,
         EmitsChange' <=> EmitsChange, EmitsChange => new' = new
  PROVE  LastWord'
  BY DEF LastWord, Agrees, EmitsChange, ChanChanges, Told

\* Every step keeps the last word what the database says.
LEMMA LastWordKept ==
  ASSUME AddOverlaps = FALSE, OneDispatcher, TypeOK, Truthful, Spoken, Calm, LastWord, [Next]_vars
  PROVE  LastWord'
  <1>0. new.changed \in BOOLEAN
    BY RoundTypes
  <1>1. CASE GoesLive \/ GoesOff \/ Retitles \/ UNCHANGED vars
    BY <1>1, WorldFrame DEF LastWord, Agrees, EmitsChange, ChanChanges, Told
  <1>2. CASE Fetches \/ Lists \/ ComparesOff \/ ComparesGone \/ ComparesLive \/ Confirms \/ Ends
    <2>1. CASE watchers = {}
      BY <1>2, <2>1, RoundFrame DEF LastWord
    <2>2. CASE watchers # {}
      <3>1. /\ ~EmitsChange /\ ~EmitsChange'
            /\ UNCHANGED <<stored, watchers, eventChan, dispatch, told, adding, missed>>
        BY <1>2, RoundFrame DEF EmitsChange
      <3> QED
        BY <2>2, <3>1, SameWord
    <2> QED
      BY <2>1, <2>2
  <1>3. CASE Sends
    <2> SUFFICES ASSUME watchers' # {}, ~missed' PROVE LastWord'
      BY DEF LastWord
    <2>1. /\ phase = "send" /\ phase' \in {"emit", "end"} /\ watchers # {} /\ new.info.status # "none"
          /\ UNCHANGED <<watchers, new, eventChan, dispatch, told, adding>>
          /\ \/ /\ stored' = new.info
                /\ \/ new.changed /\ missed' = (phase' # "emit")
                   \/ ~new.changed /\ UNCHANGED missed
             \/ phase' = "end" /\ UNCHANGED <<stored, missed>>
          /\ ~new.changed => stored'.status = stored.status
      BY <1>3, SendStep
    <2>2. ~EmitsChange
      BY <2>1 DEF EmitsChange
    <2>3. CASE stored' = new.info /\ new.changed /\ missed' = (phase' # "emit")
      <3>1. EmitsChange' /\ new' = new
        BY <2>1, <2>3 DEF EmitsChange
      <3>2. Agrees(new.info.status = "living")'
        BY <2>3, <3>1 DEF Agrees
      <3> QED
        BY <3>1, <3>2 DEF LastWord
    <2>4. CASE ~new.changed /\ stored' = new.info /\ UNCHANGED missed
      <3>1. ~EmitsChange'
        BY <2>1, <2>4 DEF EmitsChange
      <3> QED
        BY <2>1, <2>2, <2>4, <3>1, SameWord
    <2>5. CASE phase' = "end" /\ UNCHANGED <<stored, missed>>
      <3>1. ~EmitsChange'
        BY <2>5 DEF EmitsChange
      <3> QED
        BY <2>1, <2>2, <2>5, <3>1, SameWord
    <2> QED
      BY <2>1, <2>3, <2>4, <2>5
  <1>4. CASE Emits
    <2> SUFFICES ASSUME watchers' # {}, ~missed' PROVE LastWord'
      BY DEF LastWord
    <2>1. /\ Len(eventChan) \in Nat /\ Len(eventChan)' = Len(eventChan) + 1
          /\ eventChan'[Len(eventChan) + 1] = new
          /\ \A i \in 1..Len(eventChan) : i \in 1..Len(eventChan)' /\ eventChan'[i] = eventChan[i]
          /\ \A i \in 1..Len(eventChan)' : i \in 1..Len(eventChan) \/ i = Len(eventChan) + 1
          /\ phase = "emit" /\ phase' = "end"
          /\ UNCHANGED <<stored, watchers, dispatch, told, missed, adding>>
      BY <1>4, EmitStep
    <2>2. ~EmitsChange' /\ (EmitsChange <=> new.changed)
      BY <2>1 DEF EmitsChange
    <2>3. ASSUME NEW i \in 1..Len(eventChan)', eventChan'[i].changed,
                 \A j \in (i + 1)..Len(eventChan)' : ~eventChan'[j].changed
          PROVE  Agrees(eventChan'[i].info.status = "living")
      <3>1. CASE new.changed
        <4>1. i = Len(eventChan) + 1
          <5>1. CASE i \in 1..Len(eventChan)
            <6>1. Len(eventChan) + 1 \in (i + 1)..Len(eventChan)'
              BY <2>1, <5>1
            <6> QED
              BY <2>1, <2>3, <3>1, <6>1
          <5> QED
            BY <2>1, <5>1
        <4>2. Agrees(new.info.status = "living")
          BY <2>1, <2>2, <3>1 DEF LastWord
        <4> QED
          BY <2>1, <4>1, <4>2
      <3>2. CASE ~new.changed
        <4>1. i \in 1..Len(eventChan)
          BY <2>1, <2>3, <3>2
        <4>2. eventChan[i].changed /\ \A j \in (i + 1)..Len(eventChan) : ~eventChan[j].changed
          <5>1. \A j \in (i + 1)..Len(eventChan) : j \in 1..Len(eventChan) /\ j \in (i + 1)..Len(eventChan)'
            BY <2>1, <4>1
          <5> QED
            BY <2>1, <2>3, <4>1, <5>1
        <4>3. Agrees(eventChan[i].info.status = "living")
          BY <2>1, <2>2, <3>2, <4>1, <4>2 DEF LastWord
        <4> QED
          BY <2>1, <4>1, <4>3
      <3> QED
        BY <3>1, <3>2
    <2>4. ~ChanChanges' => ~EmitsChange /\ ~ChanChanges
      <3>1. new.changed => ChanChanges'
        <4>1. Len(eventChan) + 1 \in 1..Len(eventChan)'
          BY <2>1
        <4> QED
          BY <2>1, <4>1 DEF ChanChanges
      <3>2. ChanChanges => ChanChanges'
        BY <2>1 DEF ChanChanges
      <3> QED
        BY <2>2, <3>1, <3>2
    <2>5. ~EmitsChange /\ ~ChanChanges =>
              /\ \A d \in Dispatchers :
                    dispatch[d].to # {} /\ dispatch[d].event.changed =>
                        Agrees(dispatch[d].event.info.status = "living")
              /\ \A g \in watchers : adding[g] = "no" /\ ~Told(g) => Agrees(told[g] = "on")
      BY <2>1 DEF LastWord
    <2>6. (\A d \in Dispatchers :
                    dispatch[d].to # {} /\ dispatch[d].event.changed =>
                        Agrees(dispatch[d].event.info.status = "living"))
          => (\A d \in Dispatchers :
                    dispatch[d].to # {} /\ dispatch[d].event.changed =>
                        Agrees(dispatch[d].event.info.status = "living"))'
      BY <2>1 DEF Agrees
    <2>7. (\A g \in watchers : adding[g] = "no" /\ ~Told(g) => Agrees(told[g] = "on"))
          => (\A g \in watchers : adding[g] = "no" /\ ~Told(g) => Agrees(told[g] = "on"))'
      BY <2>1 DEF Agrees, Told
    <2>8. \A i \in 1..Len(eventChan)' :
              eventChan'[i].changed /\ (\A j \in (i + 1)..Len(eventChan)' : ~eventChan'[j].changed) =>
                  Agrees(eventChan[i].info.status = "living")'
      BY <2>1, <2>3 DEF Agrees
    <2> QED
      BY <2>2, <2>4, <2>5, <2>6, <2>7, <2>8 DEF LastWord
  <1>5. CASE Expires
    BY <1>5, ExpireFrame DEF LastWord
  <1>6. CASE Restarts
    <2> SUFFICES ASSUME watchers' # {}, ~missed' PROVE LastWord'
      BY DEF LastWord
    <2>1. /\ phase' = "idle" /\ 1..Len(eventChan)' = {} /\ ~ChanChanges'
          /\ \A d \in Dispatchers : dispatch'[d].to = {}
          /\ ~missed /\ phase # "emit" /\ Delivered /\ NoAdd
          /\ UNCHANGED <<stored, watchers, told>>
      BY <1>6, RestartFrame
    <2>2. ~ChanChanges /\ \A d \in Dispatchers : dispatch[d].to = {}
      BY <2>1, NothingOnItsWay
    <2>3. ~EmitsChange
      BY <2>1 DEF EmitsChange
    <2>4. \A g \in watchers : Agrees(told[g] = "on")
      <3>1. \A g \in watchers : adding[g] = "no" /\ ~Told(g)
        <4>1. watchers \subseteq Groups
          BY RoundTypes
        <4> QED
          BY <2>1, <2>2, <4>1 DEF NoAdd, Told
      <3> QED
        BY <2>1, <2>2, <2>3, <3>1 DEF LastWord
    <2>5. \A g \in watchers' : Agrees(told[g] = "on")'
      BY <2>1, <2>4 DEF Agrees
    <2>6. ~EmitsChange'
      BY <2>1 DEF EmitsChange
    <2> QED
      BY <2>1, <2>5, <2>6 DEF LastWord
  <1>7. ASSUME NEW d \in Dispatchers, Takes(d) PROVE LastWord'
    <2> SUFFICES ASSUME watchers' # {}, ~missed' PROVE LastWord'
      BY DEF LastWord
    <2>1. /\ Len(eventChan) \in Nat /\ Len(eventChan)' = Len(eventChan) - 1 /\ 1 \in 1..Len(eventChan)
          /\ \A i \in 1..Len(eventChan)' : i + 1 \in 1..Len(eventChan) /\ eventChan'[i] = eventChan[i + 1]
          /\ \A i \in 1..Len(eventChan) :
                i = 1 \/ (i - 1 \in 1..Len(eventChan)' /\ eventChan'[i - 1] = eventChan[i])
          /\ dispatch[d].to = {} /\ dispatch'[d].event = eventChan[1] /\ dispatch'[d].to = watchers
          /\ UNCHANGED <<stored, watchers, phase, new, told, missed, adding>>
      BY <1>7, TakeStep
    <2>2. EmitsChange' <=> EmitsChange
      BY <2>1 DEF EmitsChange
    <2>3. EmitsChange => Agrees(new.info.status = "living")
      BY <2>1 DEF LastWord
    <2>4. ASSUME ~EmitsChange, NEW i \in 1..Len(eventChan)', eventChan'[i].changed,
                 \A j \in (i + 1)..Len(eventChan)' : ~eventChan'[j].changed
          PROVE  Agrees(eventChan'[i].info.status = "living")
      <3>1. i + 1 \in 1..Len(eventChan) /\ eventChan'[i] = eventChan[i + 1]
        BY <2>1
      <3>2. \A j \in ((i + 1) + 1)..Len(eventChan) : ~eventChan[j].changed
        <4>1. \A j \in ((i + 1) + 1)..Len(eventChan) :
                 j \in 1..Len(eventChan) /\ j # 1 /\ j - 1 \in (i + 1)..Len(eventChan)'
          BY <2>1
        <4> QED
          BY <2>1, <2>4, <4>1
      <3> QED
        BY <2>1, <2>4, <3>1, <3>2 DEF LastWord
    <2>5. ASSUME ~EmitsChange, ~ChanChanges'
          PROVE  /\ dispatch'[d].event.changed => Agrees(dispatch'[d].event.info.status = "living")
                 /\ ~dispatch'[d].event.changed => \A g \in watchers : adding[g] = "no" => Agrees(told[g] = "on")
      <3>1. \A j \in (1 + 1)..Len(eventChan) : ~eventChan[j].changed
        <4>1. \A j \in (1 + 1)..Len(eventChan) : j \in 1..Len(eventChan) /\ j # 1
          BY <2>1
        <4>2. \A i \in 1..Len(eventChan)' : ~eventChan'[i].changed
          BY <2>5 DEF ChanChanges
        <4> QED
          BY <2>1, <4>1, <4>2
      <3>2. CASE eventChan[1].changed
        <4>1. Agrees(eventChan[1].info.status = "living")
          BY <2>1, <2>5, <3>1, <3>2 DEF LastWord
        <4> QED
          BY <2>1, <3>2, <4>1
      <3>3. CASE ~eventChan[1].changed
        <4>1. ~ChanChanges
          <5>1. \A i \in 1..Len(eventChan) : i = 1 \/ i \in (1 + 1)..Len(eventChan)
            BY <2>1
          <5> QED
            BY <3>1, <3>3, <5>1 DEF ChanChanges
        <4>2. \A g : ~Told(g)
          BY <2>1 DEF Told, OneDispatcher
        <4> QED
          BY <2>1, <2>5, <3>3, <4>1, <4>2 DEF LastWord
      <3> QED
        BY <3>2, <3>3
    <2>6. EmitsChange' => Agrees(new.info.status = "living")'
      BY <2>1, <2>2, <2>3 DEF Agrees
    <2>7. ~EmitsChange' => \A i \in 1..Len(eventChan)' :
              eventChan'[i].changed /\ (\A j \in (i + 1)..Len(eventChan)' : ~eventChan'[j].changed) =>
                  Agrees(eventChan[i].info.status = "living")'
      BY <2>1, <2>2, <2>4 DEF Agrees
    <2>8. ~EmitsChange' /\ ~ChanChanges' =>
              \A e \in Dispatchers :
                  dispatch'[e].to # {} /\ dispatch'[e].event.changed =>
                      Agrees(dispatch[e].event.info.status = "living")'
      BY <2>1, <2>2, <2>5 DEF Agrees, OneDispatcher
    <2>9. ~EmitsChange' /\ ~ChanChanges' =>
              \A g \in watchers' : adding'[g] = "no" /\ ~Told(g)' => Agrees(told[g] = "on")'
      BY <2>1, <2>2, <2>5 DEF Agrees, Told
    <2> QED
      BY <2>6, <2>7, <2>8, <2>9 DEF LastWord
  <1>8. ASSUME NEW d \in Dispatchers, Delivers(d) PROVE LastWord'
    <2> SUFFICES ASSUME watchers' # {}, ~missed' PROVE LastWord'
      BY DEF LastWord
    <2>1. PICK g \in dispatch[d].to :
             g \in Groups /\ Tell(g, dispatch[d].event) /\ dispatch'[d].to = dispatch[d].to \ {g}
      BY <1>8, DeliverStep
    <2>2. /\ dispatch'[d].event = dispatch[d].event
          /\ \A e \in Dispatchers : e # d => dispatch'[e] = dispatch[e]
          /\ UNCHANGED <<stored, watchers, phase, new, eventChan, missed, adding>>
      BY <1>8, DeliverStep
    <2>3. dispatch[d].event \in EventsToSend /\ dispatch[d].event.info.status \in {"living", "over"}
      <3>1. dispatch[d].event \in EventsToSend /\ dispatch[d].event.info \in Infos
        BY CallTypes
      <3>2. dispatch[d].event.info.status # "none"
        BY <2>1 DEF Spoken
      <3> QED
        BY <3>1, <3>2, InfoTypes
    <2>4. /\ \A h \in Groups : h # g => told'[h] = told[h]
          /\ ~dispatch[d].event.changed => told'[g] = told[g]
          /\ dispatch[d].event.changed => (told'[g] = "on") = (dispatch[d].event.info.status = "living")
      BY <2>1, <2>3, Tells
    <2>5. /\ EmitsChange' <=> EmitsChange
          /\ ChanChanges' <=> ChanChanges
      BY <2>2 DEF EmitsChange, ChanChanges
    <2>6. /\ EmitsChange' => Agrees(new.info.status = "living")'
          /\ ~EmitsChange' => \A i \in 1..Len(eventChan)' :
              eventChan'[i].changed /\ (\A j \in (i + 1)..Len(eventChan)' : ~eventChan'[j].changed) =>
                  Agrees(eventChan[i].info.status = "living")'
      BY <2>2, <2>5 DEF Agrees, LastWord
    <2>7. ASSUME ~EmitsChange, ~ChanChanges
          PROVE  /\ \A e \in Dispatchers :
                        dispatch[e].to # {} /\ dispatch[e].event.changed =>
                            Agrees(dispatch[e].event.info.status = "living")
                 /\ \A h \in watchers : adding[h] = "no" /\ ~Told(h) => Agrees(told[h] = "on")
      BY <2>2, <2>7 DEF LastWord
    <2>8. \A e \in Dispatchers : dispatch'[e].event = dispatch[e].event /\ dispatch'[e].to \subseteq dispatch[e].to
      BY <2>1, <2>2
    <2>9. ~EmitsChange' /\ ~ChanChanges' =>
              \A e \in Dispatchers :
                  dispatch'[e].to # {} /\ dispatch'[e].event.changed =>
                      Agrees(dispatch[e].event.info.status = "living")'
      BY <2>2, <2>5, <2>7, <2>8 DEF Agrees
    <2>10. ASSUME ~EmitsChange, ~ChanChanges, NEW h \in watchers, adding[h] = "no", ~Told(h)'
           PROVE  Agrees(told'[h] = "on")
      <3>0. watchers \subseteq Groups
        BY RoundTypes
      <3>1. CASE h # g
        <4>1. ~Told(h)
          BY <2>1, <2>2, <2>8, <2>10, <3>1 DEF Told
        <4> QED
          BY <2>4, <2>7, <2>10, <3>0, <3>1, <4>1
      <3>2. CASE h = g /\ dispatch[d].event.changed
        <4>1. Agrees(dispatch[d].event.info.status = "living")
          BY <2>1, <2>7, <2>10, <3>2
        <4>2. (told'[h] = "on") = (dispatch[d].event.info.status = "living")
          BY <2>4, <3>2
        <4> QED
          BY <4>1, <4>2 DEF Agrees
      <3>3. CASE h = g /\ ~dispatch[d].event.changed
        <4>1. ~Told(h)
          BY <3>3 DEF Told, OneDispatcher
        <4> QED
          BY <2>4, <2>7, <2>10, <3>3, <4>1
      <3> QED
        BY <3>1, <3>2, <3>3
    <2>11. ~EmitsChange' /\ ~ChanChanges' =>
              \A h \in watchers' : adding'[h] = "no" /\ ~Told(h)' => Agrees(told[h] = "on")'
      BY <2>2, <2>5, <2>10 DEF Agrees
    <2> QED
      BY <2>6, <2>9, <2>11 DEF LastWord
  <1>9. ASSUME NEW d \in Dispatchers, EventDone(d) PROVE LastWord'
    <2>1. /\ dispatch[d].to = {} /\ dispatch'[d].to = {}
          /\ \A e \in Dispatchers : e # d => dispatch'[e] = dispatch[e]
          /\ UNCHANGED <<stored, watchers, phase, new, eventChan, missed, adding, told>>
      BY <1>9, DoneStep
    <2>2. \A h : Told(h)' <=> Told(h)
      BY <2>1 DEF Told
    <2>3. /\ EmitsChange' <=> EmitsChange
          /\ ChanChanges' <=> ChanChanges
      BY <2>1 DEF EmitsChange, ChanChanges
    <2>4. \A e \in Dispatchers : dispatch'[e].to # {} => dispatch'[e] = dispatch[e]
      BY <2>1
    <2> QED
      BY <2>1, <2>2, <2>3, <2>4 DEF Agrees, LastWord
  <1>10. ASSUME NEW g \in Groups, AddReads(g) \/ AddFails(g) \/ AddWork(g) PROVE LastWord'
    <2> SUFFICES ASSUME watchers' # {}, ~missed' PROVE LastWord'
      BY DEF LastWord
    <2>1. phase = "idle" /\ Delivered /\ UNCHANGED <<stored, phase, new, eventChan, dispatch, missed>>
      BY <1>10, AddFrame
    <2>2. /\ 1..Len(eventChan) = {} /\ ~ChanChanges /\ ~EmitsChange
          /\ \A d \in Dispatchers : dispatch[d].to = {}
      BY <2>1, NothingOnItsWay DEF EmitsChange
    <2>3. /\ 1..Len(eventChan)' = {} /\ ~EmitsChange'
          /\ \A d \in Dispatchers : dispatch'[d].to = {}
      BY <2>1, <2>2 DEF EmitsChange
    <2>4. watchers \subseteq Groups /\ \A h : ~Told(h)
      BY <2>2, RoundTypes DEF Told
    <2>5. \A h \in watchers : adding[h] = "no" => Agrees(told[h] = "on")
      BY <2>1, <2>2, <2>4 DEF LastWord
    <2>6. ASSUME NEW h \in watchers', adding'[h] = "no" PROVE Agrees(told'[h] = "on")
      <3>1. CASE AddReads(g) \/ AddFails(g)
        <4>1. /\ UNCHANGED <<watchers, told>> /\ g \notin watchers
              /\ \E a : adding' = [adding EXCEPT ![g] = a]
          BY <3>1 DEF AddReads, AddFails, dispVars, Calm
        <4>2. \A k \in Groups : k # g => adding'[k] = adding[k]
          BY <4>1, CallTypes
        <4> QED
          BY <2>4, <2>5, <2>6, <4>1, <4>2
      <3>2. CASE AddInserts(g)
        <4>1. CASE h = g
          <5>1. stored.status # "living" /\ told'[h] = "none"
            BY <2>6, <3>2, <4>1, InsertStep DEF Calm
          <5> QED
            BY <5>1 DEF Agrees
        <4>2. CASE h # g
          <5>1. h \in watchers /\ adding[h] = "no" /\ told'[h] = told[h]
            BY <2>4, <2>6, <3>2, <4>2, InsertStep
          <5> QED
            BY <2>5, <5>1
        <4> QED
          BY <4>1, <4>2
      <3>3. CASE GroupWatchNotify(g)
        <4>1. CASE h = g
          <5>1. IF stored.status = "living" THEN told'[h] = "on" ELSE told'[h] = "none"
            BY <3>3, <4>1, WatchStep DEF Calm
          <5> QED
            BY <5>1 DEF Agrees
        <4>2. CASE h # g
          <5>1. h \in watchers /\ adding[h] = "no" /\ told'[h] = told[h]
            BY <2>4, <2>6, <3>3, <4>2, WatchStep
          <5> QED
            BY <2>5, <5>1
        <4> QED
          BY <4>1, <4>2
      <3> QED
        BY <1>10, <3>1, <3>2, <3>3 DEF AddWork
    <2>7. \A h \in watchers' : adding'[h] = "no" => Agrees(told[h] = "on")'
      BY <2>1, <2>6 DEF Agrees
    <2> QED
      BY <2>3, <2>7 DEF LastWord
  <1>11. CASE RemoveAllById \/ \E g \in Groups : RemoveLive(g) \/ RemoveAllByGroupCode(g) \/ DeletesLiveInfo(g)
    <2> SUFFICES ASSUME watchers' # {}, ~missed' PROVE LastWord'
      BY DEF LastWord
    <2>1. /\ watchers' \subseteq watchers /\ stored' = stored /\ watchers # {}
          /\ UNCHANGED <<phase, new, eventChan, dispatch, told, adding, missed>>
      BY <1>11, Removes DEF roundVars, dispVars
    <2> QED
      BY <2>1 DEF LastWord, Agrees, EmitsChange, ChanChanges, Told
  <1> QED
    BY <1>1, <1>2, <1>3, <1>4, <1>5, <1>6, <1>7, <1>8, <1>9, <1>10, <1>11 DEF Next, World, Round, Dispatch

\* The invariant of LiveStatus holds in every behaviour.
LEMMA LiveInductive == Spec => []LiveIInv
  <1>1. LiveIInv /\ [Next]_vars => LiveIInv'
    <2> SUFFICES ASSUME LiveIInv, [Next]_vars PROVE LiveIInv'
      OBVIOUS
    <2>1. TypeOK' /\ Truthful'
      BY LiveNextTypes, TruthKept DEF LiveIInv
    <2>2. Spoken'
      BY SpokenKept DEF LiveIInv
    <2>3. ASSUME AddOverlaps = FALSE PROVE Calm' /\ OnceEach' /\ OneEvent'
      BY <2>1, <2>3, CalmKept, OnceEachKept, OneEventKept DEF LiveIInv
    <2>4. ASSUME AddOverlaps = FALSE, OneDispatcher PROVE LastWord'
      BY <2>4, LastWordKept DEF LiveIInv
    <2> QED
      BY <2>1, <2>2, <2>3, <2>4 DEF LiveIInv, OneDispatcher
  <1> QED
    BY <1>1, LiveInitIInv, PTL DEF Spec

\* Every variable of LiveStatus stays in its range.
THEOREM LiveTypeCorrect == Spec => []TypeOK
  <1>1. LiveIInv => TypeOK
    BY DEF LiveIInv
  <1> QED
    BY <1>1, LiveInductive, PTL

\* A broadcast missing in the list is not over: its end is stored, and so told, only once it
\* has ended, whatever requests fail, when the process restarts and however commands overlap.
THEOREM EndsAreTrue == Spec => []NoFalseEnd
  <1>1. LiveIInv => NoFalseEnd
    BY DEF LiveIInv, Truthful, NoFalseEnd
  <1> QED
    BY <1>1, LiveInductive, PTL

\* No group is told twice that one broadcast has begun, whatever the number of dispatchers,
\* as long as no Add runs while a round or a dispatch does (with one that does, it can be).
THEOREM BroadcastsAreToldOnce ==
  ASSUME AddOverlaps = FALSE PROVE Spec => []ToldOnce
  <1>1. LiveIInv => ToldOnce
    BY DEF LiveIInv, OnceEach, ToldOnce
  <1> QED
    BY <1>1, LiveInductive, PTL

\* Moreover, where one dispatcher keeps the events in order, the groups know what the
\* database says as soon as nothing is on its way.
THEOREM BroadcastsAreAsStored ==
  ASSUME AddOverlaps = FALSE, OneDispatcher PROVE Spec => []BroadcastsAsStored
  <1>1. LiveIInv => InStep
    <2> SUFFICES ASSUME LiveIInv, phase # "emit", Delivered, NoAdd, ~missed, NEW g \in watchers
                 PROVE  /\ stored.status = "living" => told[g] = "on"
                        /\ stored.status = "over" => told[g] # "on"
      BY DEF InStep
    <2>1. TypeOK /\ LastWord
      BY DEF LiveIInv
    <2>2. ~EmitsChange /\ ~ChanChanges /\ ~Told(g) /\ adding[g] = "no"
      BY <2>1, NothingOnItsWay, RoundTypes DEF EmitsChange, Told, NoAdd
    <2>3. Agrees(told[g] = "on")
      BY <2>1, <2>2 DEF LastWord
    <2> QED
      BY <2>3 DEF Agrees
  <1>2. LiveIInv => BroadcastsAsStored
    BY <1>1 DEF LiveIInv, OnceEach, ToldOnce, Truthful, NoFalseEnd, BroadcastsAsStored
  <1> QED
    BY <1>2, LiveInductive, PTL
=============================================================================
