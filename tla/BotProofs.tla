------------------------------- MODULE BotProofs -------------------------------
(***************************************************************************)
(* Proofs about Invitations, for requests that come in at different        *)
(* milliseconds: then the rows of a kind are found under the numbers of the *)
(* requests they hold, and deleting one never deletes another.              *)
(*                                                                         *)
(* Proofs about WeiboNews.  A post is in one place: not yet marked, among   *)
(* the cards of the round, on its way, or told; and neither LatestNewsTs    *)
(* nor what a round has found comes before the second in which the first    *)
(* group came to watch.                                                     *)
(*                                                                         *)
(* Proofs about ListLoading: up to the second lifecycle event one goroutine *)
(* loads at a time, and what it has loaded follows from the step it is at.  *)
(* And about WeiboLogin, of which the types say who holds refreshMu.        *)
(***************************************************************************)
EXTENDS ListLoading, Invitations, WeiboNews, WeiboLogin, FiniteSetTheorems,
        WellFoundedInduction, TLAPS

-----------------------------------------------------------------------------
(* Invitations *)

\* The rows of the requests in D, each under its own number.
Row(D) == [i \in D |-> i]
Rows   == {Row(D) : D \in SUBSET Requests}

Asked == {Friend(u, r) : u \in Users, r \in Requests}
         \cup {Invitation(u, g, r) : u \in Users, g \in Invited, r \in Requests}

Places == {"none", "block", "list", "decide", "done"}

Typed ==
    /\ request \in [Requests -> {NoRequest} \cup Asked]
    /\ \A r \in Requests : request[r] # NoRequest => request[r].id = r
    /\ handler \in [Requests -> Places]
    /\ pending \in [Kinds -> Rows]
    /\ command \in [Commands -> [todo : SUBSET Requests, verdict : {"none", "accept", "reject"}]]
    /\ \A c \in Commands : command[c].todo # {} => command[c].verdict # "none"
    /\ answers \in [Requests -> SUBSET {"accept", "reject"}]
    /\ kept \subseteq Requests /\ dealt \subseteq kept /\ overtaken \subseteq kept

\* What is kept has been decided on, and only what is kept has a row or is in the
\* hands of a command.
KeptOnly ==
    /\ \A r \in Requests : (request[r] = NoRequest) <=> (handler[r] = "none")
    /\ \A r \in kept : handler[r] = "done"
    /\ \A k \in Kinds : \A r \in Kept(k) : r \in kept /\ request[r].kind = k
    /\ \A c \in Commands : command[c].todo \subseteq kept

\* One answer at most: none before the handler is done, and none while a request is
\* kept or in the hands of a command.
Answered ==
    /\ \A r \in Requests : answers[r] = {} \/ \E v \in {"accept", "reject"} : answers[r] = {v}
    /\ \A r \in Requests : handler[r] # "done" => answers[r] = {}
    /\ \A r \in kept : answers[r] # {} => /\ \A k \in Kinds : r \notin Kept(k)
                                          /\ \A c \in Commands : r \notin command[c].todo

\* No two commands are at work at once.
OneCommand == \A c, d \in Commands : c = d

\* The inductive invariant.
InviteIInv ==
    /\ Typed /\ KeptOnly /\ StaysListed
    /\ OneCommand => Answered

-----------------------------------------------------------------------------
(* Rows *)

LEMMA RowOf ==
    ASSUME NEW D \in SUBSET Requests
    PROVE  /\ Row(D) \in Rows /\ DOMAIN Row(D) = D /\ Range(Row(D)) = D
           /\ \A i \in D : Row(D)[i] = i
           /\ \A E \in SUBSET D : Restrict(Row(D), E) = Row(E)
  BY DEF Row, Rows, Range, Restrict

\* The rows of a kind are those of the requests kept of it.
LEMMA KeptRow ==
    ASSUME Typed, NEW k \in Kinds
    PROVE  Kept(k) \in SUBSET Requests /\ pending[k] = Row(Kept(k)) /\ DOMAIN pending[k] = Kept(k)
  <1>1. PICK D \in SUBSET Requests : pending[k] = Row(D)
    BY DEF Typed, Rows
  <1> QED
    BY <1>1, RowOf DEF Kept

\* The rows of one kind become those of D.
LEMMA RowsBecome ==
    ASSUME Typed, NEW k \in Kinds, NEW D \in SUBSET Requests, pending' = [pending EXCEPT ![k] = Row(D)]
    PROVE  /\ pending' \in [Kinds -> Rows] /\ Kept(k)' = D
           /\ \A j \in Kinds \ {k} : Kept(j)' = Kept(j)
  <1>1. Row(D) \in Rows /\ Range(Row(D)) = D
    BY RowOf
  <1>2. pending \in [Kinds -> Rows]
    BY DEF Typed
  <1>3. pending' \in [Kinds -> Rows] /\ pending'[k] = Row(D) /\ \A j \in Kinds \ {k} : pending'[j] = pending[j]
    BY <1>1, <1>2
  <1> QED
    BY <1>1, <1>3 DEF Kept

LEMMA RowDeleted ==
    ASSUME Typed, NEW k \in Kinds, NEW r \in Requests
    PROVE  Without(k, r) = [pending EXCEPT ![k] = Row(Kept(k) \ {r})]
  <1>1. /\ pending[k] = Row(Kept(k)) /\ DOMAIN pending[k] = Kept(k)
        /\ Kept(k) \in SUBSET Requests
    BY KeptRow
  <1>2. Restrict(pending[k], DOMAIN pending[k] \ {r}) = Row(Kept(k) \ {r})
    BY <1>1, RowOf
  <1> QED
    BY <1>2 DEF Without

LEMMA RowSaved ==
    ASSUME Typed, NEW r \in Requests, request[r].kind \in Kinds, request[r].id = r, Save(r)
    PROVE  pending' = [pending EXCEPT ![request[r].kind] = Row(Kept(request[r].kind) \cup {r})]
  <1> DEFINE k == request[r].kind
  <1>1. /\ pending[k] = Row(Kept(k)) /\ DOMAIN pending[k] = Kept(k)
        /\ Kept(k) \in SUBSET Requests
    BY KeptRow
  <1>2. [i \in DOMAIN pending[k] \cup {r} |-> IF i = r THEN r ELSE pending[k][i]] = Row(Kept(k) \cup {r})
    BY <1>1, RowOf DEF Row
  <1> QED
    BY <1>2 DEF Save

\* Of the rows those that fulfil a condition stay.
LEMMA RowsRestricted ==
    ASSUME Typed, NEW k \in Kinds, NEW E \in SUBSET Kept(k)
    PROVE  Restrict(pending[k], E) = Row(E)
  BY KeptRow, RowOf

LEMMA SingleAnswers == Answered => OneAnswer
  <1> SUFFICES ASSUME Answered, NEW r \in Requests PROVE Cardinality(answers[r]) <= 1
    BY DEF OneAnswer
  <1>1. CASE answers[r] = {}
    BY <1>1, FS_EmptySet
  <1>2. ASSUME NEW v \in {"accept", "reject"}, answers[r] = {v} PROVE Cardinality(answers[r]) <= 1
    <2>1. Cardinality({v}) = 1
      BY FS_Singleton
    <2> QED
      BY <1>2, <2>1
  <1> QED
    BY <1>1, <1>2 DEF Answered

LEMMA InviteInitIInv == InviteInit => InviteIInv
  <1> SUFFICES ASSUME InviteInit PROVE InviteIInv
    OBVIOUS
  <1>1. <<>> \in Rows /\ Range(<<>>) = {}
    <2>1. Row({}) = <<>>
      BY DEF Row
    <2> QED
      BY <2>1, RowOf, {} \in SUBSET Requests
  <1>2. \A k \in Kinds : Kept(k) = {}
    BY <1>1 DEF InviteInit, Kept
  <1>3. Typed
    BY <1>1 DEF InviteInit, Typed, NoCommand, Places
  <1>4. KeptOnly /\ StaysListed
    BY <1>2 DEF InviteInit, KeptOnly, StaysListed, NoCommand
  <1>5. Answered
    BY DEF InviteInit, Answered
  <1> QED
    BY <1>3, <1>4, <1>5 DEF InviteIInv
-----------------------------------------------------------------------------
(* Requests *)

\* What a request that has come in says.
LEMMA AskedIs ==
    ASSUME Typed, NEW r \in Requests, request[r] # NoRequest
    PROVE  /\ request[r].id = r /\ request[r].kind \in Kinds /\ request[r].user \in Users
           /\ request[r].kind = "group" => request[r].group \in Invited
  <1>1. request[r] \in Asked /\ request[r].id = r
    BY DEF Typed
  <1> QED
    BY <1>1 DEF Asked, Friend, Invitation, Kinds

\* Before its handler is done a request is not kept, has no row and no command.
LEMMA NotKeptYet ==
    ASSUME InviteIInv, NEW r \in Requests, handler[r] # "done"
    PROVE  /\ r \notin kept /\ \A k \in Kinds : r \notin Kept(k)
           /\ \A c \in Commands : r \notin command[c].todo
  BY DEF InviteIInv, KeptOnly

LEMMA ArrivesStep ==
    ASSUME InviteIInv, SameMillisecond = FALSE, NEW r \in Requests, Arrives(r)
    PROVE  InviteIInv'
  <1>1. Typed /\ KeptOnly /\ StaysListed
    BY DEF InviteIInv
  <1>2. /\ request[r] = NoRequest
        /\ UNCHANGED <<pending, command, answers, kept, dealt, overtaken>>
        /\ handler' = [handler EXCEPT ![r] = "block"]
    BY DEF Arrives
  <1>3. PICK q \in Asked : q.id = r /\ request' = [request EXCEPT ![r] = q]
    <2>1. PICK u \in Users, id \in {r} :
             request' \in {[request EXCEPT ![r] = q] :
                             q \in {Friend(u, id)} \cup {Invitation(u, g, id) : g \in Invited \ joined}}
      BY DEF Arrives
    <2>2. CASE request' = [request EXCEPT ![r] = Friend(u, r)]
      <3>1. Friend(u, r) \in Asked
        BY DEF Asked
      <3>2. Friend(u, r).id = r
        BY DEF Friend
      <3> QED
        BY <2>2, <3>1, <3>2
    <2>3. ASSUME NEW g \in Invited, request' = [request EXCEPT ![r] = Invitation(u, g, r)]
          PROVE  \E q \in Asked : q.id = r /\ request' = [request EXCEPT ![r] = q]
      <3>1. Invitation(u, g, r) \in Asked
        BY DEF Asked
      <3>2. Invitation(u, g, r).id = r
        BY DEF Invitation
      <3> QED
        BY <2>3, <3>1, <3>2
    <2> QED
      BY <2>1, <2>2, <2>3
  <1>4. q # NoRequest
    BY DEF Asked, Friend, Invitation, NoRequest
  <1>5. handler[r] = "none" /\ r \notin kept /\ \A k \in Kinds : r \notin Kept(k)
    BY <1>1, <1>2, NotKeptYet DEF KeptOnly
  <1>6. /\ request'[r] = q /\ \A p \in Requests \ {r} : request'[p] = request[p]
        /\ handler'[r] = "block" /\ \A p \in Requests \ {r} : handler'[p] = handler[p]
    BY <1>1, <1>2, <1>3 DEF Typed
  <1>7. \A k \in Kinds : Kept(k)' = Kept(k)
    BY <1>2 DEF Kept
  <1>8. Typed'
    <2>1. request' \in [Requests -> {NoRequest} \cup Asked] /\ handler' \in [Requests -> Places]
      BY <1>1, <1>2, <1>3 DEF Typed, Places
    <2>2. \A p \in Requests : request'[p] # NoRequest => request'[p].id = p
      BY <1>1, <1>3, <1>6 DEF Typed
    <2> QED
      BY <1>1, <1>2, <2>1, <2>2 DEF Typed
  <1>9. KeptOnly'
    BY <1>1, <1>2, <1>4, <1>5, <1>6, <1>7 DEF KeptOnly, Typed
  <1>10. StaysListed'
    <2>1. ASSUME NEW p \in kept \ (dealt \cup overtaken), NEW j, j = request'[p].kind
          PROVE  p \in Kept(j)'
      <3>1. p \in Requests \ {r} /\ handler[p] = "done"
        BY <1>1, <1>5 DEF Typed, KeptOnly
      <3>2. j \in Kinds /\ j = request[p].kind
        BY <1>1, <1>6, <2>1, <3>1, AskedIs DEF KeptOnly
      <3> QED
        BY <1>1, <1>7, <2>1, <3>2 DEF StaysListed
    <2> QED
      BY <1>2, <2>1 DEF StaysListed
  <1>11. OneCommand => Answered'
    BY <1>1, <1>2, <1>5, <1>6, <1>7 DEF InviteIInv, Answered
  <1> QED
    BY <1>8, <1>9, <1>10, <1>11 DEF InviteIInv

-----------------------------------------------------------------------------
(* Events that make requests obsolete *)

\* Rows of a kind go, but only of requests that are overtaken now.
LEMMA Overtakes ==
    ASSUME InviteIInv, NEW k \in Kinds, NEW E \in SUBSET Kept(k), NEW O \in SUBSET kept,
           pending' = [pending EXCEPT ![k] = Row(E)], Kept(k) \ E \subseteq O,
           overtaken' = overtaken \cup O,
           UNCHANGED <<request, handler, command, answers, kept, dealt>>
    PROVE  InviteIInv'
  <1>1. Typed /\ KeptOnly /\ StaysListed
    BY DEF InviteIInv
  <1>2. E \in SUBSET Requests
    BY <1>1, KeptRow
  <1>3. /\ pending' \in [Kinds -> Rows] /\ Kept(k)' = E
        /\ \A j \in Kinds \ {k} : Kept(j)' = Kept(j)
    BY <1>1, <1>2, RowsBecome
  <1>4. Typed'
    BY <1>1, <1>3 DEF Typed
  <1>5. \A j \in Kinds : Kept(j)' \subseteq Kept(j)
    BY <1>3
  <1>6. KeptOnly'
    BY <1>1, <1>5 DEF KeptOnly
  <1>7. StaysListed'
    <2>1. ASSUME NEW p \in kept \ (dealt \cup overtaken'), NEW j, j = request[p].kind
          PROVE  p \in Kept(j)'
      <3>1. p \in Kept(j) /\ p \in Requests
        BY <1>1, <2>1 DEF StaysListed, Typed
      <3>2. j \in Kinds
        BY <1>1, <2>1, <3>1, AskedIs DEF KeptOnly
      <3> QED
        BY <1>3, <2>1, <3>1, <3>2
    <2> QED
      BY <2>1 DEF StaysListed
  <1>8. OneCommand => Answered'
    BY <1>5 DEF InviteIInv, Answered
  <1> QED
    BY <1>4, <1>6, <1>7, <1>8 DEF InviteIInv

LEMMA ObsoleteSteps ==
    ASSUME InviteIInv, (\E u \in Users : NewFriend(u)) \/ (\E g \in Invited : GroupJoin(g))
    PROVE  InviteIInv'
  <1>1. Typed /\ KeptOnly
    BY DEF InviteIInv
  <1>2. ASSUME NEW u \in Users, NewFriend(u) PROVE InviteIInv'
    <2> DEFINE E == {i \in Kept("friend") : request[i].user # u}
               O == {r \in kept : request[r].kind = "friend" /\ request[r].user = u}
    <2>1. "friend" \in Kinds /\ pending["friend"] = Row(Kept("friend"))
          /\ DOMAIN pending["friend"] = Kept("friend") /\ Kept("friend") \in SUBSET Requests
      BY <1>1, KeptRow DEF Kinds
    <2>2. {i \in DOMAIN pending["friend"] : request[pending["friend"][i]].user # u} = E
      BY <2>1, RowOf
    <2>3. pending' = [pending EXCEPT !["friend"] = Row(E)]
      BY <1>1, <1>2, <2>1, <2>2, RowsRestricted DEF NewFriend
    <2>4. Kept("friend") \ E \subseteq O
      BY <1>1, <2>1 DEF KeptOnly
    <2>5. overtaken' = overtaken \cup O /\ UNCHANGED <<request, handler, command, answers, kept, dealt>>
      BY <1>2 DEF NewFriend, requestVars
    <2>6. E \in SUBSET Kept("friend") /\ O \in SUBSET kept
      OBVIOUS
    <2> HIDE DEF E, O
    <2> QED
      BY <2>1, <2>3, <2>4, <2>5, <2>6, Overtakes
  <1>3. ASSUME NEW g \in Invited, GroupJoin(g) PROVE InviteIInv'
    <2> DEFINE mine == {r \in Kept("group") : request[r].group = g}
               E == Kept("group") \ mine
               O == {r \in kept : request[r].kind = "group" /\ request[r].group = g}
    <2>1. "group" \in Kinds /\ pending["group"] = Row(Kept("group"))
          /\ DOMAIN pending["group"] = Kept("group") /\ Kept("group") \in SUBSET Requests
      BY <1>1, KeptRow DEF Kinds
    <2>2. {i \in DOMAIN pending["group"] : pending["group"][i] \notin mine} = E
      BY <2>1, RowOf
    <2>3. pending' = [pending EXCEPT !["group"] = Row(E)]
      BY <1>1, <1>3, <2>1, <2>2, RowsRestricted DEF GroupJoin
    <2>4. Kept("group") \ E \subseteq O
      BY <1>1, <2>1 DEF KeptOnly
    <2>5. overtaken' = overtaken \cup O /\ UNCHANGED <<request, handler, command, answers, kept, dealt>>
      BY <1>3 DEF GroupJoin, requestVars
    <2>6. E \in SUBSET Kept("group") /\ O \in SUBSET kept
      OBVIOUS
    <2> HIDE DEF E, O
    <2> QED
      BY <2>1, <2>3, <2>4, <2>5, <2>6, Overtakes
  <1> QED
    BY <1>2, <1>3
-----------------------------------------------------------------------------
(* The handlers *)

\* A handler goes on, or answers and is done.
LEMMA HandlerGoesOn ==
    ASSUME InviteIInv, NEW r \in Requests, NEW l \in {"list", "decide", "done"}, NEW v \in {"accept", "reject"},
           handler[r] \in {"block", "list", "decide"}, handler' = [handler EXCEPT ![r] = l],
           pending' \in [Kinds -> Rows], \A k \in Kinds : Kept(k)' = Kept(k),
           UNCHANGED <<request, command, kept, dealt, overtaken>>,
           answers' = answers \/ (l = "done" /\ Answer(r, v))
    PROVE  InviteIInv'
  <1>1. Typed /\ KeptOnly /\ StaysListed
    BY DEF InviteIInv
  <1>2. /\ handler' \in [Requests -> Places] /\ handler'[r] = l
        /\ \A p \in Requests \ {r} : handler'[p] = handler[p]
    BY <1>1 DEF Typed, Places
  <1>3. /\ answers' \in [Requests -> SUBSET {"accept", "reject"}]
        /\ \A p \in Requests \ {r} : answers'[p] = answers[p]
        /\ answers'[r] = answers[r] \/ (l = "done" /\ answers'[r] = answers[r] \cup {v})
    BY <1>1 DEF Typed, Answer
  <1>4. Typed'
    BY <1>1, <1>2, <1>3 DEF Typed
  <1>5. r \notin kept
    BY NotKeptYet
  <1>6. KeptOnly'
    <2>1. \A p \in Requests : handler'[p] = "none" <=> handler[p] = "none"
      BY <1>2
    <2> QED
      BY <1>1, <1>2, <1>5, <2>1 DEF KeptOnly, Typed
  <1>7. StaysListed'
    <2>1. ASSUME NEW p \in kept \ (dealt \cup overtaken), NEW j, j = request[p].kind
          PROVE  p \in Kept(j)'
      <3>1. p \in Requests /\ handler[p] = "done"
        BY <1>1 DEF Typed, KeptOnly
      <3>2. j \in Kinds
        BY <1>1, <2>1, <3>1, AskedIs DEF KeptOnly
      <3> QED
        BY <1>1, <2>1, <3>2 DEF StaysListed
    <2> QED
      BY <2>1 DEF StaysListed
  <1>8. ASSUME OneCommand PROVE Answered'
    <2>1. Answered
      BY <1>8 DEF InviteIInv
    <2>2. answers'[r] = {} \/ (l = "done" /\ answers'[r] = {v})
      BY <1>3, <2>1 DEF Answered
    <2>3. \A p \in Requests : /\ answers'[p] = {} \/ \E w \in {"accept", "reject"} : answers'[p] = {w}
                              /\ handler'[p] # "done" => answers'[p] = {}
      BY <1>2, <1>3, <2>1, <2>2 DEF Answered
    <2>4. \A p \in kept : answers'[p] = answers[p]
      BY <1>1, <1>3, <1>5 DEF Typed
    <2> QED
      BY <2>1, <2>3, <2>4 DEF Answered
  <1> QED
    BY <1>4, <1>6, <1>7, <1>8 DEF InviteIInv

\* A request is kept for review.
LEMMA Saves ==
    ASSUME InviteIInv, NEW r \in Requests, Goes(r, "decide", "done"), Save(r), kept' = kept \cup {r},
           UNCHANGED <<request, command, answers, dealt, overtaken>>
    PROVE  InviteIInv'
  <1>1. Typed /\ KeptOnly /\ StaysListed
    BY DEF InviteIInv
  <1>2. /\ handler[r] = "decide" /\ handler' \in [Requests -> Places] /\ handler'[r] = "done"
        /\ \A p \in Requests \ {r} : handler'[p] = handler[p]
    BY <1>1 DEF Goes, Typed, Places
  <1>3. PICK k \in Kinds : request[r].kind = k /\ request[r] # NoRequest /\ request[r].id = r
    BY <1>1, <1>2, AskedIs DEF KeptOnly
  <1>4. Kept(k) \cup {r} \in SUBSET Requests
    BY <1>1, KeptRow
  <1>5. /\ pending' \in [Kinds -> Rows] /\ Kept(k)' = Kept(k) \cup {r}
        /\ \A j \in Kinds \ {k} : Kept(j)' = Kept(j)
    BY <1>1, <1>3, <1>4, RowSaved, RowsBecome
  <1>6. Typed'
    BY <1>1, <1>2, <1>5 DEF Typed
  <1>7. KeptOnly'
    <2>1. \A p \in Requests : handler'[p] = "none" <=> handler[p] = "none"
      BY <1>2
    <2>2. \A p \in kept' : handler'[p] = "done"
      BY <1>1, <1>2 DEF KeptOnly, Typed
    <2>3. ASSUME NEW j \in Kinds, NEW p \in Kept(j)' PROVE p \in kept' /\ request[p].kind = j
      BY <1>1, <1>3, <1>5, <2>3 DEF KeptOnly
    <2> QED
      BY <1>1, <2>1, <2>2, <2>3 DEF KeptOnly
  <1>8. StaysListed'
    <2>1. ASSUME NEW p \in kept' \ (dealt \cup overtaken), NEW j, j = request[p].kind
          PROVE  p \in Kept(j)'
      <3>1. CASE p = r
        BY <1>3, <1>5, <2>1, <3>1
      <3>2. CASE p \in kept
        <4>1. p \in Requests /\ handler[p] = "done"
          BY <1>1, <3>2 DEF Typed, KeptOnly
        <4>2. j \in Kinds
          BY <1>1, <2>1, <4>1, AskedIs DEF KeptOnly
        <4> QED
          BY <1>1, <1>5, <2>1, <3>2, <4>2 DEF StaysListed
      <3> QED
        BY <3>1, <3>2
    <2> QED
      BY <2>1 DEF StaysListed
  <1>9. ASSUME OneCommand PROVE Answered'
    <2>1. Answered /\ answers[r] = {}
      BY <1>2, <1>9 DEF InviteIInv, Answered
    <2>2. \A p \in Requests : handler'[p] # "done" => answers[p] = {}
      BY <1>2, <2>1 DEF Answered
    <2>3. \A p \in kept' : answers[p] # {} => p \in kept /\ p # r
      BY <2>1
    <2> QED
      BY <1>5, <2>1, <2>2, <2>3 DEF Answered
  <1> QED
    BY <1>6, <1>7, <1>8, <1>9 DEF InviteIInv

LEMMA HandlerSteps ==
    ASSUME InviteIInv, NEW r \in Requests, Handles(r)
    PROVE  InviteIInv'
  <1>1. Typed /\ KeptOnly /\ pending \in [Kinds -> Rows]
    BY DEF InviteIInv, Typed
  <1>2. CASE ChecksBlock(r)
    <2>1. \A k \in Kinds : Kept(k)' = Kept(k)
      BY <1>2 DEF ChecksBlock, Kept
    <2>2. /\ handler[r] = "block" /\ UNCHANGED <<pending, request, command, kept, dealt, overtaken>>
          /\ \E l \in {"list", "done"} : /\ handler' = [handler EXCEPT ![r] = l]
                                         /\ answers' = answers \/ (l = "done" /\ Answer(r, "reject"))
      BY <1>2 DEF ChecksBlock, Goes
    <2> QED
      BY <1>1, <2>1, <2>2, HandlerGoesOn
  <1>3. CASE Lists(r)
    <2>1. /\ handler[r] = "list" /\ UNCHANGED <<request, command, answers, kept, dealt, overtaken>>
          /\ \E l \in {"decide", "done"} : handler' = [handler EXCEPT ![r] = l]
      BY <1>3 DEF Lists, Goes
    <2>2. PICK k \in Kinds : request[r].kind = k /\ request[r].id = r
      BY <1>1, <2>1, AskedIs DEF KeptOnly
    <2>3. Kept(k) \ {r} = Kept(k) /\ Kept(k) \in SUBSET Requests
      BY <1>1, <2>1, NotKeptYet, KeptRow
    <2>4. pending' \in [Kinds -> Rows] /\ \A j \in Kinds : Kept(j)' = Kept(j)
      <3>1. CASE pending' = Without(k, r)
        <4>1. pending' = [pending EXCEPT ![k] = Row(Kept(k))]
          BY <1>1, <2>3, <3>1, RowDeleted
        <4>2. /\ pending' \in [Kinds -> Rows] /\ Kept(k)' = Kept(k)
              /\ \A j \in Kinds \ {k} : Kept(j)' = Kept(j)
          BY <1>1, <2>3, <4>1, RowsBecome
        <4> QED
          BY <4>2
      <3>2. CASE UNCHANGED pending
        BY <1>1, <3>2 DEF Kept
      <3> QED
        BY <1>3, <2>2, <3>1, <3>2 DEF Lists
    <2> QED
      BY <2>1, <2>4, HandlerGoesOn
  <1>4. CASE DecidesFriend(r) \/ DecidesGroup(r)
    <2>1. Goes(r, "decide", "done") /\ UNCHANGED <<request, command, dealt, overtaken>>
      BY <1>4 DEF DecidesFriend, DecidesGroup
    <2>2. \/ Save(r) /\ kept' = kept \cup {r} /\ answers' = answers
          \/ UNCHANGED <<pending, kept>> /\ \E v \in {"accept", "reject"} : Answer(r, v)
      BY <1>4 DEF DecidesFriend, DecidesGroup, Decided
    <2>3. CASE UNCHANGED <<pending, kept>> /\ \E v \in {"accept", "reject"} : Answer(r, v)
      <3>1. \A k \in Kinds : Kept(k)' = Kept(k)
        BY <2>3 DEF Kept
      <3> QED
        BY <1>1, <2>1, <2>3, <3>1, HandlerGoesOn DEF Goes
    <2> QED
      BY <2>1, <2>2, <2>3, Saves
  <1> QED
    BY <1>2, <1>3, <1>4 DEF Handles
-----------------------------------------------------------------------------
(* The commands *)

LEMMA ReadsStep ==
    ASSUME InviteIInv, NEW c \in Commands, ReadsRequests(c)
    PROVE  InviteIInv'
  <1>1. Typed /\ KeptOnly /\ StaysListed
    BY DEF InviteIInv
  <1>2. UNCHANGED <<request, handler, pending, answers, kept, dealt, overtaken>>
    BY DEF ReadsRequests, requestVars
  <1>3. PICK k \in Kinds : \E v \in {"accept", "reject"}, T \in SUBSET Kept(k) :
           command' = [command EXCEPT ![c] = [todo |-> T, verdict |-> v]]
    <2>1. PICK k \in Kinds, v \in {"accept", "reject"} :
             \E T \in {{r} : r \in Kept(k)} \cup ({Kept(k)} \ {{}}) :
                command' = [command EXCEPT ![c] = [todo |-> T, verdict |-> v]]
      BY DEF ReadsRequests
    <2>2. ({{r} : r \in Kept(k)} \cup ({Kept(k)} \ {{}})) \subseteq SUBSET Kept(k)
      OBVIOUS
    <2> QED
      BY <2>1, <2>2
  <1>4. PICK v \in {"accept", "reject"}, T \in SUBSET Kept(k) :
           command' = [command EXCEPT ![c] = [todo |-> T, verdict |-> v]]
    BY <1>3
  <1>5. T \subseteq Requests /\ T \subseteq kept
    BY <1>1, <1>3, KeptRow DEF KeptOnly
  <1>6. /\ command' \in [Commands -> [todo : SUBSET Requests, verdict : {"none", "accept", "reject"}]]
        /\ command'[c].todo = T /\ \A d \in Commands \ {c} : command'[d] = command[d]
        /\ command'[c].verdict # "none"
    BY <1>1, <1>4, <1>5 DEF Typed
  <1>7. \A j \in Kinds : Kept(j)' = Kept(j)
    BY <1>2 DEF Kept
  <1>8. Typed' /\ KeptOnly'
    <2>1. \A d \in Commands : /\ command'[d].todo # {} => command'[d].verdict # "none"
                              /\ command'[d].todo \subseteq kept
      BY <1>1, <1>5, <1>6 DEF Typed, KeptOnly
    <2>2. Typed'
      BY <1>1, <1>2, <1>6, <2>1 DEF Typed
    <2> QED
      BY <1>1, <1>2, <1>7, <2>1, <2>2 DEF KeptOnly
  <1>9. StaysListed'
    BY <1>1, <1>2 DEF StaysListed, Kept
  <1>10. ASSUME OneCommand PROVE Answered'
    <2>1. Answered
      BY <1>10 DEF InviteIInv
    <2>2. ASSUME NEW p \in kept, answers[p] # {}, NEW d \in Commands PROVE p \notin command'[d].todo
      BY <1>4, <1>6, <2>1, <2>2 DEF Answered
    <2> QED
      BY <1>2, <1>7, <2>1, <2>2 DEF Answered
  <1> QED
    BY <1>8, <1>9, <1>10 DEF InviteIInv

\* A command deals with one request: its row goes, and no other.
LEMMA SolvesSteps ==
    ASSUME InviteIInv, NEW c \in Commands, NEW r \in Requests, SolvesFriend(c, r) \/ SolvesGroup(c, r)
    PROVE  InviteIInv'
  <1>1. Typed /\ KeptOnly /\ StaysListed
    BY DEF InviteIInv
  <1>2. PICK k \in Kinds :
           /\ request[r].kind = k /\ r \in command[c].todo /\ pending' = Without(k, request[r].id)
           /\ dealt' = dealt \cup {r} /\ Done(c, r)
           /\ UNCHANGED <<request, handler, kept, overtaken>>
           /\ answers' = answers \/ Answer(r, command[c].verdict)
           /\ k = "group" => answers' = answers
    BY DEF SolvesFriend, SolvesGroup, requestVars, Kinds
  <1>3. r \in kept /\ handler[r] = "done" /\ request[r].id = r
    BY <1>1, <1>2, AskedIs DEF KeptOnly, Typed
  <1>4. Kept(k) \in SUBSET Requests /\ Kept(k) \ {r} \in SUBSET Requests
    BY <1>1, KeptRow
  <1>5. /\ pending' \in [Kinds -> Rows] /\ Kept(k)' = Kept(k) \ {r}
        /\ \A j \in Kinds \ {k} : Kept(j)' = Kept(j)
    BY <1>1, <1>2, <1>3, <1>4, RowDeleted, RowsBecome
  <1>6. \A j \in Kinds : r \notin Kept(j)'
    <2>1. \A j \in Kinds \ {k} : r \notin Kept(j)
      BY <1>1, <1>2 DEF KeptOnly
    <2> QED
      BY <1>5, <2>1
  <1>7. PICK C \in [todo : SUBSET Requests, verdict : {"none", "accept", "reject"}] :
           /\ command' = [command EXCEPT ![c] = C] /\ C.todo = command[c].todo \ {r}
           /\ C.todo # {} => C.verdict # "none"
    <2>1. /\ command[c] \in [todo : SUBSET Requests, verdict : {"none", "accept", "reject"}]
          /\ command[c].verdict # "none"
      BY <1>1, <1>2 DEF Typed
    <2>2. CASE command[c].todo \ {r} = {}
      <3>1. /\ NoCommand \in [todo : SUBSET Requests, verdict : {"none", "accept", "reject"}]
            /\ NoCommand.todo = {}
        BY DEF NoCommand
      <3>2. command' = [command EXCEPT ![c] = NoCommand]
        BY <1>2, <2>2 DEF Done
      <3> QED
        BY <2>2, <3>1, <3>2
    <2>3. CASE command[c].todo \ {r} # {}
      <3> DEFINE C == [command[c] EXCEPT !.todo = command[c].todo \ {r}]
      <3>1. /\ C \in [todo : SUBSET Requests, verdict : {"none", "accept", "reject"}]
            /\ C.todo = command[c].todo \ {r} /\ C.verdict # "none"
        BY <2>1
      <3>2. command' = [command EXCEPT ![c] = C]
        BY <1>2, <2>3 DEF Done
      <3> HIDE DEF C
      <3> QED
        BY <3>1, <3>2
    <2> QED
      BY <2>2, <2>3
  <1>8. /\ command' \in [Commands -> [todo : SUBSET Requests, verdict : {"none", "accept", "reject"}]]
        /\ command'[c].todo = command[c].todo \ {r}
        /\ command'[c].todo # {} => command'[c].verdict # "none"
        /\ \A d \in Commands \ {c} : command'[d] = command[d]
    BY <1>1, <1>7 DEF Typed
  <1>9. PICK v \in {"accept", "reject"} : answers' = answers \/ Answer(r, v)
    <2>1. command[c].verdict \in {"accept", "reject"}
      BY <1>1, <1>2 DEF Typed
    <2> QED
      BY <1>2, <2>1
  <1>10. /\ answers' \in [Requests -> SUBSET {"accept", "reject"}]
         /\ \A p \in Requests \ {r} : answers'[p] = answers[p]
         /\ answers'[r] = answers[r] \/ answers'[r] = answers[r] \cup {v}
    BY <1>1, <1>9 DEF Typed, Answer
  <1>11. Typed'
    <2>1. \A d \in Commands : command'[d].todo # {} => command'[d].verdict # "none"
      BY <1>1, <1>8 DEF Typed
    <2> QED
      BY <1>1, <1>2, <1>3, <1>5, <1>8, <1>10, <2>1 DEF Typed
  <1>12. \A j \in Kinds : Kept(j)' \subseteq Kept(j)
    BY <1>5
  <1>13. \A d \in Commands : command'[d].todo \subseteq command[d].todo
    BY <1>8
  <1>14. KeptOnly'
    BY <1>1, <1>2, <1>12, <1>13 DEF KeptOnly
  <1>15. StaysListed'
    <2>1. ASSUME NEW p \in kept \ (dealt' \cup overtaken), NEW j, j = request[p].kind
          PROVE  p \in Kept(j)'
      <3>1. p \in Requests /\ p # r /\ handler[p] = "done" /\ p \in kept \ (dealt \cup overtaken)
        BY <1>1, <1>2, <2>1 DEF Typed, KeptOnly
      <3>2. j \in Kinds /\ p \in Kept(j)
        BY <1>1, <2>1, <3>1, AskedIs DEF KeptOnly, StaysListed
      <3> QED
        BY <1>5, <3>1, <3>2
    <2> QED
      BY <1>2, <2>1 DEF StaysListed
  <1>16. ASSUME OneCommand PROVE Answered'
    <2>1. Answered /\ \A d \in Commands : d = c
      BY <1>16 DEF InviteIInv, OneCommand
    <2>2. answers[r] = {}
      BY <1>2, <1>3, <2>1 DEF Answered
    <2>3. answers'[r] = {} \/ answers'[r] = {v}
      BY <1>10, <2>2
    <2>4. \A p \in Requests : /\ answers'[p] = {} \/ \E w \in {"accept", "reject"} : answers'[p] = {w}
                              /\ handler[p] # "done" => answers'[p] = {}
      BY <1>3, <1>10, <2>1, <2>3 DEF Answered
    <2>5. ASSUME NEW p \in kept, answers'[p] # {}
          PROVE  /\ \A j \in Kinds : p \notin Kept(j)'
                 /\ \A d \in Commands : p \notin command'[d].todo
      <3>1. CASE p = r
        BY <1>6, <1>8, <2>1, <3>1
      <3>2. CASE p # r
        <4>1. answers[p] # {}
          BY <1>1, <1>10, <2>5, <3>2 DEF Typed
        <4> QED
          BY <1>12, <1>13, <2>1, <4>1 DEF Answered
      <3> QED
        BY <3>1, <3>2
    <2> QED
      BY <1>2, <2>4, <2>5 DEF Answered
  <1> QED
    BY <1>11, <1>14, <1>15, <1>16 DEF InviteIInv

-----------------------------------------------------------------------------
(* The invariant, and theorems *)

LEMMA InviteStepIInv == ASSUME SameMillisecond = FALSE PROVE InviteIInv /\ [InviteNext]_inviteVars => InviteIInv'
  <1> SUFFICES ASSUME InviteIInv, [InviteNext]_inviteVars PROVE InviteIInv'
    OBVIOUS
  <1>1. CASE UNCHANGED <<request, handler, pending, command, answers, kept, dealt, overtaken>>
    <2>1. Typed' /\ KeptOnly' /\ StaysListed'
      BY <1>1 DEF InviteIInv, Typed, KeptOnly, StaysListed, Kept
    <2>2. OneCommand => Answered'
      BY <1>1 DEF InviteIInv, Answered, Kept
    <2> QED
      BY <2>1, <2>2 DEF InviteIInv
  <1>2. CASE (\E g \in Invited : GroupLeave(g)) \/ ModeCommand \/ BlockCommand \/ UNCHANGED inviteVars
    BY <1>1, <1>2 DEF GroupLeave, ModeCommand, BlockCommand, requestVars, inviteVars
  <1>3. ASSUME NEW r \in Requests, Arrives(r) \/ Handles(r) PROVE InviteIInv'
    BY <1>3, ArrivesStep, HandlerSteps
  <1>4. CASE (\E u \in Users : NewFriend(u)) \/ (\E g \in Invited : GroupJoin(g))
    BY <1>4, ObsoleteSteps
  <1>5. ASSUME NEW c \in Commands, ReadsRequests(c) PROVE InviteIInv'
    BY <1>5, ReadsStep
  <1>6. ASSUME NEW c \in Commands, NEW r \in Requests, SolvesFriend(c, r) \/ SolvesGroup(c, r)
        PROVE  InviteIInv'
    BY <1>6, SolvesSteps
  <1> QED
    BY <1>2, <1>3, <1>4, <1>5, <1>6 DEF InviteNext

\* Whatever the requests, the events and the commands, the invariant holds.
THEOREM InviteInductive == ASSUME SameMillisecond = FALSE PROVE InviteSpec => []InviteIInv
  BY InviteInitIInv, InviteStepIInv, PTL DEF InviteSpec

\* A request kept for review stays where the administrators find it until one of them
\* deals with it, the user becomes a friend, or the bot enters the group, however many
\* commands are at work: second requests do not push it out.
THEOREM KeptStaysListed == ASSUME SameMillisecond = FALSE PROVE InviteSpec => []StaysListed
  BY InviteInductive, PTL DEF InviteIInv

\* With one command at a time, a request is neither lost nor accepted and rejected.
THEOREM NeitherLostNorAnsweredTwice ==
    ASSUME SameMillisecond = FALSE, OneCommand
    PROVE  InviteSpec => []RequestsKept
  <1>1. InviteIInv => RequestsKept
    BY SingleAnswers DEF InviteIInv, RequestsKept
  <1> QED
    BY <1>1, InviteInductive, PTL
-----------------------------------------------------------------------------
(* The settings, the friends and the groups *)

Settled ==
    /\ mode \in Modes /\ blocked \subseteq Users \cup Invited
    /\ friends \subseteq Users /\ joined \subseteq Invited
    /\ groupAdmins \subseteq Invited \X Users
    /\ changes \in 0..MaxChanges

LEMMA SettledStep ==
    ASSUME SameMillisecond = FALSE, Settled, InviteIInv, [InviteNext]_inviteVars
    PROVE  Settled'
  <1> USE InvitationsAssumption
  <1>1. CASE UNCHANGED <<mode, blocked, friends, joined, groupAdmins, changes>>
    BY <1>1 DEF Settled
  <1>2. CASE Change /\ ((\E u \in Users : NewFriend(u)) \/ (\E g \in Invited : GroupJoin(g) \/ GroupLeave(g))
                        \/ ModeCommand \/ BlockCommand)
    <2>1. changes' \in 0..MaxChanges
      BY <1>2 DEF Change, Settled
    <2>2. ASSUME NEW u \in Users, NewFriend(u) PROVE Settled'
      BY <2>1, <2>2 DEF NewFriend, Settled, settingVars
    <2>3. ASSUME NEW g \in Invited, GroupJoin(g) PROVE Settled'
      <3> DEFINE mine == {r \in Kept("group") : request[r].group = g}
      <3>1. ASSUME NEW r \in mine PROVE request[r].user \in Users
        <4>1. Typed /\ KeptOnly /\ "group" \in Kinds
          BY DEF InviteIInv, Kinds
        <4>2. r \in Requests /\ request[r] # NoRequest
          BY <4>1, KeptRow DEF KeptOnly
        <4> QED
          BY <4>1, <4>2, AskedIs
      <3>2. groupAdmins' = groupAdmins \cup {<<g, request[r].user>> : r \in mine}
        BY <2>3 DEF GroupJoin
      <3>3. groupAdmins' \subseteq Invited \X Users
        BY <3>1, <3>2 DEF Settled
      <3> QED
        BY <2>1, <2>3, <3>3 DEF GroupJoin, Settled, settingVars
    <2>4. ASSUME NEW g \in Invited, GroupLeave(g) PROVE Settled'
      BY <2>1, <2>4 DEF GroupLeave, Settled, settingVars
    <2>5. CASE ModeCommand \/ BlockCommand
      BY <2>1, <2>5 DEF ModeCommand, BlockCommand, Settled, worldVars
    <2> QED
      BY <1>2, <2>2, <2>3, <2>4, <2>5
  <1>3. ASSUME NEW r \in Requests, Handles(r) PROVE Settled'
    <2>1. Typed /\ handler[r] # "none" => /\ request[r].user \in Users
                                          /\ request[r].kind = "group" => request[r].group \in Invited
      BY AskedIs DEF InviteIInv, KeptOnly
    <2>2. handler[r] # "none" /\ Typed /\ UNCHANGED <<mode, friends, joined, changes>>
      BY <1>3 DEF Handles, ChecksBlock, Lists, DecidesFriend, DecidesGroup, Goes, worldVars, settingVars, InviteIInv
    <2>3. blocked' \subseteq Users \cup Invited
      BY <1>3, <2>1, <2>2 DEF Handles, ChecksBlock, Lists, DecidesFriend, DecidesGroup, Decided,
                              settingVars, Settled
    <2>4. groupAdmins' \subseteq Invited \X Users
      BY <1>3, <2>1, <2>2 DEF Handles, ChecksBlock, Lists, DecidesFriend, DecidesGroup, Settled
    <2> QED
      BY <2>2, <2>3, <2>4 DEF Settled
  <1>4. ASSUME NEW c \in Commands, NEW r \in Requests, SolvesFriend(c, r) \/ SolvesGroup(c, r)
        PROVE  Settled'
    <2>1. CASE SolvesFriend(c, r)
      BY <1>1, <2>1 DEF SolvesFriend, settingVars, worldVars
    <2>2. CASE SolvesGroup(c, r)
      <3>1. request[r].user \in Users /\ request[r].group \in Invited
        <4>1. Typed /\ r \in kept /\ request[r] # NoRequest
          BY <2>2 DEF InviteIInv, KeptOnly, SolvesGroup, Typed
        <4> QED
          BY <2>2, <4>1, AskedIs DEF SolvesGroup
      <3> QED
        BY <2>2, <3>1 DEF SolvesGroup, worldVars, Settled
    <2> QED
      BY <1>4, <2>1, <2>2
  <1>5. CASE (\E r \in Requests : Arrives(r)) \/ (\E c \in Commands : ReadsRequests(c)) \/ UNCHANGED inviteVars
    BY <1>1, <1>5 DEF Arrives, ReadsRequests, inviteVars, settingVars, worldVars
  <1> QED
    BY <1>2, <1>3, <1>4, <1>5 DEF InviteNext, NewFriend, GroupJoin, GroupLeave, ModeCommand, BlockCommand

\* Every variable stays in its range; a row holds a request of its kind, under its
\* RequestId.
THEOREM InviteTypeCorrect == ASSUME SameMillisecond = FALSE PROVE InviteSpec => []InviteTypeOK
  <1>1. InviteInit => Settled
    BY InvitationsAssumption DEF InviteInit, Settled
  <1>2. Settled /\ InviteIInv /\ [InviteNext]_inviteVars => Settled'
    BY SettledStep
  <1>3. Settled /\ InviteIInv => InviteTypeOK
    <2> SUFFICES ASSUME Settled, InviteIInv PROVE InviteTypeOK
      OBVIOUS
    <2>1. Typed /\ KeptOnly
      BY DEF InviteIInv
    <2>2. ASSUME NEW k \in Kinds, NEW i \in DOMAIN pending[k]
          PROVE  request[pending[k][i]].kind = k /\ request[pending[k][i]].id = i
      <3>1. i \in Kept(k) /\ pending[k][i] = i /\ i \in Requests
        BY <2>1, KeptRow, RowOf
      <3> QED
        BY <2>1, <3>1, AskedIs DEF KeptOnly
    <2>3. ASSUME NEW r \in Requests
          PROVE  request[r] \in {NoRequest} \cup {Friend(u, id) : u \in Users, id \in Requests}
                                 \cup {Invitation(u, g, id) : u \in Users, g \in Invited, id \in Requests}
      BY <2>1 DEF Typed, Asked
    <2> QED
      BY <2>1, <2>2, <2>3 DEF Typed, Settled, InviteTypeOK, Places
  <1> QED
    BY <1>1, <1>2, <1>3, InviteInductive, PTL DEF InviteSpec

-----------------------------------------------------------------------------
(* WeiboNews *)

\* A post on its way was not told before, and is told once when it is.
OnePlace ==
    /\ phase # "store" => news = NoRound
    /\ news.cards \cap onWay = {}
    /\ \A g \in WeiboGroups, p \in Posts :
          told[g][p] # 0 => told[g][p] = 1 /\ p \in marked \ (news.cards \cup onWay)

\* What may still be told, and what decides about the posts to come.
Recent ==
    /\ page \subseteq Published /\ marked \subseteq Published
    /\ firstWatch <= now
    /\ newsTs # <<>> => firstWatch <= newsTs[1]
    /\ phase = "store" => firstWatch <= news.ts /\ 0 < news.ts
    /\ \A p \in news.cards \cup onWay : firstWatch <= posts[p]

\* The inductive invariant.
NewsIInv == NewsTypeOK /\ OnePlace /\ Recent

-----------------------------------------------------------------------------
(* The largest of some numbers *)

\* The pairs of a number and a greater one.
Below == {p \in Nat \X Nat : p[1] < p[2]}

\* A set of numbers has a least one.
LEMMA Least ==
    ASSUME NEW T, T \subseteq Nat, T # {}
    PROVE  \E m \in T : \A k \in T : m <= k
  <1>1. IsWellFoundedOn(Below, Nat)
    BY NatLessThanWellFounded DEF OpToRel, Below
  <1>2. PICK m \in T : \A k \in T : ~(<<k, m>> \in Below)
    BY <1>1, WFMin
  <1>3. ASSUME NEW k \in T PROVE m <= k
    <2>1. <<k, m>> \in Nat \X Nat /\ <<k, m>> \notin Below
      BY <1>2
    <2> QED
      BY <2>1 DEF Below
  <1> QED
    BY <1>3

\* Max returns the largest number of a set that has a bound.
LEMMA Largest ==
    ASSUME NEW N \in Nat, NEW S, S \subseteq 0..N, S # {}
    PROVE  Max(S) \in S /\ \A x \in S : x <= Max(S)
  <1> DEFINE T == {n \in Nat : \A x \in S : x <= n}
  <1>1. N \in T
    OBVIOUS
  <1>2. PICK m \in T : \A k \in T : m <= k
    <2> HIDE DEF T
    <2>1. T \subseteq Nat
      BY DEF T
    <2> QED
      BY <1>1, <2>1, Least
  <1>3. m \in S
    <2> SUFFICES ASSUME m \notin S PROVE FALSE
      OBVIOUS
    <2>1. \A x \in S : x \in Nat /\ x < m
      BY <1>2
    <2> PICK x0 \in S : TRUE
      OBVIOUS
    <2>2. m # 0
      BY <2>1, x0 < m, x0 \in Nat
    <2>3. m - 1 \in Nat /\ ~(m <= m - 1)
      BY <2>2
    <2>4. \A x \in S : x <= m - 1
      BY <2>1, <2>3
    <2>5. m - 1 \in T
      BY <2>3, <2>4
    <2> QED
      BY <1>2, <2>3, <2>5
  <1>4. \A x \in S : m >= x
    BY <1>2
  <1> QED
    BY <1>3, <1>4 DEF Max

-----------------------------------------------------------------------------
(* Initially *)

LEMMA NewsInitIInv == NewsInit => NewsIInv
  <1> SUFFICES ASSUME NewsInit PROVE NewsIInv
    OBVIOUS
  <1> USE WeiboNewsAssumption
  <1>1. posts = <<>> /\ Len(posts) = 0 /\ posts \in Seq(1..MaxTime)
    BY DEF NewsInit
  <1>2. NewsTypeOK
    <2>1. now \in 1..MaxTime /\ startTs \in 0..MaxTime /\ faults \in 0..MaxFaults
      BY DEF NewsInit
    <2>2. Len(posts) <= MaxPosts
      BY <1>1
    <2>3. watchers \subseteq WeiboGroups /\ newsTs \in {<<>>} \cup {<<t>> : t \in 1..MaxTime}
      BY DEF NewsInit
    <2>4. marked \subseteq Posts /\ phase \in {"idle", "filter", "store"} /\ page \subseteq Posts
      BY DEF NewsInit
    <2>5. news \in [ts : 0..MaxTime, cards : SUBSET marked] /\ onWay \subseteq marked
      BY DEF NewsInit, NoRound
    <2>6. adding \in [WeiboGroups -> {"no", "stamp", "insert"}] /\ removing \subseteq WeiboGroups
      BY DEF NewsInit
    <2>7. told \in [WeiboGroups -> [Posts -> 0..2]] /\ since \in [WeiboGroups -> 0..MaxPosts]
      BY DEF NewsInit
    <2>8. wiped \in BOOLEAN
      BY Zenon DEF NewsInit
    <2>9. firstWatch \in 0..MaxTime /\ lost \subseteq Posts
      BY DEF NewsInit
    <2> QED
      BY <1>1, <2>1, <2>2, <2>3, <2>4, <2>5, <2>6, <2>7, <2>8, <2>9 DEF NewsTypeOK
  <1>3. OnePlace
    BY DEF NewsInit, OnePlace, NoRound
  <1>4. Recent
    BY DEF NewsInit, Recent, NoRound
  <1> QED
    BY <1>2, <1>3, <1>4 DEF NewsIInv

-----------------------------------------------------------------------------
(* Every action keeps the invariant *)

LEMMA PassesIInv == NewsIInv /\ Passes => NewsIInv'
  <1> SUFFICES ASSUME NewsIInv, Passes PROVE NewsIInv'
    OBVIOUS
  <1> USE WeiboNewsAssumption
  <1>1. now' \in 1..MaxTime /\ now' = now + 1
    BY DEF NewsIInv, NewsTypeOK, Passes
  <1>2. /\ UNCHANGED <<posts, faults, startTs, watchers, newsTs, marked, phase, page, news>>
        /\ UNCHANGED <<onWay, adding, removing, told, since, wiped, firstWatch, lost>>
    BY DEF Passes, roundVars, commandVars, historyVars
  <1>3. NewsTypeOK'
    BY <1>1, <1>2 DEF NewsIInv, NewsTypeOK, Posts
  <1>4. OnePlace'
    BY <1>2 DEF NewsIInv, OnePlace, Posts, NoRound
  <1>5. Recent'
    BY <1>1, <1>2 DEF NewsIInv, Recent, NewsTypeOK, Published
  <1> QED
    BY <1>3, <1>4, <1>5 DEF NewsIInv

LEMMA PublishesIInv == NewsIInv /\ Publishes => NewsIInv'
  <1> SUFFICES ASSUME NewsIInv, Publishes PROVE NewsIInv'
    OBVIOUS
  <1> USE WeiboNewsAssumption
  <1>1. /\ posts' = Append(posts, now) /\ Len(posts) < MaxPosts
        /\ posts \in Seq(1..MaxTime) /\ now \in 1..MaxTime
    BY DEF NewsIInv, NewsTypeOK, Publishes
  <1>2. /\ UNCHANGED <<now, faults, startTs, watchers, newsTs, marked, phase, page, news>>
        /\ UNCHANGED <<onWay, adding, removing, told, since, wiped, firstWatch, lost>>
    BY DEF Publishes, roundVars, commandVars, historyVars
  <1>3. /\ posts' \in Seq(1..MaxTime) /\ Len(posts') = Len(posts) + 1
        /\ \A p \in 1..Len(posts) : posts'[p] = posts[p]
    BY <1>1
  <1>4. Len(posts') <= MaxPosts
    BY <1>1, <1>3
  <1>5. NewsTypeOK'
    BY <1>2, <1>3, <1>4 DEF NewsIInv, NewsTypeOK, Posts
  <1>6. OnePlace'
    BY <1>2 DEF NewsIInv, OnePlace, Posts, NoRound
  <1>7. Recent'
    <2>1. Published \subseteq Published'
      BY <1>1, <1>3 DEF Published
    <2>2. \A p \in news.cards \cup onWay : p \in Published
      BY DEF NewsIInv, Recent, NewsTypeOK
    <2>3. \A p \in news.cards \cup onWay : firstWatch <= posts'[p]
      BY <1>3, <2>2 DEF NewsIInv, Recent, Published
    <2> QED
      BY <1>2, <2>1, <2>3 DEF NewsIInv, Recent
  <1> QED
    BY <1>5, <1>6, <1>7 DEF NewsIInv
LEMMA ComesOnlineIInv == NewsIInv /\ ComesOnline => NewsIInv'
  <1> SUFFICES ASSUME NewsIInv, ComesOnline PROVE NewsIInv'
    OBVIOUS
  <1> USE WeiboNewsAssumption
  <1>1. faults' \in 0..MaxFaults /\ startTs' \in 0..MaxTime
    BY DEF NewsIInv, NewsTypeOK, ComesOnline, Fault
  <1>2. /\ UNCHANGED <<now, posts, watchers, newsTs, marked, phase, page, news, onWay>>
        /\ UNCHANGED <<adding, removing, told, since, wiped, firstWatch, lost>>
    BY DEF ComesOnline, newsWorldVars, roundVars, commandVars, historyVars
  <1>3. NewsTypeOK'
    BY <1>1, <1>2 DEF NewsIInv, NewsTypeOK, Posts
  <1>4. OnePlace'
    BY <1>1, <1>2 DEF NewsIInv, OnePlace, NewsTypeOK, Posts, NoRound
  <1>5. Recent'
    BY <1>1, <1>2 DEF NewsIInv, Recent, NewsTypeOK, Published
  <1> QED
    BY <1>3, <1>4, <1>5 DEF NewsIInv

LEMMA RestartsIInv == NewsIInv /\ Restarts => NewsIInv'
  <1> SUFFICES ASSUME NewsIInv, Restarts PROVE NewsIInv'
    OBVIOUS
  <1> USE WeiboNewsAssumption
  <1>1. /\ faults' \in 0..MaxFaults /\ phase' = "idle" /\ page' = {} /\ news' = NoRound
        /\ onWay' = {} /\ adding' = [h \in WeiboGroups |-> "no"] /\ removing' = {}
        /\ lost' = lost \cup news.cards \cup onWay
    BY DEF NewsIInv, NewsTypeOK, Restarts, Fault
  <1>2. /\ UNCHANGED <<now, posts, startTs, watchers, newsTs, marked, told, since, wiped>>
        /\ UNCHANGED <<firstWatch>>
    BY DEF Restarts, newsWorldVars, roundVars, commandVars, historyVars
  <1>3. NewsTypeOK'
    <2>1. lost' \subseteq Posts
      BY <1>1 DEF NewsIInv, NewsTypeOK
    <2>2. news' \in [ts : 0..MaxTime, cards : SUBSET marked]
      BY <1>1 DEF NoRound
    <2>3. adding' \in [WeiboGroups -> {"no", "stamp", "insert"}]
      BY <1>1
    <2> QED
      BY <1>1, <1>2, <2>1, <2>2, <2>3 DEF NewsIInv, NewsTypeOK, Posts
  <1>4. OnePlace'
    BY <1>1, <1>2 DEF NewsIInv, OnePlace, NewsTypeOK, Posts, NoRound
  <1>5. Recent'
    BY <1>1, <1>2 DEF NewsIInv, Recent, NewsTypeOK, Published, NoRound
  <1> QED
    BY <1>3, <1>4, <1>5 DEF NewsIInv

LEMMA FetchesIInv == NewsIInv /\ Fetches => NewsIInv'
  <1> SUFFICES ASSUME NewsIInv, Fetches PROVE NewsIInv'
    OBVIOUS
  <1> USE WeiboNewsAssumption
  <1>1. /\ phase = "idle" /\ phase' = "filter" /\ page' \subseteq Published
        /\ lost' \subseteq lost \cup Published
    BY DEF NewsIInv, NewsTypeOK, Fetches
  <1>2. /\ UNCHANGED <<now, posts, faults, startTs, watchers, newsTs, marked, news, onWay>>
        /\ UNCHANGED <<adding, removing, told, since, wiped, firstWatch>>
    BY DEF Fetches, newsWorldVars, roundVars, commandVars, historyVars
  <1>3. NewsTypeOK'
    <2>1. Published \subseteq Posts
      BY DEF NewsIInv, NewsTypeOK, Published, Posts
    <2> QED
      BY <1>1, <1>2, <2>1 DEF NewsIInv, NewsTypeOK, Posts
  <1>4. OnePlace'
    BY <1>1, <1>2 DEF NewsIInv, OnePlace, NewsTypeOK, Posts, NoRound
  <1>5. Recent'
    BY <1>1, <1>2 DEF NewsIInv, Recent, NewsTypeOK, Published
  <1> QED
    BY <1>3, <1>4, <1>5 DEF NewsIInv

LEMMA StoresIInv == NewsIInv /\ Stores => NewsIInv'
  <1> SUFFICES ASSUME NewsIInv, Stores PROVE NewsIInv'
    OBVIOUS
  <1> USE WeiboNewsAssumption
  <1>1. /\ phase = "store" /\ phase' = "idle" /\ news' = NoRound
        /\ \/ newsTs' = <<news.ts>> /\ onWay' = onWay \cup news.cards /\ faults' = faults
              /\ lost' = lost
           \/ newsTs' = newsTs /\ onWay' = onWay /\ faults' \in 0..MaxFaults
              /\ lost' = lost \cup news.cards
    BY DEF NewsIInv, NewsTypeOK, Stores, Fault
  <1>2. /\ UNCHANGED <<now, posts, startTs, watchers, marked, page, adding, removing, told>>
        /\ UNCHANGED <<since, wiped, firstWatch>>
    BY DEF Stores, newsWorldVars, roundVars, commandVars, historyVars
  <1>3. NewsTypeOK'
    <2>1. news.ts \in 1..MaxTime /\ news.cards \subseteq marked
      BY <1>1 DEF NewsIInv, NewsTypeOK, Recent
    <2>2. news' \in [ts : 0..MaxTime, cards : SUBSET marked]
      BY <1>1 DEF NoRound
    <2>3. newsTs' \in {<<>>} \cup {<<t>> : t \in 1..MaxTime}
      BY <1>1, <2>1 DEF NewsIInv, NewsTypeOK
    <2> QED
      BY <1>1, <1>2, <2>1, <2>2, <2>3 DEF NewsIInv, NewsTypeOK, Posts
  <1>4. OnePlace'
    BY <1>1, <1>2 DEF NewsIInv, OnePlace, NewsTypeOK, Posts, NoRound
  <1>5. Recent'
    <2>1. news'.cards = {}
      BY <1>1 DEF NoRound
    <2>2. newsTs' # <<>> => firstWatch <= newsTs'[1]
      BY <1>1 DEF NewsIInv, Recent
    <2> QED
      BY <1>1, <1>2, <2>1, <2>2 DEF NewsIInv, Recent, NewsTypeOK, Published
  <1> QED
    BY <1>3, <1>4, <1>5 DEF NewsIInv

LEMMA DispatchesIInv == NewsIInv /\ Dispatches => NewsIInv'
  <1> SUFFICES ASSUME NewsIInv, Dispatches PROVE NewsIInv'
    OBVIOUS
  <1> USE WeiboNewsAssumption
  <1>1. /\ onWay' = {}
        /\ told' = [g \in WeiboGroups |-> [p \in Posts |->
              IF g \in watchers /\ p \in onWay THEN told[g][p] + 1 ELSE told[g][p]]]
    BY DEF NewsIInv, NewsTypeOK, Dispatches
  <1>2. /\ UNCHANGED <<now, posts, faults, startTs, watchers, newsTs, marked, phase, page>>
        /\ UNCHANGED <<news, adding, removing, since, wiped, firstWatch, lost>>
    BY DEF Dispatches, newsWorldVars, roundVars, commandVars, historyVars
  <1>3. NewsTypeOK'
    <2>1. \A g \in WeiboGroups, p \in Posts : p \in onWay => told[g][p] = 0
      BY DEF NewsIInv, OnePlace
    <2>2. told \in [WeiboGroups -> [Posts -> 0..2]]
      BY DEF NewsIInv, NewsTypeOK
    <2>3. told' \in [WeiboGroups -> [Posts -> 0..2]]
      BY <1>1, <2>1, <2>2
    <2> QED
      BY <1>1, <1>2, <2>3 DEF NewsIInv, NewsTypeOK, Posts
  <1>4. OnePlace'
    <2>1. ASSUME NEW g \in WeiboGroups, NEW p \in Posts, told'[g][p] # 0
          PROVE  told'[g][p] = 1 /\ p \in marked' \ (news'.cards \cup onWay')
      <3>1. told'[g][p] = IF g \in watchers /\ p \in onWay THEN told[g][p] + 1
                          ELSE told[g][p]
        BY <1>1
      <3>2. CASE g \in watchers /\ p \in onWay
        <4>1. told[g][p] = 0 /\ p \in marked /\ p \notin news.cards
          BY <3>2 DEF NewsIInv, OnePlace, NewsTypeOK
        <4> QED
          BY <1>1, <1>2, <3>1, <3>2, <4>1
      <3>3. CASE ~(g \in watchers /\ p \in onWay)
        <4>1. told[g][p] # 0
          BY <2>1, <3>1, <3>3
        <4> QED
          BY <1>1, <1>2, <3>1, <3>3, <4>1 DEF NewsIInv, OnePlace
      <3> QED
        BY <3>2, <3>3
    <2> QED
      BY <1>1, <1>2, <2>1 DEF NewsIInv, OnePlace, NoRound
  <1>5. Recent'
    BY <1>1, <1>2 DEF NewsIInv, Recent, NewsTypeOK, Published
  <1> QED
    BY <1>3, <1>4, <1>5 DEF NewsIInv

LEMMA AddChecksIInv ==
  ASSUME NEW g \in WeiboGroups, NewsIInv, AddChecks(g)
  PROVE  NewsIInv'
  <1> USE WeiboNewsAssumption
  <1>1. adding' \in [WeiboGroups -> {"no", "stamp", "insert"}]
    BY DEF NewsIInv, NewsTypeOK, AddChecks
  <1>2. /\ UNCHANGED <<now, posts, faults, startTs, watchers, newsTs, marked, phase, page>>
        /\ UNCHANGED <<news, onWay, removing, told, since, wiped, firstWatch, lost>>
    BY DEF AddChecks, newsWorldVars, roundVars, commandVars, historyVars
  <1>3. NewsTypeOK'
    BY <1>1, <1>2 DEF NewsIInv, NewsTypeOK, Posts
  <1>4. OnePlace'
    BY <1>1, <1>2 DEF NewsIInv, OnePlace, NewsTypeOK, Posts, NoRound
  <1>5. Recent'
    BY <1>1, <1>2 DEF NewsIInv, Recent, NewsTypeOK, Published
  <1> QED
    BY <1>3, <1>4, <1>5 DEF NewsIInv

LEMMA AddStampsIInv ==
  ASSUME NEW g \in WeiboGroups, NewsIInv, AddStamps(g)
  PROVE  NewsIInv'
  <1> USE WeiboNewsAssumption
  <1>1. /\ adding' \in [WeiboGroups -> {"no", "stamp", "insert"}] /\ faults' \in 0..MaxFaults
        /\ lost' \subseteq lost \cup Published
        /\ \/ /\ newsTs' = <<now>>
              /\ firstWatch' =
                    IF watchers = {} /\ phase = "idle" /\ onWay = {} THEN now ELSE firstWatch
           \/ newsTs' = newsTs /\ firstWatch' = firstWatch
    <2>1. adding' \in [WeiboGroups -> {"no", "stamp", "insert"}]
      BY DEF NewsIInv, NewsTypeOK, AddStamps
    <2>2. faults' \in 0..MaxFaults
      BY DEF NewsIInv, NewsTypeOK, AddStamps, Fault
    <2>3. Missed(now) \subseteq Published
      BY DEF Missed
    <2>4. lost' \in {lost, lost \cup Missed(now)}
      BY Zenon DEF AddStamps
    <2>5. lost' \subseteq lost \cup Published
      BY <2>3, <2>4
    <2>6. \/ /\ newsTs' = <<now>>
             /\ firstWatch' =
                   IF watchers = {} /\ phase = "idle" /\ onWay = {} THEN now ELSE firstWatch
          \/ newsTs' = newsTs /\ firstWatch' = firstWatch
      BY Zenon DEF AddStamps
    <2> QED
      BY <2>1, <2>2, <2>5, <2>6
  <1>2. /\ UNCHANGED <<now, posts, startTs, watchers, marked, phase, page, news, onWay>>
        /\ UNCHANGED <<removing, told, since>>
    BY DEF AddStamps, newsWorldVars, roundVars, commandVars, historyVars
  <1>3. NewsTypeOK'
    <2>1. Published \subseteq Posts
      BY DEF NewsIInv, NewsTypeOK, Published, Posts
    <2>2. lost' \subseteq Posts
      BY <1>1, <2>1 DEF NewsIInv, NewsTypeOK
    <2>3. newsTs' \in {<<>>} \cup {<<t>> : t \in 1..MaxTime} /\ firstWatch' \in 0..MaxTime
      BY <1>1 DEF NewsIInv, NewsTypeOK
    <2>4. wiped' \in BOOLEAN
      BY Zenon DEF NewsIInv, NewsTypeOK, AddStamps
    <2> QED
      BY <1>1, <1>2, <2>2, <2>3, <2>4 DEF NewsIInv, NewsTypeOK, Posts
  <1>4. OnePlace'
    BY <1>1, <1>2 DEF NewsIInv, OnePlace, NewsTypeOK, Posts, NoRound
  <1>5. Recent'
    <2>1. CASE firstWatch' = firstWatch
      <3>1. newsTs' # <<>> => firstWatch' <= newsTs'[1]
        BY <1>1, <2>1 DEF NewsIInv, Recent
      <3> QED
        BY <1>2, <2>1, <3>1 DEF NewsIInv, Recent, Published
    <2>2. CASE /\ phase = "idle" /\ onWay = {}
               /\ firstWatch' = now /\ newsTs' = <<now>>
      <3>1. news.cards = {}
        BY <2>2 DEF NewsIInv, OnePlace, NoRound
      <3>2. now \in Nat
        BY DEF NewsIInv, NewsTypeOK
      <3> QED
        BY <1>2, <2>2, <3>1, <3>2 DEF NewsIInv, Recent, Published
    <2> QED
      BY <1>1, <2>1, <2>2
  <1> QED
    BY <1>3, <1>4, <1>5 DEF NewsIInv

LEMMA AddInsertsIInv ==
  ASSUME NEW g \in WeiboGroups, NewsIInv, AddInserts(g)
  PROVE  NewsIInv'
  <1> USE WeiboNewsAssumption
  <1>1. /\ adding' \in [WeiboGroups -> {"no", "stamp", "insert"}]
        /\ watchers' \subseteq WeiboGroups /\ since' \in [WeiboGroups -> 0..MaxPosts]
    BY DEF NewsIInv, NewsTypeOK, AddInserts
  <1>2. /\ UNCHANGED <<now, posts, faults, startTs, newsTs, marked, phase, page, news>>
        /\ UNCHANGED <<onWay, removing, told, wiped, firstWatch, lost>>
    BY DEF AddInserts, newsWorldVars, roundVars, commandVars, historyVars
  <1>3. NewsTypeOK'
    BY <1>1, <1>2 DEF NewsIInv, NewsTypeOK, Posts
  <1>4. OnePlace'
    BY <1>1, <1>2 DEF NewsIInv, OnePlace, NewsTypeOK, Posts, NoRound
  <1>5. Recent'
    BY <1>1, <1>2 DEF NewsIInv, Recent, NewsTypeOK, Published
  <1> QED
    BY <1>3, <1>4, <1>5 DEF NewsIInv

LEMMA RemoveBeginsIInv ==
  ASSUME NEW g \in WeiboGroups, NewsIInv, RemoveBegins(g)
  PROVE  NewsIInv'
  <1> USE WeiboNewsAssumption
  <1>1. /\ faults' \in 0..MaxFaults /\ removing' \subseteq WeiboGroups
        /\ watchers' \subseteq WeiboGroups /\ since' \in [WeiboGroups -> 0..MaxPosts]
    BY DEF NewsIInv, NewsTypeOK, RemoveBegins, Fault
  <1>2. /\ UNCHANGED <<now, posts, startTs, newsTs, marked, phase, page, news, onWay>>
        /\ UNCHANGED <<adding, told, wiped, firstWatch, lost>>
    BY DEF RemoveBegins, newsWorldVars, roundVars, commandVars, historyVars
  <1>3. NewsTypeOK'
    BY <1>1, <1>2 DEF NewsIInv, NewsTypeOK, Posts
  <1>4. OnePlace'
    BY <1>1, <1>2 DEF NewsIInv, OnePlace, NewsTypeOK, Posts, NoRound
  <1>5. Recent'
    BY <1>1, <1>2 DEF NewsIInv, Recent, NewsTypeOK, Published
  <1> QED
    BY <1>3, <1>4, <1>5 DEF NewsIInv

LEMMA RemoveDeletesIInv ==
  ASSUME NEW g \in WeiboGroups, NewsIInv, RemoveDeletes(g)
  PROVE  NewsIInv'
  <1> USE WeiboNewsAssumption
  <1>1. newsTs' = <<>> /\ removing' \subseteq WeiboGroups /\ wiped' \in BOOLEAN
    BY DEF NewsIInv, NewsTypeOK, RemoveDeletes
  <1>2. /\ UNCHANGED <<now, posts, faults, startTs, watchers, marked, phase, page, news>>
        /\ UNCHANGED <<onWay, adding, told, since, firstWatch, lost>>
    BY DEF RemoveDeletes, newsWorldVars, roundVars, commandVars, historyVars
  <1>3. NewsTypeOK'
    BY <1>1, <1>2 DEF NewsIInv, NewsTypeOK, Posts
  <1>4. OnePlace'
    BY <1>1, <1>2 DEF NewsIInv, OnePlace, NewsTypeOK, Posts, NoRound
  <1>5. Recent'
    BY <1>1, <1>2 DEF NewsIInv, Recent, NewsTypeOK, Published
  <1> QED
    BY <1>3, <1>4, <1>5 DEF NewsIInv

-----------------------------------------------------------------------------
(* The filter of a round: what passes was not marked, and is not older than LastTs *)

LEMMA FiltersIInv == NewsIInv /\ Filters => NewsIInv'
  <1> SUFFICES ASSUME NewsIInv, Filters PROVE NewsIInv'
    OBVIOUS
  <1> USE WeiboNewsAssumption
  <1>1. phase = "filter" /\ phase' = "store" /\ page' = {} /\ news.cards = {}
    BY DEF Filters, NewsIInv, OnePlace, NoRound
  <1>2. /\ UNCHANGED <<now, posts, startTs, watchers, newsTs, onWay, adding, removing>>
        /\ UNCHANGED <<told, since, wiped, firstWatch>>
    BY DEF Filters, newsWorldVars, commandVars
  <1>3. faults' \in 0..MaxFaults
    BY DEF Filters, Fault, NewsIInv, NewsTypeOK
  <1>4. PICK unmarked \in {{}} \cup {{p} : p \in page} :
          LET seen == page \ unmarked
              new  == {p \in seen \ marked : IsNew(p)}
              ts   == Max({LastTs} \cup {posts[p] : p \in new})
          IN  /\ IF unmarked = {} THEN UNCHANGED faults ELSE Fault
              /\ marked' = marked \cup seen
              /\ news' = [ts |-> ts, cards |-> new]
              /\ lost' = lost \cup {p \in unmarked : posts[p] < ts}
                     \cup {p \in seen : posts[p] < startTs}
                     \cup (IF newsTs = <<>> /\ wiped THEN Missed(now) ELSE {})
    BY Zenon DEF Filters
  <1> DEFINE cards == {p \in (page \ unmarked) \ marked : IsNew(p)}
             times == {LastTs} \cup {posts[p] : p \in cards}
  <1>5. /\ marked' = marked \cup (page \ unmarked)
        /\ news' = [ts |-> Max(times), cards |-> cards]
        /\ unmarked \subseteq page
    BY <1>4
  <1>6. cards \subseteq page /\ cards \cap marked = {} /\ cards \subseteq marked'
    BY <1>5
  <1>7. \A p \in Published : posts[p] \in 1..MaxTime
    BY DEF NewsIInv, NewsTypeOK, Published
  <1>8. LastTs \in 1..MaxTime /\ firstWatch <= LastTs
    BY DEF LastTs, NewsIInv, NewsTypeOK, Recent
  <1>9. \A p \in cards : p \in Published /\ LastTs <= posts[p]
    BY <1>7, <1>8 DEF IsNew, NewsIInv, Recent
  <1> HIDE DEF cards
  <1>10. times \subseteq 0..MaxTime /\ LastTs \in times /\ times # {}
    BY <1>7, <1>8, <1>9
  <1> HIDE DEF times
  <1>11. Max(times) \in 0..MaxTime /\ LastTs <= Max(times)
    BY <1>10, Largest
  <1>12. NewsTypeOK'
    <2>1. marked \subseteq Posts /\ page \subseteq Posts /\ lost \subseteq Posts
      BY DEF NewsIInv, NewsTypeOK
    <2>2. Published \subseteq Posts
      BY DEF NewsIInv, NewsTypeOK, Published, Posts
    <2>3. Missed(now) \subseteq Posts
      BY <2>2 DEF Missed
    <2>4. lost' \subseteq Posts
      BY <1>4, <1>5, <2>1, <2>3
    <2>5. marked' \subseteq Posts /\ onWay' \subseteq marked'
      BY <1>2, <1>5, <2>1 DEF NewsIInv, NewsTypeOK
    <2>6. news' \in [ts : 0..MaxTime, cards : SUBSET marked']
      BY <1>5, <1>6, <1>11
    <2> QED
      BY <1>1, <1>2, <1>3, <2>4, <2>5, <2>6 DEF NewsIInv, NewsTypeOK, Posts
  <1>13. OnePlace'
    <2>1. cards \cap onWay = {}
      BY <1>6 DEF NewsIInv, NewsTypeOK
    <2>2. ASSUME NEW g \in WeiboGroups, NEW p \in Posts, told[g][p] # 0
          PROVE  told[g][p] = 1 /\ p \in marked' \ (cards \cup onWay)
      <3>1. told[g][p] = 1 /\ p \in marked /\ p \notin onWay
        BY <2>2 DEF NewsIInv, OnePlace
      <3> QED
        BY <1>5, <1>6, <3>1
    <2> QED
      BY <1>1, <1>2, <1>5, <2>1, <2>2 DEF OnePlace
  <1>14. Recent'
    <2>1. page' \subseteq Published' /\ marked' \subseteq Published' /\ firstWatch' <= now'
      BY <1>1, <1>2, <1>5 DEF NewsIInv, Recent, Published
    <2>2. firstWatch' <= news'.ts /\ 0 < news'.ts
      BY <1>2, <1>5, <1>8, <1>11 DEF NewsIInv, NewsTypeOK
    <2>3. \A p \in cards : firstWatch <= posts[p]
      BY <1>7, <1>8, <1>9 DEF NewsIInv, NewsTypeOK
    <2>4. \A p \in news'.cards \cup onWay' : firstWatch' <= posts'[p]
      BY <1>2, <1>5, <2>3 DEF NewsIInv, Recent
    <2> QED
      BY <1>2, <2>1, <2>2, <2>4 DEF NewsIInv, Recent
  <1> QED
    BY <1>12, <1>13, <1>14 DEF NewsIInv

-----------------------------------------------------------------------------
(* The theorems *)

LEMMA NewsStepIInv == NewsIInv /\ [NewsNext]_newsVars => NewsIInv'
  <1> SUFFICES ASSUME NewsIInv, [NewsNext]_newsVars PROVE NewsIInv'
    OBVIOUS
  <1>1. CASE UNCHANGED newsVars
    <2>1. /\ UNCHANGED <<now, posts, faults, startTs, watchers, newsTs, marked, phase, page>>
          /\ UNCHANGED <<news, onWay, adding, removing, told, since, wiped, firstWatch, lost>>
      BY <1>1 DEF newsVars, newsWorldVars, roundVars, commandVars, historyVars
    <2> QED
      BY <2>1 DEF NewsIInv, NewsTypeOK, OnePlace, Recent, Posts, Published, NoRound
  <1>2. CASE Passes
    BY <1>2, PassesIInv
  <1>3. CASE Publishes
    BY <1>3, PublishesIInv
  <1>4. CASE ComesOnline
    BY <1>4, ComesOnlineIInv
  <1>5. CASE Restarts
    BY <1>5, RestartsIInv
  <1>6. CASE Fetches
    BY <1>6, FetchesIInv
  <1>7. CASE Filters
    BY <1>7, FiltersIInv
  <1>8. CASE Stores
    BY <1>8, StoresIInv
  <1>9. CASE Dispatches
    BY <1>9, DispatchesIInv
  <1>10. ASSUME NEW g \in WeiboGroups, AddChecks(g) PROVE NewsIInv'
    BY <1>10, AddChecksIInv
  <1>11. ASSUME NEW g \in WeiboGroups, AddStamps(g) PROVE NewsIInv'
    BY <1>11, AddStampsIInv
  <1>12. ASSUME NEW g \in WeiboGroups, AddInserts(g) PROVE NewsIInv'
    BY <1>12, AddInsertsIInv
  <1>13. ASSUME NEW g \in WeiboGroups, RemoveBegins(g) PROVE NewsIInv'
    BY <1>13, RemoveBeginsIInv
  <1>14. ASSUME NEW g \in WeiboGroups, RemoveDeletes(g) PROVE NewsIInv'
    BY <1>14, RemoveDeletesIInv
  <1> QED
    BY <1>1, <1>2, <1>3, <1>4, <1>5, <1>6, <1>7, <1>8, <1>9, <1>10, <1>11, <1>12, <1>13,
       <1>14 DEF NewsNext, Round, Command

\* A post is in one place, and nothing on its way is older than the second in which the
\* first group came to watch, in every reachable state.
THEOREM NewsInductive == NewsSpec => []NewsIInv
  BY NewsInitIInv, NewsStepIInv, PTL DEF NewsSpec

\* Every variable stays in its range, whatever the bounds are: the round's time is one of
\* the times of the posts, or the time it was judged by.
THEOREM NewsTypeCorrect == NewsSpec => []NewsTypeOK
  <1>1. NewsIInv => NewsTypeOK
    BY DEF NewsIInv
  <1> QED
    BY <1>1, NewsInductive, PTL

\* No group is told of a post twice, for any number of groups, posts and failures, and
\* restarts and commands between any two steps of a round: filterCard marks a post before
\* it judges it, and no cards hold a marked one.
THEOREM ToldOnce == NewsSpec => []NewsOnce
  <1>1. NewsIInv => NewsOnce
    BY DEF NewsIInv, OnePlace, NewsTypeOK, NewsOnce
  <1> QED
    BY <1>1, NewsInductive, PTL

\* Nobody is told of a post that is older than the second in which the first group came to
\* watch, whenever NewsInfo is deleted, stamped again and moved on.
THEOREM ToldOfNewPosts == NewsSpec => OnlyNewPosts
  <1>1. ASSUME NewsIInv, [NewsNext]_newsVars
        PROVE  [\A g \in WeiboGroups, p \in Posts :
                   told'[g][p] > told[g][p] => posts[p] >= firstWatch]_newsVars
    <2> SUFFICES ASSUME NEW g \in WeiboGroups, NEW p \in Posts, told'[g][p] > told[g][p]
                 PROVE  posts[p] >= firstWatch
      OBVIOUS
    <2>1. told[g][p] \in 0..2
      BY <1>1 DEF NewsIInv, NewsTypeOK
    <2>2. told' # told
      BY <2>1
    <2>3. Dispatches
      BY <1>1, <2>2, Zenon
         DEF NewsNext, Round, Command, Passes, Publishes, ComesOnline, Restarts, Fetches,
             Filters, Stores, AddChecks, AddStamps, AddInserts, RemoveBegins,
             RemoveDeletes, newsVars, historyVars
    <2>4. p \in onWay
      BY <2>1, <2>3 DEF Dispatches
    <2> QED
      BY <1>1, <2>4 DEF NewsIInv, NewsTypeOK, Recent
  <1> QED
    BY <1>1, NewsInductive, PTL DEF NewsSpec, OnlyNewPosts

-----------------------------------------------------------------------------
(* ListLoading *)

\* What a loader without an error has loaded by the step it is at.
SoFar(p) ==
    ~err[p] => /\ pc[p] = "groups" => friendList
               /\ pc[p] = "members" => friendList /\ listed /\ filled = Groups \ todo[p]
               /\ pc[p] = "end" => Whole

\* Up to the second lifecycle event one loader runs at a time, and until it ends nothing
\* has been loaded before.
FirstLoad ==
    lifecycles <= 1 =>
      /\ lifecycles = 0 => ~loaded /\ \A p \in Loaders : pc[p] = "idle"
      /\ \A p, q \in Loaders : pc[p] # "idle" /\ pc[q] # "idle" => p = q
      /\ \A p \in Loaders : pc[p] \notin {"idle", "exit"} => ~loaded
      /\ \A p \in Loaders : SoFar(p)
      /\ loaded => Whole

ListIInv == TypeOK /\ FirstLoad

\* What is true before anything is loaded.
LEMMA ListInitIInv == Init => ListIInv
<1> SUFFICES ASSUME Init PROVE ListIInv
    OBVIOUS
<1> USE ListLoadingAssumption DEF Init
<1>1. TypeOK
    <2>1. /\ pc \in [Loaders -> {"idle"}]
          /\ round \in [Retriers -> 0..MaxRetries]
          /\ lifecycles \in 0..MaxLifecycles
        OBVIOUS
    <2> QED BY <2>1 DEF TypeOK, Loaders
<1>2. FirstLoad
    BY DEF FirstLoad, SoFar
<1> QED BY <1>1, <1>2 DEF ListIInv

\* The types alone, for any number of loaders at once.
LEMMA ListTypeStep == TypeOK /\ [Next]_vars => TypeOK'
<1> SUFFICES ASSUME TypeOK, [Next]_vars PROVE TypeOK'
    OBVIOUS
<1> USE ListLoadingAssumption DEF TypeOK, Loaders, listVars, Goto
<1>1. ASSUME NEW p \in Refreshers, Lifecycle(p) PROVE TypeOK'
    BY <1>1 DEF Lifecycle
<1>2. ASSUME NEW p \in Loaders, Reload(p) PROVE TypeOK'
    <2>1. CASE LoadFriends(p) BY <2>1 DEF LoadFriends
    <2>2. CASE LoadGroups(p) BY <2>2 DEF LoadGroups
    <2>3. CASE LoadMembers(p) BY <2>3 DEF LoadMembers
    <2>4. CASE LoadEnds(p) BY <2>4 DEF LoadEnds
    <2> QED BY <1>2, <2>1, <2>2, <2>3, <2>4 DEF Reload
<1>3. ASSUME NEW p \in Refreshers, RefreshSucceeds(p) PROVE TypeOK'
    BY <1>3 DEF RefreshSucceeds
<1>4. ASSUME NEW p \in Refreshers, RefreshFails(p) PROVE TypeOK'
    <2>1. CASE \E t \in Retriers : StartRetry(p, t)
        <3> PICK t \in Retriers : StartRetry(p, t)
            BY <2>1
        <3> p # t /\ \A u \in Retriers : pc[u] = "idle"
            BY <1>4 DEF RefreshFails, StartRetry
        <3>1. pc' = [pc EXCEPT ![p] = "idle", ![t] = "sleep"] /\ active' = TRUE
              /\ round' = [round EXCEPT ![t] = 1] /\ failing' = TRUE /\ gaveUp' = FALSE
              /\ UNCHANGED <<api, lifecycles, listVars, err, todo, loaded, started>>
            BY <1>4 DEF RefreshFails, StartRetry
        <3>2. pc' \in [Loaders -> {"idle", "sleep", "friends", "groups", "members", "end", "exit"}]
            BY <3>1
        <3>3. round' \in [Retriers -> 0..MaxRetries]
            BY <3>1
        <3>4. \A u \in Retriers : pc'[u] = IF u = t THEN "sleep" ELSE "idle"
            BY <3>1
        <3> HIDE DEF Goto
        <3> QED BY <3>1, <3>2, <3>3, <3>4
    <2>2. CASE active /\ Goto(p, "idle") /\ UNCHANGED <<active, gaveUp, round>>
        BY <1>4, <2>2 DEF RefreshFails
    <2> QED BY <1>4, <2>1, <2>2 DEF RefreshFails
<1>5. ASSUME NEW t \in Retriers, RetryWakes(t) PROVE TypeOK'
    BY <1>5 DEF RetryWakes
<1>6. ASSUME NEW t \in Retriers, RetryResult(t) PROVE TypeOK'
    <2>1. round[t] \in 0..MaxRetries /\ round' \in [Retriers -> 0..MaxRetries]
        BY <1>6 DEF RetryResult
    <2>2. \E l \in {"exit", "sleep"} : pc' = [pc EXCEPT ![t] = l]
        BY <1>6 DEF RetryResult
    <2>3. {api', friendList', listed', active', loaded', started', failing', gaveUp'} \subseteq BOOLEAN
        BY <1>6 DEF RetryResult
    <2> QED BY <1>6, <2>1, <2>2, <2>3 DEF RetryResult
<1>7. ASSUME NEW t \in Retriers, RetryExits(t) PROVE TypeOK'
    BY <1>7 DEF RetryExits
<1>8. CASE StartSubscriptions BY <1>8 DEF StartSubscriptions
<1>9. CASE ApiChanges BY <1>9 DEF ApiChanges
<1>10. CASE UNCHANGED vars BY <1>10 DEF vars
<1> QED BY <1>1, <1>2, <1>3, <1>4, <1>5, <1>6, <1>7, <1>8, <1>9, <1>10
        DEF Next, Refresher, Retrier

\* The first lifecycle event keeps one loader at a time; a second one ends what is claimed.
LEMMA ListStepIInv == ListIInv /\ [Next]_vars => ListIInv'
<1> SUFFICES ASSUME TypeOK, TypeOK', FirstLoad, [Next]_vars, lifecycles' <= 1 PROVE FirstLoad'
    BY ListTypeStep DEF ListIInv, FirstLoad
<1> USE ListLoadingAssumption DEF TypeOK, Loaders, listVars, Goto, FirstLoad, SoFar, Whole
<1>1. ASSUME NEW p \in Refreshers, Lifecycle(p) PROVE FirstLoad'
    <2>1. lifecycles = 0 BY <1>1 DEF Lifecycle
    <2> QED BY <1>1, <2>1 DEF Lifecycle
<1>2. ASSUME NEW p \in Loaders, Reload(p) PROVE FirstLoad'
    <2>0. lifecycles' = lifecycles /\ lifecycles = 1 /\ ~loaded /\ loaded' = loaded
          /\ \A q \in Loaders : q # p => pc[q] = "idle" /\ pc'[q] = "idle"
        BY <1>2 DEF Reload, LoadFriends, LoadGroups, LoadMembers, LoadEnds
    <2>1. CASE LoadFriends(p)
        <3> err'[p] = ~api /\ pc'[p] = "groups" /\ (api => friendList') /\ {api, friendList'} \subseteq BOOLEAN
            BY <2>1 DEF LoadFriends
        <3> SoFar(p)'
            OBVIOUS
        <3> QED BY <2>0, <2>1 DEF LoadFriends
    <2>2. CASE LoadGroups(p) BY <2>0, <2>2 DEF LoadGroups
    <2>3. CASE LoadMembers(p) BY <2>0, <2>3 DEF LoadMembers
    <2>4. CASE LoadEnds(p) BY <2>0, <2>4 DEF LoadEnds
    <2> QED BY <1>2, <2>1, <2>2, <2>3, <2>4 DEF Reload
<1>3. ASSUME NEW p \in Refreshers, RefreshSucceeds(p) PROVE FirstLoad'
    BY <1>3 DEF RefreshSucceeds
<1>4. ASSUME NEW p \in Refreshers, RefreshFails(p) PROVE FirstLoad'
    <2>1. CASE \E t \in Retriers : StartRetry(p, t)
        BY <1>4, <2>1 DEF RefreshFails, StartRetry
    <2>2. CASE active /\ Goto(p, "idle") /\ UNCHANGED <<active, gaveUp, round>>
        BY <1>4, <2>2 DEF RefreshFails
    <2> QED BY <1>4, <2>1, <2>2 DEF RefreshFails
<1>5. ASSUME NEW t \in Retriers, RetryWakes(t) PROVE FirstLoad'
    BY <1>5 DEF RetryWakes
<1>6. ASSUME NEW t \in Retriers, RetryResult(t) PROVE FirstLoad'
    BY <1>6 DEF RetryResult
<1>7. ASSUME NEW t \in Retriers, RetryExits(t) PROVE FirstLoad'
    BY <1>7 DEF RetryExits
<1>8. CASE StartSubscriptions BY <1>8 DEF StartSubscriptions
<1>9. CASE ApiChanges BY <1>9 DEF ApiChanges
<1>10. CASE UNCHANGED vars BY <1>10 DEF vars
<1> QED BY <1>1, <1>2, <1>3, <1>4, <1>5, <1>6, <1>7, <1>8, <1>9, <1>10
        DEF Next, Refresher, Retrier

\* The inductive invariant of ListLoading: the types, and what the first lifecycle event
\* has loaded at each of its steps, for any number of goroutines, retries and groups.
THEOREM ListInductive == Spec => []ListIInv
<1> QED BY ListInitIInv, ListStepIInv, PTL DEF Spec

\* Every variable of ListLoading stays in its range: the retry flag is set exactly while
\* a retry goroutine runs, of which there is one at most.
THEOREM ListsTypeCorrect == Spec => []TypeOK
<1>1. ListIInv => TypeOK BY DEF ListIInv
<1> QED BY ListInductive, <1>1, PTL

\* If nothing but the first lifecycle event has loaded the lists when the subscriptions are
\* started, the lists are whole: friends, groups and the members of every group.
THEOREM StartsOnWholeLists == Spec => StartsWhole
<1>1. ListIInv /\ [Next]_vars => [started' /\ ~started /\ lifecycles = 1 => Whole]_vars
    <2> SUFFICES ASSUME ListIInv, [Next]_vars, started', ~started, lifecycles = 1 PROVE Whole
        OBVIOUS
    <2>1. loaded
        BY DEF ListIInv, TypeOK, Next, vars, Lifecycle, Refresher, Retrier, Reload, LoadFriends, LoadGroups,
               LoadMembers, LoadEnds, RefreshSucceeds, RefreshFails, RetryWakes, RetryResult, RetryExits,
               StartSubscriptions, ApiChanges
    <2> QED BY <2>1 DEF ListIInv, FirstLoad
<1> QED BY ListInductive, <1>1, PTL DEF Spec, StartsWhole

-----------------------------------------------------------------------------
(* WeiboLogin *)

LEMMA LoginInitTypeOK == LoginInit => LoginTypeOK
  <1> SUFFICES ASSUME LoginInit PROVE LoginTypeOK
    OBVIOUS
  <1> USE WeiboLoginAssumption
  <1>1. Idle \in States({"idle", "fetch"}) /\ Idle \in States({"idle", "store", "set"})
        /\ Idle \in States({"idle", "lock", "fetch", "retry"}) /\ Idle.at = "idle"
    BY DEF Idle, States, Subs
  <1>2. /\ config \in {0, 1} /\ issued \in 1..MaxSubs /\ failures \in 0..MaxFailures
        /\ runtimeSUB \in Subs /\ inUse \in Subs
    BY DEF LoginInit, Subs
  <1>4. healthy \in BOOLEAN
    BY Zenon DEF LoginInit
  <1>3. /\ hourly = Idle /\ force = Idle /\ session = Idle /\ refresh = Idle /\ qr = Idle
        /\ refreshMu = "free"
    BY DEF LoginInit
  <1> QED
    BY <1>1, <1>2, <1>3, <1>4 DEF LoginTypeOK

LEMMA LoginStepTypeOK == LoginTypeOK /\ [LoginNext]_loginVars => LoginTypeOK'
  <1> SUFFICES ASSUME LoginTypeOK, [LoginNext]_loginVars PROVE LoginTypeOK'
    OBVIOUS
  <1> USE WeiboLoginAssumption DEF LoginTypeOK, States, Subs, Idle, At, Fails, goroutines, FirstSet
  <1>1. CASE Starts BY <1>1 DEF Starts
  <1>2. CASE HourlyReads BY <1>2 DEF HourlyReads
  <1>3. CASE HourlyStores BY <1>3 DEF HourlyStores
  <1>4. CASE ForceLocks BY <1>4 DEF ForceLocks
  <1>5. CASE ForceStores 
    <2>1. force.sub \in Subs /\ session.at # "fetch"
      BY <1>5 DEF ForceStores
    <2>2. CASE inUse' = force.sub /\ healthy' = TRUE /\ UNCHANGED failures
      BY <1>5, <2>1, <2>2 DEF ForceStores
    <2>3. CASE Fails /\ healthy' = FALSE /\ UNCHANGED inUse
      <3>1. failures' \in 0..MaxFailures
        BY <2>3
      <3>3. healthy' \in BOOLEAN
        BY <2>3, Zenon
      <3>4. inUse' = inUse
        BY <2>3, Zenon
      <3>2. force' = [at |-> "idle", sub |-> 0] /\ refreshMu' = "free"
            /\ UNCHANGED <<config, issued, runtimeSUB, hourly, session, refresh, qr>>
        BY <1>5 DEF ForceStores
      <3> QED
        BY <2>1, <3>1, <3>2, <3>3, <3>4
    <2> QED
      BY <1>5, <2>2, <2>3 DEF ForceStores
  <1>6. CASE SessionLocks 
    <2> DEFINE sub == FirstSet(inUse, config)
    <2>1. sub \in Subs /\ force.at # "fetch" /\ session.at = "lock"
      BY <1>6 DEF SessionLocks
    <2>2. CASE sub = 0
      <3>1. session' = [at |-> "idle", sub |-> 0] /\ healthy' = FALSE /\ UNCHANGED refreshMu
            /\ UNCHANGED <<config, issued, failures, runtimeSUB, inUse, hourly, force, refresh, qr>>
        BY <1>6, <2>2 DEF SessionLocks
      <3>2. session' \in States({"idle", "lock", "fetch", "retry"})' /\ session'.at = "idle"
        BY <3>1
      <3> QED
        BY <2>1, <3>1, <3>2
    <2>3. CASE sub # 0
      BY <1>6, <2>1, <2>3 DEF SessionLocks
    <2> QED
      BY <2>2, <2>3
  <1>7. CASE SessionStores 
    <2>1. session.sub \in Subs /\ force.at # "fetch"
      BY <1>7 DEF SessionStores
    <2>2. CASE inUse' = session.sub /\ session' = At("retry", 0) /\ UNCHANGED <<failures, healthy>>
      BY <1>7, <2>1, <2>2 DEF SessionStores
    <2>3. CASE Fails /\ session' = Idle /\ healthy' = FALSE /\ UNCHANGED inUse
      <3>1. failures' \in 0..MaxFailures
        BY <2>3
      <3>3. healthy' \in BOOLEAN
        BY <2>3, Zenon
      <3>4. inUse' = inUse
        BY <2>3, Zenon
      <3>2. session' = [at |-> "idle", sub |-> 0] /\ refreshMu' = "free"
            /\ UNCHANGED <<config, issued, runtimeSUB, hourly, force, refresh, qr>>
        BY <1>7, <2>3 DEF SessionStores
      <3> QED
        BY <2>1, <3>1, <3>2, <3>3, <3>4
    <2> QED
      BY <1>7, <2>2, <2>3 DEF SessionStores
  <1>8. CASE SessionRetries 
    <2>1. session' = [at |-> "idle", sub |-> 0] /\ session.at = "retry" /\ healthy' \in BOOLEAN
      BY <1>8 DEF SessionRetries
    <2> QED
      BY <1>8, <2>1 DEF SessionRetries
  <1>9. CASE RefreshStores BY <1>9 DEF RefreshStores
  <1>10. CASE RefreshSets BY <1>10 DEF RefreshSets
  <1>11. CASE QRLoads BY <1>11 DEF QRLoads
  <1>12. CASE RequestFails BY <1>12 DEF RequestFails
  <1>13. CASE RefreshFetches BY <1>13 DEF RefreshFetches
  <1>14. CASE QRScanned BY <1>14 DEF QRScanned
  <1>15. CASE UNCHANGED loginVars BY <1>15 DEF loginVars
  <1> HIDE DEF LoginTypeOK, States, Subs, Idle, At, Fails, goroutines, FirstSet
  <1>16. CASE Hourly BY <1>16, <1>2, <1>3 DEF Hourly
  <1>17. CASE Forced BY <1>17, <1>4, <1>5 DEF Forced
  <1>18. CASE Session BY <1>18, <1>6, <1>7, <1>8 DEF Session
  <1>19. CASE Refresh BY <1>19, <1>9, <1>10 DEF Refresh
  <1> QED
    BY <1>1, <1>11, <1>12, <1>13, <1>14, <1>15, <1>16, <1>17, <1>18, <1>19 DEF LoginNext

\* Every variable of WeiboLogin stays in its range, and refreshMu is held by exactly the
\* goroutine that makes its requests under it: no two of them refresh at once.
THEOREM LoginTypeCorrect == LoginSpec => []LoginTypeOK
  BY LoginInitTypeOK, LoginStepTypeOK, PTL DEF LoginSpec
===============================================================================
