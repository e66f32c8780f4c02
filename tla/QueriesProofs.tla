--------------------------- MODULE QueriesProofs ---------------------------
(***************************************************************************)
(* What holds of the queries in handling for every number of queries,      *)
(* slots, servers and every setting of the timers: slots are counted       *)
(* right, answers are of recent owners, and failover tries every server.   *)
(***************************************************************************)
EXTENDS Queries, FiniteSetTheorems, TLAPS

InHandling == {p \in Query : query[p].at \in Running}

(* No slot is lost and none is given back twice. *)
SlotsCounted == slots = Cardinality(InHandling)

(* How a query's own step changes the handlers and the slots.              *)
Moves(q, h) ==
    /\ query' = [query EXCEPT ![q] = h]
    /\ h \in Handler
    /\ \/ slots' = slots /\ (h.at \in Running <=> query[q].at \in Running)
       \/ slots' = slots - 1 /\ h.at \notin Running /\ query[q].at \in Running
       \/ /\ slots' = slots + 1 /\ h.at \in Running /\ query[q].at \notin Running
          /\ slots < MaxInflight

----------------------------------------------------------------------------
(* Handlers move within their type                                         *)

LEMMA RestingIsHandler ==
    /\ Resting \in Handler
    /\ \A code \in Done, o \in Owner \cup {NoOwner} :
          /\ Answered(code, o) \in Handler
          /\ Answered(code, o).at = code /\ Answered(code, o).of = o
<1>1. /\ 0 \in 0 .. Timeout /\ 0 \in 0 .. ChainTimeout /\ 0 \in 0 .. Calls
      /\ 0 \in 0 .. Endpoints - 1 /\ {} \in SUBSET Endpoint
  BY QueriesAssumption
<1>2. Resting \in Handler
  BY <1>1 DEF Resting, Handler
<1>3. ASSUME NEW code \in Done, NEW o \in Owner \cup {NoOwner}
      PROVE  /\ Answered(code, o) \in Handler
             /\ Answered(code, o).at = code /\ Answered(code, o).of = o
  BY <1>1 DEF Answered, Resting, Handler
<1> QED BY <1>2, <1>3

(* The fields of a handler. *)
LEMMA HandlerFields ==
    ASSUME TypeOK, NEW q \in Query
    PROVE  /\ query[q] \in Handler
           /\ query[q].of \in Owner \cup {NoOwner}
           /\ query[q].left \in Nat /\ query[q].left <= Timeout
           /\ query[q].chain \in Nat /\ query[q].chain <= ChainTimeout
           /\ query[q].calls \in Nat /\ query[q].calls <= Calls
           /\ query[q].tries \in Nat /\ query[q].tries < Endpoints
           /\ query[q].down \subseteq Endpoint
<1>1. query[q] \in Handler
  BY DEF TypeOK
<1>2. /\ query[q].of \in Owner \cup {NoOwner}
      /\ query[q].left \in 0 .. Timeout
      /\ query[q].chain \in 0 .. ChainTimeout
      /\ query[q].calls \in 0 .. Calls
      /\ query[q].tries \in 0 .. Endpoints - 1
      /\ query[q].down \in SUBSET Endpoint
  BY <1>1 DEF Handler
<1> QED BY <1>1, <1>2, QueriesAssumption

(* An answer is a move that gives the slot back. *)
LEMMA AnswerMoves ==
    ASSUME NEW q \in Query, query[q].at \in Running,
           NEW code \in Done, NEW o \in Owner \cup {NoOwner}, Answer(q, code, o)
    PROVE  Moves(q, Answered(code, o))
<1>1. code \notin Running
  BY DEF Done, Running
<1> QED BY <1>1, RestingIsHandler DEF Answer, Moves

(* Every step of a query is a move of it and of nothing else.              *)
LEMMA QueryMoves ==
    ASSUME TypeOK, NEW q \in Query, Ask(q) \/ Shed(q) \/ Handle(q) \/ Settle(q)
    PROVE  \E h : Moves(q, h)
<1> USE QueriesAssumption
<1>0. /\ query[q] \in Handler
      /\ cache.of \in Owner \cup {NoOwner} /\ ownerCache.of \in Owner \cup {NoOwner}
      /\ owner \in Owner
      /\ query \in [Query -> Handler]
      /\ Endpoint \subseteq Nat
  BY DEF TypeOK, Endpoint
<1>a. {"resolve", "wait", "dial", "call", "walk"} = Running
  BY DEF Running
<1>b. /\ Timeout \in 0 .. Timeout /\ ChainTimeout \in 0 .. ChainTimeout
      /\ Calls \in 0 .. Calls /\ 0 \in 0 .. Endpoints - 1
  OBVIOUS
<1>1. CASE Ask(q)
  <2> DEFINE h == [Resting EXCEPT !.at = "resolve", !.left = Timeout]
  <2>1. h \in Handler /\ h.at \in Running
    BY <1>b, RestingIsHandler DEF Resting, Handler, Running
  <2>2. query[q].at \notin Running
    BY <1>1 DEF Ask, At, Running
  <2>3. query' = [query EXCEPT ![q] = h] /\ slots' = slots + 1 /\ slots < MaxInflight
    BY <1>1 DEF Ask
  <2> HIDE DEF h
  <2> QED BY <2>1, <2>2, <2>3 DEF Moves
<1>2. CASE Shed(q)
  <2>1. query[q].at \notin Running
    BY <1>2 DEF Shed, At, Running
  <2> DEFINE h == Answered("shed", NoOwner)
  <2>2. "shed" \in Done /\ "shed" \notin Running
    BY DEF Done, Running
  <2>3. h \in Handler /\ h.at \notin Running
    BY <2>2, RestingIsHandler
  <2>4. query' = [query EXCEPT ![q] = h] /\ slots' = slots
    BY <1>2 DEF Shed
  <2> HIDE DEF h
  <2> QED BY <2>1, <2>3, <2>4 DEF Moves
<1>3. CASE AnswerFromCache(q)
  BY <1>3, <1>0, AnswerMoves DEF AnswerFromCache, At, Running, Done
<1>4. CASE OwnerCached(q)
  <2> DEFINE h == [query[q] EXCEPT !.at = "walk", !.of = ownerCache.of]
  <2>1. h \in Handler /\ h.at \in Running
    BY <1>0 DEF Handler, Running
  <2>2. query' = [query EXCEPT ![q] = h] /\ slots' = slots /\ query[q].at \in Running
    BY <1>4, <1>0 DEF OwnerCached, At, Running
  <2> QED BY <2>1, <2>2 DEF Moves
<1>5. CASE LookUpOwner(q)
  <2> DEFINE h == [query[q] EXCEPT !.at = "wait", !.chain = ChainTimeout, !.calls = Calls]
  <2>1. h \in Handler /\ h.at \in Running
    BY <1>0, <1>b DEF Handler, Running
  <2>2. query' = [query EXCEPT ![q] = h] /\ slots' = slots /\ query[q].at \in Running
    BY <1>5, <1>0 DEF LookUpOwner, At, Running
  <2> QED BY <2>1, <2>2 DEF Moves
<1>6. CASE WalkFinds(q)
  BY <1>6, <1>0, AnswerMoves, HandlerFields DEF WalkFinds, At, Running, Done
<1>7. CASE WalkFails(q)
  BY <1>7, <1>0, AnswerMoves DEF WalkFails, At, Running, Done
<1>8. CASE Lock(q)
  <2>1. slots' = slots /\ query[q].at \in Running
    BY <1>8 DEF Lock, At, Running
  <2>2. CASE conn = NoConn
    <3> DEFINE d == {e \in Endpoint : server[e] # "up"}
               h == [query[q] EXCEPT !.at = "dial", !.tries = 0, !.late = FALSE, !.down = d]
    <3>1. d \in SUBSET Endpoint
      OBVIOUS
    <3>2. h \in Handler /\ h.at \in Running
      <4> HIDE DEF d
      <4> QED BY <1>0, <1>b, <3>1 DEF Handler, Running
    <3>3. query' = [query EXCEPT ![q] = h]
      BY <1>8, <1>0, <2>2 DEF Lock
    <3> QED BY <2>1, <3>2, <3>3 DEF Moves
  <2>3. CASE conn # NoConn
    <3> DEFINE h == [query[q] EXCEPT !.at = "call"]
    <3>1. h \in Handler /\ h.at \in Running
      BY <1>0 DEF Handler, Running
    <3>2. query' = [query EXCEPT ![q] = h]
      BY <1>8, <1>0, <2>3 DEF Lock
    <3> QED BY <2>1, <3>1, <3>2 DEF Moves
  <2> QED BY <2>2, <2>3
<1>9. CASE DialSucceeds(q)
  <2> DEFINE h == [query[q] EXCEPT !.at = "call", !.tries = 0, !.late = FALSE, !.down = {}]
  <2>1. h \in Handler /\ h.at \in Running
    BY <1>0, <1>b DEF Handler, Running
  <2>2. query' = [query EXCEPT ![q] = h] /\ slots' = slots /\ query[q].at \in Running
    BY <1>9, <1>0 DEF DialSucceeds, At, Running
  <2> QED BY <2>1, <2>2 DEF Moves
<1>10. CASE NextDial(q)
  <2>1. PICK late \in TimedOut(q) : query' = [query EXCEPT ![q].tries = @ + 1, ![q].late = late]
    BY <1>10 DEF NextDial
  <2> DEFINE h == [query[q] EXCEPT !.tries = @ + 1, !.late = late]
  <2>2. query[q].tries + 1 \in 0 .. Endpoints - 1
    BY <1>10, HandlerFields DEF NextDial
  <2>3. late \in BOOLEAN
    BY <1>0, <2>1 DEF TimedOut, Handler
  <2>4. h \in Handler /\ h.at = query[q].at
    BY <1>0, <2>2, <2>3 DEF Handler
  <2>5. query' = [query EXCEPT ![q] = h] /\ slots' = slots
    BY <1>10, <1>0, <2>1 DEF NextDial
  <2> QED BY <2>4, <2>5 DEF Moves
<1>11. CASE ConnectFails(q)
  <2>1. PICK code \in {"nxdomain", "servfail"} : LookupFails(q, code)
    BY <1>11 DEF ConnectFails
  <2> QED BY <1>11, <2>1, AnswerMoves DEF ConnectFails, NoDial, LookupFails, At, Running, Done
<1>12. CASE Reply(q)
  <2>1. slots' = slots /\ query[q].at \in Running
    BY <1>12 DEF Reply, Connected, At, Running
  <2>2. CASE query[q].calls > 1
    <3> DEFINE h == [query[q] EXCEPT !.at = "wait", !.calls = @ - 1]
    <3>1. query[q].calls - 1 \in 0 .. Calls
      BY <2>2, HandlerFields
    <3>2. h \in Handler /\ h.at \in Running
      BY <1>0, <3>1 DEF Handler, Running
    <3>3. query[q].calls # 1
      BY <2>2, HandlerFields
    <3>4. query' = [query EXCEPT ![q].at = "wait", ![q].calls = @ - 1]
      BY <1>12, <3>3 DEF Reply
    <3>5. query' = [query EXCEPT ![q] = h]
      BY <1>0, <3>4
    <3> QED BY <2>1, <3>2, <3>5 DEF Moves
  <2>3. CASE ~(query[q].calls > 1)
    <3> DEFINE h == [Resting EXCEPT !.at = "walk", !.of = query[q].of, !.left = query[q].left]
    <3>1. query[q].left \in 0 .. Timeout /\ query[q].of \in Owner \cup {NoOwner}
      BY <1>0 DEF Handler
    <3>2. h \in Handler /\ h.at \in Running
      BY <1>0, <3>1, RestingIsHandler DEF Handler, Running, Resting
    <3>3. query' = [query EXCEPT ![q] = h]
      BY <1>12, <2>3 DEF Reply
    <3> QED BY <2>1, <3>2, <3>3 DEF Moves
  <2> QED BY <2>2, <2>3
<1>13. CASE RpcError(q) \/ BadReply(q)
  BY <1>13, AnswerMoves DEF RpcError, BadReply, Connected, LookupFails, At, Running, Done
<1>14. CASE CallFails(q)
  BY <1>14, AnswerMoves DEF CallFails, LookupFails, At, Running, Done
<1>15. CASE Settle(q)
  <2> DEFINE h == [query[q] EXCEPT !.of = owner]
  <2>1. h \in Handler /\ h.at = query[q].at
    BY <1>0 DEF Handler
  <2>2. query' = [query EXCEPT ![q] = h] /\ slots' = slots
    BY <1>15, <1>0 DEF Settle
  <2> QED BY <2>1, <2>2 DEF Moves
<1> QED BY <1>1, <1>2, <1>3, <1>4, <1>5, <1>6, <1>7, <1>8, <1>9, <1>10,
           <1>11, <1>12, <1>13, <1>14, <1>15 DEF Handle

(* Which steps answer, and that none but two finds the records. *)
LEMMA Answers ==
    ASSUME TypeOK, NEW q \in Query,
           \/ Shed(q) \/ AnswerFromCache(q) \/ WalkFinds(q) \/ WalkFails(q)
           \/ ConnectFails(q) \/ RpcError(q) \/ BadReply(q) \/ CallFails(q)
    PROVE  /\ \E code \in Done, o \in Owner \cup {NoOwner} : query'[q] = Answered(code, o)
           /\ query'[q].at \in Done
           /\ query'[q].at = "found" => AnswerFromCache(q) \/ WalkFinds(q)
<1>1. /\ query \in [Query -> Handler]
      /\ cache.of \in Owner \cup {NoOwner} /\ query[q].of \in Owner \cup {NoOwner}
  BY HandlerFields DEF TypeOK
<1>2. CASE AnswerFromCache(q) \/ WalkFinds(q)
  <2>1. \E o \in Owner \cup {NoOwner} : query'[q] = Answered("found", o)
    BY <1>1, <1>2 DEF AnswerFromCache, WalkFinds, Answer
  <2> QED BY <1>2, <2>1, RestingIsHandler DEF Done
<1>3. CASE ~(AnswerFromCache(q) \/ WalkFinds(q))
  <2>1. \E code \in Done \ {"found"} : query'[q] = Answered(code, NoOwner)
    <3>1. CASE Shed(q) \/ WalkFails(q)
      BY <1>1, <3>1 DEF Shed, WalkFails, Answer, Done
    <3>2. CASE RpcError(q) \/ BadReply(q) \/ CallFails(q)
      BY <1>1, <3>2 DEF RpcError, BadReply, CallFails, LookupFails, Answer, Done
    <3>3. CASE ConnectFails(q)
      <4>1. PICK code \in {"nxdomain", "servfail"} : LookupFails(q, code)
        BY <3>3 DEF ConnectFails
      <4> QED BY <1>1, <4>1 DEF LookupFails, Answer, Done
    <3> QED BY <1>3, <3>1, <3>2, <3>3
  <2> QED BY <2>1, RestingIsHandler
<1> QED BY <1>2, <1>3

(* The other steps leave the query in handling. *)
LEMMA Proceeds ==
    ASSUME TypeOK, NEW q \in Query,
           \/ Ask(q) \/ OwnerCached(q) \/ LookUpOwner(q) \/ Lock(q) \/ DialSucceeds(q)
           \/ NextDial(q) \/ Reply(q) \/ Settle(q)
    PROVE  query'[q].at \in Running
<1>1. query \in [Query -> Handler] /\ query[q] \in Handler
  BY HandlerFields DEF TypeOK
<1>2. CASE Ask(q)
  <2>1. query'[q] = [Resting EXCEPT !.at = "resolve", !.left = Timeout]
    BY <1>1, <1>2 DEF Ask
  <2> QED BY <2>1 DEF Resting, Running
<1>3. CASE OwnerCached(q) \/ LookUpOwner(q)
  BY <1>1, <1>3 DEF OwnerCached, LookUpOwner, Handler, Running
<1>4. CASE Lock(q) \/ DialSucceeds(q)
  BY <1>1, <1>4 DEF Lock, DialSucceeds, Handler, Running
<1>5. CASE NextDial(q)
  <2>1. PICK late : query' = [query EXCEPT ![q].tries = @ + 1, ![q].late = late]
    BY <1>5 DEF NextDial
  <2>2. query[q].at = "dial"
    BY <1>5 DEF NextDial, NoDial, At
  <2> QED BY <1>1, <2>1, <2>2 DEF Handler, Running
<1>6. CASE Reply(q)
  <2>1. CASE query' = [query EXCEPT ![q].at = "wait", ![q].calls = @ - 1]
    BY <1>1, <2>1 DEF Handler, Running
  <2>2. CASE query' = [query EXCEPT ![q] = [Resting EXCEPT !.at = "walk",
                                      !.of = query[q].of, !.left = query[q].left]]
    BY <1>1, <2>2 DEF Resting, Running
  <2> QED BY <1>6, <2>1, <2>2 DEF Reply
<1>7. CASE Settle(q)
  BY <1>1, <1>7 DEF Settle, Connected, At, Handler, Running
<1> QED BY <1>2, <1>3, <1>4, <1>5, <1>6, <1>7

----------------------------------------------------------------------------
(* Types and slots                                                         *)

(* The slots change with the handlers that hold them. *)
LEMMA MoveCounts ==
    ASSUME TypeOK, SlotsCounted, NEW q \in Query, NEW h, Moves(q, h)
    PROVE  query' \in [Query -> Handler] /\ slots' \in 0 .. MaxInflight /\ SlotsCounted'
<1> USE QueriesAssumption
<1>1. query \in [Query -> Handler] /\ slots \in 0 .. MaxInflight
  BY DEF TypeOK
<1>2. query' \in [Query -> Handler]
  BY <1>1 DEF Moves
<1>3. query'[q] = h /\ \A p \in Query : p # q => query'[p] = query[p]
  BY <1>1 DEF Moves
<1>4. IsFiniteSet(InHandling)
  BY FS_Subset DEF InHandling
<1>5. Cardinality(InHandling) \in Nat
  BY <1>4, FS_CardinalityType
<1>6. CASE slots' = slots /\ (h.at \in Running <=> query[q].at \in Running)
  <2>1. InHandling' = InHandling
    BY <1>3, <1>6 DEF InHandling
  <2> QED BY <1>1, <1>2, <1>6, <2>1 DEF SlotsCounted
<1>7. CASE slots' = slots - 1 /\ h.at \notin Running /\ query[q].at \in Running
  <2>1. InHandling' = InHandling \ {q} /\ q \in InHandling
    BY <1>3, <1>7 DEF InHandling
  <2>2. Cardinality(InHandling \ {q}) = Cardinality(InHandling) - 1
    BY <1>4, <2>1, FS_RemoveElement
  <2>3. InHandling \ {q} \subseteq InHandling
    OBVIOUS
  <2>4. Cardinality(InHandling \ {q}) \in Nat
    BY <1>4, <2>3, FS_Subset, FS_CardinalityType
  <2>5. slots' = Cardinality(InHandling \ {q})
    BY <1>7, <2>2 DEF SlotsCounted
  <2>6. slots' \in 0 .. MaxInflight
    BY <1>1, <1>7, <2>4, <2>5
  <2> QED BY <1>2, <2>1, <2>5, <2>6 DEF SlotsCounted
<1>8. CASE /\ slots' = slots + 1 /\ h.at \in Running /\ query[q].at \notin Running
           /\ slots < MaxInflight
  <2>1. InHandling' = InHandling \cup {q} /\ q \notin InHandling
    BY <1>3, <1>8 DEF InHandling
  <2>2. Cardinality(InHandling \cup {q}) = Cardinality(InHandling) + 1
    BY <1>4, <2>1, FS_AddElement
  <2> QED BY <1>1, <1>2, <1>8, <2>1, <2>2 DEF SlotsCounted
<1> QED BY <1>6, <1>7, <1>8 DEF Moves

(* What no query's own step disturbs: the types of all but the handlers    *)
(* and the slots.                                                          *)
RestOK ==
    /\ cache \in [of : Owner \cup {NoOwner}, left : 0 .. RecordTTL]
    /\ ownerCache \in [of : Owner \cup {NoOwner}, left : 0 .. OwnerTTL]
    /\ holder \in Query \cup {Nobody}
    /\ conn \in Endpoint \cup {NoConn, Broken}
    /\ lastGood \in Endpoint
    /\ server \in [Endpoint -> {"up", "refusing", "silent"}]
    /\ owner \in Owner /\ gone \in [Owner -> 0 .. Recent + 1]
    /\ changes \in 0 .. MaxChanges

LEMMA RecentIsNat == Recent \in Nat
BY QueriesAssumption DEF Recent

(* The next endpoint to dial is one. *)
LEMMA DialedIsEndpoint ==
    ASSUME TypeOK, NEW q \in Query
    PROVE  Dialed(q) \in Endpoint
<1>1. query[q].tries \in Nat /\ lastGood \in Nat /\ Endpoints \in Nat \ {0}
  BY HandlerFields, QueriesAssumption DEF TypeOK, Endpoint
<1> QED BY <1>1 DEF Dialed, Endpoint

LEMMA QueryRest ==
    ASSUME TypeOK, NEW q \in Query, Ask(q) \/ Shed(q) \/ Handle(q) \/ Settle(q)
    PROVE  RestOK'
<1> USE QueriesAssumption
<1>0. RestOK
  BY DEF TypeOK, RestOK
<1>1. CASE Ask(q) \/ Shed(q) \/ AnswerFromCache(q) \/ OwnerCached(q) \/ LookUpOwner(q)
            \/ WalkFails(q) \/ NextDial(q) \/ Settle(q)
  BY <1>0, <1>1 DEF RestOK, Ask, Shed, AnswerFromCache, OwnerCached, LookUpOwner,
       WalkFails, NextDial, Settle, client, world
<1>2. CASE WalkFinds(q)
  <2>1. query[q].of \in Owner \cup {NoOwner} /\ RecordTTL \in 0 .. RecordTTL
    BY HandlerFields
  <2>2. cache' \in [of : Owner \cup {NoOwner}, left : 0 .. RecordTTL]
    BY <1>2, <2>1 DEF WalkFinds
  <2> QED BY <1>0, <1>2, <2>2 DEF RestOK, WalkFinds, client, world
<1>3. CASE Lock(q)
  BY <1>0, <1>3 DEF RestOK, Lock, world
<1>4. CASE DialSucceeds(q)
  <2>1. Dialed(q) \in Endpoint
    BY DialedIsEndpoint
  <2> QED BY <1>0, <1>4, <2>1 DEF RestOK, DialSucceeds, world
<1>5. CASE ConnectFails(q) \/ RpcError(q) \/ BadReply(q) \/ CallFails(q)
  BY <1>0, <1>5 DEF RestOK, ConnectFails, RpcError, BadReply, CallFails, LookupFails, world
<1>6. CASE Reply(q)
  <2>1. ownerCache' \in [of : Owner \cup {NoOwner}, left : 0 .. OwnerTTL]
    <3>1. OwnerTTL \in 0 .. OwnerTTL /\ query[q].of \in Owner \cup {NoOwner}
      BY HandlerFields
    <3>2. \/ ownerCache' = ownerCache
          \/ ownerCache' = [of |-> query[q].of, left |-> OwnerTTL]
      BY <1>6 DEF Reply
    <3> QED BY <1>0, <3>1, <3>2 DEF RestOK
  <2> QED BY <1>0, <1>6, <2>1 DEF RestOK, Reply, world
<1> QED BY <1>1, <1>2, <1>3, <1>4, <1>5, <1>6 DEF Handle

(* A tick leaves every timer in its range. *)
LEMMA TickTypes ==
    ASSUME TypeOK, Tick
    PROVE  query' \in [Query -> Handler] /\ RestOK'
<1> USE QueriesAssumption
<1>1. query' \in [Query -> Handler]
  <2>1. ASSUME NEW q \in Query
        PROVE  [query[q] EXCEPT !.left = Less(@), !.chain = Less(@)] \in Handler
    <3>1. query[q] \in Handler
      BY HandlerFields
    <3>2. /\ Less(query[q].left) \in 0 .. Timeout
          /\ Less(query[q].chain) \in 0 .. ChainTimeout
      BY HandlerFields DEF Less
    <3> QED BY <3>1, <3>2 DEF Handler
  <2> QED BY <2>1 DEF Tick
<1>2. NoEntry \in [of : Owner \cup {NoOwner}, left : 0 .. RecordTTL]
  BY DEF NoEntry
<1>3. NoEntry \in [of : Owner \cup {NoOwner}, left : 0 .. OwnerTTL]
  BY DEF NoEntry
<1>4. cache' \in [of : Owner \cup {NoOwner}, left : 0 .. RecordTTL]
  <2>1. CASE cache.left > 1
    <3>1. cache \in [of : Owner \cup {NoOwner}, left : 0 .. RecordTTL]
      BY DEF TypeOK
    <3>2. cache.left - 1 \in 0 .. RecordTTL
      BY <2>1, <3>1
    <3>3. cache' = [cache EXCEPT !.left = cache.left - 1]
      BY <2>1 DEF Tick
    <3> QED BY <3>1, <3>2, <3>3
  <2>2. CASE ~(cache.left > 1)
    BY <1>2, <2>2 DEF Tick
  <2> QED BY <2>1, <2>2
<1>5. ownerCache' \in [of : Owner \cup {NoOwner}, left : 0 .. OwnerTTL]
  <2>1. CASE ownerCache.left > 1
    <3>1. ownerCache \in [of : Owner \cup {NoOwner}, left : 0 .. OwnerTTL]
      BY DEF TypeOK
    <3>2. ownerCache.left - 1 \in 0 .. OwnerTTL
      BY <2>1, <3>1
    <3>3. ownerCache' = [ownerCache EXCEPT !.left = ownerCache.left - 1]
      BY <2>1 DEF Tick
    <3> QED BY <3>1, <3>2, <3>3
  <2>2. CASE ~(ownerCache.left > 1)
    BY <1>3, <2>2 DEF Tick
  <2> QED BY <2>1, <2>2
<1>6. gone' \in [Owner -> 0 .. Recent + 1]
  <2>1. \A o \in Owner : gone[o] \in 0 .. Recent + 1
    BY DEF TypeOK
  <2>2. \A o \in Owner : (IF o = owner \/ gone[o] > Recent
                            THEN gone[o] ELSE gone[o] + 1) \in 0 .. Recent + 1
    BY <2>1, RecentIsNat
  <2> QED BY <2>2 DEF Tick
<1> QED BY <1>1, <1>4, <1>5, <1>6 DEF Tick, TypeOK, RestOK, client

LEMMA ServerTypes ==
    ASSUME TypeOK, NEW e \in Endpoint, NEW does \in {"up", "refusing", "silent"},
           ServerChanges(e, does)
    PROVE  query' \in [Query -> Handler] /\ RestOK'
<1> USE QueriesAssumption
<1>1. query' \in [Query -> Handler]
  <2>1. ASSUME NEW q \in Query
        PROVE  [query[q] EXCEPT !.down = @ \cup {e}] \in Handler
    <3>1. query[q] \in Handler /\ query[q].down \cup {e} \in SUBSET Endpoint
      BY HandlerFields
    <3> QED BY <3>1 DEF Handler
  <2> QED BY <2>1, HandlerFields DEF ServerChanges
<1>2. changes' \in 0 .. MaxChanges
  BY DEF ServerChanges, Change, TypeOK
<1>3. server' \in [Endpoint -> {"up", "refusing", "silent"}]
  BY DEF ServerChanges, TypeOK
<1> QED BY <1>1, <1>2, <1>3 DEF ServerChanges, TypeOK, RestOK

LEMMA TransferTypes ==
    ASSUME TypeOK, NEW o \in Owner, Transfer(o)
    PROVE  query' \in [Query -> Handler] /\ RestOK'
<1> USE QueriesAssumption
<1>1. changes' \in 0 .. MaxChanges
  BY DEF Transfer, Change, TypeOK
<1>2. gone' \in [Owner -> 0 .. Recent + 1]
  BY RecentIsNat DEF Transfer, TypeOK
<1> QED BY <1>1, <1>2 DEF Transfer, TypeOK, RestOK, client

TypesAndSlots == TypeOK /\ SlotsCounted

(* A step of the world changes no handler's place. *)
LEMMA WorldKeepsSlots ==
    ASSUME TypesAndSlots, UNCHANGED slots, query' \in [Query -> Handler], RestOK',
           \A q \in Query : query'[q].at = query[q].at
    PROVE  TypesAndSlots'
<1>1. InHandling' = InHandling
  BY DEF InHandling
<1>2. SlotsCounted'
  BY <1>1 DEF TypesAndSlots, SlotsCounted
<1> QED BY <1>2 DEF TypesAndSlots, TypeOK, RestOK

(* The timers of a handler do not move it. *)
LEMMA WorldKeepsPlaces ==
    ASSUME TypeOK, NEW q \in Query,
           \/ Tick
           \/ \E e \in Endpoint, does \in {"up", "refusing", "silent"} : ServerChanges(e, does)
           \/ \E o \in Owner : Transfer(o)
    PROVE  query'[q].at = query[q].at /\ query'[q].of = query[q].of
<1>1. query[q] \in Handler
  BY HandlerFields
<1>2. CASE Tick
  <2>1. query'[q] = [query[q] EXCEPT !.left = Less(@), !.chain = Less(@)]
    BY <1>2 DEF Tick
  <2> QED BY <1>1, <2>1 DEF Handler
<1>3. CASE \E e \in Endpoint, does \in {"up", "refusing", "silent"} : ServerChanges(e, does)
  <2>1. \/ query'[q] = query[q]
        \/ \E e \in Endpoint : query'[q] = [query[q] EXCEPT !.down = @ \cup {e}]
    BY <1>3 DEF ServerChanges
  <2> QED BY <1>1, <2>1 DEF Handler
<1>4. CASE \E o \in Owner : Transfer(o)
  BY <1>4 DEF Transfer
<1> QED BY <1>2, <1>3, <1>4

LEMMA TypesAndSlotsInit == Init => TypesAndSlots
<1> SUFFICES ASSUME Init PROVE TypesAndSlots
  OBVIOUS
<1> USE QueriesAssumption
<1>1. query \in [Query -> Handler]
  BY RestingIsHandler DEF Init
<1>2. InHandling = {}
  BY DEF Init, InHandling, Resting, Running
<1>3. SlotsCounted
  BY <1>2, FS_EmptySet DEF SlotsCounted, Init
<1>4. gone \in [Owner -> 0 .. Recent + 1]
  BY RecentIsNat DEF Init
<1>5. cache \in [of : Owner \cup {NoOwner}, left : 0 .. RecordTTL]
  BY DEF Init, NoEntry
<1>6. ownerCache \in [of : Owner \cup {NoOwner}, left : 0 .. OwnerTTL]
  BY DEF Init, NoEntry
<1>7. slots \in 0 .. MaxInflight /\ changes \in 0 .. MaxChanges
  BY DEF Init
<1>8. lastGood \in Endpoint
  BY DEF Init, Endpoint
<1> QED BY <1>1, <1>3, <1>4, <1>5, <1>6, <1>7, <1>8 DEF Init, TypesAndSlots, TypeOK

LEMMA TypesAndSlotsNext == TypesAndSlots /\ [Next]_vars => TypesAndSlots'
<1> SUFFICES ASSUME TypesAndSlots, [Next]_vars PROVE TypesAndSlots'
  OBVIOUS
<1>0. TypeOK /\ SlotsCounted
  BY DEF TypesAndSlots
<1>1. ASSUME NEW q \in Query, Ask(q) \/ Shed(q) \/ Handle(q) \/ Settle(q) PROVE TypesAndSlots'
  <2>1. PICK h : Moves(q, h)
    BY <1>0, <1>1, QueryMoves
  <2>2. query' \in [Query -> Handler] /\ slots' \in 0 .. MaxInflight /\ SlotsCounted'
    BY <1>0, <2>1, MoveCounts
  <2>3. RestOK'
    BY <1>0, <1>1, QueryRest
  <2> QED BY <2>2, <2>3 DEF TypesAndSlots, TypeOK, RestOK
<1>2. CASE Tick
  BY <1>0, <1>2, TickTypes, WorldKeepsPlaces, WorldKeepsSlots DEF Tick
<1>3. ASSUME NEW e \in Endpoint, NEW does \in {"up", "refusing", "silent"},
             ServerChanges(e, does)
      PROVE  TypesAndSlots'
  BY <1>0, <1>3, ServerTypes, WorldKeepsPlaces, WorldKeepsSlots DEF ServerChanges
<1>4. ASSUME NEW o \in Owner, Transfer(o) PROVE TypesAndSlots'
  BY <1>0, <1>4, TransferTypes, WorldKeepsPlaces, WorldKeepsSlots DEF Transfer
<1>5. CASE UNCHANGED vars
  <2>1. InHandling' = InHandling
    BY <1>5 DEF InHandling, vars
  <2> QED BY <1>5, <2>1 DEF vars, client, world, TypesAndSlots, TypeOK, SlotsCounted
<1> QED BY <1>1, <1>2, <1>3, <1>4, <1>5 DEF Next

(* Types hold, for every number of queries, slots and servers. *)
THEOREM Types == Spec => []TypeOK
<1>1. TypesAndSlots => TypeOK
  BY DEF TypesAndSlots
<1> QED BY TypesAndSlotsInit, TypesAndSlotsNext, <1>1, PTL DEF Spec

(* A query is shed only while as many others as the limit are in handling. *)
THEOREM SlotsAreKept == Spec => ShedOnlyWhenFull
<1>1. ASSUME TypesAndSlots, [Next]_vars
      PROVE  [\A q \in Query :
                 At(q, "idle") /\ query'[q].at = "shed" =>
                     Cardinality(InHandling) = MaxInflight]_vars
  <2> SUFFICES ASSUME Next, NEW q \in Query, At(q, "idle"), query'[q].at = "shed"
               PROVE  Cardinality(InHandling) = MaxInflight
    BY <1>1
  <2>0. TypeOK /\ SlotsCounted
    BY <1>1 DEF TypesAndSlots
  <2>1. query'[q].at # query[q].at
    BY DEF At
  <2>2. PICK p \in Query : Ask(p) \/ Shed(p) \/ Handle(p) \/ Settle(p)
    BY <2>0, <2>1, WorldKeepsPlaces DEF Next
  <2>3. p = q
    BY <2>0, <2>1, <2>2, QueryMoves DEF Moves, TypeOK
  <2>4. Ask(q) \/ Shed(q)
    BY <2>2, <2>3 DEF Handle, AnswerFromCache, OwnerCached, LookUpOwner, WalkFinds, WalkFails,
      Lock, DialSucceeds, NextDial, ConnectFails, NoDial, Reply, RpcError, BadReply, CallFails, Settle, Connected, At
  <2>5. ~ Ask(q)
    <3> SUFFICES ASSUME Ask(q) PROVE FALSE
      OBVIOUS
    <3>1. query'[q] = [Resting EXCEPT !.at = "resolve", !.left = Timeout]
      BY <2>0 DEF Ask, TypeOK
    <3> QED BY <3>1 DEF Resting
  <2>6. slots >= MaxInflight /\ slots \in 0 .. MaxInflight
    BY <2>0, <2>4, <2>5 DEF Shed, TypeOK
  <2> QED BY <2>0, <2>6, QueriesAssumption DEF SlotsCounted
<1>2. Init => TypesAndSlots
  BY TypesAndSlotsInit
<1>3. TypesAndSlots /\ [Next]_vars =>
         [\A q \in Query :
             At(q, "idle") /\ query'[q].at = "shed" =>
                 Cardinality({p \in Query : query[p].at \in Running}) = MaxInflight]_vars
  BY <1>1 DEF InHandling
<1> QED BY <1>2, <1>3, TypesAndSlotsNext, PTL DEF Spec, ShedOnlyWhenFull

----------------------------------------------------------------------------
(* Answers are of recent owners                                            *)

(* How long ago an owner may have been the name's, wherever it is kept: in *)
(* a lookup that has read it, in the cache of owners, on a query's walk,   *)
(* in the resolver's cache.  Each timer runs down as fast as its owner     *)
(* ages, which is why the bound holds at the end of the chain; it would    *)
(* not if a lookup or a walk outlived its timer.                           *)
LookUpFresh(q) ==
    /\ At(q, "resolve") => query[q].of = NoOwner
    /\ query[q].at \in {"wait", "dial", "call"} /\ query[q].of # NoOwner /\ query[q].chain > 0 =>
        gone[query[q].of] <= ChainTimeout - query[q].chain

OwnerFresh ==
    ownerCache.left > 0 => /\ ownerCache.of \in Owner
                           /\ gone[ownerCache.of] <= (ChainTimeout - 1)
                                                      + (OwnerTTL - ownerCache.left)

WalkFresh(q) ==
    At(q, "walk") /\ query[q].left > 0 =>
        /\ query[q].of \in Owner
        /\ gone[query[q].of] <= (ChainTimeout - 1) + (OwnerTTL - 1)
                                 + (Timeout - query[q].left)

CacheFresh ==
    cache.left > 0 => /\ cache.of \in Owner
                      /\ gone[cache.of] <= (ChainTimeout - 1) + (OwnerTTL - 1) + (Timeout - 1)
                                            + (RecordTTL - cache.left)

Fresh ==
    /\ gone[owner] = 0
    /\ OwnerFresh
    /\ CacheFresh
    /\ \A q \in Query : LookUpFresh(q) /\ WalkFresh(q)

(* The numbers that freshness is about are numbers. *)
LEMMA Ages ==
    ASSUME TypeOK
    PROVE  /\ \A o \in Owner : gone[o] \in Nat
           /\ owner \in Owner
           /\ cache.left \in Nat /\ cache.left <= RecordTTL
           /\ ownerCache.left \in Nat /\ ownerCache.left <= OwnerTTL
           /\ OwnerTTL \in Nat \ {0} /\ RecordTTL \in Nat \ {0} /\ Timeout \in Nat \ {0}
           /\ ChainTimeout \in Nat \ {0}
<1> USE QueriesAssumption
<1>1. gone \in [Owner -> 0 .. Recent + 1] /\ owner \in Owner
  BY DEF TypeOK
<1>2. \A o \in Owner : gone[o] \in Nat
  BY <1>1
<1>3. cache.left \in 0 .. RecordTTL /\ ownerCache.left \in 0 .. OwnerTTL
  BY DEF TypeOK
<1> QED BY <1>1, <1>2, <1>3

(* A query that takes an owner along has it from the cache of owners or    *)
(* from its own last call; any other move leaves the walk.                 *)
LEMMA WalkBegins ==
    ASSUME TypeOK, Fresh, NEW q \in Query, Ask(q) \/ Shed(q) \/ Handle(q) \/ Settle(q)
    PROVE  /\ gone' = gone
           /\ LookUpFresh(q)'
           /\ query'[q].at = "walk" /\ query'[q].left > 0 =>
                /\ query'[q].of \in Owner
                /\ gone[query'[q].of] <= (ChainTimeout - 1) + (OwnerTTL - 1) + (Timeout - query'[q].left)
<1>0. gone' = gone
  BY DEF Ask, Shed, Handle, AnswerFromCache, OwnerCached, LookUpOwner, WalkFinds, WalkFails,
    Lock, DialSucceeds, NextDial, ConnectFails, Reply, RpcError, BadReply, CallFails, Settle, Connected, LookupFails, world
<1>1. /\ query \in [Query -> Handler] /\ query[q] \in Handler
      /\ query[q].of \in Owner \cup {NoOwner}
      /\ query[q].left \in Nat /\ query[q].left <= Timeout
      /\ query[q].chain \in Nat /\ query[q].chain <= ChainTimeout
      /\ LookUpFresh(q)
  BY HandlerFields DEF TypeOK, Fresh
<1>2. CASE OwnerCached(q)
  <2>1. /\ query'[q].of = ownerCache.of /\ query'[q].left = query[q].left
        /\ query'[q].at = "walk" /\ ownerCache.left > 0
    BY <1>1, <1>2 DEF OwnerCached, Handler
  <2>2. /\ ownerCache.of \in Owner
        /\ gone[ownerCache.of] <= (ChainTimeout - 1) + (OwnerTTL - ownerCache.left)
    BY <2>1 DEF Fresh, OwnerFresh
  <2>3. gone[ownerCache.of] <= (ChainTimeout - 1) + (OwnerTTL - 1) + (Timeout - query[q].left)
    BY <1>1, <2>1, <2>2, Ages
  <2> QED BY <1>0, <2>1, <2>2, <2>3 DEF LookUpFresh, At
<1>3. CASE Reply(q)
  <2>1. query[q].at = "call" /\ query[q].chain > 0
    BY <1>3 DEF Reply, Connected, At
  <2>2. CASE query' = [query EXCEPT ![q].at = "wait", ![q].calls = @ - 1]
    <3>1. /\ query'[q].at = "wait" /\ query'[q].of = query[q].of
          /\ query'[q].chain = query[q].chain
      BY <1>1, <2>2 DEF Handler
    <3> QED BY <1>0, <1>1, <2>1, <3>1 DEF LookUpFresh, At
  <2>3. CASE /\ query' = [query EXCEPT ![q] = [Resting EXCEPT !.at = "walk",
                                             !.of = query[q].of, !.left = query[q].left]]
             /\ query[q].of # NoOwner
    <3>1. query'[q] = [Resting EXCEPT !.at = "walk", !.of = query[q].of, !.left = query[q].left]
      BY <1>1, <2>3
    <3>2. /\ query'[q].of = query[q].of /\ query'[q].left = query[q].left
          /\ query'[q].at = "walk"
      BY <3>1 DEF Resting
    <3>3. query[q].of \in Owner /\ gone[query[q].of] <= ChainTimeout - query[q].chain
      BY <1>1, <2>1, <2>3 DEF LookUpFresh
    <3>4. gone[query[q].of] <= (ChainTimeout - 1) + (OwnerTTL - 1) + (Timeout - query[q].left)
      BY <1>1, <2>1, <3>3, Ages
    <3> QED BY <1>0, <3>2, <3>3, <3>4 DEF LookUpFresh, At
  <2> QED BY <1>3, <2>2, <2>3 DEF Reply
<1>4. CASE Ask(q)
  <2>1. query'[q] = [Resting EXCEPT !.at = "resolve", !.left = Timeout]
    BY <1>1, <1>4 DEF Ask
  <2>2. query'[q].at = "resolve" /\ query'[q].of = NoOwner
    BY <2>1 DEF Resting
  <2> QED BY <1>0, <2>2 DEF LookUpFresh, At
<1>5. CASE Shed(q) \/ AnswerFromCache(q) \/ WalkFinds(q) \/ WalkFails(q)
            \/ ConnectFails(q) \/ RpcError(q) \/ BadReply(q) \/ CallFails(q)
  <2>1. query'[q].at \in Done
    BY <1>5, Answers
  <2> QED BY <1>0, <2>1 DEF Done, LookUpFresh, At
<1>6. CASE LookUpOwner(q)
  <2>1. query'[q].at = "wait" /\ query'[q].of = NoOwner
    BY <1>1, <1>6 DEF LookUpOwner, LookUpFresh, At, Handler
  <2> QED BY <1>0, <2>1 DEF LookUpFresh, At
<1>7. CASE Lock(q) \/ DialSucceeds(q) \/ NextDial(q)
  <2>1. /\ query[q].at \in {"wait", "dial"} /\ query'[q].at \in {"dial", "call"}
        /\ query'[q].of = query[q].of /\ query'[q].chain = query[q].chain
    <3>1. CASE Lock(q)
      BY <1>1, <3>1 DEF Lock, At, Handler
    <3>2. CASE DialSucceeds(q)
      BY <1>1, <3>2 DEF DialSucceeds, At, Handler
    <3>3. CASE NextDial(q)
      <4>1. PICK late : query' = [query EXCEPT ![q].tries = @ + 1, ![q].late = late]
        BY <3>3 DEF NextDial
      <4>2. query[q].at = "dial"
        BY <3>3 DEF NextDial, NoDial, At
      <4> QED BY <1>1, <4>1, <4>2 DEF Handler
    <3> QED BY <1>7, <3>1, <3>2, <3>3
  <2> QED BY <1>0, <1>1, <2>1 DEF LookUpFresh, At
<1>8. CASE Settle(q)
  <2>1. /\ query[q].at = "call" /\ query'[q].at = "call"
        /\ query'[q].of = owner /\ query'[q].chain = query[q].chain
    BY <1>1, <1>8 DEF Settle, Connected, At, Handler
  <2>2. gone[owner] = 0
    BY DEF Fresh
  <2> QED BY <1>0, <1>1, <2>1, <2>2, Ages DEF LookUpFresh, At
<1> QED BY <1>2, <1>3, <1>4, <1>5, <1>6, <1>7, <1>8 DEF Handle

LEMMA QueryKeepsFresh ==
    ASSUME TypeOK, Fresh, NEW q \in Query, Ask(q) \/ Shed(q) \/ Handle(q) \/ Settle(q)
    PROVE  Fresh'
<1>1. gone' = gone
  BY WalkBegins
<1>2. owner' = owner
  BY DEF Ask, Shed, Handle, AnswerFromCache, OwnerCached, LookUpOwner, WalkFinds, WalkFails,
    Lock, DialSucceeds, NextDial, ConnectFails, Reply, RpcError, BadReply, CallFails, Settle, Connected, LookupFails, world
<1>3. OwnerFresh'
  <2>1. CASE ownerCache' = ownerCache
    BY <1>1, <2>1 DEF Fresh, OwnerFresh
  <2>2. CASE Reply(q)
    <3>1. /\ query[q].at = "call" /\ query[q].chain > 0
          /\ query[q].chain \in Nat /\ query[q].of \in Owner \cup {NoOwner}
      BY <2>2, HandlerFields DEF Reply, Connected, At
    <3>2. CASE ownerCache' = [of |-> query[q].of, left |-> OwnerTTL] /\ query[q].of # NoOwner
      <4>1. query[q].of \in Owner /\ gone[query[q].of] <= ChainTimeout - query[q].chain
        BY <3>1, <3>2 DEF Fresh, LookUpFresh
      <4>2. ownerCache'.of = query[q].of /\ ownerCache'.left = OwnerTTL
        BY <3>2
      <4> QED BY <1>1, <3>1, <4>1, <4>2, Ages DEF OwnerFresh
    <3> QED BY <2>1, <2>2, <3>2 DEF Reply
  <2> QED BY <2>1, <2>2 DEF Ask, Shed, Handle, AnswerFromCache, OwnerCached, LookUpOwner,
        WalkFinds, WalkFails, Lock, DialSucceeds, NextDial, ConnectFails, Reply, RpcError,
        BadReply, CallFails, Settle, LookupFails
<1>4. CacheFresh'
  <2>1. CASE cache' = cache
    BY <1>1, <2>1 DEF Fresh, CacheFresh
  <2>2. CASE WalkFinds(q)
    <3>1. /\ query[q].of \in Owner
          /\ gone[query[q].of] <= (ChainTimeout - 1) + (OwnerTTL - 1) + (Timeout - query[q].left)
      BY <2>2 DEF WalkFinds, Fresh, WalkFresh
    <3>2. query[q].left \in Nat /\ query[q].left > 0
      BY <2>2, HandlerFields DEF WalkFinds
    <3>3. cache'.of = query[q].of /\ cache'.left = RecordTTL
      BY <2>2 DEF WalkFinds
    <3> QED BY <1>1, <3>1, <3>2, <3>3, Ages DEF CacheFresh
  <2> QED BY <2>1, <2>2 DEF Ask, Shed, Handle, AnswerFromCache, OwnerCached, LookUpOwner,
        WalkFails, Lock, DialSucceeds, NextDial, ConnectFails, Reply, RpcError,
        BadReply, CallFails, Settle, LookupFails
<1>5. ASSUME NEW p \in Query PROVE LookUpFresh(p)' /\ WalkFresh(p)'
  <2>1. CASE p = q
    BY <1>1, <2>1, WalkBegins DEF WalkFresh, At
  <2>2. CASE p # q
    <3>1. query'[p] = query[p]
      BY <2>2, QueryMoves DEF Moves, TypeOK
    <3> QED BY <1>1, <3>1 DEF Fresh, LookUpFresh, WalkFresh, At
  <2> QED BY <2>1, <2>2
<1> QED BY <1>1, <1>2, <1>3, <1>4, <1>5 DEF Fresh

LEMMA TickKeepsFresh ==
    ASSUME TypeOK, Fresh, Tick
    PROVE  Fresh'
<1> USE QueriesAssumption
<1>1. ASSUME NEW o \in Owner PROVE gone'[o] \in Nat /\ gone'[o] <= gone[o] + 1
  <2>1. gone'[o] = gone[o] \/ gone'[o] = gone[o] + 1
    BY DEF Tick
  <2> QED BY <2>1, Ages
<1>2. gone'[owner'] = 0
  BY Ages DEF Tick, Fresh
<1>3. OwnerFresh'
  <2>1. CASE ownerCache.left > 1
    <3>1. ownerCache' = [ownerCache EXCEPT !.left = ownerCache.left - 1]
      BY <2>1 DEF Tick
    <3>2. ownerCache'.of = ownerCache.of /\ ownerCache'.left = ownerCache.left - 1
      BY <3>1 DEF TypeOK
    <3>3. ownerCache.of \in Owner /\ gone[ownerCache.of] <= (ChainTimeout - 1) + (OwnerTTL - ownerCache.left)
      BY <2>1, Ages DEF Fresh, OwnerFresh
    <3> QED BY <1>1, <3>2, <3>3, Ages DEF OwnerFresh
  <2>2. CASE ~(ownerCache.left > 1)
    <3>1. ownerCache' = NoEntry
      BY <2>2 DEF Tick
    <3>2. ~(ownerCache'.left > 0)
      BY <3>1 DEF NoEntry
    <3> QED BY <3>2 DEF OwnerFresh
  <2> QED BY <2>1, <2>2
<1>4. CacheFresh'
  <2>1. CASE cache.left > 1
    <3>1. cache' = [cache EXCEPT !.left = cache.left - 1]
      BY <2>1 DEF Tick
    <3>2. cache'.of = cache.of /\ cache'.left = cache.left - 1
      BY <3>1 DEF TypeOK
    <3>3. /\ cache.of \in Owner
          /\ gone[cache.of] <= (ChainTimeout - 1) + (OwnerTTL - 1) + (Timeout - 1) + (RecordTTL - cache.left)
      BY <2>1, Ages DEF Fresh, CacheFresh
    <3> QED BY <1>1, <3>2, <3>3, Ages DEF CacheFresh
  <2>2. CASE ~(cache.left > 1)
    <3>1. cache' = NoEntry
      BY <2>2 DEF Tick
    <3>2. ~(cache'.left > 0)
      BY <3>1 DEF NoEntry
    <3> QED BY <3>2 DEF CacheFresh
  <2> QED BY <2>1, <2>2
<1>6. ASSUME NEW q \in Query PROVE LookUpFresh(q)'
  <2>1. /\ query[q] \in Handler /\ query[q].chain \in Nat /\ query[q].chain <= ChainTimeout
        /\ query[q].of \in Owner \cup {NoOwner} /\ LookUpFresh(q)
    BY HandlerFields DEF Fresh
  <2>2. query'[q] = [query[q] EXCEPT !.left = Less(@), !.chain = Less(@)]
    BY DEF Tick
  <2>3. /\ query'[q].at = query[q].at /\ query'[q].of = query[q].of
        /\ query'[q].chain = Less(query[q].chain)
    BY <2>1, <2>2 DEF Handler
  <2>4. query'[q].chain > 0 => query'[q].chain = query[q].chain - 1 /\ query[q].chain > 0
    BY <2>1, <2>3 DEF Less
  <2>5. CASE query[q].of = NoOwner
    BY <2>3, <2>5 DEF LookUpFresh, At
  <2>6. CASE query[q].of # NoOwner
    <3>1. gone'[query[q].of] \in Nat /\ gone'[query[q].of] <= gone[query[q].of] + 1
      BY <1>1, <2>1, <2>6
    <3>2. gone[query[q].of] \in Nat
      BY <2>1, <2>6, Ages
    <3> QED BY <2>1, <2>3, <2>4, <3>1, <3>2 DEF LookUpFresh, At
  <2> QED BY <2>5, <2>6
<1>5. ASSUME NEW q \in Query PROVE WalkFresh(q)'
  <2>1. query'[q].at = query[q].at /\ query'[q].of = query[q].of
    BY WorldKeepsPlaces
  <2>2. query[q].left \in Nat
    BY HandlerFields
  <2>3. query'[q].left = Less(query[q].left)
    <3>1. query[q] \in Handler
      BY HandlerFields
    <3>2. query'[q] = [query[q] EXCEPT !.left = Less(@), !.chain = Less(@)]
      BY DEF Tick
    <3> QED BY <3>1, <3>2 DEF Handler
  <2>4. CASE query[q].left > 1
    <3>1. query'[q].left = query[q].left - 1
      BY <2>2, <2>3, <2>4 DEF Less
    <3>2. At(q, "walk") => /\ query[q].of \in Owner
                           /\ gone[query[q].of] <= (ChainTimeout - 1) + (OwnerTTL - 1) + (Timeout - query[q].left)
      BY <2>2, <2>4 DEF Fresh, WalkFresh
    <3> QED BY <1>1, <2>1, <2>2, <3>1, <3>2, Ages DEF WalkFresh, At
  <2>5. CASE ~(query[q].left > 1)
    <3>1. query'[q].left = 0
      BY <2>2, <2>3, <2>5 DEF Less
    <3> QED BY <3>1 DEF WalkFresh
  <2> QED BY <2>4, <2>5
<1> QED BY <1>2, <1>3, <1>4, <1>5, <1>6 DEF Fresh

LEMMA WorldKeepsFresh ==
    ASSUME TypeOK, Fresh,
           \/ \E e \in Endpoint, does \in {"up", "refusing", "silent"} : ServerChanges(e, does)
           \/ \E o \in Owner : Transfer(o)
    PROVE  Fresh'
<1>1. cache' = cache /\ ownerCache' = ownerCache
  BY DEF ServerChanges, Transfer
<1>2. gone'[owner'] = 0 /\ \A o \in Owner : gone'[o] <= gone[o]
  BY Ages DEF ServerChanges, Transfer, TypeOK, Fresh
<1>3. \A o \in Owner : gone'[o] \in Nat
  BY Ages DEF ServerChanges, Transfer, TypeOK
<1>4. OwnerFresh' /\ CacheFresh'
  BY <1>1, <1>2, <1>3, Ages DEF Fresh, OwnerFresh, CacheFresh
<1>5. ASSUME NEW q \in Query PROVE LookUpFresh(q)' /\ WalkFresh(q)'
  <2>1. query'[q].at = query[q].at /\ query'[q].of = query[q].of
    BY WorldKeepsPlaces
  <2>2. query'[q].left = query[q].left /\ query'[q].chain = query[q].chain
    <3>1. query[q] \in Handler
      BY HandlerFields
    <3>2. \/ query'[q] = query[q]
          \/ \E e \in Endpoint : query'[q] = [query[q] EXCEPT !.down = @ \cup {e}]
      BY DEF ServerChanges, Transfer
    <3> QED BY <3>1, <3>2 DEF Handler
  <2>3. query[q].left \in Nat
    BY HandlerFields
  <2>4. At(q, "walk") /\ query[q].left > 0 =>
            /\ query[q].of \in Owner
            /\ gone[query[q].of] <= (ChainTimeout - 1) + (OwnerTTL - 1) + (Timeout - query[q].left)
    BY DEF Fresh, WalkFresh
  <2>5. At(q, "walk") /\ query[q].left > 0 =>
            /\ query[q].of \in Owner
            /\ gone'[query[q].of] <= (ChainTimeout - 1) + (OwnerTTL - 1) + (Timeout - query[q].left)
    BY <1>2, <1>3, <2>3, <2>4, Ages
  <2>6. LookUpFresh(q)'
    <3>1. /\ LookUpFresh(q) /\ query[q].chain \in Nat
          /\ query[q].of \in Owner \cup {NoOwner}
      BY HandlerFields DEF Fresh
    <3>2. CASE query[q].of = NoOwner
      BY <2>1, <3>2 DEF LookUpFresh, At
    <3>3. CASE query[q].of # NoOwner
      BY <1>2, <1>3, <2>1, <2>2, <3>1, <3>3, Ages DEF LookUpFresh, At
    <3> QED BY <3>2, <3>3
  <2> QED BY <2>1, <2>2, <2>5, <2>6 DEF WalkFresh, At
<1> QED BY <1>2, <1>4, <1>5 DEF Fresh

LEMMA FreshInit == Init => Fresh
<1> SUFFICES ASSUME Init PROVE Fresh
  OBVIOUS
<1>1. gone[owner] = 0
  BY QueriesAssumption DEF Init
<1>2. OwnerFresh /\ CacheFresh
  BY DEF Init, NoEntry, OwnerFresh, CacheFresh
<1>3. \A q \in Query : LookUpFresh(q) /\ WalkFresh(q)
  BY DEF Init, Resting, LookUpFresh, WalkFresh, At
<1> QED BY <1>1, <1>2, <1>3 DEF Fresh

LEMMA FreshNext == TypeOK /\ Fresh /\ [Next]_vars => Fresh'
<1> SUFFICES ASSUME TypeOK, Fresh, [Next]_vars PROVE Fresh'
  OBVIOUS
<1>1. CASE UNCHANGED vars
  BY <1>1 DEF vars, world, Fresh, LookUpFresh, OwnerFresh, CacheFresh, WalkFresh, At
<1>2. CASE Next
  BY <1>2, QueryKeepsFresh, TickKeepsFresh, WorldKeepsFresh DEF Next
<1> QED BY <1>1, <1>2

(* However the lock, the servers and the walk hold a lookup up after it    *)
(* has read the owner, an answer is of someone who owned the name no       *)
(* longer ago than the four timers together.                               *)
THEOREM AnswersAreOfRecentOwners == Spec => OwnersRecent
<1>1. ASSUME TypeOK, Fresh, [Next]_vars
      PROVE  [\A q \in Query :
                 ~At(q, "found") /\ query'[q].at = "found" =>
                     gone[query'[q].of] <= Recent]_vars
  <2> SUFFICES ASSUME Next, NEW q \in Query, ~At(q, "found"), query'[q].at = "found"
               PROVE  gone[query'[q].of] <= Recent
    BY <1>1
  <2>1. query'[q].at # query[q].at
    BY DEF At
  <2>2. PICK p \in Query : Ask(p) \/ Shed(p) \/ Handle(p) \/ Settle(p)
    BY <1>1, <2>1, WorldKeepsPlaces DEF Next
  <2>3. p = q
    BY <1>1, <2>1, <2>2, QueryMoves DEF Moves, TypeOK
  <2>4. query[q] \in Handler /\ query \in [Query -> Handler]
    BY <1>1, HandlerFields DEF TypeOK
  <2>5. CASE AnswerFromCache(q)
    <3>1. query'[q].of = cache.of /\ cache.left > 0
      BY <2>4, <2>5 DEF AnswerFromCache, Answer, Answered, Resting
    <3> QED BY <1>1, <3>1, Ages DEF Fresh, CacheFresh, Recent
  <2>6. CASE WalkFinds(q)
    <3>1. query'[q].of = query[q].of /\ query[q].left > 0 /\ At(q, "walk")
      BY <2>4, <2>6 DEF WalkFinds, Answer, Answered, Resting
    <3>2. query[q].left \in Nat
      BY <1>1, HandlerFields
    <3>3. /\ query[q].of \in Owner
          /\ gone[query[q].of] <= (ChainTimeout - 1) + (OwnerTTL - 1) + (Timeout - query[q].left)
      BY <1>1, <3>1 DEF Fresh, WalkFresh
    <3> QED BY <1>1, <3>1, <3>2, <3>3, Ages DEF Recent
  <2>7. CASE ~AnswerFromCache(q) /\ ~WalkFinds(q)
    <3>1. CASE Shed(q) \/ WalkFails(q) \/ ConnectFails(q) \/ RpcError(q) \/ BadReply(q) \/ CallFails(q)
      BY <1>1, <2>7, <3>1, Answers
    <3>2. CASE \/ Ask(q) \/ OwnerCached(q) \/ LookUpOwner(q) \/ Lock(q) \/ DialSucceeds(q)
               \/ NextDial(q) \/ Reply(q) \/ Settle(q)
      BY <1>1, <3>2, Proceeds DEF Running
    <3> QED BY <2>2, <2>3, <2>7, <3>1, <3>2 DEF Handle
  <2> QED BY <2>5, <2>6, <2>7
<1>2. Init => TypesAndSlots /\ Fresh
  BY TypesAndSlotsInit, FreshInit
<1>3. TypesAndSlots => TypeOK
  BY DEF TypesAndSlots
<1> QED BY <1>1, <1>2, <1>3, TypesAndSlotsNext, FreshNext, PTL DEF Spec, OwnersRecent

----------------------------------------------------------------------------
(* Failover tries every server                                             *)

Holding(q) == query[q].at \in {"dial", "call"} => holder = q

DownSeen(q) ==
    query[q].at = "dial" => \A e \in Endpoint : server[e] # "up" => e \in query[q].down

TriedDown(q) ==
    query[q].at = "dial" /\ query[q].chain > 0 =>
        \A t \in Nat : t < query[q].tries => (lastGood + t) % Endpoints \in query[q].down

(* A query that dials has the lock, it knows of every server that is down, *)
(* and all it has tried were.                                              *)
Dialing == \A q \in Query : Holding(q) /\ DownSeen(q) /\ TriedDown(q)

LEMMA ModSmall ==
    ASSUME NEW n \in Nat \ {0}, NEW e \in 0 .. n - 1
    PROVE  e % n = e
BY SMTT(30)

LEMMA ModOnce ==
    ASSUME NEW n \in Nat \ {0}, NEW e \in 0 .. n - 1
    PROVE  (e + n) % n = e
BY SMTT(30)

(* Tries from any endpoint on, as many as there are, reach every one. *)
LEMMA TriesReachAll ==
    ASSUME NEW from \in Endpoint, NEW e \in Endpoint
    PROVE  \E t \in Nat : t < Endpoints /\ (from + t) % Endpoints = e
<1> USE QueriesAssumption DEF Endpoint
<1>1. CASE e >= from
  <2>1. e - from \in Nat /\ e - from < Endpoints /\ from + (e - from) = e
    BY <1>1
  <2> QED BY <2>1, ModSmall
<1>2. CASE ~(e >= from)
  <2>1. /\ e - from + Endpoints \in Nat /\ e - from + Endpoints < Endpoints
        /\ from + (e - from + Endpoints) = e + Endpoints
    BY <1>2
  <2> QED BY <2>1, ModOnce
<1> QED BY <1>1, <1>2

(* What a query's step does to the lock, the last good endpoint, and the   *)
(* query itself, as far as dialing goes.                                   *)
LEMMA DialingStep ==
    ASSUME TypeOK, Dialing, NEW q \in Query, Ask(q) \/ Shed(q) \/ Handle(q) \/ Settle(q)
    PROVE  /\ server' = server
           /\ holder' = holder \/ holder = Nobody \/ query[q].at \in {"dial", "call"}
           /\ lastGood' = lastGood \/ query[q].at = "dial"
           /\ Holding(q)' /\ DownSeen(q)' /\ TriedDown(q)'
<1> USE QueriesAssumption
<1>0. /\ query \in [Query -> Handler] /\ query[q] \in Handler
      /\ Holding(q) /\ DownSeen(q) /\ TriedDown(q)
  BY HandlerFields DEF TypeOK, Dialing
<1>1. server' = server
  BY DEF Ask, Shed, Handle, AnswerFromCache, OwnerCached, LookUpOwner, WalkFinds, WalkFails,
    Lock, DialSucceeds, NextDial, ConnectFails, Reply, RpcError, BadReply, CallFails, Settle, Connected, LookupFails, world
<1>2. CASE Ask(q) \/ OwnerCached(q) \/ LookUpOwner(q) \/ Reply(q)
  <2>1. query'[q].at \in {"resolve", "walk", "wait"}
    <3>1. CASE Ask(q)
      <4>1. query'[q] = [Resting EXCEPT !.at = "resolve", !.left = Timeout]
        BY <1>0, <3>1 DEF Ask
      <4> QED BY <4>1 DEF Resting
    <3>2. CASE OwnerCached(q) \/ LookUpOwner(q)
      BY <1>0, <3>2 DEF OwnerCached, LookUpOwner, Handler
    <3>3. CASE Reply(q)
      <4>1. CASE query' = [query EXCEPT ![q].at = "wait", ![q].calls = @ - 1]
        BY <1>0, <4>1 DEF Handler
      <4>2. CASE query' = [query EXCEPT ![q] = [Resting EXCEPT !.at = "walk",
                                          !.of = query[q].of, !.left = query[q].left]]
        BY <1>0, <4>2 DEF Resting
      <4> QED BY <3>3, <4>1, <4>2 DEF Reply
    <3> QED BY <1>2, <3>1, <3>2, <3>3
  <2>2. Holding(q)' /\ DownSeen(q)' /\ TriedDown(q)'
    BY <2>1 DEF Holding, DownSeen, TriedDown
  <2>3. lastGood' = lastGood /\ (holder' = holder \/ query[q].at = "call")
    BY <1>2 DEF Ask, OwnerCached, LookUpOwner, Reply, Connected, At, client
  <2> QED BY <1>1, <2>2, <2>3
<1>3. CASE Shed(q) \/ AnswerFromCache(q) \/ WalkFinds(q) \/ WalkFails(q)
            \/ ConnectFails(q) \/ RpcError(q) \/ BadReply(q) \/ CallFails(q)
  <2>1. query'[q].at \in Done
    BY <1>3, Answers
  <2>2. Holding(q)' /\ DownSeen(q)' /\ TriedDown(q)'
    BY <2>1 DEF Done, Holding, DownSeen, TriedDown
  <2>3. lastGood' = lastGood
    BY <1>3 DEF Shed, AnswerFromCache, WalkFinds, WalkFails, ConnectFails, RpcError, BadReply,
      CallFails, LookupFails, client
  <2>4. holder' = holder \/ query[q].at \in {"dial", "call"}
    BY <1>3 DEF Shed, AnswerFromCache, WalkFinds, WalkFails, ConnectFails, NoDial, RpcError,
      BadReply, CallFails, Connected, At, client
  <2> QED BY <1>1, <2>2, <2>3, <2>4
<1>4. CASE Lock(q)
  <2>1. holder' = q /\ holder = Nobody /\ lastGood' = lastGood
    BY <1>4 DEF Lock
  <2>2. CASE conn = NoConn
    <3> DEFINE d == {e \in Endpoint : server[e] # "up"}
    <3>1. query'[q] = [query[q] EXCEPT !.at = "dial", !.tries = 0, !.late = FALSE, !.down = d]
      BY <1>0, <1>4, <2>2 DEF Lock
    <3>2. query'[q].tries = 0 /\ query'[q].down = d
      BY <1>0, <3>1 DEF Handler
    <3> QED BY <1>1, <2>1, <3>2 DEF Holding, DownSeen, TriedDown
  <2>3. CASE conn # NoConn
    <3>1. query'[q].at = "call"
      BY <1>0, <1>4, <2>3 DEF Lock, Handler
    <3> QED BY <1>1, <2>1, <3>1 DEF Holding, DownSeen, TriedDown
  <2> QED BY <2>2, <2>3
<1>5. CASE DialSucceeds(q)
  <2>1. query'[q].at = "call"
    BY <1>0, <1>5 DEF DialSucceeds, Handler
  <2>2. holder' = holder /\ query[q].at = "dial"
    BY <1>5 DEF DialSucceeds, At
  <2> QED BY <1>0, <1>1, <2>1, <2>2 DEF Holding, DownSeen, TriedDown
<1>6. CASE Settle(q)
  <2>1. query'[q].at = "call" /\ query[q].at = "call"
    BY <1>0, <1>6 DEF Settle, Connected, At, Handler
  <2>2. holder' = holder /\ lastGood' = lastGood
    BY <1>6 DEF Settle, client
  <2> QED BY <1>0, <1>1, <2>1, <2>2 DEF Holding, DownSeen, TriedDown
<1>7. CASE NextDial(q)
  <2>1. PICK late : query'[q] = [query[q] EXCEPT !.tries = @ + 1, !.late = late]
    BY <1>0, <1>7 DEF NextDial
  <2>2. /\ query[q].at = "dial"
        /\ query'[q].tries = query[q].tries + 1 /\ query'[q].at = "dial"
        /\ query'[q].chain = query[q].chain /\ query'[q].down = query[q].down
    BY <1>0, <1>7, <2>1 DEF NextDial, NoDial, At, Handler
  <2>3. holder' = holder /\ lastGood' = lastGood
    BY <1>7 DEF NextDial, client
  <2>4. TriedDown(q)'
    <3> SUFFICES ASSUME query[q].chain > 0, NEW t \in Nat, t < query[q].tries + 1
                 PROVE  (lastGood + t) % Endpoints \in query[q].down
      BY <2>2, <2>3 DEF TriedDown
    <3>1. query[q].tries \in Nat
      BY HandlerFields
    <3>2. CASE t < query[q].tries
      BY <1>0, <2>2, <3>2 DEF TriedDown
    <3>3. CASE t = query[q].tries
      <4>1. server[Dialed(q)] # "up" /\ Dialed(q) \in Endpoint
        BY <1>7, DialedIsEndpoint, HandlerFields DEF NextDial, NoDial
      <4>2. Dialed(q) \in query[q].down
        BY <1>0, <2>2, <4>1 DEF DownSeen
      <4> QED BY <3>3, <4>2 DEF Dialed
    <3> QED BY <3>1, <3>2, <3>3
  <2> QED BY <1>0, <1>1, <2>2, <2>3, <2>4 DEF Holding, DownSeen
<1> QED BY <1>2, <1>3, <1>4, <1>5, <1>6, <1>7 DEF Handle

LEMMA QueryKeepsDialing ==
    ASSUME TypeOK, Dialing, NEW q \in Query, Ask(q) \/ Shed(q) \/ Handle(q) \/ Settle(q)
    PROVE  Dialing'
<1>1. ASSUME NEW p \in Query, p # q
      PROVE  Holding(p)' /\ DownSeen(p)' /\ TriedDown(p)'
  <2>1. query'[p] = query[p]
    BY <1>1, QueryMoves DEF Moves, TypeOK
  <2>2. Holding(p) /\ DownSeen(p) /\ TriedDown(p) /\ Holding(q)
    BY DEF Dialing
  <2>3. CASE query[p].at \in {"dial", "call"}
    <3>1. holder = p /\ p # Nobody
      BY <2>2, <2>3, QueriesAssumption DEF Holding
    <3>2. query[q].at \notin {"dial", "call"}
      BY <1>1, <2>2, <3>1 DEF Holding
    <3>3. holder' = holder /\ lastGood' = lastGood /\ server' = server
      BY <3>1, <3>2, DialingStep
    <3> QED BY <2>1, <2>2, <3>3 DEF Holding, DownSeen, TriedDown
  <2>4. CASE query[p].at \notin {"dial", "call"}
    BY <2>1, <2>2, <2>4, DialingStep DEF Holding, DownSeen, TriedDown
  <2> QED BY <2>3, <2>4
<1> QED BY <1>1, DialingStep DEF Dialing

LEMMA TickKeepsDialing ==
    ASSUME TypeOK, Dialing, Tick
    PROVE  Dialing'
<1>1. ASSUME NEW q \in Query PROVE Holding(q)' /\ DownSeen(q)' /\ TriedDown(q)'
  <2>1. query[q] \in Handler /\ query[q].chain \in Nat
    BY HandlerFields
  <2>2. query'[q] = [query[q] EXCEPT !.left = Less(@), !.chain = Less(@)]
    BY DEF Tick
  <2>3. /\ query'[q].at = query[q].at /\ query'[q].chain = Less(query[q].chain)
        /\ query'[q].down = query[q].down /\ query'[q].tries = query[q].tries
    BY <2>1, <2>2 DEF Handler
  <2>4. query'[q].chain > 0 => query[q].chain > 0
    BY <2>1, <2>3 DEF Less
  <2> QED BY <2>3, <2>4 DEF Tick, client, Dialing, Holding, DownSeen, TriedDown
<1> QED BY <1>1 DEF Dialing

LEMMA ServerKeepsDialing ==
    ASSUME TypeOK, Dialing, NEW e \in Endpoint, NEW does \in {"up", "refusing", "silent"},
           ServerChanges(e, does)
    PROVE  Dialing'
<1>1. ASSUME NEW q \in Query PROVE Holding(q)' /\ DownSeen(q)' /\ TriedDown(q)'
  <2>0. Holding(q) /\ DownSeen(q) /\ TriedDown(q)
    BY DEF Dialing
  <2>1. query[q] \in Handler
    BY HandlerFields
  <2>2. server' = [server EXCEPT ![e] = does] /\ holder' = holder /\ lastGood' = lastGood
    BY DEF ServerChanges
  <2>3. query'[q] = IF does # "up" /\ At(q, "dial")
                       THEN [query[q] EXCEPT !.down = @ \cup {e}] ELSE query[q]
    BY DEF ServerChanges
  <2>4. CASE does # "up" /\ At(q, "dial")
    <3>1. query'[q] = [query[q] EXCEPT !.down = @ \cup {e}]
      BY <2>3, <2>4
    <3>2. /\ query'[q].at = query[q].at /\ query'[q].chain = query[q].chain
          /\ query'[q].tries = query[q].tries /\ query'[q].down = query[q].down \cup {e}
      BY <2>1, <3>1 DEF Handler
    <3>3. DownSeen(q)'
      BY <2>0, <2>2, <3>2 DEF DownSeen, TypeOK
    <3> QED BY <2>0, <2>2, <3>2, <3>3 DEF Holding, TriedDown
  <2>5. CASE ~(does # "up" /\ At(q, "dial"))
    <3>1. query'[q] = query[q]
      BY <2>3, <2>5
    <3>2. DownSeen(q)'
      BY <2>0, <2>2, <2>5, <3>1 DEF DownSeen, TypeOK, At
    <3> QED BY <2>0, <2>2, <3>1, <3>2 DEF Holding, TriedDown
  <2> QED BY <2>4, <2>5
<1> QED BY <1>1 DEF Dialing

LEMMA DialingInit == Init => Dialing
BY DEF Init, Resting, Dialing, Holding, DownSeen, TriedDown

LEMMA DialingNext == TypeOK /\ Dialing /\ [Next]_vars => Dialing'
<1> SUFFICES ASSUME TypeOK, Dialing, [Next]_vars PROVE Dialing'
  OBVIOUS
<1>1. CASE UNCHANGED vars
  BY <1>1 DEF vars, client, world, Dialing, Holding, DownSeen, TriedDown
<1>2. ASSUME NEW o \in Owner, Transfer(o) PROVE Dialing'
  BY <1>2 DEF Transfer, client, Dialing, Holding, DownSeen, TriedDown
<1>3. CASE Next
  BY <1>2, <1>3, QueryKeepsDialing, TickKeepsDialing, ServerKeepsDialing DEF Next
<1> QED BY <1>1, <1>3

(* Failover passes no server over, however many there are and wherever the *)
(* client starts.                                                          *)
THEOREM FailoverTriesAll == Spec => FailuresJustified
<1>1. ASSUME TypeOK, Dialing, [Next]_vars
      PROVE  [\A q \in Query :
                 At(q, "dial") /\ query'[q].at \in {"nxdomain", "servfail"} =>
                     query[q].down = Endpoint \/ query[q].chain = 0]_vars
  <2> SUFFICES ASSUME Next, NEW q \in Query, At(q, "dial"),
                      query'[q].at \in {"nxdomain", "servfail"}, query[q].chain # 0
               PROVE  query[q].down = Endpoint
    BY <1>1
  <2>1. query'[q].at # query[q].at
    BY DEF At
  <2>2. PICK p \in Query : Ask(p) \/ Shed(p) \/ Handle(p) \/ Settle(p)
    BY <1>1, <2>1, WorldKeepsPlaces DEF Next
  <2>3. p = q
    BY <1>1, <2>1, <2>2, QueryMoves DEF Moves, TypeOK
  <2>4. query[q] \in Handler /\ query \in [Query -> Handler] /\ query[q].chain > 0
    BY <1>1, HandlerFields DEF TypeOK
  <2>5. DialSucceeds(q) \/ NextDial(q) \/ ConnectFails(q)
    BY <2>2, <2>3 DEF Handle, Ask, Shed, AnswerFromCache, OwnerCached, LookUpOwner, WalkFinds,
      WalkFails, Lock, Reply, RpcError, BadReply, CallFails, Settle, Connected, At
  <2>6. ~ DialSucceeds(q)
    BY <1>1, Proceeds DEF Running
  <2>7. ~ NextDial(q)
    BY <1>1, Proceeds DEF Running
  <2>8. ConnectFails(q)
    BY <2>5, <2>6, <2>7
  <2>9. Dialed(q) \in query[q].down
    <3>1. server[Dialed(q)] # "up" /\ Dialed(q) \in Endpoint
      BY <1>1, <2>4, <2>8, DialedIsEndpoint DEF ConnectFails, NoDial
    <3> QED BY <1>1, <2>4, <3>1 DEF Dialing, DownSeen, At
  <2>10. ASSUME NEW t \in Nat, t < Endpoints
         PROVE  (lastGood + t) % Endpoints \in query[q].down
    <3>1. query[q].tries \in Nat /\ query[q].tries + 1 = Endpoints
      BY <1>1, <2>8, HandlerFields DEF ConnectFails
    <3>2. CASE t < query[q].tries
      BY <1>1, <2>4, <3>2 DEF Dialing, TriedDown, At
    <3>3. CASE t = query[q].tries
      BY <2>9, <3>3 DEF Dialed
    <3> QED BY <2>10, <3>1, <3>2, <3>3
  <2>11. ASSUME NEW e \in Endpoint PROVE e \in query[q].down
    <3>1. PICK t \in Nat : t < Endpoints /\ (lastGood + t) % Endpoints = e
      BY <1>1, TriesReachAll DEF TypeOK
    <3> QED BY <2>10, <3>1
  <2>12. query[q].down \subseteq Endpoint
    BY <1>1, HandlerFields
  <2> QED BY <2>11, <2>12
<1>2. Init => TypesAndSlots /\ Dialing
  BY TypesAndSlotsInit, DialingInit
<1>3. TypesAndSlots => TypeOK
  BY DEF TypesAndSlots
<1> QED BY <1>1, <1>2, <1>3, TypesAndSlotsNext, DialingNext, PTL DEF Spec, FailuresJustified

----------------------------------------------------------------------------
(* No lookup goes back                                                     *)

(* A query's own steps leave it less of its way.                           *)
LEMMA StepsForward ==
    ASSUME TypeOK, NEW q \in Query, query[q].at \in Running, Handle(q)
    PROVE  Forward(q)
<1> USE QueriesAssumption
<1> DEFINE h == query[q]
           g == query'[q]
           stage(at) == CASE at = "resolve" -> 3 [] at \in {"wait", "dial", "call"} -> 2
                          [] at = "walk" -> 1 [] OTHER -> 0
           place(at) == CASE at = "wait" -> 3 [] at = "dial" -> 2 [] at = "call" -> 1 [] OTHER -> 0
<1>1. /\ Left(q) = <<stage(h.at), h.calls, place(h.at), Endpoints - h.tries>>
      /\ Left(q)' = <<stage(g.at), g.calls, place(g.at), Endpoints - g.tries>>
  BY DEF Left, At
<1>2. /\ h \in Handler /\ query \in [Query -> Handler]
      /\ h.calls \in Nat /\ h.tries \in Nat
  BY HandlerFields DEF TypeOK
<1>3. ASSUME stage(g.at) < stage(h.at)
      PROVE  Forward(q)
  <2> HIDE DEF stage, place
  <2>1. Left(q)'[1] < Left(q)[1]
    BY <1>1, <1>3
  <2> QED BY <2>1 DEF Forward
<1>4. ASSUME stage(g.at) = stage(h.at), g.calls < h.calls
      PROVE  Forward(q)
  <2> HIDE DEF stage, place
  <2>1. Left(q)'[1] = Left(q)[1] /\ Left(q)'[2] < Left(q)[2]
    BY <1>1, <1>4
  <2> QED BY <2>1 DEF Forward
<1>5. ASSUME stage(g.at) = stage(h.at), g.calls = h.calls, place(g.at) < place(h.at)
      PROVE  Forward(q)
  <2> HIDE DEF stage, place
  <2>1. /\ Left(q)'[1] = Left(q)[1] /\ Left(q)'[2] = Left(q)[2]
        /\ Left(q)'[3] < Left(q)[3]
    BY <1>1, <1>5
  <2> QED BY <2>1 DEF Forward
<1>6. ASSUME g.at = h.at, g.calls = h.calls, g.tries = h.tries + 1
      PROVE  Forward(q)
  <2> HIDE DEF stage, place
  <2>1. /\ Left(q)'[1] = Left(q)[1] /\ Left(q)'[2] = Left(q)[2]
        /\ Left(q)'[3] = Left(q)[3] /\ Left(q)'[4] < Left(q)[4]
    BY <1>1, <1>2, <1>6
  <2> QED BY <2>1 DEF Forward
<1>7. ASSUME g.at \in Done
      PROVE  Forward(q)
  <2>1. stage(g.at) < stage(h.at)
    BY <1>7 DEF Done, Running
  <2> QED BY <1>3, <2>1
<1>8. ASSUME NEW code \in Done, NEW o \in Owner \cup {NoOwner}, g = Answered(code, o)
      PROVE  Forward(q)
  BY <1>7, <1>8, RestingIsHandler
<1>9. /\ cache.of \in Owner \cup {NoOwner} /\ owner \in Owner
      /\ h.of \in Owner \cup {NoOwner}
      /\ {"found", "servfail", "nxdomain"} \subseteq Done
  BY HandlerFields DEF TypeOK, Done
<1>10. CASE AnswerFromCache(q)
  BY <1>2, <1>8, <1>9, <1>10 DEF AnswerFromCache, Answer
<1>11. CASE OwnerCached(q)
  <2>1. g.at = "walk" /\ h.at = "resolve"
    BY <1>2, <1>11 DEF OwnerCached, At, Handler
  <2> QED BY <1>3, <2>1
<1>12. CASE LookUpOwner(q)
  <2>1. g.at = "wait" /\ h.at = "resolve"
    BY <1>2, <1>12 DEF LookUpOwner, At, Handler
  <2> QED BY <1>3, <2>1
<1>13. CASE WalkFinds(q)
  BY <1>2, <1>8, <1>9, <1>13 DEF WalkFinds, Answer
<1>14. CASE WalkFails(q)
  BY <1>2, <1>8, <1>9, <1>14 DEF WalkFails, Answer
<1>15. CASE Lock(q)
  <2>1. g.at \in {"dial", "call"} /\ h.at = "wait" /\ g.calls = h.calls
    BY <1>2, <1>15 DEF Lock, At, Handler
  <2> QED BY <1>5, <2>1
<1>16. CASE DialSucceeds(q)
  <2>1. g.at = "call" /\ h.at = "dial" /\ g.calls = h.calls
    BY <1>2, <1>16 DEF DialSucceeds, At, Handler
  <2> QED BY <1>5, <2>1
<1>17. CASE NextDial(q)
  <2>1. PICK late : g = [h EXCEPT !.tries = @ + 1, !.late = late]
    BY <1>2, <1>17 DEF NextDial
  <2>2. g.at = h.at /\ g.calls = h.calls /\ g.tries = h.tries + 1
    BY <1>2, <2>1 DEF Handler
  <2> QED BY <1>6, <2>2
<1>18. CASE ConnectFails(q) \/ RpcError(q) \/ BadReply(q) \/ CallFails(q)
  BY <1>7, <1>18, Answers
<1>19. CASE Reply(q)
  <2>1. h.at = "call"
    BY <1>19 DEF Reply, Connected, At
  <2>2. CASE query' = [query EXCEPT ![q].at = "wait", ![q].calls = @ - 1]
    <3>1. g.at = "wait" /\ g.calls = h.calls - 1
      BY <1>2, <2>2 DEF Handler
    <3> QED BY <1>2, <1>4, <2>1, <3>1
  <2>3. CASE query' = [query EXCEPT ![q] = [Resting EXCEPT !.at = "walk",
                                      !.of = query[q].of, !.left = query[q].left]]
    <3>1. g.at = "walk"
      BY <1>2, <2>3 DEF Resting
    <3> QED BY <1>3, <2>1, <3>1
  <2> QED BY <1>19, <2>2, <2>3 DEF Reply
<1> QED BY <1>10, <1>11, <1>12, <1>13, <1>14, <1>15, <1>16, <1>17, <1>18, <1>19
        DEF Handle

(* ResolveOwner, call, connect: no query in handling goes back.            *)
THEOREM LookupsMoveOn == Spec => LookupsGoForward
<1>1. ASSUME TypeOK, [Next]_vars
      PROVE  [\A q \in Query :
                 query[q].at \in Running =>
                     (query'[q].at = query[q].at /\ Left(q)' = Left(q)) \/ Forward(q)]_vars
  <2> SUFFICES ASSUME Next, NEW q \in Query, query[q].at \in Running
               PROVE  (query'[q].at = query[q].at /\ Left(q)' = Left(q)) \/ Forward(q)
    BY <1>1
  <2>1. ASSUME /\ query'[q].at = query[q].at /\ query'[q].calls = query[q].calls
               /\ query'[q].tries = query[q].tries
        PROVE  query'[q].at = query[q].at /\ Left(q)' = Left(q)
    BY <2>1 DEF Left, At
  <2>2. query \in [Query -> Handler] /\ query[q] \in Handler
    BY <1>1 DEF TypeOK
  <2>3. CASE \E p \in Query : Ask(p) \/ Shed(p) \/ Handle(p) \/ Settle(p)
    <3>1. PICK p \in Query : Ask(p) \/ Shed(p) \/ Handle(p) \/ Settle(p)
      BY <2>3
    <3>2. CASE p = q
      <4>1. CASE Handle(q)
        BY <1>1, <4>1, StepsForward
      <4>2. CASE Settle(q)
        BY <2>1, <2>2, <4>2 DEF Settle, Handler
      <4> QED BY <3>1, <3>2, <4>1, <4>2 DEF Ask, Shed, At, Running
    <3>3. CASE p # q
      <4>1. query'[q] = query[q]
        BY <1>1, <2>2, <3>1, <3>3, QueryMoves DEF Moves
      <4> QED BY <2>1, <4>1
    <3> QED BY <3>2, <3>3
  <2>4. CASE Tick
    BY <2>1, <2>2, <2>4 DEF Tick, Handler
  <2>5. CASE \E e \in Endpoint, does \in {"up", "refusing", "silent"} : ServerChanges(e, does)
    BY <2>1, <2>2, <2>5 DEF ServerChanges, Handler
  <2>6. CASE \E o \in Owner : Transfer(o)
    BY <2>1, <2>6 DEF Transfer
  <2> QED BY <2>3, <2>4, <2>5, <2>6 DEF Next
<1>2. TypesAndSlots => TypeOK
  BY DEF TypesAndSlots
<1> QED BY <1>1, <1>2, TypesAndSlotsInit, TypesAndSlotsNext, PTL DEF Spec, LookupsGoForward
=============================================================================
