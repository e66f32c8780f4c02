------------------------------ MODULE Queries ------------------------------
(***************************************************************************)
(* DNS queries for one bare name that a node answers at the same time: the *)
(* handlers and their slots (handleFN), the resolver with its cache, the   *)
(* registry's lookup of the owner with the cache of owners, and the one    *)
(* Electrum client under all lookups, which sends one request at a time    *)
(* and fails over between servers.  What a lookup reads from the chain is  *)
(* in BareNames; here it is a number of calls, for one of which the server *)
(* reads what settles the owner.  A query for a full name goes as one      *)
(* whose owner is cached.                                                  *)
(*                                                                         *)
(* Every timer holds the ticks it has left and has run out at 0.           *)
(***************************************************************************)
EXTENDS Integers, FiniteSets

CONSTANTS
    Query,
    Owner,
    FirstOwner,    \* who owns the name at the start
    Endpoints,     \* how many Electrum servers are configured
    StartAt,       \* the endpoint that last connected: 0 in a new process
    MaxInflight,   \* maxInflightFN
    Calls,         \* requests of one owner lookup
    Timeout,       \* dnsResolveTimeout
    ChainTimeout,  \* the registry's own timeout of an owner lookup
    OwnerTTL,      \* ownerCacheTTL
    RecordTTL,     \* smallest TTL of the owner's resource records
    MaxChanges,    \* bound on changes of servers and owners
    NoOwner, Nobody, NoConn, Broken

ASSUME QueriesAssumption ==
    /\ IsFiniteSet(Query) /\ Nobody \notin Query
    /\ FirstOwner \in Owner /\ NoOwner \notin Owner
    /\ Endpoints \in Nat \ {0} /\ StartAt \in 0 .. Endpoints - 1
    /\ NoConn \notin Nat /\ Broken \notin Nat /\ NoConn # Broken
    /\ MaxInflight \in Nat \ {0} /\ Calls \in Nat \ {0}
    /\ Timeout \in Nat \ {0} /\ ChainTimeout \in Nat \ {0}
    /\ OwnerTTL \in Nat \ {0} /\ RecordTTL \in Nat \ {0}
    /\ MaxChanges \in Nat

VARIABLES
    query,       \* each query's handler
    slots,       \* the slots taken
    cache,       \* the resolver's entry of the name
    ownerCache,  \* the registry's entry of the name
    holder,      \* the query whose lookup has the client's lock
    conn,        \* the client's connection
    lastGood,    \* the endpoint that last connected
    server,      \* what each endpoint does
    owner,       \* who owns the name on the chain
    gone,        \* how long ago each owner was last the name's
    changes      \* how often a server or the owner has changed

client == <<holder, conn, lastGood>>
world == <<server, owner, gone, changes>>
vars == <<query, slots, cache, ownerCache, client, world>>

Endpoint == 0 .. Endpoints - 1

(* An answer is of records of whoever owned the name at most this many     *)
(* ticks ago: a timer that starts at T is alive for T - 1 ticks.  A lookup *)
(* may settle the owner with its first call, and cache it with its last.   *)
Recent == (ChainTimeout - 1) + (OwnerTTL - 1) + (Timeout - 1) + (RecordTTL - 1)

NoEntry == [of |-> NoOwner, left |-> 0]

Resting == [at |-> "idle", of |-> NoOwner, left |-> 0, chain |-> 0,
            calls |-> 0, tries |-> 0, late |-> FALSE, down |-> {}]

Answered(code, o) == [Resting EXCEPT !.at = code, !.of = o]

(* At the start no lookup is under way.  An earlier one may have left the  *)
(* client at any endpoint, and any of the servers may be down.             *)
Init ==
    /\ query = [q \in Query |-> Resting]
    /\ slots = 0
    /\ cache = NoEntry /\ ownerCache = NoEntry
    /\ holder = Nobody /\ conn = NoConn /\ lastGood = StartAt
    /\ server \in [Endpoint -> {"up", "refusing"}]
    /\ owner = FirstOwner
    /\ gone = [o \in Owner |-> IF o = owner THEN 0 ELSE Recent + 1]
    /\ changes = 0

At(q, place) == query[q].at = place

----------------------------------------------------------------------------
(* The handler and the resolver                                            *)

(* The handler returns, and gives its slot back.                           *)
Answer(q, code, o) ==
    /\ query' = [query EXCEPT ![q] = Answered(code, o)]
    /\ slots' = slots - 1

Ask(q) ==
    /\ At(q, "idle")
    /\ slots < MaxInflight
    /\ slots' = slots + 1
    /\ query' = [query EXCEPT ![q] = [Resting EXCEPT !.at = "resolve", !.left = Timeout]]
    /\ UNCHANGED <<cache, ownerCache, client, world>>

Shed(q) ==
    /\ At(q, "idle")
    /\ slots >= MaxInflight
    /\ query' = [query EXCEPT ![q] = Answered("shed", NoOwner)]
    /\ UNCHANGED <<slots, cache, ownerCache, client, world>>

AnswerFromCache(q) ==
    /\ At(q, "resolve")
    /\ cache.left > 0
    /\ Answer(q, "found", cache.of)
    /\ UNCHANGED <<cache, ownerCache, client, world>>

OwnerCached(q) ==
    /\ At(q, "resolve")
    /\ cache.left = 0 /\ ownerCache.left > 0
    /\ query' = [query EXCEPT ![q].at = "walk", ![q].of = ownerCache.of]
    /\ UNCHANGED <<slots, cache, ownerCache, client, world>>

(* The lookup's context is the registry's own: the query's is not passed.  *)
LookUpOwner(q) ==
    /\ At(q, "resolve")
    /\ cache.left = 0 /\ ownerCache.left = 0
    /\ query' = [query EXCEPT ![q].at = "wait", ![q].chain = ChainTimeout,
                              ![q].calls = Calls]
    /\ UNCHANGED <<slots, cache, ownerCache, client, world>>

WalkFinds(q) ==
    /\ At(q, "walk")
    /\ query[q].left > 0
    /\ cache' = [of |-> query[q].of, left |-> RecordTTL]
    /\ Answer(q, "found", query[q].of)
    /\ UNCHANGED <<ownerCache, client, world>>

WalkFails(q) ==
    /\ At(q, "walk")
    /\ Answer(q, IF query[q].left = 0 THEN "servfail" ELSE "nxdomain", NoOwner)
    /\ UNCHANGED <<cache, ownerCache, client, world>>

----------------------------------------------------------------------------
(* The Electrum client: a lookup holds the lock for one call at a time,    *)
(* connecting included.  Waiting for the lock no deadline cuts short.      *)

Lock(q) ==
    /\ At(q, "wait")
    /\ holder = Nobody
    /\ holder' = q
    /\ IF conn = NoConn
          THEN query' = [query EXCEPT ![q].at = "dial", ![q].tries = 0, ![q].late = FALSE,
                                      ![q].down = {e \in Endpoint : server[e] # "up"}]
          ELSE query' = [query EXCEPT ![q].at = "call"]
    /\ UNCHANGED <<slots, cache, ownerCache, conn, lastGood, world>>

(* mutant: the endpoints after the last good one, and not those before it *)
DialedOnwards(q) ==
    IF lastGood + query[q].tries < Endpoints THEN lastGood + query[q].tries ELSE Endpoints - 1

Dialed(q) == (lastGood + query[q].tries) % Endpoints

DialSucceeds(q) ==
    /\ At(q, "dial")
    /\ server[Dialed(q)] = "up" /\ query[q].chain > 0
    /\ conn' = Dialed(q)
    /\ lastGood' = Dialed(q)
    /\ query' = [query EXCEPT ![q].at = "call", ![q].tries = 0, ![q].late = FALSE,
                              ![q].down = {}]
    /\ UNCHANGED <<slots, cache, ownerCache, holder, world>>

(* A silent server is given up within the lookup's time if its dial has a  *)
(* timeout of its own (ssl), and else when that time is over.              *)
NoDial(q) ==
    /\ At(q, "dial")
    /\ server[Dialed(q)] # "up" \/ query[q].chain = 0

(* Whether any dial ended in a timeout that counts as a deadline exceeded: *)
(* one of a silent server may (connecting), or may not (negotiating).      *)
TimedOut(q) ==
    IF server[Dialed(q)] = "silent" \/ query[q].chain = 0
       THEN {query[q].late, TRUE} ELSE {query[q].late}

(* mutant: one try too many *)
NextDialTooFar(q) ==
    /\ NoDial(q)
    /\ query[q].tries + 1 <= Endpoints
    /\ query' = [query EXCEPT ![q].tries = @ + 1]
    /\ UNCHANGED <<slots, cache, ownerCache, client, world>>

(* mutant: around the endpoints without end *)
NextDialAround(q) ==
    /\ NoDial(q)
    /\ query' = [query EXCEPT ![q].tries = (@ + 1) % Endpoints]
    /\ UNCHANGED <<slots, cache, ownerCache, client, world>>

NextDial(q) ==
    /\ NoDial(q)
    /\ query[q].tries + 1 < Endpoints
    /\ \E late \in TimedOut(q) :
          query' = [query EXCEPT ![q].tries = @ + 1, ![q].late = late]
    /\ UNCHANGED <<slots, cache, ownerCache, client, world>>

(* mutant: the slot is given back with an answer only *)
LookupFailsHoldingSlot(q, code) ==
    /\ holder' = Nobody
    /\ query' = [query EXCEPT ![q] = Answered(code, NoOwner)]
    /\ UNCHANGED <<slots, cache, ownerCache, lastGood, world>>

LookupFails(q, code) ==
    /\ holder' = Nobody
    /\ Answer(q, code, NoOwner)
    /\ UNCHANGED <<cache, ownerCache, lastGood, world>>

(* One dial that exceeded its deadline among those that failed makes the   *)
(* failure a temporary one; without it, the name "does not exist".         *)
ConnectFails(q) ==
    /\ NoDial(q)
    /\ query[q].tries + 1 = Endpoints
    /\ \E late \in TimedOut(q) : LookupFails(q, IF late THEN "servfail" ELSE "nxdomain")
    /\ UNCHANGED conn

(* mutant: the calls of a lookup are not bounded by its timeout *)
ConnectedForever(q) ==
    /\ At(q, "call")
    /\ conn # Broken
    /\ server[conn] = "up"

Connected(q) ==
    /\ At(q, "call")
    /\ conn # Broken /\ query[q].chain > 0
    /\ server[conn] = "up"

(* The server reads the history that shows the NFT where it is: whatever   *)
(* calls come after it, they do not ask who owns the name again.           *)
Settle(q) ==
    /\ Connected(q)
    /\ query[q].of = NoOwner
    /\ query' = [query EXCEPT ![q].of = owner]
    /\ UNCHANGED <<slots, cache, ownerCache, client, world>>

(* The reply of a call; the last one of the lookup puts the owner into the *)
(* cache, for its full time.                                               *)
Reply(q) ==
    /\ Connected(q)
    /\ holder' = Nobody
    /\ \/ /\ query[q].calls > 1
          /\ query' = [query EXCEPT ![q].at = "wait", ![q].calls = @ - 1]
          /\ UNCHANGED ownerCache
       \/ /\ query[q].calls = 1 /\ query[q].of # NoOwner
          /\ ownerCache' = [of |-> query[q].of, left |-> OwnerTTL]
          /\ query' = [query EXCEPT ![q] = [Resting EXCEPT !.at = "walk",
                                              !.of = query[q].of, !.left = query[q].left]]
    /\ UNCHANGED <<slots, cache, conn, lastGood, world>>

(* The server answers with an error, which leaves the connection open.     *)
RpcError(q) ==
    /\ Connected(q)
    /\ LookupFails(q, "nxdomain")
    /\ UNCHANGED conn

(* A reply that is too long or not of the expected form closes it.         *)
BadReply(q) ==
    /\ Connected(q)
    /\ conn' = NoConn
    /\ LookupFails(q, "nxdomain")

(* mutant: no deadline on the socket *)
CallNeverTimesOut(q) == FALSE

CallTimedOut(q) == query[q].chain = 0

(* A transport error closes the connection, whoever else it served.  No    *)
(* deadline of a socket counts as a context's.                             *)
CallFails(q) ==
    /\ At(q, "call")
    /\ conn = Broken \/ CallTimedOut(q)
    /\ conn' = NoConn
    /\ LookupFails(q, "nxdomain")

----------------------------------------------------------------------------
(* The world: time, servers and the chain                                  *)

Less(n) == IF n > 0 THEN n - 1 ELSE 0

Tick ==
    /\ query' = [q \in Query |-> [query[q] EXCEPT !.left = Less(@), !.chain = Less(@)]]
    /\ cache' = IF cache.left > 1 THEN [cache EXCEPT !.left = @ - 1] ELSE NoEntry
    /\ ownerCache' = IF ownerCache.left > 1
                        THEN [ownerCache EXCEPT !.left = @ - 1] ELSE NoEntry
    /\ gone' = [o \in Owner |-> IF o = owner \/ gone[o] > Recent
                                   THEN gone[o] ELSE gone[o] + 1]
    /\ UNCHANGED <<slots, client, server, owner, changes>>

Change == changes < MaxChanges /\ changes' = changes + 1

(* A server that goes down breaks its connection, even if it comes back.   *)
ServerChanges(e, does) ==
    /\ Change
    /\ server[e] # does
    /\ server' = [server EXCEPT ![e] = does]
    /\ conn' = IF conn = e /\ does = "refusing" THEN Broken ELSE conn
    /\ query' = [q \in Query |-> IF does # "up" /\ At(q, "dial")
                                    THEN [query[q] EXCEPT !.down = @ \cup {e}]
                                    ELSE query[q]]
    /\ UNCHANGED <<slots, cache, ownerCache, holder, lastGood, owner, gone>>

Transfer(o) ==
    /\ Change
    /\ o # owner
    /\ owner' = o
    /\ gone' = [gone EXCEPT ![o] = 0]
    /\ UNCHANGED <<query, slots, cache, ownerCache, client, server>>

----------------------------------------------------------------------------

Handle(q) ==
    \/ AnswerFromCache(q) \/ OwnerCached(q) \/ LookUpOwner(q)
    \/ WalkFinds(q) \/ WalkFails(q)
    \/ Lock(q)
    \/ DialSucceeds(q) \/ NextDial(q) \/ ConnectFails(q)
    \/ Reply(q) \/ RpcError(q) \/ BadReply(q) \/ CallFails(q)

Next ==
    \/ \E q \in Query : Ask(q) \/ Shed(q) \/ Handle(q) \/ Settle(q)
    \/ Tick
    \/ \E e \in Endpoint, does \in {"up", "refusing", "silent"} : ServerChanges(e, does)
    \/ \E o \in Owner : Transfer(o)

(* Goroutines run, locks are granted and time passes.                      *)
Fairness ==
    /\ \A q \in Query : WF_vars(Handle(q))
    /\ WF_vars(Tick)

Spec == Init /\ [][Next]_vars /\ Fairness

----------------------------------------------------------------------------
(* Properties                                                              *)

Running == {"resolve", "wait", "dial", "call", "walk"}
Done == {"found", "servfail", "nxdomain", "shed"}

Handler == [at : {"idle"} \cup Running \cup Done,
            of : Owner \cup {NoOwner},
            left : 0 .. Timeout, chain : 0 .. ChainTimeout,
            calls : 0 .. Calls, tries : 0 .. Endpoints - 1,
            late : BOOLEAN, down : SUBSET Endpoint]

(* Types: every timer within what it was set to, every try at an endpoint. *)
TypeOK ==
    /\ query \in [Query -> Handler]
    /\ slots \in 0 .. MaxInflight
    /\ cache \in [of : Owner \cup {NoOwner}, left : 0 .. RecordTTL]
    /\ ownerCache \in [of : Owner \cup {NoOwner}, left : 0 .. OwnerTTL]
    /\ holder \in Query \cup {Nobody}
    /\ conn \in Endpoint \cup {NoConn, Broken}
    /\ lastGood \in Endpoint
    /\ server \in [Endpoint -> {"up", "refusing", "silent"}]
    /\ owner \in Owner /\ gone \in [Owner -> 0 .. Recent + 1]
    /\ changes \in 0 .. MaxChanges

(* An answer, from either cache or none, is of the records of someone who  *)
(* owned the name recently (ResolveOwner, Resolve, handleFN): a lookup     *)
(* that the lock or a silent server holds up after it has read the owner   *)
(* caches it as if it were news, but only within the lookup's own timeout. *)
OwnersRecent ==
    [][\A q \in Query :
          ~At(q, "found") /\ query'[q].at = "found" => gone[query'[q].of] <= Recent]_vars

(* A lookup that could not connect ran out of time, or every server was    *)
(* down at some time while it tried them: failover passes no server over,  *)
(* wherever it starts (connect).                                           *)
FailuresJustified ==
    [][\A q \in Query :
          At(q, "dial") /\ query'[q].at \in {"nxdomain", "servfail"} =>
              query[q].down = Endpoint \/ query[q].chain = 0]_vars

(* How much of a query's way is left: the calls of its lookup, and within  *)
(* each the lock, the connection and the endpoints to try for it.          *)
Left(q) ==
    <<CASE At(q, "resolve") -> 3 [] query[q].at \in {"wait", "dial", "call"} -> 2
        [] At(q, "walk") -> 1 [] OTHER -> 0,
      query[q].calls,
      CASE At(q, "wait") -> 3 [] At(q, "dial") -> 2 [] At(q, "call") -> 1 [] OTHER -> 0,
      Endpoints - query[q].tries>>

Forward(q) == \E i \in 1 .. 4 : /\ Left(q)'[i] < Left(q)[i]
                              /\ \A j \in 1 .. i - 1 : Left(q)'[j] = Left(q)[j]

(* No query in handling goes back, whatever it runs into (ResolveOwner,    *)
(* call, connect): a server is dialed once per connection, no call is      *)
(* repeated over another one, so no failure makes a lookup longer than     *)
(* Calls times the lock and the dials.                                     *)
LookupsGoForward ==
    [][\A q \in Query :
          query[q].at \in Running =>
              (query'[q].at = query[q].at /\ Left(q)' = Left(q)) \/ Forward(q)]_vars

(* A query is shed only while as many others as the limit are in handling: *)
(* no failure on the way keeps a slot for good.                            *)
ShedOnlyWhenFull ==
    [][\A q \in Query :
          At(q, "idle") /\ query'[q].at = "shed" =>
              Cardinality({p \in Query : query[p].at \in Running}) = MaxInflight]_vars

(* Every query taken up is answered, although its lookup may wait behind   *)
(* others for a client whose server does not answer.                       *)
EveryQueryAnswered ==
    \A q \in Query : query[q].at \in Running ~> query[q].at \in Done
=============================================================================
