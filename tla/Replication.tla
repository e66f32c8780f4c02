---------------------------- MODULE Replication ----------------------------
(***************************************************************************)
(* Where the copies of one content set are: a node publishes the set and   *)
(* pushes copies to the peers closest to it, and every node that holds it  *)
(* counts the provider records that the DHT has of it and pushes it to     *)
(* more peers when they are too few (replicator).  Both ends of a push are *)
(* modelled, each with what the other has yet to learn of it; what a       *)
(* receiver does to its index is in ContentService.                        *)
(*                                                                         *)
(* Closest is the answer of the DHT to a query for the closest peers: a    *)
(* fixed order, the same for every node, of no more nodes than the DHT     *)
(* returns.  A provider record outlives the interval between two           *)
(* announcements of a node that stays up, and expires some time after it.  *)
(***************************************************************************)
EXTENDS Integers, FiniteSets, Sequences, SequencesExt

CONSTANTS
    Node,
    Publisher,  \* the node whose operator publishes the set
    Open,       \* the nodes whose policy has room for a set of others
    Reading,    \* the nodes whose users may fetch the set
    Closest,    \* GetClosestPeers of the root
    Replicas,   \* FREEDOM_CONTENT_REPLICAS
    MaxFaults   \* bound on what goes wrong

ASSUME ReplicationAssumption ==
    /\ IsFiniteSet(Node)
    /\ Publisher \in Node /\ Open \subseteq Node /\ Reading \subseteq Node
    /\ Closest \in Seq(Node)
    /\ \A n \in Node : \E i \in DOMAIN Closest : Closest[i] = n
    /\ \A i, j \in DOMAIN Closest : Closest[i] = Closest[j] => i = j
    /\ Replicas \in Nat /\ Replicas >= 1
    /\ MaxFaults \in Nat

Worker == (Node \X {"heal"}) \cup {<<Publisher, "replicate">>}
Home(w) == w[1]

VARIABLES
    up,           \* the nodes that run
    copy,         \* what each node's index holds of the set
    record,       \* the nodes that have a provider record
    unannounced,  \* the nodes that have yet to announce a copy they have got
    arrived,      \* the nodes that have all blobs of a push whose pusher is gone
    pass,         \* each worker: peers it has yet to try, replicas it has yet to place
    stream,       \* each worker's push stream
    fetched,      \* the nodes whose users have fetched it
    faults,       \* how often something went wrong
    lacked        \* whether a push has failed because its pusher lacks the set (history)

vars == <<up, copy, record, unannounced, arrived, pass, stream, fetched, faults, lacked>>

Target == Replicas + 1

Order == {e \in Node \X Node : \E i, j \in DOMAIN Closest : i < j /\ e = <<Closest[i], Closest[j]>>}
Closer(p, q) == <<p, q>> \in Order

Holds(n) == copy[n] # "none"

NoStream == [to |-> Publisher, stage |-> "none"]
Resting == [at |-> "idle", rest |-> {}, need |-> 0]

Init ==
    /\ up = Node
    /\ copy = [n \in Node |-> "none"]
    /\ record = {}
    /\ unannounced = {}
    /\ arrived = {}
    /\ pass = [w \in Worker |-> Resting]
    /\ stream = [w \in Worker |-> NoStream]
    /\ fetched = {}
    /\ faults = 0
    /\ lacked = FALSE

Fault == faults < MaxFaults /\ faults' = faults + 1

----------------------------------------------------------------------------
(* The pusher: replicate and heal                                          *)

Become(w, state) == pass' = [pass EXCEPT ![w] = state]

At(w, place) == Home(w) \in up /\ pass[w].at = place

(* A peer has answered, or its stream has ended: the next peer's turn.     *)
NextPeer(w, placed) ==
    /\ Become(w, [pass[w] EXCEPT !.at = "ready", !.need = @ - placed])
    /\ stream' = [stream EXCEPT ![w] = NoStream]

Stage(w, stage) == stream' = [stream EXCEPT ![w].stage = stage]

(* PutStream: the set is in the store and the index, to be announced.      *)
Publish ==
    /\ Publisher \in up
    /\ copy[Publisher] = "none"
    /\ copy' = [copy EXCEPT ![Publisher] = "whole"]
    /\ unannounced' = unannounced \cup {Publisher}
    /\ UNCHANGED <<up, record, arrived, pass, stream, fetched, faults, lacked>>

(* PutStream goes on when the announcement is over (replicateOwned,        *)
(* replicate), to no effect if the DHT names no closest peers.  A set is   *)
(* published once, so its worker has not been at work before.              *)
ReplicateOwned ==
    \/ /\ At(<<Publisher, "replicate">>, "idle")
       /\ Become(<<Publisher, "replicate">>,
                 [at |-> "ready", need |-> Replicas,
                  rest |-> ToSet(Closest) \ {Publisher}])
    \/ UNCHANGED pass

(* A lookup of providers that does not find the publisher, because it ends *)
(* too early or the publisher has yet to announce, has gone wrong.         *)
Missed(known) == (IF Publisher \in (record \cup unannounced) \ known THEN 1 ELSE 0)

(* The pass of n that takes the nodes it knows of for the live holders.    *)
Tops(n, known) ==
    /\ At(<<n, "heal">>, "idle")
    /\ Holds(n)
    /\ Cardinality(known) < Target
    /\ Become(<<n, "heal">>,
              [at |-> "ready", need |-> Target - Cardinality(known),
               rest |-> ToSet(Closest) \ known])
    /\ faults + Missed(known) <= MaxFaults
    /\ faults' = faults + Missed(known)
    /\ UNCHANGED <<up, copy, record, unannounced, arrived, stream, fetched, lacked>>

(* Faulty: a node heals what it published alone. *)
HealOwned(n) == n = Publisher /\ \E found \in SUBSET record : Tops(n, found \cup {n})

(* healAll, heal: a node that holds the set looks up its provider records, *)
(* and takes each that it finds in time for a live holder.  Those are not  *)
(* pushed to.  With enough of them, or with no answer to the query for the *)
(* closest peers, the pass ends where it began.                            *)
Heal(n) == \E found \in SUBSET record : Tops(n, found \cup {n})

HealFindingAll(n) == Heal(n) /\ Tops(n, record \cup {n})

(* The turn of peer q, the closest of those it has yet to try. *)
Approach(w, q, stage) ==
    /\ At(w, "ready")
    /\ pass[w].need > 0
    /\ \A r \in pass[w].rest : ~ Closer(r, q)
    /\ Become(w, [pass[w] EXCEPT !.at = "waiting", !.rest = @ \ {q}])
    /\ stream' = [stream EXCEPT ![w] = [to |-> q, stage |-> stage]]

(* Faulty: an offer to a peer that is down waits for it. *)
OfferPatiently(w) ==
    /\ \E q \in pass[w].rest : Approach(w, q, "offered")
    /\ UNCHANGED <<up, copy, record, unannounced, arrived, fetched, faults, lacked>>

(* loadContentSet, which needs the root alone and fails without it, and    *)
(* pushTo: the dialing of a peer that is down ends by its timeout.         *)
Offer(w) ==
    /\ \E q \in pass[w].rest : Approach(w, q, IF q \in up /\ Holds(Home(w)) THEN "offered" ELSE "dead")
    /\ lacked' = (lacked \/ ~ Holds(Home(w)))
    /\ UNCHANGED <<up, copy, record, unannounced, arrived, fetched, faults>>

PassEnds(w) ==
    /\ At(w, "ready")
    /\ pass[w].need <= 0 \/ pass[w].rest = {}
    /\ Become(w, Resting)
    /\ UNCHANGED <<up, copy, record, unannounced, arrived, stream, fetched, faults, lacked>>

(* Faulty: the holder that has the set already is not counted. *)
AnswerNotCounted(w) ==
    /\ At(w, "waiting")
    /\ stream[w].stage \in {"have", "stored", "declined", "failed"}
    /\ NextPeer(w, IF stream[w].stage = "stored" THEN 1 ELSE 0)
    /\ UNCHANGED <<up, copy, record, unannounced, arrived, fetched, faults, lacked>>

(* readStatusByte: pushHave or pushDecline for an answer, or the final     *)
(* byte.                                                                   *)
Answered(w) ==
    /\ At(w, "waiting")
    /\ stream[w].stage \in {"have", "stored", "declined", "failed"}
    /\ NextPeer(w, IF stream[w].stage \in {"have", "stored"} THEN 1 ELSE 0)
    /\ UNCHANGED <<up, copy, record, unannounced, arrived, fetched, faults, lacked>>

(* Faulty: a pusher that lacks a blob goes on and leaves the stream open. *)
SendBlobsLeavingOpen(w) ==
    /\ At(w, "waiting")
    /\ stream[w].stage = "accepted"
    /\ \/ /\ copy[Home(w)] = "whole"
          /\ Stage(w, "sent")
          /\ pass' = pass
       \/ /\ copy[Home(w)] # "whole"
          /\ Become(w, [pass[w] EXCEPT !.at = "ready"])
          /\ stream' = stream
    /\ UNCHANGED <<up, copy, record, unannounced, arrived, fetched, faults, lacked>>

(* pushOnStream: the blobs of the set, unless one is missing.              *)
SendBlobs(w) ==
    /\ At(w, "waiting")
    /\ stream[w].stage = "accepted"
    /\ \/ /\ copy[Home(w)] = "whole"
          /\ Stage(w, "sent")
          /\ UNCHANGED <<pass, lacked>>
       \/ /\ copy[Home(w)] # "whole"
          /\ NextPeer(w, 0)
          /\ lacked' = TRUE
    /\ UNCHANGED <<up, copy, record, unannounced, arrived, fetched, faults>>

(* Faulty: a peer that was too slow is put back among those to try. *)
DeadlineRetries(w) ==
    /\ At(w, "waiting")
    /\ stream[w].stage = "dead"
    /\ Become(w, [pass[w] EXCEPT !.at = "ready", !.rest = @ \cup {stream[w].to}])
    /\ stream' = [stream EXCEPT ![w] = NoStream]
    /\ UNCHANGED <<up, copy, record, unannounced, arrived, fetched, faults, lacked>>

(* The deadline of a stream whose other end is gone (pushDeadline).        *)
Deadline(w) ==
    /\ At(w, "waiting")
    /\ stream[w].stage = "dead"
    /\ NextPeer(w, 0)
    /\ UNCHANGED <<up, copy, record, unannounced, arrived, fetched, faults, lacked>>

----------------------------------------------------------------------------
(* The receiver: handlePushStream                                          *)

Asked(w, stage) == stream[w].stage = stage /\ stream[w].to \in up

(* The answer to an offer: whatever the index has under the root is a copy. *)
Reply(w) ==
    LET q == stream[w].to
    IN  /\ Asked(w, "offered")
        /\ \/ Holds(q) /\ Stage(w, "have") /\ UNCHANGED faults
           \/ ~ Holds(q) /\ q \in Open /\ Stage(w, "accepted") /\ UNCHANGED faults
           \/ ~ Holds(q) /\ q \notin Open /\ Stage(w, "declined") /\ UNCHANGED faults
           \/ ~ Holds(q) /\ q \in Open /\ Stage(w, "declined") /\ Fault
        /\ UNCHANGED <<up, copy, record, unannounced, arrived, pass, fetched, lacked>>

Store(q) ==
    /\ copy' = [copy EXCEPT ![q] = "whole"]
    /\ unannounced' = unannounced \cup {q}

(* Every blob has arrived and the set is recorded, or the budget has been   *)
(* filled in the meantime and what was received is rolled back.             *)
Commit(w) ==
    /\ Asked(w, "sent")
    /\ \/ Store(stream[w].to) /\ Stage(w, "stored") /\ UNCHANGED faults
       \/ UNCHANGED <<copy, unannounced>> /\ Stage(w, "failed") /\ Fault
    /\ UNCHANGED <<up, record, arrived, pass, fetched, lacked>>

(* The same with a pusher that has given up or died. *)
CommitUnseen(q) ==
    /\ q \in arrived \cap up
    /\ Store(q)
    /\ arrived' = arrived \ {q}
    /\ UNCHANGED <<up, record, pass, stream, fetched, faults, lacked>>

(* announce: of a copy that was received or fetched, in the background,     *)
(* even if it was evicted meanwhile, or of the set that is published.  It   *)
(* may fail, which is not tried again before provideLoop's next turn.       *)
Announce(q) ==
    /\ q \in unannounced
    /\ unannounced' = unannounced \ {q}
    /\ \/ record' = record \cup {q} /\ UNCHANGED faults
       \/ UNCHANGED record /\ Fault
    /\ IF q = Publisher THEN ReplicateOwned ELSE UNCHANGED pass
    /\ UNCHANGED <<up, copy, arrived, stream, fetched, lacked>>

----------------------------------------------------------------------------
(* Nodes, their users and the DHT                                          *)

(* provideLoop, provideAll: what the store holds is announced again.       *)
Provide(n) ==
    /\ n \in up \ record
    /\ Holds(n)
    /\ record' = record \cup {n}
    /\ UNCHANGED <<up, copy, unannounced, arrived, pass, stream, fetched, faults, lacked>>

(* The DHT forgets. *)
Expire(n) ==
    /\ n \in record
    /\ n \notin up \/ ~ Holds(n)
    /\ record' = record \ {n}
    /\ UNCHANGED <<up, copy, unannounced, arrived, pass, stream, fetched, faults, lacked>>

(* A stream breaks, or its pusher's deadline passes while the receiver      *)
(* still works: it may have all it needs by then.                           *)
Break(w) ==
    /\ At(w, "waiting")
    /\ stream[w].stage # "dead"
    /\ NextPeer(w, 0)
    /\ arrived' \in {arrived} \cup (IF stream[w].stage = "sent" THEN {arrived \cup {stream[w].to}} ELSE {})
    /\ Fault
    /\ UNCHANGED <<up, copy, record, unannounced, fetched, lacked>>

(* Crash and Restart: the index and the store are on disk.  What the node   *)
(* was receiving is rolled back, by its peers' deadlines or by the restart; *)
(* what it had sent may still be stored.                                    *)
Crash(n) ==
    /\ n \in up
    /\ up' = up \ {n}
    /\ pass' = [w \in Worker |-> IF Home(w) = n THEN Resting ELSE pass[w]]
    /\ stream' = [w \in Worker |->
                     IF Home(w) = n THEN NoStream
                     ELSE IF stream[w].to = n /\ stream[w].stage \in {"offered", "accepted", "sent"}
                     THEN [stream[w] EXCEPT !.stage = "dead"]
                     ELSE stream[w]]
    /\ \E lost \in SUBSET {stream[w].to : w \in {v \in Worker : Home(v) = n /\ stream[v].stage = "sent"}} :
          arrived' = (arrived \cup lost) \ {n}
    /\ unannounced' = unannounced \ {n}
    /\ Fault
    /\ UNCHANGED <<copy, record, fetched, lacked>>

Restart(n) ==
    /\ n \in Node \ up
    /\ up' = up \cup {n}
    /\ UNCHANGED <<copy, record, unannounced, arrived, pass, stream, fetched, faults, lacked>>

(* Room is made for another set: never of the operator's own one.           *)
Evict(n) ==
    /\ n \in up \ {Publisher}
    /\ Holds(n)
    /\ copy' = [copy EXCEPT ![n] = "none"]
    /\ Fault
    /\ UNCHANGED <<up, record, unannounced, arrived, pass, stream, fetched, lacked>>

(* FetchStream: the set is recorded and announced when its root has been    *)
(* fetched; its chunks follow as they are read, or never.                   *)
Fetch(n) ==
    /\ n \in ((Reading \ fetched) \cap up) \cap Open
    /\ ~ Holds(n)
    /\ \E p \in up : copy[p] = "whole" /\ p \in record
    /\ copy' = [copy EXCEPT ![n] = "partial"]
    /\ unannounced' = unannounced \cup {n}
    /\ fetched' = fetched \cup {n}
    /\ UNCHANGED <<up, record, arrived, pass, stream, faults, lacked>>

ReadOn(n) ==
    /\ n \in up
    /\ copy[n] = "partial"
    /\ \E p \in up : copy[p] = "whole"
    /\ copy' = [copy EXCEPT ![n] = "whole"]
    /\ UNCHANGED <<up, record, unannounced, arrived, pass, stream, fetched, faults, lacked>>

Push(w) ==
    \/ Offer(w)
    \/ PassEnds(w)
    \/ Answered(w)
    \/ SendBlobs(w)
    \/ Deadline(w)

Serve(w) == Reply(w) \/ Commit(w)

Next ==
    \/ Publish
    \/ \E w \in Worker : Push(w) \/ Serve(w) \/ Break(w)
    \/ \E n \in Node : Heal(n) \/ CommitUnseen(n) \/ Announce(n) \/ Provide(n) \/ Expire(n)
    \/ \E n \in Node : Crash(n) \/ Restart(n) \/ Evict(n) \/ Fetch(n) \/ ReadOn(n)

(* What the code and the DHT do by themselves: passes and streams go on,    *)
(* timers fire, records expire, and a pass begins that needs no lookup to   *)
(* miss a record.  Nothing that goes wrong has to, a node that is down may  *)
(* stay down, and nobody has to read on.                                    *)
Fairness ==
    /\ \A w \in Worker : WF_vars(Push(w)) /\ WF_vars(Serve(w))
    /\ \A n \in Node : WF_vars(HealFindingAll(n)) /\ WF_vars(CommitUnseen(n)) /\ WF_vars(Announce(n))
    /\ \A n \in Node : WF_vars(Provide(n)) /\ WF_vars(Expire(n))

Spec == Init /\ [][Next]_vars /\ Fairness

----------------------------------------------------------------------------
(* Properties                                                              *)

TypeOK ==
    /\ up \subseteq Node
    /\ copy \in [Node -> {"none", "partial", "whole"}]
    /\ record \subseteq Node
    /\ unannounced \subseteq up
    /\ arrived \subseteq Node
    /\ pass \in [Worker -> [at : {"idle", "ready", "waiting"}, rest : SUBSET Node, need : 0 .. Target]]
    /\ stream \in [Worker -> [to : Node, stage : {"none", "offered", "have", "declined", "accepted",
                                                  "sent", "stored", "failed", "dead"}]]
    /\ \A w \in Worker : pass[w].at = "waiting" <=> stream[w].stage # "none"
    /\ fetched \subseteq Reading
    /\ faults \in 0 .. MaxFaults
    /\ lacked \in BOOLEAN

Holders == {n \in Node : Holds(n)}

(* All healers converge on the same target set (replicate.go): however     *)
(* the passes of several holders overlap, they make no more copies than    *)
(* the target asks for, but for one to each thing that went wrong and to   *)
(* each user who fetched the set.  An announcement that fails went wrong,  *)
(* and so did a lookup that misses the publisher, who may be farther away  *)
(* than the peers that are to hold copies; missing another holder costs no *)
(* copy.  (A pass whose own copy is gone or not whole yet skips peers that *)
(* others will choose, as many as there are: no such bound holds after     *)
(* that.)                                                                  *)
HealersConverge ==
    ~ lacked => Cardinality(Holders) <= Target + faults + Cardinality(fetched)

(* How often a stream may still change hands.                              *)
ToCome(stage) == CASE stage = "offered" -> 3 [] stage = "accepted" -> 2 [] stage = "sent" -> 1 [] OTHER -> 0

(* A worker stands still, goes on to another peer, or further with one. *)
Forward(w) ==
    \/ pass'[w] = pass[w] /\ stream'[w] = stream[w]
    \/ /\ pass'[w].rest \subseteq pass[w].rest /\ pass'[w].need <= pass[w].need
       /\ \/ pass'[w].rest # pass[w].rest
          \/ pass[w].at = "waiting" /\ pass'[w].at = "ready"
          \/ /\ pass'[w].at = pass[w].at /\ stream'[w].to = stream[w].to
             /\ ToCome(stream'[w].stage) < ToCome(stream[w].stage)

(* A pass under way goes on to another peer or further with this one, and  *)
(* never comes back to one it has tried (heal, pushTo): no refusal, broken *)
(* stream, crash or restart of the other end makes it longer than its      *)
(* peers, each with one push, nor asks it for more copies.                 *)
PassesGoForward ==
    [][\A w \in Worker : pass[w].at # "idle" /\ pass'[w].at # "idle" => Forward(w)]_vars

(* Whatever breaks, every pass gets to its end, and so to the next one,    *)
(* unless the node goes down (pushDeadline, pushTo).                       *)
EveryPassEnds == \A w \in Worker : []<>(pass[w].at = "idle")

Live(kind) == {n \in up : copy[n] \in kind}

(* As many copies as the target asks for, or as there are nodes for them.  *)
Enough(kind) ==
    \/ Cardinality(Live(kind)) >= Target
    \/ (up \cap Open) \subseteq Live(kind)

(* After whatever has gone wrong, as long as a node with the whole set is  *)
(* up: the nodes that have the set become as many as the target again      *)
(* (healLoop), the records of nodes that are gone notwithstanding.         *)
HoldersToppedUp ==
    Live({"whole"}) # {} ~> Live({"whole"}) = {} \/ Enough({"whole", "partial"})

(* The same of whole copies, which it takes for the content to survive its *)
(* publisher (replicate.go): each holder is one more replica to rely on.   *)
CopiesToppedUp ==
    Live({"whole"}) # {} ~> Live({"whole"}) = {} \/ Enough({"whole"})
=============================================================================
