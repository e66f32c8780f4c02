------------------------- MODULE ReplicationProofs -------------------------
(***************************************************************************)
(* Theorems about Replication: its types, and that passes which overlap    *)
(* converge on the same target set.                                        *)
(***************************************************************************)
EXTENDS Replication, FiniteSetTheorems, TLAPS

(* The nodes that can come to hold the set without fetching it. *)
Near == Open \cup {Publisher}

(* The peers that worker w has yet to hear from in its pass. *)
Pending(w) == pass[w].rest \cup (IF pass[w].at = "waiting" THEN {stream[w].to} ELSE {})

(* The nodes that a pass may pass over, or offer the set to again: those   *)
(* that are down, and the publisher while the DHT does not know of it and  *)
(* is not about to.                                                        *)
Gone == (Node \ up) \cup (IF Holds(Publisher) THEN {Publisher} \ (record \cup unannounced) ELSE {})

(* The peer whose push is going to count for nothing. *)
Failing(w) == IF stream[w].stage \in {"dead", "failed", "declined"} THEN {stream[w].to} ELSE {}

(* The peers of w for each of which something has gone wrong already. *)
Doubtful(w) == (Pending(w) \cap Near) \cap (Gone \cup Failing(w) \cup {Publisher})

(* The peers closer than n that have room. *)
Before(n) == {m \in Open \ {Publisher} : Closer(m, n)}

(* Where passes put copies when f things have gone wrong. *)
Reach(f) == {Publisher} \cup {n \in Open \ {Publisher} : Cardinality(Before(n)) < Replicas + f}

(* Nothing has happened before the set is published. *)
Unpublished ==
    ~ Holds(Publisher) =>
        /\ Holders = {} /\ record = {} /\ unannounced = {} /\ arrived = {}
        /\ \A w \in Worker : pass[w].at = "idle"

Sources ==
    /\ Holders \cup record \cup unannounced \cup arrived \subseteq Near
    /\ \A w \in Worker : stream[w].stage \in {"accepted", "sent"} => stream[w].to \in Open

(* A worker waits because it needs a copy, for the closest peer it had left. *)
InOrder ==
    \A w \in Worker :
        pass[w].at = "waiting" =>
            /\ pass[w].need > 0
            /\ stream[w].to \notin pass[w].rest
            /\ \A r \in pass[w].rest : ~ Closer(r, stream[w].to)

GoneCounted == Cardinality(Gone) <= faults

(* What a worker needs, the nodes it has settled and those that are        *)
(* doubtful come to the target, but for what went wrong.                   *)
Budgeted(w) ==
    pass[w].need + Cardinality(Near \ Pending(w)) + Cardinality(Doubtful(w)) <= Target + faults

PassesBudgeted == ~ lacked => \A w \in Worker : pass[w].at # "idle" => Budgeted(w)

(* Every copy that no user fetched is, or will be, where passes put them. *)
WithinReach == ~ lacked => Holders \cup arrived \subseteq Reach(faults) \cup fetched

Inv ==
    /\ TypeOK /\ Unpublished /\ Sources /\ InOrder
    /\ GoneCounted /\ PassesBudgeted /\ WithinReach

----------------------------------------------------------------------------
(* Types                                                                   *)

(* GetClosestPeers returns every node. *)
LEMMA PeersAreNodes == ToSet(Closest) = Node
BY ReplicationAssumption, SMT DEF ReplicationAssumption, ToSet

(* No peer is closer than itself, and of two peers one is the closer. *)
LEMMA CloserOrder ==
    /\ \A x \in Node : ~ Closer(x, x)
    /\ \A x, y, z \in Node : Closer(x, y) /\ Closer(y, z) => Closer(x, z)
    /\ \A x, y \in Node : x # y => Closer(x, y) \/ Closer(y, x)
<1>1. DOMAIN Closest \subseteq Nat /\ \A i \in DOMAIN Closest : Closest[i] \in Node
  BY ReplicationAssumption DEF ReplicationAssumption
<1>2. \A x, y \in Node : Closer(x, y) <=>
          \E i, j \in DOMAIN Closest : i < j /\ Closest[i] = x /\ Closest[j] = y
  BY SMT DEF Closer, Order
<1>3. \A i, j \in DOMAIN Closest : Closest[i] = Closest[j] => i = j
  BY ReplicationAssumption DEF ReplicationAssumption
<1>4. \A n \in Node : \E i \in DOMAIN Closest : Closest[i] = n
  BY ReplicationAssumption DEF ReplicationAssumption
<1>5. \A x \in Node : ~ Closer(x, x)
  BY <1>1, <1>2, <1>3
<1>6. \A x, y, z \in Node : Closer(x, y) /\ Closer(y, z) => Closer(x, z)
  <2> SUFFICES ASSUME NEW x \in Node, NEW y \in Node, NEW z \in Node, Closer(x, y), Closer(y, z)
               PROVE  Closer(x, z)
    OBVIOUS
  <2>1. PICK i \in DOMAIN Closest, j \in DOMAIN Closest : i < j /\ Closest[i] = x /\ Closest[j] = y
    BY <1>2
  <2>2. PICK k \in DOMAIN Closest, l \in DOMAIN Closest : k < l /\ Closest[k] = y /\ Closest[l] = z
    BY <1>2
  <2>3. j = k
    BY <2>1, <2>2, <1>3
  <2>4. i < l
    BY <2>1, <2>2, <2>3, <1>1
  <2> QED
    BY <2>1, <2>2, <2>4, <1>2
<1>7. \A x, y \in Node : x # y => Closer(x, y) \/ Closer(y, x)
  <2> SUFFICES ASSUME NEW x \in Node, NEW y \in Node, x # y
               PROVE  Closer(x, y) \/ Closer(y, x)
    OBVIOUS
  <2>1. PICK i \in DOMAIN Closest : Closest[i] = x
    BY <1>4
  <2>2. PICK j \in DOMAIN Closest : Closest[j] = y
    BY <1>4
  <2>3. i < j \/ j < i
    BY <2>1, <2>2, <1>1
  <2> QED
    BY <2>1, <2>2, <2>3, <1>2
<1> QED
  BY <1>5, <1>6, <1>7

(* The home of a worker is a node. *)
LEMMA HomeIsNode == \A w \in Worker : Home(w) \in Node
BY ReplicationAssumption DEF ReplicationAssumption, Worker, Home

(* The target is a number above zero. *)
LEMMA TargetIsNat == Target \in Nat /\ Target = Replicas + 1 /\ Replicas \in Nat
BY ReplicationAssumption DEF ReplicationAssumption, Target

(* What a worker's going on to its next peer does to its pass and stream. *)
LEMMA NextPeerEffect ==
    ASSUME TypeOK, NEW w \in Worker, NEW placed \in {0, 1}, NextPeer(w, placed)
    PROVE  /\ pass'[w].at = "ready" /\ pass'[w].rest = pass[w].rest
           /\ pass'[w].need = pass[w].need - placed
           /\ stream'[w] = NoStream
           /\ \A v \in Worker \ {w} : pass'[v] = pass[v] /\ stream'[v] = stream[v]
           /\ (pass[w].need >= placed =>
                 pass' \in [Worker -> [at : {"idle", "ready", "waiting"}, rest : SUBSET Node,
                                       need : 0 .. Target]])
           /\ stream' \in [Worker -> [to : Node, stage : {"none", "offered", "have", "declined", "accepted",
                                                  "sent", "stored", "failed", "dead"}]]
<1>1. pass \in [Worker -> [at : {"idle", "ready", "waiting"}, rest : SUBSET Node, need : 0 .. Target]]
  BY DEF TypeOK
<1>2. stream \in [Worker -> [to : Node, stage : {"none", "offered", "have", "declined", "accepted",
                                                  "sent", "stored", "failed", "dead"}]]
  BY DEF TypeOK
<1>3. pass' = [pass EXCEPT ![w] = [pass[w] EXCEPT !.at = "ready", !.need = pass[w].need - placed]]
  BY DEF NextPeer, Become
<1>4. stream' = [stream EXCEPT ![w] = NoStream]
  BY DEF NextPeer
<1>5. NoStream \in [to : Node, stage : {"none", "offered", "have", "declined", "accepted",
                                        "sent", "stored", "failed", "dead"}]
  BY ReplicationAssumption DEF ReplicationAssumption, NoStream
<1>6. pass[w] \in [at : {"idle", "ready", "waiting"}, rest : SUBSET Node, need : 0 .. Target]
  BY <1>1
<1>7. ASSUME pass[w].need >= placed
      PROVE  pass[w].need - placed \in 0 .. Target
  BY <1>6, <1>7, TargetIsNat
<1> QED
  BY <1>1, <1>2, <1>3, <1>4, <1>5, <1>6, <1>7

(* What an offer does to the pass and the stream of its worker. *)
LEMMA ApproachEffect ==
    ASSUME TypeOK, NEW w \in Worker, NEW q \in pass[w].rest,
           NEW stage \in {"offered", "dead"}, Approach(w, q, stage)
    PROVE  /\ q \in Node
           /\ pass[w].at = "ready" /\ pass[w].need > 0
           /\ pass'[w].at = "waiting" /\ pass'[w].rest = pass[w].rest \ {q}
           /\ pass'[w].need = pass[w].need
           /\ stream'[w].to = q /\ stream'[w].stage = stage
           /\ \A r \in pass[w].rest : ~ Closer(r, q)
           /\ \A v \in Worker \ {w} : pass'[v] = pass[v] /\ stream'[v] = stream[v]
           /\ pass' \in [Worker -> [at : {"idle", "ready", "waiting"}, rest : SUBSET Node,
                                       need : 0 .. Target]]
           /\ stream' \in [Worker -> [to : Node, stage : {"none", "offered", "have", "declined", "accepted",
                                                  "sent", "stored", "failed", "dead"}]]
BY DEF Approach, At, Become, TypeOK

(* What a change of the stage of a stream does. *)
LEMMA StageEffect ==
    ASSUME TypeOK, NEW w \in Worker,
           NEW stage \in {"offered", "have", "declined", "accepted", "sent", "stored", "failed", "dead"},
           Stage(w, stage)
    PROVE  /\ stream'[w].to = stream[w].to /\ stream'[w].stage = stage
           /\ \A v \in Worker \ {w} : stream'[v] = stream[v]
           /\ stream' \in [Worker -> [to : Node, stage : {"none", "offered", "have", "declined", "accepted",
                                                  "sent", "stored", "failed", "dead"}]]
BY DEF Stage, TypeOK

(* What a worker that begins its pass does. *)
LEMMA BeginEffect ==
    ASSUME TypeOK, NEW w \in Worker, NEW n \in 0 .. Target, NEW rest \in SUBSET Node,
           NEW at \in {"idle", "ready"},
           Become(w, [at |-> at, rest |-> rest, need |-> n])
    PROVE  /\ pass'[w].at = at /\ pass'[w].rest = rest /\ pass'[w].need = n
           /\ \A v \in Worker \ {w} : pass'[v] = pass[v]
           /\ pass' \in [Worker -> [at : {"idle", "ready", "waiting"}, rest : SUBSET Node,
                                       need : 0 .. Target]]
BY DEF Become, TypeOK

(* What a crash does to the workers. *)
LEMMA CrashEffect ==
    ASSUME TypeOK, NEW n \in Node, Crash(n)
    PROVE  /\ \A w \in Worker : Home(w) = n => pass'[w] = Resting /\ stream'[w] = NoStream
           /\ \A w \in Worker : Home(w) # n => pass'[w] = pass[w]
           /\ \A w \in Worker : Home(w) # n =>
                 \/ stream'[w] = stream[w]
                 \/ /\ stream[w].to = n /\ stream[w].stage \in {"offered", "accepted", "sent"}
                    /\ stream'[w].to = n /\ stream'[w].stage = "dead"
           /\ pass' \in [Worker -> [at : {"idle", "ready", "waiting"}, rest : SUBSET Node,
                                       need : 0 .. Target]]
           /\ stream' \in [Worker -> [to : Node, stage : {"none", "offered", "have", "declined", "accepted",
                                                  "sent", "stored", "failed", "dead"}]]
<1>1. pass \in [Worker -> [at : {"idle", "ready", "waiting"}, rest : SUBSET Node, need : 0 .. Target]]
  BY DEF TypeOK
<1>2. stream \in [Worker -> [to : Node, stage : {"none", "offered", "have", "declined", "accepted",
                                                  "sent", "stored", "failed", "dead"}]]
  BY DEF TypeOK
<1>3. /\ pass' = [w \in Worker |-> IF Home(w) = n THEN Resting ELSE pass[w]]
      /\ stream' = [w \in Worker |->
                     IF Home(w) = n THEN NoStream
                     ELSE IF stream[w].to = n /\ stream[w].stage \in {"offered", "accepted", "sent"}
                     THEN [stream[w] EXCEPT !.stage = "dead"]
                     ELSE stream[w]]
  BY DEF Crash
<1>4. /\ NoStream \in [to : Node, stage : {"none", "offered", "have", "declined", "accepted",
                                        "sent", "stored", "failed", "dead"}]
      /\ Resting \in [at : {"idle", "ready", "waiting"}, rest : SUBSET Node, need : 0 .. Target]
  BY ReplicationAssumption, TargetIsNat DEF ReplicationAssumption, NoStream, Resting
<1> QED
  BY <1>1, <1>2, <1>3, <1>4

(* The types hold at the start. *)
LEMMA InitTypes == Init => TypeOK /\ InOrder
<1> SUFFICES ASSUME Init
             PROVE  TypeOK /\ InOrder
  OBVIOUS
<1>1. /\ NoStream \in [to : Node, stage : {"none", "offered", "have", "declined", "accepted",
                                        "sent", "stored", "failed", "dead"}]
      /\ Resting \in [at : {"idle", "ready", "waiting"}, rest : SUBSET Node, need : 0 .. Target]
      /\ NoStream.stage = "none" /\ Resting.at = "idle"
  BY ReplicationAssumption, TargetIsNat DEF ReplicationAssumption, NoStream, Resting
<1>2. 0 \in 0 .. MaxFaults
  BY ReplicationAssumption DEF ReplicationAssumption
<1>3. TypeOK
  BY <1>1, <1>2 DEF Init, TypeOK
<1>4. InOrder
  BY <1>1 DEF Init, InOrder
<1> QED
  BY <1>3, <1>4

(* Nothing has happened at the start. *)
LEMMA InitUnpublished == Init => Unpublished
BY DEF Init, Unpublished, Holds, Holders, Resting

(* The pass that Heal begins, of what a lookup has found.                  *)
LEMMA HealEffect ==
    ASSUME TypeOK, NEW n \in Node, Heal(n)
    PROVE  \E known \in SUBSET Node :
              LET w == <<n, "heal">>
              IN  /\ known \subseteq record \cup {n} /\ n \in known /\ Holds(n)
                  /\ pass[w].at = "idle" /\ stream[w].stage = "none"
                  /\ pass'[w].at = "ready" /\ pass'[w].rest = Node \ known
                  /\ pass'[w].need = Target - Cardinality(known)
                  /\ \A v \in Worker \ {w} : pass'[v] = pass[v]
                  /\ pass' \in [Worker -> [at : {"idle", "ready", "waiting"}, rest : SUBSET Node, need : 0 .. Target]]
                  /\ Missed(known) \in {0, 1} /\ faults' = faults + Missed(known)
                  /\ faults' \in 0 .. MaxFaults
                  /\ UNCHANGED <<up, copy, record, unannounced, arrived, stream, fetched, lacked>>
<1>1. PICK found \in SUBSET record : Tops(n, found \cup {n})
  BY DEF Heal
<1> DEFINE known == found \cup {n}
           w == <<n, "heal">>
<1>2. /\ At(w, "idle") /\ Holds(n) /\ Cardinality(known) < Target
      /\ Become(w, [at |-> "ready", need |-> Target - Cardinality(known), rest |-> ToSet(Closest) \ known])
      /\ faults + Missed(known) <= MaxFaults /\ faults' = faults + Missed(known)
      /\ UNCHANGED <<up, copy, record, unannounced, arrived, stream, fetched, lacked>>
  BY <1>1 DEF Tops
<1>3. w \in Worker /\ known \in SUBSET Node /\ known \subseteq record \cup {n} /\ n \in known
  BY DEF Worker, TypeOK
<1>4. Cardinality(known) \in Nat
  BY <1>3, FS_Subset, FS_CardinalityType, ReplicationAssumption DEF ReplicationAssumption
<1>5. Missed(known) \in {0, 1} /\ faults' \in 0 .. MaxFaults
  <2>1. Missed(known) \in {0, 1}
    BY DEF Missed
  <2>2. faults \in Nat /\ MaxFaults \in Nat
    BY ReplicationAssumption DEF ReplicationAssumption, TypeOK
  <2> QED
    BY <1>2, <2>1, <2>2
<1> HIDE DEF known, w
<1>6. Target - Cardinality(known) \in 0 .. Target /\ Node \ known \in SUBSET Node
  BY <1>2, <1>4, TargetIsNat
<1>7. Become(w, [at |-> "ready", rest |-> Node \ known, need |-> Target - Cardinality(known)])
  BY <1>2, PeersAreNodes DEF Become
<1>8. /\ pass'[w].at = "ready" /\ pass'[w].rest = Node \ known
      /\ pass'[w].need = Target - Cardinality(known)
      /\ \A v \in Worker \ {w} : pass'[v] = pass[v]
      /\ pass' \in [Worker -> [at : {"idle", "ready", "waiting"}, rest : SUBSET Node, need : 0 .. Target]]
  <2> DEFINE need == Target - Cardinality(known)
             rest == Node \ known
  <2>1. /\ need \in 0 .. Target /\ rest \in SUBSET Node
        /\ Become(w, [at |-> "ready", rest |-> rest, need |-> need])
    BY <1>6, <1>7
  <2> HIDE DEF need, rest
  <2>2. /\ pass'[w].at = "ready" /\ pass'[w].rest = rest /\ pass'[w].need = need
        /\ \A v \in Worker \ {w} : pass'[v] = pass[v]
        /\ pass' \in [Worker -> [at : {"idle", "ready", "waiting"}, rest : SUBSET Node, need : 0 .. Target]]
    BY <1>3, <2>1, BeginEffect
  <2> QED
    BY <2>2 DEF need, rest
<1>9. pass[w].at = "idle" /\ stream[w].stage = "none"
  BY <1>2, <1>3 DEF At, TypeOK
<1>10. known \in SUBSET Node
  BY <1>3
<1> WITNESS known \in SUBSET Node
<1> QED
  BY <1>2, <1>3, <1>5, <1>8, <1>9 DEF w

(* What an announcement does to the passes.                                *)
LEMMA AnnounceEffect ==
    ASSUME TypeOK, NEW q \in Node, Announce(q)
    PROVE  /\ q \in unannounced /\ unannounced' = unannounced \ {q}
           /\ \/ record' = record \cup {q} /\ faults' = faults
              \/ record' = record /\ Fault
           /\ UNCHANGED <<up, copy, arrived, stream, fetched, lacked>>
           /\ \A v \in Worker :
                 \/ pass'[v] = pass[v]
                 \/ /\ q = Publisher /\ v = <<Publisher, "replicate">>
                    /\ pass[v].at = "idle" /\ stream[v].stage = "none"
                    /\ pass'[v].at = "ready" /\ pass'[v].rest = Node \ {Publisher}
                    /\ pass'[v].need = Replicas
           /\ pass' \in [Worker -> [at : {"idle", "ready", "waiting"}, rest : SUBSET Node, need : 0 .. Target]]
<1> DEFINE w == <<Publisher, "replicate">>
<1>1. /\ q \in unannounced /\ unannounced' = unannounced \ {q}
      /\ \/ record' = record \cup {q} /\ faults' = faults
         \/ record' = record /\ Fault
      /\ UNCHANGED <<up, copy, arrived, stream, fetched, lacked>>
  BY DEF Announce
<1>2. w \in Worker
  BY DEF Worker
<1>3. CASE pass' = pass
  BY <1>1, <1>3 DEF TypeOK
<1>4. CASE /\ q = Publisher /\ At(w, "idle")
           /\ Become(w, [at |-> "ready", need |-> Replicas, rest |-> ToSet(Closest) \ {Publisher}])
  <2>1. pass[w].at = "idle" /\ stream[w].stage = "none"
    BY <1>2, <1>4 DEF At, TypeOK
  <2>2. Replicas \in 0 .. Target /\ Node \ {Publisher} \in SUBSET Node
    BY TargetIsNat
  <2> HIDE DEF w
  <2>3. Become(w, [at |-> "ready", rest |-> Node \ {Publisher}, need |-> Replicas])
    BY <1>4, PeersAreNodes DEF Become
  <2>4. /\ pass'[w].at = "ready" /\ pass'[w].rest = Node \ {Publisher} /\ pass'[w].need = Replicas
        /\ \A v \in Worker \ {w} : pass'[v] = pass[v]
        /\ pass' \in [Worker -> [at : {"idle", "ready", "waiting"}, rest : SUBSET Node, need : 0 .. Target]]
    BY <1>2, <2>2, <2>3, BeginEffect
  <2> QED
    BY <1>1, <1>4, <2>1, <2>4 DEF w
<1>5. pass' = pass \/ (q = Publisher /\ ReplicateOwned)
  BY DEF Announce
<1> QED
  BY <1>3, <1>4, <1>5 DEF ReplicateOwned

(* A fault is counted within its bound. *)
LEMMA FaultEffect ==
    ASSUME TypeOK, Fault
    PROVE  faults' = faults + 1 /\ faults' \in 0 .. MaxFaults
BY ReplicationAssumption DEF ReplicationAssumption, TypeOK, Fault

(* Every step keeps the types, and whoever waits for an answer needs a copy. *)
LEMMA StepTypes == TypeOK /\ Unpublished /\ InOrder /\ [Next]_vars => TypeOK' /\ InOrder'
<1> SUFFICES ASSUME TypeOK, Unpublished, InOrder, [Next]_vars
             PROVE  TypeOK' /\ InOrder'
  OBVIOUS
<1> USE HomeIsNode, TargetIsNat
<1>1. ASSUME Publish
      PROVE  TypeOK' /\ InOrder'
  BY <1>1, ReplicationAssumption DEF ReplicationAssumption, Publish, TypeOK, InOrder
<1>2. ASSUME NEW n \in Node, Heal(n)
      PROVE  TypeOK' /\ InOrder'
  <2> DEFINE w == <<n, "heal">>
  <2>1. /\ pass'[w].at = "ready" /\ stream[w].stage = "none"
        /\ \A v \in Worker \ {w} : pass'[v] = pass[v]
        /\ pass' \in [Worker -> [at : {"idle", "ready", "waiting"}, rest : SUBSET Node, need : 0 .. Target]]
        /\ faults' \in 0 .. MaxFaults
        /\ UNCHANGED <<up, copy, record, unannounced, arrived, stream, fetched, lacked>>
    BY <1>2, HealEffect
  <2> HIDE DEF w
  <2>2. \A v \in Worker : pass'[v].at = "waiting" <=> stream'[v].stage # "none"
    BY <2>1 DEF TypeOK
  <2>3. InOrder'
    BY <2>1 DEF InOrder
  <2> QED
    BY <2>1, <2>2, <2>3 DEF TypeOK
<1>3. ASSUME NEW w \in Worker, Offer(w)
      PROVE  TypeOK' /\ InOrder'
  <2>1. PICK q \in pass[w].rest, stage \in {"offered", "dead"} : Approach(w, q, stage)
    BY <1>3 DEF Offer
  <2>2. lacked' \in BOOLEAN
    BY <1>3 DEF Offer, TypeOK
  <2>3. /\ pass[w].need > 0
        /\ pass'[w].at = "waiting" /\ pass'[w].rest = pass[w].rest \ {q} /\ pass'[w].need = pass[w].need
        /\ stream'[w].to = q /\ stream'[w].stage = stage
        /\ \A r \in pass[w].rest : ~ Closer(r, q)
        /\ \A v \in Worker \ {w} : pass'[v] = pass[v] /\ stream'[v] = stream[v]
        /\ pass' \in [Worker -> [at : {"idle", "ready", "waiting"}, rest : SUBSET Node, need : 0 .. Target]]
        /\ stream' \in [Worker -> [to : Node, stage : {"none", "offered", "have", "declined", "accepted",
                                                  "sent", "stored", "failed", "dead"}]]
    BY <2>1, ApproachEffect
  <2>4. \A v \in Worker : pass'[v].at = "waiting" <=> stream'[v].stage # "none"
    BY <2>3 DEF TypeOK
  <2>5. InOrder'
    BY <2>3 DEF InOrder
  <2> QED
    BY <1>3, <2>2, <2>3, <2>4, <2>5 DEF Offer, TypeOK
<1>4. ASSUME NEW w \in Worker, PassEnds(w)
      PROVE  TypeOK' /\ InOrder'
  <2>1. Become(w, [at |-> "idle", rest |-> {}, need |-> 0])
    BY <1>4 DEF PassEnds, Resting
  <2>2. stream[w].stage = "none"
    BY <1>4 DEF PassEnds, At, TypeOK
  <2>3. {} \in SUBSET Node /\ 0 \in 0 .. Target
    OBVIOUS
  <2>4. /\ pass'[w].at = "idle"
        /\ \A v \in Worker \ {w} : pass'[v] = pass[v]
        /\ pass' \in [Worker -> [at : {"idle", "ready", "waiting"}, rest : SUBSET Node, need : 0 .. Target]]
    BY <2>1, <2>3, BeginEffect
  <2>5. \A v \in Worker : pass'[v].at = "waiting" <=> stream'[v].stage # "none"
    BY <1>4, <2>2, <2>4 DEF PassEnds, TypeOK
  <2>6. InOrder'
    BY <1>4, <2>4 DEF PassEnds, InOrder
  <2> QED
    BY <1>4, <2>4, <2>5, <2>6 DEF PassEnds, TypeOK
<1>5. ASSUME NEW w \in Worker, NEW placed \in {0, 1}, NextPeer(w, placed), pass[w].at = "waiting",
             up' = up, copy' = copy, record' = record, unannounced' = unannounced,
             arrived' \subseteq Node, fetched' = fetched,
             faults' \in 0 .. MaxFaults, lacked' \in BOOLEAN
      PROVE  TypeOK' /\ InOrder'
  <2>1. pass[w].need >= placed
    BY <1>5 DEF InOrder, TypeOK
  <2>2. NoStream.stage = "none"
    BY DEF NoStream
  <2>3. /\ pass'[w].at = "ready" /\ stream'[w].stage = "none"
        /\ \A v \in Worker \ {w} : pass'[v] = pass[v] /\ stream'[v] = stream[v]
        /\ pass' \in [Worker -> [at : {"idle", "ready", "waiting"}, rest : SUBSET Node, need : 0 .. Target]]
        /\ stream' \in [Worker -> [to : Node, stage : {"none", "offered", "have", "declined", "accepted",
                                                  "sent", "stored", "failed", "dead"}]]
    BY <1>5, <2>1, <2>2, NextPeerEffect
  <2>4. \A v \in Worker : pass'[v].at = "waiting" <=> stream'[v].stage # "none"
    BY <2>3 DEF TypeOK
  <2>5. InOrder'
    BY <2>3 DEF InOrder
  <2> QED
    BY <1>5, <2>3, <2>4, <2>5 DEF TypeOK
<1>6. ASSUME NEW w \in Worker, pass[w].at = "waiting", pass' = pass,
             NEW stage \in {"offered", "have", "declined", "accepted", "sent", "stored", "failed", "dead"},
             Stage(w, stage),
             up' = up, copy' \in [Node -> {"none", "partial", "whole"}], record' = record,
             unannounced' \subseteq up, arrived' = arrived, fetched' = fetched,
             faults' \in 0 .. MaxFaults, lacked' = lacked
      PROVE  TypeOK' /\ InOrder'
  <2>1. /\ stream'[w].stage = stage
        /\ \A v \in Worker \ {w} : stream'[v] = stream[v]
        /\ stream' \in [Worker -> [to : Node, stage : {"none", "offered", "have", "declined", "accepted",
                                                  "sent", "stored", "failed", "dead"}]]
    BY <1>6, StageEffect
  <2>2. ASSUME NEW v \in Worker
        PROVE  pass'[v].at = "waiting" <=> stream'[v].stage # "none"
    <3>1. pass[v].at = "waiting" <=> stream[v].stage # "none"
      BY DEF TypeOK
    <3>2. CASE v = w
      BY <1>6, <2>1, <3>2
    <3>3. CASE v # w
      BY <1>6, <2>1, <3>1, <3>3
    <3> QED
      BY <3>2, <3>3
  <2>3. InOrder'
    <3>1. pass' = pass
      BY <1>6
    <3>2. \A v \in Worker : stream'[v].to = stream[v].to
      BY <1>6, <2>1, StageEffect
    <3> QED
      BY ONLY InOrder, <3>1, <3>2 DEF InOrder
  <2> QED
    BY <1>6, <2>1, <2>2, <2>3 DEF TypeOK
<1>7. ASSUME NEW w \in Worker, Answered(w)
      PROVE  TypeOK' /\ InOrder'
  <2>1. PICK placed \in {0, 1} : NextPeer(w, placed)
    BY <1>7 DEF Answered
  <2> QED
    BY <1>5, <1>7, <2>1 DEF Answered, At, TypeOK
<1>8. ASSUME NEW w \in Worker, SendBlobs(w)
      PROVE  TypeOK' /\ InOrder'
  <2>1. CASE Stage(w, "sent") /\ pass' = pass /\ lacked' = lacked
    BY <1>6, <1>8, <2>1 DEF SendBlobs, At, TypeOK
  <2>2. CASE NextPeer(w, 0) /\ lacked' = TRUE
    BY <1>5, <1>8, <2>2 DEF SendBlobs, At, TypeOK
  <2> QED
    BY <1>8, <2>1, <2>2 DEF SendBlobs
<1>9. ASSUME NEW w \in Worker, Deadline(w)
      PROVE  TypeOK' /\ InOrder'
  BY <1>5, <1>9 DEF Deadline, At, TypeOK
<1>10. ASSUME NEW w \in Worker, Reply(w)
       PROVE  TypeOK' /\ InOrder'
  <2>1. PICK stage \in {"have", "accepted", "declined"} : Stage(w, stage)
    BY <1>10 DEF Reply
  <2>2. pass[w].at = "waiting"
    BY <1>10 DEF Reply, Asked, TypeOK
  <2>3. faults' \in 0 .. MaxFaults
    BY <1>10, FaultEffect DEF Reply, TypeOK
  <2> QED
    BY <1>6, <1>10, <2>1, <2>2, <2>3 DEF Reply, TypeOK
<1>11. ASSUME NEW w \in Worker, Commit(w)
       PROVE  TypeOK' /\ InOrder'
  <2>1. pass[w].at = "waiting" /\ stream[w].to \in up /\ pass' = pass
    BY <1>11 DEF Commit, Asked, TypeOK
  <2>2. CASE Store(stream[w].to) /\ Stage(w, "stored") /\ UNCHANGED faults
    <3>1. copy' \in [Node -> {"none", "partial", "whole"}] /\ unannounced' \subseteq up
      BY <2>1, <2>2 DEF Store, TypeOK
    <3> QED
      BY <1>6, <1>11, <2>1, <2>2, <3>1 DEF Commit, TypeOK
  <2>3. CASE UNCHANGED <<copy, unannounced>> /\ Stage(w, "failed") /\ Fault
    BY <1>6, <1>11, <2>1, <2>3, FaultEffect DEF Commit, TypeOK
  <2> QED
    BY <1>11, <2>2, <2>3 DEF Commit
<1>12. ASSUME NEW w \in Worker, Break(w)
       PROVE  TypeOK' /\ InOrder'
  <2>1. arrived' \subseteq Node
    BY <1>12 DEF Break, TypeOK
  <2> QED
    BY <1>5, <1>12, <2>1, FaultEffect DEF Break, At, TypeOK
<1>13. ASSUME NEW n \in Node, CommitUnseen(n)
       PROVE  TypeOK' /\ InOrder'
  BY <1>13 DEF CommitUnseen, Store, TypeOK, InOrder
<1>18. ASSUME NEW n \in Node, Announce(n)
       PROVE  TypeOK' /\ InOrder'
  <2>1. /\ unannounced' \subseteq up' /\ record' \subseteq Node /\ faults' \in 0 .. MaxFaults
        /\ UNCHANGED <<up, copy, arrived, stream, fetched, lacked>>
    BY <1>18, AnnounceEffect, FaultEffect DEF TypeOK
  <2>2. pass' \in [Worker -> [at : {"idle", "ready", "waiting"}, rest : SUBSET Node, need : 0 .. Target]]
    BY <1>18, AnnounceEffect
  <2>3. \A v \in Worker : pass'[v] = pass[v] \/ (pass'[v].at = "ready" /\ stream[v].stage = "none")
    BY <1>18, AnnounceEffect
  <2>4. \A v \in Worker : pass'[v].at = "waiting" <=> stream'[v].stage # "none"
    BY <2>1, <2>3 DEF TypeOK
  <2>5. InOrder'
    BY <2>1, <2>3 DEF InOrder
  <2> QED
    BY <2>1, <2>2, <2>4, <2>5 DEF TypeOK
<1>14. ASSUME NEW n \in Node, Provide(n) \/ Expire(n) \/ Restart(n) \/ Fetch(n) \/ ReadOn(n)
       PROVE  TypeOK' /\ InOrder'
  BY <1>14 DEF Provide, Expire, Restart, Fetch, ReadOn, TypeOK, InOrder
<1>15. ASSUME NEW n \in Node, Evict(n)
       PROVE  TypeOK' /\ InOrder'
  BY <1>15, FaultEffect DEF Evict, TypeOK, InOrder
<1>16. ASSUME NEW n \in Node, Crash(n)
       PROVE  TypeOK' /\ InOrder'
  <2>1. up' \subseteq Node /\ unannounced' \subseteq up' /\ arrived' \subseteq Node
    BY <1>16 DEF Crash, TypeOK
  <2>2. NoStream.stage = "none" /\ Resting.at = "idle"
    BY DEF NoStream, Resting
  <2>3. InOrder'
    BY <1>16, <2>2, CrashEffect DEF InOrder
  <2>4. /\ pass' \in [Worker -> [at : {"idle", "ready", "waiting"}, rest : SUBSET Node, need : 0 .. Target]]
        /\ stream' \in [Worker -> [to : Node, stage : {"none", "offered", "have", "declined", "accepted",
                                                  "sent", "stored", "failed", "dead"}]]
    BY <1>16, CrashEffect
  <2>5. ASSUME NEW v \in Worker
        PROVE  pass'[v].at = "waiting" <=> stream'[v].stage # "none"
    <3>1. CASE Home(v) = n
      BY <1>16, <2>2, <3>1, CrashEffect
    <3>2. CASE Home(v) # n
      BY <1>16, <3>2, CrashEffect DEF TypeOK
    <3> QED
      BY <3>1, <3>2
  <2>6. faults' \in 0 .. MaxFaults
    BY <1>16, FaultEffect DEF Crash
  <2> QED
    BY <1>16, <2>1, <2>3, <2>4, <2>5, <2>6 DEF Crash, TypeOK
<1>17. ASSUME UNCHANGED vars
       PROVE  TypeOK' /\ InOrder'
  BY <1>17 DEF vars, TypeOK, InOrder
<1> QED
  BY <1>1, <1>2, <1>3, <1>4, <1>7, <1>8, <1>9, <1>10, <1>11, <1>12, <1>13, <1>14, <1>15, <1>16, <1>17,
     <1>18 DEF Next, Push, Serve

(* Nothing but its publication comes before the set is published. *)
LEMMA StepUnpublished == TypeOK /\ Unpublished /\ [Next]_vars => Unpublished'
<1> SUFFICES ASSUME TypeOK, Unpublished, [Next]_vars
             PROVE  Unpublished'
  OBVIOUS
<1> USE HomeIsNode
<1>0. Publisher \in Node
  BY ReplicationAssumption DEF ReplicationAssumption
<1>1. ASSUME Publish
      PROVE  Unpublished'
  BY <1>0, <1>1 DEF Publish, Unpublished, Holds, TypeOK
<1>2. ASSUME NEW n \in Node, Heal(n)
      PROVE  Unpublished'
  <2>1. Holds(n) /\ copy' = copy
    BY <1>2, HealEffect
  <2> QED
    BY <1>0, <2>1 DEF Unpublished, Holds, Holders
<1>3. ASSUME NEW w \in Worker, Push(w) \/ Serve(w) \/ Break(w)
      PROVE  Unpublished'
  <2>1. pass[w].at # "idle"
    BY <1>3 DEF Push, Serve, Break, Offer, Approach, PassEnds, Answered, SendBlobs, Deadline, Reply, Commit, At,
                Asked, TypeOK
  <2>2. Holds(Publisher)
    BY <2>1 DEF Unpublished
  <2>3. copy' = copy \/ copy' = [copy EXCEPT ![stream[w].to] = "whole"]
    BY <1>3 DEF Push, Serve, Break, Offer, PassEnds, Answered, SendBlobs, Deadline, Reply, Commit, Store
  <2>4. Holds(Publisher)'
    BY <1>0, <2>2, <2>3 DEF Holds, TypeOK
  <2> QED
    BY <2>4 DEF Unpublished
<1>4. ASSUME NEW n \in Node,
             CommitUnseen(n) \/ Announce(n) \/ Provide(n) \/ Expire(n) \/ Restart(n) \/ Fetch(n) \/ ReadOn(n)
      PROVE  Unpublished'
  <2>1. CASE Holds(Publisher)
    <3>1. Holds(Publisher)'
      BY <1>0, <1>4, <2>1 DEF CommitUnseen, Store, Announce, Provide, Expire, Restart, Fetch, ReadOn, Holds, TypeOK
    <3> QED
      BY <3>1 DEF Unpublished
  <2>2. CASE ~ Holds(Publisher)
    <3>1. \A m \in Node : copy[m] = "none"
      BY <2>2 DEF Unpublished, Holders, Holds
    <3> QED
      BY <1>4, <2>2, <3>1 DEF CommitUnseen, Store, Announce, Provide, Expire, Restart, Fetch, ReadOn, Holds, Holders,
                              Unpublished, TypeOK
  <2> QED
    BY <2>1, <2>2
<1>5. ASSUME NEW n \in Node, Evict(n)
      PROVE  Unpublished'
  <2>1. Holds(Publisher)
    BY <1>5 DEF Evict, Unpublished, Holders
  <2>2. Holds(Publisher)'
    BY <1>0, <1>5, <2>1 DEF Evict, Holds, TypeOK
  <2> QED
    BY <2>2 DEF Unpublished
<1>6. ASSUME NEW n \in Node, Crash(n)
      PROVE  Unpublished'
  <2>1. CASE Holds(Publisher)
    BY <1>6, <2>1 DEF Crash, Holds, Unpublished
  <2>2. CASE ~ Holds(Publisher)
    <3>1. /\ Holders' = {} /\ record' = {} /\ unannounced' = {}
      BY <1>6, <2>2 DEF Crash, Unpublished, Holders, Holds
    <3>2. \A w \in Worker : stream[w].stage = "none"
      BY <2>2 DEF Unpublished, TypeOK
    <3>3. arrived' = {}
      BY <1>6, <2>2, <3>2 DEF Crash, Unpublished
    <3>4. \A w \in Worker : pass'[w].at = "idle"
      BY <1>6, <2>2, CrashEffect DEF Unpublished, Resting
    <3> QED
      BY <3>1, <3>3, <3>4 DEF Unpublished
  <2> QED
    BY <2>1, <2>2
<1>7. ASSUME UNCHANGED vars
      PROVE  Unpublished'
  BY <1>7 DEF vars, Unpublished, Holds, Holders
<1> QED
  BY <1>1, <1>2, <1>3, <1>4, <1>5, <1>6, <1>7 DEF Next

(* The types of the variables, for any nodes and any number of copies. *)
THEOREM Types == Spec => []TypeOK
<1>1. Init => TypeOK /\ InOrder /\ Unpublished
  BY InitTypes, InitUnpublished
<1>2. TypeOK /\ InOrder /\ Unpublished /\ [Next]_vars => TypeOK' /\ InOrder' /\ Unpublished'
  BY StepTypes, StepUnpublished
<1> QED
  BY <1>1, <1>2, PTL DEF Spec

----------------------------------------------------------------------------
(* Where copies come from                                                  *)

(* Nothing holds the set at the start. *)
LEMMA InitSources == Init => Sources
BY DEF Init, Sources, Holders, Holds, NoStream

(* Copies, records and receptions are of the publisher and of nodes with room. *)
LEMMA StepSources == TypeOK /\ Sources /\ [Next]_vars => Sources'
<1> SUFFICES ASSUME TypeOK, Sources, [Next]_vars
             PROVE  Sources'
  OBVIOUS
<1> USE HomeIsNode DEF Near
<1>1. ASSUME Publish
      PROVE  Sources'
  BY <1>1 DEF Publish, Sources, Holders, Holds, TypeOK
<1>2. ASSUME NEW n \in Node, Heal(n)
      PROVE  Sources'
  BY <1>2 DEF Heal, Tops, Sources, Holders, Holds
<1>3. ASSUME NEW w \in Worker, NEW placed \in {0, 1}, NextPeer(w, placed),
             copy' = copy, record' = record, unannounced' = unannounced,
             arrived' \subseteq arrived \cup (IF stream[w].stage = "sent" THEN {stream[w].to} ELSE {})
      PROVE  Sources'
  <2>1. NoStream.stage = "none"
    BY DEF NoStream
  <2> QED
    BY <1>3, <2>1, NextPeerEffect DEF Sources, Holders, Holds
<1>4. ASSUME NEW w \in Worker, Offer(w)
      PROVE  Sources'
  <2>1. PICK q \in pass[w].rest, stage \in {"offered", "dead"} : Approach(w, q, stage)
    BY <1>4 DEF Offer
  <2> QED
    BY <1>4, <2>1, ApproachEffect DEF Offer, Sources, Holders, Holds
<1>5. ASSUME NEW w \in Worker, PassEnds(w)
      PROVE  Sources'
  BY <1>5 DEF PassEnds, Sources, Holders, Holds
<1>6. ASSUME NEW w \in Worker, Answered(w)
      PROVE  Sources'
  <2>1. PICK placed \in {0, 1} : NextPeer(w, placed)
    BY <1>6 DEF Answered
  <2> QED
    BY <1>3, <1>6, <2>1 DEF Answered
<1>7. ASSUME NEW w \in Worker, SendBlobs(w)
      PROVE  Sources'
  <2>1. CASE Stage(w, "sent") /\ stream[w].stage = "accepted"
    BY <1>7, <2>1, StageEffect DEF SendBlobs, Sources, Holders, Holds
  <2>2. CASE NextPeer(w, 0)
    BY <1>3, <1>7, <2>2 DEF SendBlobs
  <2> QED
    BY <1>7, <2>1, <2>2 DEF SendBlobs
<1>8. ASSUME NEW w \in Worker, Deadline(w)
      PROVE  Sources'
  BY <1>3, <1>8 DEF Deadline
<1>9. ASSUME NEW w \in Worker, Reply(w)
      PROVE  Sources'
  <2>1. PICK stage \in {"have", "accepted", "declined"} :
            Stage(w, stage) /\ (stage = "accepted" => stream[w].to \in Open)
    BY <1>9 DEF Reply
  <2> QED
    BY <1>9, <2>1, StageEffect DEF Reply, Sources, Holders, Holds
<1>10. ASSUME NEW w \in Worker, Commit(w)
       PROVE  Sources'
  <2>1. stream[w].to \in Open
    BY <1>10 DEF Commit, Asked, Sources
  <2>2. PICK stage \in {"stored", "failed"} : Stage(w, stage)
    BY <1>10 DEF Commit
  <2>3. \A v \in Worker : stream'[v].stage \in {"accepted", "sent"} => stream'[v].to \in Open
    BY <2>2, StageEffect DEF Sources
  <2>4. Holders' \subseteq Holders \cup {stream[w].to} /\ unannounced' \subseteq unannounced \cup {stream[w].to}
    BY <1>10 DEF Commit, Store, Holders, Holds, TypeOK
  <2> QED
    BY <1>10, <2>1, <2>3, <2>4 DEF Commit, Sources
<1>11. ASSUME NEW w \in Worker, Break(w)
       PROVE  Sources'
  BY <1>3, <1>11 DEF Break
<1>12. ASSUME NEW n \in Node,
              CommitUnseen(n) \/ Announce(n) \/ Provide(n) \/ Expire(n) \/ Restart(n) \/ Fetch(n) \/ ReadOn(n)
       PROVE  Sources'
  BY <1>12 DEF CommitUnseen, Store, Announce, Provide, Expire, Restart, Fetch, ReadOn, Holds, Holders, Sources, TypeOK
<1>13. ASSUME NEW n \in Node, Evict(n)
       PROVE  Sources'
  BY <1>13 DEF Evict, Holds, Holders, Sources, TypeOK
<1>14. ASSUME NEW n \in Node, Crash(n)
       PROVE  Sources'
  <2>1. NoStream.stage = "none"
    BY DEF NoStream
  <2>2. \A v \in Worker : stream'[v].stage \in {"accepted", "sent"} => stream'[v].to \in Open
    BY <1>14, <2>1, CrashEffect DEF Sources
  <2>3. arrived' \subseteq Near
    BY <1>14 DEF Crash, Sources
  <2> QED
    BY <1>14, <2>2, <2>3 DEF Crash, Sources, Holders, Holds
<1>15. ASSUME UNCHANGED vars
       PROVE  Sources'
  BY <1>15 DEF vars, Sources, Holds, Holders
<1> QED
  BY <1>1, <1>2, <1>4, <1>5, <1>6, <1>7, <1>8, <1>9, <1>10, <1>11, <1>12, <1>13, <1>14, <1>15 DEF Next, Push, Serve

----------------------------------------------------------------------------
(* Counting                                                                *)

(* All sets of nodes can be counted. *)
LEMMA NodesCount ==
    \A S \in SUBSET Node : IsFiniteSet(S) /\ Cardinality(S) \in Nat
BY ReplicationAssumption, FS_Subset, FS_CardinalityType DEF ReplicationAssumption

(* A set of nodes within another has no more of them. *)
LEMMA Fewer ==
    ASSUME NEW S \in SUBSET Node, NEW T \in SUBSET S
    PROVE  Cardinality(T) <= Cardinality(S)
BY NodesCount, FS_Subset

(* One node more is one more at most, and one if it is new. *)
LEMMA OneMore ==
    ASSUME NEW S \in SUBSET Node, NEW n \in Node
    PROVE  /\ S \cup {n} \in SUBSET Node
           /\ Cardinality(S \cup {n}) <= Cardinality(S) + 1
           /\ n \notin S => Cardinality(S \cup {n}) = Cardinality(S) + 1
BY NodesCount, FS_AddElement

(* One node less is one less if it was there. *)
LEMMA OneLess ==
    ASSUME NEW S \in SUBSET Node, NEW n \in S
    PROVE  Cardinality(S \ {n}) = Cardinality(S) - 1
BY NodesCount, FS_RemoveElement

(* Nobody is gone at the start. *)
LEMMA InitGone == Init => GoneCounted
<1> SUFFICES ASSUME Init
             PROVE  GoneCounted
  OBVIOUS
<1>1. Publisher \in Node
  BY ReplicationAssumption DEF ReplicationAssumption
<1>2. Gone = {}
  BY <1>1 DEF Init, Gone, Holds
<1> QED
  BY <1>2, FS_EmptySet DEF Init, GoneCounted

(* Nobody goes missing but by a crash, or by an announcement that fails,   *)
(* each of which is a fault.                                               *)
LEMMA GoneByFault ==
    TypeOK /\ Unpublished /\ [Next]_vars =>
        \/ Gone' \subseteq Gone
        \/ \E n \in Node : /\ Crash(n) \/ Announce(n)
                          /\ Gone' \subseteq Gone \cup {n} /\ faults' = faults + 1
<1> SUFFICES ASSUME TypeOK, Unpublished, [Next]_vars
             PROVE  \/ Gone' \subseteq Gone
                    \/ \E n \in Node : /\ Crash(n) \/ Announce(n)
                                      /\ Gone' \subseteq Gone \cup {n} /\ faults' = faults + 1
  OBVIOUS
<1>0. Publisher \in Node
  BY ReplicationAssumption DEF ReplicationAssumption
<1>3. ASSUME Publish
      PROVE  Gone' \subseteq Gone
  BY <1>0, <1>3 DEF Publish, Gone, Holds, TypeOK
<1>4. ASSUME NEW w \in Worker, Push(w) \/ Serve(w) \/ Break(w)
      PROVE  Gone' \subseteq Gone
  <2>1. pass[w].at # "idle"
    BY <1>4 DEF Push, Serve, Break, Offer, Approach, PassEnds, Answered, SendBlobs, Deadline, Reply, Commit, At,
                Asked, TypeOK
  <2>2. Holds(Publisher)
    BY <2>1 DEF Unpublished
  <2>3. up' = up /\ record' = record /\ unannounced \subseteq unannounced'
    BY <1>4 DEF Push, Serve, Break, Offer, PassEnds, Answered, SendBlobs, Deadline, Reply, Commit, Store
  <2> QED
    BY <2>2, <2>3 DEF Gone
<1>5. ASSUME NEW n \in Node, Announce(n)
      PROVE  \/ Gone' \subseteq Gone
             \/ Gone' \subseteq Gone \cup {n} /\ faults' = faults + 1
  <2>1. /\ up' = up /\ copy' = copy /\ unannounced' = unannounced \ {n}
        /\ \/ record' = record \cup {n}
           \/ record' = record /\ faults' = faults + 1
    BY <1>5, AnnounceEffect DEF Fault
  <2> QED
    BY <2>1 DEF Gone, Holds
<1>6. ASSUME NEW n \in Node, Heal(n) \/ CommitUnseen(n) \/ Provide(n) \/ Restart(n) \/ ReadOn(n)
      PROVE  Gone' \subseteq Gone
  <2>1. Holds(Publisher) => Holds(Publisher)'
    BY <1>0, <1>6 DEF Heal, Tops, CommitUnseen, Store, Provide, Restart, ReadOn, Holds, TypeOK
  <2>2. ~ Holds(Publisher) => ~ Holds(Publisher)'
    BY <1>0, <1>6 DEF Heal, Tops, CommitUnseen, Store, Provide, Restart, ReadOn, Holds, TypeOK, Unpublished
  <2>3. up \subseteq up' /\ record \subseteq record' /\ unannounced \subseteq unannounced'
    BY <1>6 DEF Heal, Tops, CommitUnseen, Store, Provide, Restart, ReadOn
  <2> QED
    BY <2>1, <2>2, <2>3 DEF Gone
<1>7. ASSUME NEW n \in Node, Expire(n)
      PROVE  Gone' \subseteq Gone
  BY <1>0, <1>7 DEF Expire, Gone, Holds
<1>8. ASSUME NEW n \in Node, Evict(n) \/ Fetch(n)
      PROVE  Gone' \subseteq Gone
  <2>1. Holds(Publisher)
    BY <1>8 DEF Evict, Fetch, Holds, Holders, Unpublished, TypeOK
  <2> QED
    BY <1>8, <2>1 DEF Evict, Fetch, Gone, Holds
<1>9. ASSUME NEW n \in Node, Crash(n)
      PROVE  Gone' \subseteq Gone \cup {n} /\ faults' = faults + 1
  BY <1>9 DEF Crash, Gone, Holds, Fault
<1>11. ASSUME UNCHANGED vars
       PROVE  Gone' \subseteq Gone
  BY <1>11 DEF vars, Gone, Holds
<1> QED
  BY <1>3, <1>4, <1>5, <1>6, <1>7, <1>8, <1>9, <1>11 DEF Next

(* What went wrong is counted up. *)
LEMMA StepFaults ==
    TypeOK /\ [Next]_vars =>
        /\ faults \in Nat /\ faults' \in Nat /\ faults <= faults'
        /\ lacked => lacked'
<1> SUFFICES ASSUME TypeOK, [Next]_vars
             PROVE  /\ faults \in Nat /\ faults' \in Nat /\ faults <= faults'
                    /\ lacked => lacked'
  OBVIOUS
<1>1. faults \in Nat
  BY ReplicationAssumption DEF ReplicationAssumption, TypeOK
<1>2. ASSUME NEW w \in Worker, Push(w) \/ Serve(w) \/ Break(w)
      PROVE  (faults' = faults \/ Fault) /\ (lacked => lacked')
  <2>1. faults' = faults \/ Fault
    BY <1>2 DEF Push, Serve, Break, Offer, PassEnds, Answered, SendBlobs, Deadline, Reply, Commit
  <2>2. CASE Offer(w)
    BY <2>1, <2>2 DEF Offer
  <2>3. CASE SendBlobs(w)
    <3>1. lacked' = lacked \/ lacked' = TRUE
      BY <2>3 DEF SendBlobs
    <3> QED
      BY <2>1, <3>1
  <2>4. CASE PassEnds(w) \/ Answered(w) \/ Deadline(w) \/ Reply(w) \/ Commit(w) \/ Break(w)
    <3>1. lacked' = lacked
      BY <2>4 DEF PassEnds, Answered, Deadline, Reply, Commit, Break
    <3> QED
      BY <2>1, <3>1
  <2> QED
    BY <1>2, <2>2, <2>3, <2>4 DEF Push, Serve
<1>3. ASSUME NEW n \in Node,
              CommitUnseen(n) \/ Announce(n) \/ Provide(n) \/ Expire(n) \/ Crash(n) \/ Restart(n)
              \/ Evict(n) \/ Fetch(n) \/ ReadOn(n)
      PROVE  (faults' = faults \/ Fault) /\ (lacked => lacked')
  <2>1. faults' = faults \/ Fault
    BY <1>3 DEF CommitUnseen, Announce, Provide, Expire, Crash, Restart, Evict, Fetch, ReadOn
  <2>2. lacked' = lacked
    BY <1>3 DEF CommitUnseen, Announce, Provide, Expire, Crash, Restart, Evict, Fetch, ReadOn
  <2> QED
    BY <2>1, <2>2
<1>4. ASSUME UNCHANGED vars \/ Publish
      PROVE  faults' = faults /\ (lacked => lacked')
  BY <1>4 DEF vars, Publish
<1>5. ASSUME NEW n \in Node, Heal(n)
      PROVE  (faults' = faults \/ faults' = faults + 1) /\ (lacked => lacked')
  <2>1. PICK missed \in {0, 1} : faults' = faults + missed /\ lacked' = lacked
    BY <1>5, HealEffect
  <2> QED
    BY <1>1, <2>1
<1>6. (faults' = faults \/ faults' = faults + 1) /\ (lacked => lacked')
  BY <1>2, <1>3, <1>4, <1>5 DEF Next, Fault
<1> QED
  BY <1>1, <1>6

(* Whoever is gone has gone by a fault, each by its own. *)
LEMMA StepGone == TypeOK /\ Unpublished /\ GoneCounted /\ [Next]_vars => GoneCounted'
<1> SUFFICES ASSUME TypeOK, Unpublished, GoneCounted, [Next]_vars
             PROVE  GoneCounted'
  OBVIOUS
<1>1. Gone \in SUBSET Node
  BY ReplicationAssumption DEF ReplicationAssumption, Gone
<1>2. faults \in Nat /\ faults' \in Nat /\ faults <= faults'
  BY StepFaults
<1>3. CASE Gone' \subseteq Gone
  <2>1. Cardinality(Gone') <= Cardinality(Gone)
    BY <1>1, <1>3, Fewer
  <2>2. Cardinality(Gone') \in Nat /\ Cardinality(Gone) \in Nat
    BY <1>1, <1>3, NodesCount
  <2> QED
    BY <1>2, <2>1, <2>2 DEF GoneCounted
<1>4. ASSUME NEW n \in Node, Gone' \subseteq Gone \cup {n}, faults' = faults + 1
      PROVE  GoneCounted'
  <2>1. Cardinality(Gone') <= Cardinality(Gone \cup {n})
    BY <1>1, <1>4, OneMore, Fewer
  <2>2. Cardinality(Gone \cup {n}) <= Cardinality(Gone) + 1
    BY <1>1, <1>4, OneMore
  <2>3. Cardinality(Gone') \in Nat /\ Cardinality(Gone) \in Nat /\ Cardinality(Gone \cup {n}) \in Nat
    BY <1>1, <1>4, NodesCount
  <2> QED
    BY <1>2, <1>4, <2>1, <2>2, <2>3 DEF GoneCounted
<1> QED
  BY <1>3, <1>4, GoneByFault

----------------------------------------------------------------------------
(* Where passes put copies                                                 *)

(* No more nodes are within reach than the target and what went wrong.     *)
LEMMA ReachBound ==
    ASSUME NEW f \in Nat
    PROVE  /\ Reach(f) \in SUBSET Node
           /\ Cardinality(Reach(f)) <= Target + f
<1> DEFINE others == {n \in Open \ {Publisher} : Cardinality(Before(n)) < Replicas + f}
           places == 0 .. (Replicas + f - 1)
           place == [n \in others |-> Cardinality(Before(n))]
<1>1. /\ Open \subseteq Node /\ Publisher \in Node /\ others \in SUBSET Node
      /\ Replicas \in Nat /\ Replicas >= 1
  BY ReplicationAssumption DEF ReplicationAssumption
<1>2. \A n \in Node : Before(n) \in SUBSET Node
  BY <1>1 DEF Before
<1>3. \A n \in others : Cardinality(Before(n)) \in Nat
  BY <1>1, <1>2, NodesCount
<1>4. place \in [others -> places]
  BY <1>1, <1>3
<1>5. ASSUME NEW m \in others, NEW n \in others, Closer(m, n)
      PROVE  Cardinality(Before(m)) < Cardinality(Before(n))
  <2>1. Before(m) \cup {m} \subseteq Before(n)
    BY <1>1, <1>5, CloserOrder DEF Before
  <2>2. m \notin Before(m)
    BY <1>1, CloserOrder DEF Before
  <2>3. Cardinality(Before(m) \cup {m}) = Cardinality(Before(m)) + 1
    BY <1>1, <1>2, <2>2, OneMore
  <2>4. Cardinality(Before(m) \cup {m}) <= Cardinality(Before(n))
    BY <1>1, <1>2, <2>1, Fewer
  <2>5. Cardinality(Before(m)) \in Nat /\ Cardinality(Before(n)) \in Nat
    BY <1>3
  <2> QED
    BY <2>3, <2>4, <2>5
<1>6. \A m, n \in others : m # n => place[m] # place[n]
  <2> SUFFICES ASSUME NEW m \in others, NEW n \in others, m # n
               PROVE  Cardinality(Before(m)) # Cardinality(Before(n))
    OBVIOUS
  <2>1. Closer(m, n) \/ Closer(n, m)
    BY <1>1, CloserOrder
  <2>2. Cardinality(Before(m)) \in Nat /\ Cardinality(Before(n)) \in Nat
    BY <1>3
  <2> QED
    BY <1>5, <2>1, <2>2
<1>7. IsFiniteSet(places) /\ Cardinality(places) = Replicas + f
  BY <1>1, FS_Interval
<1>8. IsFiniteSet(others) /\ Cardinality(others) \in Nat
  BY <1>1, NodesCount
<1>9. Cardinality(others) <= Replicas + f
  <2> HIDE DEF others, places, place
  <2> SUFFICES ASSUME Replicas + f < Cardinality(others)
               PROVE  FALSE
    BY <1>1, <1>8
  <2>1. \E x, y \in others : x # y /\ place[x] = place[y]
    BY <1>4, <1>7, <1>8, FS_PigeonHole
  <2> QED
    BY <1>6, <2>1
<1>10. Reach(f) = others \cup {Publisher}
  BY DEF Reach
<1>11. Cardinality(others \cup {Publisher}) <= Cardinality(others) + 1
  BY <1>1, OneMore
<1>12. Cardinality(others \cup {Publisher}) \in Nat
  BY <1>1, NodesCount
<1> QED
  BY <1>1, <1>8, <1>9, <1>10, <1>11, <1>12, TargetIsNat

(* The more has gone wrong, the farther passes reach. *)
LEMMA ReachGrows ==
    ASSUME NEW f \in Nat, NEW g \in Nat, f <= g
    PROVE  Reach(f) \subseteq Reach(g)
<1>1. \A n \in Open \ {Publisher} : Cardinality(Before(n)) \in Nat
  BY NodesCount, ReplicationAssumption DEF ReplicationAssumption, Before
<1> QED
  BY <1>1, TargetIsNat DEF Reach

(* Of which nodes the budget of a worker speaks. *)
LEMMA BudgetTypes ==
    ASSUME TypeOK, NEW w \in Worker
    PROVE  /\ Near \in SUBSET Node
           /\ Pending(w) \in SUBSET Node
           /\ Near \ Pending(w) \in SUBSET Node /\ Doubtful(w) \in SUBSET Node
           /\ Cardinality(Near \ Pending(w)) \in Nat /\ Cardinality(Doubtful(w)) \in Nat
           /\ pass[w].need \in 0 .. Target /\ faults \in Nat
<1>1. Near \in SUBSET Node
  BY ReplicationAssumption DEF ReplicationAssumption, Near
<1>2. Pending(w) \in SUBSET Node
  BY DEF TypeOK, Pending
<1>3. Near \ Pending(w) \in SUBSET Node /\ Doubtful(w) \in SUBSET Node
  BY <1>1 DEF Doubtful
<1>4. pass[w].need \in 0 .. Target /\ faults \in Nat
  BY ReplicationAssumption DEF ReplicationAssumption, TypeOK
<1> QED
  BY <1>1, <1>2, <1>3, <1>4, NodesCount

(* A worker that needs as much as before of the same peers keeps its       *)
(* budget if no peer becomes doubtful, or one does for which a fault is    *)
(* counted.                                                                *)
LEMMA BudgetKept ==
    ASSUME TypeOK, TypeOK', NEW w \in Worker, Budgeted(w),
           pass'[w].need = pass[w].need, Pending(w)' = Pending(w),
           \/ Doubtful(w)' \subseteq Doubtful(w) /\ faults <= faults'
           \/ \E n \in Node : Doubtful(w)' \subseteq Doubtful(w) \cup {n} /\ faults' = faults + 1
    PROVE  Budgeted(w)'
<1> DEFINE settled == Cardinality(Near \ Pending(w))
           doubts == Cardinality(Doubtful(w))
           later == Cardinality(Doubtful(w)')
<1>1. settled \in Nat /\ doubts \in Nat /\ pass[w].need \in 0 .. Target /\ faults \in Nat
  BY BudgetTypes
<1>2. Doubtful(w) \in SUBSET Node
  BY BudgetTypes
<1>3. Doubtful(w)' \in SUBSET Node /\ later \in Nat /\ faults' \in Nat
  <2>1. Doubtful(w)' \in SUBSET Node
    BY <1>2
  <2>2. faults' \in Nat
    BY ReplicationAssumption DEF ReplicationAssumption, TypeOK
  <2> QED
    BY <2>1, <2>2, NodesCount
<1>4. Cardinality(Near \ Pending(w)') = settled
  OBVIOUS
<1>5. later + faults <= doubts + faults'
  <2>1. CASE Doubtful(w)' \subseteq Doubtful(w) /\ faults <= faults'
    <3>1. later <= doubts
      BY <1>2, <2>1, Fewer
    <3> QED
      BY <1>1, <1>3, <2>1, <3>1
  <2>2. ASSUME NEW n \in Node, Doubtful(w)' \subseteq Doubtful(w) \cup {n}, faults' = faults + 1
        PROVE  later + faults <= doubts + faults'
    <3>1. later <= Cardinality(Doubtful(w) \cup {n})
      BY <1>2, <2>2, OneMore, Fewer
    <3>2. Cardinality(Doubtful(w) \cup {n}) <= doubts + 1
      BY <1>2, OneMore
    <3>3. Cardinality(Doubtful(w) \cup {n}) \in Nat
      BY <1>2, NodesCount
    <3> QED
      BY <1>1, <1>3, <2>2, <3>1, <3>2, <3>3
  <2> QED
    BY <2>1, <2>2
<1>6. pass[w].need + settled + doubts <= Target + faults
  BY DEF Budgeted
<1>7. pass[w].need + settled + later <= Target + faults'
  <2> DEFINE need == pass[w].need
             before == faults
             now == faults'
  <2>1. /\ settled \in Nat /\ doubts \in Nat /\ later \in Nat /\ need \in Nat
        /\ Target \in Nat /\ before \in Nat /\ now \in Nat
        /\ later + before <= doubts + now
        /\ need + settled + doubts <= Target + before
    BY <1>1, <1>3, <1>5, <1>6, TargetIsNat
  <2>2. need + settled + later <= Target + now
    <3> HIDE DEF settled, doubts, later, need, before, now
    <3> QED
      BY <2>1
  <2> QED
    BY <2>2
<1> QED
  BY <1>4, <1>7 DEF Budgeted

(* A worker that has done with a peer keeps its budget if the peer counts, *)
(* or was doubtful, or something goes wrong now.                           *)
LEMMA BudgetSettled ==
    ASSUME TypeOK, TypeOK', NEW w \in Worker, Budgeted(w),
           NEW placed \in {0, 1}, NextPeer(w, placed), pass[w].at = "waiting", InOrder,
           Gone' \subseteq Gone, faults <= faults',
           placed = 1 \/ stream[w].to \notin Near \/ stream[w].to \in Doubtful(w) \/ faults' = faults + 1
    PROVE  Budgeted(w)'
<1> DEFINE q == stream[w].to
           settled == Near \ Pending(w)
           later == Near \ Pending(w)'
           rest == Doubtful(w) \ {q}
<1>1. /\ q \in Node /\ settled \in SUBSET Node /\ Doubtful(w) \in SUBSET Node
      /\ Cardinality(settled) \in Nat /\ Cardinality(Doubtful(w)) \in Nat
      /\ pass[w].need \in 0 .. Target /\ faults \in Nat
  BY BudgetTypes DEF TypeOK
<1>2. faults' \in Nat
  BY ReplicationAssumption DEF ReplicationAssumption, TypeOK
<1>3. /\ pass'[w].at = "ready" /\ pass'[w].rest = pass[w].rest
      /\ pass'[w].need = pass[w].need - placed
      /\ stream'[w] = NoStream
  BY NextPeerEffect
<1>4. Pending(w)' = Pending(w) \ {q} /\ q \in Pending(w)
  BY <1>3 DEF Pending, InOrder
<1>5. Doubtful(w)' \subseteq rest
  BY <1>3, <1>4 DEF Doubtful, Failing, NoStream
<1>6. Cardinality(Doubtful(w)') <= Cardinality(rest) /\ Cardinality(Doubtful(w)') \in Nat
      /\ Cardinality(rest) \in Nat
  BY <1>1, <1>5, Fewer, NodesCount
<1>7. Cardinality(later) \in Nat /\ later \subseteq settled \cup {q} /\ (q \notin Near => later = settled)
  <2>1. later \subseteq settled \cup {q} /\ (q \notin Near => later = settled)
    BY <1>4
  <2> QED
    BY <1>1, <2>1, NodesCount
<1>8. Cardinality(later) <= Cardinality(settled) + 1
  <2>1. Cardinality(later) <= Cardinality(settled \cup {q})
    BY <1>1, <1>7, OneMore, Fewer
  <2>2. Cardinality(settled \cup {q}) <= Cardinality(settled) + 1
    BY <1>1, OneMore
  <2>3. Cardinality(settled \cup {q}) \in Nat
    BY <1>1, NodesCount
  <2> QED
    BY <1>1, <1>7, <2>1, <2>2, <2>3
<1>9. Cardinality(rest) <= Cardinality(Doubtful(w))
  BY <1>1, Fewer
<1>10. q \in Doubtful(w) => Cardinality(rest) = Cardinality(Doubtful(w)) - 1
  BY <1>1, OneLess
<1>11. q \notin Near => Cardinality(later) = Cardinality(settled)
  BY <1>7
<1>12. pass[w].need + Cardinality(settled) + Cardinality(Doubtful(w)) <= Target + faults
  BY DEF Budgeted
<1>13. pass'[w].need + Cardinality(later) + Cardinality(Doubtful(w)') <= Target + faults'
  <2> DEFINE l == Cardinality(later)
             s == Cardinality(settled)
             d == Cardinality(Doubtful(w))
             r == Cardinality(rest)
             e == Cardinality(Doubtful(w)')
  <2>1. /\ l \in Nat /\ s \in Nat /\ d \in Nat /\ r \in Nat /\ e \in Nat
        /\ e <= r /\ r <= d /\ l <= s + 1
        /\ placed = 1 \/ l = s \/ r = d - 1 \/ faults' = faults + 1
        /\ pass[w].need + s + d <= Target + faults
    BY <1>1, <1>6, <1>7, <1>8, <1>9, <1>10, <1>11, <1>12
  <2>2. pass[w].need - placed + l + e <= Target + faults'
    <3> HIDE DEF l, s, d, r, e
    <3> QED
      BY <1>1, <1>2, <2>1, TargetIsNat
  <2> QED
    BY <1>3, <2>2
<1> QED
  BY <1>13 DEF Budgeted

(* A worker that begins its pass needs what is missing from the target,    *)
(* and has settled the nodes it takes for holders.  If the publisher is    *)
(* not among those and not gone either, it is one more doubtful peer.      *)
LEMMA BudgetBegun ==
    ASSUME TypeOK, TypeOK', NEW w \in Worker, NEW known \in SUBSET Near,
           pass'[w].at = "ready", pass'[w].rest = Node \ known, stream'[w].stage = "none",
           pass'[w].need = Target - Cardinality(known),
           NEW missed \in {0, 1}, Cardinality(Gone') + missed <= faults',
           missed = 0 => Publisher \in known \cup Gone'
    PROVE  Budgeted(w)'
<1>1. Near \in SUBSET Node /\ Publisher \in Node
  BY ReplicationAssumption DEF ReplicationAssumption, Near
<1>2. Pending(w)' = Node \ known
  BY DEF Pending
<1>3. Near \ Pending(w)' = known
  BY <1>1, <1>2
<1>4. Gone' \in SUBSET Node /\ Cardinality(Gone') \in Nat
  BY <1>1, NodesCount DEF Gone
<1>5. Doubtful(w)' \in SUBSET Node /\ Cardinality(Doubtful(w)') \in Nat
  BY <1>1, NodesCount DEF Doubtful
<1>6. Cardinality(Doubtful(w)') <= Cardinality(Gone') + missed
  <2>1. CASE missed = 0
    <3>1. Doubtful(w)' \subseteq Gone'
      BY <1>2, <2>1 DEF Doubtful, Failing
    <3> QED
      BY <1>4, <1>5, <2>1, <3>1, Fewer
  <2>2. CASE missed = 1
    <3>1. Doubtful(w)' \subseteq Gone' \cup {Publisher}
      BY DEF Doubtful, Failing
    <3>2. /\ Gone' \cup {Publisher} \in SUBSET Node
          /\ Cardinality(Gone' \cup {Publisher}) <= Cardinality(Gone') + 1
      BY <1>1, <1>4, OneMore
    <3>3. Cardinality(Doubtful(w)') <= Cardinality(Gone' \cup {Publisher})
      BY <3>1, <3>2, Fewer
    <3>4. Cardinality(Gone' \cup {Publisher}) \in Nat
      BY <3>2, NodesCount
    <3> QED
      BY <1>4, <1>5, <2>2, <3>2, <3>3, <3>4
  <2> QED
    BY <2>1, <2>2
<1>7. Cardinality(known) \in Nat /\ faults' \in Nat
  BY <1>1, NodesCount, ReplicationAssumption DEF ReplicationAssumption, TypeOK
<1>9. pass'[w].need + Cardinality(known) + Cardinality(Doubtful(w)') <= Target + faults'
  <2> DEFINE k == Cardinality(known)
             d == Cardinality(Doubtful(w)')
             g == Cardinality(Gone')
             f == faults'
  <2>1. /\ k \in Nat /\ d \in Nat /\ g \in Nat /\ f \in Nat /\ d <= g + missed /\ g + missed <= f
        /\ Target \in Nat
    BY <1>4, <1>5, <1>6, <1>7, TargetIsNat
  <2>2. Target - k + k + d <= Target + f
    <3> HIDE DEF k, d, g, f
    <3> QED
      BY <2>1
  <2> QED
    BY <2>2
<1> QED
  BY <1>3, <1>9 DEF Budgeted

(* Doubts follow who is gone and which stream has failed. *)
LEMMA DoubtsFollow ==
    ASSUME TypeOK, NEW v \in Worker, Gone' \subseteq Gone,
           pass'[v] = pass[v], stream'[v].to = stream[v].to,
           Failing(v)' \cap Near \subseteq Failing(v)
    PROVE  Pending(v)' = Pending(v) /\ Doubtful(v)' \subseteq Doubtful(v)
<1>1. Pending(v)' = Pending(v)
  BY DEF Pending
<1> QED
  BY <1>1 DEF Doubtful

(* A step of one worker leaves the budget of another alone. *)
LEMMA OthersKeep ==
    ASSUME TypeOK, TypeOK', NEW v \in Worker, Budgeted(v), Gone' \subseteq Gone, faults <= faults',
           pass'[v] = pass[v], stream'[v] = stream[v]
    PROVE  Budgeted(v)'
<1>1. Failing(v)' = Failing(v)
  BY DEF Failing
<1> QED
  BY <1>1, DoubtsFollow, BudgetKept

(* The steps of a worker keep its budget. *)
LEMMA WorkerKeepsBudget ==
    ASSUME TypeOK, TypeOK', Unpublished, InOrder, NEW w \in Worker, Push(w) \/ Serve(w) \/ Break(w),
           Gone' \subseteq Gone, faults <= faults', lacked' = FALSE, Budgeted(w), pass'[w].at # "idle"
    PROVE  Budgeted(w)'
<1>1. Publisher \in Node /\ faults \in Nat
  BY ReplicationAssumption DEF ReplicationAssumption, TypeOK
<1>2. CASE Offer(w)
  <2>1. PICK q \in pass[w].rest :
            Approach(w, q, IF q \in up /\ Holds(Home(w)) THEN "offered" ELSE "dead")
    BY <1>2 DEF Offer
  <2>2. Holds(Home(w)) /\ up' = up
    BY <1>2 DEF Offer
  <2>3. /\ pass[w].at = "ready" /\ q \in pass[w].rest /\ q \in Node
        /\ pass'[w].at = "waiting" /\ pass'[w].rest = pass[w].rest \ {q} /\ pass'[w].need = pass[w].need
        /\ stream'[w].to = q /\ (stream'[w].stage = "dead" => q \notin up)
        /\ stream'[w].stage \in {"offered", "dead"}
    <3>1. CASE q \in up
      <4>1. Approach(w, q, "offered")
        BY <2>1, <2>2, <3>1
      <4> QED
        BY <4>1, ApproachEffect
    <3>2. CASE q \notin up
      <4>1. Approach(w, q, "dead")
        BY <2>1, <3>2
      <4> QED
        BY <3>2, <4>1, ApproachEffect
    <3> QED
      BY <3>1, <3>2
  <2>4. Pending(w)' = Pending(w)
    BY <2>3 DEF Pending
  <2>5. Failing(w)' \subseteq Gone'
    BY <2>2, <2>3 DEF Failing, Gone
  <2>6. Doubtful(w)' \subseteq Doubtful(w)
    BY <2>4, <2>5 DEF Doubtful
  <2> QED
    BY <2>3, <2>4, <2>6, BudgetKept
<1>3. CASE PassEnds(w)
  BY <1>3 DEF PassEnds, Become, Resting, TypeOK
<1>4. CASE Answered(w)
  <2>1. PICK placed \in {0, 1} :
            NextPeer(w, placed) /\ (placed = 1 \/ stream[w].stage \in {"declined", "failed"})
    BY <1>4 DEF Answered
  <2>2. pass[w].at = "waiting"
    BY <1>4 DEF Answered, At
  <2>3. placed = 1 \/ stream[w].to \notin Near \/ stream[w].to \in Doubtful(w)
    BY <2>1, <2>2 DEF Doubtful, Failing, Pending
  <2> QED
    BY <2>1, <2>2, <2>3, BudgetSettled
<1>5. CASE SendBlobs(w)
  <2>1. Stage(w, "sent") /\ pass' = pass
    BY <1>5 DEF SendBlobs
  <2>2. stream'[w].to = stream[w].to /\ stream'[w].stage = "sent"
    BY <2>1, StageEffect
  <2>3. Failing(w)' = {}
    BY <2>2 DEF Failing
  <2> QED
    BY <2>1, <2>2, <2>3, DoubtsFollow, BudgetKept
<1>6. CASE Deadline(w)
  <2>1. NextPeer(w, 0) /\ pass[w].at = "waiting" /\ stream[w].stage = "dead"
    BY <1>6 DEF Deadline, At
  <2>2. stream[w].to \notin Near \/ stream[w].to \in Doubtful(w)
    BY <2>1 DEF Doubtful, Failing, Pending
  <2> QED
    BY <2>1, <2>2, BudgetSettled
<1>7. CASE Reply(w)
  <2>1. PICK stage \in {"have", "accepted", "declined"} :
            /\ Stage(w, stage)
            /\ \/ stage \in {"have", "accepted"}
               \/ ~ Holds(stream[w].to) /\ stream[w].to \notin Open
               \/ Fault
    BY <1>7 DEF Reply
  <2>2. stream'[w].to = stream[w].to /\ stream'[w].stage = stage
    BY <2>1, StageEffect
  <2>3. pass' = pass /\ stream[w].to \in Node /\ pass[w].at = "waiting"
    BY <1>7 DEF Reply, Asked, TypeOK
  <2>4. Holds(Publisher)
    BY <2>3 DEF Unpublished
  <2>5. CASE stage \in {"have", "accepted"}
    <3>1. Failing(w)' = {}
      BY <2>2, <2>5 DEF Failing
    <3> QED
      BY <2>2, <2>3, <3>1, DoubtsFollow, BudgetKept
  <2>6. CASE ~ Holds(stream[w].to) /\ stream[w].to \notin Open
    <3>1. Failing(w)' \subseteq {stream[w].to} /\ stream[w].to \notin Near
      BY <2>2, <2>4, <2>6 DEF Failing, Near
    <3> QED
      BY <2>2, <2>3, <3>1, DoubtsFollow, BudgetKept
  <2>7. CASE Fault
    <3>1. Failing(w)' \subseteq {stream[w].to}
      BY <2>2 DEF Failing
    <3>2. Pending(w)' = Pending(w)
      BY <2>2, <2>3 DEF Pending
    <3>3. Doubtful(w)' \subseteq Doubtful(w) \cup {stream[w].to}
      BY <3>1, <3>2 DEF Doubtful
    <3>4. faults' = faults + 1
      BY <2>7 DEF Fault
    <3> QED
      BY <2>3, <3>2, <3>3, <3>4, BudgetKept
  <2> QED
    BY <2>1, <2>5, <2>6, <2>7
<1>8. CASE Commit(w)
  <2>1. PICK stage \in {"stored", "failed"} : Stage(w, stage) /\ (stage = "stored" \/ Fault)
    BY <1>8 DEF Commit
  <2>2. stream'[w].to = stream[w].to /\ stream'[w].stage = stage
    BY <2>1, StageEffect
  <2>3. pass' = pass /\ stream[w].to \in Node
    BY <1>8 DEF Commit, TypeOK
  <2>4. CASE stage = "stored"
    <3>1. Failing(w)' = {}
      BY <2>2, <2>4 DEF Failing
    <3> QED
      BY <2>2, <2>3, <3>1, DoubtsFollow, BudgetKept
  <2>5. CASE Fault
    <3>1. Failing(w)' \subseteq {stream[w].to}
      BY <2>2 DEF Failing
    <3>2. Pending(w)' = Pending(w)
      BY <2>2, <2>3 DEF Pending
    <3>3. Doubtful(w)' \subseteq Doubtful(w) \cup {stream[w].to}
      BY <3>1, <3>2 DEF Doubtful
    <3>4. faults' = faults + 1
      BY <2>5 DEF Fault
    <3> QED
      BY <2>3, <3>2, <3>3, <3>4, BudgetKept
  <2> QED
    BY <2>1, <2>4, <2>5
<1>9. CASE Break(w)
  <2>1. NextPeer(w, 0) /\ pass[w].at = "waiting" /\ faults' = faults + 1
    BY <1>9 DEF Break, At, Fault
  <2> QED
    BY <2>1, BudgetSettled
<1> QED
  BY <1>2, <1>3, <1>4, <1>5, <1>6, <1>7, <1>8, <1>9 DEF Push, Serve

(* A worker's step changes its own pass and stream only.                   *)
LEMMA WorkerStepIsLocal ==
    ASSUME TypeOK, NEW w \in Worker, Push(w) \/ Serve(w) \/ Break(w)
    PROVE  \A v \in Worker \ {w} : pass'[v] = pass[v] /\ stream'[v] = stream[v]
BY DEF Push, Serve, Break, Offer, Approach, PassEnds, Answered, SendBlobs, Deadline, Reply, Commit, NextPeer, Stage,
       Become, TypeOK

(* A pass that Heal begins is within its budget: the publisher is known to *)
(* it or gone, or it has been missed.                                      *)
LEMMA HealBegins ==
    ASSUME TypeOK, TypeOK', Sources, Unpublished, GoneCounted, NEW n \in Node, Heal(n)
    PROVE  /\ Budgeted(<<n, "heal">>)'
           /\ \A v \in Worker \ {<<n, "heal">>} : pass'[v] = pass[v]
           /\ stream' = stream
<1> DEFINE w == <<n, "heal">>
<1>1. PICK known \in SUBSET Node :
          /\ known \subseteq record \cup {n} /\ Holds(n)
          /\ stream[w].stage = "none"
          /\ pass'[w].at = "ready" /\ pass'[w].rest = Node \ known
          /\ pass'[w].need = Target - Cardinality(known)
          /\ \A v \in Worker \ {w} : pass'[v] = pass[v]
          /\ Missed(known) \in {0, 1} /\ faults' = faults + Missed(known)
          /\ UNCHANGED <<up, copy, record, unannounced, arrived, stream, fetched, lacked>>
  BY HealEffect
<1>2. w \in Worker
  BY DEF Worker
<1>3. known \in SUBSET Near
  BY <1>1 DEF Sources, Holders
<1>4. Gone' = Gone
  BY <1>1 DEF Gone, Holds
<1>5. Missed(known) = 0 => Publisher \in known \cup Gone'
  <2>1. Holds(Publisher)
    BY <1>1 DEF Unpublished, Holders
  <2>2. Publisher \in Node
    BY ReplicationAssumption DEF ReplicationAssumption
  <2> QED
    BY <1>4, <2>1, <2>2 DEF Gone, Missed
<1>6. Cardinality(Gone') + Missed(known) <= faults'
  <2>1. faults \in Nat /\ Cardinality(Gone) \in Nat
    BY NodesCount, ReplicationAssumption DEF ReplicationAssumption, TypeOK, Gone
  <2> QED
    BY <1>1, <1>4, <2>1 DEF GoneCounted
<1>7. Budgeted(w)'
  <2> HIDE DEF w
  <2> QED
    BY <1>1, <1>2, <1>3, <1>5, <1>6, BudgetBegun
<1> QED
  BY <1>1, <1>7

(* The pass of a publication, which its announcement begins, knows of the  *)
(* publisher's copy.                                                       *)
LEMMA PublishBegins ==
    ASSUME TypeOK, TypeOK', GoneCounted', NEW w \in Worker,
           pass'[w].at = "ready", pass'[w].rest = Node \ {Publisher}, pass'[w].need = Replicas,
           stream'[w].stage = "none"
    PROVE  Budgeted(w)'
<1>1. {Publisher} \in SUBSET Near /\ Cardinality({Publisher}) = 1
  BY FS_Singleton DEF Near
<1>2. pass'[w].need = Target - Cardinality({Publisher})
  BY <1>1, TargetIsNat
<1>3. Cardinality(Gone') + 0 <= faults'
  <2>1. faults' \in Nat /\ Cardinality(Gone') \in Nat
    BY NodesCount, ReplicationAssumption DEF ReplicationAssumption, TypeOK, Gone
  <2> QED
    BY <2>1 DEF GoneCounted
<1> QED
  BY <1>1, <1>2, <1>3, BudgetBegun

(* Every step keeps the budgets of the passes under way. *)
LEMMA StepBudget ==
    TypeOK /\ TypeOK' /\ Unpublished /\ Sources /\ InOrder /\ GoneCounted /\ GoneCounted' /\ PassesBudgeted
        /\ [Next]_vars
        => PassesBudgeted'
<1> SUFFICES ASSUME TypeOK, TypeOK', Unpublished, Sources, InOrder, GoneCounted, GoneCounted', PassesBudgeted,
                    [Next]_vars, ~ lacked', NEW v \in Worker, pass'[v].at # "idle"
             PROVE  Budgeted(v)'
  BY DEF PassesBudgeted
<1>0. lacked' = FALSE
  BY DEF TypeOK
<1>1. faults <= faults'
  BY StepFaults
<1>2. ~ lacked
  BY StepFaults
<1>3. ASSUME NEW u \in Worker, pass[u].at # "idle"
      PROVE  Budgeted(u)
  BY <1>2, <1>3 DEF PassesBudgeted
<1>4. (\A n \in Node : ~ Crash(n) /\ ~ Announce(n)) => Gone' \subseteq Gone
  BY GoneByFault
<1>5. ASSUME Gone' \subseteq Gone, pass'[v] = pass[v], stream'[v] = stream[v]
      PROVE  Budgeted(v)'
  <2>1. pass[v].at # "idle"
    BY <1>5
  <2>2. Budgeted(v)
    BY <1>3, <2>1
  <2> QED
    BY <1>1, <1>5, <2>2, OthersKeep
<1>6. ASSUME NEW n \in Node, Crash(n)
      PROVE  Budgeted(v)'
  <2>1. Home(v) # n
    BY <1>6, CrashEffect DEF Resting
  <2>2. pass'[v] = pass[v]
    BY <1>6, <2>1, CrashEffect
  <2>3. \/ stream'[v] = stream[v]
        \/ stream[v].to = n /\ stream'[v].to = n /\ stream'[v].stage = "dead"
    BY <1>6, <2>1, CrashEffect
  <2>4. Pending(v)' = Pending(v)
    BY <2>2, <2>3 DEF Pending
  <2>5. Failing(v)' \subseteq Failing(v) \cup {n}
    BY <2>3 DEF Failing
  <2>6. Gone' \subseteq Gone \cup {n}
    BY <1>6 DEF Crash, Gone, Holds
  <2>7. Doubtful(v)' \subseteq Doubtful(v) \cup {n}
    BY <2>4, <2>5, <2>6 DEF Doubtful
  <2>8. Budgeted(v)
    BY <1>3, <2>2
  <2>9. faults' = faults + 1
    BY <1>6 DEF Crash, Fault
  <2> QED
    BY <1>6, <2>2, <2>4, <2>7, <2>8, <2>9, BudgetKept
<1>8. ASSUME NEW n \in Node, Announce(n)
      PROVE  Budgeted(v)'
  <2>1. stream' = stream
    BY <1>8, AnnounceEffect
  <2>2. CASE pass'[v] = pass[v]
    <3>1. Budgeted(v)
      BY <1>3, <2>2
    <3>2. Pending(v)' = Pending(v) /\ Failing(v)' = Failing(v)
      BY <2>1, <2>2 DEF Pending, Failing
    <3>3. CASE Gone' \subseteq Gone
      BY <1>5, <2>1, <2>2, <3>3
    <3>4. ASSUME NEW m \in Node, Gone' \subseteq Gone \cup {m}, faults' = faults + 1
          PROVE  Budgeted(v)'
      <4>1. Doubtful(v)' \subseteq Doubtful(v) \cup {m}
        BY <3>2, <3>4 DEF Doubtful
      <4> QED
        BY <2>2, <3>1, <3>2, <3>4, <4>1, BudgetKept
    <3> QED
      BY <3>3, <3>4, GoneByFault
  <2>3. CASE pass'[v] # pass[v]
    <3>1. /\ stream'[v].stage = "none" /\ pass'[v].at = "ready"
          /\ pass'[v].rest = Node \ {Publisher} /\ pass'[v].need = Replicas
      BY <1>8, <2>1, <2>3, AnnounceEffect
    <3> QED
      BY <3>1, PublishBegins
  <2> QED
    BY <2>2, <2>3
<1>7. CASE \A n \in Node : ~ Crash(n) /\ ~ Announce(n)
  <2>1. Gone' \subseteq Gone
    BY <1>4, <1>7
  <2>2. CASE Publish
    BY <1>5, <2>1, <2>2 DEF Publish
  <2>3. ASSUME NEW w \in Worker, Push(w) \/ Serve(w) \/ Break(w)
        PROVE  Budgeted(v)'
    <3>1. CASE v # w
      BY <1>5, <2>1, <2>3, <3>1, WorkerStepIsLocal
    <3>2. CASE v = w
      <4>1. pass[w].at # "idle"
        BY <2>3 DEF Push, Serve, Break, Offer, Approach, PassEnds, Answered, SendBlobs, Deadline, Reply, Commit, At,
                    Asked, TypeOK
      <4>2. Budgeted(w)
        BY <1>3, <4>1
      <4> QED
        BY <1>0, <1>1, <2>1, <2>3, <3>2, <4>2, WorkerKeepsBudget
    <3> QED
      BY <3>1, <3>2
  <2>4. ASSUME NEW n \in Node, Heal(n)
        PROVE  Budgeted(v)'
    BY <1>5, <2>1, <2>4, HealBegins
  <2>5. ASSUME NEW n \in Node,
               CommitUnseen(n) \/ Provide(n) \/ Expire(n) \/ Restart(n) \/ Evict(n) \/ Fetch(n) \/ ReadOn(n)
        PROVE  Budgeted(v)'
    <3>1. pass' = pass /\ stream' = stream
      BY <2>5 DEF CommitUnseen, Provide, Expire, Restart, Evict, Fetch, ReadOn
    <3> QED
      BY <1>5, <2>1, <3>1
  <2>6. CASE UNCHANGED vars
    <3>1. pass' = pass /\ stream' = stream
      BY <2>6 DEF vars
    <3> QED
      BY <1>5, <2>1, <3>1
  <2> QED
    BY <1>7, <2>2, <2>3, <2>4, <2>5, <2>6 DEF Next
<1> QED
  BY <1>6, <1>7, <1>8

(* What is sent is sent within reach. *)
LEMMA SentWithinReach ==
    ASSUME TypeOK, Sources, InOrder, NEW w \in Worker, stream[w].stage = "sent", Budgeted(w)
    PROVE  stream[w].to \in Reach(faults)
<1> DEFINE q == stream[w].to
           settled == Near \ Pending(w)
           others == settled \ {Publisher}
<1>1. /\ pass[w].at = "waiting" /\ pass[w].need > 0 /\ q \in Open
      /\ \A r \in pass[w].rest : ~ Closer(r, q)
  BY DEF TypeOK, Sources, InOrder
<1>2. /\ Near \in SUBSET Node /\ settled \in SUBSET Node /\ Doubtful(w) \in SUBSET Node
      /\ Cardinality(settled) \in Nat /\ Cardinality(Doubtful(w)) \in Nat
      /\ pass[w].need \in 0 .. Target /\ faults \in Nat
  BY BudgetTypes
<1>3. Before(q) \subseteq others
  <2>1. q \in Node /\ ~ Closer(q, q)
    BY <1>1, CloserOrder, ReplicationAssumption DEF ReplicationAssumption
  <2> QED
    BY <1>1, <2>1 DEF Before, Near, Pending
<1>4. others \in SUBSET Node /\ Cardinality(others) \in Nat /\ Before(q) \in SUBSET Node
      /\ Cardinality(Before(q)) \in Nat
  BY <1>2, <1>3, NodesCount
<1>5. Cardinality(Before(q)) <= Cardinality(others)
  BY <1>3, <1>4, Fewer
<1>6. Cardinality(others) + 1 <= Cardinality(settled) + Cardinality(Doubtful(w))
  <2>1. CASE Publisher \in settled
    BY <1>2, <1>4, <2>1, OneLess
  <2>2. CASE Publisher \notin settled
    <3>1. others = settled
      BY <2>2
    <3>2. Publisher \in Doubtful(w)
      BY <2>2 DEF Near, Doubtful
    <3>3. Cardinality({Publisher}) <= Cardinality(Doubtful(w)) /\ Cardinality({Publisher}) = 1
      BY <1>2, <3>2, Fewer, FS_Singleton
    <3>4. Cardinality(Doubtful(w)) >= 1
      BY <3>3
    <3>5. Cardinality(others) = Cardinality(settled)
      BY <3>1
    <3> HIDE DEF others, settled
    <3> QED
      BY <1>2, <3>4, <3>5
  <2> QED
    BY <2>1, <2>2
<1>7. pass[w].need + Cardinality(settled) + Cardinality(Doubtful(w)) <= Target + faults
  BY DEF Budgeted
<1>8. Cardinality(Before(q)) < Replicas + faults
  <2> DEFINE b == Cardinality(Before(q))
             o == Cardinality(others)
             s == Cardinality(settled)
             d == Cardinality(Doubtful(w))
             n == pass[w].need
             f == faults
  <2>1. /\ b \in Nat /\ o \in Nat /\ s \in Nat /\ d \in Nat /\ n \in Nat /\ f \in Nat
        /\ b <= o /\ o + 1 <= s + d /\ n > 0 /\ n + s + d <= Replicas + 1 + f /\ Replicas \in Nat
    <3>1. n \in Nat /\ n > 0
      BY <1>1, <1>2, TargetIsNat
    <3>2. n + s + d <= Replicas + 1 + f
      BY <1>7, TargetIsNat
    <3> QED
      BY <1>2, <1>4, <1>5, <1>6, <3>1, <3>2, TargetIsNat
  <2>2. b < Replicas + f
    <3> HIDE DEF b, o, s, d, n, f
    <3> QED
      BY <2>1
  <2> QED
    BY <2>2
<1> QED
  BY <1>1, <1>8 DEF Reach

(* Every copy a step makes is fetched or within reach.                     *)
LEMMA StepReach ==
    TypeOK /\ TypeOK' /\ Unpublished /\ Sources /\ InOrder /\ PassesBudgeted /\ WithinReach /\ [Next]_vars
        => WithinReach'
<1> SUFFICES ASSUME TypeOK, TypeOK', Unpublished, Sources, InOrder, PassesBudgeted, WithinReach, [Next]_vars,
                    ~ lacked'
             PROVE  (Holders \cup arrived)' \subseteq Reach(faults') \cup fetched'
  BY DEF WithinReach, Reach
<1> DEFINE reached == Reach(faults') \cup fetched'
<1>1. ~ lacked /\ faults \in Nat /\ faults' \in Nat /\ faults <= faults'
  BY StepFaults
<1>2. Reach(faults) \subseteq Reach(faults')
  BY <1>1, ReachGrows
<1>3. Holders \cup arrived \subseteq Reach(faults) \cup fetched
  BY <1>1 DEF WithinReach
<1>4. ASSUME NEW w \in Worker, stream[w].stage = "sent"
      PROVE  stream[w].to \in reached
  <2>1. pass[w].at # "idle"
    BY <1>4 DEF TypeOK
  <2>2. Budgeted(w)
    BY <1>1, <2>1 DEF PassesBudgeted
  <2> QED
    BY <1>2, <1>4, <2>2, SentWithinReach
<1>5. ASSUME copy' = copy, arrived' \subseteq arrived, fetched' = fetched
      PROVE  (Holders \cup arrived)' \subseteq reached
  BY <1>2, <1>3, <1>5 DEF Holders, Holds
<1>6. CASE Publish
  <2>1. Holders' \subseteq Holders \cup {Publisher} /\ arrived' = arrived /\ fetched' = fetched
    BY <1>6 DEF Publish, Holders, Holds, TypeOK
  <2>2. Publisher \in reached
    BY DEF Reach
  <2> QED
    BY <1>2, <1>3, <2>1, <2>2
<1>7. ASSUME NEW w \in Worker, Offer(w) \/ PassEnds(w) \/ Answered(w) \/ SendBlobs(w) \/ Deadline(w) \/ Reply(w)
      PROVE  (Holders \cup arrived)' \subseteq reached
  <2>1. copy' = copy /\ arrived' = arrived /\ fetched' = fetched
    BY <1>7 DEF Offer, PassEnds, Answered, SendBlobs, Deadline, Reply
  <2> QED
    BY <1>5, <2>1
<1>8. ASSUME NEW w \in Worker, Commit(w)
      PROVE  (Holders \cup arrived)' \subseteq reached
  <2>1. Holders' \subseteq Holders \cup {stream[w].to} /\ arrived' = arrived /\ fetched' = fetched
    BY <1>8 DEF Commit, Store, Holders, Holds, TypeOK
  <2>2. stream[w].to \in reached
    BY <1>4, <1>8 DEF Commit, Asked
  <2> QED
    BY <1>2, <1>3, <2>1, <2>2
<1>9. ASSUME NEW w \in Worker, Break(w)
      PROVE  (Holders \cup arrived)' \subseteq reached
  <2>1. /\ copy' = copy /\ fetched' = fetched
        /\ arrived' \subseteq arrived \cup (IF stream[w].stage = "sent" THEN {stream[w].to} ELSE {})
    BY <1>9 DEF Break
  <2>2. arrived' \subseteq arrived \cup reached
    BY <1>4, <2>1
  <2> QED
    BY <1>2, <1>3, <2>1, <2>2 DEF Holders, Holds
<1>10. ASSUME NEW n \in Node, CommitUnseen(n)
       PROVE  (Holders \cup arrived)' \subseteq reached
  <2>1. /\ Holders' \subseteq Holders \cup {n} /\ n \in arrived
        /\ arrived' \subseteq arrived /\ fetched' = fetched
    BY <1>10 DEF CommitUnseen, Store, Holders, Holds, TypeOK
  <2> QED
    BY <1>2, <1>3, <2>1
<1>11. ASSUME NEW n \in Node, Heal(n) \/ Announce(n) \/ Provide(n) \/ Expire(n) \/ Restart(n)
       PROVE  (Holders \cup arrived)' \subseteq reached
  <2>1. copy' = copy /\ arrived' = arrived /\ fetched' = fetched
    BY <1>11 DEF Heal, Tops, Announce, Provide, Expire, Restart
  <2> QED
    BY <1>5, <2>1
<1>12. ASSUME NEW n \in Node, Crash(n)
       PROVE  (Holders \cup arrived)' \subseteq reached
  <2>1. copy' = copy /\ fetched' = fetched
    BY <1>12 DEF Crash
  <2>2. arrived' \subseteq arrived \cup {stream[w].to : w \in {v \in Worker : Home(v) = n /\ stream[v].stage = "sent"}}
    BY <1>12 DEF Crash
  <2>3. arrived' \subseteq arrived \cup reached
    BY <1>4, <2>2
  <2> QED
    BY <1>2, <1>3, <2>1, <2>3 DEF Holders, Holds
<1>13. ASSUME NEW n \in Node, Evict(n) \/ ReadOn(n)
       PROVE  (Holders \cup arrived)' \subseteq reached
  <2>1. Holders' \subseteq Holders /\ arrived' = arrived /\ fetched' = fetched
    BY <1>13 DEF Evict, ReadOn, Holders, Holds, TypeOK
  <2> QED
    BY <1>2, <1>3, <2>1
<1>14. ASSUME NEW n \in Node, Fetch(n)
       PROVE  (Holders \cup arrived)' \subseteq reached
  <2>1. Holders' \subseteq Holders \cup {n} /\ arrived' = arrived /\ fetched' = fetched \cup {n}
    BY <1>14 DEF Fetch, Holders, Holds, TypeOK
  <2> QED
    BY <1>2, <1>3, <2>1
<1>15. CASE UNCHANGED vars
  <2>1. copy' = copy /\ arrived' = arrived /\ fetched' = fetched
    BY <1>15 DEF vars
  <2> QED
    BY <1>5, <2>1
<1> QED
  BY <1>6, <1>7, <1>8, <1>9, <1>10, <1>11, <1>12, <1>13, <1>14, <1>15 DEF Next, Push, Serve

(* The invariant bounds the copies. *)
LEMMA InvBounds == Inv => HealersConverge
<1> SUFFICES ASSUME Inv, ~ lacked
             PROVE  Cardinality(Holders) <= Target + faults + Cardinality(fetched)
  BY DEF HealersConverge
<1>1. TypeOK /\ Holders \subseteq Reach(faults) \cup fetched
  BY DEF Inv, WithinReach
<1>2. faults \in Nat /\ fetched \in SUBSET Node
  BY <1>1, ReplicationAssumption DEF ReplicationAssumption, TypeOK
<1> DEFINE reach == Reach(faults)
<1>3. reach \in SUBSET Node /\ Cardinality(reach) <= Target + faults
  BY <1>2, ReachBound
<1> HIDE DEF reach
<1>4. /\ reach \cup fetched \in SUBSET Node /\ Holders \in SUBSET (reach \cup fetched)
  BY <1>1, <1>2, <1>3 DEF reach
<1>5. Cardinality(Holders) <= Cardinality(reach \cup fetched)
  BY <1>4, Fewer
<1>6. /\ IsFiniteSet(reach) /\ Cardinality(reach) \in Nat
      /\ IsFiniteSet(fetched) /\ Cardinality(fetched) \in Nat
      /\ Cardinality(reach \cap fetched) \in Nat /\ Cardinality(reach \cup fetched) \in Nat
      /\ Cardinality(Holders) \in Nat
  BY <1>2, <1>3, <1>4, NodesCount
<1>7. Cardinality(reach \cup fetched) = Cardinality(reach) + Cardinality(fetched) - Cardinality(reach \cap fetched)
  BY <1>6, FS_Union
<1> QED
  BY <1>2, <1>3, <1>5, <1>6, <1>7, TargetIsNat

(* The whole invariant holds at the start. *)
LEMMA InitInv == Init => Inv
<1> SUFFICES ASSUME Init
             PROVE  Inv
  OBVIOUS
<1>1. TypeOK /\ InOrder /\ Unpublished /\ Sources /\ GoneCounted
  BY InitTypes, InitUnpublished, InitSources, InitGone
<1>2. PassesBudgeted
  BY DEF Init, PassesBudgeted, Resting
<1>3. WithinReach
  BY DEF Init, WithinReach, Holders, Holds
<1> QED
  BY <1>1, <1>2, <1>3 DEF Inv

(* All healers converge on the same target set (replicate.go): with any    *)
(* number of nodes and replicas, whatever crashes, is refused, breaks,     *)
(* comes late, is evicted, is not announced or is not found by a lookup,   *)
(* overlapping passes make no more copies than the target, one for each    *)
(* thing that went wrong and one for each fetch.                           *)
THEOREM AllHealersConverge == Spec => []HealersConverge
<1>1. Init => Inv
  BY InitInv
<1>2. Inv /\ [Next]_vars => Inv'
  <2> SUFFICES ASSUME Inv, [Next]_vars
               PROVE  Inv'
    OBVIOUS
  <2>1. TypeOK' /\ InOrder' /\ Unpublished' /\ Sources' /\ GoneCounted'
    BY StepTypes, StepUnpublished, StepSources, StepGone DEF Inv
  <2>2. PassesBudgeted' /\ WithinReach'
    BY <2>1, StepBudget, StepReach DEF Inv
  <2> QED
    BY <2>1, <2>2 DEF Inv
<1>3. Inv => HealersConverge
  BY InvBounds
<1> QED
  BY <1>1, <1>2, <1>3, PTL DEF Spec

----------------------------------------------------------------------------
(* No pass goes back                                                       *)

LEMMA WorkerForward ==
    ASSUME TypeOK, NEW w \in Worker, Push(w) \/ Serve(w) \/ Break(w), pass'[w].at # "idle"
    PROVE  Forward(w)
<1>1. pass[w].need \in Nat /\ pass[w].rest \subseteq Node
  BY TargetIsNat DEF TypeOK
<1>2. ASSUME NEW placed \in {0, 1}, NextPeer(w, placed), pass[w].at = "waiting"
      PROVE  Forward(w)
  BY <1>1, <1>2, NextPeerEffect DEF Forward
<1>3. ASSUME NEW stage \in {"have", "declined", "accepted", "sent", "stored", "failed"},
             Stage(w, stage), pass' = pass, ToCome(stage) < ToCome(stream[w].stage)
      PROVE  Forward(w)
  BY <1>1, <1>3, StageEffect DEF Forward
<1>4. CASE Offer(w)
  <2>1. PICK q \in pass[w].rest :
            Approach(w, q, IF q \in up /\ Holds(Home(w)) THEN "offered" ELSE "dead")
    BY <1>4 DEF Offer
  <2>2. PICK stage \in {"offered", "dead"} : Approach(w, q, stage)
    BY <2>1
  <2> QED
    BY <1>1, <2>2, ApproachEffect DEF Forward
<1>5. CASE PassEnds(w)
  BY <1>5 DEF PassEnds, Become, Resting, TypeOK
<1>6. CASE Answered(w)
  BY <1>2, <1>6 DEF Answered, At
<1>7. CASE SendBlobs(w)
  <2>1. pass[w].at = "waiting" /\ ToCome("sent") < ToCome(stream[w].stage)
    BY <1>7 DEF SendBlobs, At, ToCome
  <2> QED
    BY <1>2, <1>3, <1>7, <2>1 DEF SendBlobs
<1>8. CASE Deadline(w)
  BY <1>2, <1>8 DEF Deadline, At
<1>9. CASE Reply(w)
  <2>1. PICK stage \in {"have", "accepted", "declined"} : Stage(w, stage)
    BY <1>9 DEF Reply
  <2>2. pass' = pass /\ ToCome(stage) < ToCome(stream[w].stage)
    BY <1>9 DEF Reply, Asked, ToCome
  <2> QED
    BY <1>3, <2>1, <2>2
<1>10. CASE Commit(w)
  <2>1. PICK stage \in {"stored", "failed"} : Stage(w, stage)
    BY <1>10 DEF Commit
  <2>2. pass' = pass /\ ToCome(stage) < ToCome(stream[w].stage)
    BY <1>10 DEF Commit, Asked, ToCome
  <2> QED
    BY <1>3, <2>1, <2>2
<1>11. CASE Break(w)
  BY <1>2, <1>11 DEF Break, At
<1> QED
  BY <1>4, <1>5, <1>6, <1>7, <1>8, <1>9, <1>10, <1>11 DEF Push, Serve

(* heal, pushTo: no pass goes back to a peer it has tried.                 *)
THEOREM PassesMoveOn == Spec => PassesGoForward
<1>1. ASSUME TypeOK, Unpublished, [Next]_vars
      PROVE  [\A w \in Worker :
                 pass[w].at # "idle" /\ pass'[w].at # "idle" => Forward(w)]_vars
  <2> SUFFICES ASSUME Next, NEW w \in Worker, pass[w].at # "idle", pass'[w].at # "idle"
               PROVE  Forward(w)
    BY <1>1
  <2>1. ASSUME UNCHANGED <<pass, stream>>
        PROVE  Forward(w)
    BY <2>1 DEF Forward
  <2>2. CASE Publish
    BY <2>1, <2>2 DEF Publish
  <2>3. ASSUME NEW n \in Node, Heal(n)
        PROVE  Forward(w)
    <3>1. /\ pass[<<n, "heal">>].at = "idle" /\ stream' = stream
          /\ \A v \in Worker \ {<<n, "heal">>} : pass'[v] = pass[v]
      BY <1>1, <2>3, HealEffect
    <3>2. pass'[w] = pass[w]
      BY <3>1
    <3> QED
      BY <3>1, <3>2 DEF Forward
  <2>4. ASSUME NEW v \in Worker, Push(v) \/ Serve(v) \/ Break(v)
        PROVE  Forward(w)
    <3>1. CASE v = w
      BY <1>1, <2>4, <3>1, WorkerForward
    <3>2. CASE v # w
      <4>1. pass'[w] = pass[w] /\ stream'[w] = stream[w]
        BY <1>1, <2>4, <3>2, WorkerStepIsLocal
      <4> QED
        BY <4>1 DEF Forward
    <3> QED
      BY <3>1, <3>2
  <2>5. ASSUME NEW n \in Node, Crash(n)
        PROVE  Forward(w)
    <3>1. Home(w) # n
      BY <1>1, <2>5, CrashEffect DEF Resting
    <3>2. CASE stream'[w] = stream[w]
      BY <1>1, <2>5, <3>1, <3>2, CrashEffect DEF Forward
    <3>3. CASE stream'[w] # stream[w]
      <4>1. /\ pass'[w] = pass[w] /\ stream'[w].to = stream[w].to
            /\ stream[w].stage \in {"offered", "accepted", "sent"} /\ stream'[w].stage = "dead"
        BY <1>1, <2>5, <3>1, <3>3, CrashEffect
      <4>2. ToCome(stream'[w].stage) < ToCome(stream[w].stage)
        BY <4>1 DEF ToCome
      <4>3. pass[w].need \in Nat
        BY <1>1, TargetIsNat DEF TypeOK
      <4> QED
        BY <4>1, <4>2, <4>3 DEF Forward
    <3> QED
      BY <3>2, <3>3
  <2>6. ASSUME NEW n \in Node,
               CommitUnseen(n) \/ Provide(n) \/ Expire(n) \/ Restart(n) \/ Evict(n) \/ Fetch(n) \/ ReadOn(n)
        PROVE  Forward(w)
    BY <2>1, <2>6 DEF CommitUnseen, Provide, Expire, Restart, Evict, Fetch, ReadOn
  <2>7. ASSUME NEW n \in Node, Announce(n)
        PROVE  Forward(w)
    <3>1. pass'[w] = pass[w] /\ stream' = stream
      BY <1>1, <2>7, AnnounceEffect
    <3> QED
      BY <3>1 DEF Forward
  <2> QED
    BY <2>2, <2>3, <2>4, <2>5, <2>6, <2>7 DEF Next
<1>2. Init => TypeOK /\ InOrder /\ Unpublished
  BY InitTypes, InitUnpublished
<1>3. TypeOK /\ InOrder /\ Unpublished /\ [Next]_vars => TypeOK' /\ InOrder' /\ Unpublished'
  BY StepTypes, StepUnpublished
<1> QED
  BY <1>1, <1>2, <1>3, PTL DEF Spec, PassesGoForward
=============================================================================
