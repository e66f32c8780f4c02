------------------------- MODULE EvictionLoopProofs -------------------------
(***************************************************************************)
(* That the eviction loop does what ContentIndex says in one step: the     *)
(* invariants of EvictionLoop, for any number of blobs and sets.           *)
(***************************************************************************)
EXTENDS EvictionLoop, ContentIndexProofs

(* What the call found, and what it leaves alone. *)
Found ==
    /\ IsIndex(before.sets) /\ Mirrors(before.blobs, before.sets)
    /\ before.disk \subseteq Blob
    /\ IsIndex(before.file)
    /\ before.dirty \in BOOLEAN

(* The blobs of a set, as the call found it. *)
BlobsOf(r) == Members(r, before.sets[r].chunks)

RefsLeft(V) == [h \in Blob |-> {r \in DOMAIN before.sets \ V : h \in BlobsOf(r)}]

(* The blobs that only the sets in V keep. *)
Orphans(V) == {h \in Blob : /\ \E r \in V : h \in BlobsOf(r)
                            /\ RefsLeft(V)[h] = {}
                            /\ pending[h] = 0}

MayGo == Before!Evictable

Sooner(r, s) == Before!EvictedBefore(r, s)

RoomWithout(V) == Before!Room(call.size, reserved, V)

(* The victims so far come before all others, and without the last of them *)
(* there was no room.                                                      *)
InOrder(V) ==
    /\ V \subseteq MayGo
    /\ \A v \in V, s \in MayGo \ V : ~ Sooner(s, v)
    /\ V = {} \/ \E last \in V : /\ \A v \in V : ~ Sooner(last, v)
                                 /\ ~ RoomWithout(V \ {last})

----------------------------------------------------------------------------
(* The operators of ContentIndex on the store before the call              *)

LEMMA BlobsOfType ==
    ASSUME Found, NEW r \in DOMAIN before.sets
    PROVE  /\ BlobsOf(r) \subseteq Blob /\ r \in BlobsOf(r)
           /\ r \in Blob /\ before.sets[r] \in ContentMeta
<1>1. r \in Blob /\ before.sets[r] \in ContentMeta
  BY DEF Found, IsIndex
<1>2. before.sets[r].chunks \in Seq(Blob)
  BY <1>1 DEF ContentMeta
<1>3. BlobsOf(r) \subseteq Blob
  BY <1>1, <1>2, MembersType DEF BlobsOf
<1> QED BY <1>1, <1>3 DEF BlobsOf, Members

LEMMA BeforeRefs ==
    ASSUME Found, NEW V, V \subseteq DOMAIN before.sets
    PROVE  /\ Before!RefsWithout(V) = RefsLeft(V)
           /\ Before!Evicted(V) = Orphans(V)
<1>1. \A r : Before!Members(r, before.sets[r].chunks) = BlobsOf(r)
  BY DEF BlobsOf, Members, Before!Members, Range, Before!Range
<1>2. ASSUME NEW h \in Blob
      PROVE  before.blobs[h] \ {r \in V : h \in BlobsOf(r)} = RefsLeft(V)[h]
  BY DEF Found, Mirrors, RefsLeft, BlobsOf
<1>3. Before!RefsWithout(V) = RefsLeft(V)
  <2>1. Before!RefsWithout(V) = [h \in Blob |-> before.blobs[h] \ {r \in V : h \in BlobsOf(r)}]
    BY <1>1 DEF Before!RefsWithout
  <2> QED BY <1>2, <2>1 DEF RefsLeft
<1>4. Before!Evicted(V) = {h \in UNION {BlobsOf(r) : r \in V} :
                              RefsLeft(V)[h] = {} /\ pending[h] = 0}
  BY <1>1, <1>3 DEF Before!Evicted
<1>5. \A r \in V : BlobsOf(r) \subseteq Blob
  BY BlobsOfType
<1> QED BY <1>3, <1>4, <1>5 DEF Orphans

LEMMA BeforeSets ==
    ASSUME NEW V
    PROVE  /\ DOMAIN Before!SetsWithout(V) = DOMAIN before.sets \ V
           /\ \A r \in DOMAIN before.sets \ V : Before!SetsWithout(V)[r] = before.sets[r]
           /\ Before!SetsWithout(V) = [r \in DOMAIN before.sets \ V |-> before.sets[r]]
BY DEF Before!SetsWithout, Before!Restrict

(* What the policy says of the sets that are left.                         *)
LEMMA PolicyLeft ==
    ASSUME NEW V, sets = Before!SetsWithout(V)
    PROVE  /\ HostedSets = Before!HostedSets \ V
           /\ Evictable = MayGo \ V
           /\ \A r, s \in MayGo \ V : EvictedBefore(r, s) <=> Sooner(r, s)
<1>1. /\ DOMAIN sets = DOMAIN before.sets \ V
      /\ \A r \in DOMAIN before.sets \ V : sets[r] = before.sets[r]
  BY BeforeSets
<1>2. HostedSets = Before!HostedSets \ V
  BY <1>1 DEF HostedSets, Before!HostedSets
<1>3. \A r \in DOMAIN before.sets \ V : Expired(r) <=> Before!Expired(r)
  BY <1>1 DEF Expired, Before!Expired
<1>4. Evictable = MayGo \ V
  BY <1>1, <1>2, <1>3 DEF Evictable, MayGo, Before!Evictable, Before!HostedSets
<1>5. MayGo \subseteq DOMAIN before.sets
  BY DEF MayGo, Before!Evictable, Before!HostedSets
<1>6. \A r, s \in DOMAIN before.sets \ V : EvictedBefore(r, s) <=> Sooner(r, s)
  BY <1>1, <1>3 DEF EvictedBefore, Sooner, Before!EvictedBefore
<1> QED BY <1>2, <1>4, <1>5, <1>6

LEMMA BytesLeft ==
    ASSUME NEW V, sets = Before!SetsWithout(V), NEW W
    PROVE  /\ StoredBytes(HostedSets \ W) = BytesIn(before.sets, Before!HostedSets \ (V \cup W))
           /\ Before!StoredBytes(Before!HostedSets \ (V \cup W))
                = BytesIn(before.sets, Before!HostedSets \ (V \cup W))
<1> DEFINE R == Before!HostedSets \ (V \cup W)
           old == before.sets
<1>1. HostedSets \ W = R
  BY PolicyLeft
<1>2. \A r \in R : sets[r].size = old[r].size
  BY BeforeSets DEF Before!HostedSets
<1>3. Before!StoredBytes(R) = BytesIn(old, R)
  BY DEF Before!StoredBytes, Before!Cardinality, Cardinality, BytesIn, SetBytesIn
<1>4. StoredBytes(R) = Cardinality(UNION {{r} \X (1 .. sets[r].size) : r \in R})
  BY DEF StoredBytes
<1>5. BytesIn(old, R) = Cardinality(UNION {{r} \X (1 .. old[r].size) : r \in R})
  BY DEF BytesIn, SetBytesIn
<1> HIDE DEF R, old
<1>6. UNION {{r} \X (1 .. sets[r].size) : r \in R} = UNION {{r} \X (1 .. old[r].size) : r \in R}
  BY <1>2
<1> QED BY <1>1, <1>3, <1>4, <1>5, <1>6 DEF R, old

(* The bytes that the sets found take, whichever are left out.             *)
LEMMA BytesFound ==
    ASSUME Found, NEW V
    PROVE  /\ IsFiniteSet(Before!HostedSets \ V)
           /\ \A r \in Before!HostedSets : before.sets[r].size \in Nat
           /\ BytesIn(before.sets, Before!HostedSets \ V) \in Nat
           /\ \A W : W \subseteq V => BytesIn(before.sets, Before!HostedSets \ V)
                                        <= BytesIn(before.sets, Before!HostedSets \ W)
<1> DEFINE old == before.sets
           H == Before!HostedSets
<1>1. H \subseteq Blob /\ \A r \in H : old[r].size \in Nat
  BY BlobsOfType DEF Before!HostedSets, ContentMeta
<1> HIDE DEF old, H
<1>2. \A W : IsFiniteSet(H \ W)
  BY <1>1, LoopAssumption, FS_Subset
<1>3. BytesIn(old, H \ V) \in Nat
  BY <1>1, <1>2, BytesFinite
<1>4. ASSUME NEW W, W \subseteq V
      PROVE  BytesIn(old, H \ V) <= BytesIn(old, H \ W)
  <2>1. H \ V \subseteq H \ W
    BY <1>4
  <2>2. IsFiniteSet(H \ W) /\ \A r \in H \ W : old[r].size \in Nat
    BY <1>1, <1>2
  <2> QED BY <2>1, <2>2, BytesMonotone
<1> QED BY <1>1, <1>2, <1>3, <1>4 DEF old, H

LEMMA RoomIs ==
    ASSUME NEW V
    PROVE  RoomWithout(V) <=> reserved + BytesIn(before.sets, Before!HostedSets \ V)
                                 + call.size <= HostBudget
<1>1. Before!StoredBytes(Before!HostedSets \ V) = BytesIn(before.sets, Before!HostedSets \ V)
  BY DEF Before!StoredBytes, Before!Cardinality, Cardinality, BytesIn, SetBytesIn
<1> QED BY <1>1 DEF RoomWithout, Before!Room

(* A pass may pick all the sets that came first.                           *)
LEMMA PassesInOrder ==
    /\ \A V : RoomWithout(V) <=> Before!Room(call.size, reserved, V)
    /\ \A V : Before!Fits(call.size, reserved, V) = (~ TooLarge(call.size) /\ RoomWithout(V))
    /\ TooLarge(call.size) => Passes = {{}}
    /\ ~ TooLarge(call.size) =>
          \A V : V \in Passes <=> InOrder(V) /\ (RoomWithout(V) \/ V = MayGo)
<1>1. TooLarge(call.size) <=> Before!TooLarge(call.size)
  BY DEF TooLarge, Before!TooLarge
<1>2. \A V : Before!Fits(call.size, reserved, V) = (~ TooLarge(call.size) /\ RoomWithout(V))
  BY <1>1 DEF Before!Fits, RoomWithout
<1>3. TooLarge(call.size) => Passes = {{}}
  BY <1>1 DEF Passes, Before!EvictionPasses
<1>4. ASSUME ~ TooLarge(call.size), NEW V
      PROVE  V \in Passes <=> InOrder(V) /\ (RoomWithout(V) \/ V = MayGo)
  BY <1>1, <1>4 DEF Passes, Before!EvictionPasses, InOrder, MayGo, Sooner, RoomWithout
<1> QED BY <1>2, <1>3, <1>4 DEF RoomWithout

----------------------------------------------------------------------------
(* Types                                                                   *)

LEMMA LoopTypesInit ==
    ASSUME Init
    PROVE  TypeOK /\ Found /\ Mirrors(blobs, sets)
<1> DEFINE IsFound(roots, own, stored, used, bare) ==
             /\ \A r \in roots : stored[r] <= used[r]
             /\ sets = [r \in roots |->
                          [owned |-> r \in own,
                           size |-> IF r \in bare THEN Size[r] ELSE SetSize(r),
                           chunks |-> IF r \in bare THEN <<>> ELSE ChunksOf(r),
                           storedAt |-> stored[r], lastAccess |-> used[r]]]
<1>1. \E roots \in SUBSET Blob :
         \E own \in SUBSET roots, stored, used \in [roots -> 0 .. Now] :
            \E bare \in SUBSET (roots \ own) : IsFound(roots, own, stored, used, bare)
  BY DEF Init
<1> HIDE DEF IsFound
<1>2. PICK roots \in SUBSET Blob :
         \E own \in SUBSET roots, stored, used \in [roots -> 0 .. Now] :
            \E bare \in SUBSET (roots \ own) : IsFound(roots, own, stored, used, bare)
  BY <1>1
<1>3. PICK own \in SUBSET roots, stored \in [roots -> 0 .. Now], used \in [roots -> 0 .. Now] :
         \E bare \in SUBSET (roots \ own) : IsFound(roots, own, stored, used, bare)
  BY <1>2
<1>4. PICK bare \in SUBSET (roots \ own) : IsFound(roots, own, stored, used, bare)
  BY <1>3
<1>5. sets = [r \in roots |->
                [owned |-> r \in own,
                 size |-> IF r \in bare THEN Size[r] ELSE SetSize(r),
                 chunks |-> IF r \in bare THEN <<>> ELSE ChunksOf(r),
                 storedAt |-> stored[r], lastAccess |-> used[r]]]
  BY <1>4 DEF IsFound
<1>6. DOMAIN sets = roots
  BY <1>5
<1>7. ASSUME NEW r \in roots
      PROVE  sets[r] \in ContentMeta /\ sets[r].chunks \in {<<>>, ChunksOf(r)}
  <2>1. SetSize(r) \in Nat /\ Size[r] \in Nat /\ ChunksOf(r) \in Seq(Blob) /\ <<>> \in Seq(Blob)
    BY SetSizeType, ChunksOfType, ContentAssumption
  <2>2. stored[r] \in Nat /\ used[r] \in Nat
    BY LoopAssumption
  <2> DEFINE size == IF r \in bare THEN Size[r] ELSE SetSize(r)
             chunks == IF r \in bare THEN <<>> ELSE ChunksOf(r)
  <2>3. size \in Nat /\ chunks \in Seq(Blob) /\ chunks \in {<<>>, ChunksOf(r)}
    BY <2>1
  <2>4. sets[r] = [owned |-> r \in own, size |-> size, chunks |-> chunks,
                   storedAt |-> stored[r], lastAccess |-> used[r]]
    BY <1>5
  <2> HIDE DEF size, chunks
  <2> QED BY <2>2, <2>3, <2>4 DEF ContentMeta
<1>8. IsIndex(sets)
  BY <1>5, <1>6, <1>7 DEF IsIndex
<1>9. Mirrors(blobs, sets)
  BY <1>6 DEF Init, Mirrors
<1>10. IndexTypeOK
  BY <1>6, <1>8, <1>9, LoopAssumption DEF Init, IndexTypeOK, IsIndex, Mirrors
<1>11. TypeOK
  <2>1. call \in [size : Nat, apply : BOOLEAN]
    <3>1. call \in [size : Asked, apply : BOOLEAN] /\ Asked \subseteq Nat
      BY LoopAssumption DEF Init
    <3> QED BY <3>1
  <2>2. evicted \in BOOLEAN /\ fits \in BOOLEAN
    BY DEF Init
  <2>3. at = "enter" /\ spared = {} /\ freed = 0 /\ victim = "none" /\ todo = <<>>
    BY DEF Init
  <2> QED BY <1>10, <2>1, <2>2, <2>3 DEF TypeOK
<1>12. Found
  BY <1>8, <1>9, <1>10 DEF Init, Found, IndexTypeOK
<1> QED BY <1>9, <1>11, <1>12

(* What every step leaves alone. *)
LEMMA LeftAlone ==
    ASSUME [Next]_vars
    PROVE  UNCHANGED <<pending, reserved, now, call, before>>
BY DEF Next, Returned, vars, indexVars, Refuse, Enter, HasRoom, NoVictim, Return, Evict, Spare,
       ReleaseBlob, EvictEnds, Save, Write

LEMMA LoopTypesNext ==
    ASSUME TypeOK, [Next]_vars
    PROVE  TypeOK'
<1> USE DEF TypeOK, IndexTypeOK
<1>1. ASSUME NEW answer \in BOOLEAN, Return(answer)
      PROVE  TypeOK'
  BY <1>1 DEF Return, Save, Write
<1>2. CASE Refuse
  BY <1>1, <1>2 DEF Refuse
<1>3. CASE Enter
  BY <1>3 DEF Enter, indexVars
<1>4. CASE HasRoom
  BY <1>1, <1>4 DEF HasRoom
<1>5. CASE NoVictim
  BY <1>1, <1>5 DEF NoVictim
<1>6. ASSUME NEW v \in Blob, Evict(v)
      PROVE  TypeOK'
  <2>1. v \in DOMAIN sets
    BY <1>6 DEF Evict, Victims, Candidates, Evictable, HostedSets
  <2>2. /\ DOMAIN SetsWithout({v}) = DOMAIN sets \ {v}
        /\ SetsWithout({v}) \in [DOMAIN sets \ {v} -> ContentMeta]
    BY DEF SetsWithout, Restrict
  <2>3. sets[v].chunks \in Seq(Blob)
    BY <2>1 DEF ContentMeta
  <2>4. <<v>> \o sets[v].chunks \in Seq(Blob)
    BY <2>3
  <2>5. sets' \in [DOMAIN sets' -> ContentMeta] /\ DOMAIN sets' \subseteq Blob
    BY <1>6, <2>2 DEF Evict
  <2> QED BY <1>6, <2>4, <2>5 DEF Evict
<1>7. ASSUME NEW v \in Blob, Spare(v)
      PROVE  TypeOK'
  <2>1. v \in DOMAIN sets
    BY <1>7 DEF Spare, Victims, Candidates, Evictable, HostedSets
  <2>2. sets[v].size \in Nat
    BY <2>1 DEF ContentMeta
  <2> QED BY <1>7, <2>2 DEF Spare, indexVars
<1>8. CASE ReleaseBlob
  <2>1. Head(todo) \in Blob /\ Tail(todo) \in Seq(Blob)
    BY <1>8 DEF ReleaseBlob
  <2> QED BY <1>8, <2>1 DEF ReleaseBlob
<1>9. CASE EvictEnds
  BY <1>9 DEF EvictEnds, indexVars
<1>10. CASE UNCHANGED vars
  BY <1>10 DEF vars, indexVars
<1> QED BY <1>2, <1>3, <1>4, <1>5, <1>6, <1>7, <1>8, <1>9, <1>10 DEF Next, Returned

(* The variables have their types.                                         *)
THEOREM LoopTypes == Spec => []TypeOK
<1>1. Init => TypeOK
  BY LoopTypesInit
<1>2. TypeOK /\ [Next]_vars => TypeOK'
  BY LoopTypesNext
<1> QED BY <1>1, <1>2, PTL DEF Spec

----------------------------------------------------------------------------
(* The invariant: how far the loop has got                                 *)

(* The loop has picked sets in order, and there is as much room as without *)
(* them.                                                                   *)
Scan ==
    /\ sets = Before!SetsWithout(Gone)
    /\ InOrder(Picked)
    /\ IF call.apply THEN spared = {} ELSE Gone = {}
    /\ freed + BytesIn(before.sets, Before!HostedSets \ Picked)
         = BytesIn(before.sets, Before!HostedSets \ Gone)
    /\ evicted <=> Gone # {}
    /\ at = "enter" => Picked = {}
    /\ at \in {"look", "release"} => ~ TooLarge(call.size)
    /\ at = "returned" =>
          IF TooLarge(call.size) THEN ~ fits /\ Picked = {}
          ELSE (fits <=> RoomWithout(Picked)) /\ (fits \/ Picked = MayGo)

(* While a victim is removed, the blobs it is yet to be released from are  *)
(* still to do, its root before all others.                                *)
Releasing ==
    /\ call.apply
    /\ victim \in Gone
    /\ \A h \in Blob : blobs[h] \ {victim} = RefsLeft(Gone)[h]
    /\ \A h \in Blob : victim \in blobs[h] => h \in Range(todo)
    /\ Range(todo) \subseteq BlobsOf(victim)
    /\ victim \in blobs[victim] =>
          /\ todo # <<>> /\ Head(todo) = victim
          /\ \A h \in BlobsOf(victim) : victim \in blobs[h]

(* The reverse map has lost the victims, and the directory the blobs that  *)
(* are of no set any more.                                                 *)
Stored ==
    /\ IF at = "release" THEN Releasing ELSE blobs = RefsLeft(Gone)
    /\ disk = before.disk \ {h \in Orphans(Gone) : blobs[h] = {}}
    /\ \/ at = "returned" /\ Gone # {} /\ file = sets /\ ~ dirty
       \/ /\ at = "returned" /\ Gone # {} => IndexMayFail
          /\ file = before.file /\ dirty = before.dirty

LoopInv == TypeOK /\ Found /\ Scan /\ Stored

LEMMA LoopInvInit ==
    ASSUME Init
    PROVE  LoopInv
<1>1. TypeOK /\ Found /\ Mirrors(blobs, sets)
  BY LoopTypesInit
<1>2. /\ before.sets = sets /\ before.blobs = blobs /\ before.disk = disk
      /\ before.file = file /\ before.dirty = dirty
  BY DEF Init
<1>3. Gone = {} /\ spared = {} /\ freed = 0 /\ at = "enter" /\ ~ evicted
  BY <1>2 DEF Init, Gone
<1>4. sets = Before!SetsWithout({})
  <2>1. before.sets = [r \in DOMAIN before.sets |-> before.sets[r]]
    BY <1>1 DEF Found, IsIndex
  <2>2. DOMAIN before.sets \ {} = DOMAIN before.sets
    OBVIOUS
  <2>3. Before!SetsWithout({}) = [r \in DOMAIN before.sets \ {} |-> before.sets[r]]
    BY BeforeSets
  <2> QED BY <1>2, <2>1, <2>2, <2>3
<1>5. InOrder({})
  BY DEF InOrder
<1>6. BytesIn(before.sets, Before!HostedSets \ {}) \in Nat
  BY <1>1, BytesFound
<1>7. Scan
  BY <1>3, <1>4, <1>5, <1>6 DEF Scan, Picked
<1>8. RefsLeft({}) = blobs
  BY <1>1, <1>2 DEF Mirrors, RefsLeft, BlobsOf
<1>9. Orphans({}) = {}
  BY DEF Orphans
<1>10. Stored
  BY <1>2, <1>3, <1>8, <1>9 DEF Stored
<1> QED BY <1>1, <1>7, <1>10 DEF LoopInv

(* What the loop may pick, and what it would free, stays as it was.        *)
LEMMA Settled ==
    ASSUME UNCHANGED <<pending, reserved, now, call, before>>
    PROVE  /\ Found' <=> Found
           /\ MayGo' = MayGo
           /\ Before!HostedSets' = Before!HostedSets
           /\ TooLarge(call.size)' <=> TooLarge(call.size)
           /\ \A r : BlobsOf(r)' = BlobsOf(r)
           /\ \A r, s : Sooner(r, s)' <=> Sooner(r, s)
           /\ \A V : /\ Before!SetsWithout(V)' = Before!SetsWithout(V)
                     /\ RefsLeft(V)' = RefsLeft(V)
                     /\ Orphans(V)' = Orphans(V)
                     /\ RoomWithout(V)' <=> RoomWithout(V)
                     /\ InOrder(V)' <=> InOrder(V)
<1>1. Found' <=> Found
  BY DEF Found, IsIndex, Mirrors
<1>2. Before!HostedSets' = Before!HostedSets
  BY DEF Before!HostedSets
<1>3. MayGo' = MayGo
  BY <1>2 DEF MayGo, Before!Evictable, Before!Expired
<1>4. \A r, s : Sooner(r, s)' <=> Sooner(r, s)
  BY DEF Sooner, Before!EvictedBefore, Before!Expired
<1>5. TooLarge(call.size)' <=> TooLarge(call.size)
  BY DEF TooLarge
<1>6. \A r : BlobsOf(r)' = BlobsOf(r)
  BY DEF BlobsOf
<1>7. ASSUME NEW V
      PROVE  /\ Before!SetsWithout(V)' = Before!SetsWithout(V)
             /\ RefsLeft(V)' = RefsLeft(V)
             /\ Orphans(V)' = Orphans(V)
  BY <1>6 DEF Before!SetsWithout, RefsLeft, Orphans
<1>8. ASSUME NEW V
      PROVE  RoomWithout(V)' <=> RoomWithout(V)
  BY <1>2 DEF RoomWithout, Before!Room, Before!StoredBytes
<1>9. ASSUME NEW V
      PROVE  InOrder(V)' <=> InOrder(V)
  BY <1>3, <1>4, <1>8 DEF InOrder
<1> QED BY <1>1, <1>2, <1>3, <1>4, <1>5, <1>6, <1>7, <1>8, <1>9

----------------------------------------------------------------------------
(* The steps of the loop                                                   *)

(* The condition of the loop, in terms of what was found.                  *)
LEMMA LoopCondition ==
    ASSUME LoopInv
    PROVE  /\ RoomNow <=> RoomWithout(Picked)
           /\ Candidates = MayGo \ Picked
           /\ Victims = {v \in MayGo \ Picked : \A s \in MayGo \ Picked : ~ Sooner(s, v)}
           /\ Picked \subseteq DOMAIN before.sets
           /\ MayGo \subseteq DOMAIN before.sets
<1>1. sets = Before!SetsWithout(Gone)
  BY DEF LoopInv, Scan
<1>2. Candidates = MayGo \ Picked
  BY <1>1, PolicyLeft DEF Candidates, Picked
<1>3. \A r, s \in MayGo \ Picked : EvictedBefore(r, s) <=> Sooner(r, s)
  BY <1>1, PolicyLeft DEF Picked
<1>4. Victims = {v \in MayGo \ Picked : \A s \in MayGo \ Picked : ~ Sooner(s, v)}
  BY <1>2, <1>3 DEF Victims
<1>5. RoomNow <=> RoomWithout(Picked)
  <2> DEFINE H == Before!HostedSets
             left == BytesIn(before.sets, H \ Gone)
             leftOver == BytesIn(before.sets, H \ Picked)
  <2>1. HostedSets \ {} = HostedSets /\ Gone \cup {} = Gone
    OBVIOUS
  <2>2. StoredBytes(HostedSets) = left
    BY <1>1, <2>1, BytesLeft
  <2>3. freed + leftOver = left
    BY DEF LoopInv, Scan
  <2>4. left \in Nat /\ leftOver \in Nat
    BY BytesFound DEF LoopInv
  <2>5. RoomWithout(Picked) <=> reserved + leftOver + call.size <= HostBudget
    BY RoomIs
  <2>6. freed \in Nat /\ reserved \in Nat /\ call.size \in Nat
    BY DEF LoopInv, TypeOK, IndexTypeOK
  <2>7. RoomNow <=> reserved + left - freed + call.size <= HostBudget
    BY <2>2, <2>4, <2>6 DEF RoomNow, HostedBytes
  <2> HIDE DEF left, leftOver
  <2> QED BY <2>3, <2>4, <2>5, <2>6, <2>7, PolicyAssumption
<1>6. MayGo \subseteq DOMAIN before.sets
  BY DEF MayGo, Before!Evictable, Before!HostedSets
<1>7. Picked \subseteq MayGo
  BY DEF LoopInv, Scan, InOrder
<1> QED BY <1>2, <1>4, <1>5, <1>6, <1>7

(* Once more set is picked in order. *)
LEMMA PickOneMore ==
    ASSUME LoopInv, ~ RoomNow, NEW v \in Victims
    PROVE  /\ InOrder(Picked \cup {v})
           /\ v \in MayGo \ Picked /\ v \in Before!HostedSets /\ v \in DOMAIN sets
           /\ sets[v] = before.sets[v] /\ v \in Blob
           /\ BytesIn(before.sets, Before!HostedSets \ (Picked \cup {v})) + sets[v].size
                = BytesIn(before.sets, Before!HostedSets \ Picked)
<1>1. /\ v \in MayGo \ Picked
      /\ \A s \in MayGo \ Picked : ~ Sooner(s, v)
      /\ ~ RoomWithout(Picked)
  BY LoopCondition
<1>2. InOrder(Picked)
  BY DEF LoopInv, Scan
<1>3. InOrder(Picked \cup {v})
  <2>1. /\ Picked \cup {v} \subseteq MayGo
        /\ \A u \in Picked \cup {v}, s \in MayGo \ (Picked \cup {v}) : ~ Sooner(s, u)
    BY <1>1, <1>2 DEF InOrder
  <2>2. \A u \in Picked \cup {v} : ~ Sooner(v, u)
    BY <1>1, <1>2 DEF InOrder
  <2>3. (Picked \cup {v}) \ {v} = Picked
    BY <1>1
  <2> QED BY <1>1, <2>1, <2>2, <2>3 DEF InOrder
<1>4. v \in Before!HostedSets
  BY <1>1 DEF MayGo, Before!Evictable
<1>5. v \in DOMAIN sets /\ sets[v] = before.sets[v]
  <2>1. sets = Before!SetsWithout(Gone) /\ v \in DOMAIN before.sets \ Gone
    BY <1>1, <1>4 DEF LoopInv, Scan, Picked, Before!HostedSets
  <2> QED BY <2>1, BeforeSets
<1>6. BytesIn(before.sets, Before!HostedSets \ (Picked \cup {v})) + sets[v].size
        = BytesIn(before.sets, Before!HostedSets \ Picked)
  <2> DEFINE H == Before!HostedSets
             old == before.sets
             R == H \ (Picked \cup {v})
  <2>1. R \cup {v} = H \ Picked
    BY <1>1, <1>4
  <2>2. IsFiniteSet(R) /\ \A r \in R \cup {v} : old[r].size \in Nat
    BY <1>4, BytesFound DEF LoopInv
  <2>3. v \notin R
    OBVIOUS
  <2> HIDE DEF R, H, old
  <2>4. BytesIn(old, R \cup {v}) = BytesIn(old, R) + old[v].size
    BY <2>2, <2>3, BytesAdd
  <2> QED BY <1>5, <2>1, <2>4 DEF R, H, old
<1>7. v \in Blob
  BY <1>5 DEF LoopInv, TypeOK, IndexTypeOK
<1> QED BY <1>1, <1>3, <1>4, <1>5, <1>6, <1>7

(* A step that leaves the sets alone leaves what the loop has picked.      *)
LEMMA SameSets ==
    ASSUME LoopInv, [Next]_vars, UNCHANGED sets
    PROVE  /\ Gone' = Gone
           /\ Before!SetsWithout(Gone)' = Before!SetsWithout(Gone)
           /\ RefsLeft(Gone)' = RefsLeft(Gone) /\ Orphans(Gone)' = Orphans(Gone)
           /\ Before!HostedSets' = Before!HostedSets /\ MayGo' = MayGo
           /\ TooLarge(call.size)' <=> TooLarge(call.size)
           /\ before' = before /\ call' = call
<1>1. UNCHANGED <<pending, reserved, now, call, before>>
  BY LeftAlone
<1>2. Gone' = Gone
  BY <1>1 DEF Gone
<1>3. /\ Before!SetsWithout(Gone)' = Before!SetsWithout(Gone)
      /\ RefsLeft(Gone)' = RefsLeft(Gone) /\ Orphans(Gone)' = Orphans(Gone)
  BY <1>1, <1>2 DEF Before!SetsWithout, RefsLeft, Orphans, BlobsOf
<1> QED BY <1>1, <1>2, <1>3, Settled

(* When nothing more is picked either. *)
LEMMA SamePicked ==
    ASSUME LoopInv, [Next]_vars, UNCHANGED <<sets, spared>>
    PROVE  /\ Picked' = Picked
           /\ InOrder(Picked)' <=> InOrder(Picked)
           /\ RoomWithout(Picked)' <=> RoomWithout(Picked)
<1>1. UNCHANGED <<pending, reserved, now, call, before>>
  BY LeftAlone
<1>2. Picked' = Picked
  BY SameSets DEF Picked
<1>3. \A V : /\ RoomWithout(V)' <=> RoomWithout(V)
             /\ InOrder(V)' <=> InOrder(V)
  BY <1>1, Settled
<1>4. RoomWithout(Picked)' <=> RoomWithout(Picked)
  BY <1>1, <1>2, SameSets DEF RoomWithout, Before!Room, Before!StoredBytes
<1>5. InOrder(Picked)' <=> InOrder(Picked)
  <2>1. \A r, s : Sooner(r, s)' <=> Sooner(r, s)
    BY <1>1, Settled
  <2>2. MayGo' = MayGo
    BY <1>1, Settled
  <2>3. \A v : RoomWithout(Picked \ {v})' <=> RoomWithout(Picked \ {v})
    BY <1>1, <1>2, SameSets DEF RoomWithout, Before!Room, Before!StoredBytes
  <2> QED BY <1>2, <2>1, <2>2, <2>3 DEF InOrder
<1> QED BY <1>2, <1>4, <1>5

LEMMA ReturnKeeps ==
    ASSUME LoopInv, [Next]_vars, NEW answer \in BOOLEAN, Return(answer),
           at \in {"enter", "look"},
           IF TooLarge(call.size) THEN ~ answer /\ Picked = {}
           ELSE (answer <=> RoomWithout(Picked)) /\ (answer \/ Picked = MayGo)
    PROVE  Scan' /\ Stored'
<1>1. /\ at' = "returned" /\ fits' = answer
      /\ UNCHANGED <<disk, sets, blobs, spared, freed, evicted, call>>
      /\ \/ evicted /\ file' = sets /\ ~ dirty'
         \/ (evicted => IndexMayFail) /\ UNCHANGED <<file, dirty>>
  BY DEF Return, Save, Write
<1>2. Scan'
  BY <1>1, SameSets, SamePicked DEF LoopInv, Scan
<1>3. Stored'
  BY <1>1, SameSets DEF LoopInv, Scan, Stored
<1> QED BY <1>2, <1>3

LEMMA EnterKeeps ==
    ASSUME LoopInv, Enter
    PROVE  Scan' /\ Stored'
<1>1. [Next]_vars
  BY DEF Next
<1>2. /\ at = "enter" /\ at' = "look" /\ ~ TooLarge(call.size)
      /\ UNCHANGED <<disk, file, sets, blobs, dirty, spared, freed, evicted, call>>
  BY DEF Enter, indexVars
<1>3. Scan'
  BY <1>1, <1>2, SameSets, SamePicked DEF LoopInv, Scan
<1>4. Stored'
  BY <1>1, <1>2, SameSets DEF LoopInv, Stored
<1> QED BY <1>3, <1>4

LEMMA SpareKeeps ==
    ASSUME LoopInv, NEW v \in Blob, Spare(v)
    PROVE  Scan' /\ Stored'
<1>1. [Next]_vars
  BY DEF Next
<1>2. /\ at = "look" /\ at' = "look" /\ ~ RoomNow /\ ~ call.apply /\ v \in Victims
      /\ freed' = freed + sets[v].size /\ spared' = spared \cup {v}
      /\ UNCHANGED <<disk, file, sets, blobs, dirty, evicted, call>>
  BY DEF Spare, indexVars
<1>3. /\ InOrder(Picked \cup {v}) /\ v \in Before!HostedSets
      /\ v \in DOMAIN before.sets /\ sets[v] = before.sets[v]
      /\ BytesIn(before.sets, Before!HostedSets \ (Picked \cup {v})) + sets[v].size
           = BytesIn(before.sets, Before!HostedSets \ Picked)
  BY <1>2, PickOneMore, LoopCondition
<1>4. Picked' = Picked \cup {v}
  BY <1>1, <1>2, SameSets DEF Picked
<1>5. InOrder(Picked)'
  <2>1. UNCHANGED <<pending, reserved, now, call, before>>
    BY <1>1, LeftAlone
  <2>2. \A r, s : Sooner(r, s)' <=> Sooner(r, s)
    BY <2>1, Settled
  <2>3. MayGo' = MayGo
    BY <2>1, Settled
  <2>4. \A u : RoomWithout(Picked \ {u})' <=> RoomWithout((Picked \cup {v}) \ {u})
    BY <1>1, <1>2, <1>4, <2>1, SameSets DEF RoomWithout, Before!Room, Before!StoredBytes
  <2> QED BY <1>3, <1>4, <2>2, <2>3, <2>4 DEF InOrder
<1>6. freed' + BytesIn(before.sets, Before!HostedSets \ (Picked \cup {v}))
        = BytesIn(before.sets, Before!HostedSets \ Gone)
  <2> DEFINE x == BytesIn(before.sets, Before!HostedSets \ (Picked \cup {v}))
             y == BytesIn(before.sets, Before!HostedSets \ Picked)
             z == BytesIn(before.sets, Before!HostedSets \ Gone)
             b == sets[v].size
  <2>1. x \in Nat /\ y \in Nat /\ z \in Nat
    BY BytesFound DEF LoopInv
  <2>2. b \in Nat
    BY <1>3, BytesFound DEF LoopInv
  <2>3. x + b = y /\ freed + y = z /\ freed' = freed + b /\ freed \in Nat
    BY <1>2, <1>3 DEF LoopInv, Scan, TypeOK
  <2> HIDE DEF x, y, z, b
  <2>4. freed' + x = z
    BY <2>1, <2>2, <2>3
  <2> QED BY <2>4 DEF x, z
<1>7. Scan'
  BY <1>1, <1>2, <1>4, <1>5, <1>6, SameSets DEF LoopInv, Scan
<1>8. Stored'
  BY <1>1, <1>2, SameSets DEF LoopInv, Stored
<1> QED BY <1>7, <1>8

(* What is to be released of a set. *)
LEMMA ToRelease ==
    ASSUME NEW v \in Blob, NEW chunks \in Seq(Blob)
    PROVE  /\ <<v>> \o chunks # <<>> /\ Head(<<v>> \o chunks) = v
           /\ Range(<<v>> \o chunks) = Members(v, chunks)
<1> DEFINE all == <<v>> \o chunks
<1>1. /\ all \in Seq(Blob) /\ Len(all) = 1 + Len(chunks)
      /\ all[1] = v
      /\ \A i \in 1 .. Len(chunks) : all[i + 1] = chunks[i]
  OBVIOUS
<1>2. all # <<>> /\ Head(all) = v
  BY <1>1
<1>3. DOMAIN all = 1 .. 1 + Len(chunks) /\ DOMAIN chunks = 1 .. Len(chunks) /\ Len(chunks) \in Nat
  BY <1>1
<1> HIDE DEF all
<1>4. ASSUME NEW h \in Range(all)
      PROVE  h \in Members(v, chunks)
  <2>1. PICK i \in 1 .. 1 + Len(chunks) : h = all[i]
    BY <1>3 DEF Range
  <2>2. CASE i = 1
    BY <1>1, <2>1, <2>2 DEF Members
  <2>3. CASE i # 1
    <3>1. i - 1 \in 1 .. Len(chunks) /\ (i - 1) + 1 = i
      BY <1>3, <2>1, <2>3
    <3>2. h = chunks[i - 1]
      BY <1>1, <2>1, <3>1
    <3> QED BY <1>3, <3>1, <3>2 DEF Members, Range
  <2> QED BY <2>2, <2>3
<1>5. ASSUME NEW h \in Members(v, chunks)
      PROVE  h \in Range(all)
  <2>1. CASE h = v
    <3>1. 1 \in DOMAIN all
      BY <1>3
    <3> QED BY <1>1, <2>1, <3>1 DEF Range
  <2>2. CASE h \in Range(chunks)
    <3>1. PICK i \in 1 .. Len(chunks) : h = chunks[i]
      BY <1>3, <2>2 DEF Range
    <3>2. i + 1 \in DOMAIN all /\ all[i + 1] = h
      BY <1>1, <1>3, <3>1
    <3> QED BY <3>2 DEF Range
  <2> QED BY <2>1, <2>2 DEF Members
<1>6. Range(all) = Members(v, chunks)
  BY <1>4, <1>5
<1> QED BY <1>2, <1>6 DEF all

LEMMA EvictKeeps ==
    ASSUME LoopInv, NEW v \in Blob, Evict(v)
    PROVE  Scan' /\ Stored'
<1>1. [Next]_vars
  BY DEF Next
<1>2. /\ at = "look" /\ at' = "release" /\ ~ RoomNow /\ call.apply /\ v \in Victims
      /\ sets' = SetsWithout({v}) /\ victim' = v /\ todo' = <<v>> \o sets[v].chunks /\ evicted'
      /\ UNCHANGED <<disk, file, blobs, dirty, spared, freed, call>>
  BY DEF Evict
<1>3. /\ UNCHANGED <<pending, reserved, now, call, before>>
      /\ before' = before
  BY <1>1, LeftAlone
<1>4. /\ InOrder(Picked \cup {v}) /\ v \in MayGo \ Picked
      /\ v \in DOMAIN before.sets /\ v \in DOMAIN sets /\ sets[v] = before.sets[v]
  BY <1>2, PickOneMore, LoopCondition
<1>5. /\ spared = {} /\ Picked = Gone /\ v \notin Gone
      /\ sets = Before!SetsWithout(Gone) /\ ~ TooLarge(call.size)
  BY <1>2, <1>4 DEF LoopInv, Scan, Picked
<1> DEFINE new == Gone \cup {v}
<1>6. sets' = Before!SetsWithout(new)
  <2>1. /\ DOMAIN sets = DOMAIN before.sets \ Gone
        /\ \A r \in DOMAIN before.sets \ Gone : sets[r] = before.sets[r]
    BY <1>5, BeforeSets
  <2>2. sets' = [r \in DOMAIN sets \ {v} |-> sets[r]]
    BY <1>2 DEF SetsWithout, Restrict
  <2>3. DOMAIN sets \ {v} = DOMAIN before.sets \ new
    BY <2>1
  <2>4. Before!SetsWithout(new) = [r \in DOMAIN before.sets \ new |-> before.sets[r]]
    BY BeforeSets
  <2> QED BY <2>1, <2>2, <2>3, <2>4
<1>7. Gone' = new
  <2>1. DOMAIN sets' = DOMAIN before.sets \ new
    BY <1>6, BeforeSets
  <2>2. new \subseteq DOMAIN before.sets
    BY <1>4 DEF Gone
  <2> QED BY <1>3, <2>1, <2>2 DEF Gone
<1>8. Picked' = new
  BY <1>2, <1>5, <1>7 DEF Picked
<1>9. Before!HostedSets' = Before!HostedSets /\ MayGo' = MayGo
  BY <1>3, Settled
<1>10. InOrder(Picked)'
  <2>2. \A r, s : Sooner(r, s)' <=> Sooner(r, s)
    BY <1>3, Settled
  <2>4. \A u : RoomWithout(Picked \ {u})' <=> RoomWithout(new \ {u})
    BY <1>3, <1>8, <1>9 DEF RoomWithout, Before!Room, Before!StoredBytes
  <2>5. InOrder(new)
    BY <1>4, <1>5
  <2> QED BY <1>8, <1>9, <2>2, <2>4, <2>5 DEF InOrder
<1>11. freed' + BytesIn(before.sets, Before!HostedSets \ new)
         = BytesIn(before.sets, Before!HostedSets \ new)
  <2>1. /\ BytesIn(before.sets, Before!HostedSets \ Gone) \in Nat
        /\ BytesIn(before.sets, Before!HostedSets \ new) \in Nat
    BY BytesFound DEF LoopInv
  <2>2. freed + BytesIn(before.sets, Before!HostedSets \ Gone)
          = BytesIn(before.sets, Before!HostedSets \ Gone)
    BY <1>5 DEF LoopInv, Scan
  <2>3. freed = 0
    BY <2>1, <2>2 DEF LoopInv, TypeOK
  <2> QED BY <1>2, <2>1, <2>3
<1>12. Scan'
  <2>1. sets' = Before!SetsWithout(Gone)'
    BY <1>3, <1>6, <1>7 DEF Before!SetsWithout
  <2>2. ~ TooLarge(call.size)'
    BY <1>3, <1>5, Settled
  <2>3. evicted' /\ Gone' # {} /\ spared' = {} /\ call'.apply /\ at' = "release"
    BY <1>2, <1>5, <1>7
  <2>4. (freed + BytesIn(before.sets, Before!HostedSets \ Picked)
           = BytesIn(before.sets, Before!HostedSets \ Gone))'
    BY <1>3, <1>7, <1>8, <1>9, <1>11
  <2>5. InOrder(Picked)'
    BY <1>10
  <2> QED BY <2>1, <2>2, <2>3, <2>4, <2>5 DEF Scan
<1>13. ASSUME NEW h \in Blob
       PROVE  /\ blobs[h] = RefsLeft(Gone)[h]
              /\ RefsLeft(Gone)[h] \ {v} = RefsLeft(new)[h]
              /\ v \in RefsLeft(Gone)[h] <=> h \in BlobsOf(v)
  BY <1>2, <1>4, <1>5 DEF LoopInv, Stored, RefsLeft
<1>14. RefsLeft(Gone)' = RefsLeft(new) /\ Orphans(Gone)' = Orphans(new)
  BY <1>3, <1>7 DEF RefsLeft, Orphans, BlobsOf
<1>15. Releasing'
  <2>1. sets[v].chunks \in Seq(Blob)
    BY <1>4 DEF LoopInv, TypeOK, IndexTypeOK, ContentMeta
  <2>2. /\ todo' # <<>> /\ Head(todo') = v
        /\ Range(todo') = BlobsOf(v)
    BY <1>2, <1>4, <2>1, ToRelease DEF BlobsOf
  <2>3. BlobsOf(v)' = BlobsOf(v) /\ BlobsOf(v) \subseteq Blob
    BY <1>3, <1>4, BlobsOfType DEF BlobsOf, LoopInv
  <2>4. v \in Gone'
    BY <1>7
  <2> HIDE DEF new
  <2>5. /\ \A h \in Blob : blobs'[h] \ {v} = RefsLeft(new)[h]
        /\ \A h \in Blob : v \in blobs'[h] <=> h \in BlobsOf(v)
    BY <1>2, <1>13
  <2> QED BY <1>2, <1>14, <2>2, <2>3, <2>4, <2>5 DEF Releasing, BlobsOf
<1>16. disk' = before.disk \ {h \in Orphans(new) : blobs[h] = {}}
  <2>1. {h \in Orphans(new) : blobs[h] = {}} = {h \in Orphans(Gone) : blobs[h] = {}}
    BY <1>13 DEF Orphans
  <2> QED BY <1>2, <2>1 DEF LoopInv, Stored
<1>17. Stored'
  BY <1>2, <1>3, <1>14, <1>15, <1>16 DEF LoopInv, Stored
<1> QED BY <1>12, <1>17

LEMMA ReleaseBlobKeeps ==
    ASSUME LoopInv, ReleaseBlob
    PROVE  Scan' /\ Stored'
<1>1. [Next]_vars
  BY DEF Next
<1> DEFINE h == Head(todo)
<1>2. /\ at = "release" /\ at' = "release" /\ todo # <<>> /\ todo' = Tail(todo)
      /\ blobs' = [blobs EXCEPT ![h] = blobs[h] \ {victim}]
      /\ disk' = IF blobs[h] \ {victim} = {} /\ pending[h] = 0 THEN disk \ {h} ELSE disk
      /\ UNCHANGED <<file, sets, dirty, spared, freed, evicted, victim, call, before>>
  BY DEF ReleaseBlob
<1>3. Scan'
  BY <1>1, <1>2, SameSets, SamePicked DEF LoopInv, Scan
<1>4. todo \in Seq(Blob) /\ h \in Blob /\ blobs \in [Blob -> SUBSET Blob]
  BY <1>2 DEF LoopInv, TypeOK, IndexTypeOK
<1>5. h \in Range(todo) /\ \A g \in Range(todo) : g = h \/ g \in Range(todo')
  <2>1. 1 \in DOMAIN todo /\ todo[1] = h /\ Len(todo) \in Nat /\ DOMAIN todo = 1 .. Len(todo)
    BY <1>2, <1>4
  <2>2. ASSUME NEW i \in DOMAIN todo, i # 1
        PROVE  todo[i] \in Range(todo')
    <3>1. i - 1 \in DOMAIN todo' /\ todo'[i - 1] = todo[i]
      BY <1>2, <1>4, <2>1, <2>2
    <3> QED BY <3>1 DEF Range
  <2> HIDE DEF h
  <2> QED BY <2>1, <2>2 DEF Range
<1>6. Range(todo') \subseteq Range(todo)
  <2>1. \A i \in DOMAIN todo' : i + 1 \in DOMAIN todo /\ todo'[i] = todo[i + 1]
    BY <1>2, <1>4
  <2> QED BY <2>1 DEF Range
<1> HIDE DEF h
<1>7. /\ blobs'[h] = blobs[h] \ {victim}
      /\ \A g \in Blob \ {h} : blobs'[g] = blobs[g]
  BY <1>2, <1>4
<1>8. Releasing
  BY <1>2 DEF LoopInv, Stored
<1>9. BlobsOf(victim)' = BlobsOf(victim)
  BY <1>2 DEF BlobsOf
<1>10. Releasing'
  <2>1. call.apply' /\ victim' \in Gone'
    BY <1>1, <1>2, <1>8, SameSets DEF Releasing
  <2>2. \A g \in Blob : blobs'[g] \ {victim} = RefsLeft(Gone)[g]
    BY <1>7, <1>8 DEF Releasing
  <2>3. \A g \in Blob : victim \in blobs'[g] => g \in Range(todo')
    BY <1>5, <1>7, <1>8 DEF Releasing
  <2>4. Range(todo') \subseteq BlobsOf(victim)
    BY <1>6, <1>8 DEF Releasing
  <2>5. victim \notin blobs'[victim]
    <3>1. CASE victim = h
      BY <1>7, <3>1
    <3>2. CASE victim # h
      <4>1. victim \notin blobs[victim]
        BY <1>2, <1>8, <3>2 DEF Releasing, h
      <4>2. victim \in Blob
        BY <1>8, BlobsOfType DEF LoopInv, Releasing, Gone
      <4> QED BY <1>7, <3>2, <4>1, <4>2
    <3> QED BY <3>1, <3>2
  <2> QED BY <1>1, <1>2, <1>9, <2>1, <2>2, <2>3, <2>4, <2>5, SameSets DEF Releasing
<1>11. disk' = before.disk \ {g \in Orphans(Gone) : blobs'[g] = {}}
  <2> DEFINE now0 == {g \in Orphans(Gone) : blobs[g] = {}}
             now1 == {g \in Orphans(Gone) : blobs'[g] = {}}
  <2>1. blobs[h] \ {victim} = RefsLeft(Gone)[h] /\ h \in BlobsOf(victim) /\ victim \in Gone
    BY <1>4, <1>5, <1>8 DEF Releasing
  <2>2. h \in Orphans(Gone) <=> blobs'[h] = {} /\ pending[h] = 0
    BY <1>4, <1>7, <2>1 DEF Orphans
  <2>3. Orphans(Gone) \subseteq Blob
    BY DEF Orphans
  <2>4. disk = before.disk \ now0
    BY DEF LoopInv, Stored
  <2>5. CASE blobs'[h] = {} /\ pending[h] = 0
    <3>1. now1 = now0 \cup {h}
      BY <1>7, <2>2, <2>3, <2>5
    <3> QED BY <1>2, <1>7, <2>4, <2>5, <3>1
  <2>6. CASE ~ (blobs'[h] = {} /\ pending[h] = 0)
    <3>1. h \notin Orphans(Gone)
      BY <2>2, <2>6
    <3>2. now1 = now0
      BY <1>7, <2>3, <3>1
    <3> QED BY <1>2, <1>7, <2>4, <2>6, <3>2
  <2> QED BY <2>5, <2>6
<1>12. Stored'
  BY <1>1, <1>2, <1>10, <1>11, SameSets DEF LoopInv, Stored
<1> QED BY <1>3, <1>12

LEMMA EvictEndsKeeps ==
    ASSUME LoopInv, EvictEnds
    PROVE  Scan' /\ Stored'
<1>1. [Next]_vars
  BY DEF Next
<1>2. /\ at = "release" /\ at' = "look" /\ todo = <<>>
      /\ UNCHANGED <<disk, file, sets, blobs, dirty, spared, freed, evicted, call, before>>
  BY DEF EvictEnds, indexVars
<1>3. Scan'
  BY <1>1, <1>2, SameSets, SamePicked DEF LoopInv, Scan
<1>4. blobs = RefsLeft(Gone)
  <2>1. Releasing
    BY <1>2 DEF LoopInv, Stored
  <2>2. \A h : h \notin Range(todo)
    BY <1>2 DEF Range
  <2>3. \A h \in Blob : blobs[h] = RefsLeft(Gone)[h]
    BY <2>1, <2>2 DEF Releasing
  <2>4. blobs \in [Blob -> SUBSET Blob]
    BY DEF LoopInv, TypeOK, IndexTypeOK
  <2> QED BY <2>3, <2>4 DEF RefsLeft
<1>5. Stored'
  BY <1>1, <1>2, <1>4, SameSets DEF LoopInv, Stored
<1> QED BY <1>3, <1>5

(* The steps keep the invariant.                                           *)
LEMMA LoopInvNext ==
    ASSUME LoopInv, [Next]_vars
    PROVE  LoopInv'
<1>1. TypeOK' /\ Found'
  BY LoopTypesNext, LeftAlone, Settled DEF LoopInv
<1>2. Scan' /\ Stored'
  <2>1. CASE Refuse
    <3>1. at = "enter" /\ TooLarge(call.size) /\ Return(FALSE)
      BY <2>1 DEF Refuse
    <3>2. Picked = {}
      BY <3>1 DEF LoopInv, Scan
    <3> QED BY <3>1, <3>2, ReturnKeeps
  <2>2. CASE Enter
    BY <2>2, EnterKeeps
  <2>3. CASE HasRoom
    <3>1. at = "look" /\ RoomNow /\ Return(TRUE)
      BY <2>3 DEF HasRoom
    <3>2. ~ TooLarge(call.size) /\ RoomWithout(Picked)
      BY <3>1, LoopCondition DEF LoopInv, Scan
    <3> QED BY <3>1, <3>2, ReturnKeeps
  <2>4. CASE NoVictim
    <3>1. at = "look" /\ ~ RoomNow /\ Candidates = {} /\ Return(FALSE)
      BY <2>4 DEF NoVictim
    <3>2. ~ TooLarge(call.size) /\ ~ RoomWithout(Picked) /\ MayGo \ Picked = {}
      BY <3>1, LoopCondition DEF LoopInv, Scan
    <3>3. Picked = MayGo
      BY <3>2 DEF LoopInv, Scan, InOrder
    <3> QED BY <3>1, <3>2, <3>3, ReturnKeeps
  <2>5. ASSUME NEW v \in Blob, Evict(v)
        PROVE  Scan' /\ Stored'
    BY <2>5, EvictKeeps
  <2>6. ASSUME NEW v \in Blob, Spare(v)
        PROVE  Scan' /\ Stored'
    BY <2>6, SpareKeeps
  <2>7. CASE ReleaseBlob
    BY <2>7, ReleaseBlobKeeps
  <2>8. CASE EvictEnds
    BY <2>8, EvictEndsKeeps
  <2>9. CASE UNCHANGED vars
    <3>1. UNCHANGED <<disk, file, sets, blobs, dirty, at, evicted, spared, freed, victim, todo,
                      fits, call, before>>
      BY <2>9 DEF vars, indexVars
    <3>2. Scan'
      BY <3>1, SameSets, SamePicked DEF LoopInv, Scan
    <3>3. Releasing' <=> Releasing
      BY <3>1, SameSets DEF Releasing, BlobsOf
    <3>4. Stored'
      BY <3>1, <3>3, SameSets DEF LoopInv, Stored
    <3> QED BY <3>2, <3>4
  <2> QED BY <2>1, <2>2, <2>3, <2>4, <2>5, <2>6, <2>7, <2>8, <2>9 DEF Next, Returned
<1> QED BY <1>1, <1>2 DEF LoopInv

LEMMA LoopInvariant == Spec => []LoopInv
<1>1. Init => LoopInv
  BY LoopInvInit
<1>2. LoopInv /\ [Next]_vars => LoopInv'
  BY LoopInvNext
<1> QED BY <1>1, <1>2, PTL DEF Spec

----------------------------------------------------------------------------
(* What the call does                                                      *)

(* The sets that the loop has picked are a pass, when it returns. *)
LEMMA PickedIsAPass ==
    ASSUME LoopInv, at = "returned"
    PROVE  /\ Picked \in Passes
           /\ fits = Before!Fits(call.size, reserved, Picked)
<1>1. InOrder(Picked) /\ fits \in BOOLEAN
  BY DEF LoopInv, Scan, TypeOK
<1>2. CASE TooLarge(call.size)
  <2>1. ~ fits /\ Picked = {}
    BY <1>2 DEF LoopInv, Scan
  <2> QED BY <1>1, <1>2, <2>1, PassesInOrder
<1>3. CASE ~ TooLarge(call.size)
  <2>1. (fits <=> RoomWithout(Picked)) /\ (fits \/ Picked = MayGo)
    BY <1>3 DEF LoopInv, Scan
  <2>2. Picked \in Passes
    BY <1>1, <1>3, <2>1, PassesInOrder
  <2>3. fits <=> Before!Fits(call.size, reserved, Picked)
    BY <1>3, <2>1, PassesInOrder
  <2>4. Before!Fits(call.size, reserved, Picked) \in BOOLEAN
    BY DEF Before!Fits
  <2> QED BY <1>1, <2>2, <2>3, <2>4
<1> QED BY <1>2, <1>3

(* The more sets go, the more room there is. *)
LEMMA RoomGrows ==
    ASSUME LoopInv, NEW V, NEW W, V \subseteq W, RoomWithout(V)
    PROVE  RoomWithout(W)
<1> DEFINE x == BytesIn(before.sets, Before!HostedSets \ V)
           y == BytesIn(before.sets, Before!HostedSets \ W)
<1>1. x \in Nat /\ y \in Nat /\ y <= x
  BY BytesFound DEF LoopInv
<1>2. reserved \in Nat /\ call.size \in Nat
  BY DEF LoopInv, TypeOK, IndexTypeOK
<1>3. /\ RoomWithout(V) <=> reserved + x + call.size <= HostBudget
      /\ RoomWithout(W) <=> reserved + y + call.size <= HostBudget
  BY RoomIs
<1> HIDE DEF x, y
<1> QED BY <1>1, <1>2, <1>3, PolicyAssumption

(* fitLocked and evictLocked: a call that may evict does to the store what *)
(* one pass of ContentIndex does, and answers as it does.                  *)
THEOREM LoopIsOnePass == Spec => []CallIsOnePass
<1>1. ASSUME LoopInv
      PROVE  CallIsOnePass
  <2> SUFFICES ASSUME at = "returned", call.apply
               PROVE  \E V \in Passes :
                         /\ fits = Before!Fits(call.size, reserved, V)
                         /\ sets = Before!SetsWithout(V)
                         /\ blobs = Before!RefsWithout(V)
                         /\ disk = before.disk \ Before!Evicted(V)
                         /\ \/ V # {} /\ file = sets /\ ~ dirty
                            \/ /\ V = {} \/ IndexMayFail
                               /\ file = before.file /\ dirty = before.dirty
    BY DEF CallIsOnePass
  <2>1. Picked = Gone /\ sets = Before!SetsWithout(Gone)
    BY <1>1 DEF LoopInv, Scan, Picked
  <2>2. Gone \in Passes /\ fits = Before!Fits(call.size, reserved, Gone)
    BY <1>1, <2>1, PickedIsAPass
  <2>3. Before!RefsWithout(Gone) = RefsLeft(Gone) /\ Before!Evicted(Gone) = Orphans(Gone)
    BY <1>1, BeforeRefs DEF LoopInv, Gone
  <2>4. blobs = RefsLeft(Gone)
    BY <1>1 DEF LoopInv, Stored
  <2>5. disk = before.disk \ Orphans(Gone)
    <3>1. \A h \in Orphans(Gone) : blobs[h] = {}
      BY <2>4 DEF Orphans
    <3> QED BY <1>1, <3>1 DEF LoopInv, Stored
  <2>6. \/ Gone # {} /\ file = sets /\ ~ dirty
        \/ /\ Gone = {} \/ IndexMayFail
           /\ file = before.file /\ dirty = before.dirty
    BY <1>1 DEF LoopInv, Stored
  <2> QED BY <2>1, <2>2, <2>3, <2>4, <2>5, <2>6
<1> QED BY <1>1, LoopInvariant, PTL

(* Reserve's dry run: it deletes nothing, and its answer is that of every  *)
(* pass the real run may make.                                             *)
THEOREM DryRunForetells == Spec => []DryRunTells
<1>1. ASSUME LoopInv
      PROVE  DryRunTells
  <2> SUFFICES ASSUME at = "returned", ~ call.apply
               PROVE  /\ disk = before.disk /\ sets = before.sets /\ file = before.file
                      /\ fits = Before!Fits(call.size, reserved, Before!Evictable)
                      /\ \A V \in Passes : fits = Before!Fits(call.size, reserved, V)
    BY DEF DryRunTells
  <2>1. Gone = {} /\ sets = Before!SetsWithout({})
    BY <1>1 DEF LoopInv, Scan
  <2>2. disk = before.disk /\ file = before.file
    BY <1>1, <2>1 DEF LoopInv, Stored, Orphans
  <2>3. sets = before.sets
    <3>1. before.sets = [r \in DOMAIN before.sets |-> before.sets[r]]
      BY <1>1 DEF LoopInv, Found, IsIndex
    <3>2. DOMAIN before.sets \ {} = DOMAIN before.sets
      OBVIOUS
    <3>3. Before!SetsWithout({}) = [r \in DOMAIN before.sets \ {} |-> before.sets[r]]
      BY BeforeSets
    <3> QED BY <2>1, <3>1, <3>2, <3>3
  <2>4. fits \in BOOLEAN /\ \A V : Before!Fits(call.size, reserved, V) \in BOOLEAN
    BY <1>1 DEF LoopInv, TypeOK, Before!Fits
  <2>5. CASE TooLarge(call.size)
    <3>1. ~ fits
      BY <1>1, <2>5 DEF LoopInv, Scan
    <3>2. \A V : ~ Before!Fits(call.size, reserved, V)
      BY <2>5, PassesInOrder
    <3> QED BY <2>2, <2>3, <2>4, <3>1, <3>2
  <2>6. CASE ~ TooLarge(call.size)
    <3>1. /\ fits <=> RoomWithout(Picked)
          /\ fits \/ Picked = MayGo
          /\ Picked \subseteq MayGo
      BY <1>1, <2>6 DEF LoopInv, Scan, InOrder
    <3>2. ASSUME NEW V, V \subseteq MayGo, RoomWithout(V)
          PROVE  RoomWithout(MayGo)
      BY <1>1, <3>2, RoomGrows
    <3>3. fits <=> RoomWithout(MayGo)
      BY <3>1, <3>2
    <3>4. \A V \in Passes : fits <=> RoomWithout(V)
      <4> SUFFICES ASSUME NEW V \in Passes
                   PROVE  fits <=> RoomWithout(V)
        OBVIOUS
      <4>1. V \subseteq MayGo /\ (RoomWithout(V) \/ V = MayGo)
        BY <2>6, PassesInOrder DEF InOrder
      <4> QED BY <3>2, <3>3, <4>1
    <3>5. \A V : Before!Fits(call.size, reserved, V) <=> RoomWithout(V)
      BY <2>6, PassesInOrder
    <3> QED BY <2>2, <2>3, <2>4, <3>3, <3>4, <3>5 DEF MayGo
  <2> QED BY <2>5, <2>6
<1> QED BY <1>1, LoopInvariant, PTL

----------------------------------------------------------------------------
(* What the call may do                                                    *)

(* Some set is the first to go of those that may. *)
LEMMA FirstVictimExists ==
    ASSUME LoopInv, NEW S, S \subseteq MayGo, S # {}
    PROVE  \E v \in S : \A s \in S : ~ Sooner(s, v)
<1> DEFINE earlier(v) == {s \in S : Sooner(s, v)}
           T == {earlier(v) : v \in S}
<1>1. \A r \in S : r \in Blob /\ before.sets[r].lastAccess \in Nat
  BY LoopCondition, BlobsOfType DEF LoopInv, ContentMeta
<1>2. /\ \A r \in S : ~ Sooner(r, r)
      /\ \A q, r, s \in S : Sooner(q, r) /\ Sooner(r, s) => Sooner(q, s)
  BY <1>1 DEF Sooner, Before!EvictedBefore
<1>3. S \subseteq Blob
  BY <1>1
<1>4. IsWellFoundedOn(StrictSubsetOrdering(Blob), FiniteSubsetsOf(Blob))
  BY FS_StrictSubsetOrderingWellFounded
<1>5. \A v \in S : earlier(v) \in SUBSET Blob /\ IsFiniteSet(earlier(v))
  BY <1>3, LoopAssumption, FS_Subset
<1>6. T \subseteq FiniteSubsetsOf(Blob)
  BY <1>5 DEF FiniteSubsetsOf
<1>7. T # {}
  OBVIOUS
<1> HIDE DEF T
<1>8. PICK x \in T : \A y \in T : <<y, x>> \notin StrictSubsetOrdering(Blob)
  BY <1>4, <1>6, <1>7, WFMin
<1>9. PICK v \in S : x = earlier(v)
  BY <1>8 DEF T
<1>10. ASSUME NEW s \in S, Sooner(s, v)
       PROVE  FALSE
  <2>1. earlier(s) \subseteq earlier(v) /\ s \in earlier(v) /\ s \notin earlier(s)
    BY <1>2, <1>10
  <2>2. earlier(s) \in T
    BY DEF T
  <2>3. earlier(s) \in SUBSET Blob /\ earlier(v) \in SUBSET Blob
    BY <1>5
  <2> HIDE DEF earlier
  <2>4. <<earlier(s), x>> \in StrictSubsetOrdering(Blob)
    BY <1>9, <2>1, <2>3 DEF StrictSubsetOrdering
  <2> QED BY <1>8, <2>2, <2>4
<1> QED BY <1>10

(* fitLocked: the loop can end with every pass, ties in any order.         *)
THEOREM EveryPassIsOpen == Spec => []PassesStayOpen
<1>1. ASSUME LoopInv
      PROVE  PassesStayOpen
  <2> SUFFICES ASSUME at = "look", NEW V \in Passes
               PROVE  /\ Picked = V => RoomNow \/ Candidates = {}
                      /\ \A last \in LastOf(V) :
                            Picked \subseteq V \ {last} =>
                                /\ ~ RoomNow
                                /\ IF Picked = V \ {last} THEN last \in Victims
                                   ELSE Victims \cap (V \ {last}) # {}
    BY DEF PassesStayOpen
  <2>1. ~ TooLarge(call.size)
    BY <1>1 DEF LoopInv, Scan
  <2>2. V \subseteq MayGo /\ InOrder(V) /\ (RoomWithout(V) \/ V = MayGo)
    BY <2>1, PassesInOrder DEF InOrder
  <2>3. /\ RoomNow <=> RoomWithout(Picked)
        /\ Candidates = MayGo \ Picked
        /\ Victims = {v \in MayGo \ Picked : \A s \in MayGo \ Picked : ~ Sooner(s, v)}
    BY <1>1, LoopCondition
  <2>4. Picked = V => RoomNow \/ Candidates = {}
    BY <2>2, <2>3
  <2>5. ASSUME NEW last \in LastOf(V), Picked \subseteq V \ {last}
        PROVE  /\ ~ RoomNow
               /\ IF Picked = V \ {last} THEN last \in Victims
                  ELSE Victims \cap (V \ {last}) # {}
    <3>1. /\ last \in V /\ \A s \in V : ~ Sooner(last, s)
          /\ ~ RoomWithout(V \ {last})
      BY PassesInOrder DEF LastOf, Sooner
    <3>2. ~ RoomNow
      BY <1>1, <2>3, <2>5, <3>1, RoomGrows
    <3>3. \A v \in V, s \in MayGo \ V : ~ Sooner(s, v)
      BY <2>2 DEF InOrder
    <3>4. ASSUME Picked = V \ {last}
          PROVE  last \in Victims
      <4>1. last \in MayGo \ Picked /\ MayGo \ Picked = (MayGo \ V) \cup {last}
        BY <2>2, <3>1, <3>4
      <4> QED BY <2>3, <3>1, <3>3, <4>1
    <3>5. ASSUME Picked # V \ {last}
          PROVE  Victims \cap (V \ {last}) # {}
      <4> DEFINE S == (V \ {last}) \ Picked
      <4>1. S # {} /\ S \subseteq MayGo
        BY <2>2, <2>5, <3>5
      <4>2. PICK v \in S : \A s \in S : ~ Sooner(s, v)
        BY <1>1, <4>1, FirstVictimExists
      <4>3. v \in V /\ v \in MayGo \ Picked
        BY <4>1
      <4>4. \A s \in MayGo \ Picked : ~ Sooner(s, v)
        BY <3>1, <3>3, <4>2, <4>3
      <4> QED BY <2>3, <4>3, <4>4
    <3> QED BY <3>2, <3>4, <3>5
  <2> QED BY <2>4, <2>5
<1> QED BY <1>1, LoopInvariant, PTL

----------------------------------------------------------------------------
(* What a crash in the middle leaves                                       *)

(* Whatever it has picked, the loop can go on to the end of a pass. *)
LEMMA PassCompletes ==
    ASSUME LoopInv, ~ TooLarge(call.size), NEW P, InOrder(P)
    PROVE  \E V \in Passes : P \subseteq V
<1> DEFINE Good == {W \in SUBSET MayGo : InOrder(W) /\ P \subseteq W}
           T == {MayGo \ W : W \in Good}
<1>1. MayGo \in SUBSET Blob /\ IsFiniteSet(MayGo)
  <2>1. MayGo \subseteq Blob
    BY LoopCondition, BlobsOfType DEF LoopInv
  <2> QED BY <2>1, LoopAssumption, FS_Subset
<1>2. P \in Good
  BY DEF InOrder
<1>3. IsWellFoundedOn(StrictSubsetOrdering(Blob), FiniteSubsetsOf(Blob))
  BY FS_StrictSubsetOrderingWellFounded
<1>4. \A W : MayGo \ W \in SUBSET Blob /\ IsFiniteSet(MayGo \ W)
  BY <1>1, FS_Subset
<1>5. T \subseteq FiniteSubsetsOf(Blob)
  BY <1>4 DEF FiniteSubsetsOf
<1>6. T # {}
  BY <1>2
<1> HIDE DEF T
<1>7. PICK x \in T : \A y \in T : <<y, x>> \notin StrictSubsetOrdering(Blob)
  BY <1>3, <1>5, <1>6, WFMin
<1>8. PICK W \in Good : x = MayGo \ W
  BY <1>7 DEF T
<1>9. ASSUME ~ RoomWithout(W), W # MayGo
      PROVE  FALSE
  <2> DEFINE S == MayGo \ W
  <2>1. S # {} /\ S \subseteq MayGo /\ W \subseteq MayGo /\ InOrder(W) /\ P \subseteq W
    BY <1>8, <1>9
  <2>2. PICK v \in S : \A s \in S : ~ Sooner(s, v)
    BY <2>1, FirstVictimExists
  <2>3. InOrder(W \cup {v})
    <3>1. /\ W \cup {v} \subseteq MayGo
          /\ \A u \in W \cup {v}, s \in MayGo \ (W \cup {v}) : ~ Sooner(s, u)
      BY <2>1, <2>2 DEF InOrder
    <3>2. \A u \in W \cup {v} : ~ Sooner(v, u)
      BY <2>1, <2>2 DEF InOrder
    <3>3. (W \cup {v}) \ {v} = W
      BY <2>2
    <3> QED BY <1>9, <3>1, <3>2, <3>3 DEF InOrder
  <2>4. W \cup {v} \in Good
    BY <2>1, <2>2, <2>3
  <2> DEFINE y == MayGo \ (W \cup {v})
  <2>5. y \in T
    BY <2>4 DEF T
  <2>6. y \subseteq x /\ y # x /\ y \in SUBSET Blob /\ x \in SUBSET Blob
    BY <1>4, <1>8, <2>2
  <2> HIDE DEF y
  <2>7. <<y, x>> \in StrictSubsetOrdering(Blob)
    BY <2>6 DEF StrictSubsetOrdering
  <2> QED BY <1>7, <2>5, <2>7
<1>10. W \in Passes
  BY <1>8, <1>9, PassesInOrder
<1> QED BY <1>8, <1>10

(* A manifest is a chunk of no set. *)
LEMMA ManifestsAreNoChunks ==
    ASSUME LoopInv, NEW r \in DOMAIN before.sets, NEW q \in DOMAIN before.sets,
           r \in BlobsOf(q), BlobsOf(r) # {r}
    PROVE  q = r
<1>1. /\ before.sets[r].chunks \in {<<>>, ChunksOf(r)}
      /\ before.sets[q].chunks \in {<<>>, ChunksOf(q)}
      /\ r \in Blob /\ q \in Blob
  BY DEF LoopInv, Found, IsIndex
<1>2. Range(<<>>) = {}
  BY DEF Range
<1>3. r \in DOMAIN Manifest
  BY <1>1, <1>2 DEF BlobsOf, Members, ChunksOf
<1>4. r \notin Range(before.sets[q].chunks)
  <2>1. CASE q \in DOMAIN Manifest
    <3>1. Manifest[q].chunks \in Seq(Blob \ DOMAIN Manifest)
      BY <2>1, ContentAssumption
    <3>2. r \notin Range(Manifest[q].chunks)
      BY <1>3, <3>1 DEF Range
    <3> QED BY <1>1, <1>2, <2>1, <3>2 DEF ChunksOf
  <2>2. CASE q \notin DOMAIN Manifest
    BY <1>1, <1>2, <2>2 DEF ChunksOf
  <2> QED BY <2>1, <2>2
<1> QED BY <1>4 DEF BlobsOf, Members

(* fitLocked and evictLocked: wherever the process dies in the loop, the   *)
(* directory lacks blobs of one pass only, no set of it keeps its root     *)
(* when a chunk has gone, and the index file is the one before unless all  *)
(* is done.                                                                *)
THEOREM DeathsAreForeseen == Spec => []DeathsForeseen
<1>1. ASSUME LoopInv
      PROVE  DeathsForeseen
  <2> SUFFICES ASSUME call.apply
               PROVE  \E V \in Passes : \E gone \in SUBSET Before!Evicted(V) :
                         /\ \A r \in V : Members(r, before.sets[r].chunks) \cap gone # {}
                                            => r \notin Before!Evicted(V) \ gone
                         /\ disk = before.disk \ gone
                         /\ \/ file = before.file
                            \/ /\ V # {} /\ gone = Before!Evicted(V)
                               /\ file = Before!SetsWithout(V)
    BY DEF DeathsForeseen
  <2> DEFINE gone == {h \in Orphans(Gone) : blobs[h] = {}}
  <2>1. Picked = Gone /\ InOrder(Gone) /\ sets = Before!SetsWithout(Gone)
    BY <1>1 DEF LoopInv, Scan, Picked
  <2>2. \E V \in Passes : Gone \subseteq V /\ (at = "returned" => V = Gone)
    <3>1. CASE at = "returned"
      BY <1>1, <2>1, <3>1, PickedIsAPass
    <3>2. CASE at # "returned" /\ TooLarge(call.size)
      <4>1. at = "enter"
        BY <1>1, <3>2 DEF LoopInv, TypeOK, Scan
      <4>2. Gone = {}
        BY <1>1, <4>1 DEF LoopInv, Scan, Picked
      <4> QED BY <3>2, <4>2, PassesInOrder
    <3>3. CASE at # "returned" /\ ~ TooLarge(call.size)
      BY <1>1, <2>1, <3>3, PassCompletes
    <3> QED BY <3>1, <3>2, <3>3
  <2>3. PICK V \in Passes : Gone \subseteq V /\ (at = "returned" => V = Gone)
    BY <2>2
  <2>4. V \subseteq DOMAIN before.sets
    <3>1. V \subseteq MayGo
      BY PassesInOrder DEF InOrder
    <3> QED BY <1>1, <3>1, LoopCondition
  <2>5. Before!Evicted(V) = Orphans(V)
    BY <1>1, <2>4, BeforeRefs DEF LoopInv
  <2>6. gone \in SUBSET Orphans(V)
    BY <2>3, <2>4 DEF Orphans, RefsLeft
  <2>7. disk = before.disk \ gone
    BY <1>1 DEF LoopInv, Stored
  <2>8. \/ file = before.file
        \/ V # {} /\ gone = Orphans(V) /\ file = Before!SetsWithout(V)
    <3>1. CASE at = "returned" /\ Gone # {} /\ file # before.file
      <4>1. file = sets /\ blobs = RefsLeft(Gone)
        BY <1>1, <3>1 DEF LoopInv, Stored
      <4>2. gone = Orphans(Gone)
        BY <4>1 DEF Orphans
      <4> QED BY <2>1, <2>3, <3>1, <4>1, <4>2
    <3>2. CASE ~ (at = "returned" /\ Gone # {} /\ file # before.file)
      BY <1>1, <3>2 DEF LoopInv, Stored
    <3> QED BY <3>1, <3>2
  <2>9. ASSUME NEW r \in V, NEW x \in BlobsOf(r), x \in gone, r \in Orphans(V)
        PROVE  r \in gone
    <3>1. r \in DOMAIN before.sets /\ r \in Blob /\ x \in Blob
      BY <1>1, <2>4, <2>9, BlobsOfType DEF LoopInv
    <3>2. r \in Gone
      BY <2>9, <3>1 DEF Orphans, RefsLeft
    <3>3. CASE BlobsOf(r) = {r}
      BY <2>9, <3>3
    <3>4. CASE BlobsOf(r) # {r}
      <4>1. \A q \in DOMAIN before.sets : r \in BlobsOf(q) => q = r
        BY <1>1, <3>1, <3>4, ManifestsAreNoChunks
      <4>2. RefsLeft(Gone)[r] = {}
        BY <3>1, <3>2, <4>1 DEF RefsLeft
      <4>3. r \in Orphans(Gone)
        BY <1>1, <2>9, <3>1, <3>2, <4>2, BlobsOfType DEF Orphans, LoopInv
      <4>4. blobs[r] = {}
        <5>1. CASE at = "release"
          <6>1. Releasing
            BY <1>1, <5>1 DEF LoopInv, Stored
          <6>2. blobs[r] \ {victim} = {} /\ victim \in DOMAIN before.sets
            BY <3>1, <4>2, <6>1 DEF Releasing, Gone
          <6>3. CASE victim = r
            BY <2>9, <6>1, <6>2, <6>3 DEF Releasing
          <6>4. CASE victim # r
            BY <3>1, <4>1, <6>1, <6>2, <6>4 DEF Releasing
          <6> QED BY <6>3, <6>4
        <5>2. CASE at # "release"
          BY <1>1, <4>2, <5>2 DEF LoopInv, Stored
        <5> QED BY <5>1, <5>2
      <4> QED BY <4>3, <4>4
    <3> QED BY <3>3, <3>4
  <2> HIDE DEF gone
  <2>10. \A r \in V : Members(r, before.sets[r].chunks) \cap gone # {}
                         => r \notin Before!Evicted(V) \ gone
    BY <2>5, <2>9 DEF BlobsOf
  <2> QED BY <2>3, <2>5, <2>6, <2>7, <2>8, <2>10
<1> QED BY <1>1, LoopInvariant, PTL

----------------------------------------------------------------------------
(* That it comes to an end                                                 *)

(* A set that the loop picks is looked at no more. *)
LEMMA OneLess ==
    ASSUME LoopInv, UNCHANGED <<pending, reserved, now, call, before>>,
           NEW v \in Victims,
           \/ sets' = SetsWithout({v}) /\ spared' = spared
           \/ sets' = sets /\ spared' = spared \cup {v}
    PROVE  Cardinality(Candidates)' < Cardinality(Candidates)
<1>1. v \in Candidates /\ Candidates \in SUBSET Blob
  BY LoopCondition, BlobsOfType DEF LoopInv, Victims
<1>2. Candidates' = Candidates \ {v}
  <2>1. CASE sets' = SetsWithout({v}) /\ spared' = spared
    <3>1. DOMAIN sets' = DOMAIN sets \ {v} /\ \A r \in DOMAIN sets' : sets'[r] = sets[r]
      BY <2>1 DEF SetsWithout, Restrict
    <3> QED BY <2>1, <3>1 DEF Candidates, Evictable, HostedSets, Expired
  <2>2. CASE sets' = sets /\ spared' = spared \cup {v}
    BY <2>2 DEF Candidates, Evictable, HostedSets, Expired
  <2> QED BY <2>1, <2>2
<1>3. IsFiniteSet(Candidates) /\ Cardinality(Candidates) \in Nat
  BY <1>1, LoopAssumption, FS_Subset, FS_CardinalityType
<1>4. Cardinality(Candidates \ {v}) = Cardinality(Candidates) - 1
  BY <1>1, <1>3, FS_RemoveElement
<1> QED BY <1>2, <1>3, <1>4

(* fitLocked: every step leaves less to do.                                *)
THEOREM LoopRunsOut == Spec => StepsRunOut
<1> DEFINE Less == \E i \in 1 .. 3 : /\ LeftToDo'[i] < LeftToDo[i]
                                     /\ \A j \in 1 .. i - 1 : LeftToDo'[j] = LeftToDo[j]
           phase == CASE at = "enter" -> 3 [] at = "release" -> 2 [] at = "look" -> 1 [] OTHER -> 0
<1>1. ASSUME LoopInv, LoopInv', [Next]_vars
      PROVE  [Less]_vars
  <2>1. UNCHANGED <<pending, reserved, now, call, before>>
    BY <1>1, LeftAlone
  <2>2. /\ LeftToDo[1] = Cardinality(Candidates) /\ LeftToDo[2] = phase /\ LeftToDo[3] = Len(todo)
        /\ LeftToDo'[1] = Cardinality(Candidates)' /\ LeftToDo'[2] = phase'
        /\ LeftToDo'[3] = Len(todo)'
    BY DEF LeftToDo
  <2>3. ASSUME Cardinality(Candidates)' < Cardinality(Candidates)
        PROVE  Less
    BY <2>2, <2>3
  <2>4. ASSUME UNCHANGED <<sets, spared>>
        PROVE  Candidates' = Candidates
    BY <2>1, <2>4 DEF Candidates, Evictable, HostedSets, Expired
  <2>5. ASSUME UNCHANGED <<sets, spared>>, phase' < phase
        PROVE  Less
    BY <2>2, <2>4, <2>5
  <2>6. ASSUME UNCHANGED <<sets, spared>>, phase' = phase, Len(todo)' < Len(todo)
        PROVE  Less
    BY <2>2, <2>4, <2>6
  <2> HIDE DEF Less
  <2>7. ASSUME NEW answer, Return(answer), at \in {"enter", "look"}
        PROVE  Less
    BY <2>5, <2>7 DEF Return
  <2>8. CASE Refuse \/ HasRoom \/ NoVictim
    BY <2>7, <2>8 DEF Refuse, HasRoom, NoVictim
  <2>9. CASE Enter
    BY <2>5, <2>9 DEF Enter, indexVars
  <2>10. ASSUME NEW v \in Blob, Evict(v)
         PROVE  Less
    <3>1. v \in Victims /\ sets' = SetsWithout({v}) /\ spared' = spared
      BY <2>10 DEF Evict
    <3> QED BY <1>1, <2>1, <2>3, <3>1, OneLess
  <2>11. ASSUME NEW v \in Blob, Spare(v)
         PROVE  Less
    <3>1. v \in Victims /\ UNCHANGED sets /\ spared' = spared \cup {v}
      BY <2>11 DEF Spare, indexVars
    <3> QED BY <1>1, <2>1, <2>3, <3>1, OneLess
  <2>12. CASE ReleaseBlob
    <3>1. todo \in Seq(Blob) /\ todo # <<>> /\ todo' = Tail(todo)
      BY <1>1, <2>12 DEF ReleaseBlob, LoopInv, TypeOK
    <3>2. Len(todo)' < Len(todo)
      BY <3>1
    <3> QED BY <2>6, <2>12, <3>2 DEF ReleaseBlob
  <2>13. CASE EvictEnds
    BY <2>5, <2>13 DEF EvictEnds, indexVars
  <2> QED BY <1>1, <2>8, <2>9, <2>10, <2>11, <2>12, <2>13 DEF Next, Returned
<1>2. Spec => [][LoopInv /\ LoopInv' /\ [Next]_vars]_vars
  BY LoopInvariant, PTL DEF Spec
<1> QED BY <1>1, <1>2, LoopInvariant, PTL DEF Spec, StepsRunOut
=============================================================================
