------------------------- MODULE ContentIndexProofs -------------------------
(***************************************************************************)
(* What the operations of ContentIndex preserve: the types of its          *)
(* variables and the reverse map from blobs to sets.                       *)
(***************************************************************************)
EXTENDS ContentIndex, FiniteSetTheorems, TLAPS

IsIndex(index) ==
    /\ index \in [DOMAIN index -> ContentMeta]
    /\ DOMAIN index \subseteq Blob
    /\ \A r \in DOMAIN index : index[r].chunks \in {<<>>, ChunksOf(r)}

Mirrors(refs, index) ==
    /\ refs \in [Blob -> SUBSET Blob]
    /\ \A h \in Blob : refs[h] = {r \in DOMAIN index : h \in Members(r, index[r].chunks)}

(* The inductive invariant of the index: its types, the reverse map, and   *)
(* that a set is recorded with the chunks its manifest names or, adopted,  *)
(* with none.  The last part makes MarkOwned's upgrade of a set keep the   *)
(* reverse map exact, since it only ever adds references.                  *)
IndexOK ==
    /\ IndexTypeOK
    /\ IsIndex(file)
    /\ IsIndex(sets)
    /\ Mirrors(blobs, sets)

----------------------------------------------------------------------------
(* Sets and their sizes                                                    *)

(* The chunks of a set are a sequence of blobs.                            *)
LEMMA ChunksOfType ==
    ASSUME NEW root \in Blob
    PROVE  ChunksOf(root) \in Seq(Blob)
<1>1. CASE root \in DOMAIN Manifest
  <2>1. Manifest[root].chunks \in Seq(Blob \ DOMAIN Manifest)
    BY <1>1, ContentAssumption
  <2> QED BY <1>1, <2>1 DEF ChunksOf
<1>2. CASE root \notin DOMAIN Manifest
  BY <1>2 DEF ChunksOf
<1> QED BY <1>1, <1>2

(* The size of a set is a natural number.                                  *)
LEMMA SetSizeType ==
    ASSUME NEW root \in Blob
    PROVE  SetSize(root) \in Nat
BY ContentAssumption DEF SetSize

(* The members of a set of blobs are blobs.                                *)
LEMMA MembersType ==
    ASSUME NEW root \in Blob, NEW chunks \in Seq(Blob)
    PROVE  Members(root, chunks) \subseteq Blob
BY DEF Members, Range

----------------------------------------------------------------------------
(* Claims                                                                  *)

(* The mentions of h in a handle are finitely many, counted by Count.      *)
LEMMA CountType ==
    ASSUME NEW hashes \in Seq(Blob), NEW h
    PROVE  /\ IsFiniteSet({i \in DOMAIN hashes : hashes[i] = h})
           /\ Count(hashes, h) \in Nat
           /\ h \in Range(hashes) => Count(hashes, h) > 0
<1> DEFINE I == {i \in DOMAIN hashes : hashes[i] = h}
<1>1. IsFiniteSet(1 .. Len(hashes))
  BY FS_Interval
<1>2. I \in SUBSET (1 .. Len(hashes))
  OBVIOUS
<1>3. IsFiniteSet(I)
  BY <1>1, <1>2, FS_Subset
<1>4. Cardinality(I) \in Nat
  BY <1>3, FS_CardinalityType
<1>5. h \in Range(hashes) => I # {}
  BY DEF Range
<1>6. Count(hashes, h) = Cardinality(I)
  BY DEF Count
<1> HIDE DEF I
<1>7. I # {} => Cardinality(I) # 0
  BY <1>3, FS_EmptySet
<1>8. IsFiniteSet(I) /\ Count(hashes, h) \in Nat /\ (h \in Range(hashes) => Count(hashes, h) > 0)
  BY <1>3, <1>4, <1>5, <1>6, <1>7
<1> QED BY <1>8 DEF I

(* Releasing a handle leaves natural counts.                               *)
LEMMA ReleasedType ==
    ASSUME IndexTypeOK, NEW hashes \in Seq(Blob)
    PROVE  Released(hashes) \in [Blob -> Nat]
<1> SUFFICES ASSUME NEW h \in Blob
             PROVE  (IF pending[h] > Count(hashes, h)
                     THEN pending[h] - Count(hashes, h) ELSE 0) \in Nat
  BY DEF Released
<1>1. Count(hashes, h) \in Nat
  BY CountType
<1>2. pending[h] \in Nat
  BY DEF IndexTypeOK
<1> QED BY <1>1, <1>2

(* BlobClaims.Claim.                                                       *)
LEMMA ClaimOK ==
    ASSUME IndexOK, NEW h \in Blob, Claim(h)
    PROVE  IndexOK'
BY DEF IndexOK, IndexTypeOK, IsIndex, Mirrors, Claim

(* BlobClaims.Discard.                                                     *)
LEMMA DiscardOK ==
    ASSUME IndexOK, NEW hashes \in Seq(Blob), Discard(hashes)
    PROVE  IndexOK'
BY ReleasedType DEF IndexOK, IndexTypeOK, IsIndex, Mirrors, Discard

(* BlobStore.Put.                                                          *)
LEMMA PutOK ==
    ASSUME IndexOK, NEW h \in Blob, Put(h)
    PROVE  IndexOK'
BY DEF IndexOK, IndexTypeOK, IsIndex, Mirrors, Put

(* ContentIndex.Reserve and ContentIndex.Release.                          *)
LEMMA ReserveOK ==
    ASSUME IndexOK, NEW size \in Nat, Reserve(size) \/ Release(size)
    PROVE  IndexOK'
BY DEF IndexOK, IndexTypeOK, IsIndex, Mirrors, Reserve, Release, Unpromised

(* ContentIndex.save: the file is the index or, if the write fails, what   *)
(* it was.                                                                 *)
LEMMA SaveOK ==
    ASSUME NEW index, Save(index), dirty \in BOOLEAN
    PROVE  file' \in {index, file} /\ dirty' \in BOOLEAN
BY DEF Save, Write

(* ContentIndex.Flush.                                                     *)
LEMMA FlushOK ==
    ASSUME IndexOK, Flush
    PROVE  IndexOK'
BY DEF IndexOK, IndexTypeOK, IsIndex, Mirrors, Flush, Save, Write

----------------------------------------------------------------------------
(* Recording sets                                                          *)

(* What an entry must be to go into the index.                             *)
IsEntry(root, meta) == meta \in ContentMeta /\ meta.chunks \in {<<>>, ChunksOf(root)}

(* An index with one entry more, or one replaced.                          *)
LEMMA RecordOK ==
    ASSUME NEW index, IsIndex(index), NEW root \in Blob, NEW meta, IsEntry(root, meta)
    PROVE  IsIndex(Record(index, root, meta))
<1>1. /\ DOMAIN Record(index, root, meta) = DOMAIN index \cup {root}
      /\ Record(index, root, meta)[root] = meta
      /\ \A r \in DOMAIN index \ {root} : Record(index, root, meta)[r] = index[r]
  BY DEF Record
<1>2. Record(index, root, meta) \in [DOMAIN index \cup {root} -> ContentMeta]
  BY DEF Record, IsIndex, IsEntry
<1> QED BY <1>1, <1>2 DEF IsIndex, IsEntry

(* The reverse map follows, as the new entry names no fewer chunks than    *)
(* the one it replaces.                                                    *)
LEMMA ReferenceOK ==
    ASSUME NEW index, IsIndex(index), NEW refs, Mirrors(refs, index),
           NEW root \in Blob, NEW meta, IsEntry(root, meta),
           root \in DOMAIN index => meta.chunks = ChunksOf(root)
    PROVE  Mirrors(Reference(refs, root, meta.chunks), Record(index, root, meta))
<1> DEFINE new == Record(index, root, meta)
           newRefs == Reference(refs, root, meta.chunks)
<1>1. newRefs \in [Blob -> SUBSET Blob]
  BY DEF Reference, Mirrors
<1>2. ASSUME NEW h \in Blob
      PROVE  newRefs[h] = {r \in DOMAIN new : h \in Members(r, new[r].chunks)}
  <2>1. refs[h] = {r \in DOMAIN index : h \in Members(r, index[r].chunks)}
    BY DEF Mirrors
  <2>2. newRefs[h] = IF h \in Members(root, meta.chunks) THEN refs[h] \cup {root} ELSE refs[h]
    BY DEF Reference
  <2>3. root \in refs[h] => h \in Members(root, meta.chunks)
    BY <2>1 DEF Members, IsIndex, Range
  <2>4. /\ DOMAIN new = DOMAIN index \cup {root}
        /\ new[root] = meta
        /\ \A r \in DOMAIN index \ {root} : new[r] = index[r]
    BY DEF Record
  <2> HIDE DEF new, newRefs
  <2> QED BY <2>1, <2>2, <2>3, <2>4
<1> QED BY <1>1, <1>2 DEF Mirrors

(* Access times change nothing else.                                       *)
LEMMA TouchedOK ==
    ASSUME NEW index, IsIndex(index), NEW R, now \in Nat
    PROVE  /\ IsIndex(Touched(index, R))
           /\ DOMAIN Touched(index, R) = DOMAIN index
           /\ \A r \in DOMAIN index : /\ Touched(index, R)[r].chunks = index[r].chunks
                                     /\ Touched(index, R)[r].owned = index[r].owned
           /\ \A refs : Mirrors(refs, index) => Mirrors(refs, Touched(index, R))
<1>1. ASSUME NEW r \in DOMAIN index
      PROVE  /\ Touched(index, R)[r] \in ContentMeta
             /\ Touched(index, R)[r].chunks = index[r].chunks
             /\ Touched(index, R)[r].owned = index[r].owned
  <2>1. index[r] \in ContentMeta
    BY DEF IsIndex
  <2>2. [index[r] EXCEPT !.lastAccess = now] \in ContentMeta
    BY <2>1 DEF ContentMeta
  <2> QED BY <1>1, <2>1, <2>2 DEF Touched, ContentMeta
<1>2. DOMAIN Touched(index, R) = DOMAIN index
  BY DEF Touched
<1>3. Touched(index, R) \in [DOMAIN index -> ContentMeta]
  BY <1>1 DEF Touched
<1> QED BY <1>1, <1>2, <1>3 DEF IsIndex, Mirrors

(* ContentIndex.Touch and TouchBlob.                                       *)
LEMMA TouchSetsOK ==
    ASSUME IndexOK, NEW R, TouchSets(R)
    PROVE  IndexOK'
<1>1. now \in Nat /\ IsIndex(sets) /\ Mirrors(blobs, sets)
  BY DEF IndexOK, IndexTypeOK
<1>2. sets' = Touched(sets, R) /\ blobs' = blobs /\ file' = file
  BY DEF TouchSets
<1>3. IsIndex(sets') /\ Mirrors(blobs, sets')
  BY <1>1, <1>2, TouchedOK
<1>4. IsIndex(file') /\ Mirrors(blobs', sets')
  BY <1>2, <1>3 DEF IndexOK
<1>5. IndexTypeOK'
  BY <1>3 DEF IndexOK, IndexTypeOK, TouchSets, IsIndex
<1> QED BY <1>3, <1>4, <1>5 DEF IndexOK

(* ContentIndex.MarkOwned.                                                 *)
LEMMA MarkOwnedOK ==
    ASSUME IndexOK, NEW root \in Blob, NEW size \in Nat, NEW hashes \in Seq(Blob),
           MarkOwned(root, size, ChunksOf(root), hashes)
    PROVE  /\ IndexOK'
           /\ DOMAIN sets' = DOMAIN sets \cup {root}
           /\ sets'[root].owned /\ sets'[root].chunks = ChunksOf(root)
           /\ \A r \in DOMAIN sets \ {root} : sets'[r] = sets[r]
<1> DEFINE meta == [owned |-> TRUE, size |-> size, chunks |-> ChunksOf(root),
                    lastAccess |-> now,
                    storedAt |-> IF root \in DOMAIN sets THEN sets[root].storedAt ELSE now]
<1>1. /\ IsIndex(sets) /\ Mirrors(blobs, sets) /\ now \in Nat
      /\ \A r \in DOMAIN sets : sets[r].storedAt \in Nat
  BY DEF IndexOK, IndexTypeOK, IsIndex, ContentMeta
<1>2. meta \in ContentMeta
  BY <1>1, ChunksOfType DEF ContentMeta
<1>3. meta.chunks = ChunksOf(root) /\ meta.owned
  OBVIOUS
<1>4. sets' = Record(sets, root, meta) /\ blobs' = Reference(blobs, root, meta.chunks)
  BY <1>3 DEF MarkOwned
<1> HIDE DEF meta
<1>5. IsEntry(root, meta)
  BY <1>2, <1>3 DEF IsEntry
<1>6. /\ IsIndex(sets')
      /\ DOMAIN sets' = DOMAIN sets \cup {root}
      /\ sets'[root] = meta
      /\ \A r \in DOMAIN sets \ {root} : sets'[r] = sets[r]
  <2>1. IsIndex(sets')
    BY <1>1, <1>4, <1>5, RecordOK
  <2>2. /\ DOMAIN sets' = DOMAIN sets \cup {root}
        /\ sets'[root] = meta
        /\ \A r \in DOMAIN sets \ {root} : sets'[r] = sets[r]
    BY <1>4 DEF Record
  <2> QED BY <2>1, <2>2
<1>7. Mirrors(blobs', sets')
  BY <1>1, <1>3, <1>4, <1>5, ReferenceOK
<1>8. Released(hashes) \in [Blob -> Nat]
  BY ReleasedType DEF IndexOK
<1>9. /\ pending' = Released(hashes)
      /\ UNCHANGED <<disk, reserved, now>>
  BY DEF MarkOwned
<1>10. IsIndex(file') /\ dirty' \in BOOLEAN
  BY <1>6, SaveOK DEF MarkOwned, IndexOK, IndexTypeOK
<1>11. IndexTypeOK'
  BY <1>6, <1>7, <1>8, <1>9, <1>10 DEF IndexOK, IndexTypeOK, IsIndex, Mirrors
<1> QED BY <1>3, <1>6, <1>7, <1>10, <1>11 DEF IndexOK

(* addHostedLocked: the set is there afterwards, and whatever the index    *)
(* held it holds with the same owner and chunks.                           *)
LEMMA AddHostedToOK ==
    ASSUME now \in Nat, NEW index, IsIndex(index), NEW refs, Mirrors(refs, index),
           NEW root \in Blob, NEW size \in Nat,
           AddHostedTo(index, refs, root, size, ChunksOf(root))
    PROVE  /\ IsIndex(sets') /\ Mirrors(blobs', sets')
           /\ DOMAIN sets' = DOMAIN index \cup {root}
           /\ \A r \in DOMAIN index : /\ sets'[r].owned = index[r].owned
                                     /\ sets'[r].chunks = index[r].chunks
           /\ root \notin DOMAIN index => ~ sets'[root].owned
<1>1. CASE root \in DOMAIN index
  <2>1. sets' = Touched(index, {root}) /\ blobs' = refs
    BY <1>1 DEF AddHostedTo
  <2>2. IsIndex(sets') /\ Mirrors(blobs', sets')
    BY <2>1, TouchedOK
  <2>3. /\ DOMAIN sets' = DOMAIN index
        /\ \A r \in DOMAIN index : /\ sets'[r].owned = index[r].owned
                                  /\ sets'[r].chunks = index[r].chunks
    BY <2>1, TouchedOK
  <2> QED BY <1>1, <2>2, <2>3
<1>2. CASE root \notin DOMAIN index
  <2> DEFINE meta == [owned |-> FALSE, size |-> size, chunks |-> ChunksOf(root),
                      storedAt |-> now, lastAccess |-> now]
  <2>1. meta \in ContentMeta
    BY ChunksOfType DEF ContentMeta
  <2>2. meta.chunks = ChunksOf(root) /\ ~ meta.owned
    OBVIOUS
  <2>3. sets' = Record(index, root, meta) /\ blobs' = Reference(refs, root, meta.chunks)
    BY <1>2, <2>2 DEF AddHostedTo
  <2> HIDE DEF meta
  <2>4. IsEntry(root, meta)
    BY <2>1, <2>2 DEF IsEntry
  <2>5. IsIndex(sets')
    BY <2>3, <2>4, RecordOK
  <2>6. Mirrors(blobs', sets')
    BY <2>2, <2>3, <2>4, ReferenceOK
  <2>7. /\ DOMAIN sets' = DOMAIN index \cup {root}
        /\ sets'[root] = meta
        /\ \A r \in DOMAIN index \ {root} : sets'[r] = index[r]
    BY <2>3 DEF Record
  <2> QED BY <1>2, <2>2, <2>5, <2>6, <2>7
<1> QED BY <1>1, <1>2

(* ContentIndex.AddHosted.                                                 *)
LEMMA AddHostedOK ==
    ASSUME IndexOK, NEW root \in Blob, NEW size \in Nat, NEW hashes \in Seq(Blob),
           AddHosted(root, size, ChunksOf(root), hashes)
    PROVE  IndexOK'
<1>1. now \in Nat /\ IsIndex(sets) /\ Mirrors(blobs, sets) /\ IsIndex(file)
  BY DEF IndexOK, IndexTypeOK
<1>2. AddHostedTo(sets, blobs, root, size, ChunksOf(root))
  BY DEF AddHosted
<1>3. IsIndex(sets') /\ Mirrors(blobs', sets')
  BY <1>1, <1>2, AddHostedToOK
<1>4. IsIndex(file') /\ dirty' \in BOOLEAN
  BY <1>1, <1>3, SaveOK DEF AddHosted, IndexOK, IndexTypeOK
<1>5. pending' \in [Blob -> Nat]
  BY ReleasedType DEF IndexOK, AddHosted
<1>6. UNCHANGED <<disk, reserved, now>>
  BY DEF AddHosted
<1>7. IndexTypeOK'
  BY <1>3, <1>4, <1>5, <1>6 DEF IndexOK, IndexTypeOK, IsIndex, Mirrors
<1> QED BY <1>3, <1>4, <1>7 DEF IndexOK

----------------------------------------------------------------------------
(* Eviction                                                                *)

(* Only hosted sets are ever victims.                                      *)
LEMMA VictimsHosted ==
    ASSUME NEW size, NEW promised, NEW V \in EvictionPasses(size, promised)
    PROVE  V \subseteq HostedSets
BY DEF EvictionPasses, Evictable

(* What is left when the sets in V are gone.                               *)
LEMMA EvictOK ==
    ASSUME IsIndex(sets), Mirrors(blobs, sets), NEW V
    PROVE  /\ IsIndex(SetsWithout(V))
           /\ Mirrors(RefsWithout(V), SetsWithout(V))
           /\ DOMAIN SetsWithout(V) = DOMAIN sets \ V
           /\ \A r \in DOMAIN sets \ V : SetsWithout(V)[r] = sets[r]
<1>1. /\ DOMAIN SetsWithout(V) = DOMAIN sets \ V
      /\ \A r \in DOMAIN sets \ V : SetsWithout(V)[r] = sets[r]
  BY DEF SetsWithout, Restrict
<1>2. SetsWithout(V) \in [DOMAIN sets \ V -> ContentMeta]
  BY DEF SetsWithout, Restrict, IsIndex
<1>3. IsIndex(SetsWithout(V))
  BY <1>1, <1>2 DEF IsIndex
<1>4. RefsWithout(V) \in [Blob -> SUBSET Blob]
  BY DEF RefsWithout, Mirrors
<1>5. ASSUME NEW h \in Blob
      PROVE  RefsWithout(V)[h]
               = {r \in DOMAIN SetsWithout(V) : h \in Members(r, SetsWithout(V)[r].chunks)}
  <2>1. blobs[h] = {r \in DOMAIN sets : h \in Members(r, sets[r].chunks)}
    BY DEF Mirrors
  <2>2. RefsWithout(V)[h] = blobs[h] \ {r \in V : h \in Members(r, sets[r].chunks)}
    BY DEF RefsWithout
  <2> QED BY <1>1, <2>1, <2>2
<1> QED BY <1>1, <1>3, <1>4, <1>5 DEF Mirrors

(* ContentIndex.Admit.                                                     *)
LEMMA AdmitOK ==
    ASSUME IndexOK, NEW size \in Nat, NEW fits, Admit(size, fits)
    PROVE  IndexOK'
<1>1. IsIndex(sets) /\ Mirrors(blobs, sets) /\ IsIndex(file)
  BY DEF IndexOK
<1>2. PICK V \in EvictionPasses(size, reserved) :
          /\ disk' = disk \ Evicted(V)
          /\ sets' = SetsWithout(V)
          /\ blobs' = RefsWithout(V)
          /\ SaveEvicted(V)
          /\ UNCHANGED <<pending, reserved, now>>
  BY DEF Admit
<1>3. IsIndex(sets') /\ Mirrors(blobs', sets')
  BY <1>1, <1>2, EvictOK
<1>4. IsIndex(file') /\ dirty' \in BOOLEAN
  BY <1>1, <1>2, <1>3, SaveOK DEF SaveEvicted, IndexOK, IndexTypeOK
<1>5. IndexTypeOK'
  BY <1>2, <1>3, <1>4 DEF IndexOK, IndexTypeOK, IsIndex, Mirrors
<1> QED BY <1>3, <1>4, <1>5 DEF IndexOK

(* ContentIndex.CommitHosted.                                              *)
LEMMA CommitHostedOK ==
    ASSUME IndexOK, NEW root \in Blob, NEW size \in Nat, NEW hashes \in Seq(Blob),
           NEW fits, CommitHosted(root, size, ChunksOf(root), hashes, fits)
    PROVE  IndexOK'
<1>1. IsIndex(sets) /\ Mirrors(blobs, sets) /\ IsIndex(file) /\ now \in Nat
  BY DEF IndexOK, IndexTypeOK
<1>2. PICK V \in EvictionPasses(size, Unpromised(size)) :
          /\ reserved' = Unpromised(size)
          /\ disk' = disk \ Evicted(V)
          /\ IF fits
             THEN /\ AddHostedTo(SetsWithout(V), RefsWithout(V), root, size, ChunksOf(root))
                  /\ pending' = Released(hashes)
                  /\ SaveCommitted(root, V)
             ELSE /\ sets' = SetsWithout(V)
                  /\ blobs' = RefsWithout(V)
                  /\ pending' = pending
                  /\ SaveEvicted(V)
          /\ now' = now
  BY DEF CommitHosted
<1>3. IsIndex(SetsWithout(V)) /\ Mirrors(RefsWithout(V), SetsWithout(V))
  BY <1>1, EvictOK
<1>4. IsIndex(sets') /\ Mirrors(blobs', sets')
  <2>1. CASE fits
    BY <1>1, <1>2, <1>3, <2>1, AddHostedToOK
  <2>2. CASE ~ fits
    BY <1>2, <1>3, <2>2
  <2> QED BY <2>1, <2>2
<1>5. IsIndex(file') /\ dirty' \in BOOLEAN
  <2>1. CASE fits
    <3>1. dirty \in BOOLEAN
      BY DEF IndexOK, IndexTypeOK
    <3>2. file' \in {file, SetsWithout(V), sets'} /\ dirty' \in BOOLEAN
      BY <1>2, <2>1, <3>1 DEF SaveCommitted, SaveEvicted, Save, Write
    <3> QED BY <1>1, <1>3, <1>4, <3>2
  <2>2. CASE ~ fits
    BY <1>1, <1>2, <1>4, <2>2, SaveOK DEF SaveEvicted, IndexOK, IndexTypeOK
  <2> QED BY <2>1, <2>2
<1>6. pending' \in [Blob -> Nat]
  <2>1. CASE fits
    BY <1>2, <2>1, ReleasedType DEF IndexOK
  <2>2. CASE ~ fits
    BY <1>2, <2>2 DEF IndexOK, IndexTypeOK
  <2> QED BY <2>1, <2>2
<1>7. reserved' \in Nat /\ disk' \subseteq Blob /\ now' \in Nat
  BY <1>2 DEF Unpromised, IndexOK, IndexTypeOK
<1>8. IndexTypeOK'
  BY <1>4, <1>5, <1>6, <1>7 DEF IndexTypeOK, IsIndex, Mirrors
<1> QED BY <1>4, <1>5, <1>8 DEF IndexOK

----------------------------------------------------------------------------
(* Starting and stopping                                                   *)

(* LoadContentIndex makes an exact index of whatever it finds.             *)
LEMMA LoadContentIndexOK ==
    ASSUME IndexOK, LoadContentIndex
    PROVE  IndexOK'
<1> DEFINE kept   == {r \in DOMAIN file : r \in disk}
           named  == UNION {Members(r, file[r].chunks) : r \in kept}
           whole  == {m \in (disk \cap DOMAIN Manifest) \ named : Range(ChunksOf(m)) \subseteq disk}
           single == disk \ (named \cup UNION {Members(m, ChunksOf(m)) : m \in whole})
           entry(r) == IF r \in kept THEN file[r]
                       ELSE Adopted(r, IF r \in whole THEN ChunksOf(r) ELSE <<>>)
<1>1. /\ sets' = [r \in kept \cup whole \cup single |-> entry(r)]
      /\ blobs' = [h \in Blob |-> {r \in DOMAIN sets' : h \in Members(r, sets'[r].chunks)}]
      /\ pending' = [h \in Blob |-> 0] /\ reserved' = 0
      /\ file' = sets' /\ dirty' = FALSE
      /\ UNCHANGED <<disk, now>>
  BY DEF LoadContentIndex, Write
<1>2. kept \cup whole \cup single \subseteq Blob
  BY DEF IndexOK, IndexTypeOK
<1>3. ASSUME NEW r \in kept \cup whole \cup single
      PROVE  IsEntry(r, entry(r))
  <2>1. CASE r \in kept
    BY <2>1 DEF IndexOK, IsIndex, IsEntry
  <2>2. CASE r \notin kept
    <3> DEFINE chunks == IF r \in whole THEN ChunksOf(r) ELSE <<>>
    <3>1. chunks \in {<<>>, ChunksOf(r)} /\ chunks \in Seq(Blob)
      BY <1>2, ChunksOfType
    <3> HIDE DEF chunks
    <3>2. SetSize(r) \in Nat /\ Size[r] \in Nat /\ now \in Nat
      BY <1>2, SetSizeType, ContentAssumption DEF IndexOK, IndexTypeOK
    <3>3. IsEntry(r, Adopted(r, chunks))
      BY <3>1, <3>2 DEF Adopted, ContentMeta, IsEntry
    <3> QED BY <2>2, <3>3 DEF chunks
  <2> QED BY <2>1, <2>2
<1> HIDE DEF kept, whole, single, entry
<1>4. IsIndex(sets')
  BY <1>1, <1>2, <1>3 DEF IsIndex, IsEntry
<1>5. Mirrors(blobs', sets')
  BY <1>1, <1>2 DEF Mirrors
<1>6. IndexTypeOK'
  BY <1>1, <1>4, <1>5 DEF IndexOK, IndexTypeOK, IsIndex, Mirrors
<1> QED BY <1>1, <1>4, <1>5, <1>6 DEF IndexOK

(* The empty index a process has before it has started.                    *)
LEMMA EmptyIndexOK ==
    /\ IsIndex(EmptyIndex)
    /\ Mirrors([h \in Blob |-> {}], EmptyIndex)
BY DEF EmptyIndex, IsIndex, Mirrors

(* A process that dies leaves a directory and an index file that are       *)
(* still well formed.                                                      *)
LEMMA LoseMemoryOK ==
    ASSUME IndexOK, LoseMemory, disk' \subseteq disk, IsIndex(file')
    PROVE  IndexOK'
<1>1. IsIndex(sets') /\ Mirrors(blobs', sets')
  BY EmptyIndexOK DEF LoseMemory
<1>2. IndexTypeOK'
  BY <1>1 DEF IndexOK, IndexTypeOK, LoseMemory, IsIndex, Mirrors
<1> QED BY <1>1, <1>2 DEF IndexOK

----------------------------------------------------------------------------
(* Counting bytes                                                          *)

(* Bytes are counted as pairs: so are those of one set, or one promise.    *)
LEMMA BytesOfOne ==
    ASSUME NEW w, NEW p \in Nat
    PROVE  IsFiniteSet({w} \X (1 .. p)) /\ Cardinality({w} \X (1 .. p)) = p
<1> DEFINE I == 1 .. p
<1>1. IsFiniteSet(I) /\ Cardinality(I) = p
  BY FS_Interval
<1>2. IsFiniteSet({w}) /\ Cardinality({w}) = 1
  BY FS_Singleton
<1> HIDE DEF I
<1>3. IsFiniteSet({w} \X I) /\ Cardinality({w} \X I) = 1 * p
  BY <1>1, <1>2, FS_Product
<1> QED BY <1>3 DEF I

(* The bytes of the sets in R, as the index at hand records them. *)
SetBytesIn(index, R) == UNION {{r} \X (1 .. index[r].size) : r \in R}

BytesIn(index, R) == Cardinality(SetBytesIn(index, R))

(* The bytes of finitely many sets are finitely many.                      *)
LEMMA BytesFinite ==
    ASSUME NEW index, NEW R, IsFiniteSet(R), \A r \in R : index[r].size \in Nat
    PROVE  IsFiniteSet(SetBytesIn(index, R)) /\ BytesIn(index, R) \in Nat
<1> DEFINE bytes(r) == {r} \X (1 .. index[r].size)
           B == {bytes(r) : r \in R}
           f == [r \in R |-> bytes(r)]
<1>1. f \in Surjection(R, B)
  BY DEF Surjection
<1>2. IsFiniteSet(B)
  BY <1>1, FS_Surjection
<1>3. ASSUME NEW T \in B PROVE IsFiniteSet(T)
  <2>1. PICK r \in R : T = bytes(r)
    BY <1>3
  <2> QED BY <2>1, BytesOfOne
<1>4. IsFiniteSet(UNION B)
  BY <1>2, <1>3, FS_UNION
<1> QED BY <1>4, FS_CardinalityType DEF SetBytesIn, BytesIn

(* Fewer sets, fewer bytes, also from an index that agrees on their sizes. *)
LEMMA BytesMonotone ==
    ASSUME NEW index, NEW R, IsFiniteSet(R), \A r \in R : index[r].size \in Nat,
           NEW other, NEW Q, Q \subseteq R, \A r \in Q : other[r].size = index[r].size
    PROVE  BytesIn(other, Q) <= BytesIn(index, R) /\ BytesIn(other, Q) \in Nat
<1>1. SetBytesIn(other, Q) \subseteq SetBytesIn(index, R)
  BY DEF SetBytesIn
<1>2. IsFiniteSet(SetBytesIn(index, R))
  BY BytesFinite
<1> QED BY <1>1, <1>2, FS_Subset, FS_CardinalityType DEF BytesIn

(* One set more.                                                           *)
LEMMA BytesAdd ==
    ASSUME NEW index, NEW R, IsFiniteSet(R), NEW root, root \notin R,
           \A r \in R \cup {root} : index[r].size \in Nat
    PROVE  BytesIn(index, R \cup {root}) = BytesIn(index, R) + index[root].size
<1> DEFINE N == {root} \X (1 .. index[root].size)
           B == SetBytesIn(index, R)
<1>1. SetBytesIn(index, R \cup {root}) = B \cup N
  <2> DEFINE BytesOf(r) == {r} \X (1 .. index[r].size)
  <2>1. SetBytesIn(index, R \cup {root}) = UNION {BytesOf(r) : r \in R \cup {root}}
    BY DEF SetBytesIn
  <2>2. B = UNION {BytesOf(r) : r \in R}
    BY DEF SetBytesIn
  <2>3. N = BytesOf(root)
    OBVIOUS
  <2> HIDE DEF BytesOf, B, N
  <2> QED BY <2>1, <2>2, <2>3
<1>2. B \cap N = {}
  <2>1. ASSUME NEW b \in B PROVE b[1] \in R
    <3>1. PICK r \in R : b \in {r} \X (1 .. index[r].size)
      BY DEF SetBytesIn
    <3> QED BY <3>1
  <2>2. \A b \in N : b[1] = root
    OBVIOUS
  <2> HIDE DEF B, N
  <2> QED BY <2>1, <2>2
<1>3. IsFiniteSet(N) /\ Cardinality(N) = index[root].size /\ Cardinality(N) \in Nat
  <2>1. index[root].size \in Nat
    OBVIOUS
  <2>2. IsFiniteSet(N) /\ Cardinality(N) = index[root].size
    BY ONLY <2>1, BytesOfOne DEF N
  <2> QED BY <2>1, <2>2
<1>4. IsFiniteSet(B) /\ Cardinality(B) \in Nat
  BY BytesFinite DEF BytesIn
<1> HIDE DEF N, B
<1>5. Cardinality(B \cup N) = Cardinality(B) + Cardinality(N) - Cardinality(B \cap N)
  BY <1>3, <1>4, FS_Union
<1>6. Cardinality(B \cap N) = 0
  BY <1>2, FS_EmptySet
<1>7. Cardinality(B \cup N) = Cardinality(B) + Cardinality(N)
  BY <1>3, <1>4, <1>5, <1>6
<1> QED BY <1>1, <1>3, <1>7 DEF BytesIn, B
=============================================================================
