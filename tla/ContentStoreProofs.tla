-------------------------- MODULE ContentStoreProofs --------------------------
(***************************************************************************)
(* What a node's content store is to the outside: whole sets, no blob that *)
(* nothing accounts for, a budget that holds, and so an implementation of  *)
(* ContentStore, for any contents and any number of writers.               *)
(***************************************************************************)
EXTENDS ContentServiceProofs, WellFoundedInduction

----------------------------------------------------------------------------
(* What a step does to the index                                           *)

(* The same sets, but for access times. *)
SameSets(new, old) ==
    /\ DOMAIN new = DOMAIN old
    /\ \A r \in DOMAIN old : /\ new[r].owned = old[r].owned /\ new[r].chunks = old[r].chunks
                             /\ new[r].size = old[r].size /\ new[r].storedAt = old[r].storedAt
                             /\ new[r].lastAccess \in {old[r].lastAccess, now}

(* The entry of a hosted set that has just arrived. *)
NewlyHosted(size, chunks) ==
    [owned |-> FALSE, size |-> size, chunks |-> chunks, storedAt |-> now, lastAccess |-> now]

(* A commit that has evicted V and stores root. *)
Stored(root, size, V) ==
    IF root \in DOMAIN sets \ V THEN SameSets(sets', SetsWithout(V))
    ELSE sets' = Record(SetsWithout(V), root, NewlyHosted(size, ChunksOf(root)))

(* Touching.                                                               *)
LEMMA TouchedSame ==
    ASSUME NEW index, IsIndex(index), NEW R
    PROVE  SameSets(Touched(index, R), index)
<1> SUFFICES ASSUME NEW r \in DOMAIN index
             PROVE  LET new == Touched(index, R)[r]
                    IN  /\ new.owned = index[r].owned /\ new.chunks = index[r].chunks
                        /\ new.size = index[r].size /\ new.storedAt = index[r].storedAt
                        /\ new.lastAccess \in {index[r].lastAccess, now}
  BY DEF SameSets, Touched
<1>1. index[r] \in ContentMeta
  BY DEF IsIndex
<1>2. Touched(index, R)[r] \in {index[r], [index[r] EXCEPT !.lastAccess = now]}
  BY DEF Touched
<1> QED BY <1>1, <1>2 DEF ContentMeta

(* The sets that are there after a commit has stored root.                 *)
LEMMA StoredSets ==
    ASSUME IndexOK, NEW root \in Blob, NEW size, NEW V, Stored(root, size, V)
    PROVE  /\ DOMAIN sets' = (DOMAIN sets \ V) \cup {root}
           /\ \A r \in DOMAIN sets \ V :
                 /\ sets'[r].owned = sets[r].owned /\ sets'[r].chunks = sets[r].chunks
                 /\ sets'[r].size = sets[r].size /\ sets'[r].storedAt = sets[r].storedAt
                 /\ sets'[r].lastAccess \in {sets[r].lastAccess, now}
           /\ root \notin DOMAIN sets \ V => sets'[root] = NewlyHosted(size, ChunksOf(root))
<1>1. /\ DOMAIN SetsWithout(V) = DOMAIN sets \ V
      /\ \A r \in DOMAIN sets \ V : SetsWithout(V)[r] = sets[r]
  BY EvictOK DEF IndexOK
<1>2. CASE root \in DOMAIN sets \ V
  BY <1>1, <1>2 DEF Stored, SameSets
<1>3. CASE root \notin DOMAIN sets \ V
  BY <1>1, <1>3 DEF Stored, Record
<1> QED BY <1>2, <1>3

(* The sizes and access times of the sets that are there after a commit.   *)
LEMMA StoredKept ==
    ASSUME IndexOK, NEW root \in Blob, SetSize(root) \in Nat, NEW V,
           Stored(root, SetSize(root), V)
    PROVE  \A r \in DOMAIN sets' :
              \/ /\ r \in DOMAIN sets
                 /\ sets'[r].size = sets[r].size
                 /\ sets'[r].lastAccess \in {sets[r].lastAccess, now}
              \/ sets'[r].size <= SetSize(r) /\ sets'[r].lastAccess = now
<1> DEFINE size == SetSize(root)
<1>1. size \in Nat /\ size = SetSize(root) /\ Stored(root, size, V)
  OBVIOUS
<1> HIDE DEF size
<1>2. /\ DOMAIN sets' = (DOMAIN sets \ V) \cup {root}
      /\ \A r \in DOMAIN sets \ V :
            /\ sets'[r].owned = sets[r].owned /\ sets'[r].chunks = sets[r].chunks
            /\ sets'[r].size = sets[r].size /\ sets'[r].storedAt = sets[r].storedAt
            /\ sets'[r].lastAccess \in {sets[r].lastAccess, now}
      /\ root \notin DOMAIN sets \ V => sets'[root] = NewlyHosted(size, ChunksOf(root))
  BY <1>1, StoredSets, Zenon
<1>3. NewlyHosted(size, ChunksOf(root)).size = size /\ NewlyHosted(size, ChunksOf(root)).lastAccess = now
  BY DEF NewlyHosted
<1>4. ASSUME NEW r \in DOMAIN sets \ V
      PROVE  /\ r \in DOMAIN sets
             /\ sets'[r].size = sets[r].size
             /\ sets'[r].lastAccess \in {sets[r].lastAccess, now}
  BY <1>2
<1>5. CASE root \in DOMAIN sets \ V
  BY <1>2, <1>4, <1>5
<1>6. CASE root \notin DOMAIN sets \ V
  <2>1. sets'[root].size <= SetSize(root) /\ sets'[root].lastAccess = now
    BY <1>1, <1>2, <1>3, <1>6
  <2> QED BY <1>2, <1>4, <2>1
<1> QED BY <1>5, <1>6

(* The sets that are there after a commit has not.                         *)
LEMMA RefusedSets ==
    ASSUME IndexOK, NEW V, sets' = SetsWithout(V)
    PROVE  /\ DOMAIN sets' = DOMAIN sets \ V
           /\ \A r \in DOMAIN sets \ V : sets'[r] = sets[r]
BY EvictOK DEF IndexOK

(* The index file after a commit that has evicted V, if it can be written: *)
(* a set that was there already is touched after the save, if anything was *)
(* saved at all.                                                           *)
Saved(V) ==
    \/ IndexMayFail
    \/ file' = sets'
    \/ DOMAIN sets' = DOMAIN sets \ V /\ file' = SetsWithout(V)
    \/ DOMAIN sets' = DOMAIN sets /\ V = {} /\ file' = file

(* ContentIndex.CommitHosted, put in these terms.                          *)
LEMMA CommitIs ==
    ASSUME IndexOK, NEW root \in Blob, NEW size \in Nat, NEW hashes, NEW fits \in BOOLEAN,
           CommitHosted(root, size, ChunksOf(root), hashes, fits)
    PROVE  \E V \in EvictionPasses(size, Unpromised(size)) :
              /\ V \subseteq Evictable
              /\ fits = Fits(size, Unpromised(size), V)
              /\ IF fits THEN Stored(root, size, V) ELSE sets' = SetsWithout(V)
              /\ Saved(V)
              /\ disk' = disk \ Evicted(V)
              /\ pending' = (IF fits THEN Released(hashes) ELSE pending)
              /\ reserved' = Unpromised(size)
              /\ now' = now
<1>1. PICK V \in EvictionPasses(size, Unpromised(size)) :
          /\ fits = Fits(size, Unpromised(size), V)
          /\ reserved' = Unpromised(size)
          /\ disk' = disk \ Evicted(V)
          /\ IF fits
             THEN /\ AddHostedTo(SetsWithout(V), RefsWithout(V), root, size, ChunksOf(root))
                  /\ pending' = Released(hashes)
                  /\ SaveCommitted(root, V)
             ELSE /\ sets' = SetsWithout(V)
                  /\ blobs' = RefsWithout(V)
                  /\ pending' = pending
                  /\ SaveEvicted(V)
          /\ now' = now
  BY DEF CommitHosted
<1>2. V \subseteq Evictable
  BY DEF EvictionPasses
<1>3. IsIndex(SetsWithout(V)) /\ DOMAIN SetsWithout(V) = DOMAIN sets \ V
  BY EvictOK DEF IndexOK
<1>4. IF fits THEN Stored(root, size, V) ELSE sets' = SetsWithout(V)
  BY <1>1, <1>3, TouchedSame DEF Stored, AddHostedTo, NewlyHosted
<1>5. CASE fits
  <2>1. Stored(root, size, V)
    BY <1>4, <1>5
  <2>2. DOMAIN sets' = (DOMAIN sets \ V) \cup {root}
    BY <2>1, StoredSets
  <2>3. Saved(V)
    BY <1>1, <1>3, <1>5, <2>2 DEF SaveCommitted, Save, Write, Saved
  <2> QED BY <1>1, <1>2, <1>4, <2>3
<1>6. CASE ~ fits
  <2>1. Saved(V)
    BY <1>1, <1>3, <1>6 DEF Save, Write, SaveEvicted, Saved
  <2> QED BY <1>1, <1>2, <1>4, <2>1
<1> QED BY <1>5, <1>6

----------------------------------------------------------------------------
(* The directory and the index are finite.                                 *)
Finite == IsFiniteSet(disk) /\ IsFiniteSet(DOMAIN sets)

(* What PushCommit(w) comes to.                                            *)
LEMMA PushCommitIs ==
    ASSUME Inv, NEW w \in Writer, PushCommit(w)
    PROVE  LET s    == writer[w]
               root == s.root
               size == SetSize(root)
           IN  /\ up /\ up' /\ s.kind = "push" /\ s.pc = "next" /\ s.todo = <<>>
               /\ root \in Blob /\ size \in Nat /\ s.promised = size
               /\ Members(root, ChunksOf(root)) \subseteq Range(s.claims)
               /\ \E fits \in BOOLEAN :
                     /\ CommitHosted(root, size, ChunksOf(root), s.claims, fits)
                     /\ Become(w, IF fits THEN Idle
                                  ELSE [s EXCEPT !.pc = "fail", !.promised = 0])
<1>1. /\ up /\ up' /\ writer[w].kind = "push" /\ writer[w].pc = "next"
      /\ writer[w].todo = <<>> /\ WriterOK(writer[w])
  BY DEF PushCommit, At, Inv, WritersOK
<1>2. writer[w].root \in Blob /\ SetSize(writer[w].root) \in Nat
  BY <1>1, SetSizeType DEF WriterOK
<1>3. Range(writer[w].todo) = {}
  BY <1>1 DEF Range
<1>4. /\ writer[w].promised = SetSize(writer[w].root)
      /\ Members(writer[w].root, ChunksOf(writer[w].root)) \subseteq Range(writer[w].claims)
  BY <1>1, <1>3 DEF WriterOK
<1> QED BY <1>1, <1>2, <1>4 DEF PushCommit

(* What a commit of root does to the index when it evicts V. *)
Committed(root, size, V) ==
    /\ V \subseteq Evictable
    /\ \A r \in DOMAIN sets \ V :
          /\ sets'[r].owned = sets[r].owned /\ sets'[r].chunks = sets[r].chunks
          /\ sets'[r].size = sets[r].size /\ sets'[r].storedAt = sets[r].storedAt
          /\ sets'[r].lastAccess \in {sets[r].lastAccess, now}
    /\ \/ /\ DOMAIN sets' = DOMAIN sets \ V
          /\ ~ Fits(size, Unpromised(size), Evictable)
       \/ /\ DOMAIN sets' = (DOMAIN sets \ V) \cup {root}
          /\ Stored(root, size, V)
          /\ Room(size, Unpromised(size), V)
          /\ root \notin DOMAIN sets \ V => sets'[root] = NewlyHosted(size, ChunksOf(root))
    /\ Saved(V)
    /\ reserved' = Unpromised(size)
    /\ now' = now

(* Every commit.                                                           *)
LEMMA PushCommitted ==
    ASSUME Inv, NEW w \in Writer, PushCommit(w)
    PROVE  \E root \in Blob, size \in Nat :
              /\ root = writer[w].root /\ size = SetSize(root) /\ size = writer[w].promised
              /\ \E V : Committed(root, size, V)
<1>1. PICK root \in Blob, size \in Nat, fits \in BOOLEAN :
          /\ root = writer[w].root /\ size = SetSize(root) /\ size = writer[w].promised
          /\ CommitHosted(root, size, ChunksOf(root), writer[w].claims, fits)
  BY PushCommitIs
<1>2. IndexOK
  BY DEF Inv
<1>3. PICK V \in EvictionPasses(size, Unpromised(size)) :
          /\ V \subseteq Evictable
          /\ fits = Fits(size, Unpromised(size), V)
          /\ IF fits THEN Stored(root, size, V) ELSE sets' = SetsWithout(V)
          /\ Saved(V)
          /\ reserved' = Unpromised(size)
          /\ now' = now
  BY <1>1, <1>2, CommitIs
<1>4. CASE fits
  <2>1. Stored(root, size, V) /\ Room(size, Unpromised(size), V)
    BY <1>3, <1>4 DEF Fits
  <2>2. /\ DOMAIN sets' = (DOMAIN sets \ V) \cup {root}
        /\ root \notin DOMAIN sets \ V => sets'[root] = NewlyHosted(size, ChunksOf(root))
        /\ \A r \in DOMAIN sets \ V :
              /\ sets'[r].owned = sets[r].owned /\ sets'[r].chunks = sets[r].chunks
              /\ sets'[r].size = sets[r].size /\ sets'[r].storedAt = sets[r].storedAt
              /\ sets'[r].lastAccess \in {sets[r].lastAccess, now}
    BY <1>2, <2>1, StoredSets, Zenon
  <2>3. Committed(root, size, V)
    BY <1>3, <2>1, <2>2, Zenon DEF Committed
  <2> QED BY <1>1, <2>3
<1>5. CASE ~ fits
  <2>1. DOMAIN sets' = DOMAIN sets \ V /\ \A r \in DOMAIN sets \ V : sets'[r] = sets[r]
    BY <1>2, <1>3, <1>5, RefusedSets
  <2>2. ~ Fits(size, Unpromised(size), Evictable)
    BY <1>3, <1>5 DEF EvictionPasses, Fits
  <2>3. Committed(root, size, V)
    BY <1>3, <2>1, <2>2 DEF Committed
  <2> QED BY <1>1, <2>3
<1> QED BY <1>4, <1>5

(* Every step writes at most one blob, and leaves an index of the sets     *)
(* there were, of one set more, or of sets whose root is on disk.          *)
LEMMA NextGrowth ==
    ASSUME Inv, [Next]_vars
    PROVE  /\ \E h : disk' \subseteq disk \cup {h}
           /\ \/ \E r : DOMAIN sets' \subseteq DOMAIN sets \cup {r}
              \/ DOMAIN sets' \subseteq disk
<1> DEFINE Grows == /\ \E h : disk' \subseteq disk \cup {h}
                    /\ \E r : DOMAIN sets' \subseteq DOMAIN sets \cup {r}
<1>1. ASSUME disk' \subseteq disk, DOMAIN sets' \subseteq DOMAIN sets PROVE Grows
  BY <1>1
<1>2. ASSUME NEW w \in Writer, PushCommit(w) PROVE Grows
  <2> DEFINE root == writer[w].root
             size == SetSize(root)
  <2>1. PICK fits \in BOOLEAN :
            CommitHosted(root, size, ChunksOf(root), writer[w].claims, fits)
    BY <1>2, PushCommitIs
  <2>2. root \in Blob /\ size \in Nat /\ IndexOK
    BY <1>2, PushCommitIs DEF Inv
  <2> HIDE DEF root, size
  <2>3. PICK V : /\ IF fits THEN Stored(root, size, V) ELSE sets' = SetsWithout(V)
                 /\ disk' = disk \ Evicted(V)
    BY <2>1, <2>2, CommitIs
  <2>4. DOMAIN sets' \subseteq DOMAIN sets \cup {root}
    BY <2>2, <2>3, StoredSets, RefusedSets
  <2> QED BY <2>3, <2>4
<1>3. ASSUME NEW w \in Writer, FetchAdmit(w) PROVE Grows
  <2>1. \E V : disk' = disk \ Evicted(V) /\ sets' = SetsWithout(V)
    BY <1>3 DEF FetchAdmit, Admit
  <2> QED BY <2>1, EvictOK DEF Inv, IndexOK
<1>4. ASSUME NEW w \in Writer, RollBack(w) PROVE Grows
  BY <1>4 DEF RollBack, Discard
<1>5. ASSUME NEW w \in Writer, PutNext(w) PROVE Grows
  BY <1>5 DEF PutNext, Put
<1>6. ASSUME NEW w \in Writer, FetchChunk(w) PROVE Grows
  BY <1>6 DEF FetchChunk, Put, indexVars
<1>7. ASSUME NEW w \in Writer, PublishRecord(w) PROVE Grows
  BY <1>7 DEF PublishRecord, MarkOwned, Record
<1>8. ASSUME NEW w \in Writer, FetchRecord(w) PROVE Grows
  BY <1>8 DEF FetchRecord, AddHosted, AddHostedTo, Record, Touched
<1>9. ASSUME NEW w \in Writer,
             \/ PushHave(w) \/ PushAccept(w) \/ PushDecline(w) \/ PushRelease(w)
             \/ ClaimNext(w) \/ PutFails(w) \/ TransferFails(w) \/ FetchClose(w) \/ Request(w)
      PROVE  Grows
  BY <1>9 DEF PushHave, PushAccept, PushDecline, PushRelease, ClaimNext, PutFails, TransferFails,
     FetchClose, Request, PushOffer, PublishStart, FetchRemote, Touch, TouchSets, Touched,
     Reserve, Release, Claim, indexVars
<1>10. ASSUME \/ \E h \in Blob : ServeBlob(h)
              \/ FlushIndex \/ Tick \/ UNCHANGED vars
       PROVE  Grows
  BY <1>10 DEF ServeBlob, TouchBlob, TouchSets, Touched, FlushIndex, Flush, Tick, vars, indexVars
<1>11. CASE Crash
  BY <1>11 DEF Crash, LoseMemory, EmptyIndex, DiesDiscarding, DiesEvicting
<1>12. CASE Start
  <2>1. disk' = disk /\ DOMAIN sets' \subseteq disk
    BY <1>12 DEF Start, LoadContentIndex
  <2> QED BY <2>1
<1>13. ASSUME NEW h \in Blob, StoreUnindexed(h) PROVE Grows
  BY <1>13 DEF StoreUnindexed, Put
<1> QED BY <1>2, <1>3, <1>4, <1>5, <1>6, <1>7, <1>8, <1>9, <1>10, <1>11, <1>12, <1>13
        DEF Next, WriterStep

(* So both stay finite.                                                    *)
LEMMA NextFinite == Inv /\ Finite /\ [Next]_vars => Finite'
<1> SUFFICES ASSUME Inv, Finite, [Next]_vars PROVE Finite'
  OBVIOUS
<1>1. PICK h : disk' \subseteq disk \cup {h}
  BY NextGrowth
<1>2. IsFiniteSet(disk \cup {h}) /\ disk' \in SUBSET (disk \cup {h})
  BY <1>1, FS_AddElement DEF Finite
<1>3. ASSUME NEW r, DOMAIN sets' \subseteq DOMAIN sets \cup {r} PROVE IsFiniteSet(DOMAIN sets')
  <2>1. IsFiniteSet(DOMAIN sets \cup {r}) /\ DOMAIN sets' \in SUBSET (DOMAIN sets \cup {r})
    BY <1>3, FS_AddElement DEF Finite
  <2> QED BY <2>1, FS_Subset
<1>4. ASSUME DOMAIN sets' \subseteq disk PROVE IsFiniteSet(DOMAIN sets')
  <2>1. DOMAIN sets' \in SUBSET disk
    BY <1>4
  <2> QED BY <2>1, FS_Subset DEF Finite
<1> QED BY <1>2, <1>3, <1>4, FS_Subset, NextGrowth DEF Finite

(* The start directory is finite.                                          *)
LEMMA InitFinite == Init => Finite
<1>1. Init => disk \in SUBSET LegacyBlobs /\ DOMAIN sets = {}
  BY DEF Init, EmptyIndex
<1> QED BY <1>1, ServiceAssumption, FS_Subset, FS_EmptySet DEF Finite

(* The hosted sets of a finite index, and their sizes.                     *)
LEMMA HostedFinite ==
    ASSUME Inv, Finite, NEW R, R \subseteq DOMAIN sets
    PROVE  /\ IsFiniteSet(R)
           /\ \A r \in R : sets[r].size \in Nat
           /\ StoredBytes(R) = BytesIn(sets, R)
           /\ StoredBytes(R) \in Nat
<1>1. IsFiniteSet(R)
  BY FS_Subset DEF Finite
<1>2. \A r \in R : sets[r].size \in Nat
  BY DEF Inv, IndexOK, IsIndex, ContentMeta
<1> QED BY <1>1, <1>2, BytesFinite DEF StoredBytes, BytesIn, SetBytesIn

----------------------------------------------------------------------------
(* Pushes and publishes                                                    *)

(* What a transfer is that is not a fetch: it claims and writes nothing    *)
(* but its own set, and was only accepted if its set is not too large.     *)
TransferOK(s) ==
    /\ s.kind # "fetch"
    /\ Range(s.claims) \cup Range(s.todo) \subseteq Members(s.root, ChunksOf(s.root))
    /\ s.kind = "push" /\ s.pc \in {"next", "put"} => ~ TooLarge(SetSize(s.root))

Transfers == \A w \in Writer : TransferOK(writer[w])

(* A writer with nothing to do.                                            *)
LEMMA IdleTransfer == TransferOK(Idle)
BY DEF TransferOK, Idle, Range

(* One writer moves and the others stay.                                   *)
LEMMA BecomeTransfer ==
    ASSUME WritersOK, Transfers, NEW w \in Writer, NEW s, TransferOK(s), Become(w, s)
    PROVE  Transfers'
<1>1. writer'[w] = s /\ \A v \in Writer \ {w} : writer'[v] = writer[v]
  BY BecomeIs
<1> SUFFICES ASSUME NEW v \in Writer PROVE TransferOK(writer'[v])
  BY DEF Transfers, TransferOK, TooLarge
<1> QED BY <1>1 DEF Transfers

(* handlePushStream.                                                       *)
LEMMA PushTransfers ==
    ASSUME Inv, Transfers, NEW w \in Writer, NEW r \in Blob,
           \/ PushOffer(w, r) \/ PushHave(w) \/ PushAccept(w)
           \/ PushDecline(w) \/ PushCommit(w) \/ PushRelease(w)
    PROVE  Transfers'
<1> DEFINE s == writer[w]
<1>1. WritersOK /\ WriterOK(s) /\ s \in WriterState /\ TransferOK(s)
  BY DEF Inv, WritersOK, Transfers
<1>2. CASE PushOffer(w, r)
  <2> DEFINE place == IF r \in DOMAIN sets THEN "touch" ELSE "reserve"
             t == [Idle EXCEPT !.kind = "push", !.root = r, !.pc = place]
  <2>1. Become(w, t)
    BY <1>2 DEF PushOffer
  <2>2. place \notin {"next", "put"}
    OBVIOUS
  <2> HIDE DEF place
  <2>3. t.kind = "push" /\ t.claims = <<>> /\ t.todo = <<>> /\ t.pc = place
    BY DEF Idle
  <2> HIDE DEF t
  <2>4. TransferOK(t)
    BY <2>2, <2>3 DEF TransferOK, Range
  <2> QED BY <1>1, <2>1, <2>4, BecomeTransfer
<1>3. CASE PushAccept(w)
  <2> DEFINE root == s.root
             todo == <<root>> \o ChunksOf(root)
             size == SetSize(root)
             t == [s EXCEPT !.pc = "next", !.todo = todo, !.promised = size]
  <2>1. Become(w, t) /\ s.pc = "reserve" /\ s.kind = "push" /\ ~ TooLarge(size)
    BY <1>3 DEF PushAccept, Reserve, Fits, At
  <2>2. root \in Blob /\ s.claims = <<>> /\ <<root>> \in Seq(Blob) /\ ChunksOf(root) \in Seq(Blob)
    BY <1>1, <2>1, ChunksOfType DEF WriterOK
  <2>3. Range(<<root>>) = {root}
    BY DEF Range
  <2>4. Range(todo) = Members(root, ChunksOf(root))
    BY <2>2, <2>3, RangeConcat DEF Members
  <2> HIDE DEF todo, size
  <2>5. t.kind = "push" /\ t.claims = <<>> /\ t.todo = todo /\ t.root = root
    BY <1>1, <2>1, <2>2 DEF WriterState
  <2> HIDE DEF t
  <2>6. Range(t.claims) = {}
    BY <2>5 DEF Range
  <2>7. TransferOK(t)
    BY <2>1, <2>4, <2>5, <2>6 DEF TransferOK, size
  <2> QED BY <1>1, <2>1, <2>7, BecomeTransfer
<1>4. CASE PushCommit(w)
  <2> DEFINE t == [s EXCEPT !.pc = "fail", !.promised = 0]
  <2>1. Become(w, t) \/ Become(w, Idle)
    BY <1>4 DEF PushCommit
  <2>2. /\ t.kind = s.kind /\ t.claims = s.claims /\ t.todo = s.todo /\ t.root = s.root
        /\ t.pc = "fail"
    BY <1>1 DEF WriterState
  <2> HIDE DEF t
  <2>3. TransferOK(t)
    BY <1>1, <2>2 DEF TransferOK
  <2> QED BY <1>1, <2>1, <2>3, IdleTransfer, BecomeTransfer
<1>5. CASE PushHave(w) \/ PushDecline(w) \/ PushRelease(w)
  <2>1. Become(w, Idle)
    BY <1>5 DEF PushHave, PushDecline, PushRelease
  <2> QED BY <1>1, <2>1, IdleTransfer, BecomeTransfer
<1> QED BY <1>2, <1>3, <1>4, <1>5

(* PutStream.                                                              *)
LEMMA PublishTransfers ==
    ASSUME Inv, Transfers, NEW w \in Writer, NEW r \in Blob,
           PublishStart(w, r) \/ PublishRecord(w)
    PROVE  Transfers'
<1>1. WritersOK
  BY DEF Inv
<1>2. CASE PublishStart(w, r)
  <2> DEFINE todo == Append(ChunksOf(r), r)
             t == [Idle EXCEPT !.kind = "publish", !.root = r, !.pc = "next", !.todo = todo]
  <2>1. Become(w, t)
    BY <1>2 DEF PublishStart
  <2>2. Range(todo) = Members(r, ChunksOf(r))
    BY ChunksOfType, RangeAppend DEF Members
  <2> HIDE DEF todo
  <2>3. t.kind = "publish" /\ t.claims = <<>> /\ t.todo = todo /\ t.root = r
    BY DEF Idle
  <2> HIDE DEF t
  <2>4. Range(t.claims) = {}
    BY <2>3 DEF Range
  <2>5. TransferOK(t)
    BY <2>2, <2>3, <2>4 DEF TransferOK
  <2> QED BY <1>1, <2>1, <2>5, BecomeTransfer
<1>3. CASE PublishRecord(w)
  <2>1. Become(w, Idle)
    BY <1>3 DEF PublishRecord
  <2> QED BY <1>1, <2>1, IdleTransfer, BecomeTransfer
<1> QED BY <1>2, <1>3

(* Claiming, writing and rolling back.                                     *)
LEMMA SharedTransfers ==
    ASSUME Inv, Transfers, NEW w \in Writer,
           \/ ClaimNext(w) \/ PutNext(w) \/ PutFails(w) \/ TransferFails(w) \/ RollBack(w)
    PROVE  Transfers'
<1> DEFINE s == writer[w]
<1>1. /\ WritersOK /\ WriterOK(s) /\ s \in WriterState /\ TransferOK(s)
      /\ s.todo \in Seq(Blob) /\ s.claims \in Seq(Blob)
  BY DEF Inv, WritersOK, Transfers, WriterState
<1>2. CASE ClaimNext(w)
  <2> DEFINE h == Head(s.todo)
             claims == Append(s.claims, h)
             t == [s EXCEPT !.pc = "put", !.claims = claims]
  <2>1. Become(w, t) /\ s.todo # <<>> /\ s.pc = "next"
    BY <1>1, <1>2 DEF ClaimNext, WriterState
  <2>2. /\ Range(claims) = Range(s.claims) \cup {h}
        /\ Range(s.todo) = {h} \cup Range(Tail(s.todo))
    BY <1>1, <2>1, RangeTail, RangeAppend
  <2> HIDE DEF h, claims
  <2>3. t.kind = s.kind /\ t.claims = claims /\ t.todo = s.todo /\ t.root = s.root
    BY <1>1 DEF WriterState
  <2> HIDE DEF t
  <2>4. TransferOK(t)
    BY <1>1, <2>1, <2>2, <2>3 DEF TransferOK
  <2> QED BY <1>1, <2>1, <2>4, BecomeTransfer
<1>3. ASSUME NEW t, t = [s EXCEPT !.pc = "fail"], Become(w, t) PROVE Transfers'
  <2>1. /\ t.kind = s.kind /\ t.claims = s.claims /\ t.todo = s.todo /\ t.root = s.root
        /\ t.pc = "fail"
    BY <1>1, <1>3 DEF WriterState
  <2>2. TransferOK(t)
    BY <1>1, <2>1 DEF TransferOK
  <2> QED BY <1>1, <1>3, <2>2, BecomeTransfer
<1>4. CASE PutNext(w)
  <2> DEFINE todo == Tail(s.todo)
             t == [s EXCEPT !.pc = "next", !.todo = todo]
  <2>1. Become(w, t) /\ s.pc = "put" /\ s.todo # <<>>
    BY <1>1, <1>4 DEF PutNext, WriterState, WriterOK
  <2>2. Range(todo) \subseteq Range(s.todo)
    BY <1>1, <2>1, RangeTail
  <2> HIDE DEF todo
  <2>3. t.kind = s.kind /\ t.claims = s.claims /\ t.todo = todo /\ t.root = s.root
    BY <1>1 DEF WriterState
  <2> HIDE DEF t
  <2>4. TransferOK(t)
    BY <1>1, <2>1, <2>2, <2>3 DEF TransferOK
  <2> QED BY <1>1, <2>1, <2>4, BecomeTransfer
<1>5. CASE PutFails(w) \/ TransferFails(w)
  <2>1. Become(w, [s EXCEPT !.pc = "fail"])
    BY <1>1, <1>5 DEF PutFails, TransferFails, TransferOK
  <2> QED BY <1>3, <2>1
<1>6. CASE RollBack(w)
  <2> DEFINE t == [s EXCEPT !.pc = "release", !.claims = <<>>, !.todo = <<>>]
  <2>1. Become(w, t) \/ Become(w, Idle)
    BY <1>6 DEF RollBack
  <2>2. t.kind = s.kind /\ t.claims = <<>> /\ t.todo = <<>> /\ t.pc = "release"
    BY <1>1 DEF WriterState
  <2> HIDE DEF t
  <2>3. Range(t.claims) = {} /\ Range(t.todo) = {}
    BY <2>2 DEF Range
  <2>4. TransferOK(t)
    BY <1>1, <2>2, <2>3 DEF TransferOK
  <2> QED BY <1>1, <2>1, <2>4, IdleTransfer, BecomeTransfer
<1> QED BY <1>2, <1>3, <1>4, <1>5, <1>6

(* Every step of a node that fetches nothing.                              *)
LEMMA NextTransfers ==
    ASSUME "fetch" \notin Traffic, Inv, Transfers, [Next]_vars
    PROVE  Transfers'
<1>1. ASSUME NEW w \in Writer, WriterStep(w) PROVE Transfers'
  <2>1. writer[w].pc # "idle"
    BY <1>1 DEF WriterStep, PushHave, PushAccept, PushDecline, PushCommit, PushRelease,
       PublishRecord, ClaimNext, PutNext, PutFails, TransferFails, RollBack, FetchAdmit,
       FetchRecord, FetchChunk, FetchClose, At
  <2>2. writer[w].root \in Blob
    BY <2>1 DEF Inv, WritersOK, WriterOK
  <2>3. ~ (FetchAdmit(w) \/ FetchRecord(w) \/ FetchChunk(w) \/ FetchClose(w))
    BY DEF Transfers, TransferOK, FetchAdmit, FetchRecord, FetchChunk, FetchClose, At
  <2> QED BY <1>1, <2>2, <2>3, PushTransfers, PublishTransfers, SharedTransfers DEF WriterStep
<1>2. ASSUME NEW w \in Writer, Request(w) PROVE Transfers'
  <2>1. PICK r \in Wanted : PushOffer(w, r) \/ PublishStart(w, r)
    BY <1>2 DEF Request, FetchRemote
  <2> QED BY <2>1, ServiceAssumption, PushTransfers, PublishTransfers
<1>3. ASSUME writer' = writer PROVE Transfers'
  BY <1>3 DEF Transfers, TransferOK, TooLarge
<1>4. CASE Crash
  BY <1>4, IdleTransfer DEF Crash, Transfers, TransferOK, TooLarge
<1>5. CASE UNCHANGED vars
  BY <1>3, <1>5 DEF vars
<1> QED BY <1>1, <1>2, <1>3, <1>4, <1>5 DEF Next, ServeBlob, StoreUnindexed, FlushIndex, Tick, Start

(* Nobody writes at first.                                                 *)
LEMMA InitTransfers == Init => Transfers
BY IdleTransfer DEF Init, Transfers

----------------------------------------------------------------------------
(* Whole sets                                                              *)

(* A node that does not crash starts without an index file. *)
Pristine == ~ up => file = EmptyIndex

(* Every step of a node that does not crash.                               *)
LEMMA NextPristine ==
    ASSUME ~ MayCrash, Pristine, [Next]_vars
    PROVE  Pristine'
<1>1. ASSUME NEW w \in Writer, WriterStep(w) PROVE up'
  BY <1>1 DEF WriterStep, PushHave, PushAccept, PushDecline, PushCommit, PushRelease,
     PublishRecord, ClaimNext, PutNext, PutFails, TransferFails, RollBack, FetchAdmit,
     FetchRecord, FetchChunk, FetchClose, At
<1>2. ASSUME NEW w \in Writer, Request(w) PROVE up'
  BY <1>2 DEF Request, PushOffer, PublishStart, FetchRemote, At
<1>3. ASSUME \/ \E h \in Blob : ServeBlob(h)
             \/ FlushIndex \/ Start
      PROVE  up'
  BY <1>3 DEF ServeBlob, FlushIndex, Start
<1>4. CASE Tick \/ UNCHANGED vars
  BY <1>4 DEF Tick, vars, indexVars, Pristine
<1>5. ~ Crash /\ \A h \in Blob : ~ StoreUnindexed(h)
  BY DEF Crash, StoreUnindexed
<1> QED BY <1>1, <1>2, <1>3, <1>4, <1>5 DEF Next, Pristine

(* A step keeps the sets whole if it takes no blob from those that stay,   *)
(* and has the blobs of those that are new.                                *)
LEMMA StaysWhole ==
    ASSUME SetsComplete, RecordedKept,
           \A r \in DOMAIN sets' : \/ r \in DOMAIN sets /\ sets'[r].chunks = sets[r].chunks
                                   \/ Members(r, sets'[r].chunks) \subseteq disk'
    PROVE  SetsComplete'
BY DEF SetsComplete, RecordedKept

(* Where a commit puts sets with other chunks in the index.                *)
LEMMA CommitChunks ==
    ASSUME Inv, NEW w \in Writer, PushCommit(w)
    PROVE  LET root == writer[w].root
           IN  \A r \in DOMAIN sets' :
                  \/ r \in DOMAIN sets /\ sets'[r].chunks = sets[r].chunks
                  \/ r = root /\ sets'[r].chunks = ChunksOf(root)
<1>1. PICK root \in Blob, size \in Nat :
          root = writer[w].root /\ \E V : Committed(root, size, V)
  BY PushCommitted
<1>2. PICK V : Committed(root, size, V)
  BY <1>1
<1>3. \A r \in DOMAIN sets' :
         \/ r \in DOMAIN sets \ V /\ sets'[r].chunks = sets[r].chunks
         \/ r = root /\ sets'[r].chunks = ChunksOf(root)
  BY <1>2 DEF Committed, NewlyHosted
<1> QED BY <1>1, <1>3

(* What PublishRecord(w) comes to.                                         *)
LEMMA PublishRecordIs ==
    ASSUME Inv, NEW w \in Writer, PublishRecord(w)
    PROVE  LET s    == writer[w]
               root == s.root
           IN  /\ up /\ up' /\ s.kind = "publish" /\ s.pc = "next" /\ s.todo = <<>>
               /\ root \in Blob /\ s.claims \in Seq(Blob)
               /\ Members(root, ChunksOf(root)) \subseteq Range(s.claims)
               /\ MarkOwned(root, SetSize(root), ChunksOf(root), s.claims)
               /\ DOMAIN sets' = DOMAIN sets \cup {root}
               /\ sets'[root].owned /\ sets'[root].chunks = ChunksOf(root)
               /\ sets'[root].size = SetSize(root)
               /\ sets'[root].storedAt = IF root \in DOMAIN sets THEN sets[root].storedAt ELSE now
               /\ sets'[root].lastAccess = now
               /\ \A r \in DOMAIN sets \ {root} : sets'[r] = sets[r]
               /\ Become(w, Idle)
<1> DEFINE s == writer[w]
           root == s.root
<1>1. /\ up /\ up' /\ s.kind = "publish" /\ s.pc = "next" /\ s.todo = <<>>
      /\ WriterOK(s) /\ s \in WriterState /\ Become(w, Idle)
      /\ MarkOwned(root, SetSize(root), ChunksOf(root), s.claims)
  BY DEF PublishRecord, At, Inv, WritersOK
<1>2. root \in Blob /\ SetSize(root) \in Nat /\ IndexOK /\ s.claims \in Seq(Blob)
  BY <1>1, SetSizeType DEF WriterOK, WriterState, Inv
<1>3. Members(root, ChunksOf(root)) \subseteq Range(s.claims)
  BY <1>1 DEF WriterOK, Range
<1>4. /\ DOMAIN sets' = DOMAIN sets \cup {root}
      /\ sets'[root].owned /\ sets'[root].chunks = ChunksOf(root)
      /\ \A r \in DOMAIN sets \ {root} : sets'[r] = sets[r]
  BY <1>1, <1>2, MarkOwnedOK
<1>5. /\ sets'[root].size = SetSize(root)
      /\ sets'[root].storedAt = IF root \in DOMAIN sets THEN sets[root].storedAt ELSE now
      /\ sets'[root].lastAccess = now
  BY <1>1 DEF MarkOwned, Record
<1> QED BY <1>1, <1>2, <1>3, <1>4, <1>5

(* Every other step of a writer, and of the rest of a running node, touches *)
(* sets at most.                                                           *)
LEMMA OthersTouch ==
    ASSUME Inv, [Next]_vars, up, up',
           ~ \E w \in Writer : PushCommit(w) \/ PublishRecord(w) \/ FetchAdmit(w) \/ FetchRecord(w)
    PROVE  SameSets(sets', sets)
<1>1. ASSUME sets' = sets PROVE SameSets(sets', sets)
  BY <1>1 DEF SameSets
<1>2. ASSUME NEW w \in Writer, PushHave(w) PROVE SameSets(sets', sets)
  BY <1>2, TouchedSame DEF PushHave, Touch, TouchSets, Inv, IndexOK
<1>3. ASSUME NEW h \in Blob, ServeBlob(h) PROVE SameSets(sets', sets)
  BY <1>3, TouchedSame DEF ServeBlob, TouchBlob, TouchSets, Inv, IndexOK
<1>4. ASSUME NEW w \in Writer, WriterStep(w), ~ PushHave(w) PROVE sets' = sets
  BY <1>4 DEF WriterStep, PushAccept, PushDecline, PushRelease, ClaimNext, PutNext, PutFails,
     TransferFails, RollBack, FetchChunk, FetchClose, Reserve, Release, Claim, Put, Discard, indexVars
<1>5. ASSUME \/ \E w \in Writer : Request(w)
             \/ FlushIndex \/ Tick \/ UNCHANGED vars
      PROVE  sets' = sets
  BY <1>5 DEF Request, PushOffer, PublishStart, FetchRemote, FlushIndex, Flush, Tick,
     vars, indexVars
<1>6. ~ Crash /\ ~ Start /\ \A h \in Blob : ~ StoreUnindexed(h)
  BY DEF Crash, Start, StoreUnindexed
<1> QED BY <1>1, <1>2, <1>3, <1>4, <1>5, <1>6 DEF Next

(* None of them writes another file than that of the index.                *)
LEMMA OthersFile ==
    ASSUME Inv, [Next]_vars, up, up',
           ~ \E w \in Writer : PushCommit(w) \/ PublishRecord(w) \/ FetchAdmit(w) \/ FetchRecord(w)
    PROVE  file' = file \/ file' = sets'
<1>1. ASSUME NEW w \in Writer, WriterStep(w) PROVE file' = file
  BY <1>1 DEF WriterStep, PushHave, PushAccept, PushDecline, PushRelease, ClaimNext, PutNext,
     PutFails, TransferFails, RollBack, FetchChunk, FetchClose, Touch, TouchSets, Reserve, Release,
     Claim, Put, Discard, indexVars
<1>2. ASSUME \/ \E w \in Writer : Request(w)
             \/ \E h \in Blob : ServeBlob(h)
             \/ Tick \/ UNCHANGED vars
      PROVE  file' = file
  BY <1>2 DEF Request, PushOffer, PublishStart, FetchRemote, ServeBlob, TouchBlob, TouchSets,
     Tick, vars, indexVars
<1>3. CASE FlushIndex
  BY <1>3 DEF FlushIndex, Flush, Save, Write
<1>4. ~ Crash /\ ~ Start /\ \A h \in Blob : ~ StoreUnindexed(h)
  BY DEF Crash, Start, StoreUnindexed
<1> QED BY <1>1, <1>2, <1>3, <1>4 DEF Next

(* So on a node that fetches nothing.                                      *)
LEMMA NextTouches ==
    ASSUME Inv, Transfers, [Next]_vars, up, up',
           ~ \E w \in Writer : PushCommit(w) \/ PublishRecord(w)
    PROVE  SameSets(sets', sets)
<1>1. ASSUME NEW w \in Writer PROVE ~ FetchAdmit(w) /\ ~ FetchRecord(w)
  BY DEF Transfers, TransferOK, FetchAdmit, FetchRecord, At
<1> QED BY <1>1, OthersTouch

(* A process that is down is started, or nothing happens but time, unless  *)
(* one without an index writes to the directory meanwhile.                 *)
LEMMA NextDown ==
    ASSUME [Next]_vars, ~ up
    PROVE  \/ Start
           \/ ~ up' /\ UNCHANGED <<file, sets, reserved, writer>> /\ (MayCrash \/ disk' = disk)
<1>1. ASSUME NEW w \in Writer PROVE ~ WriterStep(w)
  BY DEF WriterStep, PushHave, PushAccept, PushDecline, PushCommit, PushRelease,
     PublishRecord, ClaimNext, PutNext, PutFails, TransferFails, RollBack, FetchAdmit,
     FetchRecord, FetchChunk, FetchClose, At
<1>2. ASSUME NEW w \in Writer PROVE ~ Request(w)
  BY DEF Request, PushOffer, PublishStart, FetchRemote, At
<1>3. ~ (\E h \in Blob : ServeBlob(h)) /\ ~ FlushIndex /\ ~ Crash
  BY DEF ServeBlob, FlushIndex, Crash
<1>4. ASSUME Tick \/ UNCHANGED vars PROVE ~ up' /\ UNCHANGED <<disk, file, sets, reserved, writer>>
  BY <1>4 DEF Tick, vars, indexVars
<1>5. ASSUME NEW h \in Blob, StoreUnindexed(h)
      PROVE  MayCrash /\ ~ up' /\ UNCHANGED <<file, sets, reserved, writer>>
  BY <1>5 DEF StoreUnindexed, Put
<1> QED BY <1>1, <1>2, <1>3, <1>4, <1>5 DEF Next

(* A process that runs goes on, or crashes.                                *)
LEMMA NextUp ==
    ASSUME [Next]_vars, up, ~ up'
    PROVE  Crash
<1>1. ASSUME NEW w \in Writer, WriterStep(w) PROVE up'
  BY <1>1 DEF WriterStep, PushHave, PushAccept, PushDecline, PushCommit, PushRelease,
     PublishRecord, ClaimNext, PutNext, PutFails, TransferFails, RollBack, FetchAdmit,
     FetchRecord, FetchChunk, FetchClose, At
<1>2. ASSUME NEW w \in Writer, Request(w) PROVE up'
  BY <1>2 DEF Request, PushOffer, PublishStart, FetchRemote, At
<1>3. ASSUME \/ \E h \in Blob : ServeBlob(h)
             \/ FlushIndex \/ Tick \/ Start \/ UNCHANGED vars
      PROVE  up'
  BY <1>3 DEF ServeBlob, FlushIndex, Tick, Start, vars
<1>4. ASSUME NEW h \in Blob PROVE ~ StoreUnindexed(h)
  BY DEF StoreUnindexed
<1> QED BY <1>1, <1>2, <1>3, <1>4 DEF Next

(* A push that is stored has its blobs on disk: it claimed and wrote them, *)
(* and no eviction takes what is claimed.                                  *)
LEMMA CommitWhole ==
    ASSUME Inv, Ledgers, DurableInv, SetsComplete, RecordedKept,
           NEW w \in Writer, PushCommit(w)
    PROVE  SetsComplete'
<1> DEFINE s == writer[w]
           root == s.root
<1>1. /\ s.kind = "push" /\ s.pc = "next"
      /\ Members(root, ChunksOf(root)) \subseteq Range(s.claims)
  BY PushCommitIs
<1>2. PICK V : disk' = disk \ Evicted(V)
  BY PushCommitIs DEF CommitHosted
<1>3. Members(root, ChunksOf(root)) \subseteq disk'
  <2>1. Range(s.claims) \subseteq disk
    BY <1>1 DEF DurableInv, AllWritten, Written
  <2>2. ASSUME NEW h \in Range(s.claims) PROVE h \notin Evicted(V)
    <3>1. h \in Blob
      BY <2>1 DEF Inv, IndexOK, IndexTypeOK
    <3> QED BY <3>1, ClaimedPending DEF Ledgers, Evicted
  <2> QED BY <1>1, <1>2, <2>1, <2>2
<1>4. \A r \in DOMAIN sets' : \/ r \in DOMAIN sets /\ sets'[r].chunks = sets[r].chunks
                              \/ r = root /\ sets'[r].chunks = ChunksOf(root)
  BY CommitChunks
<1> HIDE DEF root
<1> QED BY <1>3, <1>4, StaysWhole

(* So has a publish that is recorded.                                      *)
LEMMA PublishWhole ==
    ASSUME Inv, DurableInv, SetsComplete, RecordedKept, NEW w \in Writer, PublishRecord(w)
    PROVE  SetsComplete'
<1> DEFINE s == writer[w]
           root == s.root
<1>1. /\ s.kind = "publish" /\ s.pc = "next"
      /\ Members(root, ChunksOf(root)) \subseteq Range(s.claims)
      /\ DOMAIN sets' = DOMAIN sets \cup {root}
      /\ sets'[root].chunks = ChunksOf(root)
      /\ \A r \in DOMAIN sets \ {root} : sets'[r] = sets[r]
  BY PublishRecordIs
<1>2. Range(s.claims) \subseteq disk /\ disk' = disk
  BY <1>1 DEF DurableInv, AllWritten, Written, PublishRecord, MarkOwned
<1>3. Members(root, ChunksOf(root)) \subseteq disk'
  BY <1>1, <1>2
<1> HIDE DEF root
<1> QED BY <1>1, <1>3, StaysWhole

(* The first start adopts what it finds: whole sets, and single blobs.     *)
LEMMA StartWhole ==
    ASSUME Pristine, Start
    PROVE  SetsComplete'
<1> DEFINE whole == {m \in disk \cap DOMAIN Manifest : Range(ChunksOf(m)) \subseteq disk}
<1>1. file = EmptyIndex /\ disk' = disk /\ LoadContentIndex
  BY DEF Start, Pristine, LoadContentIndex
<1>2. /\ DOMAIN sets' \subseteq disk
      /\ \A r \in DOMAIN sets' : sets'[r].chunks = IF r \in whole THEN ChunksOf(r) ELSE <<>>
  BY <1>1 DEF LoadContentIndex, EmptyIndex, Adopted
<1>3. \A r \in whole : Range(ChunksOf(r)) \subseteq disk
  OBVIOUS
<1>4. Range(<<>>) = {}
  BY DEF Range
<1> HIDE DEF whole
<1> QED BY <1>1, <1>2, <1>3, <1>4 DEF SetsComplete, Members

(* Every step of a node that neither fetches nor crashes.                  *)
LEMMA NextWhole ==
    ASSUME ~ MayCrash, Inv, Ledgers, DurableInv, Transfers, Pristine, SetsComplete, [Next]_vars
    PROVE  SetsComplete'
<1>1. RecordedKept
  BY NextRecorded
<1>2. ASSUME SameSets(sets', sets) PROVE SetsComplete'
  BY <1>1, <1>2, StaysWhole DEF SameSets
<1>3. CASE ~ up
  <2>1. ASSUME sets' = sets PROVE SetsComplete'
    BY <1>1, <2>1, StaysWhole
  <2> QED BY <1>3, <2>1, NextDown, StartWhole
<1>4. CASE up /\ up'
  BY <1>1, <1>2, <1>4, NextTouches, CommitWhole, PublishWhole
<1>5. up => up'
  BY NextUp DEF Crash
<1> QED BY <1>3, <1>4, <1>5 DEF Inv

(* Every set in the index has all its blobs on disk, for any number of     *)
(* pushes and publishes, failing and rolling back, that share blobs.  A    *)
(* fetch records a set before it has the chunks, and a crash can strike    *)
(* while an eviction deletes: hence the two conditions.                    *)
THEOREM SetsAreComplete ==
    ASSUME "fetch" \notin Traffic, ~ MayCrash
    PROVE  Spec => []SetsComplete
<1>1. Init => Pristine /\ SetsComplete
  BY DEF Init, Pristine, SetsComplete, EmptyIndex
<1>2. /\ Transfers /\ Inv /\ [Next]_vars => Transfers'
      /\ Pristine /\ [Next]_vars => Pristine'
  BY NextTransfers, NextPristine
<1>3. /\ Inv /\ Ledgers /\ DurableInv /\ Transfers /\ Pristine /\ SetsComplete /\ [Next]_vars
      => SetsComplete'
  BY NextWhole
<1> QED BY <1>1, <1>2, <1>3, InitTransfers, DurableInvariance, PTL DEF Spec

----------------------------------------------------------------------------
(* No orphans                                                              *)

(* A push that may yet be stored. *)
Pushing(s) == s.kind = "push" /\ s.pc \in {"reserve", "next", "put"}

(* The index does not hold the set of such a push, unless another writer   *)
(* has stored it since the offer: then with all its chunks.  A set adopted *)
(* with none would leave the blobs of the push to nobody.                  *)
Agreed ==
    \A w \in Writer : Pushing(writer[w]) /\ writer[w].root \in DOMAIN sets
                        => sets[writer[w].root].chunks = ChunksOf(writer[w].root)

(* A push goes on with the set it was offered, which the index lacked.     *)
GoesOn ==
    \A w \in Writer : Pushing(writer'[w]) =>
        \/ Pushing(writer[w]) /\ writer'[w].root = writer[w].root
        \/ writer'[w].root \notin DOMAIN sets'

(* One writer moves and the others stay.                                   *)
LEMMA BecomeGoesOn ==
    ASSUME WritersOK, NEW w \in Writer, NEW s, Become(w, s),
           Pushing(s) => \/ Pushing(writer[w]) /\ s.root = writer[w].root
                         \/ s.root \notin DOMAIN sets'
    PROVE  GoesOn
<1>1. writer'[w] = s /\ \A v \in Writer \ {w} : writer'[v] = writer[v]
  BY BecomeIs
<1> QED BY <1>1 DEF GoesOn

(* Every step.                                                             *)
LEMMA NextGoesOn ==
    ASSUME Inv, Transfers, [Next]_vars, up, up'
    PROVE  GoesOn
<1>1. WritersOK
  BY DEF Inv
<1>2. ~ Pushing(Idle)
  BY DEF Pushing, Idle
<1>3. ASSUME NEW w \in Writer, Become(w, Idle) PROVE GoesOn
  BY <1>1, <1>2, <1>3, BecomeGoesOn
<1>4. ASSUME NEW w \in Writer, NEW s, Become(w, s), s.pc \in {"fail", "release"} PROVE GoesOn
  <2>1. ~ Pushing(s)
    BY <1>4 DEF Pushing
  <2> QED BY <1>1, <1>4, <2>1, BecomeGoesOn
<1>5. ASSUME NEW w \in Writer, NEW s, Become(w, s), s.root = writer[w].root,
             s.kind = writer[w].kind, writer[w].pc \in {"reserve", "next", "put"}
      PROVE  GoesOn
  <2>1. Pushing(s) => Pushing(writer[w])
    BY <1>5 DEF Pushing
  <2> QED BY <1>1, <1>5, <2>1, BecomeGoesOn
<1>6. ASSUME NEW w \in Writer, WriterStep(w) PROVE GoesOn
  <2> DEFINE s == writer[w]
  <2>1. s \in WriterState /\ s.kind # "fetch"
    BY <1>1 DEF WritersOK, Transfers, TransferOK
  <2>2. ASSUME NEW pc \in {"fail", "release"}
        PROVE  /\ [s EXCEPT !.pc = pc].pc = pc
               /\ [s EXCEPT !.pc = pc, !.promised = 0].pc = pc
               /\ [s EXCEPT !.pc = pc, !.claims = <<>>, !.todo = <<>>].pc = pc
    BY <2>1 DEF WriterState
  <2>3. CASE \/ PushHave(w) \/ PushDecline(w) \/ PushCommit(w) \/ PushRelease(w)
             \/ PublishRecord(w) \/ PutFails(w) \/ TransferFails(w) \/ RollBack(w)
    <3>1. \/ Become(w, Idle)
          \/ Become(w, [s EXCEPT !.pc = "fail"])
          \/ Become(w, [s EXCEPT !.pc = "fail", !.promised = 0])
          \/ Become(w, [s EXCEPT !.pc = "release", !.claims = <<>>, !.todo = <<>>])
      BY <2>1, <2>3 DEF PushHave, PushDecline, PushCommit, PushRelease, PublishRecord, PutFails,
         TransferFails, RollBack
    <3> QED BY <1>3, <1>4, <2>2, <3>1
  <2>4. CASE PushAccept(w)
    <3> DEFINE t == [s EXCEPT !.pc = "next", !.todo = <<s.root>> \o ChunksOf(s.root),
                              !.promised = SetSize(s.root)]
    <3>1. Become(w, t) /\ s.pc = "reserve"
      BY <2>4 DEF PushAccept, At
    <3>2. t.root = s.root /\ t.kind = s.kind
      BY <2>1 DEF WriterState
    <3> HIDE DEF t
    <3> QED BY <1>5, <3>1, <3>2
  <2>5. CASE ClaimNext(w)
    <3> DEFINE t == [s EXCEPT !.pc = "put", !.claims = Append(@, Head(s.todo))]
    <3>1. Become(w, t) /\ s.pc = "next"
      BY <2>5 DEF ClaimNext
    <3>2. t.root = s.root /\ t.kind = s.kind
      BY <2>1 DEF WriterState
    <3> HIDE DEF t
    <3> QED BY <1>5, <3>1, <3>2
  <2>6. CASE PutNext(w)
    <3> DEFINE t == [s EXCEPT !.pc = "next", !.todo = Tail(@)]
    <3>1. Become(w, t) /\ s.pc = "put"
      BY <2>6 DEF PutNext
    <3>2. t.root = s.root /\ t.kind = s.kind
      BY <2>1 DEF WriterState
    <3> HIDE DEF t
    <3> QED BY <1>5, <3>1, <3>2
  <2>7. ~ (FetchAdmit(w) \/ FetchRecord(w) \/ FetchChunk(w) \/ FetchClose(w))
    BY <2>1 DEF FetchAdmit, FetchRecord, FetchChunk, FetchClose, At
  <2> QED BY <1>6, <2>3, <2>4, <2>5, <2>6, <2>7 DEF WriterStep
<1>7. ASSUME NEW w \in Writer, NEW r \in Wanted, PushOffer(w, r) PROVE GoesOn
  <2> DEFINE place == IF r \in DOMAIN sets THEN "touch" ELSE "reserve"
             t == [Idle EXCEPT !.kind = "push", !.root = r, !.pc = place]
  <2>1. Become(w, t) /\ sets' = sets
    BY <1>7 DEF PushOffer, indexVars
  <2> HIDE DEF place
  <2>2. t.root = r /\ t.pc = place
    BY DEF Idle
  <2> HIDE DEF t
  <2>3. Pushing(t) => t.root \notin DOMAIN sets'
    BY <2>1, <2>2 DEF Pushing, place
  <2> QED BY <1>1, <2>1, <2>3, BecomeGoesOn
<1>8. ASSUME NEW w \in Writer, NEW r \in Wanted, NEW t, Become(w, t), t.kind # "push" PROVE GoesOn
  <2>1. ~ Pushing(t)
    BY <1>8 DEF Pushing
  <2> QED BY <1>1, <1>8, <2>1, BecomeGoesOn
<1>9. ASSUME NEW w \in Writer, NEW r \in Wanted, PublishStart(w, r) \/ FetchRemote(w, r)
      PROVE  GoesOn
  <2> DEFINE t == [Idle EXCEPT !.kind = "publish", !.root = r, !.pc = "next",
                               !.todo = Append(ChunksOf(r), r)]
             u == [Idle EXCEPT !.kind = "fetch", !.root = r, !.pc = "admit"]
  <2>1. Become(w, t) \/ Become(w, u)
    BY <1>9 DEF PublishStart, FetchRemote
  <2>2. t.kind # "push" /\ u.kind # "push"
    BY DEF Idle
  <2> HIDE DEF t, u
  <2> QED BY <1>8, <2>1, <2>2
<1>10. ASSUME writer' = writer PROVE GoesOn
  BY <1>10 DEF GoesOn
<1>11. ASSUME \/ \E h \in Blob : ServeBlob(h)
              \/ FlushIndex \/ Tick \/ Start \/ UNCHANGED vars
       PROVE  writer' = writer
  BY <1>11 DEF ServeBlob, FlushIndex, Tick, Start, vars
<1>12. ~ Crash /\ \A h \in Blob : ~ StoreUnindexed(h)
  BY DEF Crash, StoreUnindexed
<1> QED BY <1>6, <1>7, <1>9, <1>10, <1>11, <1>12 DEF Next, Request

(* What a running node adds to the index, or changes in it, is a set with  *)
(* all its chunks.                                                         *)
LEMMA NextChunks ==
    ASSUME Inv, Transfers, [Next]_vars, up, up'
    PROVE  \A r \in DOMAIN sets' : \/ r \in DOMAIN sets /\ sets'[r].chunks = sets[r].chunks
                                   \/ sets'[r].chunks = ChunksOf(r)
<1>1. ASSUME NEW w \in Writer, PublishRecord(w)
      PROVE  \A r \in DOMAIN sets' : \/ r \in DOMAIN sets /\ sets'[r].chunks = sets[r].chunks
                                     \/ sets'[r].chunks = ChunksOf(r)
  BY <1>1, PublishRecordIs
<1> QED BY <1>1, CommitChunks, NextTouches DEF SameSets

(* A node that starts, or is down, has no pushes.                          *)
LEMMA NotPushing ==
    ASSUME \A w \in Writer : writer[w] = Idle, writer' = writer \/ \A w \in Writer : writer'[w] = Idle
    PROVE  Agreed'
<1>1. \A w \in Writer : ~ Pushing(writer'[w])
  BY DEF Pushing, Idle
<1> QED BY <1>1 DEF Agreed

(* Every step.                                                             *)
LEMMA NextAgreed ==
    ASSUME Inv, DownOK, Transfers, Agreed, [Next]_vars
    PROVE  Agreed'
<1>1. CASE up /\ up'
  <2> SUFFICES ASSUME NEW w \in Writer, Pushing(writer'[w]), writer'[w].root \in DOMAIN sets'
               PROVE  sets'[writer'[w].root].chunks = ChunksOf(writer'[w].root)
    BY DEF Agreed
  <2>1. Pushing(writer[w]) /\ writer'[w].root = writer[w].root
    BY <1>1, NextGoesOn DEF GoesOn
  <2> QED BY <1>1, <2>1, NextChunks DEF Agreed
<1>2. CASE up /\ ~ up'
  <2>1. Crash
    BY <1>2, NextUp
  <2>2. \A w \in Writer : ~ Pushing(writer'[w])
    BY <2>1 DEF Crash, Pushing, Idle
  <2> QED BY <2>2 DEF Agreed
<1>3. CASE ~ up
  <2>1. writer' = writer
    BY <1>3, NextDown DEF Start
  <2> QED BY <1>3, <2>1, NotPushing DEF DownOK
<1> QED BY <1>1, <1>2, <1>3 DEF Inv

(* Nobody pushes at first.                                                 *)
LEMMA InitAgreed == Init => Agreed
BY DEF Init, Agreed, EmptyIndex

(* A blob that is on disk is accounted for. *)
Accounted(h) == blobs[h] # {} \/ pending[h] > 0

(* A handle that is released leaves what it does not hold.                 *)
LEMMA ReleasedElsewhere ==
    ASSUME IndexTypeOK, NEW hashes \in Seq(Blob), NEW h \in Blob, h \notin Range(hashes),
           pending[h] > 0
    PROVE  Released(hashes)[h] > 0
<1>1. {i \in DOMAIN hashes : hashes[i] = h} = {}
  BY DEF Range
<1>2. Count(hashes, h) = 0
  BY <1>1, FS_EmptySet DEF Count
<1>3. pending[h] \in Nat
  BY DEF IndexTypeOK
<1> QED BY <1>2, <1>3 DEF Released

(* A commit: what it does not evict belongs to a set that stays, to the    *)
(* set that is stored, or to another transfer.                             *)
LEMMA CommitAccounted ==
    ASSUME Inv, Inv', Transfers, Agreed, NEW w \in Writer, PushCommit(w),
           \A h \in disk : Accounted(h), NEW h \in disk'
    PROVE  Accounted(h)'
<1>1. PICK root \in Blob, size \in Nat, hashes \in Seq(Blob), fits \in BOOLEAN :
          /\ root = writer[w].root /\ hashes = writer[w].claims
          /\ CommitHosted(root, size, ChunksOf(root), hashes, fits)
  <2>1. writer[w].claims \in Seq(Blob)
    BY DEF Inv, WritersOK, WriterState
  <2> QED BY <2>1, PushCommitIs
<1>2. IndexOK /\ IndexTypeOK
  BY DEF Inv, IndexOK
<1>3. PICK V : /\ IF fits THEN Stored(root, size, V) ELSE sets' = SetsWithout(V)
               /\ disk' = disk \ Evicted(V)
               /\ pending' = (IF fits THEN Released(hashes) ELSE pending)
  BY <1>1, <1>2, CommitIs
<1>4. h \in disk /\ h \in Blob /\ h \notin Evicted(V) /\ Accounted(h)
  BY <1>2, <1>3 DEF IndexTypeOK
<1>5. /\ blobs[h] = {r \in DOMAIN sets : h \in Members(r, sets[r].chunks)}
      /\ blobs'[h] = {r \in DOMAIN sets' : h \in Members(r, sets'[r].chunks)}
  BY <1>4 DEF Inv, IndexOK, Mirrors
<1>6. ASSUME pending[h] = 0
      PROVE  \E r \in DOMAIN sets \ V : h \in Members(r, sets[r].chunks)
  <2>1. blobs[h] # {}
    BY <1>4, <1>6 DEF Accounted
  <2>2. CASE RefsWithout(V)[h] = {}
    <3>1. PICK r \in blobs[h] : r \in V
      BY <1>4, <2>1, <2>2 DEF RefsWithout
    <3>2. h \in Members(r, sets[r].chunks)
      BY <1>5, <3>1
    <3> QED BY <1>4, <1>6, <2>2, <3>1, <3>2 DEF Evicted
  <2>3. CASE RefsWithout(V)[h] # {}
    BY <1>4, <1>5, <2>3 DEF RefsWithout
  <2> QED BY <2>2, <2>3
<1>7. DOMAIN sets \ V \subseteq DOMAIN sets' /\ \A r \in DOMAIN sets \ V : sets'[r].chunks = sets[r].chunks
  <2>1. CASE fits
    <3>1. Stored(root, size, V)
      BY <1>3, <2>1
    <3>2. /\ DOMAIN sets' = (DOMAIN sets \ V) \cup {root}
          /\ \A r \in DOMAIN sets \ V :
                /\ sets'[r].owned = sets[r].owned /\ sets'[r].chunks = sets[r].chunks
                /\ sets'[r].size = sets[r].size /\ sets'[r].storedAt = sets[r].storedAt
                /\ sets'[r].lastAccess \in {sets[r].lastAccess, now}
      BY <1>2, <3>1, StoredSets, Zenon
    <3> QED BY <3>2
  <2>2. CASE ~ fits
    BY <1>2, <1>3, <2>2, RefusedSets
  <2> QED BY <2>1, <2>2
<1>8. ASSUME pending[h] = 0 PROVE blobs'[h] # {}
  <2>1. PICK r \in DOMAIN sets \ V : h \in Members(r, sets[r].chunks)
    BY <1>6, <1>8
  <2>2. r \in DOMAIN sets' /\ h \in Members(r, sets'[r].chunks)
    BY <1>7, <2>1
  <2> QED BY <1>5, <2>2
<1>9. ASSUME pending[h] # 0, fits, h \in Range(hashes) PROVE blobs'[h] # {}
  <2>1. h \in Members(root, ChunksOf(root))
    BY <1>1, <1>9 DEF Transfers, TransferOK
  <2>2. Stored(root, size, V)
    BY <1>3, <1>9
  <2>3. root \in DOMAIN sets' /\ (root \notin DOMAIN sets \ V => sets'[root] = NewlyHosted(size, ChunksOf(root)))
    BY <1>2, <2>2, StoredSets
  <2>4. root \in DOMAIN sets => sets[root].chunks = ChunksOf(root)
    BY <1>1, PushCommitIs DEF Agreed, Pushing
  <2>5. sets'[root].chunks = ChunksOf(root)
    BY <1>7, <2>3, <2>4 DEF NewlyHosted
  <2> QED BY <1>5, <2>1, <2>3, <2>5
<1>10. ASSUME pending[h] # 0, fits, h \notin Range(hashes) PROVE pending'[h] > 0
  <2>1. pending[h] > 0
    BY <1>2, <1>4, <1>10 DEF IndexTypeOK
  <2>2. pending' = Released(hashes)
    BY <1>3, <1>10
  <2>3. Released(hashes)[h] > 0
    BY <1>2, <1>4, <1>10, <2>1, ReleasedElsewhere
  <2> QED BY <2>2, <2>3
<1>11. ASSUME pending[h] # 0, ~ fits PROVE pending'[h] > 0
  BY <1>2, <1>3, <1>4, <1>11 DEF IndexTypeOK
<1> QED BY <1>8, <1>9, <1>10, <1>11 DEF Accounted

(* A rollback deletes what nothing accounts for any more.                  *)
LEMMA DiscardAccounted ==
    ASSUME IndexOK, NEW hashes \in Seq(Blob), Discard(hashes),
           \A h \in disk : Accounted(h), NEW h \in disk'
    PROVE  Accounted(h)'
<1>1. h \in disk \ Unwanted(hashes) /\ h \in Blob /\ Accounted(h)
      /\ pending' = Released(hashes) /\ blobs' = blobs
  BY DEF Discard, IndexOK, IndexTypeOK
<1>2. Released(hashes)[h] \in Nat
  BY <1>1, ReleasedType DEF IndexOK
<1>3. CASE h \in Range(hashes)
  BY <1>1, <1>2, <1>3 DEF Unwanted, Accounted
<1>4. CASE h \notin Range(hashes)
  BY <1>1, <1>4, ReleasedElsewhere DEF Accounted, IndexOK
<1> QED BY <1>3, <1>4

(* A publish records what it wrote.                                        *)
LEMMA PublishAccounted ==
    ASSUME Inv, Inv', Transfers, NEW w \in Writer, PublishRecord(w),
           \A h \in disk : Accounted(h), NEW h \in disk'
    PROVE  Accounted(h)'
<1> DEFINE root == writer[w].root
           hashes == writer[w].claims
<1>1. /\ root \in Blob /\ hashes \in Seq(Blob)
      /\ MarkOwned(root, SetSize(root), ChunksOf(root), hashes)
      /\ Range(hashes) \subseteq Members(root, ChunksOf(root))
  BY PublishRecordIs DEF Transfers, TransferOK
<1> HIDE DEF root, hashes
<1>2. /\ disk' = disk /\ pending' = Released(hashes)
      /\ blobs' = Reference(blobs, root, ChunksOf(root))
  BY <1>1 DEF MarkOwned
<1>3. h \in Blob /\ Accounted(h) /\ IndexTypeOK
  BY <1>2 DEF Inv, IndexOK, IndexTypeOK
<1>4. h \in Members(root, ChunksOf(root)) => blobs'[h] # {}
  BY <1>2, <1>3 DEF Reference
<1>5. blobs[h] # {} => blobs'[h] # {}
  BY <1>2, <1>3 DEF Reference
<1>6. h \notin Range(hashes) /\ pending[h] > 0 => pending'[h] > 0
  BY <1>1, <1>2, <1>3, ReleasedElsewhere
<1> QED BY <1>1, <1>3, <1>4, <1>5, <1>6 DEF Accounted

(* A restart adopts every blob it finds.                                   *)
LEMMA StartAccounted ==
    ASSUME Inv, Inv', Start, NEW h \in disk'
    PROVE  Accounted(h)'
<1> DEFINE kept   == {r \in DOMAIN file : r \in disk}
           named  == UNION {Members(r, file[r].chunks) : r \in kept}
           whole  == {m \in (disk \cap DOMAIN Manifest) \ named : Range(ChunksOf(m)) \subseteq disk}
           single == disk \ (named \cup UNION {Members(m, ChunksOf(m)) : m \in whole})
<1>1. /\ sets' = [r \in kept \cup whole \cup single |->
                    IF r \in kept THEN file[r]
                    ELSE Adopted(r, IF r \in whole THEN ChunksOf(r) ELSE <<>>)]
      /\ disk' = disk
  BY DEF Start, LoadContentIndex
<1>2. h \in disk /\ h \in Blob
      /\ blobs'[h] = {r \in DOMAIN sets' : h \in Members(r, sets'[r].chunks)}
  BY <1>1 DEF Inv, IndexOK, IndexTypeOK, Mirrors
<1>3. \A m \in whole : m \notin kept
  BY DEF Members
<1>4. CASE h \in named
  <2>1. PICK r \in kept : h \in Members(r, file[r].chunks)
    BY <1>4
  <2>2. r \in DOMAIN sets' /\ sets'[r] = file[r]
    BY <1>1, <2>1
  <2> QED BY <1>2, <2>1, <2>2 DEF Accounted
<1>5. CASE h \in single
  <2>1. h \in DOMAIN sets' /\ h \in Members(h, sets'[h].chunks)
    BY <1>1, <1>5 DEF Members
  <2> QED BY <1>2, <2>1 DEF Accounted
<1>6. CASE h \notin named /\ h \notin single
  <2>1. PICK m \in whole : h \in Members(m, ChunksOf(m))
    BY <1>2, <1>6
  <2>2. m \in DOMAIN sets' /\ sets'[m] = Adopted(m, ChunksOf(m))
    BY <1>1, <1>3, <2>1
  <2>3. sets'[m].chunks = ChunksOf(m)
    BY <2>2 DEF Adopted
  <2> QED BY <1>2, <2>1, <2>2, <2>3 DEF Accounted
<1> QED BY <1>4, <1>5, <1>6

(* Every step of a node that fetches nothing.                              *)
LEMMA NextAccounted ==
    ASSUME Inv, Inv', Ledgers, Transfers, Agreed, NoOrphans, [Next]_vars
    PROVE  NoOrphans'
<1> SUFFICES ASSUME up', NEW h \in disk' PROVE Accounted(h)'
  BY DEF NoOrphans, Accounted
<1>1. IndexOK /\ WritersOK
  BY DEF Inv
<1>2. up => \A g \in disk : Accounted(g)
  BY DEF NoOrphans, Accounted
<1>3. ASSUME up, disk' = disk, blobs' = blobs, pending' = pending PROVE Accounted(h)'
  BY <1>2, <1>3 DEF Accounted
<1>4. ASSUME NEW w \in Writer, WriterStep(w) PROVE Accounted(h)'
  <2>1. ~ (FetchAdmit(w) \/ FetchRecord(w) \/ FetchChunk(w) \/ FetchClose(w))
    BY DEF Transfers, TransferOK, FetchAdmit, FetchRecord, FetchChunk, FetchClose, At
  <2>2. CASE PushCommit(w)
    BY <1>2, <2>2, PushCommitIs, CommitAccounted
  <2>3. CASE PublishRecord(w)
    BY <1>2, <2>3, PublishRecordIs, PublishAccounted
  <2>4. CASE RollBack(w)
    <3>1. up /\ writer[w].claims \in Seq(Blob) /\ Discard(writer[w].claims)
      BY <1>1, <2>4 DEF RollBack, WritersOK, WriterState
    <3> QED BY <1>1, <1>2, <3>1, DiscardAccounted
  <2>5. CASE ClaimNext(w)
    <3>1. PICK g : /\ up /\ disk' = disk /\ blobs' = blobs
                   /\ pending' = [pending EXCEPT ![g] = @ + 1]
      BY <2>5 DEF ClaimNext, Claim
    <3>2. h \in Blob /\ pending \in [Blob -> Nat]
      BY <1>1, <3>1 DEF IndexOK, IndexTypeOK
    <3>3. pending[h] > 0 => pending'[h] > 0
      BY <3>1, <3>2
    <3> QED BY <1>2, <3>1, <3>3 DEF Accounted
  <2>6. CASE PutNext(w)
    <3> DEFINE g == Head(writer[w].todo)
    <3>1. /\ up /\ disk' = disk \cup {g} /\ blobs' = blobs /\ pending' = pending
          /\ g \in Range(writer[w].claims)
      BY <1>1, <2>6 DEF PutNext, Put, WritersOK, WriterOK
    <3>2. g \in Blob
      <4>1. writer[w].claims \in Seq(Blob)
        BY <1>1 DEF WritersOK, WriterState
      <4> QED BY <3>1, <4>1 DEF Range
    <3> HIDE DEF g
    <3>3. pending[g] > 0
      BY <1>1, <3>1, <3>2, ClaimedPending DEF Ledgers, IndexOK, IndexTypeOK
    <3> QED BY <1>2, <3>1, <3>3 DEF Accounted
  <2>7. CASE \/ PushHave(w) \/ PushAccept(w) \/ PushDecline(w) \/ PushRelease(w)
             \/ PutFails(w) \/ TransferFails(w)
    <3>1. up /\ disk' = disk /\ blobs' = blobs /\ pending' = pending
      BY <2>7 DEF PushHave, PushAccept, PushDecline, PushRelease, PutFails, TransferFails, At,
         Touch, TouchSets, Reserve, Release, indexVars
    <3> QED BY <1>3, <3>1
  <2> QED BY <1>4, <2>1, <2>2, <2>3, <2>4, <2>5, <2>6, <2>7 DEF WriterStep
<1>5. ASSUME \/ \E w \in Writer : Request(w)
             \/ \E g \in Blob : ServeBlob(g)
             \/ FlushIndex \/ Tick \/ UNCHANGED vars
      PROVE  Accounted(h)'
  <2>1. up /\ disk' = disk /\ blobs' = blobs /\ pending' = pending
    BY <1>5 DEF Request, PushOffer, PublishStart, FetchRemote, At, ServeBlob, TouchBlob, TouchSets,
       FlushIndex, Flush, Tick, vars, indexVars
  <2> QED BY <1>3, <2>1
<1>6. CASE Start
  BY <1>6, StartAccounted
<1>7. ~ Crash /\ \A g \in Blob : ~ StoreUnindexed(g)
  BY DEF Crash, StoreUnindexed
<1> QED BY <1>4, <1>5, <1>6, <1>7 DEF Next

(* Nothing is left behind: with writers that fail and roll back side by    *)
(* side on shared blobs, evictions, failing writes, crashes and restarts   *)
(* on any directory, every blob on disk belongs to a set or to a transfer  *)
(* in progress.  Only a fetch can break this.                              *)
THEOREM NothingIsOrphaned ==
    ASSUME "fetch" \notin Traffic
    PROVE  Spec => []NoOrphans
<1>1. Init => NoOrphans
  BY DEF Init, NoOrphans
<1>2. /\ Transfers /\ Inv /\ [Next]_vars => Transfers'
      /\ Inv /\ DownOK /\ Transfers /\ Agreed /\ [Next]_vars => Agreed'
  BY NextTransfers, NextAgreed
<1>3. Inv /\ Inv' /\ Ledgers /\ Transfers /\ Agreed /\ NoOrphans /\ [Next]_vars => NoOrphans'
  BY NextAccounted
<1> QED BY <1>1, <1>2, <1>3, InitTransfers, InitAgreed, LedgersInvariance, PTL DEF Spec

----------------------------------------------------------------------------
(* The budget                                                              *)

(* Fewer of the sets there are, also in an index that agrees on sizes.     *)
LEMMA StoredMonotone ==
    ASSUME Inv, Finite, NEW R, R \subseteq DOMAIN sets,
           NEW index, NEW Q, Q \subseteq R, \A r \in Q : index[r].size = sets[r].size
    PROVE  /\ StoredBytes(R) \in Nat
           /\ BytesIn(index, Q) \in Nat
           /\ BytesIn(index, Q) <= StoredBytes(R)
<1>1. /\ IsFiniteSet(R) /\ StoredBytes(R) = BytesIn(sets, R) /\ StoredBytes(R) \in Nat
      /\ \A r \in R : sets[r].size \in Nat
  BY HostedFinite
<1> QED BY <1>1, BytesMonotone

(* The set that a commit stores adds its bytes to those that stay.         *)
LEMMA CommitBytes ==
    ASSUME Inv, Finite, NEW root \in Blob, NEW size \in Nat, NEW V, Stored(root, size, V),
           NEW R, R \subseteq DOMAIN sets \ V,
           NEW Q, Q \subseteq R \/ (Q \subseteq R \cup {root} /\ root \notin DOMAIN sets \ V)
    PROVE  /\ StoredBytes(R) \in Nat
           /\ BytesIn(sets', Q) \in Nat
           /\ BytesIn(sets', Q) <= StoredBytes(R) + size
<1> DEFINE new == sets'
<1>1. /\ IsFiniteSet(R) /\ StoredBytes(R) = BytesIn(sets, R) /\ StoredBytes(R) \in Nat
      /\ \A r \in R : sets[r].size \in Nat
  BY HostedFinite
<1>2. /\ root \notin DOMAIN sets \ V => new[root] = NewlyHosted(size, ChunksOf(root))
      /\ \A r \in DOMAIN sets \ V :
            /\ new[r].owned = sets[r].owned /\ new[r].chunks = sets[r].chunks
            /\ new[r].size = sets[r].size /\ new[r].storedAt = sets[r].storedAt
            /\ new[r].lastAccess \in {sets[r].lastAccess, now}
  BY StoredSets, Zenon DEF Inv
<1>3. \A r \in R : new[r].size = sets[r].size
  BY <1>2
<1> HIDE DEF new
<1>4. CASE Q \subseteq R
  <2>1. BytesIn(new, Q) <= StoredBytes(R) /\ BytesIn(new, Q) \in Nat
    BY <1>1, <1>3, <1>4, BytesMonotone
  <2> QED BY <1>1, <2>1 DEF new
<1>5. CASE Q \subseteq R \cup {root} /\ root \notin DOMAIN sets \ V
  <2>1. new[root].size = size /\ root \notin R
    BY <1>2, <1>5 DEF NewlyHosted
  <2>2. \A r \in R \cup {root} : new[r].size \in Nat
    BY <1>1, <1>3, <2>1
  <2>3. BytesIn(new, R \cup {root}) = BytesIn(new, R) + size
    BY <1>1, <2>1, <2>2, BytesAdd
  <2>4. BytesIn(new, R) = StoredBytes(R)
    BY <1>1, <1>3 DEF BytesIn, SetBytesIn
  <2>5. IsFiniteSet(R \cup {root})
    BY <1>1, FS_AddElement
  <2>6. BytesIn(new, Q) <= BytesIn(new, R \cup {root}) /\ BytesIn(new, Q) \in Nat
    BY <1>5, <2>2, <2>5, BytesMonotone
  <2> QED BY <1>1, <2>3, <2>4, <2>6 DEF new
<1> QED BY <1>4, <1>5

(* The hosted bytes after a step that touches sets, publishes, or refuses. *)
LEMMA FewerStored ==
    ASSUME Inv, Finite, HostedSets' \subseteq HostedSets,
           \A r \in HostedSets' : sets'[r].size = sets[r].size
    PROVE  /\ StoredBytes(HostedSets) \in Nat /\ StoredBytes(HostedSets)' \in Nat
           /\ StoredBytes(HostedSets)' <= StoredBytes(HostedSets)
<1> DEFINE new == sets'
           Q == HostedSets'
<1>1. HostedSets \subseteq DOMAIN sets
  BY DEF HostedSets
<1>2. \A r \in Q : new[r].size = sets[r].size
  OBVIOUS
<1>3. BytesIn(new, Q) = StoredBytes(HostedSets)'
  BY DEF BytesIn, SetBytesIn, StoredBytes
<1> HIDE DEF new, Q
<1>4. /\ StoredBytes(HostedSets) \in Nat /\ BytesIn(new, Q) \in Nat
      /\ BytesIn(new, Q) <= StoredBytes(HostedSets)
  <2>1. Q \subseteq HostedSets
    BY DEF Q
  <2> QED BY <1>1, <1>2, <2>1, StoredMonotone
<1> QED BY <1>3, <1>4

(* They keep the budget.                                                   *)
LEMMA FewerBytes ==
    ASSUME Inv, Finite, HostedSets' \subseteq HostedSets,
           \A r \in HostedSets' : sets'[r].size = sets[r].size, WithinBudget
    PROVE  WithinBudget'
<1>1. /\ StoredBytes(HostedSets) \in Nat /\ StoredBytes(HostedSets)' \in Nat
      /\ StoredBytes(HostedSets)' <= StoredBytes(HostedSets)
  BY FewerStored
<1>2. StoredBytes(HostedSets) <= HostBudget
  BY DEF WithinBudget
<1>3. StoredBytes(HostedSets)' <= HostBudget
  BY <1>1, <1>2, PolicyAssumption
<1> QED BY <1>3 DEF WithinBudget

(* A commit: the set it stores fits next to the sets that stay, or none is *)
(* added to them.                                                          *)
LEMMA CommitFitsOrNone ==
    ASSUME Inv, Finite, NEW w \in Writer, PushCommit(w)
    PROVE  \/ WithinBudget'
           \/ HostedSets' \subseteq HostedSets /\ \A r \in HostedSets' : sets'[r].size = sets[r].size
<1>1. PICK root \in Blob, size \in Nat : \E V : Committed(root, size, V)
  BY PushCommitted
<1>2. PICK V : Committed(root, size, V)
  BY <1>1
<1>3. CASE DOMAIN sets' = DOMAIN sets \ V
  BY <1>2, <1>3 DEF Committed, HostedSets
<1>4. CASE DOMAIN sets' # DOMAIN sets \ V
  <2> DEFINE R == HostedSets \ V
             Q == HostedSets'
  <2>1. /\ DOMAIN sets' = (DOMAIN sets \ V) \cup {root}
        /\ Stored(root, size, V)
        /\ Room(size, Unpromised(size), V)
        /\ \A r \in DOMAIN sets \ V : sets'[r].owned = sets[r].owned
    BY <1>2, <1>4 DEF Committed
  <2>2. R \subseteq DOMAIN sets \ V
    BY DEF HostedSets
  <2>3. Q \subseteq R \/ (Q \subseteq R \cup {root} /\ root \notin DOMAIN sets \ V)
    BY <2>1 DEF HostedSets
  <2>4. StoredBytes(HostedSets)' = BytesIn(sets', Q)
    BY DEF BytesIn, SetBytesIn, StoredBytes
  <2>5. Unpromised(size) + StoredBytes(R) + size <= HostBudget /\ Unpromised(size) \in Nat
    BY <2>1 DEF Room, Unpromised, Inv, IndexOK, IndexTypeOK
  <2> HIDE DEF R, Q
  <2>6. StoredBytes(R) \in Nat /\ BytesIn(sets', Q) \in Nat /\ BytesIn(sets', Q) <= StoredBytes(R) + size
    <3>1. Stored(root, size, V)
      BY <2>1
    <3>2. CASE Q \subseteq R
      BY <2>2, <3>1, <3>2, CommitBytes
    <3>3. CASE Q \subseteq R \cup {root} /\ root \notin DOMAIN sets \ V
      BY <2>2, <3>1, <3>3, CommitBytes
    <3> QED BY <2>3, <3>2, <3>3
  <2>7. BytesIn(sets', Q) <= HostBudget
    <3> DEFINE free == Unpromised(size)
               kept == StoredBytes(R)
               stored == BytesIn(sets', Q)
    <3>1. size \in Nat /\ HostBudget \in Nat
      BY PolicyAssumption
    <3> HIDE DEF free, kept, stored
    <3>2. free + kept + size <= HostBudget /\ free \in Nat /\ kept \in Nat /\ stored \in Nat /\ stored <= kept + size
      BY <2>5, <2>6 DEF free, kept, stored
    <3>3. stored <= HostBudget
      BY <3>1, <3>2
    <3> QED BY <3>3 DEF stored
  <2> QED BY <2>4, <2>7 DEF WithinBudget
<1> QED BY <1>3, <1>4

(* So it keeps the budget.                                                 *)
LEMMA CommitWithinBudget ==
    ASSUME Inv, Finite, NEW w \in Writer, PushCommit(w), WithinBudget
    PROVE  WithinBudget'
BY CommitFitsOrNone, FewerBytes

(* Every step of a running node.                                           *)
LEMMA NextWithinBudget ==
    ASSUME Inv, Finite, Transfers, [Next]_vars, up, up', WithinBudget
    PROVE  WithinBudget'
<1>1. ASSUME NEW w \in Writer, PublishRecord(w) PROVE WithinBudget'
  <2> DEFINE root == writer[w].root
  <2>1. /\ DOMAIN sets' = DOMAIN sets \cup {root} /\ sets'[root].owned
        /\ \A r \in DOMAIN sets \ {root} : sets'[r] = sets[r]
    BY <1>1, PublishRecordIs
  <2> HIDE DEF root
  <2>2. HostedSets' \subseteq HostedSets /\ \A r \in HostedSets' : sets'[r].size = sets[r].size
    BY <2>1 DEF HostedSets
  <2> QED BY <2>2, FewerBytes
<1>2. ASSUME SameSets(sets', sets) PROVE WithinBudget'
  <2>1. HostedSets' \subseteq HostedSets /\ \A r \in HostedSets' : sets'[r].size = sets[r].size
    BY <1>2 DEF SameSets, HostedSets
  <2> QED BY <2>1, FewerBytes
<1> QED BY <1>1, <1>2, NextTouches, CommitWithinBudget

(* A node that does not crash starts on the directory it was given. *)
Bare == ~ up => disk = {}

(* Every step of a node that does not crash.                               *)
LEMMA NextBare ==
    ASSUME ~ MayCrash, Inv, Bare, [Next]_vars
    PROVE  Bare'
<1>1. CASE up
  BY <1>1, NextUp DEF Bare, Crash
<1>2. CASE ~ up
  BY <1>2, NextDown DEF Bare, Start
<1> QED BY <1>1, <1>2 DEF Inv

(* There is nothing to adopt.                                              *)
LEMMA StartEmpty ==
    ASSUME Bare, Start
    PROVE  sets' = EmptyIndex /\ file' = EmptyIndex /\ reserved' = 0 /\ disk' = {}
<1>1. /\ DOMAIN sets' = {} /\ file' = sets' /\ reserved' = 0 /\ disk' = {}
      /\ sets' = [r \in {} |-> sets'[r]]
  BY DEF Bare, Start, LoadContentIndex, Write
<1> QED BY <1>1 DEF EmptyIndex

(* An empty index takes no room.                                           *)
LEMMA EmptyFits ==
    ASSUME sets = EmptyIndex
    PROVE  /\ HostedSets = {}
           /\ StoredBytes({}) = 0
           /\ WithinBudget
<1>1. HostedSets = {}
  BY DEF HostedSets, EmptyIndex
<1>2. StoredBytes({}) = 0
  BY FS_EmptySet DEF StoredBytes
<1> QED BY <1>1, <1>2, PolicyAssumption DEF WithinBudget

(* The same of the index that a start leaves.                              *)
LEMMA EmptyFitsNext == sets' = EmptyIndex => WithinBudget'
<1> SUFFICES ASSUME sets' = EmptyIndex PROVE WithinBudget'
  OBVIOUS
<1>1. HostedSets' = {}
  BY DEF HostedSets, EmptyIndex
<1>2. StoredBytes(HostedSets)' = 0
  BY <1>1, FS_EmptySet DEF StoredBytes
<1> QED BY <1>2, PolicyAssumption DEF WithinBudget

(* The budget is a ceiling on what the node hosts for others, with pushes  *)
(* that are promised room side by side, evictions and publishes, at any    *)
(* sizes and settings.  What a start adopts, in the directory it was given *)
(* or after a crash, is not held to it, and neither is a fetch.            *)
THEOREM BudgetIsKept ==
    ASSUME "fetch" \notin Traffic, ~ MayCrash, LegacyBlobs = {}
    PROVE  Spec => []WithinBudget
<1>1. Init => Bare /\ WithinBudget
  BY EmptyFits DEF Init, Bare
<1>2. /\ Transfers /\ Inv /\ [Next]_vars => Transfers'
      /\ Bare /\ Inv /\ [Next]_vars => Bare'
      /\ Inv /\ Finite /\ [Next]_vars => Finite'
  BY NextTransfers, NextBare, NextFinite
<1>3. ASSUME Inv, DownOK, Finite, Transfers, Bare, WithinBudget, [Next]_vars PROVE WithinBudget'
  <2>1. CASE up
    BY <1>3, <2>1, NextUp, NextWithinBudget DEF Crash
  <2>2. CASE ~ up
    <3>1. CASE Start
      BY <1>3, <3>1, StartEmpty, EmptyFitsNext
    <3>2. CASE sets' = sets
      BY <1>3, <2>2, <3>2, EmptyFitsNext DEF DownOK
    <3> QED BY <1>3, <2>2, <3>1, <3>2, NextDown
  <2> QED BY <1>3, <2>1, <2>2 DEF Inv
<1>4. Inv /\ DownOK /\ Finite /\ Transfers /\ Bare /\ WithinBudget /\ [Next]_vars => WithinBudget'
  BY <1>3
<1> QED BY <1>1, <1>2, <1>4, InitTransfers, InitFinite, LedgersInvariance, PTL DEF Spec

----------------------------------------------------------------------------
(* The budget with fetches                                                 *)

(* The bytes of the set that a writer will record without asking again.    *)
Due(s) == IF s.kind = "fetch" /\ s.pc \in {"next", "put"} THEN SetSize(s.root) ELSE 0

(* No such set is too large. *)
DueOK == \A w \in Writer : Due(writer[w]) <= MaxPushSize

(* What is due, in the form in which bytes are counted. *)
DueOf(writers) == [w \in Writer |-> [size |-> Due(writers[w])]]

Overrun ==
    StoredBytes(HostedSets) + BytesIn(DueOf(writer), Writer)
        <= HostBudget + (Cardinality(Writer) - 1) * MaxPushSize

(* What may be due.                                                        *)
LEMMA DueType ==
    ASSUME WritersOK, NEW w \in Writer
    PROVE  Due(writer[w]) \in Nat
<1> DEFINE s == writer[w]
<1>1. s.pc # "idle" => s.root \in Blob
  BY DEF WritersOK, WriterOK
<1> QED BY <1>1, SetSizeType DEF Due

(* However many others there are, each is due one set at most.             *)
LEMMA DueBound ==
    ASSUME NEW writers, NEW w \in Writer,
           \A v \in Writer \ {w} : Due(writers[v]) \in Nat /\ Due(writers[v]) <= MaxPushSize
    PROVE  /\ Cardinality(Writer) \in Nat /\ Cardinality(Writer) > 0
           /\ (Cardinality(Writer) - 1) * MaxPushSize \in Nat
           /\ BytesIn(DueOf(writers), Writer \ {w}) \in Nat
           /\ BytesIn(DueOf(writers), Writer \ {w}) <= (Cardinality(Writer) - 1) * MaxPushSize
<1> DEFINE W == Writer \ {w}
           I == 1 .. MaxPushSize
           D == SetBytesIn(DueOf(writers), W)
           n == Cardinality(Writer)
<1>1. IsFiniteSet(Writer) /\ MaxPushSize \in Nat
  BY ServiceAssumption, PolicyAssumption
<1>2. IsFiniteSet(W) /\ Cardinality(W) = n - 1 /\ n \in Nat
  BY <1>1, FS_RemoveElement, FS_CardinalityType
<1>3. n - 1 \in Nat
  BY <1>2, FS_CardinalityType
<1>4. IsFiniteSet(I) /\ Cardinality(I) = MaxPushSize
  BY <1>1, FS_Interval
<1>5. D \subseteq W \X I
  <2>1. ASSUME NEW v \in W PROVE DueOf(writers)[v].size = Due(writers[v])
    BY DEF DueOf
  <2>2. ASSUME NEW v \in W PROVE {v} \X (1 .. DueOf(writers)[v].size) \subseteq W \X I
    <3>1. 1 .. Due(writers[v]) \subseteq I
      BY <1>1
    <3> QED BY <2>1, <3>1
  <2> HIDE DEF W, I
  <2> QED BY <2>2 DEF SetBytesIn
<1> HIDE DEF W, I, D
<1>6. IsFiniteSet(W \X I) /\ Cardinality(W \X I) = Cardinality(W) * Cardinality(I)
  BY <1>2, <1>4, FS_Product
<1>7. IsFiniteSet(D) /\ Cardinality(D) \in Nat /\ Cardinality(D) <= Cardinality(W \X I)
  BY <1>5, <1>6, FS_Subset, FS_CardinalityType
<1>8. Cardinality(D) <= (n - 1) * MaxPushSize
  BY <1>2, <1>4, <1>6, <1>7
<1>9. (n - 1) * MaxPushSize \in Nat
  BY <1>1, <1>3
<1>10. BytesIn(DueOf(writers), W) = Cardinality(D)
  BY DEF BytesIn, D
<1> QED BY <1>2, <1>3, <1>7, <1>8, <1>9, <1>10 DEF W

(* What is due to one writer and to the others.                            *)
LEMMA DueSplit ==
    ASSUME NEW writers, NEW w \in Writer, \A v \in Writer : Due(writers[v]) \in Nat
    PROVE  BytesIn(DueOf(writers), Writer) = BytesIn(DueOf(writers), Writer \ {w}) + Due(writers[w])
<1> DEFINE index == DueOf(writers)
           W == Writer \ {w}
<1>1. \A v \in Writer : index[v].size = Due(writers[v])
  BY DEF DueOf
<1>2. IsFiniteSet(W) /\ w \notin W /\ W \cup {w} = Writer
  BY ServiceAssumption, FS_RemoveElement
<1> HIDE DEF index, W
<1>3. \A v \in W \cup {w} : index[v].size \in Nat
  BY <1>1, <1>2
<1>4. BytesIn(index, W \cup {w}) = BytesIn(index, W) + index[w].size
  BY <1>2, <1>3, BytesAdd
<1> QED BY <1>1, <1>2, <1>4 DEF index, W

(* One writer moves: what it is due and what is stored fit in the budget   *)
(* together, or they become no more than they were.                        *)
LEMMA StepOverrun ==
    ASSUME WritersOK, WritersOK', DueOK, Overrun, NEW w \in Writer,
           \A v \in Writer \ {w} : writer'[v] = writer[v],
           NEW old \in Nat, NEW new \in Nat,
           old = StoredBytes(HostedSets), new = StoredBytes(HostedSets)',
           Due(writer'[w]) <= MaxPushSize,
           new + Due(writer'[w]) <= HostBudget \/ new + Due(writer'[w]) <= old + Due(writer[w])
    PROVE  DueOK' /\ Overrun'
<1> DEFINE others == BytesIn(DueOf(writer), Writer \ {w})
           others2 == BytesIn(DueOf(writer'), Writer \ {w})
           most == (Cardinality(Writer) - 1) * MaxPushSize
<1>1. \A v \in Writer : Due(writer[v]) \in Nat /\ Due(writer[v]) <= MaxPushSize
  BY DueType DEF DueOK
<1>2. \A v \in Writer : Due(writer'[v]) \in Nat /\ Due(writer'[v]) <= MaxPushSize
  <2>1. ASSUME NEW v \in Writer \ {w} PROVE Due(writer'[v]) \in Nat /\ Due(writer'[v]) <= MaxPushSize
    BY <1>1
  <2>2. Due(writer'[w]) \in Nat
    <3>1. writer'[w].pc # "idle" => writer'[w].root \in Blob
      BY DEF WritersOK, WriterOK
    <3> QED BY <3>1, SetSizeType DEF Due
  <2> QED BY <2>1, <2>2
<1>3. DueOK'
  BY <1>2 DEF DueOK, Due
<1>4. others2 = others
  <2>1. ASSUME NEW v \in Writer \ {w} PROVE DueOf(writer')[v].size = DueOf(writer)[v].size
    BY DEF DueOf
  <2> QED BY <2>1 DEF BytesIn, SetBytesIn
<1>5. others \in Nat /\ most \in Nat /\ others <= most
  BY <1>1, DueBound
<1>6. BytesIn(DueOf(writer), Writer) = others + Due(writer[w])
  BY <1>1, DueSplit
<1>7. BytesIn(DueOf(writer'), Writer) = others2 + Due(writer'[w])
  BY <1>2, DueSplit
<1>8. BytesIn(DueOf(writer), Writer)' = BytesIn(DueOf(writer'), Writer)
  BY DEF BytesIn, SetBytesIn, DueOf, Due
<1>9. old + (others + Due(writer[w])) <= HostBudget + most
  BY <1>6 DEF Overrun
<1>10. Due(writer[w]) \in Nat /\ Due(writer'[w]) \in Nat /\ HostBudget \in Nat
  BY <1>1, <1>2, PolicyAssumption
<1> HIDE DEF others, others2, most
<1>11. new + (others2 + Due(writer'[w])) <= HostBudget + most
  BY <1>4, <1>5, <1>9, <1>10
<1>12. Overrun' <=> new + BytesIn(DueOf(writer), Writer)' <= HostBudget + most
  BY DEF Overrun, most
<1> QED BY <1>3, <1>7, <1>8, <1>11, <1>12

(* The bytes of what is stored, and of fewer or the same sets after a step. *)
LEMMA StoredType ==
    ASSUME Inv, Finite
    PROVE  StoredBytes(HostedSets) \in Nat
BY HostedFinite DEF HostedSets

(* The same after a step.                                                  *)
LEMMA StoredNext ==
    ASSUME Inv', Finite'
    PROVE  StoredBytes(HostedSets)' \in Nat
<1> DEFINE new == sets'
           Q == HostedSets'
<1>1. Q \subseteq DOMAIN new
  BY DEF HostedSets
<1>2. \A r \in Q : new[r].size \in Nat
  BY <1>1 DEF Inv, IndexOK, IsIndex, ContentMeta
<1>3. IsFiniteSet(Q)
  BY <1>1, FS_Subset DEF Finite
<1>4. StoredBytes(HostedSets)' = BytesIn(new, Q)
  BY DEF BytesIn, SetBytesIn, StoredBytes
<1> HIDE DEF new, Q
<1> QED BY <1>2, <1>3, <1>4, BytesFinite

(* What a writer is due never grows but by an admission.                   *)
LEMMA NextDue ==
    ASSUME WritersOK, NEW w \in Writer, WriterStep(w) \/ Request(w), ~ FetchAdmit(w)
    PROVE  /\ \A v \in Writer \ {w} : writer'[v] = writer[v]
           /\ Due(writer'[w]) \in {0, Due(writer[w])}
           /\ FetchRecord(w) => Due(writer'[w]) = 0
<1> DEFINE s == writer[w]
<1>1. s \in WriterState /\ Due(Idle) = 0
  BY DEF WritersOK, Due, Idle
<1>2. ASSUME NEW t, Become(w, t), Due(t) \in {0, Due(s)}, FetchRecord(w) => Due(t) = 0
      PROVE  /\ \A v \in Writer \ {w} : writer'[v] = writer[v]
             /\ Due(writer'[w]) \in {0, Due(writer[w])}
             /\ FetchRecord(w) => Due(writer'[w]) = 0
  BY <1>2, BecomeIs
<1>3. ASSUME NEW t, Become(w, t), t.kind = s.kind, t.root = s.root,
             t.pc \in {"next", "put"} => s.pc \in {"next", "put"}, ~ FetchRecord(w)
      PROVE  /\ Become(w, t) /\ Due(t) \in {0, Due(s)} /\ (FetchRecord(w) => Due(t) = 0)
  BY <1>3 DEF Due
<1>4. ASSUME NEW t, Become(w, t), t.kind # "fetch" \/ t.pc \notin {"next", "put"}
      PROVE  Become(w, t) /\ Due(t) \in {0, Due(s)} /\ (FetchRecord(w) => Due(t) = 0)
  BY <1>4 DEF Due
<1> DEFINE Shown == \E t : Become(w, t) /\ Due(t) \in {0, Due(s)} /\ (FetchRecord(w) => Due(t) = 0)
<1>5. ASSUME Become(w, Idle) PROVE Shown
  <2>1. Idle.pc \notin {"next", "put"}
    BY DEF Idle
  <2> QED BY <1>4, <1>5, <2>1
<1>6. CASE Request(w)
  <2>1. PICK t : Become(w, t) /\ (t.kind # "fetch" \/ t.pc \notin {"next", "put"})
    <3>1. PICK r \in Wanted : PushOffer(w, r) \/ PublishStart(w, r) \/ FetchRemote(w, r)
      BY <1>6 DEF Request
    <3>2. CASE PushOffer(w, r)
      <4> DEFINE t == [Idle EXCEPT !.kind = "push", !.root = r,
                         !.pc = IF r \in DOMAIN sets THEN "touch" ELSE "reserve"]
      <4>1. Become(w, t) /\ t.kind = "push"
        BY <3>2 DEF PushOffer, Idle
      <4> HIDE DEF t
      <4> QED BY <4>1
    <3>3. CASE PublishStart(w, r)
      <4> DEFINE t == [Idle EXCEPT !.kind = "publish", !.root = r, !.pc = "next",
                         !.todo = Append(ChunksOf(r), r)]
      <4>1. Become(w, t) /\ t.kind = "publish"
        BY <3>3 DEF PublishStart, Idle
      <4> HIDE DEF t
      <4> QED BY <4>1
    <3>4. CASE FetchRemote(w, r)
      <4> DEFINE t == [Idle EXCEPT !.kind = "fetch", !.root = r, !.pc = "admit"]
      <4>1. Become(w, t) /\ t.pc = "admit"
        BY <3>4 DEF FetchRemote, Idle
      <4> HIDE DEF t
      <4> QED BY <4>1
    <3> QED BY <3>1, <3>2, <3>3, <3>4
  <2>2. Shown
    BY <1>4, <2>1
  <2> QED BY <1>2, <2>2
<1>7. CASE PushHave(w) \/ PushDecline(w) \/ PushRelease(w) \/ PublishRecord(w) \/ FetchClose(w)
  <2>1. Become(w, Idle)
    BY <1>7 DEF PushHave, PushDecline, PushRelease, PublishRecord, FetchClose
  <2> QED BY <1>2, <1>5, <2>1
<1>8. CASE PushAccept(w) \/ PushCommit(w) \/ TransferFails(w)
  <2>1. PICK t : Become(w, t) /\ t.kind # "fetch"
    <3>1. s.kind # "fetch" /\ Idle.kind # "fetch"
      BY <1>8 DEF PushAccept, PushCommit, TransferFails, At, Idle
    <3>2. CASE PushAccept(w)
      <4> DEFINE t == [s EXCEPT !.pc = "next", !.todo = <<s.root>> \o ChunksOf(s.root),
                         !.promised = SetSize(s.root)]
      <4>1. Become(w, t) /\ t.kind = s.kind
        BY <1>1, <3>2 DEF PushAccept, WriterState
      <4> HIDE DEF t
      <4> QED BY <3>1, <4>1
    <3>3. CASE PushCommit(w)
      <4> DEFINE t == [s EXCEPT !.pc = "fail", !.promised = 0]
      <4>1. (Become(w, t) \/ Become(w, Idle)) /\ t.kind = s.kind
        BY <1>1, <3>3 DEF PushCommit, WriterState
      <4> HIDE DEF t
      <4> QED BY <3>1, <4>1
    <3>4. CASE TransferFails(w)
      <4> DEFINE t == [s EXCEPT !.pc = "fail"]
      <4>1. Become(w, t) /\ t.kind = s.kind
        BY <1>1, <3>4 DEF TransferFails, WriterState
      <4> HIDE DEF t
      <4> QED BY <3>1, <4>1
    <3> QED BY <1>8, <3>2, <3>3, <3>4
  <2>2. Shown
    BY <1>4, <2>1
  <2> QED BY <1>2, <2>2
<1>9. CASE ClaimNext(w) \/ PutNext(w) \/ PutFails(w) \/ RollBack(w) \/ FetchChunk(w)
  <2>1. ~ FetchRecord(w) \/ ClaimNext(w)
    BY <1>9 DEF ClaimNext, PutNext, PutFails, RollBack, FetchChunk, FetchRecord, At
  <2>2. ~ FetchRecord(w)
    BY <2>1 DEF ClaimNext, FetchRecord
  <2>3. ASSUME NEW t, Become(w, t), t.kind = s.kind, t.root = s.root,
               t.pc \in {"next", "put"} => s.pc \in {"next", "put"}
        PROVE  Shown
    BY <1>3, <2>2, <2>3
  <2>4. CASE ClaimNext(w)
    <3> DEFINE t == [s EXCEPT !.pc = "put", !.claims = Append(@, Head(s.todo))]
    <3>1. Become(w, t) /\ s.pc = "next"
      BY <1>1, <2>4 DEF ClaimNext, WriterState
    <3>2. t.kind = s.kind /\ t.root = s.root
      BY <1>1 DEF WriterState
    <3> HIDE DEF t
    <3> QED BY <1>2, <2>3, <3>1, <3>2
  <2>5. CASE PutNext(w)
    <3> DEFINE t == [s EXCEPT !.pc = "next", !.todo = Tail(@)]
    <3>1. Become(w, t) /\ s.pc = "put"
      BY <1>1, <2>5 DEF PutNext, WriterState
    <3>2. t.kind = s.kind /\ t.root = s.root
      BY <1>1 DEF WriterState
    <3> HIDE DEF t
    <3> QED BY <1>2, <2>3, <3>1, <3>2
  <2>6. CASE PutFails(w)
    <3> DEFINE t == [s EXCEPT !.pc = "next", !.todo = Tail(@)]
               u == [s EXCEPT !.pc = "fail"]
    <3>1. (Become(w, t) \/ Become(w, u)) /\ s.pc = "put"
      BY <1>1, <2>6 DEF PutFails, WriterState
    <3>2. t.kind = s.kind /\ t.root = s.root /\ u.kind = s.kind /\ u.root = s.root
      BY <1>1 DEF WriterState
    <3> HIDE DEF t, u
    <3> QED BY <1>2, <2>3, <3>1, <3>2
  <2>7. CASE RollBack(w)
    <3> DEFINE t == [s EXCEPT !.pc = "release", !.claims = <<>>, !.todo = <<>>]
    <3>1. Become(w, t) \/ Become(w, Idle)
      BY <2>7 DEF RollBack
    <3>2. t.kind = s.kind /\ t.root = s.root /\ t.pc = "release"
      BY <1>1 DEF WriterState
    <3> HIDE DEF t
    <3> QED BY <1>2, <1>5, <2>3, <3>1, <3>2
  <2>8. CASE FetchChunk(w)
    <3> DEFINE t == [s EXCEPT !.todo = Tail(@)]
    <3>1. Become(w, t)
      BY <2>8 DEF FetchChunk
    <3>2. t.kind = s.kind /\ t.root = s.root /\ t.pc = s.pc
      BY <1>1 DEF WriterState
    <3> HIDE DEF t
    <3> QED BY <1>2, <2>3, <3>1, <3>2
  <2> QED BY <1>9, <2>4, <2>5, <2>6, <2>7, <2>8
<1>10. CASE FetchRecord(w)
  <2> DEFINE t == [s EXCEPT !.pc = "chunks", !.claims = <<>>, !.todo = ChunksOf(s.root)]
  <2>1. Become(w, Idle) \/ Become(w, t)
    BY <1>10 DEF FetchRecord
  <2>2. t.pc = "chunks"
    BY <1>1 DEF WriterState
  <2> HIDE DEF t
  <2>3. Shown
    BY <1>4, <1>5, <2>1, <2>2
  <2> QED BY <1>2, <2>3
<1> QED BY <1>6, <1>7, <1>8, <1>9, <1>10 DEF WriterStep

(* An admission makes room for what becomes due, or nothing does.          *)
LEMMA AdmitOverrun ==
    ASSUME Inv, Inv', Finite, Finite', DueOK, Overrun, NEW w \in Writer, FetchAdmit(w)
    PROVE  DueOK' /\ Overrun'
<1> DEFINE s == writer[w]
           size == SetSize(s.root)
           old == StoredBytes(HostedSets)
           new == StoredBytes(HostedSets)'
<1>1. WritersOK /\ WritersOK' /\ IndexOK /\ s \in WriterState /\ s.root \in Blob /\ size \in Nat
  <2>1. s.pc = "admit"
    BY DEF FetchAdmit, At
  <2> QED BY <2>1, SetSizeType DEF Inv, WritersOK, WriterOK
<1>2. old \in Nat /\ new \in Nat
  BY StoredType, StoredNext
<1>3. PICK fits \in BOOLEAN, V \in EvictionPasses(size, reserved) :
         /\ fits = Fits(size, reserved, V)
         /\ sets' = SetsWithout(V)
         /\ Become(w, IF fits THEN [s EXCEPT !.pc = "next", !.todo = <<s.root>>] ELSE Idle)
  BY DEF FetchAdmit, Admit
<1>4. DOMAIN sets' = DOMAIN sets \ V /\ \A r \in DOMAIN sets \ V : sets'[r] = sets[r]
  BY <1>1, <1>3, RefusedSets
<1>5. HostedSets' = HostedSets \ V /\ \A r \in HostedSets' : sets'[r].size = sets[r].size
  BY <1>4 DEF HostedSets
<1>6. \A v \in Writer \ {w} : writer'[v] = writer[v]
  BY <1>1, <1>3, BecomeIs
<1>7. CASE fits
  <2> DEFINE t == [s EXCEPT !.pc = "next", !.todo = <<s.root>>]
  <2>1. writer'[w] = t
    BY <1>1, <1>3, <1>7, BecomeIs
  <2>2. Due(writer'[w]) \in {0, size}
    BY <1>1, <2>1 DEF Due, WriterState
  <2>3. size <= MaxPushSize /\ reserved + StoredBytes(HostedSets \ V) + size <= HostBudget
    <3>1. Fits(size, reserved, V)
      BY <1>3, <1>7
    <3> HIDE DEF size
    <3>2. ~ TooLarge(size) /\ Room(size, reserved, V)
      BY <3>1 DEF Fits
    <3> QED BY <1>1, <3>2, PolicyAssumption DEF TooLarge, Room
  <2>4. new = StoredBytes(HostedSets \ V)
    <3>1. new = BytesIn(sets', HostedSets')
      BY DEF BytesIn, SetBytesIn, StoredBytes
    <3>2. StoredBytes(HostedSets \ V) = BytesIn(sets, HostedSets')
      BY <1>5 DEF BytesIn, SetBytesIn, StoredBytes
    <3>3. BytesIn(sets', HostedSets') = BytesIn(sets, HostedSets')
      BY <1>5 DEF BytesIn, SetBytesIn
    <3> QED BY <3>1, <3>2, <3>3
  <2>5. reserved \in Nat /\ MaxPushSize \in Nat /\ HostBudget \in Nat
    BY <1>1, PolicyAssumption DEF IndexOK, IndexTypeOK
  <2>6. Due(writer'[w]) <= MaxPushSize /\ new + Due(writer'[w]) <= HostBudget
    <3> HIDE DEF new, size
    <3> QED BY <1>1, <1>2, <2>2, <2>3, <2>4, <2>5
  <2> QED BY <1>1, <1>2, <1>6, <2>6, StepOverrun
<1>8. CASE ~ fits
  <2>1. Due(writer'[w]) = 0
    <3>1. writer'[w] = Idle
      BY <1>1, <1>3, <1>8, BecomeIs
    <3> QED BY <3>1 DEF Due, Idle
  <2>2. new <= old
    BY <1>5, FewerStored
  <2>3. Due(writer'[w]) <= MaxPushSize /\ new + Due(writer'[w]) <= old + Due(writer[w])
    <3>1. Due(writer[w]) \in Nat /\ MaxPushSize \in Nat
      BY <1>1, DueType, PolicyAssumption
    <3> HIDE DEF old, new
    <3> QED BY <1>2, <2>1, <2>2, <3>1
  <2> QED BY <1>1, <1>2, <1>6, <2>3, StepOverrun
<1> QED BY <1>7, <1>8

(* A recorded fetch was due what it stores.                                *)
LEMMA RecordOverrun ==
    ASSUME Inv, Inv', Finite, Finite', DueOK, Overrun, NEW w \in Writer, FetchRecord(w)
    PROVE  DueOK' /\ Overrun'
<1> DEFINE s == writer[w]
           root == s.root
           size == SetSize(root)
           old == StoredBytes(HostedSets)
           new == StoredBytes(HostedSets)'
<1>1. WritersOK /\ WritersOK' /\ IndexOK /\ root \in Blob /\ size \in Nat
  <2>1. s.pc = "next"
    BY DEF FetchRecord, At
  <2> QED BY <2>1, SetSizeType DEF Inv, WritersOK, WriterOK
<1>2. old \in Nat /\ new \in Nat
  BY StoredType, StoredNext
<1>3. Due(writer[w]) = size
  BY DEF FetchRecord, At, Due
<1>4. AddHostedTo(sets, blobs, root, size, ChunksOf(root))
  BY DEF FetchRecord, AddHosted
<1>5. new <= old + size
  <2>1. CASE root \in DOMAIN sets
    <3>1. SameSets(sets', sets)
      BY <1>1, <1>4, <2>1, TouchedSame DEF AddHostedTo, IndexOK
    <3>2. HostedSets' \subseteq HostedSets /\ \A r \in HostedSets' : sets'[r].size = sets[r].size
      BY <3>1 DEF SameSets, HostedSets
    <3>3. new <= old
      BY <3>2, FewerStored
    <3> HIDE DEF old, new, size
    <3> QED BY <1>1, <1>2, <3>3
  <2>2. CASE root \notin DOMAIN sets
    <3> DEFINE Q == HostedSets'
    <3>1. sets' = Record(sets, root, NewlyHosted(size, ChunksOf(root)))
      BY <1>4, <2>2 DEF AddHostedTo, NewlyHosted
    <3>2. SetsWithout({}) = sets
      BY <1>1 DEF SetsWithout, Restrict, IndexOK, IsIndex
    <3>3. Stored(root, size, {})
      BY <2>2, <3>1, <3>2 DEF Stored
    <3>4. Q \subseteq HostedSets \cup {root}
      BY <3>1 DEF Record, HostedSets
    <3>5. HostedSets \subseteq DOMAIN sets \ {}
      BY DEF HostedSets
    <3>6. new = BytesIn(sets', Q)
      BY DEF BytesIn, SetBytesIn, StoredBytes
    <3> HIDE DEF Q, new, old, size
    <3>7. BytesIn(sets', Q) <= StoredBytes(HostedSets) + size
      BY <1>1, <2>2, <3>3, <3>4, <3>5, CommitBytes
    <3> QED BY <3>6, <3>7 DEF old
  <2> QED BY <2>1, <2>2
<1>6. /\ \A v \in Writer \ {w} : writer'[v] = writer[v]
      /\ Due(writer'[w]) = 0
  <2>1. WriterStep(w) /\ ~ FetchAdmit(w)
    BY DEF WriterStep, FetchRecord, FetchAdmit, At
  <2> QED BY <1>1, <2>1, NextDue
<1>7. Due(writer'[w]) <= MaxPushSize /\ new + Due(writer'[w]) <= old + Due(writer[w])
  <2> HIDE DEF old, new, size
  <2> QED BY <1>1, <1>2, <1>3, <1>5, <1>6, PolicyAssumption
<1> QED BY <1>1, <1>2, <1>6, <1>7, StepOverrun

(* A writer that stores nothing new does not add to what is due.           *)
LEMMA QuietOverrun ==
    ASSUME Inv, Inv', Finite, DueOK, Overrun, NEW w \in Writer, WriterStep(w) \/ Request(w),
           ~ FetchAdmit(w), ~ FetchRecord(w),
           HostedSets' \subseteq HostedSets, \A r \in HostedSets' : sets'[r].size = sets[r].size
    PROVE  DueOK' /\ Overrun'
<1> DEFINE old == StoredBytes(HostedSets)
           new == StoredBytes(HostedSets)'
           due == Due(writer[w])
           due2 == Due(writer'[w])
<1>1. WritersOK /\ WritersOK'
  BY DEF Inv
<1>2. old \in Nat /\ new \in Nat /\ new <= old
  BY FewerStored
<1>3. (\A v \in Writer \ {w} : writer'[v] = writer[v]) /\ due2 \in {0, due}
  BY <1>1, NextDue
<1>4. due \in Nat /\ due <= MaxPushSize /\ MaxPushSize \in Nat
  BY <1>1, DueType, PolicyAssumption DEF DueOK
<1>5. due2 <= MaxPushSize /\ new + due2 <= old + due
  <2> HIDE DEF old, new, due, due2
  <2> QED BY <1>2, <1>3, <1>4
<1> QED BY <1>1, <1>2, <1>3, <1>5, StepOverrun

(* Nor does a step of no writer.                                           *)
LEMMA NobodysOverrun ==
    ASSUME Inv, Inv', Finite, DueOK, Overrun, Writer # {}, writer' = writer,
           HostedSets' \subseteq HostedSets, \A r \in HostedSets' : sets'[r].size = sets[r].size
    PROVE  DueOK' /\ Overrun'
<1> DEFINE old == StoredBytes(HostedSets)
           new == StoredBytes(HostedSets)'
<1> PICK w \in Writer : TRUE
  OBVIOUS
<1> DEFINE due == Due(writer[w])
<1>1. WritersOK /\ WritersOK'
  BY DEF Inv
<1>2. old \in Nat /\ new \in Nat /\ new <= old
  BY FewerStored
<1>3. due \in Nat /\ due <= MaxPushSize
  BY <1>1, DueType DEF DueOK
<1>4. Due(writer'[w]) = due
  OBVIOUS
<1>5. Due(writer'[w]) <= MaxPushSize /\ new + Due(writer'[w]) <= old + due
  <2> HIDE DEF old, new, due
  <2> QED BY <1>2, <1>3, <1>4
<1> QED BY <1>1, <1>2, <1>5, StepOverrun

(* A commit that keeps the budget leaves nothing due to its writer.        *)
LEMMA CommitOverrun ==
    ASSUME Inv, Inv', Finite, Finite', DueOK, Overrun, NEW w \in Writer, PushCommit(w)
    PROVE  DueOK' /\ Overrun'
<1>1. ~ FetchAdmit(w) /\ ~ FetchRecord(w) /\ WriterStep(w) /\ writer[w].kind = "push"
  BY DEF PushCommit, FetchAdmit, FetchRecord, At, WriterStep
<1>2. CASE WithinBudget'
  <2> DEFINE old == StoredBytes(HostedSets)
             new == StoredBytes(HostedSets)'
             due2 == Due(writer'[w])
  <2>1. WritersOK /\ WritersOK'
    BY DEF Inv
  <2>2. old \in Nat /\ new \in Nat
    BY StoredType, StoredNext
  <2>3. (\A v \in Writer \ {w} : writer'[v] = writer[v]) /\ due2 = 0
    <3>1. Due(writer[w]) = 0
      BY <1>1 DEF Due
    <3> QED BY <1>1, <2>1, <3>1, NextDue
  <2>4. new <= HostBudget
    BY <1>2 DEF WithinBudget
  <2>5. due2 <= MaxPushSize /\ new + due2 <= HostBudget
    <3> HIDE DEF new, due2
    <3> QED BY <2>2, <2>3, <2>4, PolicyAssumption
  <2> QED BY <2>1, <2>2, <2>3, <2>5, StepOverrun
<1>3. CASE HostedSets' \subseteq HostedSets /\ \A r \in HostedSets' : sets'[r].size = sets[r].size
  BY <1>1, <1>3, QuietOverrun
<1> QED BY <1>2, <1>3, CommitFitsOrNone

(* A running node.                                                         *)
LEMMA NextOverrun ==
    ASSUME Inv, Inv', Finite, Finite', DueOK, Overrun, Writer # {}, [Next]_vars, up, up'
    PROVE  DueOK' /\ Overrun'
<1> DEFINE Fewer == HostedSets' \subseteq HostedSets /\ \A r \in HostedSets' : sets'[r].size = sets[r].size
<1>1. ASSUME SameSets(sets', sets) PROVE Fewer
  BY <1>1 DEF SameSets, HostedSets
<1>2. ASSUME NEW w \in Writer, PublishRecord(w) PROVE Fewer
  <2> DEFINE root == writer[w].root
  <2>1. /\ DOMAIN sets' = DOMAIN sets \cup {root} /\ sets'[root].owned
        /\ \A r \in DOMAIN sets \ {root} : sets'[r] = sets[r]
    BY <1>2, PublishRecordIs
  <2> HIDE DEF root
  <2> QED BY <2>1 DEF HostedSets
<1>3. ASSUME NEW w \in Writer, PublishRecord(w) PROVE DueOK' /\ Overrun'
  <2>1. WriterStep(w) /\ ~ FetchAdmit(w) /\ ~ FetchRecord(w)
    BY <1>3 DEF PublishRecord, FetchAdmit, FetchRecord, At, WriterStep
  <2> QED BY <1>2, <1>3, <2>1, QuietOverrun
<1>4. CASE ~ \E w \in Writer : PushCommit(w) \/ PublishRecord(w) \/ FetchAdmit(w) \/ FetchRecord(w)
  <2>1. Fewer
    BY <1>1, <1>4, OthersTouch
  <2>2. ASSUME NEW w \in Writer, WriterStep(w) \/ Request(w) PROVE DueOK' /\ Overrun'
    BY <1>4, <2>1, <2>2, QuietOverrun
  <2>3. ASSUME \/ \E h \in Blob : ServeBlob(h)
               \/ FlushIndex \/ Tick \/ UNCHANGED vars
        PROVE  writer' = writer
    BY <2>3 DEF ServeBlob, FlushIndex, Tick, vars
  <2>4. ~ Crash /\ ~ Start /\ \A h \in Blob : ~ StoreUnindexed(h)
    BY DEF Crash, Start, StoreUnindexed
  <2> HIDE DEF Fewer
  <2>5. CASE writer' = writer
    BY <2>1, <2>5, NobodysOverrun DEF Fewer
  <2> QED BY <2>2, <2>3, <2>4, <2>5 DEF Next
<1> QED BY <1>3, <1>4, CommitOverrun, AdmitOverrun, RecordOverrun

(* A process that is down is started, or nothing happens but time.         *)
LEMMA DownOverrun ==
    ASSUME Inv, Inv', Finite, DueOK, Overrun, Writer # {}, DownOK, Bare, [Next]_vars, ~ up
    PROVE  DueOK' /\ Overrun'
<1>1. HostedSets' \subseteq HostedSets /\ \A r \in HostedSets' : sets'[r].size = sets[r].size
  <2>1. CASE Start
    BY <2>1, StartEmpty DEF HostedSets, EmptyIndex
  <2>2. CASE sets' = sets
    BY <2>2 DEF HostedSets
  <2> QED BY <2>1, <2>2, NextDown
<1>2. writer' = writer
  BY NextDown DEF Start
<1> QED BY <1>1, <1>2, NobodysOverrun

(* At first nothing is stored and nothing is due.                          *)
LEMMA InitOverrun ==
    ASSUME Init, Writer # {}
    PROVE  DueOK /\ Overrun
<1> PICK w \in Writer : TRUE
  OBVIOUS
<1> DEFINE all == BytesIn(DueOf(writer), Writer)
           others == BytesIn(DueOf(writer), Writer \ {w})
           most == (Cardinality(Writer) - 1) * MaxPushSize
<1>1. \A v \in Writer : Due(writer[v]) = 0
  BY DEF Init, Due, Idle
<1>2. \A v \in Writer : Due(writer[v]) \in Nat /\ Due(writer[v]) <= MaxPushSize
  BY <1>1, PolicyAssumption
<1>3. all = others + Due(writer[w])
  BY <1>2, DueSplit
<1>4. others \in Nat /\ others <= most /\ most \in Nat
  BY <1>2, DueBound
<1>5. StoredBytes(HostedSets) = 0
  BY EmptyFits DEF Init
<1>6. StoredBytes(HostedSets) + all <= HostBudget + most
  <2> HIDE DEF all, others, most
  <2> QED BY <1>1, <1>3, <1>4, <1>5, PolicyAssumption
<1> QED BY <1>2, <1>6 DEF DueOK, Overrun

(* What is due is not yet stored.                                          *)
LEMMA OverrunImplies ==
    ASSUME Inv, Finite, DueOK, Overrun, Writer # {}
    PROVE  OverrunBounded
<1> PICK w \in Writer : TRUE
  OBVIOUS
<1> DEFINE all == BytesIn(DueOf(writer), Writer)
           others == BytesIn(DueOf(writer), Writer \ {w})
           most == (Cardinality(Writer) - 1) * MaxPushSize
<1>1. \A v \in Writer : Due(writer[v]) \in Nat /\ Due(writer[v]) <= MaxPushSize
  BY DueType DEF DueOK, Inv
<1>2. all = others + Due(writer[w])
  BY <1>1, DueSplit
<1>3. others \in Nat /\ most \in Nat
  BY <1>1, DueBound
<1>4. StoredBytes(HostedSets) \in Nat
  BY StoredType
<1>5. StoredBytes(HostedSets) + all <= HostBudget + most
  BY DEF Overrun
<1>6. StoredBytes(HostedSets) <= HostBudget + most
  <2> HIDE DEF all, others, most
  <2> QED BY <1>1, <1>2, <1>3, <1>4, <1>5, PolicyAssumption
<1> QED BY <1>6 DEF OverrunBounded

(* Fetches that run side by side exceed the budget by no more than the     *)
(* largest set there may be for each of them but one, whatever pushes,     *)
(* evictions and publishes run beside them.                                *)
THEOREM OverrunIsBounded ==
    ASSUME ~ MayCrash, LegacyBlobs = {}, Writer # {}
    PROVE  Spec => []OverrunBounded
<1>1. Init => Bare /\ DueOK /\ Overrun
  BY InitOverrun DEF Init, Bare
<1>2. /\ Bare /\ Inv /\ [Next]_vars => Bare'
      /\ Inv /\ Finite /\ [Next]_vars => Finite'
  BY NextBare, NextFinite
<1>3. ASSUME Inv, Inv', DownOK, Finite, Finite', Bare, DueOK, Overrun, [Next]_vars
      PROVE  DueOK' /\ Overrun'
  <2>1. CASE up
    BY <1>3, <2>1, NextUp, NextOverrun DEF Crash
  <2>2. CASE ~ up
    BY <1>3, <2>2, DownOverrun
  <2> QED BY <2>1, <2>2
<1>4. /\ Inv /\ Inv' /\ DownOK /\ Finite /\ Finite' /\ Bare /\ DueOK /\ Overrun /\ [Next]_vars
         => DueOK' /\ Overrun'
      /\ Inv /\ Finite /\ DueOK /\ Overrun => OverrunBounded
  BY <1>3, OverrunImplies
<1> QED BY <1>1, <1>2, <1>4, InitFinite, LedgersInvariance, PTL DEF Spec

(* A node that does one transfer at a time keeps its budget, fetches       *)
(* included.                                                               *)
THEOREM OneWriterKeepsBudget ==
    ASSUME ~ MayCrash, LegacyBlobs = {}, Cardinality(Writer) = 1
    PROVE  Spec => []WithinBudget
<1>1. Writer # {}
  BY FS_EmptySet
<1>2. OverrunBounded => WithinBudget
  <2>1. (Cardinality(Writer) - 1) * MaxPushSize = 0
    BY PolicyAssumption
  <2>2. HostBudget + 0 = HostBudget
    BY PolicyAssumption
  <2> QED BY <2>1, <2>2 DEF OverrunBounded, WithinBudget
<1> QED BY <1>1, <1>2, OverrunIsBounded, PTL

----------------------------------------------------------------------------
(* What is promised                                                        *)

(* Times in the index are in order. *)
InTime == \A r \in DOMAIN sets : sets[r].storedAt <= sets[r].lastAccess /\ sets[r].lastAccess <= now

(* The hosted sets still within their protection. *)
Young == {r \in HostedSets : now - sets[r].storedAt < EvictionProtection}

(* What is promised fits next to them. *)
YoungFit == reserved + StoredBytes(Young) <= HostBudget

(* The clock does not go back.                                             *)
LEMMA NextNow ==
    ASSUME Inv, [Next]_vars
    PROVE  now \in Nat /\ now' \in {now, now + 1}
<1>1. ASSUME NEW w \in Writer, PushCommit(w) PROVE now' = now
  BY <1>1 DEF PushCommit, CommitHosted
<1>2. ASSUME NEW w \in Writer, WriterStep(w), ~ PushCommit(w) PROVE now' = now
  BY <1>2 DEF WriterStep, PushHave, PushAccept, PushDecline, PushRelease, PublishRecord,
     ClaimNext, PutNext, PutFails, TransferFails, RollBack, FetchAdmit, FetchRecord, FetchChunk,
     FetchClose, Touch, TouchSets, Reserve, Release, MarkOwned, Claim, Put, Discard, Admit,
     AddHosted, indexVars
<1>3. ASSUME NEW w \in Writer, Request(w) PROVE now' = now
  BY <1>3 DEF Request, PushOffer, PublishStart, FetchRemote, indexVars
<1>4. ASSUME \/ \E h \in Blob : ServeBlob(h) \/ StoreUnindexed(h)
             \/ FlushIndex \/ Tick \/ Crash \/ Start \/ UNCHANGED vars
      PROVE  now' \in {now, now + 1}
  BY <1>4 DEF ServeBlob, StoreUnindexed, Put, TouchBlob, TouchSets, FlushIndex, Flush, Tick, Crash, LoseMemory,
     Start, LoadContentIndex, vars, indexVars
<1>5. now \in Nat
  BY DEF Inv, IndexOK, IndexTypeOK
<1> QED BY <1>1, <1>2, <1>3, <1>4, <1>5 DEF Next

(* The times of the sets in the index are times.                           *)
LEMMA TimesType ==
    ASSUME Inv, NEW r \in DOMAIN sets
    PROVE  sets[r].storedAt \in Nat /\ sets[r].lastAccess \in Nat
BY DEF Inv, IndexOK, IsIndex, ContentMeta

(* Every step keeps the times in order.                                    *)
LEMMA NextInTime ==
    ASSUME ~ MayCrash, Inv, DownOK, Transfers, Bare, InTime, [Next]_vars
    PROVE  InTime'
<1>1. now \in Nat /\ now' \in {now, now + 1}
  BY NextNow
<1>2. ASSUME NEW w \in Writer, PushCommit(w) PROVE InTime'
  <2>1. PICK root \in Blob, size \in Nat : \E V : Committed(root, size, V)
    BY <1>2, PushCommitted
  <2>2. PICK V :
            /\ \A r \in DOMAIN sets \ V :
                  /\ sets'[r].storedAt = sets[r].storedAt
                  /\ sets'[r].lastAccess \in {sets[r].lastAccess, now}
            /\ \/ DOMAIN sets' = DOMAIN sets \ V
               \/ /\ DOMAIN sets' = (DOMAIN sets \ V) \cup {root}
                  /\ root \notin DOMAIN sets \ V => sets'[root] = NewlyHosted(size, ChunksOf(root))
            /\ now' = now
    BY <2>1 DEF Committed
  <2>3. ASSUME NEW r \in DOMAIN sets', r \in DOMAIN sets \ V
        PROVE  sets'[r].storedAt <= sets'[r].lastAccess /\ sets'[r].lastAccess <= now'
    BY <1>1, <2>2, <2>3, TimesType DEF InTime
  <2>4. ASSUME NEW r \in DOMAIN sets', r \notin DOMAIN sets \ V
        PROVE  sets'[r].storedAt <= sets'[r].lastAccess /\ sets'[r].lastAccess <= now'
    BY <1>1, <2>2, <2>4 DEF NewlyHosted
  <2> QED BY <2>3, <2>4 DEF InTime
<1>3. ASSUME NEW w \in Writer, PublishRecord(w) PROVE InTime'
  <2> DEFINE root == writer[w].root
  <2>1. /\ DOMAIN sets' = DOMAIN sets \cup {root}
        /\ sets'[root].storedAt = IF root \in DOMAIN sets THEN sets[root].storedAt ELSE now
        /\ sets'[root].lastAccess = now
        /\ \A r \in DOMAIN sets \ {root} : sets'[r] = sets[r]
    BY <1>3, PublishRecordIs
  <2> HIDE DEF root
  <2> SUFFICES ASSUME NEW r \in DOMAIN sets'
               PROVE  sets'[r].storedAt <= sets'[r].lastAccess /\ sets'[r].lastAccess <= now'
    BY DEF InTime
  <2>2. CASE r \in DOMAIN sets
    BY <1>1, <2>1, <2>2, TimesType DEF InTime
  <2>3. CASE r \notin DOMAIN sets
    BY <1>1, <2>1, <2>3
  <2> QED BY <2>2, <2>3
<1>4. ASSUME SameSets(sets', sets) PROVE InTime'
  <2> SUFFICES ASSUME NEW r \in DOMAIN sets
               PROVE  sets'[r].storedAt <= sets'[r].lastAccess /\ sets'[r].lastAccess <= now'
    BY <1>4 DEF InTime, SameSets
  <2>1. /\ sets'[r].storedAt = sets[r].storedAt
        /\ sets'[r].lastAccess \in {sets[r].lastAccess, now}
    BY <1>4 DEF SameSets
  <2> QED BY <1>1, <2>1, TimesType DEF InTime
<1>5. CASE up /\ up'
  BY <1>2, <1>3, <1>4, <1>5, NextTouches
<1>6. ASSUME sets' = EmptyIndex PROVE InTime'
  BY <1>6 DEF InTime, EmptyIndex
<1>7. CASE ~ up
  BY <1>6, <1>7, NextDown, StartEmpty DEF DownOK
<1>8. up => up'
  BY NextUp DEF Crash
<1> QED BY <1>5, <1>7, <1>8 DEF Inv

(* A set past its expiry is also past its protection, so the sets that may *)
(* not be evicted are the young ones.                                      *)
LEMMA YoungIs ==
    ASSUME HostTTL = 0 \/ HostTTL >= EvictionProtection, Inv, InTime
    PROVE  HostedSets \ Evictable = Young
<1> SUFFICES ASSUME NEW r \in HostedSets
             PROVE  r \in Evictable <=> ~ (now - sets[r].storedAt < EvictionProtection)
  BY DEF Young, Evictable
<1>1. /\ r \in DOMAIN sets /\ now \in Nat
      /\ sets[r].storedAt <= sets[r].lastAccess
  BY DEF HostedSets, InTime, Inv, IndexOK, IndexTypeOK
<1>2. sets[r].storedAt \in Nat /\ sets[r].lastAccess \in Nat
  BY <1>1, TimesType
<1>3. Expired(r) => now - sets[r].storedAt >= EvictionProtection
  BY <1>1, <1>2, PolicyAssumption DEF Expired
<1> QED BY <1>1, <1>2, <1>3, PolicyAssumption DEF Evictable

(* Nobody is promised more than is reserved in all.                        *)
LEMMA PromisedReserved ==
    ASSUME ReservedOK, NEW w \in Writer, NEW p \in Nat, writer[w].promised = p
    PROVE  p <= reserved
<1> DEFINE P == {w} \X (1 .. p)
<1>1. P \subseteq Promises
  BY DEF Promises
<1>2. IsFiniteSet(P) /\ Cardinality(P) = p
  BY BytesOfOne
<1> HIDE DEF P
<1> QED BY <1>1, <1>2, FS_Subset DEF ReservedOK

(* A step that promises nothing and makes no set young.                    *)
LEMMA FewerPromises ==
    ASSUME Inv, Finite, YoungFit, Young' \subseteq Young,
           \A r \in Young' : sets'[r].size = sets[r].size,
           reserved' \in Nat, reserved' <= reserved
    PROVE  YoungFit'
<1> DEFINE new == sets'
           Q == Young'
<1>1. Young \subseteq DOMAIN sets
  BY DEF Young, HostedSets
<1>2. \A r \in Q : new[r].size = sets[r].size
  OBVIOUS
<1>3. BytesIn(new, Q) = StoredBytes(Young)'
  BY DEF BytesIn, SetBytesIn, StoredBytes
<1>4. Q \subseteq Young /\ reserved \in Nat
  BY DEF Inv, IndexOK, IndexTypeOK
<1> HIDE DEF new, Q
<1>5. /\ StoredBytes(Young) \in Nat /\ BytesIn(new, Q) \in Nat
      /\ BytesIn(new, Q) <= StoredBytes(Young)
  BY <1>1, <1>2, <1>4, StoredMonotone
<1> QED BY <1>3, <1>4, <1>5, PolicyAssumption DEF YoungFit

(* A promise is made if it fits.                                           *)
LEMMA AcceptYoung ==
    ASSUME HostedSets \ Evictable = Young, Inv, Finite, NEW w \in Writer, PushAccept(w)
    PROVE  YoungFit'
<1>1. PICK size \in Nat :
          /\ Room(size, reserved, Evictable) /\ reserved' = reserved + size
          /\ sets' = sets /\ now' = now
  <2>1. SetSize(writer[w].root) \in Nat
    BY SetSizeType DEF Inv, WritersOK, WriterOK, PushAccept, At
  <2> QED BY <2>1 DEF PushAccept, Reserve, Fits
<1>2. StoredBytes(Young) \in Nat /\ reserved \in Nat
  BY HostedFinite DEF Young, HostedSets, Inv, IndexOK, IndexTypeOK
<1>3. StoredBytes(Young)' = StoredBytes(Young)
  BY <1>1 DEF Young, HostedSets, StoredBytes
<1> HIDE DEF Young
<1>4. reserved + StoredBytes(Young) + size <= HostBudget
  BY <1>1 DEF Room
<1> QED BY <1>1, <1>2, <1>3, <1>4, PolicyAssumption DEF YoungFit

(* A commit puts its set in the place of the promise.                      *)
LEMMA CommitYoung ==
    ASSUME HostedSets \ Evictable = Young, Inv, Finite, ReservedOK, YoungFit,
           NEW w \in Writer, PushCommit(w)
    PROVE  YoungFit'
<1>1. PICK root \in Blob, size \in Nat :
          size = writer[w].promised /\ \E V : Committed(root, size, V)
  BY PushCommitted
<1>2. PICK V :
          /\ V \subseteq Evictable /\ reserved' = Unpromised(size) /\ now' = now
          /\ \A r \in DOMAIN sets \ V :
                /\ sets'[r].owned = sets[r].owned /\ sets'[r].size = sets[r].size
                /\ sets'[r].storedAt = sets[r].storedAt
          /\ \/ DOMAIN sets' = DOMAIN sets \ V
             \/ DOMAIN sets' = (DOMAIN sets \ V) \cup {root} /\ Stored(root, size, V)
  BY <1>1 DEF Committed
<1>3. /\ reserved \in Nat /\ size <= reserved
      /\ reserved' = reserved - size /\ reserved' \in Nat
  BY <1>1, <1>2, PromisedReserved DEF Inv, IndexOK, IndexTypeOK, Unpromised
<1>4. CASE DOMAIN sets' = DOMAIN sets \ V
  <2>1. Young' \subseteq Young /\ \A r \in Young' : sets'[r].size = sets[r].size
    BY <1>2, <1>4 DEF Young, HostedSets
  <2> QED BY <1>3, <2>1, FewerPromises
<1>5. CASE DOMAIN sets' # DOMAIN sets \ V
  <2> DEFINE Q == Young'
  <2>1. DOMAIN sets' = (DOMAIN sets \ V) \cup {root} /\ Stored(root, size, V)
    BY <1>2, <1>5
  <2>2. Young \subseteq DOMAIN sets \ V /\ Young \subseteq DOMAIN sets
    <3>1. Young \cap Evictable = {}
      OBVIOUS
    <3> QED BY <1>2, <3>1 DEF Young, HostedSets
  <2>3. Q \subseteq Young \/ (Q \subseteq Young \cup {root} /\ root \notin DOMAIN sets \ V)
    BY <1>2, <2>1 DEF Young, HostedSets
  <2>4. StoredBytes(Young)' = BytesIn(sets', Q)
    BY DEF BytesIn, SetBytesIn, StoredBytes
  <2> HIDE DEF Q
  <2>5. StoredBytes(Young) \in Nat /\ BytesIn(sets', Q) \in Nat
        /\ BytesIn(sets', Q) <= StoredBytes(Young) + size
    BY <2>1, <2>2, <2>3, CommitBytes
  <2> QED BY <1>3, <2>4, <2>5, PolicyAssumption DEF YoungFit
<1> QED BY <1>4, <1>5

(* What the other steps do to the promises.                                *)
LEMMA NextReserved ==
    ASSUME Inv, Transfers, [Next]_vars, up, up',
           ~ \E w \in Writer : PushCommit(w) \/ PushAccept(w)
    PROVE  reserved \in Nat /\ reserved' \in Nat /\ reserved' <= reserved
<1>1. reserved \in Nat
  BY DEF Inv, IndexOK, IndexTypeOK
<1>2. ASSUME NEW w \in Writer, PushRelease(w) PROVE reserved' \in Nat /\ reserved' <= reserved
  <2>1. writer[w].promised \in Nat
    BY DEF Inv, WritersOK, WriterState
  <2> QED BY <1>1, <1>2, <2>1 DEF PushRelease, Release, Unpromised
<1>3. ASSUME NEW w \in Writer, WriterStep(w), ~ PushRelease(w) PROVE reserved' = reserved
  BY <1>3 DEF WriterStep, PushHave, PushDecline, PublishRecord, ClaimNext, PutNext, PutFails,
     TransferFails, RollBack, FetchAdmit, FetchRecord, FetchChunk, FetchClose, Touch, TouchSets,
     MarkOwned, Claim, Put, Discard, Admit, AddHosted, indexVars
<1>4. ASSUME \/ \E w \in Writer : Request(w)
             \/ \E h \in Blob : ServeBlob(h)
             \/ FlushIndex \/ Tick \/ UNCHANGED vars
      PROVE  reserved' = reserved
  BY <1>4 DEF Request, PushOffer, PublishStart, FetchRemote, ServeBlob, TouchBlob, TouchSets,
     FlushIndex, Flush, Tick, vars, indexVars
<1>5. ~ Crash /\ ~ Start /\ \A h \in Blob : ~ StoreUnindexed(h)
  BY DEF Crash, Start, StoreUnindexed
<1> QED BY <1>1, <1>2, <1>3, <1>4, <1>5 DEF Next

(* Every step of a running node.                                           *)
LEMMA NextYoung ==
    ASSUME HostedSets \ Evictable = Young, Inv, Ledgers, Finite, Transfers, YoungFit,
           [Next]_vars, up, up'
    PROVE  YoungFit'
<1>1. now \in Nat /\ now' \in {now, now + 1}
  BY NextNow
<1>2. ASSUME NEW w \in Writer, PublishRecord(w) PROVE YoungFit'
  <2> DEFINE root == writer[w].root
  <2>1. /\ DOMAIN sets' = DOMAIN sets \cup {root} /\ sets'[root].owned
        /\ \A r \in DOMAIN sets \ {root} : sets'[r] = sets[r]
        /\ MarkOwned(root, SetSize(root), ChunksOf(root), writer[w].claims)
    BY <1>2, PublishRecordIs
  <2>2. reserved' = reserved /\ now' = now /\ reserved \in Nat
    BY <2>1 DEF MarkOwned, Inv, IndexOK, IndexTypeOK
  <2> HIDE DEF root
  <2>3. Young' \subseteq Young /\ \A r \in Young' : sets'[r].size = sets[r].size
    BY <2>1, <2>2 DEF Young, HostedSets
  <2> QED BY <2>2, <2>3, FewerPromises
<1>3. ASSUME SameSets(sets', sets), reserved' \in Nat, reserved' <= reserved PROVE YoungFit'
  <2>1. ASSUME NEW r \in Young'
        PROVE  r \in Young /\ sets'[r].size = sets[r].size
    <3>1. /\ r \in DOMAIN sets /\ ~ sets[r].owned
          /\ sets'[r].size = sets[r].size /\ sets'[r].storedAt = sets[r].storedAt
          /\ now' - sets[r].storedAt < EvictionProtection
      BY <1>3, <2>1 DEF Young, HostedSets, SameSets
    <3>2. sets[r].storedAt \in Nat
      BY <3>1, TimesType
    <3> QED BY <1>1, <3>1, <3>2, PolicyAssumption DEF Young, HostedSets
  <2>2. Young' \subseteq Young /\ \A r \in Young' : sets'[r].size = sets[r].size
    BY <2>1
  <2> QED BY <1>3, <2>2, FewerPromises
<1>4. ASSUME NEW w \in Writer, PushAccept(w) \/ PushCommit(w) PROVE YoungFit'
  BY <1>4, AcceptYoung, CommitYoung DEF Ledgers
<1> QED BY <1>2, <1>3, <1>4, NextTouches, NextReserved

(* A promise of an empty node.                                             *)
LEMMA EmptyYoung ==
    /\ sets = EmptyIndex /\ reserved = 0 => YoungFit
    /\ sets' = EmptyIndex /\ reserved' = 0 => YoungFit'
<1>1. ASSUME sets = EmptyIndex, reserved = 0 PROVE YoungFit
  <2>1. Young = {}
    BY <1>1 DEF Young, HostedSets, EmptyIndex
  <2>2. StoredBytes(Young) = 0
    BY <2>1, FS_EmptySet DEF StoredBytes
  <2> QED BY <1>1, <2>2, PolicyAssumption DEF YoungFit
<1>2. ASSUME sets' = EmptyIndex, reserved' = 0 PROVE YoungFit'
  <2>1. Young' = {}
    BY <1>2 DEF Young, HostedSets, EmptyIndex
  <2>2. StoredBytes(Young)' = 0
    BY <2>1, FS_EmptySet DEF StoredBytes
  <2> QED BY <1>2, <2>2, PolicyAssumption DEF YoungFit
<1> QED BY <1>1, <1>2

(* Every step of a node that neither fetches nor crashes, on a directory   *)
(* that was empty.                                                         *)
LEMMA NextPromises ==
    ASSUME HostTTL = 0 \/ HostTTL >= EvictionProtection, ~ MayCrash,
           Inv, DownOK, Ledgers, Finite, Transfers, Bare, InTime, YoungFit, [Next]_vars
    PROVE  YoungFit'
<1>1. CASE up
  <2>1. HostedSets \ Evictable = Young
    BY YoungIs
  <2> HIDE DEF Young
  <2>2. up'
    BY <1>1, NextUp DEF Crash
  <2> QED BY <1>1, <2>1, <2>2, NextYoung
<1>2. CASE ~ up
  <2>1. CASE Start
    BY <2>1, StartEmpty, EmptyYoung
  <2>2. CASE sets' = sets /\ reserved' = reserved
    <3>1. \A w \in Writer : writer[w].promised = 0
      BY <1>2 DEF DownOK, Idle
    <3>2. Promises = {}
      BY <3>1 DEF Promises
    <3>3. reserved = 0
      BY <3>2, FS_EmptySet DEF Ledgers, ReservedOK
    <3> QED BY <1>2, <2>2, <3>3, EmptyYoung DEF DownOK
  <2> QED BY <1>2, <2>1, <2>2, NextDown
<1> QED BY <1>1, <1>2 DEF Inv

(* A push that was accepted finds room, however many are in flight: what   *)
(* is promised fits next to the sets that may not be evicted.  The expiry  *)
(* must not be shorter than the protection, or a set that is read after it *)
(* has expired would be protected again.                                   *)
THEOREM PromisesAreKept ==
    ASSUME "fetch" \notin Traffic, ~ MayCrash, LegacyBlobs = {},
           HostTTL = 0 \/ HostTTL >= EvictionProtection
    PROVE  Spec => []PromisesFit
<1>1. Init => Bare /\ InTime /\ YoungFit
  BY EmptyYoung DEF Init, Bare, InTime, EmptyIndex
<1>2. /\ Transfers /\ Inv /\ [Next]_vars => Transfers'
      /\ Bare /\ Inv /\ [Next]_vars => Bare'
      /\ Inv /\ Finite /\ [Next]_vars => Finite'
      /\ Inv /\ DownOK /\ Transfers /\ Bare /\ InTime /\ [Next]_vars => InTime'
  BY NextTransfers, NextBare, NextFinite, NextInTime
<1>3. Inv /\ DownOK /\ Ledgers /\ Finite /\ Transfers /\ Bare /\ InTime /\ YoungFit /\ [Next]_vars
      => YoungFit'
  BY NextPromises
<1>4. Inv /\ InTime /\ YoungFit => PromisesFit
  BY YoungIs DEF YoungFit, PromisesFit
<1> QED BY <1>1, <1>2, <1>3, <1>4, InitTransfers, InitFinite, LedgersInvariance, PTL DEF Spec

----------------------------------------------------------------------------
(* Evictions make room                                                     *)

(* No set was used later than now or is recorded as larger than it is,     *)
(* neither in memory nor in the file.                                      *)
Within(index, time) ==
    \A r \in DOMAIN index : index[r].lastAccess <= time /\ index[r].size <= SetSize(r)

InBounds == Within(sets, now) /\ Within(file, now)

(* A set of numbers has a least one.                                       *)
LEMMA LeastOf ==
    ASSUME NEW T, T \subseteq Nat, T # {}
    PROVE  \E x \in T : \A y \in T : x <= y
<1> DEFINE R == {ss \in Nat \X Nat : ss[1] < ss[2]}
<1>1. OpToRel(<, Nat) = R
  BY DEF OpToRel
<1>2. IsWellFoundedOn(R, Nat)
  BY <1>1, NatLessThanWellFounded
<1> HIDE DEF R
<1>3. PICK x \in T : \A y \in T : ~ (<<y, x>> \in R)
  BY <1>2, WFMin
<1>4. ASSUME NEW y \in T PROVE x <= y
  <2>1. x \in Nat /\ y \in Nat /\ <<y, x>> \in Nat \X Nat
    OBVIOUS
  <2>2. ~ (<<y, x>> \in R)
    BY <1>3
  <2>3. ~ (y < x)
    BY <2>1, <2>2 DEF R
  <2> QED BY <2>1, <2>3
<1> QED BY <1>4

(* So of some sets of the index one was used last.                         *)
LEMMA LastUsed ==
    ASSUME Inv, InBounds, NEW V, V \subseteq DOMAIN sets, V # {}
    PROVE  \E last \in V : \A v \in V : sets[v].lastAccess <= sets[last].lastAccess
<1> DEFINE ages == {now - sets[v].lastAccess : v \in V}
<1>1. now \in Nat
  BY DEF Inv, IndexOK, IndexTypeOK
<1>2. \A v \in V : /\ sets[v].lastAccess \in Nat
                   /\ sets[v].lastAccess <= now
                   /\ now - sets[v].lastAccess \in Nat
  BY <1>1, TimesType DEF InBounds, Within
<1>3. ages \subseteq Nat /\ ages # {}
  BY <1>2
<1>4. PICK x \in ages : \A y \in ages : x <= y
  BY <1>3, LeastOf
<1>5. PICK last \in V : x = now - sets[last].lastAccess
  BY <1>4
<1>6. ASSUME NEW v \in V PROVE sets[v].lastAccess <= sets[last].lastAccess
  <2>1. now - sets[last].lastAccess <= now - sets[v].lastAccess
    BY <1>4, <1>5
  <2> QED BY <1>1, <1>2, <2>1
<1> QED BY <1>6

(* Victims are better the longer they were not used, expired or not.       *)
LEMMA BeforeIs ==
    ASSUME Inv, NEW r \in DOMAIN sets, NEW s \in DOMAIN sets
    PROVE  EvictedBefore(r, s) <=> sets[r].lastAccess < sets[s].lastAccess
<1>1. /\ now \in Nat /\ HostTTL \in Nat
      /\ sets[r].lastAccess \in Nat /\ sets[s].lastAccess \in Nat
  BY TimesType, PolicyAssumption DEF Inv, IndexOK, IndexTypeOK
<1>2. ASSUME sets[r].lastAccess < sets[s].lastAccess, Expired(s) PROVE Expired(r)
  BY <1>1, <1>2 DEF Expired
<1>3. ASSUME Expired(r), ~ Expired(s) PROVE sets[r].lastAccess < sets[s].lastAccess
  BY <1>1, <1>3 DEF Expired
<1> QED BY <1>2, <1>3 DEF EvictedBefore

(* What a pass that takes anything takes, and that its last victim was     *)
(* needed.                                                                 *)
LEMMA PassIsNeeded ==
    ASSUME Inv, Finite, NEW size \in Nat, NEW promised \in Nat,
           NEW V \in EvictionPasses(size, promised), V # {}
    PROVE  /\ V \subseteq Evictable /\ V \subseteq HostedSets
           /\ \A v \in V, s \in Evictable \ V : sets[v].lastAccess <= sets[s].lastAccess
           /\ StoredBytes(HostedSets \ V) \in Nat
           /\ \E last \in V :
                 /\ \A v \in V : sets[v].lastAccess <= sets[last].lastAccess
                 /\ promised + StoredBytes(HostedSets \ V) + size + sets[last].size > HostBudget
<1> DEFINE stay == HostedSets \ V
<1>1. /\ V \subseteq Evictable
      /\ \A v \in V, s \in Evictable \ V : ~ EvictedBefore(s, v)
  BY DEF EvictionPasses
<1>2. PICK last \in V : /\ \A v \in V : ~ EvictedBefore(last, v)
                        /\ ~ Room(size, promised, V \ {last})
  BY DEF EvictionPasses
<1>3. Evictable \subseteq HostedSets /\ HostedSets \subseteq DOMAIN sets
  BY DEF Evictable, HostedSets
<1>4. \A v \in V, s \in Evictable \ V : sets[v].lastAccess <= sets[s].lastAccess
  <2> SUFFICES ASSUME NEW v \in V, NEW s \in Evictable \ V
               PROVE  sets[v].lastAccess <= sets[s].lastAccess
    OBVIOUS
  <2>1. v \in DOMAIN sets /\ s \in DOMAIN sets
    BY <1>1, <1>3
  <2> QED BY <1>1, <2>1, BeforeIs, TimesType
<1>5. \A v \in V : sets[v].lastAccess <= sets[last].lastAccess
  <2> SUFFICES ASSUME NEW v \in V PROVE sets[v].lastAccess <= sets[last].lastAccess
    OBVIOUS
  <2>1. v \in DOMAIN sets /\ last \in DOMAIN sets
    BY <1>1, <1>3
  <2> QED BY <1>2, <2>1, BeforeIs, TimesType
<1>6. HostedSets \ (V \ {last}) = stay \cup {last} /\ last \notin stay
  BY <1>1, <1>2, <1>3
<1>7. stay \subseteq DOMAIN sets /\ stay \cup {last} \subseteq DOMAIN sets
  BY <1>1, <1>2, <1>3
<1> HIDE DEF stay
<1>8. /\ IsFiniteSet(stay) /\ sets[last].size \in Nat
      /\ \A r \in stay \cup {last} : sets[r].size \in Nat
      /\ StoredBytes(stay) = BytesIn(sets, stay) /\ StoredBytes(stay) \in Nat
      /\ StoredBytes(stay \cup {last}) = BytesIn(sets, stay \cup {last})
  BY <1>7, HostedFinite
<1>9. StoredBytes(stay \cup {last}) = StoredBytes(stay) + sets[last].size
  BY <1>6, <1>8, BytesAdd
<1>10. ~ (promised + StoredBytes(stay \cup {last}) + size <= HostBudget)
  BY <1>2, <1>6 DEF Room
<1>11. promised + StoredBytes(stay) + size + sets[last].size > HostBudget
  BY <1>8, <1>9, <1>10, PolicyAssumption
<1> QED BY <1>1, <1>3, <1>4, <1>5, <1>8, <1>11 DEF stay

(* The hosted bytes after a pass, and after a commit that stored root.     *)
LEMMA StoredAfter ==
    ASSUME Inv, Finite, NEW root \in Blob, NEW size \in Nat, NEW V, V \subseteq HostedSets,
           sets' = SetsWithout(V) \/ Stored(root, size, V)
    PROVE  LET stay == StoredBytes(HostedSets \ V)
           IN  /\ stay \in Nat
               /\ StoredBytes(HostedSets)' \in {stay, stay + size}
               /\ Stored(root, size, V) /\ root \notin DOMAIN sets \ V
                     => StoredBytes(HostedSets)' = stay + size
<1> DEFINE R == HostedSets \ V
           Q == HostedSets'
           new == sets'
<1>1. R \subseteq DOMAIN sets \ V /\ R \subseteq DOMAIN sets
  BY DEF HostedSets
<1>2. StoredBytes(HostedSets)' = BytesIn(new, Q)
  BY DEF StoredBytes, BytesIn, SetBytesIn
<1>3. /\ IsFiniteSet(R) /\ StoredBytes(R) = BytesIn(sets, R) /\ StoredBytes(R) \in Nat
      /\ \A r \in R : sets[r].size \in Nat
  <2> HIDE DEF R
  <2> QED BY <1>1, HostedFinite
<1>4. ASSUME DOMAIN new = DOMAIN sets \ V \/ (DOMAIN new = (DOMAIN sets \ V) \cup {root} /\ root \in DOMAIN sets \ V),
             \A r \in DOMAIN sets \ V : new[r].owned = sets[r].owned /\ new[r].size = sets[r].size
      PROVE  BytesIn(new, Q) = StoredBytes(R)
  <2>1. Q = R
    <3>1. DOMAIN new = DOMAIN sets \ V
      BY <1>4
    <3>2. Q = {r \in DOMAIN new : ~ new[r].owned}
      BY DEF HostedSets
    <3>3. R = {r \in DOMAIN sets \ V : ~ sets[r].owned}
      BY DEF HostedSets
    <3> HIDE DEF Q, R, new
    <3> QED BY <1>4, <3>1, <3>2, <3>3
  <2>2. SetBytesIn(new, R) = SetBytesIn(sets, R)
    BY <1>1, <1>4 DEF SetBytesIn
  <2> HIDE DEF R, Q, new
  <2> QED BY <1>3, <2>1, <2>2 DEF BytesIn
<1>5. ASSUME Stored(root, size, V), root \notin DOMAIN sets \ V
      PROVE  BytesIn(new, Q) = StoredBytes(R) + size
  <2>1. /\ DOMAIN new = (DOMAIN sets \ V) \cup {root}
        /\ \A r \in DOMAIN sets \ V :
              /\ new[r].owned = sets[r].owned /\ new[r].chunks = sets[r].chunks
              /\ new[r].size = sets[r].size /\ new[r].storedAt = sets[r].storedAt
              /\ new[r].lastAccess \in {sets[r].lastAccess, now}
        /\ root \notin DOMAIN sets \ V => new[root] = NewlyHosted(size, ChunksOf(root))
    BY <1>5, StoredSets DEF Inv
  <2>2. Q = R \cup {root} /\ root \notin R
    BY <1>1, <1>5, <2>1 DEF HostedSets, NewlyHosted
  <2>3. new[root].size = size
    BY <1>5, <2>1 DEF NewlyHosted
  <2>4. \A r \in R : new[r].size = sets[r].size
    BY <1>1, <2>1
  <2>5. SetBytesIn(new, R) = SetBytesIn(sets, R)
    BY <2>4 DEF SetBytesIn
  <2> HIDE DEF R, Q, new
  <2>6. \A r \in R \cup {root} : new[r].size \in Nat
    BY <1>3, <2>3, <2>4
  <2>7. BytesIn(new, R \cup {root}) = BytesIn(new, R) + new[root].size
    BY <1>3, <2>2, <2>6, BytesAdd
  <2>8. BytesIn(new, R) = StoredBytes(R)
    BY <1>3, <2>5 DEF BytesIn
  <2> QED BY <2>2, <2>3, <2>7, <2>8
<1>6. CASE sets' = SetsWithout(V) /\ ~ Stored(root, size, V)
  <2>1. DOMAIN new = DOMAIN sets \ V /\ \A r \in DOMAIN sets \ V : new[r] = sets[r]
    BY <1>6, RefusedSets DEF Inv
  <2> HIDE DEF R, Q, new
  <2>2. BytesIn(new, Q) = StoredBytes(R)
    BY <1>4, <2>1
  <2> QED BY <1>2, <1>3, <1>6, <2>2 DEF R
<1>7. CASE Stored(root, size, V) /\ root \in DOMAIN sets \ V
  <2>1. /\ DOMAIN new = (DOMAIN sets \ V) \cup {root}
        /\ \A r \in DOMAIN sets \ V :
              /\ new[r].owned = sets[r].owned /\ new[r].chunks = sets[r].chunks
              /\ new[r].size = sets[r].size /\ new[r].storedAt = sets[r].storedAt
              /\ new[r].lastAccess \in {sets[r].lastAccess, now}
    BY <1>7, StoredSets, Zenon DEF Inv
  <2> HIDE DEF R, Q, new
  <2>2. BytesIn(new, Q) = StoredBytes(R)
    BY <1>4, <1>7, <2>1
  <2> QED BY <1>2, <1>3, <1>7, <2>2 DEF R
<1>8. CASE Stored(root, size, V) /\ root \notin DOMAIN sets \ V
  <2> HIDE DEF R, Q, new
  <2> QED BY <1>2, <1>3, <1>5, <1>8 DEF R
<1> QED BY <1>6, <1>7, <1>8

(* A pass for w, and a step of w that records root or nothing after it,    *)
(* takes what is needed.                                                   *)
LEMMA TakesWhatIsNeeded ==
    ASSUME Inv, Finite, InBounds, NEW w \in Writer, NEW root \in Blob, root = writer[w].root,
           NEW promised \in Nat, NEW V \in EvictionPasses(SetSize(root), promised),
           sets' = SetsWithout(V) \/ Stored(root, SetSize(root), V),
           reserved' = promised, Lost # {}
    PROVE  LostInOrder /\ LostForRoom(StillToCome(w))
<1> DEFINE size == SetSize(root)
           stay == StoredBytes(HostedSets \ V)
           later == StoredBytes(HostedSets)'
           asked == StillToCome(w)
<1>1. size \in Nat /\ now \in Nat /\ HostBudget \in Nat
  BY SetSizeType, PolicyAssumption DEF Inv, IndexOK, IndexTypeOK
<1>2. /\ DOMAIN sets' = DOMAIN sets \ V \/ DOMAIN sets' = (DOMAIN sets \ V) \cup {root}
      /\ DOMAIN sets' # DOMAIN sets \ V => Stored(root, size, V)
      /\ \A r \in DOMAIN sets' : r \in V => r = root /\ sets'[r].lastAccess = now
  <2>1. CASE Stored(root, size, V)
    <3>1. /\ DOMAIN sets' = (DOMAIN sets \ V) \cup {root}
          /\ root \notin DOMAIN sets \ V => sets'[root] = NewlyHosted(size, ChunksOf(root))
      BY <2>1, StoredSets DEF Inv
    <3> QED BY <2>1, <3>1 DEF NewlyHosted
  <2>2. CASE sets' = SetsWithout(V) /\ ~ Stored(root, size, V)
    BY <2>2, RefusedSets DEF Inv
  <2> QED BY <2>1, <2>2
<1>3. V \subseteq HostedSets /\ HostedSets \subseteq DOMAIN sets
  BY VictimsHosted DEF HostedSets
<1>4. Lost = V \/ (Lost = V \ {root} /\ root \in V /\ root \in DOMAIN sets')
  BY <1>2, <1>3 DEF Lost
<1>5. V # {} /\ Lost \subseteq V
  BY <1>4
<1>6. /\ V \subseteq Evictable
      /\ \A v \in V, s \in Evictable \ V : sets[v].lastAccess <= sets[s].lastAccess
      /\ stay \in Nat
  BY <1>1, <1>5, PassIsNeeded
<1>7. PICK final \in V :
          /\ \A v \in V : sets[v].lastAccess <= sets[final].lastAccess
          /\ promised + stay + size + sets[final].size > HostBudget
  BY <1>1, <1>5, PassIsNeeded
<1>8. /\ later \in {stay, stay + size}
      /\ Stored(root, size, V) /\ root \notin DOMAIN sets \ V => later = stay + size
  BY <1>1, <1>3, StoredAfter
<1>9. HostedBytes' = promised + later
  BY DEF HostedBytes
<1>10. asked = IF DOMAIN sets' \subseteq DOMAIN sets THEN size ELSE 0
  BY DEF StillToCome, SetSize
<1>11. \A v \in V : sets[v].size \in Nat /\ sets[v].lastAccess \in Nat
  BY <1>3 DEF Inv, IndexOK, IsIndex, ContentMeta
<1> HIDE DEF stay, later, asked
<1>12. LostInOrder
  <2> SUFFICES ASSUME NEW v \in Lost, NEW s \in Evictable \cap DOMAIN sets', sets'[s] = sets[s]
               PROVE  sets[v].lastAccess <= sets[s].lastAccess
    BY <1>5, <1>6 DEF LostInOrder
  <2>1. CASE s \in V
    BY <1>2, <1>3, <1>5, <2>1 DEF InBounds, Within
  <2>2. CASE s \notin V
    BY <1>5, <1>6, <2>2
  <2> QED BY <2>1, <2>2
<1>13. \E last \in Lost : /\ \A v \in Lost : sets[v].lastAccess <= sets[last].lastAccess
                          /\ promised + later + asked + sets[last].size > HostBudget
  <2>1. CASE final \in Lost
    <3>1. promised + later + asked >= promised + stay + size
      <4>1. CASE DOMAIN sets' \subseteq DOMAIN sets
        BY <1>1, <1>6, <1>8, <1>10, <4>1
      <4>2. CASE ~ (DOMAIN sets' \subseteq DOMAIN sets)
        <5>1. Stored(root, size, V) /\ root \notin DOMAIN sets
          BY <1>2, <4>2
        <5> QED BY <1>1, <1>6, <1>8, <1>10, <4>2, <5>1
      <4> QED BY <4>1, <4>2
    <3>2. later \in Nat /\ asked \in Nat /\ sets[final].size \in Nat
      BY <1>1, <1>6, <1>8, <1>10, <1>11
    <3>3. promised + later + asked + sets[final].size > HostBudget
      BY <1>1, <1>6, <1>7, <3>1, <3>2
    <3> QED BY <1>5, <1>7, <2>1, <3>3
  <2>2. CASE final \notin Lost
    <3>1. final = root /\ root \in V /\ root \in DOMAIN sets' /\ root \in DOMAIN sets
      BY <1>3, <1>4, <2>2
    <3>2. Stored(root, size, V) /\ DOMAIN sets' \subseteq DOMAIN sets
      BY <1>2, <3>1
    <3>3. later = stay + size /\ asked = size
      BY <1>8, <1>10, <3>1, <3>2
    <3>4. sets[root].size <= size
      BY <3>1 DEF InBounds, Within
    <3>5. Lost \subseteq DOMAIN sets
      BY DEF Lost
    <3>6. PICK last \in Lost : \A v \in Lost : sets[v].lastAccess <= sets[last].lastAccess
      BY <3>5, LastUsed
    <3>7. promised + later + asked + sets[last].size > HostBudget
      <4>1. sets[last].size \in Nat /\ sets[root].size \in Nat
        BY <1>5, <1>11, <3>1
      <4> QED BY <1>1, <1>6, <1>7, <3>1, <3>3, <3>4, <4>1
    <3> QED BY <3>6, <3>7
  <2> QED BY <2>1, <2>2
<1>14. LostForRoom(asked)
  BY <1>9, <1>13 DEF LostForRoom
<1> QED BY <1>12, <1>14 DEF asked

(* A step of w that evicts.                                                *)
LEMMA EvictionStep ==
    ASSUME Inv, Finite, InBounds, NEW w \in Writer, PushCommit(w) \/ FetchAdmit(w), Lost # {}
    PROVE  LostInOrder /\ writer'[w] # writer[w] /\ LostForRoom(StillToCome(w))
<1> DEFINE s == writer[w]
           root == s.root
<1>1. WritersOK /\ s \in WriterState /\ IndexOK /\ reserved \in Nat
  BY DEF Inv, WritersOK, IndexOK, IndexTypeOK
<1>2. CASE PushCommit(w)
  <2>1. PICK fits \in BOOLEAN :
            /\ CommitHosted(root, SetSize(root), ChunksOf(root), s.claims, fits)
            /\ Become(w, IF fits THEN Idle ELSE [s EXCEPT !.pc = "fail", !.promised = 0])
    BY <1>2, PushCommitIs
  <2>2. root \in Blob /\ SetSize(root) \in Nat /\ s.pc = "next"
    BY <1>2, PushCommitIs
  <2>3. Unpromised(SetSize(root)) \in Nat
    BY <1>1, <2>2 DEF Unpromised
  <2>4. PICK V \in EvictionPasses(SetSize(root), Unpromised(SetSize(root))) :
            /\ IF fits THEN Stored(root, SetSize(root), V) ELSE sets' = SetsWithout(V)
            /\ reserved' = Unpromised(SetSize(root))
    <3> HIDE DEF root
    <3> QED BY <1>1, <2>1, <2>2, CommitIs
  <2>5. writer'[w] # s
    <3>1. writer'[w] = IF fits THEN Idle ELSE [s EXCEPT !.pc = "fail", !.promised = 0]
      BY <1>1, <2>1, BecomeIs
    <3>2. Idle.pc = "idle" /\ [s EXCEPT !.pc = "fail", !.promised = 0].pc = "fail"
      BY <1>1 DEF Idle, WriterState
    <3> QED BY <2>2, <3>1, <3>2
  <2> QED BY <2>2, <2>3, <2>4, <2>5, TakesWhatIsNeeded
<1>3. CASE FetchAdmit(w)
  <2>1. PICK fits \in BOOLEAN :
            /\ Admit(SetSize(root), fits)
            /\ Become(w, IF fits THEN [s EXCEPT !.pc = "next", !.todo = <<root>>] ELSE Idle)
    BY <1>3 DEF FetchAdmit
  <2>2. s.pc = "admit" /\ root \in Blob
    <3>1. At(w, "fetch", "admit")
      BY <1>3 DEF FetchAdmit
    <3> QED BY <1>1, <3>1 DEF At, WritersOK, WriterOK
  <2>3. PICK V \in EvictionPasses(SetSize(root), reserved) :
            sets' = SetsWithout(V) /\ reserved' = reserved
    BY <2>1 DEF Admit
  <2>4. writer'[w] # s
    <3>1. writer'[w] = IF fits THEN [s EXCEPT !.pc = "next", !.todo = <<root>>] ELSE Idle
      BY <1>1, <2>1, BecomeIs
    <3>2. Idle.pc = "idle" /\ [s EXCEPT !.pc = "next", !.todo = <<root>>].pc = "next"
      BY <1>1 DEF Idle, WriterState
    <3> QED BY <2>2, <3>1, <3>2
  <2> QED BY <1>1, <2>2, <2>3, <2>4, TakesWhatIsNeeded
<1> QED BY <1>2, <1>3

(* Touching a set, recording one, or leaving some out, keeps the bounds.   *)
LEMMA StaysWithin ==
    ASSUME now \in Nat, now' \in {now, now + 1}, NEW old, IsIndex(old), Within(old, now),
           NEW new,
           \A r \in DOMAIN new :
              \/ /\ r \in DOMAIN old
                 /\ new[r].size = old[r].size
                 /\ new[r].lastAccess \in {old[r].lastAccess, now}
              \/ new[r].size <= SetSize(r) /\ new[r].lastAccess = now
    PROVE  Within(new, now')
<1> SUFFICES ASSUME NEW r \in DOMAIN new
             PROVE  new[r].lastAccess <= now' /\ new[r].size <= SetSize(r)
  BY DEF Within
<1>1. CASE /\ r \in DOMAIN old
           /\ new[r].size = old[r].size
           /\ new[r].lastAccess \in {old[r].lastAccess, now}
  <2>1. old[r].lastAccess \in Nat /\ old[r].lastAccess <= now /\ old[r].size <= SetSize(r)
    BY <1>1 DEF IsIndex, ContentMeta, Within
  <2> QED BY <1>1, <2>1
<1>2. CASE new[r].size <= SetSize(r) /\ new[r].lastAccess = now
  BY <1>2
<1> QED BY <1>1, <1>2

(* Every step.                                                             *)
LEMMA NextInBounds ==
    ASSUME Inv, Inv', DownOK, InBounds, [Next]_vars
    PROVE  InBounds'
<1>1. now \in Nat /\ now' \in {now, now + 1}
  BY NextNow
<1>2. IsIndex(sets) /\ IsIndex(file) /\ Within(sets, now) /\ Within(file, now)
  BY DEF Inv, IndexOK, InBounds
<1> DEFINE Kept(new, old) ==
              \A r \in DOMAIN new :
                 \/ /\ r \in DOMAIN old
                    /\ new[r].size = old[r].size
                    /\ new[r].lastAccess \in {old[r].lastAccess, now}
                 \/ new[r].size <= SetSize(r) /\ new[r].lastAccess = now
           Good == Within(sets', now') /\ Within(file', now')
<1> SUFFICES Good
  BY DEF InBounds, Within, SetSize
<1>3. ASSUME NEW new, Kept(new, sets) \/ Kept(new, file) PROVE Within(new, now')
  BY <1>1, <1>2, <1>3, StaysWithin
<1> HIDE DEF Kept
<1>4. ASSUME NEW old, \/ SameSets(sets', old)
                      \/ sets' = old
      PROVE  Kept(sets', old)
  BY <1>4 DEF Kept, SameSets
<1>5. Kept(file, file) /\ Kept(sets, sets)
  BY DEF Kept
<1>6. ASSUME NEW V PROVE Kept(SetsWithout(V), sets)
  <2>1. DOMAIN SetsWithout(V) = DOMAIN sets \ V /\ \A r \in DOMAIN sets \ V : SetsWithout(V)[r] = sets[r]
    BY EvictOK DEF Inv, IndexOK
  <2> QED BY <2>1 DEF Kept
<1>7. \A r \in Blob : SetSize(r) \in Nat
  BY SetSizeType
<1>8. ASSUME NEW V, file' = file \/ file' = sets' \/ file' = SetsWithout(V), Kept(sets', sets)
      PROVE  Good
  BY <1>3, <1>5, <1>6, <1>8
<1>9. ASSUME NEW w \in Writer, PushCommit(w) PROVE Good
  <2> DEFINE root == writer[w].root
             size == SetSize(root)
  <2>1. PICK fits \in BOOLEAN :
            CommitHosted(root, size, ChunksOf(root), writer[w].claims, fits)
    BY <1>9, PushCommitIs
  <2>2. root \in Blob /\ size \in Nat
    BY <1>9, PushCommitIs
  <2> HIDE DEF root
  <2>3. PICK V : /\ fits \in BOOLEAN
                 /\ IF fits THEN Stored(root, size, V) ELSE sets' = SetsWithout(V)
    BY <2>1, <2>2, CommitIs DEF Inv
  <2>4. Kept(sets', sets)
    <3>1. CASE Stored(root, size, V)
      BY <2>2, <3>1, StoredKept DEF Kept, Inv
    <3> QED BY <1>6, <2>3, <3>1
  <2>5. \E U : file' = file \/ file' = sets' \/ file' = SetsWithout(U)
    <3>1. PICK U : \/ SaveCommitted(root, U)
                   \/ SaveEvicted(U)
      BY <2>1 DEF CommitHosted
    <3> QED BY <3>1 DEF SaveCommitted, SaveEvicted, Save, Write
  <2> QED BY <1>8, <2>4, <2>5
<1>10. ASSUME NEW w \in Writer, FetchAdmit(w) PROVE Good
  <2>1. PICK V : sets' = SetsWithout(V) /\ SaveEvicted(V)
    BY <1>10 DEF FetchAdmit, Admit
  <2>2. file' = file \/ file' = SetsWithout(V)
    BY <2>1 DEF SaveEvicted, Save, Write
  <2> QED BY <1>6, <1>8, <2>1, <2>2
<1>11. ASSUME NEW w \in Writer, PublishRecord(w) PROVE Good
  <2> DEFINE root == writer[w].root
  <2>1. /\ DOMAIN sets' = DOMAIN sets \cup {root}
        /\ sets'[root].size = SetSize(root) /\ sets'[root].lastAccess = now
        /\ \A r \in DOMAIN sets \ {root} : sets'[r] = sets[r]
        /\ root \in Blob
    BY <1>11, PublishRecordIs
  <2>2. Save(sets')
    BY <1>11 DEF PublishRecord, MarkOwned
  <2> HIDE DEF root
  <2>3. Kept(sets', sets)
    BY <1>7, <2>1 DEF Kept
  <2>4. file' = file \/ file' = sets'
    BY <2>2 DEF Save, Write
  <2> QED BY <1>8, <2>3, <2>4
<1>12. ASSUME NEW w \in Writer, FetchRecord(w) PROVE Good
  <2> DEFINE root == writer[w].root
  <2>1. At(w, "fetch", "next") /\ AddHosted(root, SetSize(root), ChunksOf(root), writer[w].claims)
    BY <1>12 DEF FetchRecord
  <2>2. root \in Blob
    BY <2>1 DEF At, Inv, WritersOK, WriterOK
  <2> HIDE DEF root
  <2>3. AddHostedTo(sets, blobs, root, SetSize(root), ChunksOf(root))
    BY <2>1 DEF AddHosted
  <2>4. Kept(sets', sets)
    <3>1. CASE root \in DOMAIN sets
      BY <1>2, <1>4, <2>3, <3>1, TouchedSame DEF AddHostedTo
    <3>2. CASE root \notin DOMAIN sets
      BY <1>7, <2>2, <2>3, <3>2 DEF AddHostedTo, Record, Kept
    <3> QED BY <3>1, <3>2
  <2>5. file' = file \/ file' = sets'
    BY <2>1 DEF AddHosted, Save, Write
  <2> QED BY <1>8, <2>4, <2>5
<1>13. CASE up /\ up'
  <2>1. CASE ~ \E w \in Writer : PushCommit(w) \/ PublishRecord(w) \/ FetchAdmit(w) \/ FetchRecord(w)
    BY <1>4, <1>8, <1>13, <2>1, OthersTouch, OthersFile
  <2> QED BY <1>9, <1>10, <1>11, <1>12, <2>1
<1>14. CASE up /\ ~ up'
  <2>1. Crash
    BY <1>14, NextUp
  <2>2. Within(sets', now')
    BY <2>1 DEF Crash, LoseMemory, EmptyIndex, Within
  <2>3. \E V : file' = file \/ file' = SetsWithout(V)
    BY <2>1 DEF Crash, DiesDiscarding, DiesEvicting
  <2>4. Within(file', now')
    BY <1>3, <1>5, <1>6, <2>3
  <2> QED BY <2>2, <2>4
<1>15. CASE Start
  <2>1. file' = sets'
    BY <1>15 DEF Start, LoadContentIndex, Write
  <2>2. \A r \in DOMAIN sets' : \/ r \in DOMAIN file /\ sets'[r] = file[r]
                                \/ \E chunks : r \in Blob /\ sets'[r] = Adopted(r, chunks)
    <3>1. disk \subseteq Blob
      BY DEF Inv, IndexOK, IndexTypeOK
    <3> QED BY <1>15, <3>1 DEF Start, LoadContentIndex
  <2>3. ASSUME NEW r \in Blob, NEW chunks
        PROVE  Adopted(r, chunks).size <= SetSize(r) /\ Adopted(r, chunks).lastAccess = now
    <3>1. Size[r] \in Nat /\ (r \in DOMAIN Manifest => Manifest[r].totalSize \in Nat)
      BY ContentAssumption
    <3> QED BY <3>1 DEF Adopted, SetSize
  <2>4. Kept(sets', file)
    BY <2>2, <2>3 DEF Kept
  <2> QED BY <1>3, <2>1, <2>4
<1>16. CASE ~ up /\ ~ Start
  <2>1. sets' = sets /\ file' = file
    BY <1>16, NextDown
  <2> QED BY <1>4, <1>8, <2>1
<1> QED BY <1>13, <1>14, <1>15, <1>16 DEF Inv

(* Every step that takes a set from the index.                             *)
LEMMA NextEvicts ==
    ASSUME Inv, DownOK, Finite, InBounds, [Next]_vars, up', Lost # {}
    PROVE  \E w \in Writer : /\ PushCommit(w) \/ FetchAdmit(w)
                             /\ LostInOrder
                             /\ writer'[w] # writer[w] /\ LostForRoom(StillToCome(w))
<1>1. ASSUME NEW w \in Writer, PublishRecord(w) PROVE DOMAIN sets \subseteq DOMAIN sets'
  BY <1>1 DEF PublishRecord, MarkOwned, Record
<1>2. ASSUME NEW w \in Writer, FetchRecord(w) PROVE DOMAIN sets \subseteq DOMAIN sets'
  BY <1>2 DEF FetchRecord, AddHosted, AddHostedTo, Record, Touched
<1>3. ASSUME SameSets(sets', sets) PROVE DOMAIN sets \subseteq DOMAIN sets'
  BY <1>3 DEF SameSets
<1>4. CASE up
  <2>1. PICK w \in Writer : PushCommit(w) \/ FetchAdmit(w)
    BY <1>1, <1>2, <1>3, <1>4, OthersTouch DEF Lost
  <2> QED BY <2>1, EvictionStep
<1>5. CASE ~ up
  BY <1>5 DEF DownOK, EmptyIndex, Lost
<1> QED BY <1>4, <1>5 DEF Inv

(* Hosted sets make room for others, the least recently used first, and no *)
(* more of them than the set takes, whatever else is promised, fetched or  *)
(* published beside it, also after crashes and failing writes.             *)
THEOREM EvictionIsNeeded == Spec => EvictsOnlyWhatIsNeeded
<1> DEFINE Needed == up' /\ Lost # {} =>
                        /\ LostInOrder
                        /\ \E w \in Writer : writer'[w] # writer[w] /\ LostForRoom(StillToCome(w))
<1>1. Inv /\ DownOK /\ Finite /\ InBounds /\ [Next]_vars => [Needed]_vars
  BY NextEvicts
<1>2. Init => InBounds
  BY DEF Init, InBounds, Within, EmptyIndex
<1>3. Inv /\ Inv' /\ DownOK /\ InBounds /\ [Next]_vars => InBounds'
  BY NextInBounds
<1>4. Inv /\ Finite /\ [Next]_vars => Finite'
  BY NextFinite
<1>5. Spec => []Finite /\ []InBounds
  BY <1>2, <1>3, <1>4, InitFinite, LedgersInvariance, PTL DEF Spec
<1> QED BY <1>1, <1>5, LedgersInvariance, PTL DEF Spec, EvictsOnlyWhatIsNeeded

----------------------------------------------------------------------------
(* The store as others see it                                              *)

(* Two indexes that hold the same sets, whenever they were last read. *)
SameContent(i, j) ==
    /\ DOMAIN i = DOMAIN j
    /\ \A r \in DOMAIN j : i[r].owned = j[r].owned /\ i[r].chunks = j[r].chunks

(* The file is up to date but for access times. *)
Current == SameContent(file, sets)

(* A set in the index has its size. *)
Sized == \A r \in DOMAIN sets : sets[r].size = SetSize(r)

(* What the store holds is what the index records, now and after a step.   *)
LEMMA HeldNow ==
    ASSUME SetsComplete, SetsComplete', Current, Current'
    PROVE  /\ HeldIn(file) \cap OwnedIn(file) = OwnedIn(sets)
           /\ HeldIn(file) \ OwnedIn(file) = HostedSets
           /\ (HeldIn(file) \cap OwnedIn(file))' = OwnedIn(sets)'
           /\ (HeldIn(file) \ OwnedIn(file))' = HostedSets'
<1>1. HeldIn(file) = DOMAIN sets
  BY DEF HeldIn, SetsComplete, Current, SameContent
<1>2. OwnedIn(file) = OwnedIn(sets)
  BY DEF OwnedIn, Current, SameContent
<1>3. HeldIn(file)' = DOMAIN sets'
  BY DEF HeldIn, SetsComplete, Current, SameContent
<1>4. OwnedIn(file)' = OwnedIn(sets)'
  BY DEF OwnedIn, Current, SameContent
<1> QED BY <1>1, <1>2, <1>3, <1>4 DEF OwnedIn, HostedSets

(* So on a node that fetches nothing.                                      *)
LEMMA NextFile ==
    ASSUME Inv, Transfers, [Next]_vars, up, up',
           ~ \E w \in Writer : PushCommit(w) \/ PublishRecord(w)
    PROVE  file' = file \/ file' = sets'
<1>1. ASSUME NEW w \in Writer PROVE ~ FetchAdmit(w) /\ ~ FetchRecord(w)
  BY DEF Transfers, TransferOK, FetchAdmit, FetchRecord, At
<1> QED BY <1>1, OthersFile

(* Every step of a node that neither fetches nor crashes, on a directory   *)
(* that was empty.                                                         *)
LEMMA NextCurrent ==
    ASSUME ~ MayCrash, ~ IndexMayFail, Inv, DownOK, Transfers, Bare, Current, Sized, [Next]_vars
    PROVE  Current' /\ Sized'
<1>1. ASSUME NEW w \in Writer, PushCommit(w) PROVE Current' /\ Sized'
  <2>1. PICK root \in Blob, size \in Nat : size = SetSize(root) /\ \E V : Committed(root, size, V)
    BY <1>1, PushCommitted
  <2>2. PICK V :
            /\ \A r \in DOMAIN sets \ V :
                  /\ sets'[r].owned = sets[r].owned /\ sets'[r].chunks = sets[r].chunks
                  /\ sets'[r].size = sets[r].size
            /\ \/ DOMAIN sets' = DOMAIN sets \ V
               \/ /\ DOMAIN sets' = (DOMAIN sets \ V) \cup {root}
                  /\ root \notin DOMAIN sets \ V => sets'[root] = NewlyHosted(size, ChunksOf(root))
            /\ Saved(V)
    BY <2>1 DEF Committed
  <2>3. DOMAIN SetsWithout(V) = DOMAIN sets \ V /\ \A r \in DOMAIN sets \ V : SetsWithout(V)[r] = sets[r]
    BY EvictOK DEF Inv, IndexOK
  <2>4. Sized'
    <3>1. ASSUME NEW r \in DOMAIN sets' PROVE sets'[r].size = SetSize(r)
      <4>1. CASE r \in DOMAIN sets \ V
        BY <2>2, <4>1 DEF Sized
      <4>2. CASE r \notin DOMAIN sets \ V
        BY <2>1, <2>2, <3>1, <4>2 DEF NewlyHosted
      <4> QED BY <4>1, <4>2
    <3> QED BY <3>1 DEF Sized, SetSize
  <2>5. CASE file' = sets'
    BY <2>4, <2>5 DEF Current, SameContent
  <2>6. CASE DOMAIN sets' = DOMAIN sets \ V /\ file' = SetsWithout(V)
    BY <2>2, <2>3, <2>4, <2>6 DEF Current, SameContent
  <2>7. CASE DOMAIN sets' = DOMAIN sets /\ V = {} /\ file' = file
    BY <2>2, <2>4, <2>7 DEF Current, SameContent
  <2> QED BY <2>2, <2>5, <2>6, <2>7 DEF Saved
<1>2. ASSUME NEW w \in Writer, PublishRecord(w) PROVE Current' /\ Sized'
  <2>1. PICK root \in Blob :
            /\ DOMAIN sets' = DOMAIN sets \cup {root}
            /\ sets'[root].size = SetSize(root)
            /\ \A r \in DOMAIN sets \ {root} : sets'[r] = sets[r]
            /\ file' = sets'
    BY <1>2, PublishRecordIs DEF MarkOwned, Save, Write
  <2> QED BY <2>1 DEF Current, SameContent, Sized, SetSize
<1>3. ASSUME SameSets(sets', sets), file' = file \/ file' = sets' PROVE Current' /\ Sized'
  BY <1>3 DEF SameSets, Current, SameContent, Sized, SetSize
<1>4. CASE up /\ up'
  BY <1>1, <1>2, <1>3, <1>4, NextTouches, NextFile
<1>5. CASE ~ up
  <2>1. CASE Start
    BY <2>1, StartEmpty DEF Current, SameContent, Sized, EmptyIndex
  <2>2. CASE UNCHANGED <<file, sets>>
    BY <2>2 DEF Current, SameContent, Sized, SetSize
  <2> QED BY <1>5, <2>1, <2>2, NextDown
<1>6. up => up'
  BY NextUp DEF Crash
<1> QED BY <1>4, <1>5, <1>6 DEF Inv

(* What is promised to a push is there when it commits: none is refused.   *)
LEMMA CommitFits ==
    ASSUME Inv, Ledgers, Finite, Transfers, PromisesFit, NEW w \in Writer, PushCommit(w)
    PROVE  \E root \in Blob, size \in Nat : \E V :
              /\ Committed(root, size, V)
              /\ DOMAIN sets' = (DOMAIN sets \ V) \cup {root}
<1>1. PICK root \in Blob, size \in Nat :
          /\ root = writer[w].root /\ size = SetSize(root) /\ size = writer[w].promised
          /\ \E V : Committed(root, size, V)
  BY PushCommitted
<1>2. PICK V : Committed(root, size, V)
  BY <1>1
<1>3. ~ TooLarge(size)
  BY <1>1, PushCommitIs DEF Transfers, TransferOK
<1>4. Room(size, Unpromised(size), Evictable)
  <2>1. HostedSets \ Evictable \subseteq DOMAIN sets
    BY DEF HostedSets
  <2>2. StoredBytes(HostedSets \ Evictable) \in Nat
    BY <2>1, HostedFinite
  <2>3. size <= reserved /\ reserved \in Nat
    BY <1>1, PromisedReserved DEF Ledgers, Inv, IndexOK, IndexTypeOK
  <2>4. Unpromised(size) = reserved - size
    BY <2>3 DEF Unpromised
  <2> QED BY <2>2, <2>3, <2>4, PolicyAssumption DEF PromisesFit, Room
<1>5. DOMAIN sets' = (DOMAIN sets \ V) \cup {root}
  BY <1>2, <1>3, <1>4 DEF Committed, Fits
<1> QED BY <1>2, <1>5

(* A commit looks like the arrival of one set, in the place of its victims *)
LEMMA CommitHosts ==
    ASSUME Inv, Ledgers, Finite, Transfers, PromisesFit, WithinBudget', Sized',
           NEW w \in Writer, PushCommit(w)
    PROVE  \E root \in Blob, gone \in SUBSET HostedSets :
              /\ OwnedIn(sets)' = OwnedIn(sets)
              /\ HostedSets' = (HostedSets \ gone) \cup ({root} \ OwnedIn(sets))
              /\ Store!Bytes(HostedSets') <= HostBudget
<1>1. PICK root \in Blob, size \in Nat : \E V :
          /\ Committed(root, size, V)
          /\ DOMAIN sets' = (DOMAIN sets \ V) \cup {root}
  BY CommitFits
<1>2. PICK V :
          /\ V \subseteq Evictable
          /\ DOMAIN sets' = (DOMAIN sets \ V) \cup {root}
          /\ \A r \in DOMAIN sets \ V : sets'[r].owned = sets[r].owned
          /\ root \notin DOMAIN sets \ V => sets'[root] = NewlyHosted(size, ChunksOf(root))
  <2>1. PICK V : Committed(root, size, V) /\ DOMAIN sets' = (DOMAIN sets \ V) \cup {root}
    BY <1>1
  <2>2. root \notin DOMAIN sets \ V => sets'[root] = NewlyHosted(size, ChunksOf(root))
    BY <1>1, <2>1 DEF Committed, Fits, Stored, Record
  <2> QED BY <2>1, <2>2 DEF Committed
<1>3. V \in SUBSET HostedSets
  BY <1>2 DEF Evictable
<1>4. root \notin DOMAIN sets \ V => ~ sets'[root].owned
  BY <1>2 DEF NewlyHosted
<1>5. OwnedIn(sets)' = OwnedIn(sets)
  BY <1>2, <1>3, <1>4 DEF OwnedIn, HostedSets
<1>6. HostedSets' = (HostedSets \ V) \cup ({root} \ OwnedIn(sets))
  BY <1>2, <1>3, <1>4 DEF OwnedIn, HostedSets
<1>7. Store!Bytes(HostedSets') = StoredBytes(HostedSets)'
  <2>1. IndexOK'
    BY CommitHostedOK, PushCommitIs DEF Inv, WritersOK, WriterState
  <2>2. HostedSets' \subseteq Blob
    BY <2>1 DEF HostedSets, IndexOK, IsIndex
  <2> DEFINE new == sets'
             Q == HostedSets'
             bytes == [q \in Blob |-> SetSize(q)]
  <2>3. \A r \in Q : new[r].size = bytes[r]
    BY <2>2 DEF HostedSets, Sized, SetSize
  <2>4. StoredBytes(HostedSets)' = Cardinality(UNION {{r} \X (1 .. new[r].size) : r \in Q})
    BY DEF StoredBytes
  <2>5. Store!Bytes(Q) = Cardinality(UNION {{r} \X (1 .. bytes[r]) : r \in Q})
    BY DEF Store!Bytes, Store!Cardinality, Cardinality
  <2> HIDE DEF new, Q, bytes
  <2>6. UNION {{r} \X (1 .. new[r].size) : r \in Q} = UNION {{r} \X (1 .. bytes[r]) : r \in Q}
    BY <2>3
  <2> QED BY <2>4, <2>5, <2>6 DEF Q
<1> QED BY <1>1, <1>3, <1>5, <1>6, <1>7 DEF WithinBudget

(* Every step of a running node.                                           *)
LEMMA NextStore ==
    ASSUME Inv, Ledgers, Finite, Transfers, PromisesFit, WithinBudget', Sized', [Next]_vars, up, up'
    PROVE  \/ OwnedIn(sets)' = OwnedIn(sets) /\ HostedSets' = HostedSets
           \/ \E root \in Blob : /\ OwnedIn(sets)' = OwnedIn(sets) \cup {root}
                                 /\ HostedSets' = HostedSets \ {root}
           \/ \E root \in Blob, gone \in SUBSET HostedSets :
                 /\ OwnedIn(sets)' = OwnedIn(sets)
                 /\ HostedSets' = (HostedSets \ gone) \cup ({root} \ OwnedIn(sets))
                 /\ Store!Bytes(HostedSets') <= HostBudget
<1>1. ASSUME NEW w \in Writer, PublishRecord(w)
      PROVE  \E root \in Blob : /\ OwnedIn(sets)' = OwnedIn(sets) \cup {root}
                                /\ HostedSets' = HostedSets \ {root}
  <2>1. PICK root \in Blob :
            /\ DOMAIN sets' = DOMAIN sets \cup {root} /\ sets'[root].owned
            /\ \A r \in DOMAIN sets \ {root} : sets'[r] = sets[r]
    BY <1>1, PublishRecordIs
  <2>2. /\ OwnedIn(sets)' = OwnedIn(sets) \cup {root}
        /\ HostedSets' = HostedSets \ {root}
    BY <2>1 DEF OwnedIn, HostedSets
  <2> QED BY <2>2
<1>2. ASSUME SameSets(sets', sets)
      PROVE  OwnedIn(sets)' = OwnedIn(sets) /\ HostedSets' = HostedSets
  BY <1>2 DEF SameSets, OwnedIn, HostedSets
<1> QED BY <1>1, <1>2, NextTouches, CommitHosts

(* So every step is one of the store, or none at all to the outside.       *)
LEMMA StepsAreStoreSteps ==
    ASSUME ~ MayCrash, Inv, DownOK, Ledgers, Finite, Transfers, Bare, PromisesFit, WithinBudget',
           SetsComplete, SetsComplete', Current, Current', Sized', [Next]_vars
    PROVE  [Store!Next]_<<HeldIn(file) \cap OwnedIn(file), HeldIn(file) \ OwnedIn(file)>>
<1> DEFINE own  == HeldIn(file) \cap OwnedIn(file)
           host == HeldIn(file) \ OwnedIn(file)
<1>1. own = OwnedIn(sets) /\ host = HostedSets /\ own' = OwnedIn(sets)' /\ host' = HostedSets'
  BY HeldNow
<1> HIDE DEF own, host
<1>2. ASSUME NEW root \in Blob, OwnedIn(sets)' = OwnedIn(sets) \cup {root},
             HostedSets' = HostedSets \ {root}
      PROVE  Store!Next
  BY <1>1, <1>2 DEF Store!Next, Store!Publish, own, host
<1>3. ASSUME NEW root \in Blob, NEW gone \in SUBSET HostedSets, OwnedIn(sets)' = OwnedIn(sets),
             HostedSets' = (HostedSets \ gone) \cup ({root} \ OwnedIn(sets)),
             Store!Bytes(HostedSets') <= HostBudget
      PROVE  Store!Next
  <2>1. gone \in SUBSET host /\ own' = own /\ host' = (host \ gone) \cup ({root} \ own)
        /\ Store!Bytes(host') <= HostBudget
    BY <1>1, <1>3
  <2>2. Store!Host(root, gone)
    BY <2>1 DEF Store!Host, own, host
  <2> QED BY <2>1, <2>2 DEF Store!Next, host
<1>4. ASSUME OwnedIn(sets)' = OwnedIn(sets), HostedSets' = HostedSets
      PROVE  UNCHANGED <<own, host>>
  BY <1>1, <1>4
<1>5. CASE up
  BY <1>2, <1>3, <1>4, <1>5, NextUp, NextStore DEF Crash, own, host
<1>6. CASE ~ up
  <2>1. sets' = sets
    BY <1>6, NextDown, StartEmpty DEF DownOK
  <2>2. OwnedIn(sets)' = OwnedIn(sets) /\ HostedSets' = HostedSets
    BY <2>1 DEF OwnedIn, HostedSets
  <2> QED BY <1>4, <2>2 DEF own, host
<1> QED BY <1>5, <1>6 DEF Inv

(* Pushes and publishes, however they interleave, fail, roll back, share   *)
(* blobs and evict, look like whole sets that arrive one at a time and     *)
(* leave only when another needs the room.                                 *)
THEOREM StoreIsImplemented ==
    ASSUME "fetch" \notin Traffic, ~ MayCrash, ~ IndexMayFail, LegacyBlobs = {},
           HostTTL = 0 \/ HostTTL >= EvictionProtection
    PROVE  Spec => ImplementsContentStore
<1> DEFINE All == /\ Inv /\ DownOK /\ Ledgers /\ DurableInv /\ Finite /\ Transfers /\ Bare
                  /\ SetsComplete /\ WithinBudget /\ PromisesFit /\ Current /\ Sized
<1>1. Init => Store!Init
  BY DEF Init, Store!Init, HeldIn, OwnedIn, EmptyIndex
<1>2. Init => Bare /\ Current /\ Sized
  BY DEF Init, Bare, Current, Sized, SameContent, EmptyIndex
<1>3. /\ Inv /\ Transfers /\ [Next]_vars => Transfers'
      /\ Inv /\ Finite /\ [Next]_vars => Finite'
      /\ Inv /\ Bare /\ [Next]_vars => Bare'
      /\ /\ Inv /\ DownOK /\ Transfers /\ Bare /\ Current /\ Sized /\ [Next]_vars
         => Current' /\ Sized'
  BY NextTransfers, NextFinite, NextBare, NextCurrent
<1>4. Spec => []All
  BY <1>2, <1>3, InitTransfers, InitFinite, DurableInvariance, SetsAreComplete, BudgetIsKept,
     PromisesAreKept, PTL DEF Spec
<1>5. All /\ All' /\ [Next]_vars
      => [Store!Next]_<<HeldIn(file) \cap OwnedIn(file), HeldIn(file) \ OwnedIn(file)>>
  BY StepsAreStoreSteps
<1> HIDE DEF All
<1> QED BY <1>1, <1>4, <1>5, PTL DEF Spec, ImplementsContentStore, Store!Spec
=============================================================================
