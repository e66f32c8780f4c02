---------------------------- MODULE ContentIndex ----------------------------
(***************************************************************************)
(* The content store of one node: the blobs on disk (BlobStore), the index *)
(* of content sets over them (ContentIndex), the writers' claims and       *)
(* reservations, the eviction policy, and the index.json sidecar.          *)
(*                                                                         *)
(* Every method of the index runs under its mutex, so each is one operator *)
(* here, an action over the index's variables that the handlers of module  *)
(* ContentService call.  BlobStore.Put runs outside the mutex and is an    *)
(* operator of its own.                                                    *)
(***************************************************************************)
EXTENDS Integers, Sequences, FiniteSets, Functions

CONSTANTS
    Blob,                \* content hashes
    Manifest,            \* the manifests among them: hash -> decoded manifest
    Size,                \* hash -> length of the blob in bytes
    HostBudget,          \* FREEDOM_CONTENT_HOST_BUDGET
    MaxPushSize,         \* FREEDOM_CONTENT_MAX_PUSH_SIZE
    HostTTL,             \* FREEDOM_CONTENT_HOST_TTL, 0 = sets never expire
    EvictionProtection,  \* evictionProtection
    IndexMayFail         \* whether index.json can fail to be read or written

(* No chunk is itself a manifest: files whose bytes are an encoded         *)
(* manifest are left out.                                                  *)
ASSUME ContentAssumption ==
    /\ DOMAIN Manifest \subseteq Blob
    /\ \A m \in DOMAIN Manifest :
          /\ Manifest[m].totalSize \in Nat
          /\ Manifest[m].chunks \in Seq(Blob \ DOMAIN Manifest)
    /\ Size \in [Blob -> Nat]

ASSUME PolicyAssumption ==
    /\ HostBudget \in Nat
    /\ MaxPushSize \in Nat
    /\ HostTTL \in Nat
    /\ EvictionProtection \in Nat

ASSUME FailureAssumption == IndexMayFail \in BOOLEAN

VARIABLES
    disk,      \* the blobs in the content directory
    file,      \* the content sets recorded in index.json
    sets,      \* the index in memory: root -> contentMeta
    blobs,     \* blob -> the roots of the sets that reference it
    pending,   \* blob -> the number of claims on it
    reserved,  \* bytes promised to transfers in flight
    dirty,     \* a set was touched since the index was last written
    now        \* the clock

indexVars == <<disk, file, sets, blobs, pending, reserved, dirty, now>>

ContentMeta == [owned : BOOLEAN, size : Nat, chunks : Seq(Blob),
                storedAt : Nat, lastAccess : Nat]

EmptyIndex == [r \in {} |-> 0]

----------------------------------------------------------------------------
(* Content sets                                                            *)

ChunksOf(root) == IF root \in DOMAIN Manifest THEN Manifest[root].chunks ELSE <<>>

SetSize(root) ==
    IF root \in DOMAIN Manifest THEN Size[root] + Manifest[root].totalSize ELSE Size[root]

(* The blobs a set consists of. *)
Members(root, chunks) == {root} \cup Range(chunks)

(* index[root] := meta *)
Record(index, root, meta) ==
    [r \in DOMAIN index \cup {root} |-> IF r = root THEN meta ELSE index[r]]

Reference(refs, root, chunks) ==
    [h \in Blob |-> IF h \in Members(root, chunks) THEN refs[h] \cup {root} ELSE refs[h]]

HostedSets == {r \in DOMAIN sets : ~ sets[r].owned}

(* The bytes of the sets in R, counted one by one: Cardinality stands for  *)
(* the loop that adds up their sizes.                                      *)
StoredBytes(R) == Cardinality(UNION {{r} \X (1 .. sets[r].size) : r \in R})

HostedBytes == reserved + StoredBytes(HostedSets)

----------------------------------------------------------------------------
(* The eviction policy: fitLocked and evictLocked                          *)

Expired(r) == HostTTL > 0 /\ now - sets[r].lastAccess > HostTTL

Evictable ==
    {r \in HostedSets : Expired(r) \/ now - sets[r].storedAt >= EvictionProtection}

(* Faulty: the set that was stored first goes first. *)
EvictedBeforeByAge(r, s) ==
    \/ Expired(r) /\ ~ Expired(s)
    \/ (Expired(r) <=> Expired(s)) /\ sets[r].storedAt < sets[s].storedAt

(* r is a better victim than s. *)
EvictedBefore(r, s) ==
    \/ Expired(r) /\ ~ Expired(s)
    \/ (Expired(r) <=> Expired(s)) /\ sets[r].lastAccess < sets[s].lastAccess

TooLarge(size) == size > MaxPushSize \/ size > HostBudget

(* Faulty: room as it was before the set arrived. *)
RoomWithoutTheSet(size, promised, V) == promised + StoredBytes(HostedSets \ V) <= HostBudget

Room(size, promised, V) == promised + StoredBytes(HostedSets \ V) + size <= HostBudget

Fits(size, promised, V) == ~ TooLarge(size) /\ Room(size, promised, V)

(* The sets that one run of the eviction loop may pick: victims go in      *)
(* order, ties in any order, and the loop stops as soon as there is room.  *)
EvictionPasses(size, promised) ==
    IF TooLarge(size) THEN {{}}
    ELSE {V \in SUBSET Evictable :
            /\ \A v \in V, s \in Evictable \ V : ~ EvictedBefore(s, v)
            /\ Room(size, promised, V) \/ V = Evictable
            /\ V = {} \/ \E last \in V :
                           /\ \A v \in V : ~ EvictedBefore(last, v)
                           /\ ~ Room(size, promised, V \ {last})}

RefsWithout(V) ==
    [h \in Blob |-> blobs[h] \ {r \in V : h \in Members(r, sets[r].chunks)}]

(* Faulty: all blobs of the victims go, shared with other sets or not. *)
EvictedDespiteReferences(V) ==
    {h \in UNION {Members(r, sets[r].chunks) : r \in V} : pending[h] = 0}

(* Faulty: the blobs that a transfer in flight has claimed go as well. *)
EvictedDespiteClaims(V) ==
    {h \in UNION {Members(r, sets[r].chunks) : r \in V} : RefsWithout(V)[h] = {}}

(* The blobs evicting V deletes: no set references them any more and no    *)
(* writer claims them.                                                     *)
Evicted(V) ==
    {h \in UNION {Members(r, sets[r].chunks) : r \in V} :
        RefsWithout(V)[h] = {} /\ pending[h] = 0}

SetsWithout(V) == Restrict(sets, DOMAIN sets \ V)

----------------------------------------------------------------------------
(* Claims                                                                  *)

Claim(h) ==
    /\ pending' = [pending EXCEPT ![h] = @ + 1]
    /\ UNCHANGED <<disk, file, sets, blobs, reserved, dirty, now>>

(* Faulty: a blob claimed twice is released once. *)
CountOnce(hashes, h) == IF h \in Range(hashes) THEN 1 ELSE 0

(* How often a writer's handle, the sequence of hashes it claimed, holds h *)
Count(hashes, h) == Cardinality({i \in DOMAIN hashes : hashes[i] = h})

Released(hashes) ==
    [h \in Blob |-> IF pending[h] > Count(hashes, h) THEN pending[h] - Count(hashes, h) ELSE 0]

(* Faulty: another writer's claim does not keep a blob. *)
UnwantedDespiteClaims(hashes) == {h \in Range(hashes) : blobs[h] = {}}

(* Faulty: a recorded set does not keep a blob. *)
UnwantedDespiteReferences(hashes) == {h \in Range(hashes) : Released(hashes)[h] = 0}

(* Faulty: the claims are counted before the handle's own are released. *)
UnwantedBeforeRelease(hashes) == {h \in Range(hashes) : pending[h] = 0 /\ blobs[h] = {}}

(* The blobs that nothing wants once the handle is released. *)
Unwanted(hashes) == {h \in Range(hashes) : Released(hashes)[h] = 0 /\ blobs[h] = {}}

Discard(hashes) ==
    /\ pending' = Released(hashes)
    /\ disk' = disk \ Unwanted(hashes)
    /\ UNCHANGED <<file, sets, blobs, reserved, dirty, now>>

----------------------------------------------------------------------------
(* Recording sets                                                          *)

Write(index) == file' = index /\ dirty' = FALSE

(* Faulty: the file is written in place, so that a write that fails leaves *)
(* a part of it, which the next start cannot parse and takes as empty.     *)
SaveInPlace(index) ==
    \/ Write(index)
    \/ IndexMayFail /\ file' = EmptyIndex /\ UNCHANGED dirty

(* The index is written to a temporary file that is then renamed, so that  *)
(* a write that fails leaves everything as it was. The callers ignore the  *)
(* error and go on.                                                        *)
Save(index) ==
    \/ Write(index)
    \/ IndexMayFail /\ UNCHANGED <<file, dirty>>

Touched(index, R) ==
    [r \in DOMAIN index |->
        IF r \in R THEN [index[r] EXCEPT !.lastAccess = now] ELSE index[r]]

TouchSets(R) ==
    /\ sets' = Touched(sets, R)
    /\ dirty' = (dirty \/ R \cap DOMAIN sets # {})
    /\ UNCHANGED <<disk, file, blobs, pending, reserved, now>>

Touch(root) == TouchSets({root})

TouchBlob(h) == TouchSets(blobs[h])

MarkOwned(root, size, chunks, hashes) ==
    /\ sets' = Record(sets, root,
                 [owned |-> TRUE, size |-> size, chunks |-> chunks, lastAccess |-> now,
                  storedAt |-> IF root \in DOMAIN sets THEN sets[root].storedAt ELSE now])
    /\ blobs' = Reference(blobs, root, chunks)
    /\ pending' = Released(hashes)
    /\ Save(sets')
    /\ UNCHANGED <<disk, reserved, now>>

(* addHostedLocked on an index and its references: a set already there is  *)
(* only touched, which saves nothing.                                      *)
AddHostedTo(index, refs, root, size, chunks) ==
    IF root \in DOMAIN index
    THEN sets' = Touched(index, {root}) /\ blobs' = refs
    ELSE /\ sets' = Record(index, root,
                      [owned |-> FALSE, size |-> size, chunks |-> chunks,
                       storedAt |-> now, lastAccess |-> now])
         /\ blobs' = Reference(refs, root, chunks)

AddHosted(root, size, chunks, hashes) ==
    /\ AddHostedTo(sets, blobs, root, size, chunks)
    /\ pending' = Released(hashes)
    /\ IF root \in DOMAIN sets THEN file' = file /\ dirty' = TRUE ELSE Save(sets')
    /\ UNCHANGED <<disk, reserved, now>>

(* The save that ends an eviction pass, if it evicted anything. *)
SaveEvicted(V) ==
    IF V = {} THEN UNCHANGED <<file, dirty>> ELSE Save(SetsWithout(V))

Admit(size, fits) ==
    \E V \in EvictionPasses(size, reserved) :
        /\ fits = Fits(size, reserved, V)
        /\ disk' = disk \ Evicted(V)
        /\ sets' = SetsWithout(V)
        /\ blobs' = RefsWithout(V)
        /\ SaveEvicted(V)
        /\ UNCHANGED <<pending, reserved, now>>

(* Faulty: the operands swapped. *)
UnpromisedSwapped(size) == IF reserved > size THEN size - reserved ELSE 0

(* The promise still outstanding once one of size bytes is dropped. *)
Unpromised(size) == IF reserved > size THEN reserved - size ELSE 0

(* Faulty: the promises already made are not counted. *)
ReserveRegardless(size) ==
    /\ Fits(size, 0, Evictable)
    /\ reserved' = reserved + size
    /\ UNCHANGED <<disk, file, sets, blobs, pending, dirty, now>>

(* A dry run of the eviction pass: it could make room by evicting all it   *)
(* may.                                                                    *)
Reserve(size) ==
    /\ Fits(size, reserved, Evictable)
    /\ reserved' = reserved + size
    /\ UNCHANGED <<disk, file, sets, blobs, pending, dirty, now>>

Release(size) ==
    /\ reserved' = Unpromised(size)
    /\ UNCHANGED <<disk, file, sets, blobs, pending, dirty, now>>

(* A commit saves the pass, if it evicted anything, and then the new set.  *)
(* A set that is already there is only touched.                            *)
SaveCommitted(root, V) ==
    IF root \in DOMAIN SetsWithout(V)
    THEN /\ \/ file' = IF V = {} THEN file ELSE SetsWithout(V)
            \/ IndexMayFail /\ file' = file
         /\ dirty' = TRUE
    ELSE \/ Save(sets')
         \/ IndexMayFail /\ SaveEvicted(V)

CommitHosted(root, size, chunks, hashes, fits) ==
    \E V \in EvictionPasses(size, Unpromised(size)) :
        /\ fits = Fits(size, Unpromised(size), V)
        /\ reserved' = Unpromised(size)
        /\ disk' = disk \ Evicted(V)
        /\ IF fits
           THEN /\ AddHostedTo(SetsWithout(V), RefsWithout(V), root, size, chunks)
                /\ pending' = Released(hashes)
                /\ SaveCommitted(root, V)
           ELSE /\ sets' = SetsWithout(V)
                /\ blobs' = RefsWithout(V)
                /\ pending' = pending
                /\ SaveEvicted(V)
        /\ now' = now

Flush ==
    /\ dirty
    /\ Save(sets)
    /\ UNCHANGED <<disk, sets, blobs, pending, reserved, now>>

----------------------------------------------------------------------------
(* The blob store, and starting up                                         *)

Put(h) ==
    /\ disk' = disk \cup {h}
    /\ UNCHANGED <<file, sets, blobs, pending, reserved, dirty, now>>

Adopted(root, chunks) ==
    [owned |-> FALSE, chunks |-> chunks, storedAt |-> now, lastAccess |-> now,
     size |-> IF chunks = <<>> THEN Size[root] ELSE SetSize(root)]

(* Sets that lost their root are dropped; then the blobs no set references *)
(* are adopted: manifests whose chunks are all there as whole sets, and    *)
(* what is left as sets of one blob. If anything fails on the way there is *)
(* no index (ContentService!StoreUnindexed).                               *)
LoadContentIndex ==
    LET kept    == {r \in DOMAIN file : r \in disk}
        named   == UNION {Members(r, file[r].chunks) : r \in kept}
        whole   == {m \in (disk \cap DOMAIN Manifest) \ named : Range(ChunksOf(m)) \subseteq disk}
        single  == disk \ (named \cup UNION {Members(m, ChunksOf(m)) : m \in whole})
    IN  /\ sets' = [r \in kept \cup whole \cup single |->
                      IF r \in kept THEN file[r]
                      ELSE Adopted(r, IF r \in whole THEN ChunksOf(r) ELSE <<>>)]
        /\ blobs' = [h \in Blob |-> {r \in DOMAIN sets' : h \in Members(r, sets'[r].chunks)}]
        /\ pending' = [h \in Blob |-> 0]
        /\ reserved' = 0
        /\ Write(sets')
        /\ UNCHANGED <<disk, now>>

(* The process dies: the directory stays, the memory goes. *)
LoseMemory ==
    /\ sets' = EmptyIndex
    /\ blobs' = [h \in Blob |-> {}]
    /\ pending' = [h \in Blob |-> 0]
    /\ reserved' = 0
    /\ dirty' = FALSE
    /\ now' = now

----------------------------------------------------------------------------
(* What holds of the index whoever calls it                                *)

IndexTypeOK ==
    /\ disk \subseteq Blob
    /\ file \in [DOMAIN file -> ContentMeta] /\ DOMAIN file \subseteq Blob
    /\ sets \in [DOMAIN sets -> ContentMeta] /\ DOMAIN sets \subseteq Blob
    /\ blobs \in [Blob -> SUBSET Blob]
    /\ pending \in [Blob -> Nat]
    /\ reserved \in Nat
    /\ dirty \in BOOLEAN
    /\ now \in Nat

(* The reverse map is that of the sets.                                    *)
RefsExact ==
    \A h \in Blob : blobs[h] = {r \in DOMAIN sets : h \in Members(r, sets[r].chunks)}
=============================================================================
