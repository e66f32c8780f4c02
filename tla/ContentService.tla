--------------------------- MODULE ContentService ---------------------------
(***************************************************************************)
(* The writers of one node's content store, running side by side: inbound  *)
(* pushes (handlePushStream), local publishes (PutStream) and fetches that *)
(* cache what they read (FetchStream), with the readers that only touch    *)
(* sets, the passing of time, and crashes followed by a restart.           *)
(*                                                                         *)
(* Each goroutine is a Writer with a program counter.  One action is what  *)
(* it does between two points where another goroutine can get in: a call   *)
(* that takes the index's mutex, or one blob written to the directory.     *)
(* Who is at the other end of a stream is not modelled: a transfer may     *)
(* break between any two blobs.                                            *)
(***************************************************************************)
EXTENDS ContentIndex

CONSTANTS
    Writer,       \* goroutines that may be writing at the same time
    NoRoot,       \* the root of a writer that is not writing
    Traffic,      \* which of "push", "publish" and "fetch" occur
    Wanted,       \* roots of the sets that are pushed, published or fetched
    LegacyBlobs,  \* blobs that may be on disk before the first start
    DiskMayFail,  \* whether BlobStore.Put can fail
    MayCrash,     \* whether the process can die
    MaxNow        \* bound on the clock

ASSUME ServiceAssumption ==
    /\ IsFiniteSet(Writer)
    /\ NoRoot \notin Blob
    /\ Traffic \subseteq {"push", "publish", "fetch"}
    /\ Wanted \subseteq Blob
    /\ LegacyBlobs \subseteq Blob /\ IsFiniteSet(LegacyBlobs)
    /\ DiskMayFail \in BOOLEAN
    /\ MayCrash \in BOOLEAN
    /\ MaxNow \in Nat

VARIABLES
    up,      \* the process runs, with its index
    writer   \* what each goroutine is doing

vars == <<indexVars, up, writer>>

(* kind:     what the writer is                                            *)
(* pc:       where it stands in its handler                                *)
(* root:     the set it is writing                                         *)
(* todo:     the blobs it has yet to write, in order                       *)
(* claims:   the hashes of its BlobClaims handle                           *)
(* promised: the bytes it holds a reservation for                          *)
WriterState ==
    [kind : {"none", "push", "publish", "fetch"},
     pc : {"idle", "touch", "reserve", "admit", "next", "put", "chunks", "fail", "release"},
     root : Blob \cup {NoRoot}, todo : Seq(Blob), claims : Seq(Blob), promised : Nat]

Idle == [kind |-> "none", pc |-> "idle", root |-> NoRoot, todo |-> <<>>, claims |-> <<>>,
         promised |-> 0]

TypeOK ==
    /\ IndexTypeOK
    /\ up \in BOOLEAN
    /\ writer \in [Writer -> WriterState]
    /\ \A w \in Writer : writer[w].pc # "idle" => writer[w].root \in Blob

(* A node that has yet to start, on a directory without index.json.        *)
Init ==
    /\ disk \in SUBSET LegacyBlobs
    /\ file = EmptyIndex
    /\ sets = EmptyIndex
    /\ blobs = [h \in Blob |-> {}]
    /\ pending = [h \in Blob |-> 0]
    /\ reserved = 0
    /\ dirty = FALSE
    /\ now = 0
    /\ up = FALSE
    /\ writer = [w \in Writer |-> Idle]

Become(w, state) == writer' = [writer EXCEPT ![w] = state]

At(w, k, place) == up /\ writer[w].kind = k /\ writer[w].pc = place

----------------------------------------------------------------------------
(* Inbound pushes                                                          *)

(* An offer arrives and the index is asked whether it holds the set.       *)
PushOffer(w, r) ==
    /\ "push" \in Traffic
    /\ At(w, "none", "idle")
    /\ SetSize(r) > 0
    /\ Become(w, [Idle EXCEPT !.kind = "push", !.root = r,
                     !.pc = IF r \in DOMAIN sets THEN "touch" ELSE "reserve"])
    /\ UNCHANGED <<indexVars, up>>

(* The answer is pushHave. *)
PushHave(w) ==
    /\ At(w, "push", "touch")
    /\ Touch(writer[w].root)
    /\ Become(w, Idle)
    /\ UNCHANGED up

(* The answer is pushAccept, and the root is the first blob to arrive.     *)
PushAccept(w) ==
    LET r == writer[w].root
    IN  /\ At(w, "push", "reserve")
        /\ Reserve(SetSize(r))
        /\ Become(w, [writer[w] EXCEPT !.pc = "next", !.todo = <<r>> \o ChunksOf(r),
                         !.promised = SetSize(r)])
        /\ UNCHANGED up

PushDecline(w) ==
    /\ At(w, "push", "reserve")
    /\ ~ Fits(SetSize(writer[w].root), reserved, Evictable)
    /\ Become(w, Idle)
    /\ UNCHANGED <<indexVars, up>>

(* Every blob has arrived: commit, and on a refusal roll back.             *)
PushCommit(w) ==
    LET r == writer[w].root
    IN  /\ At(w, "push", "next")
        /\ writer[w].todo = <<>>
        /\ \E fits \in BOOLEAN :
              /\ CommitHosted(r, SetSize(r), ChunksOf(r), writer[w].claims, fits)
              /\ Become(w, IF fits THEN Idle
                           ELSE [writer[w] EXCEPT !.pc = "fail", !.promised = 0])
        /\ UNCHANGED up

(* The deferred releaseHosted of a push that failed. *)
PushRelease(w) ==
    /\ At(w, "push", "release")
    /\ Release(writer[w].promised)
    /\ Become(w, Idle)
    /\ UNCHANGED up

----------------------------------------------------------------------------
(* Local publishes                                                         *)

(* The chunks are written as they are read, the manifest after them.       *)
PublishStart(w, r) ==
    /\ "publish" \in Traffic
    /\ At(w, "none", "idle")
    /\ Become(w, [Idle EXCEPT !.kind = "publish", !.root = r, !.pc = "next",
                     !.todo = Append(ChunksOf(r), r)])
    /\ UNCHANGED <<indexVars, up>>

PublishRecord(w) ==
    LET r == writer[w].root
    IN  /\ At(w, "publish", "next")
        /\ writer[w].todo = <<>>
        /\ MarkOwned(r, SetSize(r), ChunksOf(r), writer[w].claims)
        /\ Become(w, Idle)
        /\ UNCHANGED up

----------------------------------------------------------------------------
(* What the writers share: each blob is claimed, then written              *)

ClaimNext(w) ==
    LET h == Head(writer[w].todo)
    IN  /\ up
        /\ writer[w].pc = "next"
        /\ writer[w].todo # <<>>
        /\ Claim(h)
        /\ Become(w, [writer[w] EXCEPT !.pc = "put", !.claims = Append(@, h)])
        /\ UNCHANGED up

PutNext(w) ==
    /\ up
    /\ writer[w].pc = "put"
    /\ Put(Head(writer[w].todo))
    /\ Become(w, [writer[w] EXCEPT !.pc = "next", !.todo = Tail(@)])
    /\ UNCHANGED up

(* cacheBlob only logs the error; the others give up.                      *)
PutFails(w) ==
    /\ DiskMayFail
    /\ up
    /\ writer[w].pc = "put"
    /\ Become(w, IF writer[w].kind = "fetch"
                 THEN [writer[w] EXCEPT !.pc = "next", !.todo = Tail(@)]
                 ELSE [writer[w] EXCEPT !.pc = "fail"])
    /\ UNCHANGED <<indexVars, up>>

(* The stream breaks or a blob fails verification; a push may also end     *)
(* with another byte count than it offered.                                *)
TransferFails(w) ==
    /\ \/ At(w, "push", "next")
       \/ At(w, "publish", "next") /\ writer[w].todo # <<>>
    /\ Become(w, [writer[w] EXCEPT !.pc = "fail"])
    /\ UNCHANGED <<indexVars, up>>

RollBack(w) ==
    /\ up
    /\ writer[w].pc = "fail"
    /\ Discard(writer[w].claims)
    /\ Become(w, IF writer[w].promised > 0
                 THEN [writer[w] EXCEPT !.pc = "release", !.claims = <<>>, !.todo = <<>>]
                 ELSE Idle)
    /\ UNCHANGED up

----------------------------------------------------------------------------
(* Fetches                                                                 *)

(* The root is not held here; some provider has served it.                 *)
FetchRemote(w, r) ==
    /\ "fetch" \in Traffic
    /\ At(w, "none", "idle")
    /\ r \notin disk
    /\ Become(w, [Idle EXCEPT !.kind = "fetch", !.root = r, !.pc = "admit"])
    /\ UNCHANGED <<indexVars, up>>

(* A set that is not admitted is served without being cached.              *)
FetchAdmit(w) ==
    LET r == writer[w].root
    IN  /\ At(w, "fetch", "admit")
        /\ \E fits \in BOOLEAN :
              /\ Admit(SetSize(r), fits)
              /\ Become(w, IF fits THEN [writer[w] EXCEPT !.pc = "next", !.todo = <<r>>]
                           ELSE Idle)
        /\ UNCHANGED up

(* The set is recorded with all its chunks, which the reader it returns    *)
(* will fetch one by one.                                                  *)
FetchRecord(w) ==
    LET r == writer[w].root
    IN  /\ At(w, "fetch", "next")
        /\ writer[w].todo = <<>>
        /\ AddHosted(r, SetSize(r), ChunksOf(r), writer[w].claims)
        /\ Become(w, IF ChunksOf(r) = <<>> THEN Idle
                     ELSE [writer[w] EXCEPT !.pc = "chunks", !.claims = <<>>,
                              !.todo = ChunksOf(r)])
        /\ UNCHANGED up

(* fetchChunk: read from disk, or from a peer and cached.                  *)
FetchChunk(w) ==
    /\ At(w, "fetch", "chunks")
    /\ writer[w].todo # <<>>
    /\ \/ Put(Head(writer[w].todo))
       \/ DiskMayFail /\ UNCHANGED indexVars
    /\ Become(w, [writer[w] EXCEPT !.todo = Tail(@)])
    /\ UNCHANGED up

(* The reader is done, gives up, or no peer has the chunk.                 *)
FetchClose(w) ==
    /\ At(w, "fetch", "chunks")
    /\ Become(w, Idle)
    /\ UNCHANGED <<indexVars, up>>

----------------------------------------------------------------------------
(* Readers, the clock and the process                                      *)

(* handleStream, and a FetchStream that finds the root here.               *)
ServeBlob(h) ==
    /\ up
    /\ h \in disk
    /\ TouchBlob(h)
    /\ UNCHANGED <<up, writer>>

FlushIndex == up /\ Flush /\ UNCHANGED <<up, writer>>

Tick ==
    /\ now < MaxNow
    /\ now' = now + 1
    /\ UNCHANGED <<disk, file, sets, blobs, pending, reserved, dirty, up, writer>>

(* The process dies in the middle of a call that deletes blobs.  Discard   *)
(* deletes in the order of the claims, each blob at its last mention.      *)
DiesDiscarding(w) ==
    LET claims == writer[w].claims
    IN  /\ writer[w].pc = "fail"
        /\ \E k \in 0 .. Len(claims) :
              disk' = disk \ (Unwanted(claims) \ Range(SubSeq(claims, k + 1, Len(claims))))
        /\ file' = file

(* The eviction pass that w is about to run. *)
PassesOf(w) ==
    LET size == SetSize(writer[w].root)
    IN  IF writer[w].pc = "admit" THEN EvictionPasses(size, reserved)
        ELSE IF At(w, "push", "next") /\ writer[w].todo = <<>>
        THEN EvictionPasses(size, Unpromised(size))
        ELSE {}

(* Of each victim the root is deleted first; the pass is saved at its end, *)
(* before a commit goes on to record its own set.                          *)
DiesEvicting(w) ==
    \E V \in PassesOf(w) : \E gone \in SUBSET Evicted(V) :
        /\ \A r \in V : Members(r, sets[r].chunks) \cap gone # {} => r \notin Evicted(V) \ gone
        /\ disk' = disk \ gone
        /\ \/ file' = file
           \/ V # {} /\ gone = Evicted(V) /\ file' = SetsWithout(V)

Crash ==
    /\ MayCrash
    /\ up
    /\ \/ UNCHANGED <<disk, file>>
       \/ \E w \in Writer : DiesDiscarding(w) \/ DiesEvicting(w)
    /\ LoseMemory
    /\ up' = FALSE
    /\ writer' = [w \in Writer |-> Idle]

(* NewContentService. *)
Start ==
    /\ ~ up
    /\ LoadContentIndex
    /\ up' = TRUE
    /\ UNCHANGED writer

(* A process that cannot read or write the index when it starts runs       *)
(* without one: whatever it is sent or publishes it writes to disk, it     *)
(* counts and deletes nothing, and it leaves index.json alone.             *)
StoreUnindexed(h) ==
    /\ IndexMayFail /\ MayCrash
    /\ ~ up
    /\ \E r \in Wanted : h \in Members(r, ChunksOf(r))
    /\ Put(h)
    /\ UNCHANGED <<up, writer>>

WriterStep(w) ==
    \/ PushHave(w)
    \/ PushAccept(w)
    \/ PushDecline(w)
    \/ PushCommit(w)
    \/ PushRelease(w)
    \/ PublishRecord(w)
    \/ ClaimNext(w)
    \/ PutNext(w)
    \/ PutFails(w)
    \/ TransferFails(w)
    \/ RollBack(w)
    \/ FetchAdmit(w)
    \/ FetchRecord(w)
    \/ FetchChunk(w)
    \/ FetchClose(w)

Request(w) ==
    \E r \in Wanted : PushOffer(w, r) \/ PublishStart(w, r) \/ FetchRemote(w, r)

Next ==
    \/ \E w \in Writer : WriterStep(w) \/ Request(w)
    \/ \E h \in Blob : ServeBlob(h) \/ StoreUnindexed(h)
    \/ FlushIndex
    \/ Tick
    \/ Crash
    \/ Start

Spec == Init /\ [][Next]_vars

----------------------------------------------------------------------------
(* Properties                                                              *)

(* The outstanding claims on h: which writer, and where in its handle. *)
Claimants(h) ==
    UNION {{w} \X {i \in DOMAIN writer[w].claims : writer[w].claims[i] = h} : w \in Writer}

ClaimsCounted == \A h \in Blob : pending[h] = Cardinality(Claimants(h))

(* The bytes promised to transfers in flight, one by one.                  *)
Promises == UNION {{w} \X (1 .. writer[w].promised) : w \in Writer}

ReservationsCounted == reserved = Cardinality(Promises)

(* The three ledgers that every deletion is decided on agree with what     *)
(* they summarise: references with the indexed sets (ContentIndex.blobs),  *)
(* claim counts with the writers' handles (pending), and the reserved      *)
(* bytes with the transfers in flight.                                     *)
Accounting == RefsExact /\ ClaimsCounted /\ ReservationsCounted

(* Every set in the index has all its blobs on disk, whatever rollbacks    *)
(* and evictions ran beside the transfer that stored it (BlobClaims).      *)
SetsComplete == \A r \in DOMAIN sets : Members(r, sets[r].chunks) \subseteq disk

(* No blob is on disk that neither a set nor a transfer in progress        *)
(* accounts for: what a failed push wrote is gone once it is rolled back.  *)
NoOrphans == up => \A h \in disk : blobs[h] # {} \/ pending[h] > 0

(* FREEDOM_CONTENT_HOST_BUDGET is a ceiling on the hosted sets.            *)
WithinBudget == StoredBytes(HostedSets) <= HostBudget

(* How far fetches, which reserve nothing between their admission and the  *)
(* recording of their set, may exceed it: by the largest set there may be  *)
(* for each other writer under way (admitHosted, AddHosted).               *)
OverrunBounded ==
    StoredBytes(HostedSets) <= HostBudget + (Cardinality(Writer) - 1) * MaxPushSize

(* A push that was accepted will find room: what is promised fits next to  *)
(* the sets that may not be evicted (Reserve).                             *)
PromisesFit == reserved + StoredBytes(HostedSets \ Evictable) <= HostBudget

(* No step takes from disk a blob of a set that stays in the index.        *)
RecordedKept ==
    \A r \in DOMAIN sets \cap DOMAIN sets' :
        Members(r, sets[r].chunks) \cap disk \subseteq disk'

(* What the index records is never deleted under it: neither a rollback    *)
(* nor an eviction that runs beside it touches a blob of another set, and  *)
(* a set that a commit evicts and stores again keeps its own.              *)
RecordedBytesKept == [][RecordedKept]_vars

(* The sets that this step removes from the index. *)
Lost == DOMAIN sets \ DOMAIN sets'

(* They are hosted ones that may go, and of those none that stays as it is *)
(* was used longer ago: whether expired or not, the order is that of use.  *)
LostInOrder ==
    \A v \in Lost :
        /\ v \in Evictable
        /\ \A s \in Evictable \cap DOMAIN sets' :
              sets'[s] = sets[s] => sets[v].lastAccess <= sets[s].lastAccess

(* And no more than the room takes: with the last of them the hosted bytes *)
(* and asked more would not fit the budget.                                *)
LostForRoom(asked) ==
    Lost = {} \/ \E last \in Lost :
        /\ \A v \in Lost : sets[v].lastAccess <= sets[last].lastAccess
        /\ HostedBytes' + asked + sets[last].size > HostBudget

(* The bytes that w makes room for and that are not recorded in this step. *)
StillToCome(w) ==
    IF DOMAIN sets' \subseteq DOMAIN sets THEN SetSize(writer[w].root) ELSE 0

(* An eviction pass takes hosted sets only, the least recently used first, *)
(* and no more of them than the set it makes room for takes, whether that  *)
(* set is then recorded, refused or yet to be fetched: bytes promised to   *)
(* it are not counted a second time (fitLocked, CommitHosted, Admit).      *)
EvictsOnlyWhatIsNeeded ==
    [][up' /\ Lost # {} =>
          /\ LostInOrder
          /\ \E w \in Writer : writer'[w] # writer[w] /\ LostForRoom(StillToCome(w))]_vars

(* Hosted content is only ever removed to make room.                       *)
EvictsOnlyForRoom == [][up' => LostForRoom(0)]_vars

OwnedIn(index) == {r \in DOMAIN index : index[r].owned}

(* This node's own content is whole on disk, also after a crash.           *)
OwnedComplete == \A r \in OwnedIn(file) : Members(r, file[r].chunks) \subseteq disk

(* What index.json and the directory together amount to: the sets recorded *)
(* there whose blobs are all on disk.                                      *)
HeldIn(index) ==
    {r \in DOMAIN index : Members(r, index[r].chunks) \subseteq disk}

Store == INSTANCE ContentStore
    WITH Root <- Blob, Budget <- HostBudget,
         SetBytes <- [r \in Blob |-> SetSize(r)],
         owned <- HeldIn(file) \cap OwnedIn(file),
         hosted <- HeldIn(file) \ OwnedIn(file)

(* Pushes and publishes running side by side look like whole sets arriving *)
(* one at a time: no rollback, eviction or interleaving of two transfers   *)
(* is visible in what the node holds.                                      *)
ImplementsContentStore == Store!Spec

(* No owned set is lost: not from the index file, by whatever is written   *)
(* to it or fails to be, nor by a restart from it, nor from the index in   *)
(* memory; and a file that is written has all of them.                     *)
OwnedKept ==
    /\ OwnedIn(file) \subseteq OwnedIn(file')
    /\ up' => OwnedIn(file') \cup OwnedIn(sets) \subseteq OwnedIn(sets')
    /\ file' # file \/ ~ IndexMayFail =>
          OwnedIn(sets) \cup OwnedIn(sets') \subseteq OwnedIn(file')

(* What was published stays published: once a write of index.json has      *)
(* succeeded after it was recorded, which is at once unless that write     *)
(* fails (save, whose error MarkOwned ignores), every restart brings it    *)
(* back as owned.                                                          *)
OwnedDurable == [][OwnedKept]_vars
=============================================================================
