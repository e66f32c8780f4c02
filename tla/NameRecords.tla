----------------------------- MODULE NameRecords -----------------------------
(***************************************************************************)
(* The signed record of one name: the order between records (validator),   *)
(* the authoring service and the command line that publish new ones        *)
(* through one node, the node's map of owned records and its republishing, *)
(* and the DHT that stores them.  Names share nothing but the DHT: a name  *)
(* has its own key, and with it its own lock and its own entry in the map. *)
(*                                                                         *)
(* The DHT is a library.  PutValue checks the new record against the one   *)
(* in the node's own store, writes it there and then sends it to peers;    *)
(* GetValue returns the best record of the own store and of the peers it   *)
(* reaches.  Every peer runs the same validator.  All records here carry a *)
(* valid signature of the name's owner: the others are rejected anywhere.  *)
(*                                                                         *)
(* The unit of time is long beside a DHT operation (dhtOpTimeout).         *)
(***************************************************************************)
EXTENDS Integers

CONSTANTS
    Client,             \* publications that may be under way together
    Locked,             \* those made with authoring.Service; the others use the command line
    Peer,               \* the DHT peers that may hold the record
    Body,               \* resource-record sets, in the order of their raw bytes
    MaxSeq,             \* math.MaxUint64
    RecordTTL,          \* defaultRecordTTL
    MaxAge,             \* how long the DHT keeps a value
    RepublishInterval,  \* republishInterval
    Overlap,            \* the command line may run beside another publication
    MaxNow,             \* bound on the clock
    None                \* no record, no holder of the lock

ASSUME RecordsAssumption ==
    /\ Locked \subseteq Client
    /\ Body \subseteq Nat
    /\ MaxSeq \in Nat
    /\ RecordTTL \in Nat
    /\ MaxAge \in Nat
    /\ RepublishInterval \in Nat /\ RepublishInterval < MaxAge
    /\ MaxNow \in Nat /\ MaxNow <= MaxSeq
    /\ Overlap \in BOOLEAN

FNRecord == [seq : 0 .. MaxSeq, eol : Nat, body : Body]

ASSUME NoneAssumption ==
    None \notin Client /\ None \notin FNRecord /\ None \notin [rec : FNRecord, at : Nat]

VARIABLES
    now,         \* the clock, in units of RepublishInterval and the like
    lock,        \* holder of the name's lock
    client,      \* what each publication is doing
    owned,       \* FreedomNameNode.owned: the record it republishes
    ticked,      \* when republishLoop last ran
    republisher, \* what republishOwned is doing
    local,       \* the node's own DHT store, and when it was put there
    stored,      \* the record each peer stores
    newest       \* the best record whose publication succeeded, while it stands

vars == <<now, lock, client, owned, ticked, republisher, local, stored, newest>>

----------------------------------------------------------------------------
(* Records                                                                 *)

(* betterRecord *)
Better(candidate, current) ==
    \/ candidate.seq > current.seq
    \/ candidate.seq = current.seq /\ candidate.eol > current.eol
    \/ /\ candidate.seq = current.seq
       /\ candidate.eol = current.eol
       /\ candidate.body > current.body

(* Select: the first record that none of the others is better than. *)
IsBest(rec, recs) == rec \in recs /\ \A r \in recs : ~ Better(r, rec)

(* Verify: a record is valid until its end of life. *)
Live(rec) == rec # None /\ now <= rec.eol

(* Faulty: the number of the current record is used again. *)
NextSeqSame(current) ==
    IF current # None /\ current.seq >= now THEN current.seq ELSE now

(* nextSeq; out of range when the sequence is exhausted. *)
NextSeq(current) ==
    IF current # None /\ current.seq >= now THEN current.seq + 1 ELSE now

BuildRecord(current, body) == [seq |-> NextSeq(current), eol |-> now + RecordTTL, body |-> body]

----------------------------------------------------------------------------
(* The DHT                                                                 *)

LocalRecord == IF local = None THEN None ELSE local.rec

(* A store takes a record unless it holds a better one that is still valid. *)
Accepts(held, rec) == Live(rec) /\ ~ (Live(held) /\ Better(held, rec))

(* The records that a lookup finds that reaches the peers in R.            *)
Found(R) == {r \in {LocalRecord} \cup {stored[p] : p \in R} : Live(r)}

PutLocal(rec) == Accepts(LocalRecord, rec) /\ local' = [rec |-> rec, at |-> now]

Spread(rec) ==
    \E R \in SUBSET Peer :
        stored' = [p \in Peer |-> IF p \in R /\ Accepts(stored[p], rec) THEN rec ELSE stored[p]]

----------------------------------------------------------------------------
(* Publications                                                            *)

Idle == [pc |-> "idle", body |-> None, current |-> None, rec |-> None]

Init ==
    /\ now = 0
    /\ lock = None
    /\ client = [c \in Client |-> Idle]
    /\ owned = None
    /\ ticked = 0
    /\ republisher = [pc |-> "idle", rec |-> None]
    /\ local = None
    /\ stored = [p \in Peer |-> None]
    /\ newest = None

Become(c, state) == client' = [client EXCEPT ![c] = state]

Unlock(c) == lock' = IF c \in Locked THEN None ELSE lock

Quiet == \A c \in Client : client[c].pc = "idle"

(* Faulty: Publish takes no lock. *)
ServiceBeginsUnlocked(c, body) ==
    /\ c \in Locked
    /\ client[c].pc = "idle"
    /\ lock' = c
    /\ Become(c, [Idle EXCEPT !.pc = "resolve", !.body = body])
    /\ UNCHANGED <<now, owned, ticked, republisher, local, stored, newest>>

(* Publish takes the label's lock.                                         *)
ServiceBegins(c, body) ==
    /\ c \in Locked
    /\ client[c].pc = "idle"
    /\ lock = None
    /\ Overlap \/ Quiet \/ \A d \in Client \ Locked : client[d].pc = "idle"
    /\ lock' = c
    /\ Become(c, [Idle EXCEPT !.pc = "resolve", !.body = body])
    /\ UNCHANGED <<now, owned, ticked, republisher, local, stored, newest>>

(* publishRecords of the command line, in a process of its own.            *)
CommandBegins(c, body) ==
    /\ c \notin Locked
    /\ client[c].pc = "idle"
    /\ Overlap \/ Quiet
    /\ Become(c, [Idle EXCEPT !.pc = "resolve", !.body = body])
    /\ UNCHANGED <<now, lock, owned, ticked, republisher, local, stored, newest>>

(* ResolveRecord.  The service goes on without a current record only when  *)
(* there is none to be found, and gives up on any other error; the command *)
(* line goes on whatever the error.                                        *)
Resolve(c) ==
    /\ client[c].pc = "resolve"
    /\ \E R \in SUBSET Peer :
          \/ \E rec \in Found(R) :
                /\ IsBest(rec, Found(R))
                /\ Become(c, [client[c] EXCEPT !.pc = "build", !.current = rec])
          \/ Found(R) = {} /\ Become(c, [client[c] EXCEPT !.pc = "build"])
    /\ UNCHANGED <<now, lock, owned, ticked, republisher, local, stored, newest>>

(* Faulty: the service goes on whatever the error, as the command line does. *)
ResolveFailsAnyway(c) ==
    /\ client[c].pc = "resolve"
    /\ Become(c, [client[c] EXCEPT !.pc = "build"])
    /\ UNCHANGED <<now, lock, owned, ticked, republisher, local, stored, newest>>

ResolveFails(c) ==
    /\ client[c].pc = "resolve"
    /\ IF c \in Locked
       THEN Become(c, Idle) /\ Unlock(c)
       ELSE Become(c, [client[c] EXCEPT !.pc = "build"]) /\ lock' = lock
    /\ UNCHANGED <<now, owned, ticked, republisher, local, stored, newest>>

(* Faulty: an exhausted sequence is not noticed. *)
BuildUnchecked(c) ==
    /\ client[c].pc = "build"
    /\ Become(c, [client[c] EXCEPT !.pc = "put", !.rec = BuildRecord(client[c].current, client[c].body)])
    /\ UNCHANGED <<now, lock, owned, ticked, republisher, local, stored, newest>>

(* BuildRecord.                                                            *)
Build(c) ==
    LET rec == BuildRecord(client[c].current, client[c].body)
    IN  /\ client[c].pc = "build"
        /\ rec.seq <= MaxSeq
        /\ Become(c, [client[c] EXCEPT !.pc = "put", !.rec = rec])
        /\ UNCHANGED <<now, lock, owned, ticked, republisher, local, stored, newest>>

(* ErrSequenceExhausted. *)
BuildFails(c) ==
    /\ client[c].pc = "build"
    /\ NextSeq(client[c].current) > MaxSeq
    /\ Become(c, Idle)
    /\ Unlock(c)
    /\ UNCHANGED <<now, owned, ticked, republisher, local, stored, newest>>

(* PublishRecord: PutValue writes to the own store first ...               *)
Put(c) ==
    /\ client[c].pc = "put"
    /\ PutLocal(client[c].rec)
    /\ Become(c, [client[c] EXCEPT !.pc = "spread"])
    /\ UNCHANGED <<now, lock, owned, ticked, republisher, stored, newest>>

(* ... unless the record has expired or there is a better one.             *)
PutFails(c) ==
    /\ client[c].pc = "put"
    /\ ~ Accepts(LocalRecord, client[c].rec)
    /\ Become(c, Idle)
    /\ Unlock(c)
    /\ UNCHANGED <<now, owned, ticked, republisher, local, stored, newest>>

SpreadTo(c) ==
    /\ client[c].pc = "spread"
    /\ Spread(client[c].rec)
    /\ Become(c, [client[c] EXCEPT !.pc = "own"])
    /\ UNCHANGED <<now, lock, owned, ticked, republisher, local, newest>>

(* No peer could be asked: the publication fails, although the own store   *)
(* has the record.  What it replaced is refused there from now on, so the  *)
(* record that stood until now is no longer promised.                      *)
SpreadFails(c) ==
    /\ client[c].pc = "spread"
    /\ Become(c, Idle)
    /\ Unlock(c)
    /\ newest' = None
    /\ UNCHANGED <<now, owned, ticked, republisher, local, stored>>

(* PublishRecord tracks the record, and the publication succeeds.  The own *)
(* store holds the record by now, unless a better one was put there since. *)
Own(c) ==
    /\ client[c].pc = "own"
    /\ owned' = client[c].rec
    /\ newest' = LET best == IF Live(newest) /\ Better(newest, client[c].rec)
                             THEN newest ELSE client[c].rec
                 IN  IF local # None /\ Better(local.rec, best) THEN None ELSE best
    /\ Become(c, Idle)
    /\ Unlock(c)
    /\ UNCHANGED <<now, ticked, republisher, local, stored>>

----------------------------------------------------------------------------
(* Republishing, the clock and the network                                 *)

(* republishOwned prunes an expired record and takes a snapshot.           *)
RepublishBegins ==
    /\ republisher.pc = "idle"
    /\ now > ticked
    /\ ticked' = now
    /\ owned' = IF Live(owned) THEN owned ELSE None
    /\ republisher' = IF Live(owned) THEN [pc |-> "put", rec |-> owned] ELSE republisher
    /\ UNCHANGED <<now, lock, client, local, stored, newest>>

(* Faulty: a record that the own store still holds is not put again. *)
RepublishPutIfGone ==
    /\ republisher.pc = "put"
    /\ IF Accepts(LocalRecord, republisher.rec) /\ LocalRecord # republisher.rec
       THEN PutLocal(republisher.rec) /\ republisher' = [republisher EXCEPT !.pc = "spread"]
       ELSE local' = local /\ republisher' = [pc |-> "idle", rec |-> None]
    /\ UNCHANGED <<now, lock, client, owned, ticked, stored, newest>>

(* A record of the snapshot that was replaced meanwhile is refused, unless *)
(* it is the better one (the publication between saw neither a current     *)
(* record nor a later clock): then it takes the name over.                 *)
RepublishPut ==
    /\ republisher.pc = "put"
    /\ IF Accepts(LocalRecord, republisher.rec)
       THEN /\ PutLocal(republisher.rec)
            /\ republisher' = [republisher EXCEPT !.pc = "spread"]
            /\ newest' = IF newest # None /\ Better(republisher.rec, newest) THEN None ELSE newest
       ELSE /\ republisher' = [pc |-> "idle", rec |-> None]
            /\ UNCHANGED <<local, newest>>
    /\ UNCHANGED <<now, lock, client, owned, ticked, stored>>

RepublishSpread ==
    /\ republisher.pc = "spread"
    /\ Spread(republisher.rec)
    /\ republisher' = [pc |-> "idle", rec |-> None]
    /\ UNCHANGED <<now, lock, client, owned, ticked, local, newest>>

(* Time passes only when no operation on the DHT is under way, and not     *)
(* past the next tick of republishLoop.                                    *)
Tick ==
    /\ now < MaxNow
    /\ now - ticked < RepublishInterval
    /\ republisher.pc = "idle"
    /\ \A c \in Client : client[c].pc \notin {"put", "spread", "own"}
    /\ now' = now + 1
    /\ UNCHANGED <<lock, client, owned, ticked, republisher, local, stored, newest>>

(* A store may drop a value once it is too old. *)
LocalDrops ==
    /\ local # None
    /\ now - local.at > MaxAge
    /\ local' = None
    /\ UNCHANGED <<now, lock, client, owned, ticked, republisher, stored, newest>>

(* Peers come and go. *)
PeerDrops(p) ==
    /\ stored[p] # None
    /\ stored' = [stored EXCEPT ![p] = None]
    /\ UNCHANGED <<now, lock, client, owned, ticked, republisher, local, newest>>

(* The owned map and the store are in memory.  A command line that is not  *)
(* talking to the node just then does not notice.                          *)
Restart ==
    /\ client' = [c \in Client |-> IF c \notin Locked /\ client[c].pc \in {"resolve", "build"}
                                  THEN client[c] ELSE Idle]
    /\ lock' = None
    /\ owned' = None
    /\ ticked' = now
    /\ republisher' = [pc |-> "idle", rec |-> None]
    /\ local' = None
    /\ newest' = None
    /\ UNCHANGED <<now, stored>>

ClientStep(c) ==
    \/ \E body \in Body : ServiceBegins(c, body) \/ CommandBegins(c, body)
    \/ Resolve(c)
    \/ ResolveFails(c)
    \/ Build(c)
    \/ BuildFails(c)
    \/ Put(c)
    \/ PutFails(c)
    \/ SpreadTo(c)
    \/ SpreadFails(c)
    \/ Own(c)

Next ==
    \/ \E c \in Client : ClientStep(c)
    \/ RepublishBegins
    \/ RepublishPut
    \/ RepublishSpread
    \/ Tick
    \/ LocalDrops
    \/ \E p \in Peer : PeerDrops(p)
    \/ Restart

Spec == Init /\ [][Next]_vars

----------------------------------------------------------------------------
(* Properties                                                              *)

MaybeRecord == FNRecord \cup {None}

ClientState ==
    [pc : {"idle", "resolve", "build", "put", "spread", "own"},
     body : Body \cup {None}, current : MaybeRecord, rec : MaybeRecord]

TypeOK ==
    /\ now \in 0 .. MaxNow
    /\ lock \in Locked \cup {None}
    /\ client \in [Client -> ClientState]
    /\ owned \in MaybeRecord
    /\ ticked \in 0 .. MaxNow
    /\ republisher \in [pc : {"idle", "put", "spread"}, rec : MaybeRecord]
    /\ local \in [rec : FNRecord, at : 0 .. MaxNow] \cup {None}
    /\ stored \in [Peer -> MaybeRecord]
    /\ newest \in MaybeRecord

(* The record that the node keeps republishing is the newest one it has    *)
(* published, as long as the command line is not used beside another       *)
(* publication: only the service takes the label's lock (Publish,          *)
(* PublishRecord, republishOwned).                                         *)
OwnedIsNewest == Live(newest) => owned = newest

(* A node that is up keeps its newest record available until its end of    *)
(* life: its own store holds that record or a better one (republishLoop).  *)
NewestIsHeld == Live(newest) => local # None /\ ~ Better(newest, local.rec)

(* A publication replaces the newest record, never a stale one that it     *)
(* found instead: what it builds upon is at least as new (Publish).        *)
BuildsOnNewest ==
    \A c \in Locked :
        client[c].pc = "build" /\ Live(newest) =>
            client[c].current # None /\ ~ Better(newest, client[c].current)

(* The sequence number of a record published with the service is strictly  *)
(* above that of the newest record before it, and any other publication    *)
(* that succeeds is at least no worse than that record.                    *)
PublicationsSupersede ==
    [][\A c \in Client :
         client[c].pc = "own" /\ client'[c].pc = "idle" /\ Live(newest) /\ newest' # None =>
            IF c \in Locked THEN client[c].rec.seq > newest.seq
            ELSE ~ Better(newest, client[c].rec)]_vars
=============================================================================
