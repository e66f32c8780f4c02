# Freedom Names in TLA+

Freedom Names is a naming and content network: a node publishes signed records
under self-certifying names in a libp2p DHT, resolves bare names through claims
on the Bitcoin Cash chain, answers DNS, and stores and replicates content by
hash. This directory holds a specification of the parts of it where
interleavings, crashes and limits decide whether it is right, checked with TLC
on small instances and, for the properties that matter most, proved with TLAPS
for every instance.

All paths below are relative to the repository.

## 1. The system

| Component | State it keeps | Operations | Talks to |
|---|---|---|---|
| Content index (`internal/content/contentindex.go`) | sets by root, blob -> sets, claim counts, reserved bytes, `index.json` | Claim, Discard, MarkOwned, AddHosted, Admit, Reserve, Release, CommitHosted, Touch, Flush, load | blob store; called by every writer of content under one mutex |
| Blob store (`internal/content/content.go`) | one file per hash | Put, Get, Open, Has, Delete, List; manifests | content index and content service |
| Content service (`internal/node/contentnet.go`) | none of its own | PutStream (publish), FetchStream and its chunk reader, handleStream (serve) | index, store, DHT providers, peers |
| Push receiver (`handlePushStream` in `internal/node/replicate.go`) | one reservation and one claims handle per stream | offer, accept/decline/have, blobs, commit, rollback | index, store, the pusher |
| Pusher, replication and healing (`internal/node/replicate.go`) | replica target | pushTo, replicate, heal | DHT closest peers and provider records, receivers |
| Push rate limiting (`internal/content/ratelimit.go`) | tokens | LimitReader, LimitWriter | push and fetch streams |
| Records and validator (`internal/record`) | none | sign, Verify, Validate, Select | DHT |
| Publishing (`internal/node/publish.go`) | map of owned records | PublishRecord, republishOwned, ResolveRecord | DHT |
| Authoring (`internal/authoring/service.go`) | keys, one lock per label | CreateName, Publish, nextSeq | publishing |
| Bare names (`internal/bch/registry_bch.go`) | owner cache | ResolveOwner: claims, custody walk | Electrum client |
| Electrum client (`internal/bch/electrum.go`) | one connection, last good server | call with failover | Electrum servers |
| Wallet (`internal/bch/bchwallet.go`, `bchtx.go`) | key | build, sign and broadcast claims | Electrum client |
| Resolver and cache (`internal/resolver`) | LRU of answers | Resolve | publishing, bare names |
| DNS server (`internal/dnsserver/dns.go`) | slots for lookups in flight | handleFN, handleForward | resolver, upstream DNS |
| HTTP API, CLI, configuration | none | handlers and flags | the services above |

What is hard about each, and what makes it right:

- **Content index and its writers.** Pushes, publishes, fetches and evictions run
  side by side over blobs that sets share. Three ledgers decide what may be
  deleted (references, claims, reservations); they must be exact. No rollback or
  eviction may take a blob another set or transfer needs, nothing may be left
  over, the budget is a ceiling, and what the operator published survives
  everything, a crash in the middle of an eviction included.
- **Push protocol.** Both ends must agree on the outcome as far as a stream that
  may break lets them, and a stalled peer must not hold a reservation for ever.
- **Replication.** Healing acts on provider records that outlive the copies;
  holders must converge on the target without pushing for ever.
- **Name records.** The newest record of a name must win everywhere and must not
  be replaced by an older one that this node republishes; two publishes must not
  share a sequence number.
- **Bare names.** All resolvers must name the same owner, the holder of the
  token that the first confirmed claim minted, although the chain moves between
  the queries of one lookup.
- **Electrum, resolver, DNS.** A reply belongs to its request, an answer expires
  with its record, a slot that was taken is given back.

`PROJECT.json` lists each of these hazards at its line, with the properties that
cover it or the reason why none does.

## 2. Modules

| Module | What it is |
|---|---|
| `ContentIndex` | the store of one node: every method of `ContentIndex` as one operator (each runs under the mutex), `BlobStore.Put`, the eviction policy, loading and losing the memory |
| `ContentService` | the goroutines that use it: pushes, publishes, fetches, readers, the clock, crash and restart; composes `ContentIndex` by EXTENDS; the properties |
| `ContentStore` | what the store promises seen from outside: whole sets that arrive one at a time |
| `MCContentService` | the small instance |
| `EvictionLoop` | one call of `fitLocked` and `evictLocked` as the loop they are, step by step and blob by blob, from any index; upon `ContentIndex`, which takes it as one step |
| `MCEvictionLoop` | its small instance |
| `ContentIndexProofs`, `ContentServiceProofs`, `ContentStoreProofs` | the theorems about content, each module upon the one before it; the last has the refinement of `ContentStore` |
| `EvictionLoopProofs` | the theorems about the loop, upon `ContentIndexProofs` |
| `NameRecords` | the signed record of one name: the order of records, publications with the service and with the command line, the node's owned record and its republishing, the DHT; the properties |
| `MCNameRecords` | the small instances, and `Select` written as its loop |
| `NameRecordsProofs` | the theorems about records |
| `Replication` | the copies of one content set: both ends of a push, replication, healing, provider records, nodes that crash, evict and fetch; safety and liveness |
| `MCReplication` | the order of the closest peers in the small instances |
| `ReplicationProofs` | the theorems about copies |
| `BareNames` | one bare name: the transactions on the chain, the lookup of its owner query by query, the cache of owners, the claim and adopt commands |
| `MCBareNames` | the small instance; extends `MCBchWallet`, so that its run evaluates those assumptions |
| `BareNamesProofs` | the theorems about bare names |
| `BchTx` | transactions as sequences of bytes: serialising, parsing, token prefixes, `OP_RETURN` metadata |
| `BchWallet` | coin selection, fees, the claim and rebind transactions, upon `BchTx` |
| `MCBchWallet` | what these two promise, as named assumptions over bounded inputs |
| `Queries` | DNS queries for a bare name under way at the same time: slots, the resolver's cache, the registry's cache and the Electrum client under both |
| `MCQueries` | its small instance |
| `QueriesProofs` | the theorems about queries |

What `Replication` takes as one step, recording a pushed set, is what `ContentService`
models in detail. What `Queries` takes as a number of calls, one of which settles the
owner, is what `BareNames` models in detail.

### How the model corresponds to the code

`disk` is the content directory, `file` the sets recorded in `index.json`;
`sets`, `blobs`, `pending`, `reserved`, `dirty` are the fields of the same names
of the Go struct. `up` says whether the process runs, `now` is the clock, and
`writer[w]` is one goroutine with the locals that matter: what it is doing, the
root, the blobs still to come, the hashes in its `BlobClaims` handle and the
bytes promised to it. A goroutine's step ends where another can get in: at a call
that takes the mutex, or at a blob written to the directory.

| Code | Actions |
|---|---|
| `handlePushStream` | `PushOffer`, then `PushHave`, `PushDecline` or `PushAccept`; per blob `ClaimNext` and `PutNext`; `PushCommit`; on any failure `RollBack` and the deferred `PushRelease` |
| `PutStream` | `PublishStart`, `ClaimNext`, `PutNext`, `PublishRecord`, `RollBack` |
| `FetchStream`, `chunkReader` | `FetchRemote`, `FetchAdmit`, `ClaimNext`, `PutNext` (the root), `FetchRecord`, `FetchChunk`, `FetchClose` |
| `handleStream` | `ServeBlob` |
| `healLoop`'s flush | `FlushIndex` |
| a broken stream, a bad blob, a full disk | `TransferFails`, `PutFails`, the second disjunct of `Save` and `SaveCommitted` |
| death and restart | `Crash` (between two steps, or inside `DiesDiscarding`, `DiesEvicting`), `Start` = `LoadContentIndex` |
| a service that could not load its index | `StoreUnindexed`: it takes what it is sent or publishes and counts nothing |

A write of `index.json` goes to a temporary file that is renamed, so that one that fails changes nothing, and every
caller ignores the error: `Save` is a write or, with `IndexMayFail`, nothing. `CommitHosted` may write twice, for the eviction and for
the new set, each of which may fail (`SaveCommitted`). At the start a failure to read or write the file leaves the process without an
index (`contentnet.go:86-91`). Seen from the store such a process is one that is not `up` and yet puts blobs into the directory:
it records, claims, evicts and rolls back nothing. A file that cannot be *parsed* is taken for an empty one
(`contentindex.go:83`); writing as above never leaves such a file, which is what the mutant `SaveInPlace` is about.

In `ContentIndex` the eviction loop of `fitLocked` is one set of victims per pass
(`EvictionPasses`): closed under the order in which victims go, and no larger than
needed. `EvictionLoop` has the loop itself and shows that this is right: whatever the loop does
is what one of these passes does (`CallIsOnePass`), and what a death in the middle leaves is what
`DiesEvicting` takes it to leave (`DeathsForeseen`). Conversely each of these passes is one
the loop can make, ties in map order included (`PassesStayOpen`).

| Code | Actions of `EvictionLoop` |
|---|---|
| `fitLocked` | `Refuse` (more than the budget or the cap), `Enter`, then `HasRoom`, `NoVictim`, or `Evict` or, in a dry run, `Spare`; both ways to return write the index once, if it can be written (`Return`) |
| `evictLocked` | `ReleaseBlob` for the root and for each entry of its list of chunks, `EvictEnds` |

The mutex is held for the whole call, so the loop is the only thing that moves: `before` is the store it found.
It starts from any sets there may be, not only those that `ContentService` reaches.

Blobs are model values with a size; a manifest is a record of its chunks and
their total size; no chunk is itself a manifest. A set's bytes are summed by
counting pairs, which lets the provers reason with cardinalities.

`NameRecords` models one name: names share nothing, since every label has a key of
its own and with it its own lock, DHT key and entry in the map of owned records.
`client[c]` is one publication under way with the record it found and the one it
signed, `owned` the name's entry in `FreedomNameNode.owned`, `republisher` the
snapshot `republishOwned` is working through, `local` and `stored` what the node's
own DHT store and its peers hold. `newest` is no variable of the code: it is the best record
whose publication succeeded, while the node stands by it.

| Code | Actions |
|---|---|
| `Service.Publish` | `ServiceBegins` (takes the lock), `Resolve` or `ResolveFails`, `Build` or `BuildFails`, then `PublishRecord` |
| `publishRecords` of the command line with `RecordHandler` and `PublishHandler` | `CommandBegins`, `Resolve` or `ResolveFails` (which goes on), `Build` or `BuildFails`, then `PublishRecord` |
| `PublishRecord` | `Put` or `PutFails` (the own store), `SpreadTo` or `SpreadFails` (the peers), `Own` (the map) |
| `republishLoop`, `republishOwned` | `RepublishBegins` (prune and snapshot), `RepublishPut`, `RepublishSpread` |
| the clock, the age limit of the store, peers that leave, a restart | `Tick`, `LocalDrops`, `PeerDrops`, `Restart` |

The DHT is a library and modelled from its use: `PutValue` refuses a record if the
own store holds a better valid one, writes that store and then asks peers, each of which
decides for itself; it fails when it cannot look for peers. `GetValue` returns the best
of the own store and any subset of the peers. `Accepts` and `IsBest` are `Validate` and
`Select`. The clock's unit is long beside one DHT operation (a minute at most), so time
does not pass during one; it may pass between a lookup and the publication that uses it.
`nextSeq` takes its numbers from the same clock, coarser than the code's seconds, which
makes equal numbers and a clock behind the sequence common instead of rare.

`Replication` models one set. A worker is a goroutine that pushes: the heal loop of a
node, or the publisher's background `replicate`. `pass[w]` is its list of peers and how
many replicas it still needs, `stream[w]` its push stream as both ends see it, `copy[n]`
what the index of a node has (`partial`: recorded, its chunks not all there),
`record` the provider records of the DHT.

| Code | Actions |
|---|---|
| `PutStream`, `replicateOwned`, `replicate` | `Publish`, `Announce`, which begins the pushes when it is over (`ReplicateOwned`) |
| `healAll`, `heal`, `providers` | `Heal` (when the records found are too few: `Tops`), then the pushes |
| `pushTo`, `pushOnStream` | `Offer`, `Answered`, `SendBlobs`, `Answered` (the final byte), `Deadline`; `PassEnds` |
| `handlePushStream` | `Reply`, `Commit`; `CommitUnseen` when the pusher is gone |
| `announce`, `provideLoop` | `Announce`, which may fail, `Provide` |
| `FetchStream`, `chunkReader` | `Fetch`, `ReadOn` |
| what goes wrong | `Crash`, `Restart`, `Break`, `Evict`, a refusal in `Reply` or `Commit`; `Expire` is the DHT's |

The closest peers are one fixed order, the same for every node, and all nodes are among
those that the DHT returns. A pass goes through them from the closest on: what it has left is a set (`rest`), and
`Approach` takes the closest of it. `lacked` is a history variable: a push has failed because its pusher no longer had the set,
or not all of it. `providers` stops after 20 seconds and returns what it has found, without an error: `Heal` finds
any part of the records. A lookup that misses the publisher counts as something that goes wrong (`Missed`); one that misses other holders
does not, for they are met again on the way down the list and answer that they have the set.
The query for the closest peers may fail as well, which ends the pass: `replicate` and `heal` may do nothing. A provider record outlives the interval between two
announcements of a node that stays up. Receivers that commit late are a set: two late
commits of one receiver store the set once.

`BareNames` models one name. `txs`, `height` and `tip` are the chain and its mempool, `reader[q]`
is one call of `ResolveOwner` with the locals of `resolve`, `cache` the registry's entry. `truth` is a
history variable, the owner by the rules of the registry on the chain as it is. So are `seen`, the owners there were
during a lookup, and `stale` of the cache, for how long its entry has been wrong. An answer that the owners in `seen` do not
justify (`Justified`) counts as wrong for longer than anything may be.

| Code | Actions |
|---|---|
| `ResolveOwner`, `cacheStore` | `Ask`, `Return`, and `Answer` inside the steps that end a lookup |
| `resolve`, `winningClaim` | `ReadHistory` (tip and history are read together: claims count by confirmations only), `Match` |
| `currentCommitment`, `findSpender` | `Hop`, `HopsExhausted`; any query may fail, `LookupFails` |
| `cliClaim`, `cliAdopt` | `Claim`, `Adopt`, which broadcast; the lookups before them can only stop a command |
| everybody else | `Transfer`, `Burn`, `Announce` (metadata and dust at the marker), `PayWallet`, `Mine` with reorganizations, `Tick` |

Time is in what entries and lookups have left. Scans cut off to the oldest or newest `MaxScan`
transactions are part of which claim wins. `findSpender` follows spends in the mempool, as the code does.

`BchTx` and `BchWallet` have no state: every definition is a function of the Go file of the
same name. What is written are numbers below 2^31; what is read may be any. A length of 2^31 or more is longer than the buffer
(`Short`), unless it is so close to 2^63 that `readBytes` overflows when it adds the position, and slices with a negative bound, which
panics (`Panic`). Hashes, public keys and signatures are
parameters, a signature of 72 bytes. The readers that return errors return records with a flag.

`Queries` models one bare name. `query[q]` is one call of `handleFN` with the state of the
lookup under it; `left` is the time its own context has, `chain` that of the
context of `ResolveOwner`, which the query does not bound. `holder` has `ElectrumClient.mu`.
`down` and `gone` are history variables: the servers a lookup could have found down, and
how long ago each owner was last the name's.

| Code | Actions |
|---|---|
| `handleFN` | `Ask` or `Shed`; `Answer` inside the steps that end it |
| `Resolve`, `dhtKeyForName`, `MemoryCache` | `AnswerFromCache`, `OwnerCached`, `LookUpOwner`, `WalkFinds`, `WalkFails` |
| `call` | `Lock`, then a dial or the request |
| `connect`, `dial` | `DialSucceeds`, `NextDial`, `ConnectFails`; `late` if a dial exceeded a deadline |
| `callLocked` | `Settle` (the server reads the history that settles the owner, in any of the calls), `Reply` (the last one stores that owner in the registry's cache), `RpcError`, `BadReply`, `CallFails` |
| time, servers, the chain | `Tick`, `ServerChanges`, `Transfer` |

A server is up, refuses, or accepts and says nothing. A server that cannot be reached is one that
refuses, after the dial timeout. A silent one ends a TLS dial by the dial timeout, or whatever waits for it by the deadline of the lookup: `NoDial`
leaves open when. `findSpender` reads the history of the output the NFT is at (`registry_bch.go:388`) and then fetches its transactions one by one
(line 394), each a call that takes the lock again, before the owner is cached for its full time (line 126). `Settle` may therefore come at any
call, and the others after it. Request ids are left out: one request is open at a time, and every
error but a server's own closes the connection.

## 3. Runs

Blobs `m`, `n` are manifests, `a`, `b` chunks, each of one byte; `m` is
`<<a, b, a>>` (one chunk named twice), `n` is `<<b, b>>`, so `m`, `n` and the
one-blob set `b` share a blob and every kind of sharing the index can meet occurs:
within a set, between sets, between a set and a chunk. The budget holds one large
set or a few small ones, so that eviction and refusal both happen.

| Run | Asks | Bounds |
|---|---|---|
| `content_concurrent` | Do two writers side by side ever break a set, leave bytes over, or exceed the budget or a promise? Does the store look like `ContentStore` from outside? | two writers that push and publish `m`, `a`, `b`; budget 4; clock 0..1 |
| `content_recovery` | Are the ledgers exact and the operator's content safe with fetches, blobs and index files that cannot be written, processes without an index, and a death at any point? | two writers, all traffic, the set `m` and its chunk `b` as a set of its own, blobs on disk before the first start, `MayCrash`, `DiskMayFail`, `IndexMayFail` |
| `content_fetch_overrun` | By how much can fetches that are admitted side by side exceed the budget? Does making room take the sets used longest ago, and no more than it needs? | two writers that push and fetch all four sets; budget 4; protection 1, TTL 1, clock 0..2, so that a set is protected, then evictable, then expired |
| `eviction_loop` | Does the eviction loop come to an end, do what one pass does and every pass, foretell it in a dry run, and leave after a death what a crash is taken to leave? | one call, from every index over three blobs (a manifest that names one chunk twice, and its chunks, each of which may be a set too), with or without a blob missing on disk; three ways of claiming; budget 4, sizes 1, 3 and 5, one byte promised; TTL 1, protection 1, times 0..2 |
| `content_duplicate_push` | violation: hosted content is only removed to make room | two pushes of one set |
| `content_fetch_orphan` | violation: nothing on disk that is not accounted for | a push evicts what a reader is still fetching |
| `name_records` | Does the node republish and keep the newest record it published, and does every publication supersede it? | two publications with the service and one with the command line, one peer, two bodies; `MaxSeq` 4, clock 0..4, records live 3, the store forgets after 2, republishing every 1 |
| `name_records_overlap` | violation: a node's records never expire while it is up | two command lines at once |
| `bare_names` | Is every answer about the owner justified by what was true during the lookup, is the cache as recent as its timers say, and does the first claim keep the name? Are the codec's and the wallet's assumptions true? | one lookup at a time (two overlapping ones multiply the states beyond a run's time), two users, three transactions, one of others; reorganizations of one block with two confirmations asked for; scans of 2, custody of 1 hop |
| `replication` | Do passes end, without going back to a peer they have tried, do holders recover after a fault, and do overlapping healers make no more copies than that? | four nodes, two copies, one user who fetches, one fault; two peers closer than the publisher |
| `replication_partial` | violation: every holder is one more replica to rely on | no fault, a user who stops reading |
| `queries` | Are all queries answered, with recent owners, are slots given back, does failover pass no server over, and does no failure send a lookup back? | three queries, two slots, two servers, two calls to a lookup, timers of 1 or 2 ticks, one change of a server or the owner |

Two writers suffice for what is shared: a ledger is touched by one call at a time
and the hazards are pairs (a rollback or eviction beside a transfer); the theorems
of section 5 hold for any number. The clock of `content_concurrent` lets a set be protected
and then evictable, that of `content_fetch_overrun` expired as well; in `eviction_loop` the sets of one index may be of all three kinds, expired ones included. Publishes make no room and are
left out of `content_fetch_overrun`, which keeps it within a run's time; the theorems have them. `MaxNow` is the only bound that is not a
parameter of the code; everything else is finite because the writers are.

For names, the order of the times is that of the code (8 hours, 36 hours, 7 days: the
interval is below the age, the age below the life of a record), the clock runs past the end
of life of a first record, and `MaxSeq` is small enough to be exhausted. `Overlap` = FALSE
says that the command line is not used while another publication of the same name is under way;
publications with the service may always be requested together. One peer can hold an older record than the
own store, or none, which is all a lookup can tell apart.

Every property of a passing run has a mutant in `PROJECT.json`: a plausible bug in
the code under which the property fails on the same instance. The faulty variants
stand next to the definitions they replace.

For bare names, limits of 1 and 2 stand for the code's 64 hops and 512 history entries, so that
three transactions can exceed each of them; a lookup can be overtaken by a transfer, a burn, a claim
and a reorganization between any two of its queries. For replication, four nodes with a target of two copies are the
publisher, a holder and two more that passes of both may choose; with the one fault that may
be spent on a crash, a stream that breaks when the receiver has stored the set or when it has not, a refusal, an announcement that fails, a
lookup that misses the publisher, or an eviction. The closest peers are `<<a, b, p, c>>`: both that come before the publisher may get a
copy from a pass that does not know of it. (With two
faults, safety holds on four nodes and liveness on three; those runs take too long to keep.) For queries, three are needed for
the longest chain of caches: one reads the owner, another finds that owner cached and
fills the resolver's cache, the third is answered from it. A lookup has two calls, so that the owner may be read with the first and cached
with the second. `OwnersRecent` is tight: with a bound one less, TLC finds it violated. Servers are up or refuse at the start and
one of them, or the owner, changes; the client starts at the second of two servers, so that failover
wraps around, and both may be down. (Starting at the first is the same with the servers renamed.)

`HealersConverge` has the condition that no push failed for want of the pusher's own copy (`lacked`).
A holder whose copy is evicted in the middle of its healing pass goes through its whole list of peers and pushes to none: it
neither stops nor counts, so it says nothing to the passes beside it; but one whose copy comes back meanwhile, or is
completed, goes on from where it is, past peers that the other passes have chosen, and adds copies beyond them. On four nodes
there is no room for this. TLC finds it on six with `Replicas = 3`, a target of four: one eviction, and all six have a copy. Up to the first such
failure the bound holds for any number of nodes, faults and overlapping passes (section 5).

`Missed` makes a lookup that does not find the publisher one of the faults, and an announcement that fails is one too. They cost a copy: the
publisher does not take pushes of what it has, but it counts among the holders, and a pass that does not know of it
chooses as many peers that are closer as the target asks for. With those faults left out of the count TLC finds three holders where the target is two.

`AnswersJustified`, `NotFoundJustified` and `CacheRecent` except names whose NFT has moved more often than a lookup
follows (`LongCustody`; the code's limit is 64). There the walk ends at an output that is not the last one and
answers by its commitment: a former owner, or, if that commitment was never bound, that there is none, which is cached for the
30 seconds of a name nobody claimed. TLC finds both with a longer scan than `bare_names` has.

No deadlock is checked: a node with no traffic stands still once its clock is at
its bound, its user has no more to fetch or all queries are answered.

### What the violations show

1. *A set pushed twice at once evicts a third* (`content_duplicate_push`).
   `CommitHosted` makes room before it finds the set already indexed.
2. *Chunks of an evicted set land on disk unaccounted* (`content_fetch_orphan`).
   The reader caches chunks without claiming them, relying on a set that may be gone.
3. *The newest record drops out of the DHT while its node is up*
   (`name_records_overlap`). `PublishRecord` overwrites the tracked record with whichever
   publication reaches the map last, not with the better record.

4. *A node that has a part of a set counts as a copy of it* (`replication_partial`).
   `FetchStream` records and announces a set before its chunks have been fetched, the
   index answers `pushHave` for it, and no holder pushes to it again. `HoldersToppedUp` in `replication` is what
   does hold: of nodes that have the set in their index, whole or not.

More disagreements have no run of their own, because a passing run shows what remains true:

- `website/docs/guide/limitations.md:107` says of the hosting budget that it "is a hard ceiling". `FetchStream` calls
  `admitHosted` and then `AddHosted`, with the writing of a blob between them and no reservation (`contentnet.go:296-303`,
  `312-315`): two fetches are admitted against the same usage and both recorded, the overshoot that `Reserve` was written to
  prevent for pushes (`replicate.go:194-196`). With fetches, what holds is `OverrunBounded`: the
  excess is at most the largest set there may be for each writer but one. `WithinBudget` holds without fetches, and
  with them for a single writer (`OneWriterKeepsBudget`).
- `electrum.go:26-28` says the client tries each endpoint in turn "so a single dead public server
  never takes the registry down". A server that refuses is passed over (`FailuresJustified`).
  One that is silent while TLS is set up is given up after 15 seconds (`electrumDialTimeout`), which leaves half of the lookup's time for the next; a second such one
  uses up the rest. One that accepts the connection and does not answer the version request consumes the deadline of the
  whole lookup (`electrum.go:217-222`), all further dials fail, and `lastGood` is
  still the same, so that the next lookup begins with the same server. That is the second
  disjunct of `FailuresJustified`, and it cannot be dropped.
- `website/docs/guide/resolving.md:41-43` says that a lookup that times out returns SERVFAIL and that NXDOMAIN is for a
  name that does not exist. `handleFN` looks for `context.DeadlineExceeded` in the error (`dns.go:172`). A dial that runs into its timeout satisfies that, through
  the errors that `connect` joins, and the answer is SERVFAIL, also if the other servers refused. The deadline of a socket does not: a server
  that has accepted the connection and then says nothing makes a bare name NXDOMAIN (`CallFails`; during the negotiation too: `TimedOut` leaves open where a silent server stops answering), and so does
  every error that is not about time (`RpcError`, `BadReply`, a scan cut short).
- The comment on `bchRegistry` (`registry_bch.go:36-38`) says of the owner's key that the lookup falls back to "the last valid binding if a plain
  wallet transfer left the commitment unbound". The code does not (lines 297-310): a commitment that no revealed key matches means that the name has no owner.
  `website/docs/guide/bare-names.md:185` says the same as the code, "there is no fallback binding". `NotFoundJustified` is about the code and that page; the mutant of
  `AnswersJustified` is what the comment describes.
- `MarkOwned` and its callers ignore that `index.json` could not be written (`contentindex.go:205`, `230`, `505`; nothing is logged either). A publication then succeeds, and
  a restart before the next write that does finds its blobs without an entry and adopts them as a hosted set, which counts against the budget and may be evicted.
  `website/docs/guide/content.md:88` says "Your **own published content is never evicted**". What holds is `OwnedDurable`: once a write has succeeded, nothing takes the set
  away again, failing writes included.

Because of the second violation, and as a fetched set is recorded before its chunks are there, `SetsComplete`, `NoOrphans` and the refinement are
checked without fetches, where they hold.

## 4. Fairness

`Replication` and `Queries` state weak fairness, and have the liveness properties.

`Replication`: the pusher's and the receiver's side of every stream, the heal loop's timer, announcements,
`provideLoop`, the expiry of records of nodes that are gone, and the commit of a
receiver that has everything. Of the heal loop it is `HealFindingAll` that is fair: a pass has to begin when the records that there are
are too few. One that begins because its lookup has missed some may happen, and need not. They are goroutines that run, loops on a ticker, and a session
that `pushDeadline` bounds. Nothing that goes wrong is fair, and neither is a restart, a fetch or
reading on: a node that is down may stay down, a user may stop reading. Weak fairness suffices because
each of these steps stays enabled until it is taken or a fault intervenes.

`Queries`: the steps of every handler, and time. A handler waiting for the lock has it free
again and again; weak fairness is enough because every query makes a bounded number of calls, so
that the others come to an end. (Go's mutex is starvation free, which would be strong fairness.)
Servers owe nothing: `EveryQueryAnswered` holds if none ever answers.

`ContentService`, `EvictionLoop`, `NameRecords` and `BareNames` have no fairness: their properties are
safety properties. That a call of `fitLocked` returns is one as well: every step leaves less to do
(`StepsRunOut`), and the run has TLC look for a loop that is stuck, which would be a deadlock.

## 5. What is proved

Every safety invariant and every action property of the passing runs is proved, and so is the
refinement; the liveness properties are not. Each inductive invariant was checked with
TLC before it was proved.

### Content

Assumptions: `ContentAssumption` (sizes are naturals, manifests list blobs that are
not manifests), `PolicyAssumption` (budget, cap, TTL and protection are naturals), `FailureAssumption` (a write of the index file may fail or
not) and `ServiceAssumption` (the writers form a finite set, and so do the blobs found in the directory at the first start). Nothing
bounds the number of blobs, writers, claims or sets.

| Theorem | States |
|---|---|
| `TypeCorrect` | `Spec => []TypeOK` |
| `AccountingHolds` | `Spec => []Accounting`: references, claim counts and reservations are exact |
| `OwnedIsComplete` | `Spec => []OwnedComplete`: the operator's sets are whole on disk |
| `OwnedIsDurable` | `Spec => OwnedDurable`: published stays published, across restarts and writes that fail, once a write has recorded it |
| `RecordedBytesAreKept` | `Spec => RecordedBytesKept`: no step takes a blob of a set that stays |
| `EvictionIsNeeded` | `Spec => EvictsOnlyWhatIsNeeded`: a pass evicts hosted sets in the order of their use, and none more than the room it makes needs |
| `SetsAreComplete` | no fetches, no crash: `Spec => []SetsComplete` |
| `NothingIsOrphaned` | no fetches: `Spec => []NoOrphans`, through crashes and failing disks |
| `BudgetIsKept` | no fetches, no crash, an empty directory to begin with: `Spec => []WithinBudget` |
| `OverrunIsBounded` | no crash, an empty directory to begin with: `Spec => []OverrunBounded`, with every kind of traffic |
| `OneWriterKeepsBudget` | the same and one writer: `Spec => []WithinBudget` |
| `PromisesAreKept` | the conditions of `BudgetIsKept`, and sets that live at least as long as they are protected: `Spec => []PromisesFit` |
| `StoreIsImplemented` | under the same conditions, and if no write of the index file fails: `Spec => ImplementsContentStore` |

None of these conditions can be dropped. With fetches side by side the budget is exceeded and the second violation of section 3 breaks
`NoOrphans`, and a set is recorded before its chunks are there. After a crash within an eviction the file names hosted sets whose blobs
are gone, and blobs that are adopted count against the budget without having been admitted. If a set expired while it was still protected
(`0 < HostTTL < EvictionProtection`; the defaults are 30 days and an hour, and the first is configurable), a pass would evict by age what
the promises count on as staying; TLC shows the violation. If a write of the file fails, what it records is not what the node holds.

*Types.* `Inv` = `IndexOK /\ up \in BOOLEAN /\ WritersOK`. `WriterOK` says more than
a type: a blob is claimed before it is written, the claims and what is still to
come make up the set, and only a push that is receiving holds a promise.
`DownOK` adds that a process that is down has no claims.

*Ledgers.* `ClaimsCounted` compares a counter with the cardinality of the claimants
of a blob, `ReservationsCounted` with that of the promised bytes. Each is preserved because every
action adds or removes exactly the elements by which it changes the counter;
`Released` subtracts the number of times a handle holds a hash, and is exact only because
the handle's claimants are among those counted. `RefsExact` follows each change of
`sets`.

*Durability.* `DurableInv` adds three facts to the ledgers: the owned sets of the file are in memory, and
the other way round if every write succeeds (`OwnedSaved`); the owned sets of both are whole (`Whole`), as memory may be ahead of a file
that could not be written; and what a writer has claimed and is past writing is on disk (`AllWritten`), without
which the moment of recording could not be justified. The argument that no deletion
hurts is the same for rollback and eviction: a deleted blob is unreferenced, and
unclaimed but for the handle that is being rolled back (`EvictionSpares` and the
`Spares` lemmas), so by `RefsExact` and `ClaimsCounted` no set that stays and no
transfer in flight holds it. A death within a deletion deletes a part of the same blobs. A
set that a commit evicts and stores again keeps its blobs because the commit's own
claims protect them (`EvictionKeepsRecorded`).

Without `pending[h] = 0` in `Evicted` the proof of `EvictionSpares` fails, as it
should.

*Evictions.* `PassIsNeeded` reads off a pass of `EvictionPasses` what it takes: sets that may go, none of which was used later than one that
stays, and a last one without which there was too little room. That expired sets go first does not disturb the order of use, for an expired set
was used before one that is not. `EvictsOnlyWhatIsNeeded` speaks of what a step leaves behind, which needs `InBounds`: no set, in memory or in the file,
was used later than now, so that a set just touched or stored comes last, or takes more bytes than `SetSize` says, so that a set evicted by the commit that
stores it again makes as much room as it takes.

*What is on disk.* `Transfers` says that a transfer that is not a fetch claims and writes nothing but its own set, all of
which it has claimed when it records it. `Agreed`: the set that a push brings has the chunks which the
index records for its root, if it has the root, so that a push which loses the race against another records nothing new. With the ledgers
these make `NoOrphans` inductive: every blob of a discarded handle is referenced, claimed by another handle, or deleted.
`SetsComplete` needs in addition that a node that is down has an empty index file (`Pristine`), as it has until its first start.

*The budget.* Sums of bytes are cardinalities of sets of pairs (`SetBytesIn`), so that the sum over what stays after an eviction
is that of a subset. A pass that makes room ends with enough of it (`BudgetIsKept`). That a pass *can* make the room that was promised
is `YoungFit`: what is promised fits next to the sets still within their protection. It is preserved because an
offer is admitted against the usage and the promises so far, a commit moves bytes from the promises to the young sets, and time only takes sets
away from the young. `InTime` (no set is stored or used later than now) keeps a set young that has just been stored.

*The budget with fetches.* `Overrun` adds to what is stored what is `Due`: the bytes of each fetch that has been admitted and not yet
recorded. An admission measures room against what is stored, not against what is due to the others, so that the two together come to the
budget and one set for each other writer; recording moves bytes from the one to the other. `DueOK` bounds each such set by `MaxPushSize`, which an admission has checked.
`DueBound` counts the rest.

*The refinement* needs that what the abstract store holds is what is recorded in memory (`Current`), recorded sizes are those of
the sets (`Sized`), and that nothing is on disk before the first start (`Bare`).

| Theorem | States |
|---|---|
| `LoopTypes` | `Spec => []TypeOK` of `EvictionLoop` |
| `LoopIsOnePass` | `Spec => []CallIsOnePass`: the loop does in many steps what `ContentIndex` does in one |
| `EveryPassIsOpen` | `Spec => []PassesStayOpen`: and whatever `ContentIndex` allows in one step the loop may do |
| `DryRunForetells` | `Spec => []DryRunTells`: a dry run answers as every real run would, whichever ties it takes |
| `DeathsAreForeseen` | `Spec => []DeathsForeseen`: a death in the loop leaves a part of one pass |
| `LoopRunsOut` | `Spec => StepsRunOut`: every step leaves less to do |

*The eviction loop* is proved under `LoopAssumption`: finitely many blobs, and anything for the sizes asked for, the bytes
promised, the claims and the directory. The invariant `LoopInv` has four parts beside the types. `Found` is what any store satisfies before a
call: a set's chunks are those of its manifest or, if it was adopted without them, none, and `blobs` is what the sets say. `Scan`: the sets picked so
far (`Picked`: removed, or spared by a dry run) are closed under the order of victims, without the last of them there was too little room, and the bytes that count are those of the sets that were not picked. `Stored`: references, directory and file are those of the store before, without what
was removed; between two blobs of one victim, `Releasing` says how far it has got: a blob still to be released
has its old reference, a released one has not, and the root is the first. When the loop ends, `Picked` is a pass (`PickedIsAPass`). Before that, what
is picked can be completed to one (`PassCompletes`), which is what `DeathsForeseen` needs: a death is no end of the loop, and is compared with
a pass that the loop might have gone on to. Two completions may differ, but all of them answer the same
(`DryRunTells`), as there is room in the end exactly if there is without every set that may go.

For the converse (`EveryPassIsOpen`), a pass has a set that can come last. Without it there is too little room, hence also without any
part of the rest (`RoomGrows`), and the first to go of what remains (`FirstVictimExists`) is a victim of the loop.

Model-checked only: that the loop is never stuck before it returns.

### Records

Assumptions: `RecordsAssumption` (bodies, times and bounds are naturals, the republish interval
is below the age limit of the store) and `NoneAssumption`. Any number of clients, peers and
bodies.

| Theorem | States |
|---|---|
| `BetterIsStrictTotalOrder` | `betterRecord` is a strict total order on records |
| `TypeCorrect` | `Spec => []TypeOK`, overlapping publications included |
| `NewestIsOwned` | `~ Overlap => (Spec => []OwnedIsNewest)` |
| `NewestIsAvailable` | `~ Overlap => (Spec => []NewestIsHeld)` |
| `BuildsOnTheNewest` | `~ Overlap => (Spec => []BuildsOnNewest)` |
| `PublicationsDoSupersede` | `~ Overlap => (Spec => PublicationsSupersede)` |

Without `~ Overlap`, `OwnedIsNewest` and `NewestIsHeld` are false: that is the third
violation of section 3. The inductive invariant `Inv` is
about time as much as about records. `OneAtATime`: at most one publication is under way, and if it is the
service's it has the lock. `OnTime`: the clock is at most an interval past the last tick.
`UnderWay`: a record that has been put and is on its way to the peers is in the own store,
put there now, unless a better one has replaced it. `Kept`: while the newest record lives it is
the owned one, the own store holds it, and was last given it at or after the last tick,
*or* the republisher has it in its snapshot and is about to put it. This last alternative is what
carries `NewestIsHeld` over a tick, and `RepublishPutKept` shows that the pending put
cannot be refused: the store could only refuse it for a better record, and holds none unless a
publication has just put it. `NewestIsHeld` alone is not inductive, and neither is it
without `OwnedIsNewest`. TLC found no violation of `Inv` with a clock that runs to 7.

The promise ends in three situations, in which `newest` becomes `None`: a restart (the map and the
store are in memory), a publication that fails after it has written the own store
(`SpreadFails`), and a publication that a snapshot's older but better record overtakes.

### Queries

Assumption: `QueriesAssumption` (finitely many queries, at least one server, slot and call, every timer at
least one tick). Nothing bounds how many there are.

| Theorem | States |
|---|---|
| `Types` | `Spec => []TypeOK` |
| `SlotsAreKept` | `Spec => ShedOnlyWhenFull` |
| `AnswersAreOfRecentOwners` | `Spec => OwnersRecent` |
| `FailoverTriesAll` | `Spec => FailuresJustified` |
| `LookupsMoveOn` | `Spec => LookupsGoForward` |

*Slots.* `SlotsCounted` says that the slots taken are as many as the queries in handling. `QueryMoves`
reduces each step of a query to a move of its handler that takes a slot,
gives one back or does neither, and `MoveCounts` follows the cardinality. `TypeOK` alone is not
inductive: that a slot can be given back without going below zero is `SlotsCounted`.

*Recent owners.* `Fresh` bounds how long ago an owner was the name's at each place
it is kept, by how far the timer of that place has run down: in a lookup that has read the owner by `ChainTimeout - chain`, in the registry's
cache by what that was at most and `OwnerTTL - left`, on a walk by both and `Timeout - left`, in the resolver's cache by all three
and `RecordTTL - left`. A tick ages owners and runs timers down alike. A lookup may wait for the lock and for servers between any two of its
calls, after it has read the owner too, and puts what it read into the cache for the full `OwnerTTL`. What bounds this is
the deadline on the socket, without which (mutant `ConnectedForever`) there is no bound. `ResolveOwner` may outlive the query that asked for it; then the
walk's timer has run out and the resolver caches nothing.

*Failover.* `Dialing`: whoever dials has the lock, so `lastGood` does not move under it;
it knows of every server that is down; and each it has tried was. `TriesReachAll` is
the arithmetic of the wrap-around: as many tries as there are endpoints, from any of them, reach all.

*Going forward.* `Left(q)` measures how much of a lookup is left: its stage, the calls it still has to make, how far it is from the
lock, from a connection and from an answer, and the endpoints it has not dialed. `StepsForward` shows that every
step of the lookup itself lowers one of these and leaves those before it alone, whichever way the step
fails; time, servers and other queries, even one that holds the lock, leave them as they are. No
failure starts a lookup over, then, so that it has finitely many steps.

Model-checked only: `EveryQueryAnswered`, which needs fairness. `LookupsGoForward` is the half of it that does not: that a
lookup cannot go round for ever; that it does not stand still is fairness.

### Replication

Assumption: `ReplicationAssumption` (finitely many nodes, all of them among the closest peers, each once; at least one replica). Any number of
nodes, faults, users who fetch and passes at once.

| Theorem | States |
|---|---|
| `Types` | `Spec => []TypeOK` |
| `AllHealersConverge` | `Spec => []HealersConverge` |
| `PassesMoveOn` | `Spec => PassesGoForward` |

Healers do not know of each other. They converge because all of them go through the same list from the same end, and the
invariant `Inv` says how far down the list one can get. `WithinReach`: every copy that no user fetched is at one of the first
`Replicas + faults` peers that have room (`Reach`), or the publisher's own. To preserve it a pass must not choose a peer further down, which is
`PassesBudgeted`: what a pass still needs, the nodes with room that it has behind it, and the nodes still to come that will not count
(`Doubtful`: gone, failing just now, or the publisher, if the pass does not know of it) come to no more than the target and the faults. A pass that needs one more copy when it gets to
a peer has therefore at most `Replicas + faults` such peers behind it. When a pass begins, the peers with room that it takes for holders are settled, and
those that it does not know of are still before it, where they answer for themselves or are down, which is a fault (`GoneCounted`: so is a publisher without a record that is not about
to announce). A pass that does not know of the publisher fills its need with peers before it, so that a lookup which misses it has to be a
fault of its own (`Missed`, `BudgetBegun`). `InOrder` is what makes "behind" mean closer.
That `Reach` has as many elements as it should is the pigeonhole principle (`ReachBound`).

`TypeOK` is not inductive: that `need` does not go below zero is in `InOrder` (who waits needs a copy), and that nobody is approached before the
set exists in `Unpublished`. The condition `~ lacked` is the second half of section 3: a push that failed for want of a
copy leaves a peer behind the pass that is neither a holder nor a fault.

*Going forward.* `PassesGoForward` needs little of this. The peers a pass has not tried only grow fewer, what it needs never grows,
and an open stream only comes nearer to its end (`ToCome`), whether it is answered, breaks or waits for its
deadline. `ReplicateOwned` begins no pass over one that is running.

Model-checked only: `EveryPassEnds` and `HoldersToppedUp`, which need fairness. `PassesGoForward` is the half of
`EveryPassEnds` that does not: that a pass cannot go round for ever.

### Bare names

Assumptions: `ChainAssumption` (fewer blocks are replaced than confirmations asked for; within a block no two transactions have one place; ids are not
users) and `LookupAssumption` (scans of at least one transaction, times to live of at least one tick; the words for no owner are no
users). Any number of users, transactions, lookups at once and hops.

| Theorem | States |
|---|---|
| `Types` | `Spec => []TypeOK` |
| `FirstClaimKeepsName` | `Spec => WinnerStays` |
| `OnlyTheHolderMovesTheName` | `Spec => OnlyTheHolderRebinds` |
| `AnswersAreJustified` | `Spec => []AnswersJustified` |
| `NotFoundIsJustified` | `Spec => []NotFoundJustified` |
| `CacheIsRecent` | `Spec => []CacheRecent` |

*The chain.* `Grows` is what every step leaves as it is: transactions stay, a transaction with enough confirmations stays at its height, and
whatever is confirmed from now on is above it. This is where `MaxReorg < MinConf` is used (`MineGrows`). It follows that what counts at a height
of the chain that a lookup has read goes on to count, and nothing is added to it (`ConfirmedStays`, `ClaimsStay`, and `OldestStays`
for the part of a long history that is scanned); and that the first of the claims stays the first (`ClaimWins`, with
`FirstExists` for the existence of a first by counting predecessors).

*The NFT.* `CustodyHasEnd` and `CustodyHasOneEnd`: every NFT has got to exactly one output, or was burned when it was there. They are preserved
because a transaction spends what is not spent and passes the category on (`Sound`; `ChainSteps` shows that every action
broadcasts such a transaction). As long as nobody spends that output the owner stays (`OwnerStays`).

*Lookups.* `HistoryPhase` and `WalkPhase` say what a lookup knows. Before the history is read: the owner of the
moment it began was bound at the height it has read, or there was none. On the walk: it is the NFT of the claim that wins *now*, the outputs followed so far are a set
that grows by one with every hop (`Walked`, which takes the place of an induction over hops), and either the scan was cut short or a key is among the
bindings that owned the name in the meantime. `InformedStays` carries this over whatever the chain does between two queries. At an output that nobody
has moved on from, the answer follows from the owner of the moment (`EndAnswers`); a history that is not cut short shows every spender (`WholeHistory`,
`SpendersTouch`); and a walk stopped by its limit short of the end means `LongCustody` (`LimitMeansLong`).

*The cache.* `CacheInv` adds what an entry has left to for how long it has been wrong: at most the time to live and the limit of a lookup. A tick moves
one unit from the one to the other.

### The wallet

What `MCBchWallet` states of the codec and the wallet is evaluated over bounded inputs: the parsers
are recursive, and induction over data is out of the prover's reach.

## 6. Not modelled

- Errors of `Delete`, which the code ignores, temporary files of an interrupted write, and `fsync`: a write
  of `index.json` that has returned is taken to survive the process.
- Blobs that cannot be read when the index is loaded, which are not adopted.
- What a service without an index answers: it stores and serves what it has. `StoreUnindexed` is what it leaves in the directory.
- The bytes themselves: hashing, manifest encoding, the framing of the wire formats.
  An offer whose size is not the set's ends as a transfer that fails.
- Signatures and keys: every record of `NameRecords` is signed by its owner. In `BchTx`, the hash that is
  signed, and cash addresses.
- Several names and several sets at once: they share a budget (`ContentService`), slots and one Electrum client
  (`Queries`), and otherwise nothing.
- In `Queries`, the registry's entry for a name that nobody owns (it is in `BareNames`).
- The bound of 100 names in the resolver's cache and of the registry's, whose eviction only costs a lookup; the end of
  life that caps a resolver entry; conversion of records to DNS and the forwarding of other queries.
- The rate limiter: it delays bytes and decides nothing.
- What a second attempt does after the reply to a broadcast is lost.
- The DHT and libp2p (libraries), the other HTTP handlers and commands, configuration,
  scripts and the website: no state of their own that steps could get wrong.

## 7. What is left

1. **Content**: a bound on what a reader of an evicted set leaves on disk (the second violation).
2. **Name records**: readers at other nodes, and how far they may go back to an older record.
3. **Bare names**: the lookup that `Queries` takes as a number of calls, shown to be one of `BareNames`.
4. **Replication**: several sets under one budget, where a pass for one may evict another; a bound on the copies that holds after
   a pass has lost its own.
5. **Queries**: several names, whose lookups share the client and whose entries share the caches.
