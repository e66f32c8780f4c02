------------------------------ MODULE BareNames ------------------------------
(***************************************************************************)
(* The owner of one bare name: the transactions on Bitcoin Cash that claim *)
(* the name and move its NFT, the lookups that work the owner out from     *)
(* several queries to that moving chain (bchRegistry), the node's cache of *)
(* owners, and the command line that claims and adopts the name.           *)
(*                                                                         *)
(* A user has one owner key and one wallet address, and the user stands    *)
(* for both; the hash of a key determines the key.  The category of an NFT *)
(* is named by the claim that mints it: a claim spends an outpoint of its  *)
(* own, so no two of them mint the same category.  A transaction carries   *)
(* at most one token, so a transaction also names the output that holds    *)
(* it.  The network accepts no double spend and drops no transaction.      *)
(***************************************************************************)
EXTENDS Integers, FiniteSets

CONSTANTS
    Query,        \* lookups that the node makes together
    User,         \* owners, each with a key and a wallet
    Other,        \* what others do: "transfer", "burn", "announce", "dust"
    MaxTx,        \* bound on the transactions about the name
    MaxOther,     \* bound on those of others among them
    MaxTip,       \* bound on the height of the chain
    MaxReorg,     \* how many blocks a reorganization may replace
    MinConf,      \* FREEDOM_BCH_MINCONF
    Place,        \* the order of transactions within a block
    MaxScan,      \* maxHistoryScan
    MaxHops,      \* maxCustodyHops
    OwnerTTL,     \* ownerCacheTTL
    NotFoundTTL,  \* notFoundCacheTTL
    Timeout,      \* what bounds one lookup
    None          \* no transaction, no user

Tx == 1 .. MaxTx   \* transaction ids, in the order of their bytes

ASSUME ChainAssumption ==
    /\ MaxTx \in Nat /\ MaxOther \in Nat /\ MaxTip \in Nat
    /\ MinConf \in Nat /\ MinConf >= 1
    /\ MaxReorg \in Nat /\ MaxReorg < MinConf
    /\ Place \in [Tx -> Nat]
    /\ \A s, t \in Tx : Place[s] = Place[t] => s = t
    /\ None \notin Tx /\ None \notin User

ASSUME LookupAssumption ==
    /\ MaxScan \in Nat /\ MaxScan >= 1
    /\ MaxHops \in Nat
    /\ OwnerTTL \in Nat \ {0} /\ NotFoundTTL \in Nat \ {0} /\ Timeout \in Nat
    /\ {"notfound", "error", "none"} \cap User = {}

VARIABLES
    txs,     \* the transactions that were broadcast
    height,  \* the block of each, 0 while unconfirmed
    tip,     \* the height of the chain
    cache,   \* the node's cache entry for the name: how long it has left, and
             \* for how long it has been wrong at most (a history variable)
    reader,  \* what each lookup is doing, how long it has left, and which
             \* owners it could have seen (a history variable)
    truth    \* the claim that has won the name and its owner, as the rules have
             \* it and whatever a lookup sees (a function of the chain)

vars == <<txs, height, tip, cache, reader, truth>>
chainVars == <<txs, height, tip, truth>>

----------------------------------------------------------------------------
(* Transactions                                                            *)

Token == [category : Tx, commitment : User, holder : User]
NoToken == [category |-> None, commitment |-> None, holder |-> None]

Transaction ==
    [tag : {"FN01", "FN02", "none"},  \* parseFNMetadata
     key : User \cup {None},          \* the key that the metadata reveals
     marker : BOOLEAN,                \* pays the marker script
     pays : SUBSET User,              \* wallets it pays besides the token's holder
     spends : Tx \cup {None},         \* whose token it spends
     token : Token \cup {NoToken}]

HasToken(t) == txs[t].token # NoToken

SpentBy(t) == {s \in DOMAIN txs : txs[s].spends = t}

Unspent(t) == HasToken(t) /\ SpentBy(t) = {}

(* GetHistory of the marker script, and of a wallet's.                     *)
Marked == {t \in DOMAIN txs : txs[t].marker}

Touching(u) ==
    {t \in DOMAIN txs :
        \/ u \in txs[t].pays
        \/ txs[t].token.holder = u
        \/ txs[t].spends # None /\ txs[txs[t].spends].token.holder = u}

(* A history is sorted by height; what is unconfirmed comes last.          *)
Precedes(s, t) ==
    IF height[s] = height[t] THEN Place[s] < Place[t]
    ELSE height[s] # 0 /\ (height[t] = 0 \/ height[s] < height[t])

Oldest(history) == {t \in history : Cardinality({s \in history : Precedes(s, t)}) < MaxScan}
Newest(history) == {t \in history : Cardinality({s \in history : Precedes(t, s)}) < MaxScan}
Truncated(history) == Cardinality(history) > MaxScan

(* Faulty: one confirmation is enough. *)
ConfirmedOnce(t, tipSeen) == height[t] \in 1 .. tipSeen

Confirmed(t, tipSeen) == height[t] > 0 /\ tipSeen - height[t] + 1 >= MinConf

Claims(tipSeen) == {t \in Oldest(Marked) : Confirmed(t, tipSeen) /\ txs[t].tag = "FN01"}

(* Faulty: the last of the claims. *)
Later(s, t) == height[s] > height[t] \/ (height[s] = height[t] /\ s < t)

Earlier(s, t) == height[s] < height[t] \/ (height[s] = height[t] /\ s < t)

Winner(claims) == CHOOSE c \in claims : \A d \in claims \ {c} : Earlier(c, d)

Bindings(history, tipSeen) ==
    {txs[t].key : t \in {s \in history : Confirmed(s, tipSeen) /\ txs[s].tag # "none"}}

----------------------------------------------------------------------------
(* The owner as the rules have it, whatever a lookup sees of it            *)

(* The output that the name's NFT has reached, or the last one before it   *)
(* was burned.                                                             *)
Reached(c) ==
    CHOOSE t \in DOMAIN txs :
        /\ txs[t].token.category = c
        /\ \A s \in SpentBy(t) : ~ HasToken(s)

Hops(c) == Cardinality({t \in DOMAIN txs : txs[t].token.category = c}) - 1

OwnerBy(claim) ==
    IF claim = None \/ ~ HasToken(claim) THEN None
    ELSE LET k == txs[Reached(claim)].token.commitment
         IN  IF k \in Bindings(Marked, tip) THEN k ELSE None

WinningClaim ==
    LET claims == Claims(tip) IN IF claims = {} THEN None ELSE Winner(claims)

----------------------------------------------------------------------------
(* Lookups                                                                 *)

Idle == [pc |-> "idle", tip |-> 0, at |-> None, hops |-> 0, bindings |-> {}, truncated |-> FALSE,
         left |-> 0, seen |-> {}, cached |-> FALSE, result |-> "none"]

NoEntry == [result |-> "none", left |-> 0, stale |-> 0]

(* Whether an answer is true of the owner. *)
True(result, owner) == result = IF owner = None THEN "notfound" ELSE owner

Init ==
    /\ txs = [t \in {} |-> NoToken]
    /\ height = [t \in {} |-> 0]
    /\ tip = 0
    /\ truth = [claim |-> None, owner |-> None]
    /\ cache = NoEntry
    /\ reader = [q \in Query |-> Idle]

Become(q, state) == reader' = [reader EXCEPT ![q] = state]

At(q, place) == reader[q].pc = place

Asking(q) == reader[q].pc \in {"history", "walk"}

(* ResolveOwner: a cache entry that has yet to expire answers.  A lookup    *)
(* starts by reading the height of the chain (BlockHeight).                *)
Ask(q) ==
    /\ At(q, "idle")
    /\ Become(q, IF cache.left > 0
                 THEN [Idle EXCEPT !.pc = "done", !.cached = TRUE, !.result = cache.result]
                 ELSE [Idle EXCEPT !.pc = "history", !.tip = tip, !.left = Timeout,
                                   !.seen = {truth.owner}])
    /\ UNCHANGED <<chainVars, cache>>

(* What may be answered of a name whose owners during the lookup were those *)
(* in seen.                                                                *)
Justified(result, seen) ==
    IF result = "notfound" THEN None \in seen \/ \E o, p \in seen : o # p ELSE result \in seen

(* For how long an answer has been wrong when it is given: as long as the   *)
(* lookup took if it was right meanwhile, and longer than anything else if *)
(* it never was.                                                           *)
Wrong(q, result) ==
    IF True(result, truth.owner) THEN 0
    ELSE IF Justified(result, reader[q].seen) THEN Timeout - reader[q].left
    ELSE OwnerTTL + NotFoundTTL + Timeout

(* Faulty: not found is cached as long as an owner. *)
AnswerLasting(q, result) ==
    /\ Become(q, [Idle EXCEPT !.pc = "done", !.result = result,
                          !.seen = IF result = "error" THEN {} ELSE reader[q].seen])
    /\ cache' = IF result = "error" THEN cache
                ELSE [result |-> result, left |-> OwnerTTL, stale |-> Wrong(q, result)]

(* cacheStore: not found is cached for a while, and an error not at all.   *)
Answer(q, result) ==
    /\ Become(q, [Idle EXCEPT !.pc = "done", !.result = result,
                          !.seen = IF result = "error" THEN {} ELSE reader[q].seen])
    /\ cache' = IF result = "error" THEN cache
                ELSE [result |-> result,
                      left |-> IF result = "notfound" THEN NotFoundTTL ELSE OwnerTTL,
                      stale |-> Wrong(q, result)]

(* The marker history, and the transactions of the part that is scanned.   *)
ReadHistory(q) ==
    LET claims == Claims(reader[q].tip)
        c == Winner(claims)
    IN  /\ At(q, "history")
        /\ \/ /\ claims = {}
              /\ Answer(q, IF Truncated(Marked) THEN "error" ELSE "notfound")
           \/ /\ claims # {}
              /\ ~ HasToken(c)
              /\ Answer(q, "notfound")
           \/ /\ claims # {}
              /\ HasToken(c)
              /\ Become(q, [reader[q] EXCEPT
                               !.pc = "walk", !.tip = 0, !.at = c, !.truncated = Truncated(Marked),
                               !.bindings = Bindings(Oldest(Marked), reader[q].tip)])
              /\ cache' = cache
        /\ UNCHANGED chainVars

(* Faulty: a key that a partial scan missed was never revealed. *)
MatchPartial(q, commitment) ==
    IF commitment \in reader[q].bindings THEN commitment ELSE "notfound"

(* Faulty: a commitment that is not bound yet falls back on an older key. *)
MatchFallback(q, commitment) ==
    IF commitment \in reader[q].bindings THEN commitment
    ELSE IF reader[q].truncated THEN "error" ELSE CHOOSE k \in reader[q].bindings : TRUE

(* The owner is the revealed key that the commitment is the hash of.       *)
Match(q, commitment) ==
    IF commitment \in reader[q].bindings THEN commitment
    ELSE IF reader[q].truncated THEN "error" ELSE "notfound"

(* Faulty: the walk has no limit. *)
HopUnlimited(q) ==
    LET t == reader[q].at
        history == Touching(txs[t].token.holder)
        found == Newest(history) \cap SpentBy(t)
    IN  /\ At(q, "walk")
        /\ \/ \E s \in found :
                 /\ HasToken(s)
                 /\ Become(q, [reader[q] EXCEPT !.at = s, !.hops = @ + 1])
                 /\ cache' = cache
           \/ /\ \E s \in found : ~ HasToken(s)
              /\ Answer(q, Match(q, txs[t].token.commitment))
           \/ /\ found = {}
              /\ Answer(q, IF Truncated(history) THEN "error"
                           ELSE Match(q, txs[t].token.commitment))
        /\ UNCHANGED chainVars

(* findSpender: who spends the output the walk has reached. *)
Hop(q) ==
    LET t == reader[q].at
        history == Touching(txs[t].token.holder)
        found == Newest(history) \cap SpentBy(t)
    IN  /\ At(q, "walk")
        /\ reader[q].hops < MaxHops
        /\ \/ \E s \in found :
                 /\ HasToken(s)
                 /\ Become(q, [reader[q] EXCEPT !.at = s, !.hops = @ + 1])
                 /\ cache' = cache
           \/ /\ \E s \in found : ~ HasToken(s)
              /\ Answer(q, Match(q, txs[t].token.commitment))
           \/ /\ found = {}
              /\ Answer(q, IF Truncated(history) THEN "error"
                           ELSE Match(q, txs[t].token.commitment))
        /\ UNCHANGED chainVars

(* The walk ends at maxCustodyHops. *)
HopsExhausted(q) ==
    /\ At(q, "walk")
    /\ reader[q].hops >= MaxHops
    /\ Answer(q, Match(q, txs[reader[q].at].token.commitment))
    /\ UNCHANGED chainVars

(* A query fails, or the deadline of the lookup passes. *)
LookupFails(q) ==
    /\ Asking(q)
    /\ Answer(q, "error")
    /\ UNCHANGED chainVars

Return(q) ==
    /\ At(q, "done")
    /\ Become(q, Idle)
    /\ UNCHANGED <<chainVars, cache>>

----------------------------------------------------------------------------
(* The chain                                                               *)

(* What follows from a change of the chain: who owns the name from now on.  *)
(* (The claim is bound to a variable, so that TLC works it out once.)       *)
OwnerMoves ==
    /\ \E claim \in {WinningClaim'} : truth' = [claim |-> claim, owner |-> OwnerBy(claim)']
    /\ cache' = [cache EXCEPT !.stale = IF True(cache.result, truth'.owner) THEN 0 ELSE @]
    /\ reader' = [q \in Query |->
                     IF Asking(q) THEN [reader[q] EXCEPT !.seen = @ \cup {truth'.owner}] ELSE reader[q]]

Unused == Tx \ DOMAIN txs

Broadcast(t, transaction) ==
    /\ t \in Unused
    /\ txs' = [s \in DOMAIN txs \cup {t} |-> IF s = t THEN transaction ELSE txs[s]]
    /\ height' = [s \in DOMAIN txs \cup {t} |-> IF s = t THEN 0 ELSE height[s]]
    /\ UNCHANGED tip

(* Only the order of claims matters to the winner: any other transaction   *)
(* takes the largest id that is left.                                      *)
BroadcastAny(transaction) ==
    \E t \in Unused : (\A s \in Unused : s <= t) /\ Broadcast(t, transaction)

Plain == [tag |-> "none", key |-> None, marker |-> FALSE, pays |-> {}, spends |-> None,
          token |-> NoToken]

(* cliClaim and BuildClaimTx, which mints the NFT.  The command first looks *)
(* the owner up and stops if there is one, but goes on after any error: it  *)
(* may claim whatever the chain is.                                        *)
Claim(u, t) ==
    /\ Broadcast(t, [Plain EXCEPT !.tag = "FN01", !.key = u, !.marker = TRUE,
                        !.token = [category |-> t, commitment |-> u, holder |-> u]])
    /\ OwnerMoves

(* cliAdopt and BuildRebindTx, which spends the NFT of the winning claim    *)
(* (CategoryFor) if the wallet holds it, and binds it to the key that the  *)
(* user now has for the name.                                              *)
Adopt(u, k) ==
    /\ \E t \in DOMAIN txs :
          /\ Unspent(t)
          /\ txs[t].token.holder = u
          /\ txs[t].token.category = truth.claim
          /\ BroadcastAny([Plain EXCEPT !.tag = "FN02", !.key = k, !.marker = TRUE, !.spends = t,
                              !.token = [txs[t].token EXCEPT !.commitment = k]])
    /\ OwnerMoves

ByOthers(kind) ==
    /\ kind \in Other
    /\ Cardinality({t \in DOMAIN txs : txs[t].key = None \/ ~ HasToken(t)}) < MaxOther

(* Another wallet sends the NFT on, or spends it and loses the token.      *)
Transfer(t, v) ==
    /\ ByOthers("transfer")
    /\ Unspent(t)
    /\ BroadcastAny([Plain EXCEPT !.spends = t, !.token = [txs[t].token EXCEPT !.holder = v]])
    /\ OwnerMoves

Burn(t) ==
    /\ ByOthers("burn")
    /\ Unspent(t)
    /\ BroadcastAny([Plain EXCEPT !.spends = t])
    /\ OwnerMoves

(* Metadata about the name without its NFT.                                *)
Announce(tag, k) ==
    /\ ByOthers("announce")
    /\ BroadcastAny([Plain EXCEPT !.tag = tag, !.key = k, !.marker = TRUE])
    /\ OwnerMoves

(* A small payment to a wallet. *)
PayWallet(u) ==
    /\ ByOthers("dust")
    /\ BroadcastAny([Plain EXCEPT !.pays = {u}])
    /\ OwnerMoves

(* A block on top, which may also replace up to MaxReorg blocks below it.  *)
(* What was in those is confirmed by the new one, in its old place or not  *)
(* at all.  A block that can change no answer any more is not mined.       *)
Mine(replaced) ==
    LET loose == {t \in DOMAIN txs : height[t] \notin 1 .. (tip - replaced)}
    IN  /\ tip < MaxTip
        /\ replaced <= tip
        /\ \E t \in DOMAIN txs : ~ Confirmed(t, tip)
        /\ tip' = tip + 1
        /\ \E block \in SUBSET loose : \E kept \in SUBSET {t \in loose \ block : height[t] # 0} :
              height' = [t \in DOMAIN txs |-> IF t \in block THEN tip + 1
                                             ELSE IF t \in loose \ kept THEN 0 ELSE height[t]]
        /\ \A t \in DOMAIN txs :
              txs[t].spends # None /\ height'[t] # 0 => height'[txs[t].spends] \in 1 .. height'[t]
        /\ UNCHANGED txs
        /\ OwnerMoves

(* A lookup has ended by its deadline, and an expired entry is none.       *)
Tick ==
    /\ \A q \in Query : ~ At(q, "done") /\ (Asking(q) => reader[q].left > 0)
    /\ cache' = IF cache.left <= 1 THEN NoEntry
                ELSE [cache EXCEPT !.left = @ - 1,
                                   !.stale = IF True(cache.result, truth.owner) THEN 0 ELSE @ + 1]
    /\ reader' = [q \in Query |->
                     IF Asking(q) THEN [reader[q] EXCEPT !.left = @ - 1] ELSE reader[q]]
    /\ UNCHANGED chainVars

LookupStep(q) ==
    \/ Ask(q)
    \/ ReadHistory(q)
    \/ Hop(q)
    \/ HopsExhausted(q)
    \/ LookupFails(q)
    \/ Return(q)

Next ==
    \/ \E q \in Query : LookupStep(q)
    \/ \E u \in User : (\E k \in User : Adopt(u, k)) \/ (\E t \in Tx : Claim(u, t))
    \/ \E t \in DOMAIN txs : Burn(t) \/ \E v \in User : Transfer(t, v)
    \/ \E tag \in {"FN01", "FN02"}, k \in User : Announce(tag, k)
    \/ \E u \in User : PayWallet(u)
    \/ \E replaced \in 0 .. MaxReorg : Mine(replaced)
    \/ Tick

Spec == Init /\ [][Next]_vars

----------------------------------------------------------------------------
(* Properties                                                              *)

ReaderState ==
    [pc : {"idle", "history", "walk", "done"}, tip : 0 .. MaxTip, at : Tx \cup {None},
     hops : 0 .. MaxHops, bindings : SUBSET User, truncated : BOOLEAN, left : 0 .. Timeout,
     seen : SUBSET (User \cup {None}), cached : BOOLEAN,
     result : User \cup {"notfound", "error", "none"}]

TypeOK ==
    /\ DOMAIN txs \subseteq Tx
    /\ txs \in [DOMAIN txs -> Transaction]
    /\ height \in [DOMAIN txs -> 0 .. MaxTip]
    /\ tip \in 0 .. MaxTip
    /\ truth \in [claim : Tx \cup {None}, owner : User \cup {None}]
    /\ cache \in [result : User \cup {"notfound", "none"},
                  left : 0 .. OwnerTTL \cup 0 .. NotFoundTTL, stale : Nat]
    /\ reader \in [Query -> ReaderState]

(* The NFT has changed hands more often than a lookup follows (resolve).   *)
LongCustody == truth.claim # None /\ Hops(truth.claim) > MaxHops

(* The chain moves between the queries of a lookup, and yet an owner it    *)
(* answers owned the name at some moment of the lookup, unless the NFT     *)
(* changed hands more often than a lookup follows (resolve).               *)
AnswersJustified ==
    \A q \in Query :
        At(q, "done") /\ ~ reader[q].cached /\ reader[q].result \in User =>
            Justified(reader[q].result, reader[q].seen) \/ LongCustody

(* A name is answered to have no owner, and cached as such, only if it had *)
(* none at some moment of the lookup or changed its owner meanwhile: never *)
(* because a history was too long to read (errHistoryTruncated), though a  *)
(* walk of the NFT that ends at its limit may miss the owner.  An NFT that *)
(* a plain transfer left unbound has no owner, as resolve and the website  *)
(* have it; the comment on bchRegistry, of a fallback to the last valid    *)
(* binding, is not what the code does.                                     *)
NotFoundJustified ==
    \A q \in Query :
        At(q, "done") /\ ~ reader[q].cached /\ reader[q].result = "notfound" =>
            Justified("notfound", reader[q].seen) \/ LongCustody

(* However a lookup that fills the cache overlaps changes of the chain,     *)
(* what the node answers from its cache was right not longer ago than the  *)
(* entry's time to live and the lookup that stored it took (ResolveOwner). *)
CacheRecent ==
    /\ cache.result = "notfound" => cache.stale < NotFoundTTL + Timeout \/ LongCustody
    /\ cache.result \in User => cache.stale < OwnerTTL + Timeout \/ LongCustody

(* First come, first served, for good: once a claim has won, no block and  *)
(* no reorganization of fewer blocks than the confirmations asked for      *)
(* makes another one win (winningClaim).                                   *)
WinnerStays == [][truth.claim # None => truth'.claim = truth.claim]_vars

(* The owner changes only when the holder of the NFT spends it: not by     *)
(* anyone's metadata, a later claim or a reorganization (resolve).         *)
OnlyTheHolderRebinds ==
    [][truth.owner # None /\ truth'.owner # truth.owner =>
          \E t \in DOMAIN txs' \ DOMAIN txs : txs'[t].spends = Reached(truth.claim)]_vars
=============================================================================
