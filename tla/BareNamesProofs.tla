-------------------------- MODULE BareNamesProofs --------------------------
(***************************************************************************)
(* Theorems about BareNames, for any number of users, transactions and     *)
(* lookups and any depth of reorganization that is less than the           *)
(* confirmations asked for: the first claim keeps the name, only the       *)
(* holder of its NFT moves it, and every answer, cached or not, is         *)
(* justified by what was true during its lookup.                           *)
(***************************************************************************)
EXTENDS BareNames, FiniteSetTheorems, TLAPS

(* Where the NFT of claim c has got to. *)
IsEnd(c, t) ==
    /\ t \in DOMAIN txs
    /\ txs[t].token.category = c
    /\ \A s \in SpentBy(t) : ~ HasToken(s)

(* A transaction that may be broadcast as t: it mints the NFT that is named *)
(* after it, or spends an NFT and moves or loses it, or has none.          *)
Sound(t, x) ==
    /\ x.tag # "none" => x.key \in User /\ x.marker
    /\ \/ x.spends = None /\ x.token = NoToken
       \/ x.spends = None /\ x.token # NoToken /\ x.token.category = t
       \/ /\ x.spends \in DOMAIN txs /\ Unspent(x.spends) /\ x.tag # "FN01"
          /\ x.token = NoToken \/ x.token.category = txs[x.spends].token.category

ChainTypes ==
    /\ DOMAIN txs \subseteq Tx
    /\ txs \in [DOMAIN txs -> Transaction]
    /\ height \in [DOMAIN txs -> 0 .. MaxTip]
    /\ tip \in 0 .. MaxTip

(* What the transactions on the chain are like. *)
ChainSound ==
    \A t \in DOMAIN txs :
        /\ txs[t].tag # "none" => txs[t].key \in User /\ txs[t].marker
        /\ txs[t].tag = "FN01" => txs[t].spends = None
        /\ txs[t].spends = None /\ HasToken(t) => txs[t].token.category = t
        /\ txs[t].spends # None =>
              /\ txs[t].spends \in DOMAIN txs /\ HasToken(txs[t].spends)
              /\ HasToken(t) => txs[t].token.category = txs[txs[t].spends].token.category
        /\ HasToken(t) => txs[t].token.category \in DOMAIN txs

NoDoubleSpend ==
    \A s, t \in DOMAIN txs : txs[s].spends = txs[t].spends => s = t \/ txs[s].spends = None

(* Every NFT has got to one place. *)
CustodyHasEnd ==
    \A c \in DOMAIN txs :
        HasToken(c) => \E t \in DOMAIN txs : IsEnd(txs[c].token.category, t)

CustodyHasOneEnd ==
    \A c, s, t \in DOMAIN txs : IsEnd(c, s) /\ IsEnd(c, t) => s = t

TruthKept == truth.claim = WinningClaim /\ truth.owner = OwnerBy(truth.claim)

ChainInv ==
    ChainTypes /\ ChainSound /\ NoDoubleSpend /\ CustodyHasEnd /\ CustodyHasOneEnd /\ TruthKept

----------------------------------------------------------------------------
(* Lookups                                                                 *)

(* The transactions whose NFT a walk of h hops to t has followed. *)
Walked(v, h, c, t) ==
    /\ v \in SUBSET DOMAIN txs /\ t \in v
    /\ Cardinality(v) = h + 1
    /\ \A s \in v : HasToken(s) /\ txs[s].token.category = c /\ txs[s].spends \in v \cup {None} /\ txs[s].spends # t

(* A lookup sees the owner of the moment. *)
Watching(q) == truth.owner \in reader[q].seen

(* Once the history is read, the walk is of the NFT of the winning claim,  *)
(* and the keys bound at the start are known, unless some are missing.     *)
HistoryPhase(q) ==
    At(q, "history") =>
        /\ reader[q].tip <= tip /\ reader[q].hops = 0
        /\ \/ None \in reader[q].seen
           \/ /\ Claims(reader[q].tip) # {}
              /\ \E o \in reader[q].seen : o \in Bindings(Marked, reader[q].tip)

WalkPhase(q) ==
    At(q, "walk") =>
        /\ truth.claim # None
        /\ reader[q].at \in DOMAIN txs
        /\ HasToken(truth.claim)
        /\ \E v \in SUBSET DOMAIN txs : Walked(v, reader[q].hops, truth.claim, reader[q].at)
        /\ reader[q].bindings \subseteq Bindings(Marked, tip)
        /\ \/ reader[q].truncated
           \/ None \in reader[q].seen
           \/ \E o \in reader[q].seen : o \in reader[q].bindings

Informed(q) == (Asking(q) => Watching(q)) /\ HistoryPhase(q) /\ WalkPhase(q)

LookupInv == \A q \in Query : Informed(q)

CacheInv ==
    /\ cache.result = "notfound" =>
          cache.left >= 1 /\ (cache.stale + cache.left <= NotFoundTTL + Timeout \/ LongCustody)
    /\ cache.result \in User =>
          cache.left >= 1 /\ (cache.stale + cache.left <= OwnerTTL + Timeout \/ LongCustody)

----------------------------------------------------------------------------
(* The order of claims                                                     *)

(* Transaction ids are numbers, and all sets of them can be counted.       *)
LEMMA TxFacts ==
    /\ Tx \subseteq Nat
    /\ None \notin Tx /\ None \notin User
    /\ \A S \in SUBSET Tx : IsFiniteSet(S) /\ Cardinality(S) \in Nat
<1>1. MaxTx \in Nat /\ None \notin Tx /\ None \notin User
  BY ChainAssumption DEF ChainAssumption
<1>2. IsFiniteSet(Tx)
  BY <1>1, FS_Interval DEF Tx
<1>3. ASSUME NEW S \in SUBSET Tx
      PROVE  IsFiniteSet(S) /\ Cardinality(S) \in Nat
  BY <1>2, FS_Subset, FS_CardinalityType
<1>4. Tx \subseteq Nat
  BY <1>1 DEF Tx
<1> QED
  BY <1>1, <1>3, <1>4

(* Earlier is a strict total order. *)
LEMMA EarlierOrder ==
    ASSUME ChainTypes
    PROVE  /\ \A s \in DOMAIN txs : ~ Earlier(s, s)
           /\ \A r, s, t \in DOMAIN txs : Earlier(r, s) /\ Earlier(s, t) => Earlier(r, t)
           /\ \A s, t \in DOMAIN txs : s # t => Earlier(s, t) \/ Earlier(t, s)
           /\ \A s, t \in DOMAIN txs : ~ (Earlier(s, t) /\ Earlier(t, s))
<1>1. \A s \in DOMAIN txs : s \in Nat /\ height[s] \in Nat
  BY TxFacts, ChainAssumption DEF ChainAssumption, ChainTypes
<1> QED
  BY <1>1 DEF Earlier

(* One of several claims is the first. *)
LEMMA FirstExists ==
    ASSUME ChainTypes, NEW S \in SUBSET DOMAIN txs, S # {}
    PROVE  \E c \in S : \A d \in S \ {c} : Earlier(c, d)
<1> DEFINE before(s) == {d \in S : Earlier(d, s)}
           rank == [s \in S |-> Cardinality(before(s))]
           ranks == 0 .. (Cardinality(S) - 1)
<1>1. S \in SUBSET Tx
  BY DEF ChainTypes
<1>2. IsFiniteSet(S) /\ Cardinality(S) \in Nat
  BY <1>1, TxFacts
<1>3. \A s \in S : before(s) \in SUBSET Tx /\ IsFiniteSet(before(s)) /\ Cardinality(before(s)) \in Nat
  BY <1>1, TxFacts
<1>0. /\ \A s, d \in S : d \in before(s) <=> Earlier(d, s)
      /\ \A s : before(s) \subseteq S
  OBVIOUS
<1> HIDE DEF before
<1>4. ASSUME NEW s \in S
      PROVE  Cardinality(before(s)) < Cardinality(S)
  <2>1. before(s) \in SUBSET S /\ s \notin before(s)
    BY <1>0, EarlierOrder
  <2>2. Cardinality(before(s)) <= Cardinality(S) /\ (Cardinality(before(s)) = Cardinality(S) => before(s) = S)
    BY <1>2, <2>1, FS_Subset
  <2> QED
    BY <1>2, <1>3, <2>1, <2>2
<1>5. rank \in [S -> ranks]
  BY <1>2, <1>3, <1>4
<1>6. ASSUME NEW s \in S, NEW t \in S, Earlier(s, t)
      PROVE  Cardinality(before(s)) < Cardinality(before(t))
  <2>1. before(s) \in SUBSET before(t) /\ s \in before(t) /\ s \notin before(s)
    BY <1>0, <1>6, EarlierOrder
  <2>2. /\ Cardinality(before(s)) <= Cardinality(before(t))
        /\ Cardinality(before(s)) = Cardinality(before(t)) => before(s) = before(t)
    BY <1>3, <2>1, FS_Subset
  <2> QED
    BY <1>3, <2>1, <2>2
<1>7. ASSUME NEW s \in S, NEW t \in S, s # t
      PROVE  Cardinality(before(s)) # Cardinality(before(t))
  <2>1. Earlier(s, t) \/ Earlier(t, s)
    BY <1>7, EarlierOrder
  <2> QED
    BY <1>3, <1>6, <2>1
<1>8. IsFiniteSet(ranks) /\ Cardinality(ranks) = Cardinality(S)
  <2> DEFINE n == Cardinality(S)
  <2>1. n \in Nat /\ ranks = 0 .. n - 1
    BY <1>2
  <2> HIDE DEF n, ranks
  <2>2. /\ IsFiniteSet(0 .. n - 1)
        /\ Cardinality(0 .. n - 1) = IF 0 > n - 1 THEN 0 ELSE n - 1 - 0 + 1
    BY <2>1, FS_Interval
  <2>3. Cardinality(0 .. n - 1) = n
    BY <2>1, <2>2
  <2> QED
    BY <2>1, <2>2, <2>3 DEF n
<1>9. 0 \in ranks
  <2>1. Cardinality(S) # 0
    BY <1>2, FS_EmptySet
  <2> QED
    BY <1>2, <2>1
<1>10. \E c \in S : rank[c] = 0
  <2>1. \A s, t \in S : rank[s] = rank[t] => s = t
    BY <1>7
  <2> HIDE DEF rank, ranks, before
  <2>2. rank \in Injection(S, ranks)
    BY <1>5, <2>1 DEF Injection, IsInjective
  <2>3. rank \in Surjection(S, ranks)
    BY <1>8, <2>2, FS_Injection
  <2> QED
    BY <1>9, <2>3 DEF Surjection
<1>11. PICK c \in S : rank[c] = 0
  BY <1>10
<1>12. before(c) = {}
  BY <1>3, <1>11, FS_EmptySet
<1>13. ASSUME NEW d \in S \ {c}
       PROVE  Earlier(c, d)
  <2>1. ~ Earlier(d, c)
    BY <1>0, <1>12
  <2> QED
    BY <2>1, EarlierOrder
<1> QED
  BY <1>13

(* Winner is the first of the claims, and the only one. *)
LEMMA WinnerIsFirst ==
    ASSUME ChainTypes, NEW S \in SUBSET DOMAIN txs, S # {}
    PROVE  /\ Winner(S) \in S
           /\ \A d \in S \ {Winner(S)} : Earlier(Winner(S), d)
           /\ \A c \in S : (\A d \in S \ {c} : Earlier(c, d)) => c = Winner(S)
<1>1. /\ Winner(S) \in S
      /\ \A d \in S \ {Winner(S)} : Earlier(Winner(S), d)
  BY FirstExists DEF Winner
<1>2. ASSUME NEW c \in S, \A d \in S \ {c} : Earlier(c, d), c # Winner(S)
      PROVE  FALSE
  <2>1. Earlier(c, Winner(S)) /\ Earlier(Winner(S), c)
    BY <1>1, <1>2
  <2> QED
    BY <1>1, <2>1, EarlierOrder
<1> QED
  BY <1>1, <1>2

----------------------------------------------------------------------------
(* What a change of the chain leaves as it is                              *)

(* Transactions are kept; those with enough confirmations stay where they  *)
(* are, and what is confirmed from now on is above them.                   *)
Grows ==
    /\ DOMAIN txs \subseteq DOMAIN txs'
    /\ \A t \in DOMAIN txs : txs'[t] = txs[t]
    /\ tip <= tip'
    /\ \A t \in DOMAIN txs : Confirmed(t, tip) => height'[t] = height[t]
    /\ \A t \in DOMAIN txs' :
          \/ t \in DOMAIN txs /\ Confirmed(t, tip)
          \/ height'[t] = 0
          \/ height'[t] > tip - MinConf + 1

(* The heights and places that claims are compared by are numbers.         *)
LEMMA Numbers ==
    /\ MinConf \in Nat /\ MinConf >= 1 /\ MaxReorg \in Nat /\ MaxReorg < MinConf
    /\ MaxTip \in Nat /\ MaxTx \in Nat
    /\ ChainTypes => tip \in Nat /\ \A t \in DOMAIN txs : t \in Tx /\ height[t] \in Nat /\ Place[t] \in Nat
<1>1. /\ MinConf \in Nat /\ MinConf >= 1 /\ MaxReorg \in Nat /\ MaxReorg < MinConf
      /\ MaxTip \in Nat /\ MaxTx \in Nat /\ Place \in [Tx -> Nat]
  BY ChainAssumption DEF ChainAssumption
<1>2. ASSUME ChainTypes
      PROVE  tip \in Nat /\ \A t \in DOMAIN txs : t \in Tx /\ height[t] \in Nat /\ Place[t] \in Nat
  BY <1>1, <1>2 DEF ChainTypes
<1> QED
  BY <1>1, <1>2

(* Whatever the height of the chain a lookup has read, the transactions it *)
(* takes for confirmed stay the same.                                      *)
LEMMA ConfirmedStays ==
    ASSUME ChainTypes, ChainTypes', Grows, NEW n \in Nat, n <= tip
    PROVE  \A t \in DOMAIN txs' :
              (height'[t] > 0 /\ n - height'[t] + 1 >= MinConf)
                 <=> (t \in DOMAIN txs /\ Confirmed(t, n) /\ Confirmed(t, tip) /\ height'[t] = height[t])
<1> SUFFICES ASSUME NEW t \in DOMAIN txs'
             PROVE  (height'[t] > 0 /\ n - height'[t] + 1 >= MinConf)
                       <=> (t \in DOMAIN txs /\ Confirmed(t, n) /\ Confirmed(t, tip) /\ height'[t] = height[t])
  OBVIOUS
<1>1. height'[t] \in Nat /\ tip \in Nat /\ MinConf \in Nat
  BY Numbers DEF ChainTypes
<1>2. CASE t \in DOMAIN txs /\ Confirmed(t, tip)
  <2>1. height'[t] = height[t]
    BY <1>2 DEF Grows
  <2> QED
    BY <1>1, <1>2, <2>1 DEF Confirmed
<1>3. CASE ~ (t \in DOMAIN txs /\ Confirmed(t, tip))
  <2>1. height'[t] = 0 \/ height'[t] > tip - MinConf + 1
    BY <1>3 DEF Grows
  <2> QED
    BY <1>1, <1>3, <2>1
<1> QED
  BY <1>2, <1>3

(* The marker transactions that come before a confirmed one stay the same. *)
LEMMA OldestStays ==
    ASSUME ChainTypes, ChainTypes', Grows, NEW t \in DOMAIN txs, Confirmed(t, tip)
    PROVE  t \in Oldest(Marked)' <=> t \in Oldest(Marked)
<1>1. height'[t] = height[t] /\ txs'[t] = txs[t] /\ t \in DOMAIN txs'
  BY DEF Grows
<1>2. \A s \in DOMAIN txs' : s \in DOMAIN txs => txs'[s] = txs[s]
  BY DEF Grows
<1>3. ASSUME NEW s \in DOMAIN txs', Precedes(s, t)'
      PROVE  s \in DOMAIN txs /\ Precedes(s, t)
  <2>1. height'[s] \in Nat /\ height'[t] \in Nat /\ tip \in Nat /\ MinConf \in Nat
    BY <1>1, Numbers DEF ChainTypes
  <2>2. height'[s] > 0 /\ tip - height'[s] + 1 >= MinConf
    BY <1>1, <1>3, <2>1 DEF Precedes, Confirmed
  <2>3. s \in DOMAIN txs /\ height'[s] = height[s]
    BY <2>1, <2>2, ConfirmedStays
  <2> QED
    BY <1>1, <1>3, <2>3 DEF Precedes
<1>4. ASSUME NEW s \in DOMAIN txs, Precedes(s, t)
      PROVE  s \in DOMAIN txs' /\ Precedes(s, t)'
  <2>1. height[s] \in Nat /\ height[t] \in Nat /\ tip \in Nat /\ MinConf \in Nat
    BY Numbers
  <2>2. Confirmed(s, tip)
    BY <1>4, <2>1 DEF Precedes, Confirmed
  <2>3. s \in DOMAIN txs' /\ height'[s] = height[s]
    BY <2>2 DEF Grows
  <2> QED
    BY <1>1, <1>4, <2>3 DEF Precedes
<1>5. {s \in Marked : Precedes(s, t)}' = {s \in Marked : Precedes(s, t)}
  BY <1>2, <1>3, <1>4 DEF Marked
<1>6. t \in Marked' <=> t \in Marked
  BY <1>1 DEF Marked
<1> QED
  BY <1>5, <1>6 DEF Oldest

(* A claim that counts at some height of the chain goes on to count at it, *)
(* and no other ever does.                                                 *)
LEMMA ClaimsStay ==
    ASSUME ChainTypes, ChainTypes', Grows, NEW n \in Nat, n <= tip
    PROVE  Claims(n)' = Claims(n)
<1>1. ASSUME NEW t \in Claims(n)
      PROVE  t \in Claims(n)'
  <2>1. t \in DOMAIN txs /\ t \in Oldest(Marked) /\ Confirmed(t, n)
    BY DEF Claims, Oldest, Marked
  <2>2. tip \in Nat /\ MinConf \in Nat /\ height[t] \in Nat
    BY <2>1, Numbers
  <2>3. Confirmed(t, tip)
    BY <2>1, <2>2 DEF Confirmed
  <2>4. t \in Oldest(Marked)' /\ height'[t] = height[t] /\ txs'[t] = txs[t]
    BY <2>1, <2>3, OldestStays DEF Grows
  <2> QED
    BY <2>1, <2>4 DEF Claims, Confirmed
<1>2. ASSUME NEW t \in Claims(n)'
      PROVE  t \in Claims(n)
  <2>1. t \in DOMAIN txs' /\ t \in Oldest(Marked)' /\ height'[t] > 0 /\ n - height'[t] + 1 >= MinConf
    BY DEF Claims, Oldest, Marked, Confirmed
  <2>2. t \in DOMAIN txs /\ Confirmed(t, n) /\ Confirmed(t, tip)
    BY <2>1, ConfirmedStays
  <2>3. t \in Oldest(Marked) /\ txs'[t] = txs[t]
    BY <2>1, <2>2, OldestStays DEF Grows
  <2> QED
    BY <1>2, <2>2, <2>3 DEF Claims
<1> QED
  BY <1>1, <1>2

(* A key that is bound at some height of the chain stays bound.            *)
LEMMA BindingsStay ==
    ASSUME ChainTypes, ChainTypes', Grows, NEW n \in Nat, n <= tip, NEW m \in Nat, n <= m
    PROVE  Bindings(Marked, n) \subseteq Bindings(Marked, m)'
<1> SUFFICES ASSUME NEW t \in Marked, Confirmed(t, n), txs[t].tag # "none"
             PROVE  t \in Marked' /\ Confirmed(t, m)' /\ txs'[t] = txs[t]
  BY DEF Bindings, Marked
<1>1. t \in DOMAIN txs /\ tip \in Nat /\ MinConf \in Nat /\ height[t] \in Nat
  BY Numbers DEF Marked
<1>2. Confirmed(t, tip)
  BY <1>1 DEF Confirmed
<1>3. t \in DOMAIN txs' /\ txs'[t] = txs[t] /\ height'[t] = height[t]
  BY <1>1, <1>2 DEF Grows
<1> QED
  BY <1>1, <1>3 DEF Marked, Confirmed

(* A claim that wins at some height of the chain wins at every later one.  *)
LEMMA SameWinner ==
    ASSUME ChainTypes, NEW n \in Nat, n <= tip, Claims(n) # {}
    PROVE  Claims(tip) # {} /\ Winner(Claims(n)) = Winner(Claims(tip))
<1>1. Claims(n) \in SUBSET DOMAIN txs /\ Claims(tip) \in SUBSET DOMAIN txs
  BY DEF Claims, Oldest, Marked
<1>2. /\ MinConf \in Nat /\ tip \in Nat
      /\ \A t \in DOMAIN txs : height[t] \in Nat
  BY Numbers
<1>3. Claims(n) \subseteq Claims(tip)
  BY <1>1, <1>2 DEF Claims, Confirmed
<1> DEFINE w == Winner(Claims(n))
<1>4. w \in Claims(n) /\ \A d \in Claims(n) \ {w} : Earlier(w, d)
  BY <1>1, WinnerIsFirst
<1> HIDE DEF w
<1>5. ASSUME NEW d \in Claims(tip) \ Claims(n)
      PROVE  Earlier(w, d)
  <2>1. height[w] <= n - MinConf + 1 /\ ~ (height[d] > 0 /\ n - height[d] + 1 >= MinConf) /\ height[d] > 0
    BY <1>1, <1>2, <1>4, <1>5 DEF Claims, Confirmed
  <2> QED
    BY <1>1, <1>2, <1>4, <2>1 DEF Earlier
<1>6. \A d \in Claims(tip) \ {w} : Earlier(w, d)
  BY <1>4, <1>5
<1>7. w = Winner(Claims(tip))
  BY <1>1, <1>3, <1>4, <1>6, WinnerIsFirst
<1> QED
  BY <1>3, <1>4, <1>7 DEF w

(* The winner of a set of claims is its first. *)
FirstWins ==
    ChainTypes =>
        \A S \in SUBSET DOMAIN txs :
            S # {} =>
                /\ Winner(S) \in S
                /\ \A d \in S \ {Winner(S)} : Earlier(Winner(S), d)
                /\ \A c \in S : (\A d \in S \ {c} : Earlier(c, d)) => c = Winner(S)

(* So it is after a step. *)
LEMMA WinnerIsFirstNext == FirstWins'
<1>1. FirstWins
  BY WinnerIsFirst DEF FirstWins
<1> QED
  BY <1>1, PTL

(* A claim that has won goes on to win.                                    *)
LEMMA ClaimWins ==
    ASSUME ChainTypes, ChainTypes', Grows, WinningClaim # None
    PROVE  WinningClaim' = WinningClaim
<1>1. /\ MinConf \in Nat /\ tip \in Nat /\ tip' \in Nat /\ tip <= tip'
      /\ \A t \in DOMAIN txs : height[t] \in Nat
      /\ \A t \in DOMAIN txs' : height'[t] \in Nat
  BY Numbers DEF ChainTypes, Grows
<1>2. PICK n \in Nat : n = tip
  BY <1>1
<1>3. PICK m \in Nat : m = tip'
  BY <1>1
<1>4. Claims(n)' = Claims(n) /\ Claims(tip) = Claims(n) /\ Claims(tip)' = Claims(m)'
  BY <1>1, <1>2, <1>3, ClaimsStay
<1> DEFINE old == Claims(n)
           new == Claims(m)'
<1>5. old # {} /\ WinningClaim = Winner(old) /\ old \in SUBSET DOMAIN txs /\ new \in SUBSET DOMAIN txs'
  BY <1>4 DEF WinningClaim, Claims, Oldest, Marked
<1>6. PICK w \in old : w = WinningClaim /\ \A d \in old \ {w} : Earlier(w, d)
  BY <1>5, WinnerIsFirst
<1>7. \A d \in old : d \in DOMAIN txs' /\ height'[d] = height[d] /\ Confirmed(d, n)
  BY <1>2 DEF Grows, Claims, Oldest, Marked
<1>8. ASSUME NEW d \in old
      PROVE  d \in new
  <2>1. d \in Claims(n)'
    BY <1>4
  <2>2. height'[d] > 0 /\ n - height'[d] + 1 >= MinConf /\ height'[d] \in Nat /\ n <= m
    BY <1>1, <1>2, <1>3, <1>5, <1>7 DEF Confirmed
  <2>3. height'[d] > 0 /\ m - height'[d] + 1 >= MinConf
    BY <1>1, <2>2
  <2> QED
    BY <2>1, <2>3 DEF Claims, Confirmed
<1>9. ASSUME NEW d \in new \ old
      PROVE  height'[d] > height'[w]
  <2>1. d \in DOMAIN txs' /\ height'[d] > 0 /\ ~ (n - height'[d] + 1 >= MinConf)
    BY <1>4, <1>5, <1>9 DEF Claims, Confirmed
  <2>2. n - height'[w] + 1 >= MinConf
    BY <1>6, <1>7 DEF Confirmed
  <2> QED
    BY <1>1, <1>6, <1>7, <2>1, <2>2
<1>10. ASSUME NEW d \in new \ {w}
       PROVE  Earlier(w, d)'
  <2>1. CASE d \in old
    BY <1>6, <1>7, <2>1 DEF Earlier
  <2>2. CASE d \notin old
    BY <1>9, <2>2 DEF Earlier
  <2> QED
    BY <2>1, <2>2
<1>11. Winner(Claims(m))' = w
  <2>1. new # {} /\ w \in new
    BY <1>6, <1>8
  <2> QED
    BY <1>5, <1>10, <2>1, WinnerIsFirstNext DEF FirstWins
<1> QED
  BY <1>4, <1>6, <1>8, <1>11 DEF WinningClaim

----------------------------------------------------------------------------
(* Broadcasts                                                              *)

(* What a transaction that is broadcast changes of the chain.              *)
Sent(t, x) ==
    /\ t \in Tx /\ t \notin DOMAIN txs /\ DOMAIN txs' = DOMAIN txs \cup {t}
    /\ txs'[t] = x /\ height'[t] = 0 /\ tip' = tip
    /\ \A s \in DOMAIN txs : txs'[s] = txs[s] /\ height'[s] = height[s]

(* Broadcast adds one unconfirmed transaction.                             *)
LEMMA BroadcastSends ==
    ASSUME ChainTypes, NEW t, NEW x \in Transaction, Broadcast(t, x)
    PROVE  Sent(t, x) /\ ChainTypes' /\ Grows
<1>1. Sent(t, x)
  BY DEF Broadcast, Unused, Sent, ChainTypes
<1>2. ChainTypes'
  <2>1. txs' = [s \in DOMAIN txs \cup {t} |-> IF s = t THEN x ELSE txs[s]]
    BY DEF Broadcast
  <2>2. height' = [s \in DOMAIN txs \cup {t} |-> IF s = t THEN 0 ELSE height[s]]
    BY DEF Broadcast
  <2>3. txs' \in [DOMAIN txs' -> Transaction] /\ DOMAIN txs' \subseteq Tx
    BY <1>1, <2>1 DEF ChainTypes, Sent
  <2>4. height' \in [DOMAIN txs' -> 0 .. MaxTip]
    BY <1>1, <2>2, Numbers DEF ChainTypes, Sent
  <2> QED
    BY <1>1, <2>3, <2>4 DEF ChainTypes, Sent
<1>3. Grows
  <2>1. tip \in Nat /\ MinConf \in Nat /\ \A s \in DOMAIN txs : height[s] \in Nat
    BY Numbers
  <2>2. \A s \in DOMAIN txs : Confirmed(s, tip) \/ height[s] = 0 \/ height[s] > tip - MinConf + 1
    BY <2>1 DEF Confirmed
  <2> QED
    BY <1>1, <2>1, <2>2 DEF Sent, Grows
<1> QED
  BY <1>1, <1>2, <1>3

(* Who spends what after a broadcast.                                      *)
LEMMA SpendersNext ==
    ASSUME NEW t, NEW x, Sent(t, x)
    PROVE  /\ \A s \in DOMAIN txs : HasToken(s)' <=> HasToken(s)
           /\ HasToken(t)' <=> x.token # NoToken
           /\ \A r : SpentBy(r)' = SpentBy(r) \cup (IF x.spends = r THEN {t} ELSE {})
<1>1. \A s \in DOMAIN txs : HasToken(s)' <=> HasToken(s)
  BY DEF Sent, HasToken
<1>2. HasToken(t)' <=> x.token # NoToken
  BY DEF Sent, HasToken
<1>3. ASSUME NEW r
      PROVE  SpentBy(r)' = SpentBy(r) \cup (IF x.spends = r THEN {t} ELSE {})
  BY DEF Sent, SpentBy
<1> QED
  BY <1>1, <1>2, <1>3

(* What is on the chain stays sound.                                       *)
LEMMA ChainSoundNext ==
    ASSUME ChainTypes, ChainSound, NoDoubleSpend, NEW t, NEW x \in Transaction, Sent(t, x), Sound(t, x)
    PROVE  ChainSound' /\ NoDoubleSpend'
<1>1. \A s \in DOMAIN txs : HasToken(s)' <=> HasToken(s)
  BY SpendersNext
<1>2. HasToken(t)' <=> x.token # NoToken
  BY SpendersNext
<1>3. None \notin DOMAIN txs /\ None \notin Tx
  BY TxFacts DEF ChainTypes
<1>4. ASSUME NEW s \in DOMAIN txs'
      PROVE  /\ txs'[s].tag # "none" => txs'[s].key \in User /\ txs'[s].marker
             /\ txs'[s].tag = "FN01" => txs'[s].spends = None
             /\ txs'[s].spends = None /\ HasToken(s)' => txs'[s].token.category = s
             /\ txs'[s].spends # None =>
                   /\ txs'[s].spends \in DOMAIN txs' /\ HasToken(txs[s].spends)'
                   /\ HasToken(s)' => txs'[s].token.category = txs'[txs'[s].spends].token.category
             /\ HasToken(s)' => txs'[s].token.category \in DOMAIN txs'
  <2>1. CASE s \in DOMAIN txs
    BY <1>1, <2>1 DEF ChainSound, Sent
  <2>2. CASE s = t
    <3>1. txs'[s] = x
      BY <2>2 DEF Sent
    <3>2. CASE x.spends = None /\ x.token = NoToken
      BY <1>2, <2>2, <3>1, <3>2 DEF Sound, Sent
    <3>3. CASE x.spends = None /\ x.token # NoToken /\ x.token.category = t
      BY <1>2, <2>2, <3>1, <3>3 DEF Sound, Sent
    <3>4. CASE /\ x.spends \in DOMAIN txs /\ Unspent(x.spends) /\ x.tag # "FN01"
               /\ x.token = NoToken \/ x.token.category = txs[x.spends].token.category
      <4>1. x.spends # None /\ HasToken(x.spends) /\ HasToken(x.spends)'
        BY <1>1, <1>3, <3>4 DEF Unspent
      <4>2. txs'[x.spends] = txs[x.spends] /\ x.spends \in DOMAIN txs'
        BY <3>4 DEF Sent
      <4>3. txs[x.spends].token.category \in DOMAIN txs
        BY <3>4, <4>1 DEF ChainSound
      <4> QED
        BY <1>2, <2>2, <3>1, <3>4, <4>1, <4>2, <4>3 DEF Sound, Sent
    <3> QED
      BY <3>2, <3>3, <3>4 DEF Sound
  <2> QED
    BY <2>1, <2>2 DEF Sent
<1>5. ChainSound'
  BY <1>4 DEF ChainSound
<1>6. ASSUME NEW r \in DOMAIN txs, txs[r].spends = x.spends
      PROVE  x.spends = None
  <2>1. r \in SpentBy(x.spends)
    BY <1>6 DEF SpentBy
  <2> QED
    BY <2>1 DEF Sound, Unspent
<1>7. NoDoubleSpend'
  BY <1>6 DEF NoDoubleSpend, Sent
<1> QED
  BY <1>5, <1>7

(* Nothing spends what was never broadcast.                                *)
LEMMA NoSpenderOfNew ==
    ASSUME ChainTypes, ChainSound, NEW t, NEW x, Sent(t, x), Sound(t, x)
    PROVE  SpentBy(t) = {} /\ x.spends # t
<1>1. t # None /\ t \notin DOMAIN txs
  BY TxFacts DEF Sent
<1>2. SpentBy(t) = {}
  BY <1>1 DEF SpentBy, ChainSound
<1> QED
  BY <1>1, <1>2 DEF Sound

(* An end that is not spent stays one, and a spent one moves on, or is the *)
(* last of an NFT that is burned.                                          *)
LEMMA EndNext ==
    ASSUME ChainTypes, ChainSound, NEW t, NEW x, Sent(t, x), Sound(t, x), NEW c, NEW e, IsEnd(c, e)
    PROVE  /\ x.spends # e => IsEnd(c, e)'
           /\ x.spends = e /\ x.token # NoToken => IsEnd(c, t)'
           /\ x.spends = e /\ x.token = NoToken => IsEnd(c, e)'
<1>1. e \in DOMAIN txs /\ txs[e].token.category = c /\ \A s \in SpentBy(e) : ~ HasToken(s)
  BY DEF IsEnd
<1>2. \A s \in SpentBy(e) : s \in DOMAIN txs
  BY DEF SpentBy
<1>3. /\ \A s \in DOMAIN txs : HasToken(s)' <=> HasToken(s)
      /\ HasToken(t)' <=> x.token # NoToken
      /\ \A r : SpentBy(r)' = SpentBy(r) \cup (IF x.spends = r THEN {t} ELSE {})
  BY SpendersNext
<1>4. e \in DOMAIN txs' /\ txs'[e].token.category = c
  BY <1>1 DEF Sent
<1>5. ASSUME x.spends # e
      PROVE  IsEnd(c, e)'
  BY <1>1, <1>2, <1>3, <1>4, <1>5 DEF IsEnd
<1>6. ASSUME x.spends = e, x.token = NoToken
      PROVE  IsEnd(c, e)'
  BY <1>1, <1>2, <1>3, <1>4, <1>6 DEF IsEnd
<1>7. ASSUME x.spends = e, x.token # NoToken
      PROVE  IsEnd(c, t)'
  <2>1. SpentBy(t)' = {}
    BY <1>3, NoSpenderOfNew
  <2>2. x.token.category = c
    <3>1. x.spends # None
      BY <1>1, <1>7, TxFacts DEF ChainTypes
    <3> QED
      BY <1>1, <1>7, <3>1 DEF Sound
  <2> QED
    BY <2>1, <2>2 DEF IsEnd, Sent
<1> QED
  BY <1>5, <1>6, <1>7

(* An end was one before, if its transaction was there.                    *)
LEMMA EndBefore ==
    ASSUME NEW t, NEW x, Sent(t, x), NEW c, NEW e \in DOMAIN txs, IsEnd(c, e)'
    PROVE  IsEnd(c, e)
<1>1. /\ \A s \in DOMAIN txs : HasToken(s)' <=> HasToken(s)
      /\ \A r : SpentBy(r)' = SpentBy(r) \cup (IF x.spends = r THEN {t} ELSE {})
  BY SpendersNext
<1>2. \A s \in SpentBy(e) : s \in DOMAIN txs
  BY DEF SpentBy
<1>3. txs'[e] = txs[e]
  BY DEF Sent
<1> QED
  BY <1>1, <1>2, <1>3 DEF IsEnd

(* Every NFT still has one end.                                            *)
LEMMA CustodyNext ==
    ASSUME ChainTypes, ChainSound, CustodyHasEnd, CustodyHasOneEnd,
           NEW t, NEW x \in Transaction, Sent(t, x), Sound(t, x)
    PROVE  CustodyHasEnd' /\ CustodyHasOneEnd'
<1>1. /\ \A s \in DOMAIN txs : HasToken(s)' <=> HasToken(s)
      /\ HasToken(t)' <=> x.token # NoToken
      /\ \A r : SpentBy(r)' = SpentBy(r) \cup (IF x.spends = r THEN {t} ELSE {})
  BY SpendersNext
<1>2. SpentBy(t)' = {}
  BY <1>1, NoSpenderOfNew
<1>3. t \in DOMAIN txs' /\ txs'[t] = x /\ t \notin DOMAIN txs
  BY DEF Sent
<1>4. ASSUME NEW c \in DOMAIN txs', HasToken(c)'
      PROVE  \E e \in DOMAIN txs' : IsEnd(txs[c].token.category, e)'
  <2>1. CASE c \in DOMAIN txs
    <3>1. PICK k : k = txs[c].token.category
      OBVIOUS
    <3>2. HasToken(c) /\ txs'[c].token.category = k
      BY <1>1, <1>4, <2>1, <3>1 DEF Sent
    <3>3. PICK e \in DOMAIN txs : IsEnd(k, e)
      BY <2>1, <3>1, <3>2 DEF CustodyHasEnd
    <3>4. IsEnd(k, e)' \/ IsEnd(k, t)'
      BY <3>3, EndNext
    <3> QED
      BY <1>3, <3>2, <3>3, <3>4 DEF IsEnd
  <2>2. CASE c = t
    BY <1>2, <1>3, <2>2 DEF IsEnd
  <2> QED
    BY <2>1, <2>2 DEF Sent
<1>5. CustodyHasEnd'
  BY <1>4 DEF CustodyHasEnd
<1>6. ASSUME NEW c \in DOMAIN txs', NEW r \in DOMAIN txs, IsEnd(c, t)', IsEnd(c, r)'
      PROVE  FALSE
  <2>1. x.token.category = c /\ IsEnd(c, r)
    BY <1>3, <1>6, EndBefore DEF IsEnd
  <2>2. c # None /\ txs[r].token.category = c
    BY <1>6, <2>1, TxFacts DEF IsEnd, Sent, ChainTypes
  <2>3. HasToken(r) /\ c \in DOMAIN txs /\ x.token # NoToken
    BY <2>1, <2>2, <1>6 DEF HasToken, NoToken, ChainSound
  <2>4. c # t /\ x.spends \in DOMAIN txs /\ Unspent(x.spends) /\ txs[x.spends].token.category = c
    BY <1>3, <2>1, <2>3 DEF Sound
  <2>5. IsEnd(c, x.spends)
    BY <2>4 DEF IsEnd, Unspent
  <2>6. x.spends = r
    BY <1>6, <2>1, <2>3, <2>4, <2>5 DEF CustodyHasOneEnd
  <2>7. t \in SpentBy(r)' /\ HasToken(t)'
    BY <1>1, <2>3, <2>6
  <2> QED
    BY <1>6, <2>7 DEF IsEnd
<1>7. ASSUME NEW c \in DOMAIN txs', NEW r \in DOMAIN txs', NEW s \in DOMAIN txs', IsEnd(c, r)', IsEnd(c, s)'
      PROVE  r = s
  <2>1. CASE r = t \/ s = t
    BY <1>6, <1>7, <2>1 DEF Sent
  <2>2. CASE r \in DOMAIN txs /\ s \in DOMAIN txs
    <3>1. IsEnd(c, r) /\ IsEnd(c, s)
      BY <1>7, <2>2, EndBefore
    <3>2. c \in DOMAIN txs
      <4>1. c # None /\ txs[r].token.category = c
        BY <1>7, <3>1, TxFacts DEF IsEnd, Sent, ChainTypes
      <4> QED
        BY <2>2, <4>1 DEF HasToken, NoToken, ChainSound
    <3> QED
      BY <2>2, <3>1, <3>2 DEF CustodyHasOneEnd
  <2> QED
    BY <2>1, <2>2 DEF Sent
<1>8. CustodyHasOneEnd'
  BY <1>7 DEF CustodyHasOneEnd
<1> QED
  BY <1>5, <1>8

----------------------------------------------------------------------------
(* The steps                                                               *)

(* A sound transaction is broadcast.                                       *)
Sends == \E t \in Tx, x \in Transaction : Broadcast(t, x) /\ Sound(t, x)

(* What BroadcastAny sends is broadcast.                                   *)
LEMMA SendsAny ==
    ASSUME NEW x \in Transaction, BroadcastAny(x), \A t \in Unused : Sound(t, x)
    PROVE  Sends
BY DEF BroadcastAny, Sends, Unused, Broadcast

(* What Plain is.                                                          *)
LEMMA PlainFields ==
    /\ Plain \in Transaction
    /\ Plain.tag = "none" /\ Plain.spends = None /\ Plain.token = NoToken
    /\ DOMAIN Plain = {"tag", "key", "marker", "pays", "spends", "token"}
BY DEF Plain, Transaction

(* A transaction without a token that spends nothing is sound.             *)
LEMMA PlainSound ==
    ASSUME NEW x, x.spends = None, x.token = NoToken, x.tag # "none" => x.key \in User /\ x.marker
    PROVE  \A t : Sound(t, x)
BY DEF Sound

(* One that spends an NFT is sound whether it moves it or loses it.        *)
LEMMA SpendingSound ==
    ASSUME NEW s \in DOMAIN txs, Unspent(s), NEW x, x.spends = s, x.tag # "FN01",
           x.token = NoToken \/ x.token.category = txs[s].token.category,
           x.tag # "none" => x.key \in User /\ x.marker
    PROVE  \A t : Sound(t, x)
BY DEF Sound

(* The token of an unspent output has a category, a commitment and a holder. *)
LEMMA TokenOfUnspent ==
    ASSUME ChainTypes, NEW s \in DOMAIN txs, HasToken(s)
    PROVE  txs[s].token \in Token
BY DEF ChainTypes, HasToken, Transaction

(* claim: the transaction mints the NFT that it names.                     *)
LEMMA ClaimSends ==
    ASSUME ChainTypes, NEW u \in User, NEW t \in Tx, Claim(u, t)
    PROVE  Sends
<1> DEFINE token == [category |-> t, commitment |-> u, holder |-> u]
           x == [Plain EXCEPT !.tag = "FN01", !.key = u, !.marker = TRUE, !.token = token]
<1>2. token \in Token /\ token # NoToken /\ token.category = t
  BY TxFacts DEF Token, NoToken
<1>3. Broadcast(t, x)
  BY DEF Claim
<1> HIDE DEF token
<1>4. x \in Transaction
  BY <1>2, PlainFields DEF Transaction
<1>5. x.tag = "FN01" /\ x.key = u /\ x.marker /\ x.spends = None /\ x.token = token
  BY PlainFields
<1> HIDE DEF x
<1>6. Sound(t, x)
  BY <1>2, <1>5 DEF Sound
<1> QED
  BY <1>3, <1>4, <1>6 DEF Sends

(* adopt: the transaction rebinds the NFT of the winning claim.            *)
LEMMA AdoptSends ==
    ASSUME ChainTypes, NEW u \in User, NEW k \in User, Adopt(u, k)
    PROVE  Sends
<1>1. PICK s \in DOMAIN txs :
         /\ Unspent(s)
         /\ BroadcastAny([Plain EXCEPT !.tag = "FN02", !.key = k, !.marker = TRUE, !.spends = s,
                             !.token = [txs[s].token EXCEPT !.commitment = k]])
  BY DEF Adopt
<1> DEFINE token == [txs[s].token EXCEPT !.commitment = k]
           x == [Plain EXCEPT !.tag = "FN02", !.key = k, !.marker = TRUE, !.spends = s, !.token = token]
<1>2. txs[s].token \in Token
  BY <1>1, TokenOfUnspent DEF Unspent
<1>3. token \in Token /\ token.category = txs[s].token.category
  BY <1>2 DEF Token
<1>4. BroadcastAny(x)
  BY <1>1
<1> HIDE DEF token
<1>5. x \in Transaction
  BY <1>3, PlainFields DEF Transaction, ChainTypes
<1>6. x.tag = "FN02" /\ x.key = k /\ x.marker /\ x.spends = s /\ x.token = token
  BY PlainFields
<1> HIDE DEF x
<1>7. \A t : Sound(t, x)
  BY <1>1, <1>3, <1>6, SpendingSound
<1> QED
  BY <1>4, <1>5, <1>7, SendsAny

(* Another wallet's transfer leaves the commitment as it is.               *)
LEMMA TransferSends ==
    ASSUME ChainTypes, NEW s \in DOMAIN txs, NEW v \in User, Transfer(s, v)
    PROVE  Sends
<1> DEFINE token == [txs[s].token EXCEPT !.holder = v]
           x == [Plain EXCEPT !.spends = s, !.token = token]
<1>1. Unspent(s) /\ BroadcastAny(x)
  BY DEF Transfer
<1>2. txs[s].token \in Token
  BY <1>1, TokenOfUnspent DEF Unspent
<1>3. token \in Token /\ token.category = txs[s].token.category
  BY <1>2 DEF Token
<1> HIDE DEF token
<1>4. x \in Transaction
  BY <1>3, PlainFields DEF Transaction, ChainTypes
<1>5. x.tag = "none" /\ x.spends = s /\ x.token = token
  BY PlainFields
<1> HIDE DEF x
<1>6. \A t : Sound(t, x)
  BY <1>1, <1>3, <1>5, SpendingSound
<1> QED
  BY <1>1, <1>4, <1>6, SendsAny

(* A burn spends it for nothing.                                           *)
LEMMA BurnSends ==
    ASSUME ChainTypes, NEW s \in DOMAIN txs, Burn(s)
    PROVE  Sends
<1> DEFINE x == [Plain EXCEPT !.spends = s]
<1>1. Unspent(s) /\ BroadcastAny(x)
  BY DEF Burn
<1>2. x \in Transaction
  BY PlainFields DEF Transaction, ChainTypes
<1>3. x.tag = "none" /\ x.spends = s /\ x.token = NoToken
  BY PlainFields
<1> HIDE DEF x
<1>4. \A t : Sound(t, x)
  BY <1>1, <1>3, SpendingSound
<1> QED
  BY <1>1, <1>2, <1>4, SendsAny

(* Neither metadata alone nor a small payment moves an NFT.                *)
LEMMA NoiseSends ==
    ASSUME NEW u \in User,
           PayWallet(u) \/ \E tag \in {"FN01", "FN02"} : Announce(tag, u)
    PROVE  Sends
<1>1. CASE PayWallet(u)
  <2> DEFINE x == [Plain EXCEPT !.pays = {u}]
  <2>1. BroadcastAny(x)
    BY <1>1 DEF PayWallet
  <2>2. x \in Transaction
    BY PlainFields DEF Transaction
  <2>3. x.tag = "none" /\ x.spends = None /\ x.token = NoToken
    BY PlainFields
  <2> HIDE DEF x
  <2>4. \A t : Sound(t, x)
    BY <2>3, PlainSound
  <2> QED
    BY <2>1, <2>2, <2>4, SendsAny
<1>2. ASSUME NEW tag \in {"FN01", "FN02"}, Announce(tag, u)
      PROVE  Sends
  <2> DEFINE x == [Plain EXCEPT !.tag = tag, !.key = u, !.marker = TRUE]
  <2>1. BroadcastAny(x)
    BY <1>2 DEF Announce
  <2>2. x \in Transaction
    BY PlainFields DEF Transaction
  <2>3. x.key = u /\ x.marker /\ x.spends = None /\ x.token = NoToken
    BY PlainFields
  <2> HIDE DEF x
  <2>4. \A t : Sound(t, x)
    BY <2>3, PlainSound
  <2> QED
    BY <2>1, <2>2, <2>4, SendsAny
<1> QED
  BY <1>1, <1>2

(* A step leaves the chain alone, or it sends a transaction or mines a     *)
(* block, and the owner follows.                                           *)
LEMMA ChainSteps ==
    ASSUME ChainTypes, [Next]_vars
    PROVE  \/ UNCHANGED chainVars
           \/ (Sends \/ \E r \in 0 .. MaxReorg : Mine(r)) /\ OwnerMoves
<1>1. ASSUME NEW q \in Query, LookupStep(q)
      PROVE  UNCHANGED chainVars
  BY <1>1 DEF LookupStep, Ask, ReadHistory, Hop, HopsExhausted, LookupFails, Return, chainVars
<1>2. CASE Tick
  BY <1>2 DEF Tick, chainVars
<1>3. ASSUME NEW u \in User, NEW k \in User, Adopt(u, k)
      PROVE  Sends /\ OwnerMoves
  BY <1>3, AdoptSends DEF Adopt
<1>4. ASSUME NEW u \in User, NEW t \in Tx, Claim(u, t)
      PROVE  Sends /\ OwnerMoves
  BY <1>4, ClaimSends DEF Claim
<1>5. ASSUME NEW s \in DOMAIN txs, Burn(s) \/ \E v \in User : Transfer(s, v)
      PROVE  Sends /\ OwnerMoves
  BY <1>5, BurnSends, TransferSends DEF Burn, Transfer
<1>6. ASSUME NEW u \in User, PayWallet(u) \/ \E tag \in {"FN01", "FN02"} : Announce(tag, u)
      PROVE  Sends /\ OwnerMoves
  BY <1>6, NoiseSends DEF PayWallet, Announce
<1>7. ASSUME NEW r \in 0 .. MaxReorg, Mine(r)
      PROVE  OwnerMoves
  BY <1>7 DEF Mine
<1>8. CASE UNCHANGED vars
  BY <1>8 DEF vars, chainVars
<1> QED
  BY <1>1, <1>2, <1>3, <1>4, <1>5, <1>6, <1>7, <1>8 DEF Next

(* A block leaves what has enough confirmations where it is, for it        *)
(* replaces fewer blocks than that.                                        *)
LEMMA MineGrows ==
    ASSUME ChainTypes, NEW r \in 0 .. MaxReorg, Mine(r)
    PROVE  ChainTypes' /\ Grows /\ txs' = txs
<1>1. /\ tip < MaxTip /\ tip' = tip + 1 /\ txs' = txs
      /\ tip \in 0 .. MaxTip /\ height \in [DOMAIN txs -> 0 .. MaxTip]
      /\ MinConf \in Nat /\ MaxReorg \in Nat /\ MaxReorg < MinConf /\ MaxTip \in Nat /\ r \in Nat /\ r < MinConf
  BY Numbers DEF Mine, ChainTypes
<1> DEFINE loose == {t \in DOMAIN txs : height[t] \notin 1 .. (tip - r)}
<1>2. PICK block \in SUBSET loose : \E kept \in SUBSET {t \in loose \ block : height[t] # 0} :
         height' = [t \in DOMAIN txs |-> IF t \in block THEN tip + 1
                                        ELSE IF t \in loose \ kept THEN 0 ELSE height[t]]
  BY DEF Mine
<1>3. PICK kept \in SUBSET {t \in loose \ block : height[t] # 0} :
         height' = [t \in DOMAIN txs |-> IF t \in block THEN tip + 1
                                        ELSE IF t \in loose \ kept THEN 0 ELSE height[t]]
  BY <1>2
<1>4. height' \in [DOMAIN txs -> 0 .. MaxTip]
  BY <1>1, <1>3
<1>5. ChainTypes'
  BY <1>1, <1>4 DEF ChainTypes
<1>6. \A t \in DOMAIN txs : height[t] \in Nat /\ (height'[t] = height[t] \/ height'[t] = 0 \/ height'[t] = tip + 1)
  BY <1>1, <1>3
<1>7. ASSUME NEW t \in DOMAIN txs, Confirmed(t, tip)
      PROVE  height'[t] = height[t]
  <2>1. height[t] \in 1 .. (tip - r)
    BY <1>1, <1>6, <1>7 DEF Confirmed
  <2>2. t \notin loose
    BY <2>1
  <2> QED
    BY <1>3, <2>2
<1>8. ASSUME NEW t \in DOMAIN txs, ~ Confirmed(t, tip)
      PROVE  height'[t] = 0 \/ height'[t] > tip - MinConf + 1
  BY <1>1, <1>6, <1>8 DEF Confirmed
<1>9. Grows
  BY <1>1, <1>7, <1>8 DEF Grows
<1> QED
  BY <1>1, <1>5, <1>9

(* So the chain only grows.                                                *)
LEMMA ChainGrows ==
    ASSUME ChainTypes, [Next]_vars
    PROVE  ChainTypes' /\ Grows
<1>1. CASE Sends
  BY <1>1, BroadcastSends DEF Sends
<1>2. CASE \E r \in 0 .. MaxReorg : Mine(r)
  BY <1>2, MineGrows
<1>3. CASE UNCHANGED chainVars
  <2>1. txs' = txs /\ height' = height /\ tip' = tip
    BY <1>3 DEF chainVars
  <2>2. \A s \in DOMAIN txs : Confirmed(s, tip) \/ height[s] = 0 \/ height[s] > tip - MinConf + 1
    BY Numbers DEF Confirmed
  <2> QED
    BY <2>1, <2>2, Numbers DEF ChainTypes, Grows
<1> QED
  BY <1>1, <1>2, <1>3, ChainSteps

(* Whatever happens, the chain stays as it should be.                      *)
LEMMA SoundNext ==
    ASSUME ChainTypes, ChainSound, NoDoubleSpend, CustodyHasEnd, CustodyHasOneEnd, [Next]_vars
    PROVE  ChainSound' /\ NoDoubleSpend' /\ CustodyHasEnd' /\ CustodyHasOneEnd'
<1>1. CASE Sends
  <2>1. PICK t \in Tx, x \in Transaction : Broadcast(t, x) /\ Sound(t, x)
    BY <1>1 DEF Sends
  <2>2. Sent(t, x)
    BY <2>1, BroadcastSends
  <2> QED
    BY <2>1, <2>2, ChainSoundNext, CustodyNext
<1>2. ASSUME txs' = txs
      PROVE  ChainSound' /\ NoDoubleSpend' /\ CustodyHasEnd' /\ CustodyHasOneEnd'
  BY <1>2 DEF ChainSound, NoDoubleSpend, CustodyHasEnd, CustodyHasOneEnd, IsEnd, HasToken, SpentBy
<1> QED
  BY <1>1, <1>2, ChainSteps, MineGrows DEF chainVars

(* The winning claim and the owner are always those of the chain.          *)
LEMMA TruthNext ==
    ASSUME ChainTypes, TruthKept, [Next]_vars
    PROVE  TruthKept'
<1>1. CASE OwnerMoves
  <2>1. PICK claim \in {WinningClaim'} : truth' = [claim |-> claim, owner |-> OwnerBy(claim)']
    BY <1>1 DEF OwnerMoves
  <2>2. truth'.claim = claim /\ truth'.owner = OwnerBy(claim)' /\ claim = WinningClaim'
    BY <2>1
  <2> QED
    BY <2>2 DEF TruthKept
<1>2. CASE UNCHANGED chainVars
  <2>1. txs' = txs /\ height' = height /\ tip' = tip /\ truth' = truth
    BY <1>2 DEF chainVars
  <2>2. Marked' = Marked /\ \A n, t : Confirmed(t, n)' <=> Confirmed(t, n)
    BY <2>1 DEF Marked, Confirmed
  <2>3. \A s, t : Precedes(s, t)' <=> Precedes(s, t)
    BY <2>1 DEF Precedes
  <2>4. Oldest(Marked)' = Oldest(Marked)
    BY <2>2, <2>3 DEF Oldest
  <2>5. Claims(tip)' = Claims(tip)
    BY <2>1, <2>2, <2>4 DEF Claims
  <2>6. \A S : Winner(S)' = Winner(S)
    BY <2>1 DEF Winner, Earlier
  <2>7. WinningClaim' = WinningClaim
    BY <2>5, <2>6 DEF WinningClaim
  <2>8. Bindings(Marked, tip)' = Bindings(Marked, tip)
    BY <2>1, <2>2 DEF Bindings
  <2>9. \A c : Reached(c)' = Reached(c) /\ (HasToken(c)' <=> HasToken(c))
    BY <2>1 DEF Reached, HasToken, SpentBy
  <2>10. OwnerBy(truth.claim)' = OwnerBy(truth.claim)
    BY <2>1, <2>8, <2>9 DEF OwnerBy
  <2> QED
    BY <2>1, <2>7, <2>10 DEF TruthKept
<1> QED
  BY <1>1, <1>2, ChainSteps

(* It all begins with an empty chain.                                      *)
LEMMA ChainInvInit == Init => ChainInv
<1> SUFFICES ASSUME Init
             PROVE  ChainInv
  OBVIOUS
<1>1. DOMAIN txs = {} /\ DOMAIN height = {} /\ tip = 0 /\ truth.claim = None /\ truth.owner = None
  BY DEF Init
<1>2. ChainTypes
  BY <1>1, Numbers DEF Init, ChainTypes
<1>3. WinningClaim = None
  BY <1>1 DEF WinningClaim, Claims, Oldest, Marked
<1>4. TruthKept
  BY <1>1, <1>3 DEF TruthKept, OwnerBy
<1> QED
  BY <1>1, <1>2, <1>4 DEF ChainInv, ChainSound, NoDoubleSpend, CustodyHasEnd, CustodyHasOneEnd

(* And stays as it should be.                                              *)
LEMMA ChainInvNext == ChainInv /\ [Next]_vars => ChainInv' /\ Grows
BY ChainGrows, SoundNext, TruthNext DEF ChainInv

----------------------------------------------------------------------------
(* The first claim keeps the name, and only its holder moves it            *)

(* The invariant of the chain holds all along.                             *)
LEMMA ChainInvHolds == Spec => []ChainInv
<1>1. Init => ChainInv
  BY ChainInvInit
<1>2. ChainInv /\ [Next]_vars => ChainInv'
  BY ChainInvNext
<1> QED
  BY <1>1, <1>2, PTL DEF Spec

(* The winning claim is a claim, and its NFT is named after it.            *)
LEMMA ClaimIsMint ==
    ASSUME ChainInv, truth.claim # None
    PROVE  /\ Claims(tip) # {} /\ truth.claim = Winner(Claims(tip))
           /\ truth.claim \in DOMAIN txs
           /\ HasToken(truth.claim) => txs[truth.claim].token.category = truth.claim
<1>1. Claims(tip) # {} /\ truth.claim = Winner(Claims(tip))
  BY DEF ChainInv, TruthKept, WinningClaim
<1>2. Claims(tip) \in SUBSET DOMAIN txs
  BY DEF Claims, Oldest, Marked
<1>3. truth.claim \in Claims(tip)
  BY <1>1, <1>2, WinnerIsFirst DEF ChainInv
<1> QED
  BY <1>1, <1>2, <1>3 DEF Claims, ChainInv, ChainSound

(* First come, first served, for good: for every number of users and of    *)
(* transactions, however the claims come and whichever blocks are          *)
(* replaced, a claim that has won goes on to win (winningClaim).           *)
THEOREM FirstClaimKeepsName == Spec => WinnerStays
<1>1. ASSUME ChainInv, [Next]_vars, truth.claim # None
      PROVE  truth'.claim = truth.claim
  <2>1. ChainInv' /\ Grows /\ ChainTypes /\ ChainTypes'
    BY <1>1, ChainInvNext DEF ChainInv
  <2>2. WinningClaim = truth.claim /\ truth'.claim = WinningClaim'
    BY <1>1, <2>1 DEF ChainInv, TruthKept
  <2> QED
    BY <1>1, <2>1, <2>2, ClaimWins
<1>2. ChainInv /\ [Next]_vars => [truth.claim # None => truth'.claim = truth.claim]_vars
  BY <1>1
<1> QED
  BY <1>2, ChainInvHolds, PTL DEF Spec, WinnerStays

(* Reached is the end of an NFT.                                           *)
EndsReached == CustodyHasOneEnd => \A c \in DOMAIN txs : \A e : IsEnd(c, e) => Reached(c) = e

(* As there is one only.                                                   *)
LEMMA ReachedIsEnd == EndsReached
<1> SUFFICES ASSUME CustodyHasOneEnd, NEW c \in DOMAIN txs, NEW e, IsEnd(c, e)
             PROVE  Reached(c) = e
  BY DEF EndsReached
<1>1. \A t : (t \in DOMAIN txs /\ txs[t].token.category = c /\ \A s \in SpentBy(t) : ~ HasToken(s)) <=> t = e
  BY DEF IsEnd, CustodyHasOneEnd
<1> QED
  BY <1>1 DEF Reached

(* So it is after a step.                                                  *)
LEMMA ReachedIsEndNext == EndsReached'
BY ReachedIsEnd, PTL

(* The NFT of the winning claim, if it has minted one, has an end.         *)
LEMMA ClaimHasEnd ==
    ASSUME ChainInv, truth.claim # None, HasToken(truth.claim)
    PROVE  \E e \in DOMAIN txs : IsEnd(truth.claim, e) /\ Reached(truth.claim) = e
<1>1. truth.claim \in DOMAIN txs /\ txs[truth.claim].token.category = truth.claim
  BY ClaimIsMint
<1>2. PICK e \in DOMAIN txs : IsEnd(truth.claim, e)
  BY <1>1 DEF ChainInv, CustodyHasEnd
<1>3. Reached(truth.claim) = e
  BY <1>1, <1>2, ReachedIsEnd DEF EndsReached, ChainInv
<1> QED
  BY <1>2, <1>3

(* As long as nobody spends the end of the NFT, the owner stays.           *)
LEMMA OwnerStays ==
    ASSUME ChainInv, [Next]_vars, truth.owner # None,
           NEW e \in DOMAIN txs, IsEnd(truth.claim, e),
           ~ \E t \in DOMAIN txs' \ DOMAIN txs : txs'[t].spends = e
    PROVE  truth'.owner = truth.owner
<1>1. ChainInv' /\ Grows /\ ChainTypes /\ ChainTypes'
  BY ChainInvNext DEF ChainInv
<1>2. truth.claim # None /\ HasToken(truth.claim)
  BY DEF ChainInv, TruthKept, OwnerBy
<1>3. PICK c : c = truth.claim
  OBVIOUS
<1>4. c \in DOMAIN txs /\ c # None /\ IsEnd(c, e) /\ Reached(c) = e /\ HasToken(c)
  BY <1>2, <1>3, ClaimIsMint, ReachedIsEnd DEF EndsReached, ChainInv
<1>5. truth'.claim = c /\ c \in DOMAIN txs' /\ HasToken(c)' /\ txs'[e] = txs[e]
  <2>1. WinningClaim = truth.claim /\ truth'.claim = WinningClaim'
    BY <1>1 DEF ChainInv, TruthKept
  <2> QED
    BY <1>1, <1>2, <1>3, <1>4, <2>1, ClaimWins DEF Grows, HasToken
<1>6. IsEnd(c, e)'
  <2>1. SpentBy(e)' = SpentBy(e)
    BY <1>1 DEF SpentBy, Grows
  <2>2. \A s \in SpentBy(e) : HasToken(s)' <=> HasToken(s)
    BY <1>1 DEF SpentBy, HasToken, Grows
  <2> QED
    BY <1>1, <1>4, <1>5, <2>1, <2>2 DEF IsEnd, Grows
<1>7. Reached(c)' = e
  BY <1>1, <1>5, <1>6, ReachedIsEndNext DEF EndsReached, ChainInv
<1>8. Bindings(Marked, tip) \subseteq Bindings(Marked, tip)'
  <2>1. tip \in Nat /\ tip' \in Nat /\ tip <= tip'
    BY <1>1, Numbers DEF ChainTypes, Grows
  <2>2. PICK n \in Nat, m \in Nat : n = tip /\ m = tip'
    BY <2>1
  <2>3. Bindings(Marked, n) \subseteq Bindings(Marked, m)'
    BY <1>1, <2>1, <2>2, BindingsStay
  <2>4. Bindings(Marked, tip)' = Bindings(Marked, m)'
    BY <2>2 DEF Bindings, Confirmed
  <2> QED
    BY <2>2, <2>3, <2>4
<1>9. txs[e].token.commitment \in Bindings(Marked, tip) /\ truth.owner = txs[e].token.commitment
  BY <1>2, <1>3, <1>4 DEF ChainInv, TruthKept, OwnerBy
<1>10. txs'[e].token.commitment \in Bindings(Marked, tip)'
  BY <1>5, <1>8, <1>9
<1>11. truth'.owner = OwnerBy(c)'
  BY <1>1, <1>5 DEF ChainInv, TruthKept
<1> QED
  BY <1>4, <1>5, <1>7, <1>9, <1>10, <1>11 DEF OwnerBy

(* The owner changes only when the holder of the NFT spends it: whatever   *)
(* others announce, claim, pay or mine (resolve).                          *)
THEOREM OnlyTheHolderMovesTheName == Spec => OnlyTheHolderRebinds
<1>1. ASSUME ChainInv, [Next]_vars, truth.owner # None, truth'.owner # truth.owner
      PROVE  \E t \in DOMAIN txs' \ DOMAIN txs : txs'[t].spends = Reached(truth.claim)
  <2>1. truth.claim # None /\ HasToken(truth.claim)
    BY <1>1 DEF ChainInv, TruthKept, OwnerBy
  <2>2. PICK e \in DOMAIN txs : IsEnd(truth.claim, e) /\ Reached(truth.claim) = e
    BY <1>1, <2>1, ClaimHasEnd
  <2> QED
    BY <1>1, <2>2, OwnerStays
<1>2. ChainInv /\ [Next]_vars =>
         [truth.owner # None /\ truth'.owner # truth.owner =>
             \E t \in DOMAIN txs' \ DOMAIN txs : txs'[t].spends = Reached(truth.claim)]_vars
  BY <1>1
<1> QED
  BY <1>2, ChainInvHolds, PTL DEF Spec, OnlyTheHolderRebinds

----------------------------------------------------------------------------
(* What a lookup knows                                                     *)

(* The claim that wins once there is one, also after a step.               *)
LEMMA ClaimStays ==
    ASSUME ChainInv, ChainInv', Grows, truth.claim # None
    PROVE  truth'.claim = truth.claim
<1>1. WinningClaim = truth.claim /\ truth'.claim = WinningClaim'
  BY DEF ChainInv, TruthKept
<1> QED
  BY <1>1, ClaimWins DEF ChainInv

(* A walk stays one when the chain grows.                                  *)
LEMMA WalkedStays ==
    ASSUME Grows, NEW v, NEW h, NEW c, NEW t, Walked(v, h, c, t)
    PROVE  Walked(v, h, c, t)'
BY DEF Walked, Grows, HasToken

(* A custody that is longer than a lookup follows stays so.                *)
LEMMA LongStays ==
    ASSUME ChainInv, ChainInv', Grows, LongCustody
    PROVE  LongCustody'
<1>1. PICK c : c = truth.claim /\ c # None /\ Hops(c) > MaxHops
  BY DEF LongCustody
<1> DEFINE old == {t \in DOMAIN txs : txs[t].token.category = c}
           new == {t \in DOMAIN txs' : txs'[t].token.category = c}
<1>2. old \subseteq new /\ old \in SUBSET Tx /\ new \in SUBSET Tx
  BY DEF Grows, ChainInv, ChainTypes
<1>3. /\ Cardinality(old) \in Nat /\ Cardinality(new) \in Nat
      /\ IsFiniteSet(new)
  BY <1>2, TxFacts
<1>4. Cardinality(old) <= Cardinality(new)
  BY <1>2, <1>3, FS_Subset
<1>5. Hops(c) = Cardinality(old) - 1 /\ Hops(c)' = Cardinality(new) - 1
  BY DEF Hops
<1>6. MaxHops \in Nat
  BY LookupAssumption DEF LookupAssumption
<1> HIDE DEF old, new
<1>7. Hops(c)' > MaxHops
  BY <1>1, <1>3, <1>4, <1>5, <1>6
<1>8. truth'.claim = c
  BY <1>1, ClaimStays
<1> QED
  BY <1>1, <1>7, <1>8 DEF LongCustody

(* What a lookup knows stays true while it goes on.                        *)
LEMMA InformedStays ==
    ASSUME ChainInv, ChainInv', Grows, NEW q, Informed(q), Asking(q), reader[q].tip \in Nat,
           reader'[q].pc = reader[q].pc, reader'[q].tip = reader[q].tip,
           reader'[q].at = reader[q].at, reader'[q].hops = reader[q].hops,
           reader'[q].bindings = reader[q].bindings, reader'[q].truncated = reader[q].truncated,
           reader[q].seen \subseteq reader'[q].seen, truth'.owner \in reader'[q].seen
    PROVE  Informed(q)'
<1>1. Watching(q)'
  BY DEF Watching
<1>2. tip \in Nat /\ tip' \in Nat /\ tip <= tip' /\ ChainTypes /\ ChainTypes'
  BY Numbers DEF ChainInv, ChainTypes, Grows
<1>3. ASSUME At(q, "history")
      PROVE  HistoryPhase(q)'
  <2>1. PICK n \in Nat : n = reader[q].tip
    OBVIOUS
  <2>2. n <= tip /\ n <= tip' /\ reader[q].hops = 0
    BY <1>2, <1>3, <2>1 DEF Informed, HistoryPhase
  <2>3. Claims(n)' = Claims(n) /\ Bindings(Marked, n) \subseteq Bindings(Marked, n)'
    BY <1>2, <2>2, ClaimsStay, BindingsStay
  <2>4. Claims(reader[q].tip)' = Claims(n)' /\ Bindings(Marked, reader[q].tip)' = Bindings(Marked, n)'
    BY <2>1 DEF Claims, Bindings, Confirmed
  <2>5. \/ None \in reader[q].seen
        \/ /\ Claims(n) # {}
           /\ \E o \in reader[q].seen : o \in Bindings(Marked, n)
    BY <1>3, <2>1 DEF Informed, HistoryPhase
  <2> QED
    BY <2>1, <2>2, <2>3, <2>4, <2>5 DEF HistoryPhase
<1>4. ASSUME At(q, "walk")
      PROVE  WalkPhase(q)'
  <2>1. /\ truth.claim # None /\ reader[q].at \in DOMAIN txs /\ HasToken(truth.claim)
        /\ reader[q].bindings \subseteq Bindings(Marked, tip)
        /\ \/ reader[q].truncated
           \/ None \in reader[q].seen
           \/ \E o \in reader[q].seen : o \in reader[q].bindings
    BY <1>4 DEF Informed, WalkPhase
  <2>0. PICK h, c, t : h = reader[q].hops /\ c = truth.claim /\ t = reader[q].at
    OBVIOUS
  <2>2. PICK v \in SUBSET DOMAIN txs : Walked(v, h, c, t)
    BY <1>4, <2>0 DEF Informed, WalkPhase
  <2>3. truth'.claim = c
    BY <2>0, <2>1, ClaimStays
  <2>4. Walked(v, h, c, t)' /\ v \in SUBSET DOMAIN txs'
    BY <2>2, WalkedStays DEF Grows
  <2>5. c \in DOMAIN txs /\ HasToken(c)'
    BY <2>0, <2>1, ClaimIsMint DEF HasToken, Grows
  <2>6. PICK n \in Nat, m \in Nat : n = tip /\ m = tip'
    BY <1>2
  <2>7. Bindings(Marked, n) \subseteq Bindings(Marked, m)'
    BY <1>2, <2>6, BindingsStay
  <2>8. Bindings(Marked, m)' = Bindings(Marked, tip)'
    BY <2>6 DEF Bindings, Confirmed
  <2> QED
    BY <2>0, <2>1, <2>2, <2>3, <2>4, <2>5, <2>6, <2>7, <2>8 DEF WalkPhase, Grows
<1>5. (At(q, "history") => HistoryPhase(q)') /\ (At(q, "walk") => WalkPhase(q)')
  BY <1>3, <1>4
<1> QED
  BY <1>1, <1>5 DEF Informed, HistoryPhase, WalkPhase, At

----------------------------------------------------------------------------
(* What a lookup answers is justified                                      *)

(* The bounds of a lookup, and what is no user.                            *)
LEMMA LookupNumbers ==
    /\ MaxScan \in Nat /\ MaxScan >= 1 /\ MaxHops \in Nat /\ Timeout \in Nat
    /\ OwnerTTL \in Nat /\ OwnerTTL >= 1 /\ NotFoundTTL \in Nat /\ NotFoundTTL >= 1
    /\ "notfound" \notin User /\ "error" \notin User /\ "none" \notin User /\ None \notin User
<1>1. /\ MaxScan \in Nat /\ MaxScan >= 1 /\ MaxHops \in Nat /\ Timeout \in Nat
      /\ OwnerTTL \in Nat \ {0} /\ NotFoundTTL \in Nat \ {0}
      /\ {"notfound", "error", "none"} \cap User = {}
  BY LookupAssumption DEF LookupAssumption
<1>2. OwnerTTL >= 1 /\ NotFoundTTL >= 1
  BY <1>1
<1>3. "notfound" \notin User /\ "error" \notin User /\ "none" \notin User
  BY <1>1
<1> QED
  BY <1>1, <1>2, <1>3, TxFacts

(* No transaction comes before itself.                                     *)
LEMMA NotBeforeItself ==
    ASSUME ChainTypes, NEW t \in DOMAIN txs
    PROVE  ~ Precedes(t, t)
BY Numbers DEF Precedes

(* A history that is not too long is scanned from one end to the other,    *)
(* whichever end the scan starts from.                                     *)
LEMMA WholeHistory ==
    ASSUME ChainTypes, NEW h \in SUBSET DOMAIN txs, ~ Truncated(h)
    PROVE  Oldest(h) = h /\ Newest(h) = h
<1>1. IsFiniteSet(h) /\ Cardinality(h) \in Nat /\ Cardinality(h) <= MaxScan /\ MaxScan \in Nat
  BY TxFacts, LookupNumbers DEF ChainTypes, Truncated
<1>2. ASSUME NEW t \in h, NEW before \in SUBSET h, t \notin before
      PROVE  Cardinality(before) < MaxScan
  <2>1. Cardinality(before) \in Nat
    BY TxFacts DEF ChainTypes
  <2>2. Cardinality(before) <= Cardinality(h) /\ (Cardinality(before) = Cardinality(h) => before = h)
    BY <1>1, FS_Subset
  <2> QED
    BY <1>1, <1>2, <2>1, <2>2
<1>3. ASSUME NEW t \in h
      PROVE  /\ Cardinality({s \in h : Precedes(s, t)}) < MaxScan
             /\ Cardinality({s \in h : Precedes(t, s)}) < MaxScan
  <2>1. ~ Precedes(t, t)
    BY NotBeforeItself
  <2>2. /\ {s \in h : Precedes(s, t)} \in SUBSET h /\ t \notin {s \in h : Precedes(s, t)}
        /\ {s \in h : Precedes(t, s)} \in SUBSET h /\ t \notin {s \in h : Precedes(t, s)}
    BY <2>1
  <2> QED
    BY <1>2, <2>2
<1> QED
  BY <1>3 DEF Oldest, Newest

(* Who spends an output is in the history of the wallet that held it.      *)
LEMMA SpendersTouch ==
    ASSUME ChainTypes, NEW t \in DOMAIN txs
    PROVE  SpentBy(t) \subseteq Touching(txs[t].token.holder)
<1>1. t # None
  BY TxFacts DEF ChainTypes
<1> QED
  BY <1>1 DEF SpentBy, Touching

(* What a lookup may give as its answer.                                   *)
Due(q, result) ==
    /\ result \in User \cup {"notfound", "error"}
    /\ result # "error" => Justified(result, reader[q].seen) \/ LongCustody

(* Whose key the walk matches once it is at the end of the NFT.            *)
LEMMA EndAnswers ==
    ASSUME ChainInv, NEW q, Informed(q), At(q, "walk"), IsEnd(truth.claim, reader[q].at),
           reader[q].bindings \in SUBSET User
    PROVE  Due(q, Match(q, txs[reader[q].at].token.commitment))
<1> DEFINE k == txs[reader[q].at].token.commitment
           answer == Match(q, k)
<1>1. /\ truth.claim # None /\ reader[q].at \in DOMAIN txs /\ HasToken(truth.claim)
      /\ reader[q].bindings \subseteq Bindings(Marked, tip)
      /\ \/ reader[q].truncated
         \/ None \in reader[q].seen
         \/ \E o \in reader[q].seen : o \in reader[q].bindings
      /\ truth.owner \in reader[q].seen
  BY DEF Informed, WalkPhase, Watching, Asking, At
<1>2. Reached(truth.claim) = reader[q].at
  BY <1>1, ClaimIsMint, ReachedIsEnd DEF EndsReached, ChainInv
<1>3. truth.owner = IF k \in Bindings(Marked, tip) THEN k ELSE None
  BY <1>1, <1>2 DEF ChainInv, TruthKept, OwnerBy
<1>4. CASE k \in reader[q].bindings
  <2>1. answer = k /\ k \in User /\ truth.owner = k
    BY <1>1, <1>3, <1>4 DEF Match
  <2> QED
    BY <1>1, <2>1, LookupNumbers DEF Due, Justified
<1>5. CASE k \notin reader[q].bindings /\ reader[q].truncated
  <2>1. answer = "error"
    BY <1>5 DEF Match
  <2> QED
    BY <2>1 DEF Due
<1>6. CASE k \notin reader[q].bindings /\ ~ reader[q].truncated
  <2>1. answer = "notfound"
    BY <1>6 DEF Match
  <2>2. None \in reader[q].seen \/ \E o, p \in reader[q].seen : o # p
    BY <1>1, <1>3, <1>6
  <2> QED
    BY <2>1, <2>2 DEF Due, Justified
<1> QED
  BY <1>4, <1>5, <1>6

(* If somebody spends the output that a walk has reached, and moves the    *)
(* NFT, the walk has not followed that yet.                                *)
LEMMA WalkGoesOn ==
    ASSUME ChainInv, NEW v \in SUBSET DOMAIN txs, NEW h \in Nat, NEW c, NEW t, Walked(v, h, c, t),
           NEW s \in SpentBy(t), HasToken(s)
    PROVE  s \notin v /\ Walked(v \cup {s}, h + 1, c, s)
<1>1. /\ t \in v /\ Cardinality(v) = h + 1
      /\ \A r \in v : /\ HasToken(r) /\ txs[r].token.category = c
                      /\ txs[r].spends \in v \cup {None} /\ txs[r].spends # t
  BY DEF Walked
<1>2. s \in DOMAIN txs /\ txs[s].spends = t /\ t # None /\ t \in DOMAIN txs
  BY <1>1, TxFacts DEF SpentBy, ChainInv, ChainTypes
<1>3. s \notin v
  BY <1>1, <1>2
<1>4. txs[s].token.category = c
  BY <1>1, <1>2 DEF ChainInv, ChainSound
<1>5. IsFiniteSet(v)
  BY TxFacts DEF ChainInv, ChainTypes
<1>6. Cardinality(v \cup {s}) = h + 1 + 1
  BY <1>1, <1>3, <1>5, FS_AddElement
<1>7. \A r \in v \cup {s} : txs[r].spends # s
  <2>1. s # None
    BY <1>2, TxFacts DEF ChainInv, ChainTypes
  <2> QED
    BY <1>1, <1>2, <1>3, <2>1
<1> QED
  BY <1>1, <1>2, <1>3, <1>4, <1>6, <1>7 DEF Walked

(* A walk that ends at its limit short of the end has a long custody       *)
(* before it.                                                              *)
LEMMA LimitMeansLong ==
    ASSUME ChainInv, NEW v \in SUBSET DOMAIN txs, NEW h \in Nat, NEW c, NEW t,
           Walked(v, h, c, t), h >= MaxHops, ~ IsEnd(c, t), c = truth.claim, c # None
    PROVE  LongCustody
<1>1. t \in v /\ t \in DOMAIN txs /\ txs[t].token.category = c
  BY DEF Walked
<1>2. PICK s \in SpentBy(t) : HasToken(s)
  BY <1>1 DEF IsEnd
<1> DEFINE w == v \cup {s}
           all == {r \in DOMAIN txs : txs[r].token.category = c}
<1>3. Walked(w, h + 1, c, s)
  BY <1>2, WalkGoesOn
<1>4. w \subseteq all /\ Cardinality(w) = h + 1 + 1
  BY <1>3 DEF Walked
<1>5. all \in SUBSET Tx
  BY DEF ChainInv, ChainTypes
<1>6. IsFiniteSet(all) /\ Cardinality(all) \in Nat
  BY <1>5, TxFacts
<1>7. Cardinality(w) <= Cardinality(all)
  BY <1>4, <1>6, FS_Subset
<1>8. Hops(c) = Cardinality(all) - 1 /\ MaxHops \in Nat
  BY LookupNumbers DEF Hops
<1> HIDE DEF w, all
<1>9. Hops(c) > MaxHops
  BY <1>4, <1>6, <1>7, <1>8
<1> QED
  BY <1>9 DEF LongCustody

----------------------------------------------------------------------------
(* The steps of a lookup                                                   *)

(* All that holds, whatever has happened.                                  *)
Inv == TypeOK /\ ChainInv /\ LookupInv /\ CacheInv /\ AnswersJustified /\ NotFoundJustified

(* What a lookup is like when it has not begun.                            *)
LEMMA IdleFields ==
    /\ Idle \in ReaderState
    /\ Idle.pc = "idle" /\ Idle.seen = {} /\ Idle.result = "none" /\ Idle.cached = FALSE
    /\ Idle.hops = 0 /\ Idle.at = None
<1>1. MaxTip \in Nat /\ MaxHops \in Nat /\ Timeout \in Nat
  BY Numbers, LookupNumbers
<1> QED
  BY <1>1 DEF Idle, ReaderState

(* A lookup that goes on leaves the cache and the chain alone, knows what  *)
(* it should, and is not done, unless its answer comes from the cache.     *)
GoesOn(q) ==
    /\ \E state \in ReaderState : Become(q, state)
    /\ cache' = cache
    /\ Informed(q)'
    /\ At(q, "done")' => reader'[q].cached

(* One that answers gives an answer that is due.                           *)
Answers(q) == \E result \in User \cup {"notfound", "error"} : Due(q, result) /\ Answer(q, result)

(* What Become does. *)
LEMMA BecomeFacts ==
    ASSUME reader \in [Query -> ReaderState], NEW q \in Query, NEW state, Become(q, state)
    PROVE  /\ reader'[q] = state /\ DOMAIN reader' = Query
           /\ \A p \in Query \ {q} : reader'[p] = reader[p]
           /\ state \in ReaderState => reader' \in [Query -> ReaderState]
BY DEF Become

(* A lookup starts with the owner of the moment, and with the claims and   *)
(* the keys that count at the height it has read.                          *)
LEMMA AskInforms ==
    ASSUME Inv, NEW q \in Query, Ask(q)
    PROVE  GoesOn(q)
<1>1. reader \in [Query -> ReaderState] /\ tip \in 0 .. MaxTip /\ truth.owner \in User \cup {None}
  BY DEF Inv, TypeOK
<1>2. cache' = cache /\ txs' = txs /\ height' = height /\ tip' = tip /\ truth' = truth
  BY DEF Ask, chainVars
<1>3. CASE cache.left > 0
  <2> DEFINE state == [Idle EXCEPT !.pc = "done", !.cached = TRUE, !.result = cache.result]
  <2>1. Become(q, state)
    BY <1>3 DEF Ask
  <2>2. cache.result \in User \cup {"notfound", "none"}
    BY DEF Inv, TypeOK
  <2>3. state \in ReaderState /\ state.pc = "done" /\ state.cached
    BY <2>2, IdleFields DEF ReaderState
  <2> HIDE DEF state
  <2>4. reader'[q] = state
    BY <1>1, <2>1, BecomeFacts
  <2>5. Informed(q)'
    BY <2>3, <2>4 DEF Informed, Asking, HistoryPhase, WalkPhase, At
  <2> QED
    BY <1>2, <2>1, <2>3, <2>4, <2>5 DEF GoesOn
<1>4. CASE ~ cache.left > 0
  <2> DEFINE state == [Idle EXCEPT !.pc = "history", !.tip = tip, !.left = Timeout, !.seen = {truth.owner}]
  <2>1. Become(q, state)
    BY <1>4 DEF Ask
  <2>0. Timeout \in 0 .. Timeout /\ {truth.owner} \in SUBSET (User \cup {None})
    BY <1>1, LookupNumbers
  <2>2. state \in ReaderState
    BY <1>1, <2>0, IdleFields DEF ReaderState
  <2>3. state.pc = "history" /\ state.tip = tip /\ state.seen = {truth.owner} /\ state.hops = 0
    BY IdleFields DEF ReaderState
  <2> HIDE DEF state
  <2>4. reader'[q] = state
    BY <1>1, <2>1, BecomeFacts
  <2>5. truth.owner = None \/ (Claims(tip) # {} /\ truth.owner \in Bindings(Marked, tip))
    BY ClaimIsMint DEF Inv, ChainInv, TruthKept, OwnerBy
  <2>6. Claims(tip)' = Claims(tip) /\ Bindings(Marked, tip)' = Bindings(Marked, tip)
    BY <1>2 DEF Claims, Bindings, Oldest, Marked, Confirmed, Precedes
  <2>7. Claims(reader[q].tip)' = Claims(tip)' /\ Bindings(Marked, reader[q].tip)' = Bindings(Marked, tip)'
    BY <1>2, <2>3, <2>4 DEF Claims, Bindings, Confirmed
  <2>8. tip <= tip
    BY <1>1, Numbers
  <2>9. HistoryPhase(q)'
    BY <1>2, <2>3, <2>4, <2>5, <2>6, <2>7, <2>8 DEF HistoryPhase
  <2>10. Informed(q)'
    BY <1>2, <2>3, <2>4, <2>9 DEF Informed, Asking, Watching, WalkPhase, At
  <2>11. ~ At(q, "done")'
    BY <2>3, <2>4 DEF At
  <2> QED
    BY <1>2, <2>1, <2>2, <2>10, <2>11 DEF GoesOn
<1> QED
  BY <1>3, <1>4

(* What a lookup knows when it walks.                                      *)
LEMMA NowWalking ==
    ASSUME ChainInv, UNCHANGED chainVars, NEW q, NEW h, NEW t,
           NEW v \in SUBSET DOMAIN txs, Walked(v, h, truth.claim, t),
           truth.claim # None, HasToken(truth.claim),
           reader'[q].pc = "walk", reader'[q].at = t, reader'[q].hops = h,
           truth.owner \in reader'[q].seen, reader'[q].bindings \subseteq Bindings(Marked, tip),
           \/ reader'[q].truncated
           \/ None \in reader'[q].seen
           \/ \E o \in reader'[q].seen : o \in reader'[q].bindings
    PROVE  Informed(q)'
<1>1. txs' = txs /\ height' = height /\ tip' = tip /\ truth' = truth
  BY DEF chainVars
<1>2. Bindings(Marked, tip)' = Bindings(Marked, tip)
  BY <1>1 DEF Bindings, Marked, Confirmed
<1>3. Walked(v, h, truth.claim, t)'
  BY <1>1 DEF Walked, HasToken
<1>4. HasToken(truth.claim)' /\ t \in DOMAIN txs
  BY <1>1 DEF HasToken, Walked
<1>5. WalkPhase(q)'
  BY <1>1, <1>2, <1>3, <1>4 DEF WalkPhase
<1> QED
  BY <1>1, <1>5 DEF Informed, Asking, Watching, HistoryPhase, At

(* The claims that a lookup finds name the winner of the moment; with none *)
(* of them, or without an NFT, the name had no owner.                      *)
LEMMA HistoryKnows ==
    ASSUME ChainInv, NEW q, Informed(q), At(q, "history"), reader[q].tip \in Nat
    PROVE  /\ Claims(reader[q].tip) = {} => Due(q, "notfound")
           /\ Claims(reader[q].tip) # {} =>
                 /\ truth.claim # None /\ Winner(Claims(reader[q].tip)) = truth.claim
                 /\ ~ HasToken(truth.claim) => Due(q, "notfound")
<1>1. /\ reader[q].tip <= tip /\ truth.owner \in reader[q].seen
      /\ None \in reader[q].seen \/ Claims(reader[q].tip) # {}
  BY DEF Informed, Asking, Watching, HistoryPhase, At
<1>2. ASSUME None \in reader[q].seen
      PROVE  Due(q, "notfound")
  BY <1>2 DEF Due, Justified
<1>3. ASSUME Claims(reader[q].tip) # {}
      PROVE  truth.claim # None /\ Winner(Claims(reader[q].tip)) = truth.claim
  <2>1. Claims(tip) # {} /\ Winner(Claims(reader[q].tip)) = Winner(Claims(tip))
    BY <1>1, <1>3, SameWinner DEF ChainInv
  <2>2. Claims(tip) \in SUBSET DOMAIN txs
    BY DEF Claims, Oldest, Marked
  <2>3. Winner(Claims(tip)) \in DOMAIN txs
    BY <2>1, <2>2, WinnerIsFirst DEF ChainInv
  <2>4. Winner(Claims(tip)) # None
    BY <2>3, TxFacts DEF ChainInv, ChainTypes
  <2> QED
    BY <2>1, <2>4 DEF ChainInv, TruthKept, WinningClaim
<1>4. ~ HasToken(truth.claim) => truth.owner = None
  BY DEF ChainInv, TruthKept, OwnerBy
<1> QED
  BY <1>1, <1>2, <1>3, <1>4

(* The winning claim spends no NFT.                                        *)
LEMMA SpendsNothing ==
    ASSUME ChainInv, truth.claim # None
    PROVE  txs[truth.claim].spends = None
<1>1. Claims(tip) # {} /\ truth.claim = Winner(Claims(tip)) /\ Claims(tip) \in SUBSET DOMAIN txs
  BY ClaimIsMint DEF Claims, Oldest, Marked
<1>2. truth.claim \in Claims(tip)
  BY <1>1, WinnerIsFirst DEF ChainInv
<1> QED
  BY <1>1, <1>2 DEF Claims, ChainInv, ChainSound

(* Reading the history, a lookup answers or starts to walk.                *)
LEMMA ReadHistoryInforms ==
    ASSUME Inv, NEW q \in Query, ReadHistory(q)
    PROVE  GoesOn(q) \/ Answers(q)
<1>1. reader \in [Query -> ReaderState] /\ reader[q] \in ReaderState /\ ChainInv /\ ChainTypes
  BY DEF Inv, TypeOK, ChainInv
<1>2. /\ reader[q].tip \in Nat /\ Informed(q) /\ At(q, "history") /\ UNCHANGED chainVars
      /\ reader[q].tip <= tip /\ reader[q].hops = 0 /\ tip \in Nat
  BY <1>1, Numbers DEF ReadHistory, ReaderState, Inv, LookupInv, Informed, HistoryPhase
<1> DEFINE claims == Claims(reader[q].tip)
           c == Winner(claims)
<1>3. CASE claims = {} /\ Answer(q, IF Truncated(Marked) THEN "error" ELSE "notfound")
  <2>1. Due(q, IF Truncated(Marked) THEN "error" ELSE "notfound")
    BY <1>1, <1>2, <1>3, HistoryKnows DEF Due
  <2> QED
    BY <1>3, <2>1 DEF Answers
<1>4. CASE claims # {} /\ ~ HasToken(c) /\ Answer(q, "notfound")
  <2>1. Due(q, "notfound")
    BY <1>1, <1>2, <1>4, HistoryKnows
  <2> QED
    BY <1>4, <2>1 DEF Answers
<1> DEFINE state == [reader[q] EXCEPT
                       !.pc = "walk", !.tip = 0, !.at = c, !.truncated = Truncated(Marked),
                       !.bindings = Bindings(Oldest(Marked), reader[q].tip)]
<1>5. CASE claims # {} /\ HasToken(c) /\ Become(q, state) /\ cache' = cache
  <2>1. truth.claim # None /\ c = truth.claim
    BY <1>1, <1>2, <1>5, HistoryKnows
  <2>2. c \in DOMAIN txs /\ c \in Tx /\ HasToken(c) /\ txs[c].token.category = c
    BY <1>1, <1>5, <2>1, ClaimIsMint DEF ChainTypes
  <2>3. Oldest(Marked) \subseteq Marked /\ Marked \in SUBSET DOMAIN txs
    BY DEF Oldest, Marked
  <2>4. Bindings(Oldest(Marked), reader[q].tip) \subseteq Bindings(Marked, reader[q].tip)
    BY <2>3 DEF Bindings
  <2>5. Bindings(Marked, reader[q].tip) \subseteq Bindings(Marked, tip)
    <3>1. \A t \in Marked : Confirmed(t, reader[q].tip) => Confirmed(t, tip)
      BY <1>1, <1>2, <2>3, Numbers DEF Confirmed
    <3> QED
      BY <3>1 DEF Bindings
  <2>6. Bindings(Marked, tip) \subseteq User
    BY <1>1 DEF Bindings, Marked, ChainInv, ChainSound
  <2>7. ~ Truncated(Marked) => Bindings(Oldest(Marked), reader[q].tip) = Bindings(Marked, reader[q].tip)
    BY <1>1, <2>3, WholeHistory
  <2>8. /\ state.pc = "walk" /\ state.at = c /\ state.hops = reader[q].hops /\ state.seen = reader[q].seen
        /\ state.bindings = Bindings(Oldest(Marked), reader[q].tip)
        /\ state.truncated = Truncated(Marked)
    BY <1>1 DEF ReaderState
  <2>9. state \in ReaderState
    <3>1. 0 \in 0 .. MaxTip /\ c \in Tx \cup {None} /\ Truncated(Marked) \in BOOLEAN
      BY <2>2, Numbers DEF Truncated
    <3>2. Bindings(Oldest(Marked), reader[q].tip) \in SUBSET User
      BY <2>4, <2>5, <2>6
    <3> QED
      BY <1>1, <3>1, <3>2 DEF ReaderState
  <2> HIDE DEF state, claims, c
  <2>10. reader'[q] = state
    BY <1>1, <1>5, BecomeFacts
  <2>11. Walked({c}, 0, c, c)
    <3>1. Cardinality({c}) = 0 + 1
      <4>1. Cardinality({c}) = 1
        BY FS_Singleton
      <4> QED
        BY <4>1
    <3>2. txs[c].spends = None /\ c # None
      BY <1>1, <2>2, <2>1, SpendsNothing, TxFacts
    <3> QED
      BY <2>2, <3>1, <3>2 DEF Walked
  <2>12. /\ state.bindings \subseteq Bindings(Marked, tip)
         /\ \/ state.truncated
            \/ None \in state.seen
            \/ \E o \in state.seen : o \in state.bindings
    <3>1. None \in reader[q].seen \/ \E o \in reader[q].seen : o \in Bindings(Marked, reader[q].tip)
      BY <1>2 DEF Informed, HistoryPhase
    <3> QED
      BY <2>4, <2>5, <2>7, <2>8, <3>1
  <2>13. truth.owner \in state.seen
    BY <1>2, <2>8 DEF Informed, Asking, Watching, At
  <2>14. {c} \in SUBSET DOMAIN txs /\ HasToken(truth.claim) /\ state.hops = 0
    BY <1>2, <2>1, <2>2, <2>8
  <2>15. Informed(q)'
    BY <1>1, <1>2, <2>1, <2>8, <2>10, <2>11, <2>12, <2>13, <2>14, NowWalking
  <2>16. ~ At(q, "done")'
    BY <2>8, <2>10 DEF At
  <2> QED
    BY <1>5, <2>9, <2>15, <2>16 DEF GoesOn
<1> QED
  BY <1>3, <1>4, <1>5 DEF ReadHistory

(* Where a walk is.                                                        *)
LEMMA WalkFacts ==
    ASSUME Inv, NEW q \in Query, At(q, "walk")
    PROVE  /\ reader[q] \in ReaderState /\ reader[q].hops \in Nat /\ reader[q].bindings \in SUBSET User
           /\ ChainInv /\ ChainTypes /\ Informed(q)
           /\ reader[q].at \in DOMAIN txs /\ truth.claim \in DOMAIN txs
           /\ truth.claim # None /\ HasToken(truth.claim)
           /\ txs[reader[q].at].token.category = truth.claim
<1>1. reader[q] \in ReaderState /\ ChainInv /\ ChainTypes /\ Informed(q)
  BY DEF Inv, TypeOK, ChainInv, LookupInv
<1>2. reader[q].hops \in 0 .. MaxHops /\ reader[q].bindings \in SUBSET User /\ MaxHops \in Nat
  BY <1>1, LookupNumbers DEF ReaderState
<1>3. /\ reader[q].at \in DOMAIN txs /\ truth.claim # None /\ HasToken(truth.claim)
      /\ txs[reader[q].at].token.category = truth.claim
  BY <1>1 DEF Informed, WalkPhase, Walked
<1>4. truth.claim \in DOMAIN txs
  BY <1>1, <1>3, ClaimIsMint
<1> QED
  BY <1>1, <1>2, <1>3, <1>4

(* A hop that finds the NFT moved follows it.                              *)
LEMMA HopFollows ==
    ASSUME Inv, NEW q \in Query, At(q, "walk"), reader[q].hops < MaxHops, UNCHANGED chainVars,
           NEW s \in SpentBy(reader[q].at), HasToken(s),
           Become(q, [reader[q] EXCEPT !.at = s, !.hops = @ + 1]), cache' = cache
    PROVE  GoesOn(q)
<1> DEFINE state == [reader[q] EXCEPT !.at = s, !.hops = @ + 1]
<1>1. /\ reader[q] \in ReaderState /\ reader[q].hops \in Nat
      /\ ChainInv /\ ChainTypes /\ Informed(q)
      /\ truth.claim # None /\ HasToken(truth.claim)
      /\ reader \in [Query -> ReaderState]
  BY WalkFacts DEF Inv, TypeOK
<1>2. PICK h \in Nat : h = reader[q].hops
  BY <1>1
<1>3. PICK c, t : c = truth.claim /\ t = reader[q].at
  OBVIOUS
<1>4. PICK v \in SUBSET DOMAIN txs : Walked(v, h, c, t)
  BY <1>1, <1>2, <1>3 DEF Informed, WalkPhase
<1>5. s \notin v /\ Walked(v \cup {s}, h + 1, c, s)
  BY <1>1, <1>3, <1>4, WalkGoesOn
<1>6. s \in DOMAIN txs /\ s \in Tx /\ v \cup {s} \in SUBSET DOMAIN txs
  BY <1>1 DEF SpentBy, ChainTypes
<1>7. h + 1 \in 0 .. MaxHops
  BY <1>2, LookupNumbers
<1>8. state \in ReaderState
  BY <1>1, <1>2, <1>6, <1>7 DEF ReaderState
<1>9. /\ state.pc = "walk" /\ state.at = s /\ state.hops = h + 1 /\ state.seen = reader[q].seen
      /\ state.bindings = reader[q].bindings /\ (state.truncated <=> reader[q].truncated)
  BY <1>1, <1>2 DEF ReaderState, At
<1> HIDE DEF state
<1>10. reader'[q] = state
  BY <1>1, BecomeFacts DEF state
<1>11. /\ truth.owner \in state.seen /\ state.bindings \subseteq Bindings(Marked, tip)
       /\ \/ state.truncated
          \/ None \in state.seen
          \/ \E o \in state.seen : o \in state.bindings
  BY <1>1, <1>9 DEF Informed, WalkPhase, Asking, Watching, At
<1>12. Informed(q)'
  BY <1>1, <1>3, <1>5, <1>6, <1>9, <1>10, <1>11, NowWalking
<1>13. ~ At(q, "done")'
  BY <1>9, <1>10 DEF At
<1> QED
  BY <1>8, <1>12, <1>13 DEF GoesOn, state

(* A hop that finds the NFT burned or not spent is at its end.             *)
LEMMA HopEnds ==
    ASSUME Inv, NEW q \in Query, At(q, "walk"), IsEnd(truth.claim, reader[q].at)
    PROVE  Due(q, Match(q, txs[reader[q].at].token.commitment))
BY WalkFacts, EndAnswers

(* A hop goes on or answers.                                               *)
LEMMA HopInforms ==
    ASSUME Inv, NEW q \in Query, Hop(q)
    PROVE  GoesOn(q) \/ Answers(q)
<1> DEFINE t == reader[q].at
           history == Touching(txs[t].token.holder)
           found == Newest(history) \cap SpentBy(t)
           answer == Match(q, txs[t].token.commitment)
<1>1. /\ ChainInv /\ ChainTypes /\ t \in DOMAIN txs /\ txs[t].token.category = truth.claim
      /\ At(q, "walk") /\ reader[q].hops < MaxHops /\ UNCHANGED chainVars
  BY WalkFacts DEF Hop
<1>2. ASSUME NEW s \in found, HasToken(s), Become(q, [reader[q] EXCEPT !.at = s, !.hops = @ + 1]),
             cache' = cache
      PROVE  GoesOn(q)
  BY <1>1, <1>2, HopFollows
<1>3. ASSUME NEW s \in found, ~ HasToken(s), Answer(q, answer)
      PROVE  Answers(q)
  <2>1. s \in DOMAIN txs /\ txs[s].spends = t /\ t # None
    BY <1>1, TxFacts DEF SpentBy, ChainTypes
  <2>2. \A r \in SpentBy(t) : r = s
    BY <1>1, <2>1 DEF SpentBy, ChainInv, NoDoubleSpend
  <2>3. IsEnd(truth.claim, t)
    BY <1>1, <1>3, <2>2 DEF IsEnd
  <2>4. Due(q, answer)
    BY <1>1, <2>3, HopEnds
  <2> QED
    BY <1>3, <2>4 DEF Answers, Due
<1>4. ASSUME found = {}, Answer(q, IF Truncated(history) THEN "error" ELSE answer)
      PROVE  Answers(q)
  <2>1. CASE Truncated(history)
    <3>1. Due(q, "error")
      BY DEF Due
    <3> QED
      BY <1>4, <2>1, <3>1 DEF Answers
  <2>2. CASE ~ Truncated(history)
    <3>1. history \in SUBSET DOMAIN txs
      BY DEF Touching
    <3>2. Newest(history) = history
      BY <1>1, <2>2, <3>1, WholeHistory
    <3>3. SpentBy(t) = {}
      BY <1>1, <1>4, <3>2, SpendersTouch
    <3>4. IsEnd(truth.claim, t)
      BY <1>1, <3>3 DEF IsEnd
    <3>5. Due(q, answer)
      BY <1>1, <3>4, HopEnds
    <3> QED
      BY <1>4, <2>2, <3>5 DEF Answers, Due
  <2> QED
    BY <2>1, <2>2
<1> QED
  BY <1>2, <1>3, <1>4 DEF Hop

(* At its limit a walk is at the end, or the custody is a long one.        *)
LEMMA LimitInforms ==
    ASSUME Inv, NEW q \in Query, HopsExhausted(q)
    PROVE  Answers(q)
<1> DEFINE answer == Match(q, txs[reader[q].at].token.commitment)
<1>1. /\ At(q, "walk") /\ reader[q].hops >= MaxHops /\ reader[q].hops \in Nat
      /\ Answer(q, answer) /\ ChainInv /\ truth.claim # None
      /\ reader[q].bindings \in SUBSET User /\ Informed(q)
  BY WalkFacts DEF HopsExhausted
<1>2. CASE IsEnd(truth.claim, reader[q].at)
  <2>1. Due(q, answer)
    BY <1>1, <1>2, HopEnds
  <2> QED
    BY <1>1, <2>1 DEF Answers, Due
<1>3. CASE ~ IsEnd(truth.claim, reader[q].at)
  <2>1. PICK v \in SUBSET DOMAIN txs : Walked(v, reader[q].hops, truth.claim, reader[q].at)
    BY <1>1 DEF Informed, WalkPhase
  <2>2. LongCustody
    BY <1>1, <1>3, <2>1, LimitMeansLong
  <2>3. answer \in User \cup {"notfound", "error"}
    BY <1>1 DEF Match
  <2>4. Due(q, answer)
    BY <2>2, <2>3 DEF Due
  <2> QED
    BY <1>1, <2>4 DEF Answers, Due
<1> QED
  BY <1>2, <1>3

(* Every step of a lookup does one or the other.                           *)
LEMMA LookupInforms ==
    ASSUME Inv, NEW q \in Query, LookupStep(q)
    PROVE  (GoesOn(q) \/ (Asking(q) /\ Answers(q))) /\ UNCHANGED chainVars
<1>1. CASE Ask(q)
  BY <1>1, AskInforms DEF Ask
<1>2. CASE ReadHistory(q)
  BY <1>2, ReadHistoryInforms DEF ReadHistory, Asking, At
<1>3. CASE Hop(q)
  BY <1>3, HopInforms DEF Hop, Asking, At
<1>4. CASE HopsExhausted(q)
  BY <1>4, LimitInforms DEF HopsExhausted, Asking, At
<1>5. CASE LookupFails(q)
  BY <1>5 DEF LookupFails, Answers, Due
<1>6. CASE Return(q)
  <2>1. reader \in [Query -> ReaderState] /\ Become(q, Idle) /\ cache' = cache /\ UNCHANGED chainVars
    BY <1>6 DEF Return, Inv, TypeOK
  <2>2. reader'[q] = Idle
    BY <2>1, BecomeFacts
  <2>3. Informed(q)' /\ ~ At(q, "done")'
    BY <2>2, IdleFields DEF Informed, Asking, HistoryPhase, WalkPhase, At
  <2> QED
    BY <2>1, <2>3, IdleFields DEF GoesOn
<1> QED
  BY <1>1, <1>2, <1>3, <1>4, <1>5, <1>6 DEF LookupStep

----------------------------------------------------------------------------
(* The invariant                                                           *)

(* The claim and the owner are a transaction and a user, or none.          *)
TruthTyped == ChainInv => truth.claim \in Tx \cup {None} /\ truth.owner \in User \cup {None}

(* As only users' keys are bound.                                          *)
LEMMA TruthIsTyped == TruthTyped
<1> SUFFICES ASSUME ChainInv
             PROVE  truth.claim \in Tx \cup {None} /\ truth.owner \in User \cup {None}
  BY DEF TruthTyped
<1>1. truth.claim # None => truth.claim \in Tx
  BY ClaimIsMint DEF ChainInv, ChainTypes
<1>2. Bindings(Marked, tip) \subseteq User
  BY DEF Bindings, Marked, ChainInv, ChainSound
<1>3. truth.owner = None \/ truth.owner \in Bindings(Marked, tip)
  BY DEF ChainInv, TruthKept, OwnerBy
<1> QED
  BY <1>1, <1>2, <1>3

(* So they are after a step.                                               *)
LEMMA TruthIsTypedNext == TruthTyped'
BY TruthIsTyped, PTL

(* A lookup that nothing happens to knows what it knew.                    *)
LEMMA InformedOther ==
    ASSUME Inv, ChainInv', Grows, UNCHANGED chainVars, NEW p \in Query, reader'[p] = reader[p]
    PROVE  Informed(p)'
<1>1. Informed(p) /\ ChainInv /\ reader[p].tip \in Nat
  BY Numbers DEF Inv, LookupInv, TypeOK, ReaderState
<1>2. CASE Asking(p)
  <2>1. truth'.owner \in reader'[p].seen
    BY <1>1, <1>2 DEF Informed, Watching, chainVars
  <2> QED
    BY <1>1, <1>2, <2>1, InformedStays
<1>3. CASE ~ Asking(p)
  BY <1>3 DEF Asking, Informed, HistoryPhase, WalkPhase, At
<1> QED
  BY <1>2, <1>3

(* What one lookup has answered is justified.                              *)
AnswerJustified(q) ==
    At(q, "done") /\ ~ reader[q].cached =>
        /\ reader[q].result \in User => Justified(reader[q].result, reader[q].seen) \/ LongCustody
        /\ reader[q].result = "notfound" => Justified("notfound", reader[q].seen) \/ LongCustody

(* That is what the two properties of answers say together.                *)
JustifiedTogether == AnswersJustified /\ NotFoundJustified <=> \A q \in Query : AnswerJustified(q)

(* Which follows from their definitions.                                   *)
LEMMA Together == JustifiedTogether
BY DEF JustifiedTogether, AnswersJustified, NotFoundJustified, AnswerJustified

(* So it does after a step.                                                *)
LEMMA TogetherNext == JustifiedTogether'
BY Together, PTL

(* A justified answer remains one.                                         *)
LEMMA AnswerStays ==
    ASSUME Inv, ChainInv', Grows, NEW q \in Query, reader'[q] = reader[q]
    PROVE  AnswerJustified(q)'
<1>1. LongCustody => LongCustody'
  BY LongStays DEF Inv
<1>2. AnswerJustified(q)
  BY Together DEF JustifiedTogether, Inv
<1>3. \A r, s : Justified(r, s)' <=> Justified(r, s)
  BY DEF Justified
<1> QED
  BY <1>1, <1>2 DEF AnswerJustified, At, Justified

(* The cache stays right when only the lookups go on.                      *)
LEMMA CacheStays ==
    ASSUME Inv, ChainInv', Grows, cache' = cache
    PROVE  CacheInv'
<1>1. LongCustody => LongCustody'
  BY LongStays DEF Inv
<1> QED
  BY <1>1 DEF Inv, CacheInv

(* A lookup goes on.                                                       *)
LEMMA GoesOnKeeps ==
    ASSUME Inv, ChainInv', Grows, UNCHANGED chainVars, NEW q \in Query, GoesOn(q)
    PROVE  Inv'
<1>1. reader \in [Query -> ReaderState] /\ cache' = cache
  BY DEF Inv, TypeOK, GoesOn
<1>2. PICK state \in ReaderState : Become(q, state)
  BY DEF GoesOn
<1>3. reader' \in [Query -> ReaderState] /\ \A p \in Query \ {q} : reader'[p] = reader[p]
  BY <1>1, <1>2, BecomeFacts
<1>4. TypeOK'
  BY <1>1, <1>3 DEF Inv, TypeOK, chainVars
<1>5. LookupInv'
  BY <1>3, InformedOther DEF LookupInv, GoesOn
<1>6. AnswerJustified(q)'
  BY DEF GoesOn, AnswerJustified
<1>7. \A p \in Query : AnswerJustified(p)'
  BY <1>3, <1>6, AnswerStays
<1>8. AnswersJustified' /\ NotFoundJustified'
  BY <1>7, TogetherNext DEF JustifiedTogether
<1> QED
  BY <1>1, <1>4, <1>5, <1>8, CacheStays DEF Inv

(* For how long a justified answer can have been wrong.                    *)
LEMMA WrongBound ==
    ASSUME Inv, NEW q \in Query, Asking(q), NEW result
    PROVE  /\ Wrong(q, result) \in Nat
           /\ Justified(result, reader[q].seen) => Wrong(q, result) <= Timeout
<1>1. reader[q].left \in 0 .. Timeout /\ Timeout \in Nat /\ OwnerTTL \in Nat /\ NotFoundTTL \in Nat
  BY LookupNumbers DEF Inv, TypeOK, ReaderState
<1> QED
  BY <1>1 DEF Wrong

(* A lookup answers, and caches what it does.                              *)
LEMMA AnswersKeeps ==
    ASSUME Inv, ChainInv', Grows, UNCHANGED chainVars, NEW q \in Query, Asking(q), Answers(q)
    PROVE  Inv'
<1>1. reader \in [Query -> ReaderState] /\ reader[q] \in ReaderState
  BY DEF Inv, TypeOK
<1>2. PICK result \in User \cup {"notfound", "error"} : Due(q, result) /\ Answer(q, result)
  BY DEF Answers
<1> DEFINE state == [Idle EXCEPT !.pc = "done", !.result = result,
                          !.seen = IF result = "error" THEN {} ELSE reader[q].seen]
<1>3. Become(q, state)
  BY <1>2 DEF Answer
<1>4. state \in ReaderState
  <2>1. reader[q].seen \in SUBSET (User \cup {None})
    BY <1>1 DEF ReaderState
  <2> QED
    BY <2>1, IdleFields DEF ReaderState
<1>5. state.result = result /\ (result # "error" => state.seen = reader[q].seen) /\ state.pc = "done"
  BY IdleFields DEF ReaderState
<1> HIDE DEF state
<1>6. /\ reader' \in [Query -> ReaderState] /\ reader'[q] = state
      /\ \A p \in Query \ {q} : reader'[p] = reader[p]
  BY <1>1, <1>3, <1>4, BecomeFacts
<1>7. LongCustody => LongCustody'
  BY LongStays DEF Inv
<1>8. LookupInv'
  <2>1. Informed(q)'
    BY <1>5, <1>6 DEF Informed, Asking, HistoryPhase, WalkPhase, At
  <2> QED
    BY <1>6, <2>1, InformedOther DEF LookupInv
<1>9. AnswersJustified' /\ NotFoundJustified'
  <2>1. AnswerJustified(q)'
    BY <1>2, <1>5, <1>6, <1>7, LookupNumbers DEF AnswerJustified, Due, Justified
  <2>2. \A p \in Query : AnswerJustified(p)'
    BY <1>6, <2>1, AnswerStays
  <2> QED
    BY <2>2, TogetherNext DEF JustifiedTogether
<1>10. CASE result = "error"
  <2>1. cache' = cache
    BY <1>2, <1>10 DEF Answer
  <2>2. TypeOK'
    BY <1>6, <2>1 DEF Inv, TypeOK, chainVars
  <2> QED
    BY <1>8, <1>9, <2>1, <2>2, CacheStays DEF Inv
<1>11. CASE result # "error"
  <2> DEFINE wrong == Wrong(q, result)
  <2>1. /\ cache'.result = result /\ cache'.stale = wrong
        /\ cache'.left = IF result = "notfound" THEN NotFoundTTL ELSE OwnerTTL
        /\ cache' = [result |-> result, left |-> IF result = "notfound" THEN NotFoundTTL ELSE OwnerTTL,
                     stale |-> wrong]
    BY <1>2, <1>11 DEF Answer
  <2>2. wrong \in Nat /\ (Justified(result, reader[q].seen) => wrong <= Timeout)
    BY WrongBound
  <2>3. Justified(result, reader[q].seen) \/ LongCustody
    BY <1>2, <1>11 DEF Due
  <2> HIDE DEF wrong
  <2>4. CacheInv'
    BY <1>7, <2>1, <2>2, <2>3, LookupNumbers DEF CacheInv
  <2>5. cache' \in [result : User \cup {"notfound", "none"}, left : 0 .. OwnerTTL \cup 0 .. NotFoundTTL, stale : Nat]
    BY <1>11, <2>1, <2>2, LookupNumbers
  <2>6. TypeOK'
    BY <1>6, <2>5 DEF Inv, TypeOK, chainVars
  <2> QED
    BY <1>8, <1>9, <2>4, <2>6 DEF Inv
<1> QED
  BY <1>10, <1>11

(* What follows when lookups watch the chain move or the time pass.        *)
LEMMA WatchKeeps ==
    ASSUME Inv, ChainInv', Grows, reader' \in [Query -> ReaderState],
           \A q \in Query : ~ Asking(q) => reader'[q] = reader[q],
           \A q \in Query : Asking(q) =>
              /\ reader'[q].pc = reader[q].pc /\ reader'[q].tip = reader[q].tip
              /\ reader'[q].at = reader[q].at /\ reader'[q].hops = reader[q].hops
              /\ reader'[q].bindings = reader[q].bindings
              /\ reader'[q].truncated = reader[q].truncated
              /\ reader[q].seen \subseteq reader'[q].seen /\ truth'.owner \in reader'[q].seen
    PROVE  LookupInv' /\ AnswersJustified' /\ NotFoundJustified'
<1>1. ASSUME NEW q \in Query
      PROVE  Informed(q)' /\ AnswerJustified(q)'
  <2>1. CASE Asking(q)
    <3>1. Informed(q) /\ ChainInv /\ reader[q].tip \in Nat
      BY Numbers DEF Inv, LookupInv, TypeOK, ReaderState
    <3>2. Informed(q)'
      BY <2>1, <3>1, InformedStays
    <3>3. ~ At(q, "done")'
      BY <2>1 DEF Asking, At
    <3> QED
      BY <3>2, <3>3 DEF AnswerJustified
  <2>2. CASE ~ Asking(q)
    <3>1. reader'[q] = reader[q]
      BY <2>2
    <3>2. Informed(q)'
      BY <2>2, <3>1 DEF Asking, Informed, HistoryPhase, WalkPhase, At
    <3> QED
      BY <3>1, <3>2, AnswerStays
  <2> QED
    BY <2>1, <2>2
<1> QED
  BY <1>1, TogetherNext DEF LookupInv, JustifiedTogether

(* The chain moves, and the lookups see who owns the name from now on.     *)
LEMMA MovesKeep ==
    ASSUME Inv, ChainInv', Grows, OwnerMoves
    PROVE  Inv'
<1>1. /\ reader \in [Query -> ReaderState]
      /\ cache \in [result : User \cup {"notfound", "none"}, left : 0 .. OwnerTTL \cup 0 .. NotFoundTTL,
                    stale : Nat]
      /\ truth'.claim \in Tx \cup {None} /\ truth'.owner \in User \cup {None}
  BY TruthIsTypedNext DEF Inv, TypeOK, TruthTyped
<1>2. truth' \in [claim : Tx \cup {None}, owner : User \cup {None}]
  BY <1>1 DEF OwnerMoves
<1>3. reader' = [q \in Query |->
                    IF Asking(q) THEN [reader[q] EXCEPT !.seen = @ \cup {truth'.owner}] ELSE reader[q]]
  BY DEF OwnerMoves
<1>4. ASSUME NEW q \in Query, Asking(q)
      PROVE  /\ reader'[q] \in ReaderState
             /\ reader'[q].pc = reader[q].pc /\ reader'[q].tip = reader[q].tip
             /\ reader'[q].at = reader[q].at /\ reader'[q].hops = reader[q].hops
             /\ reader'[q].bindings = reader[q].bindings
             /\ reader'[q].truncated = reader[q].truncated
             /\ reader[q].seen \subseteq reader'[q].seen /\ truth'.owner \in reader'[q].seen
  <2>1. reader'[q] = [reader[q] EXCEPT !.seen = @ \cup {truth'.owner}]
    BY <1>3, <1>4
  <2>2. reader[q] \in ReaderState
    BY <1>1
  <2>3. reader[q].seen \cup {truth'.owner} \in SUBSET (User \cup {None})
    BY <1>1, <2>2 DEF ReaderState
  <2> QED
    BY <2>1, <2>2, <2>3 DEF ReaderState
<1>5. \A q \in Query : ~ Asking(q) => reader'[q] = reader[q]
  BY <1>3
<1>6. reader' \in [Query -> ReaderState]
  <2>1. \A q \in Query : reader'[q] \in ReaderState
    BY <1>1, <1>4, <1>5
  <2> QED
    BY <1>3, <2>1
<1>7. /\ cache'.result = cache.result /\ cache'.left = cache.left
      /\ cache'.stale \in Nat /\ cache'.stale <= cache.stale
      /\ cache' \in [result : User \cup {"notfound", "none"}, left : 0 .. OwnerTTL \cup 0 .. NotFoundTTL,
                     stale : Nat]
  <2>1. cache' = [cache EXCEPT !.stale = IF True(cache.result, truth'.owner) THEN 0 ELSE @]
    BY DEF OwnerMoves
  <2> QED
    BY <1>1, <2>1
<1>8. TypeOK'
  BY <1>2, <1>6, <1>7 DEF TypeOK, ChainInv, ChainTypes
<1>9. CacheInv'
  <2>1. LongCustody => LongCustody'
    BY LongStays DEF Inv
  <2>2. cache.left \in Nat /\ cache.stale \in Nat
    BY <1>1, LookupNumbers
  <2>3. OwnerTTL \in Nat /\ NotFoundTTL \in Nat /\ Timeout \in Nat
    BY LookupNumbers
  <2> QED
    BY <1>7, <2>1, <2>2, <2>3 DEF Inv, CacheInv
<1> QED
  BY <1>4, <1>5, <1>6, <1>8, <1>9, WatchKeeps DEF Inv

(* Time passes: an entry is older, and a lookup has less time left.        *)
LEMMA TickKeeps ==
    ASSUME Inv, ChainInv', Grows, Tick
    PROVE  Inv'
<1>1. /\ reader \in [Query -> ReaderState]
      /\ cache \in [result : User \cup {"notfound", "none"}, left : 0 .. OwnerTTL \cup 0 .. NotFoundTTL,
                    stale : Nat]
      /\ OwnerTTL \in Nat /\ NotFoundTTL \in Nat /\ Timeout \in Nat
  BY LookupNumbers DEF Inv, TypeOK
<1>2. UNCHANGED chainVars /\ truth' = truth
  BY DEF Tick, chainVars
<1>3. reader' = [q \in Query |->
                    IF Asking(q) THEN [reader[q] EXCEPT !.left = @ - 1] ELSE reader[q]]
  BY DEF Tick
<1>4. ASSUME NEW q \in Query, Asking(q)
      PROVE  /\ reader'[q] \in ReaderState
             /\ reader'[q].pc = reader[q].pc /\ reader'[q].tip = reader[q].tip
             /\ reader'[q].at = reader[q].at /\ reader'[q].hops = reader[q].hops
             /\ reader'[q].bindings = reader[q].bindings
             /\ reader'[q].truncated = reader[q].truncated
             /\ reader[q].seen \subseteq reader'[q].seen /\ truth'.owner \in reader'[q].seen
  <2>1. reader'[q] = [reader[q] EXCEPT !.left = @ - 1]
    BY <1>3, <1>4
  <2>2. reader[q] \in ReaderState /\ reader[q].left > 0
    BY <1>1, <1>4 DEF Tick
  <2>3. reader[q].left - 1 \in 0 .. Timeout
    BY <1>1, <2>2 DEF ReaderState
  <2>4. truth'.owner \in reader[q].seen
    BY <1>2, <1>4 DEF Inv, LookupInv, Informed, Watching
  <2> QED
    BY <2>1, <2>2, <2>3, <2>4 DEF ReaderState
<1>5. \A q \in Query : ~ Asking(q) => reader'[q] = reader[q]
  BY <1>3
<1>6. reader' \in [Query -> ReaderState]
  <2>1. \A q \in Query : reader'[q] \in ReaderState
    BY <1>1, <1>4, <1>5
  <2> QED
    BY <1>3, <2>1
<1>7. /\ cache' \in [result : User \cup {"notfound", "none"}, left : 0 .. OwnerTTL \cup 0 .. NotFoundTTL,
                     stale : Nat]
      /\ CacheInv'
  <2>1. LongCustody => LongCustody'
    BY LongStays DEF Inv
  <2>2. CASE cache.left <= 1
    <3>1. cache' = NoEntry
      BY <2>2 DEF Tick
    <3> QED
      BY <1>1, <3>1, LookupNumbers DEF NoEntry, CacheInv
  <2>3. CASE ~ (cache.left <= 1)
    <3>1. cache' = [cache EXCEPT !.left = @ - 1,
                                 !.stale = IF True(cache.result, truth.owner) THEN 0 ELSE @ + 1]
      BY <2>3 DEF Tick
    <3>2. /\ cache'.result = cache.result /\ cache'.left = cache.left - 1
          /\ cache'.stale = 0 \/ cache'.stale = cache.stale + 1
      BY <1>1, <3>1
    <3>3. /\ cache.left \in Nat /\ cache.stale \in Nat /\ cache.left > 1
          /\ cache.left - 1 \in 0 .. OwnerTTL \cup 0 .. NotFoundTTL
      BY <1>1, <2>3
    <3>4. CacheInv'
      BY <1>1, <2>1, <3>2, <3>3 DEF Inv, CacheInv
    <3>5. cache' \in [result : User \cup {"notfound", "none"},
                      left : 0 .. OwnerTTL \cup 0 .. NotFoundTTL, stale : Nat]
      <4> DEFINE stale == IF True(cache.result, truth.owner) THEN 0 ELSE cache.stale + 1
      <4>1. stale \in Nat
        BY <3>3
      <4>2. cache' = [cache EXCEPT !.left = cache.left - 1, !.stale = stale]
        BY <3>1
      <4> HIDE DEF stale
      <4> QED
        BY <1>1, <3>3, <4>1, <4>2
    <3> QED
      BY <3>4, <3>5
  <2> QED
    BY <2>2, <2>3
<1>8. TypeOK'
  BY <1>2, <1>6, <1>7 DEF Inv, TypeOK, chainVars
<1> QED
  BY <1>4, <1>5, <1>6, <1>7, <1>8, WatchKeeps DEF Inv

(* It all begins with no lookup and an empty cache.                        *)
LEMMA InvInit == Init => Inv
<1> SUFFICES ASSUME Init
             PROVE  Inv
  OBVIOUS
<1>1. ChainInv
  BY ChainInvInit
<1>2. \A q \in Query : reader[q] = Idle
  BY DEF Init
<1>3. TypeOK
  <2>1. reader \in [Query -> ReaderState]
    BY IdleFields DEF Init
  <2>2. truth \in [claim : Tx \cup {None}, owner : User \cup {None}]
    BY DEF Init
  <2>3. cache \in [result : User \cup {"notfound", "none"},
                   left : 0 .. OwnerTTL \cup 0 .. NotFoundTTL, stale : Nat]
    BY LookupNumbers DEF Init, NoEntry
  <2> QED
    BY <1>1, <2>1, <2>2, <2>3 DEF TypeOK, ChainInv, ChainTypes
<1>4. LookupInv
  BY <1>2, IdleFields DEF LookupInv, Informed, Asking, HistoryPhase, WalkPhase, At
<1>5. CacheInv
  BY LookupNumbers DEF CacheInv, Init, NoEntry
<1>6. AnswersJustified /\ NotFoundJustified
  BY <1>2, IdleFields DEF AnswersJustified, NotFoundJustified, At
<1> QED
  BY <1>1, <1>3, <1>4, <1>5, <1>6 DEF Inv

(* Every step keeps the invariant.                                         *)
LEMMA InvNext == Inv /\ [Next]_vars => Inv'
<1> SUFFICES ASSUME Inv, [Next]_vars
             PROVE  Inv'
  OBVIOUS
<1>1. ChainInv' /\ Grows
  BY ChainInvNext DEF Inv
<1>2. ASSUME NEW q \in Query, LookupStep(q)
      PROVE  Inv'
  BY <1>1, <1>2, LookupInforms, GoesOnKeeps, AnswersKeeps
<1>3. CASE Tick
  BY <1>1, <1>3, TickKeeps
<1>4. CASE OwnerMoves
  BY <1>1, <1>4, MovesKeep
<1>5. CASE UNCHANGED vars
  <2>1. UNCHANGED chainVars /\ cache' = cache /\ reader' = reader
    BY <1>5 DEF vars, chainVars
  <2>2. TypeOK'
    BY <2>1 DEF Inv, TypeOK, chainVars
  <2>3. LookupInv'
    BY <1>1, <2>1, InformedOther DEF LookupInv
  <2>4. AnswersJustified' /\ NotFoundJustified'
    BY <1>1, <2>1, AnswerStays, TogetherNext DEF JustifiedTogether
  <2> QED
    BY <1>1, <2>1, <2>2, <2>3, <2>4, CacheStays DEF Inv
<1>6. CASE Next
  <2>1. ASSUME ~ (\E q \in Query : LookupStep(q)), ~ Tick
        PROVE  OwnerMoves
    BY <1>6, <2>1 DEF Next, Adopt, Claim, Burn, Transfer, Announce, PayWallet, Mine
  <2> QED
    BY <1>2, <1>3, <1>4, <2>1
<1> QED
  BY <1>5, <1>6

(* So it always holds.                                                     *)
LEMMA InvHolds == Spec => []Inv
<1>1. Init => Inv
  BY InvInit
<1>2. Inv /\ [Next]_vars => Inv'
  BY InvNext
<1> QED
  BY <1>1, <1>2, PTL DEF Spec

(* Transactions, the cache and the lookups have their types: a key that is *)
(* answered is a user's, and a walk keeps to its limit.                    *)
THEOREM Types == Spec => []TypeOK
<1>1. Inv => TypeOK
  BY DEF Inv
<1> QED
  BY <1>1, InvHolds, PTL

(* An owner that a lookup answers owned the name at some moment of the     *)
(* lookup, however its queries interleave with claims, transfers and       *)
(* reorganizations (resolve).                                              *)
THEOREM AnswersAreJustified == Spec => []AnswersJustified
<1>1. Inv => AnswersJustified
  BY DEF Inv
<1> QED
  BY <1>1, InvHolds, PTL

(* A name is answered to have no owner only if it had none, or changed its *)
(* owner, while the lookup ran: a history that is too long to scan is an   *)
(* error (errHistoryTruncated).                                            *)
THEOREM NotFoundIsJustified == Spec => []NotFoundJustified
<1>1. Inv => NotFoundJustified
  BY DEF Inv
<1> QED
  BY <1>1, InvHolds, PTL

(* What the cache answers was right not longer ago than the entry's time   *)
(* to live and the lookup that stored it took (ResolveOwner, cacheStore).  *)
THEOREM CacheIsRecent == Spec => []CacheRecent
<1>1. ASSUME Inv
      PROVE  CacheRecent
  <2>1. cache.left \in Nat /\ cache.stale \in Nat
    BY <1>1, LookupNumbers DEF Inv, TypeOK
  <2> QED
    BY <1>1, <2>1, LookupNumbers DEF Inv, CacheInv, CacheRecent
<1>2. Inv => CacheRecent
  BY <1>1
<1> QED
  BY <1>2, InvHolds, PTL
=============================================================================
