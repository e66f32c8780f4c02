-------------------------- MODULE NameRecordsProofs --------------------------
(***************************************************************************)
(* While publications of one name do not overlap, the node keeps the       *)
(* newest record it has published: it is the one it republishes and the    *)
(* one its own store holds, and every later publication supersedes it.     *)
(***************************************************************************)
EXTENDS NameRecords, TLAPS

Active(c) == client[c].pc # "idle"

Publishing(c) == client[c].pc \in {"spread", "own"}

----------------------------------------------------------------------------
(* The order of records                                                    *)

(* The fields that records are compared by are numbers, and no two records *)
(* agree in all of them.                                                   *)
LEMMA RecordFields ==
    ASSUME NEW a \in FNRecord, NEW b \in FNRecord
    PROVE  /\ a.seq \in Nat /\ a.eol \in Nat /\ a.body \in Nat
           /\ a.seq = b.seq /\ a.eol = b.eol /\ a.body = b.body => a = b
<1>1. /\ a = [seq |-> a.seq, eol |-> a.eol, body |-> a.body]
      /\ b = [seq |-> b.seq, eol |-> b.eol, body |-> b.body]
  BY DEF FNRecord
<1>2. a.seq = b.seq /\ a.eol = b.eol /\ a.body = b.body => a = b
  BY <1>1
<1>3. /\ a.seq \in 0 .. MaxSeq /\ a.eol \in Nat /\ a.body \in Body
  BY DEF FNRecord
<1>4. a.body \in Nat
  BY <1>3, RecordsAssumption
<1>5. a.seq \in Nat
  BY <1>3
<1> QED BY <1>2, <1>3, <1>4, <1>5

(* betterRecord is a strict total order on records, whatever their sets.   *)
THEOREM BetterIsStrictTotalOrder ==
    ASSUME NEW a \in FNRecord, NEW b \in FNRecord, NEW c \in FNRecord
    PROVE  /\ ~ Better(a, a)
           /\ Better(a, b) => ~ Better(b, a)
           /\ Better(a, b) /\ Better(b, c) => Better(a, c)
           /\ a # b => Better(a, b) \/ Better(b, a)
<1>1. /\ a.seq \in Nat /\ a.eol \in Nat /\ a.body \in Nat
      /\ b.seq \in Nat /\ b.eol \in Nat /\ b.body \in Nat
      /\ c.seq \in Nat /\ c.eol \in Nat /\ c.body \in Nat
  BY RecordFields
<1>2. a # b => a.seq # b.seq \/ a.eol # b.eol \/ a.body # b.body
  BY RecordFields
<1> QED BY <1>1, <1>2 DEF Better

(* Not to be better is transitive. *)
LEMMA NotBetterTransitive ==
    ASSUME NEW a \in FNRecord, NEW b \in FNRecord, NEW c \in FNRecord,
           ~ Better(a, b), ~ Better(b, c)
    PROVE  ~ Better(a, c)
<1>1. /\ a.seq \in Nat /\ a.eol \in Nat /\ a.body \in Nat
      /\ b.seq \in Nat /\ b.eol \in Nat /\ b.body \in Nat
      /\ c.seq \in Nat /\ c.eol \in Nat /\ c.body \in Nat
  BY RecordFields
<1> QED BY <1>1 DEF Better

----------------------------------------------------------------------------
(* The inductive invariant                                                 *)

(* What a publication has in hand at each point. *)
StateOK(s) ==
    /\ s \in ClientState
    /\ s.pc # "idle" => s.body \in Body
    /\ s.pc \in {"put", "spread", "own"} => s.rec \in FNRecord

InHand ==
    /\ \A c \in Client : StateOK(client[c])
    /\ republisher.pc # "idle" => republisher.rec \in FNRecord

OneAtATime ==
    /\ \A c, d \in Client : Active(c) /\ Active(d) => c = d
    /\ \A c \in Locked : Active(c) => lock = c

OnTime == ticked <= now /\ now <= ticked + RepublishInterval

(* A record under way to the peers is in the own store, or a better one.   *)
UnderWay ==
    \A c \in Client : Publishing(c) =>
        /\ local # None
        /\ local.at = now
        /\ Live(local.rec)
        /\ ~ Better(client[c].rec, local.rec)
        /\ Live(newest) => ~ Better(newest, client[c].rec)

(* The newest record is owned and held, and put again in time: if not      *)
(* since the last tick then the republisher is about to.                   *)
Kept ==
    Live(newest) =>
        /\ owned = newest
        /\ local # None
        /\ ~ Better(newest, local.rec)
        /\ (\A c \in Client : ~ Publishing(c)) => local.rec = newest
        /\ local.at <= now
        /\ now <= local.at + RepublishInterval
        /\ local.at < ticked => republisher.pc = "put" /\ republisher.rec = newest

(* A publication with the service numbers its record above the newest.     *)
Numbered ==
    \A c \in Locked :
        client[c].pc \in {"put", "spread", "own"} /\ Live(newest) => client[c].rec.seq > newest.seq

Inv ==
    /\ TypeOK
    /\ InHand
    /\ OneAtATime
    /\ OnTime
    /\ UnderWay
    /\ Kept
    /\ BuildsOnNewest
    /\ Numbered

----------------------------------------------------------------------------
(* Types                                                                   *)

(* A publication that has not begun is in order. *)
LEMMA IdleOK == StateOK(Idle)
BY DEF StateOK, ClientState, Idle, MaybeRecord

LEMMA InitTypes == Init => TypeOK /\ InHand
BY IdleOK, RecordsAssumption DEF Init, TypeOK, InHand, StateOK, MaybeRecord

(* One publication goes on to a state that is in order. *)
LEMMA BecomeOK ==
    ASSUME TypeOK, InHand, NEW c \in Client, NEW state, StateOK(state), Become(c, state)
    PROVE  client' \in [Client -> ClientState] /\ \A d \in Client : StateOK(client'[d])
BY DEF TypeOK, InHand, Become, StateOK

(* A record that BuildRecord makes within the range of sequence numbers.   *)
LEMMA BuildType ==
    ASSUME TypeOK, NEW current \in MaybeRecord, NEW body \in Body,
           BuildRecord(current, body).seq <= MaxSeq
    PROVE  BuildRecord(current, body) \in FNRecord
BY RecordsAssumption, NoneAssumption DEF TypeOK, BuildRecord, NextSeq, FNRecord, MaybeRecord

(* What a lookup finds are records.                                        *)
LEMMA FoundType ==
    ASSUME TypeOK, NEW R \in SUBSET Peer PROVE Found(R) \subseteq FNRecord
BY NoneAssumption DEF TypeOK, Found, Live, LocalRecord, MaybeRecord

(* What peers store are records. *)
LEMMA SpreadType ==
    ASSUME TypeOK, NEW rec \in FNRecord, Spread(rec)
    PROVE  stored' \in [Peer -> MaybeRecord]
BY DEF TypeOK, Spread, MaybeRecord

LEMMA PutType ==
    ASSUME TypeOK, NEW rec \in FNRecord, PutLocal(rec)
    PROVE  local' \in [rec : FNRecord, at : 0 .. MaxNow] \cup {None}
BY DEF TypeOK, PutLocal

LEMMA TypeStep ==
    ASSUME TypeOK, InHand, [Next]_vars PROVE TypeOK' /\ InHand'
<1> USE RecordsAssumption, NoneAssumption
<1> USE DEF TypeOK, InHand
<1>1. ASSUME NEW c \in Client, NEW body \in Body, ServiceBegins(c, body) \/ CommandBegins(c, body)
      PROVE  TypeOK' /\ InHand'
  <2>1. StateOK([Idle EXCEPT !.pc = "resolve", !.body = body])
    BY DEF StateOK, Idle, ClientState, MaybeRecord
  <2> QED BY <1>1, <2>1, BecomeOK DEF ServiceBegins, CommandBegins
<1>2. ASSUME NEW c \in Client, Resolve(c) PROVE TypeOK' /\ InHand'
  <2>1. StateOK([client[c] EXCEPT !.pc = "build"])
    BY <1>2 DEF StateOK, ClientState, Resolve
  <2>2. ASSUME NEW R \in SUBSET Peer, NEW rec \in Found(R)
        PROVE  StateOK([client[c] EXCEPT !.pc = "build", !.current = rec])
    <3>1. rec \in MaybeRecord
      BY <2>2, FoundType DEF MaybeRecord
    <3> QED BY <1>2, <3>1 DEF StateOK, ClientState, Resolve
  <2> QED BY <1>2, <2>1, <2>2, BecomeOK DEF Resolve
<1>3. ASSUME NEW c \in Client, ResolveFails(c) PROVE TypeOK' /\ InHand'
  <2>1. StateOK([client[c] EXCEPT !.pc = "build"])
    BY <1>3 DEF StateOK, ClientState, ResolveFails
  <2> QED BY <1>3, <2>1, IdleOK, BecomeOK DEF ResolveFails, Unlock
<1>4. ASSUME NEW c \in Client, Build(c) PROVE TypeOK' /\ InHand'
  <2> DEFINE rec == BuildRecord(client[c].current, client[c].body)
  <2>1. rec \in FNRecord
    BY <1>4, BuildType DEF Build, StateOK, ClientState
  <2>2. StateOK([client[c] EXCEPT !.pc = "put", !.rec = rec])
    BY <1>4, <2>1 DEF StateOK, ClientState, MaybeRecord, Build
  <2> QED BY <1>4, <2>2, BecomeOK DEF Build
<1>5. ASSUME NEW c \in Client, BuildFails(c) \/ PutFails(c) \/ SpreadFails(c)
      PROVE  TypeOK' /\ InHand'
  BY <1>5, IdleOK, BecomeOK DEF BuildFails, PutFails, SpreadFails, Unlock, MaybeRecord
<1>6. ASSUME NEW c \in Client, Put(c) PROVE TypeOK' /\ InHand'
  <2>1. client[c].rec \in FNRecord
    BY <1>6 DEF Put, StateOK
  <2>2. StateOK([client[c] EXCEPT !.pc = "spread"])
    BY <1>6 DEF Put, StateOK, ClientState
  <2> QED BY <1>6, <2>1, <2>2, BecomeOK, PutType DEF Put
<1>7. ASSUME NEW c \in Client, SpreadTo(c) PROVE TypeOK' /\ InHand'
  <2>1. client[c].rec \in FNRecord
    BY <1>7 DEF SpreadTo, StateOK
  <2>2. StateOK([client[c] EXCEPT !.pc = "own"])
    BY <1>7 DEF SpreadTo, StateOK, ClientState
  <2> QED BY <1>7, <2>1, <2>2, BecomeOK, SpreadType DEF SpreadTo
<1>8. ASSUME NEW c \in Client, Own(c) PROVE TypeOK' /\ InHand'
  <2>1. client[c].rec \in FNRecord
    BY <1>8 DEF Own, StateOK
  <2> QED BY <1>8, <2>1, IdleOK, BecomeOK DEF Own, Unlock, MaybeRecord
<1>9. CASE RepublishBegins
  BY <1>9 DEF RepublishBegins, StateOK, MaybeRecord, Live
<1>10. CASE RepublishPut
  <2>1. republisher.rec \in FNRecord
    BY <1>10 DEF RepublishPut
  <2> QED BY <1>10, <2>1, PutType DEF RepublishPut, StateOK, MaybeRecord
<1>11. CASE RepublishSpread
  <2>1. republisher.rec \in FNRecord
    BY <1>11 DEF RepublishSpread
  <2> QED BY <1>11, <2>1, SpreadType DEF RepublishSpread, StateOK, MaybeRecord
<1>12. CASE Tick
  BY <1>12 DEF Tick, StateOK
<1>13. CASE LocalDrops
  BY <1>13 DEF LocalDrops, StateOK
<1>14. ASSUME NEW p \in Peer, PeerDrops(p) PROVE TypeOK' /\ InHand'
  BY <1>14 DEF PeerDrops, StateOK, MaybeRecord
<1>15. CASE Restart
  BY <1>15, IdleOK DEF Restart, StateOK, MaybeRecord
<1>16. CASE UNCHANGED vars
  BY <1>16 DEF vars, StateOK
<1> QED
  BY <1>1, <1>2, <1>3, <1>4, <1>5, <1>6, <1>7, <1>8, <1>9, <1>10, <1>11, <1>12, <1>13, <1>14,
     <1>15, <1>16 DEF Next, ClientStep

(* Every variable keeps its type and a publication has a record in hand    *)
(* when it puts one; the sequence number never leaves its 64 bits.         *)
THEOREM TypeCorrect == Spec => []TypeOK
<1>1. Init => TypeOK /\ InHand
  BY InitTypes
<1>2. TypeOK /\ InHand /\ [Next]_vars => (TypeOK /\ InHand)'
  BY TypeStep
<1> QED BY <1>1, <1>2, PTL DEF Spec

----------------------------------------------------------------------------
(* One publication at a time                                               *)

(* A publication that goes on leaves the others alone.                     *)
LEMMA BecomeAlone ==
    ASSUME TypeOK, NEW c \in Client, NEW state, Become(c, state)
    PROVE  client'[c] = state /\ \A d \in Client : d # c => client'[d] = client[d]
BY DEF TypeOK, Become

(* What the fields of a state are when it goes on. *)
LEMMA StateFields ==
    ASSUME NEW s \in ClientState, NEW pc, NEW rec
    PROVE  /\ [s EXCEPT !.pc = pc].pc = pc
           /\ [s EXCEPT !.pc = pc].rec = s.rec
           /\ [s EXCEPT !.pc = pc, !.current = rec].pc = pc
           /\ [s EXCEPT !.pc = pc, !.current = rec].current = rec
           /\ [s EXCEPT !.pc = pc, !.rec = rec].pc = pc
           /\ [s EXCEPT !.pc = pc, !.rec = rec].rec = rec
BY DEF ClientState

(* Steps before the first write to the store, and those that give up then. *)
Prepares(c) ==
    \/ Resolve(c)
    \/ ResolveFails(c)
    \/ Build(c)
    \/ BuildFails(c)
    \/ PutFails(c)

LEMMA TurnStep ==
    ASSUME TypeOK, OneAtATime, ~ Overlap, [Next]_vars PROVE OneAtATime'
<1> USE DEF OneAtATime, Active
<1>1. ASSUME NEW c \in Client, NEW body \in Body, ServiceBegins(c, body) \/ CommandBegins(c, body)
      PROVE  OneAtATime'
  <2>1. \A d \in Client : client[d].pc = "idle"
    BY <1>1, RecordsAssumption, NoneAssumption DEF ServiceBegins, CommandBegins, Quiet
  <2>2. \A d \in Client : d # c => client'[d].pc = "idle"
    BY <1>1, <2>1, BecomeAlone DEF ServiceBegins, CommandBegins
  <2>3. c \in Locked => lock' = c
    BY <1>1 DEF ServiceBegins, CommandBegins
  <2> QED BY <2>2, <2>3, RecordsAssumption
<1>2. ASSUME NEW c \in Client, client[c].pc # "idle",
             \A d \in Client : d # c => client'[d] = client[d],
             lock' = lock \/ (client'[c].pc = "idle" /\ Unlock(c))
      PROVE  OneAtATime'
  <2>1. \A d \in Client : client'[d].pc # "idle" => d = c
    BY <1>2
  <2>2. lock' = lock \/ client'[c].pc = "idle"
    BY <1>2
  <2> QED BY <1>2, <2>1, <2>2, RecordsAssumption
<1>3. ASSUME NEW c \in Client, Prepares(c) \/ Put(c) \/ SpreadTo(c) \/ SpreadFails(c) \/ Own(c)
      PROVE  OneAtATime'
  <2>1. client[c].pc # "idle"
    BY <1>3 DEF Prepares, Resolve, ResolveFails, Build, BuildFails, Put, PutFails, SpreadTo,
                SpreadFails, Own
  <2>2. \A d \in Client : d # c => client'[d] = client[d]
    BY <1>3, BecomeAlone DEF Prepares, Resolve, ResolveFails, Build, BuildFails, Put, PutFails,
                             SpreadTo, SpreadFails, Own
  <2>3. lock' = lock \/ (Become(c, Idle) /\ Unlock(c))
    BY <1>3 DEF Prepares, Resolve, ResolveFails, Build, BuildFails, Put, PutFails, SpreadTo,
                SpreadFails, Own
  <2>4. Become(c, Idle) => client'[c].pc = "idle"
    BY BecomeAlone DEF Idle
  <2> QED BY <1>2, <2>1, <2>2, <2>3, <2>4
<1>4. CASE Restart
  <2>1. \A d \in Client : client'[d].pc # "idle" => client[d].pc # "idle" /\ d \notin Locked
    BY <1>4 DEF Restart, Idle
  <2> QED BY <2>1, RecordsAssumption
<1>5. CASE UNCHANGED <<client, lock>>
  BY <1>5
<1> QED
  BY <1>1, <1>3, <1>4, <1>5
     DEF Next, ClientStep, Prepares, vars, RepublishBegins, RepublishPut, RepublishSpread, Tick,
         LocalDrops, PeerDrops

(* The clock does not run past the next tick of republishLoop.             *)
LEMMA OnTimeStep ==
    ASSUME TypeOK, OnTime, [Next]_vars PROVE OnTime'
<1> USE RecordsAssumption DEF TypeOK, OnTime
<1>1. CASE RepublishBegins
  BY <1>1 DEF RepublishBegins
<1>2. CASE Tick
  BY <1>2 DEF Tick
<1>3. CASE Restart
  BY <1>3 DEF Restart
<1>4. CASE UNCHANGED <<now, ticked>>
  BY <1>4
<1> QED
  BY <1>1, <1>2, <1>3, <1>4
     DEF Next, ClientStep, vars, ServiceBegins, CommandBegins, Resolve, ResolveFails, Build,
         BuildFails, Put, PutFails, SpreadTo, SpreadFails, Own, RepublishPut, RepublishSpread,
         LocalDrops, PeerDrops

----------------------------------------------------------------------------
(* The newest record is kept                                               *)

(* What the types say of the records in play.                              *)
LEMMA InPlay ==
    ASSUME TypeOK, InHand
    PROVE  /\ newest # None => newest \in FNRecord
           /\ local # None => local.rec \in FNRecord /\ local.at \in Nat
           /\ \A c \in Client : client[c].pc \in {"put", "spread", "own"} =>
                                    client[c].rec \in FNRecord
           /\ republisher.pc # "idle" => republisher.rec \in FNRecord
           /\ now \in Nat /\ ticked \in Nat
BY RecordsAssumption DEF TypeOK, InHand, StateOK, MaybeRecord

(* Steps of a publication that leave the records where they are.           *)
LEMMA SameRecordsKept ==
    ASSUME UnderWay, Kept,
           \A d \in Client : Publishing(d)' = Publishing(d)
                              /\ (Publishing(d) => client'[d].rec = client[d].rec),
           UNCHANGED <<now, owned, ticked, republisher, local, newest>>
    PROVE  UnderWay' /\ Kept'
BY DEF UnderWay, Kept, Live

LEMMA PutKept ==
    ASSUME TypeOK, InHand, OneAtATime, OnTime, UnderWay, Kept, NEW c \in Client, Put(c)
    PROVE  UnderWay' /\ Kept'
<1> DEFINE rec == client[c].rec
<1>1. /\ rec \in FNRecord
      /\ Live(rec)
      /\ ~ (Live(LocalRecord) /\ Better(LocalRecord, rec))
      /\ local' = [rec |-> rec, at |-> now]
      /\ UNCHANGED <<now, owned, ticked, republisher, newest>>
  BY InPlay DEF Put, PutLocal, Accepts
<1>2. client'[c].rec = rec /\ client'[c].pc = "spread"
  <2>1. client[c] \in ClientState
    BY DEF TypeOK
  <2> QED BY <2>1, BecomeAlone DEF Put, ClientState
<1>3. \A d \in Client : client'[d].pc # "idle" => d = c
  BY BecomeAlone DEF Put, OneAtATime, Active
<1>4. \A d \in Client : ~ Publishing(d)
  BY DEF OneAtATime, Active, Publishing, Put
<1>5. local' # None
  BY <1>1, InPlay, NoneAssumption
<1>6. Live(newest) => ~ Better(newest, rec)
  BY <1>1, <1>4 DEF Kept, LocalRecord
<1>7. ~ Better(rec, rec)
  BY <1>1, BetterIsStrictTotalOrder
<1>8. UnderWay'
  BY <1>1, <1>2, <1>3, <1>5, <1>6, <1>7 DEF UnderWay, Live, Publishing
<1>9. Kept'
  <2>1. Publishing(c)'
    BY <1>2 DEF Publishing
  <2> QED BY <1>1, <1>5, <1>6, <2>1, InPlay, RecordsAssumption DEF Kept, Live, OnTime
<1> QED BY <1>8, <1>9

LEMMA OwnKept ==
    ASSUME TypeOK, InHand, OneAtATime, OnTime, UnderWay, Kept, NEW c \in Client, Own(c)
    PROVE  UnderWay' /\ Kept'
<1> DEFINE rec == client[c].rec
<1>1. /\ rec \in FNRecord
      /\ local # None /\ local.at = now /\ local.rec \in FNRecord
      /\ ~ Better(rec, local.rec)
      /\ Live(newest) => ~ Better(newest, rec)
  BY InPlay DEF Own, UnderWay, Publishing
<1>2. newest' = IF Better(local.rec, rec) THEN None ELSE rec
  BY <1>1 DEF Own
<1>3. owned' = rec /\ UNCHANGED <<now, ticked, republisher, local>>
  BY DEF Own
<1>4. \A d \in Client : ~ Publishing(d)'
  <2>1. \A d \in Client : d # c => client'[d].pc = "idle"
    BY BecomeAlone DEF Own, OneAtATime, Active
  <2>2. client'[c].pc = "idle"
    BY BecomeAlone DEF Own, Idle
  <2> QED BY <2>1, <2>2 DEF Publishing
<1>5. ~ Better(local.rec, rec) => local.rec = rec
  BY <1>1, BetterIsStrictTotalOrder
<1>6. ~ Better(rec, rec)
  BY <1>1, BetterIsStrictTotalOrder
<1>7. Kept'
  BY <1>1, <1>2, <1>3, <1>5, <1>6, InPlay, RecordsAssumption DEF Kept, Live, OnTime
<1> QED BY <1>4, <1>7 DEF UnderWay

LEMMA RepublishPutKept ==
    ASSUME TypeOK, InHand, OneAtATime, OnTime, UnderWay, Kept, RepublishPut
    PROVE  UnderWay' /\ Kept'
<1> DEFINE rec == republisher.rec
<1>1. /\ rec \in FNRecord
      /\ republisher.pc = "put"
      /\ UNCHANGED <<now, client, owned, ticked>>
  BY InPlay DEF RepublishPut
<1>2. CASE Accepts(LocalRecord, rec)
  <2>1. /\ Live(rec)
        /\ ~ (Live(LocalRecord) /\ Better(LocalRecord, rec))
        /\ local' = [rec |-> rec, at |-> now]
        /\ newest' = IF newest # None /\ Better(rec, newest) THEN None ELSE newest
    BY <1>2 DEF RepublishPut, PutLocal, Accepts
  <2>2. local' # None
    BY <1>1, <2>1, InPlay, NoneAssumption
  <2>3. ASSUME NEW d \in Client, Publishing(d)
        PROVE  ~ Better(client[d].rec, rec) /\ (Live(newest) => ~ Better(newest, client[d].rec))
    <3>1. /\ local # None /\ Live(local.rec)
          /\ ~ Better(client[d].rec, local.rec)
          /\ Live(newest) => ~ Better(newest, client[d].rec)
      BY <2>3 DEF UnderWay
    <3>2. ~ Better(local.rec, rec)
      BY <2>1, <3>1 DEF LocalRecord
    <3> QED BY <1>1, <2>3, <3>1, <3>2, InPlay, NotBetterTransitive DEF Publishing
  <2>4. UnderWay'
    BY <1>1, <2>1, <2>2, <2>3 DEF UnderWay, Live, Publishing
  <2>5. ASSUME Live(newest), ~ Better(rec, newest)
        PROVE  ~ Better(newest, rec)
    <3>1. local # None /\ ~ Better(newest, local.rec)
      BY <2>5 DEF Kept
    <3>2. Live(local.rec)
      <4>1. CASE \E d \in Client : Publishing(d)
        BY <4>1 DEF UnderWay
      <4>2. CASE \A d \in Client : ~ Publishing(d)
        BY <2>5, <4>2 DEF Kept
      <4> QED BY <4>1, <4>2
    <3>3. ~ Better(local.rec, rec)
      BY <2>1, <3>1, <3>2 DEF LocalRecord
    <3> QED BY <1>1, <2>5, <3>1, <3>3, InPlay, NotBetterTransitive DEF Live
  <2>6. ASSUME Live(newest), ~ Better(rec, newest)
        PROVE  rec = newest
    BY <1>1, <2>5, <2>6, InPlay, BetterIsStrictTotalOrder DEF Live
  <2>7. Kept'
    BY <1>1, <2>1, <2>2, <2>5, <2>6, InPlay, RecordsAssumption DEF Kept, Live, OnTime
  <2> QED BY <2>4, <2>7
<1>3. CASE ~ Accepts(LocalRecord, rec)
  <2>1. UNCHANGED <<local, newest>>
    BY <1>3 DEF RepublishPut
  <2>2. ASSUME Live(newest) PROVE ~ (local.at < ticked)
    <3>1. CASE \E d \in Client : Publishing(d)
      <4>1. local.at = now
        BY <3>1 DEF UnderWay
      <4> QED BY <4>1, InPlay DEF OnTime
    <3>2. CASE \A d \in Client : ~ Publishing(d)
      <4>1. local # None /\ local.rec = newest
        BY <2>2, <3>2 DEF Kept
      <4>2. newest \in FNRecord
        BY <2>2, InPlay DEF Live
      <4>3. rec # newest
        BY <1>3, <2>2, <4>1, <4>2, BetterIsStrictTotalOrder DEF Accepts, LocalRecord
      <4> QED BY <2>2, <4>3 DEF Kept
    <3> QED BY <3>1, <3>2
  <2> QED BY <1>1, <2>1, <2>2 DEF UnderWay, Kept, Live, Publishing
<1> QED BY <1>2, <1>3

LEMMA KeptStep ==
    ASSUME TypeOK, InHand, OneAtATime, OnTime, UnderWay, Kept, [Next]_vars
    PROVE  UnderWay' /\ Kept'
<1>1. ASSUME NEW c \in Client, NEW body \in Body, ServiceBegins(c, body) \/ CommandBegins(c, body)
      PROVE  UnderWay' /\ Kept'
  <2>1. client[c].pc = "idle" /\ client'[c].pc = "resolve"
    BY <1>1, BecomeAlone DEF ServiceBegins, CommandBegins, Idle
  <2>2. \A d \in Client : d # c => client'[d] = client[d]
    BY <1>1, BecomeAlone DEF ServiceBegins, CommandBegins
  <2> QED BY <1>1, <2>1, <2>2, SameRecordsKept DEF ServiceBegins, CommandBegins, Publishing
<1>2. ASSUME NEW c \in Client, Prepares(c) PROVE UnderWay' /\ Kept'
  <2>1. ~ Publishing(c)
    BY <1>2 DEF Publishing, Prepares, Resolve, ResolveFails, Build, BuildFails, PutFails
  <2>2. client'[c].pc \in {"build", "put", "idle"}
    <3>1. client[c] \in ClientState
      BY DEF TypeOK
    <3>2. CASE Become(c, Idle)
      BY <3>2, BecomeAlone DEF Idle
    <3>3. CASE Become(c, [client[c] EXCEPT !.pc = "build"])
      <4>1. client'[c] = [client[c] EXCEPT !.pc = "build"]
        BY <3>3, BecomeAlone
      <4> QED BY <3>1, <4>1, StateFields
    <3>4. CASE \E rec : Become(c, [client[c] EXCEPT !.pc = "build", !.current = rec])
      <4>1. PICK rec : client'[c] = [client[c] EXCEPT !.pc = "build", !.current = rec]
        BY <3>4, BecomeAlone
      <4> QED BY <3>1, <4>1, StateFields
    <3>5. CASE \E rec : Become(c, [client[c] EXCEPT !.pc = "put", !.rec = rec])
      <4>1. PICK rec : client'[c] = [client[c] EXCEPT !.pc = "put", !.rec = rec]
        BY <3>5, BecomeAlone
      <4> QED BY <3>1, <4>1, StateFields
    <3> QED BY <1>2, <3>2, <3>3, <3>4, <3>5
               DEF Prepares, Resolve, ResolveFails, Build, BuildFails, PutFails
  <2>3. \A d \in Client : d # c => client'[d] = client[d]
    BY <1>2, BecomeAlone DEF Prepares, Resolve, ResolveFails, Build, BuildFails, PutFails
  <2>4. UNCHANGED <<now, owned, ticked, republisher, local, newest>>
    BY <1>2 DEF Prepares, Resolve, ResolveFails, Build, BuildFails, PutFails
  <2> QED BY <2>1, <2>2, <2>3, <2>4, SameRecordsKept DEF Publishing
<1>3. ASSUME NEW c \in Client, SpreadTo(c) PROVE UnderWay' /\ Kept'
  <2>1. client[c] \in ClientState
    BY DEF TypeOK
  <2>2. client[c].pc = "spread" /\ client'[c].pc = "own" /\ client'[c].rec = client[c].rec
    BY <1>3, <2>1, BecomeAlone DEF SpreadTo, ClientState
  <2>3. \A d \in Client : d # c => client'[d] = client[d]
    BY <1>3, BecomeAlone DEF SpreadTo
  <2> QED BY <1>3, <2>2, <2>3, SameRecordsKept DEF SpreadTo, Publishing
<1>4. ASSUME NEW c \in Client, SpreadFails(c) PROVE UnderWay' /\ Kept'
  <2>1. client'[c].pc = "idle" /\ \A d \in Client : d # c => client'[d] = client[d]
    BY <1>4, BecomeAlone DEF SpreadFails, Idle
  <2>2. newest' = None /\ UNCHANGED <<now, local>>
    BY <1>4 DEF SpreadFails
  <2> QED BY <2>1, <2>2 DEF UnderWay, Kept, Live, Publishing
<1>5. CASE RepublishBegins
  BY <1>5, InPlay DEF RepublishBegins, UnderWay, Kept, Live, Publishing, OnTime
<1>6. CASE RepublishSpread
  BY <1>6 DEF RepublishSpread, UnderWay, Kept, Live, Publishing
<1>7. CASE Tick
  <2>1. \A c \in Client : ~ Publishing(c) /\ ~ Publishing(c)'
    BY <1>7 DEF Tick, Publishing
  <2>2. /\ now' = now + 1
        /\ now - ticked < RepublishInterval
        /\ republisher.pc = "idle"
        /\ UNCHANGED <<owned, ticked, republisher, local, newest>>
    BY <1>7 DEF Tick
  <2>3. ASSUME Live(newest)' PROVE Live(newest)
    BY <2>2, <2>3, InPlay DEF Live, FNRecord
  <2>4. Kept'
    <3> SUFFICES ASSUME Live(newest)'
                 PROVE  /\ owned = newest
                        /\ local # None
                        /\ ~ Better(newest, local.rec)
                        /\ local.rec = newest
                        /\ local.at <= now + 1
                        /\ now + 1 <= local.at + RepublishInterval
                        /\ ~ (local.at < ticked)
      BY <2>2 DEF Kept
    <3>1. /\ owned = newest /\ local # None /\ ~ Better(newest, local.rec)
          /\ local.rec = newest /\ local.at <= now /\ ~ (local.at < ticked)
      BY <2>1, <2>2, <2>3 DEF Kept
    <3> QED BY <2>2, <3>1, InPlay, RecordsAssumption DEF OnTime
  <2> QED BY <2>1, <2>4 DEF UnderWay
<1>8. CASE LocalDrops
  <2>1. /\ local # None /\ now - local.at > MaxAge
        /\ UNCHANGED <<now, client, owned, ticked, republisher, newest>>
    BY <1>8 DEF LocalDrops
  <2>2. \A c \in Client : ~ Publishing(c)
    BY <2>1, InPlay, RecordsAssumption DEF UnderWay
  <2>3. ~ Live(newest)
    BY <2>1, InPlay, RecordsAssumption DEF Kept
  <2> QED BY <2>1, <2>2, <2>3 DEF UnderWay, Kept, Live, Publishing
<1>9. ASSUME NEW p \in Peer, PeerDrops(p) PROVE UnderWay' /\ Kept'
  BY <1>9 DEF PeerDrops, UnderWay, Kept, Live, Publishing
<1>10. CASE Restart
  <2>1. \A c \in Client : ~ Publishing(c)'
    BY <1>10 DEF Restart, Publishing, Idle
  <2> QED BY <1>10, <2>1 DEF Restart, UnderWay, Kept, Live
<1>11. CASE UNCHANGED vars
  BY <1>11 DEF vars, UnderWay, Kept, Live, Publishing
<1> QED
  BY <1>1, <1>2, <1>3, <1>4, <1>5, <1>6, <1>7, <1>8, <1>9, <1>10, <1>11, PutKept, OwnKept,
     RepublishPutKept DEF Next, ClientStep, Prepares

----------------------------------------------------------------------------
(* Publications build upon the newest record                               *)

Superseding == BuildsOnNewest /\ Numbered

(* A step that makes no record the newest, and of whose publications with  *)
(* the service none gets its current record or its own.                    *)
LEMMA SameSuperseding ==
    ASSUME Superseding,
           Live(newest)' => Live(newest) /\ newest' = newest,
           \A d \in Locked : client'[d] = client[d] \/ client'[d].pc \in {"idle", "resolve"}
    PROVE  Superseding'
BY DEF Superseding, BuildsOnNewest, Numbered, Live

LEMMA SupersedingStep ==
    ASSUME TypeOK, InHand, OneAtATime, OnTime, UnderWay, Kept, Superseding, [Next]_vars
    PROVE  Superseding'
<1> USE RecordsAssumption
<1>1. ASSUME NEW c \in Client, Resolve(c) PROVE Superseding'
  <2>1. client[c].pc = "resolve" /\ UNCHANGED <<now, newest>>
    BY <1>1 DEF Resolve
  <2>2. \A d \in Client : d # c => client'[d].pc = "idle"
    BY <1>1, BecomeAlone DEF Resolve, OneAtATime, Active
  <2>3. \A d \in Client : ~ Publishing(d)
    BY <2>1 DEF OneAtATime, Active, Publishing
  <2>4. Live(newest) => local # None /\ Live(local.rec) /\ local.rec = newest
    BY <2>3 DEF Kept
  <2>5. client[c] \in ClientState
    BY DEF TypeOK
  <2>6. ASSUME Live(newest)
        PROVE  client'[c].pc = "build" /\ client'[c].current # None
               /\ ~ Better(newest, client'[c].current)
    <3>1. \A R \in SUBSET Peer : newest \in Found(R)
      BY <2>4, <2>6 DEF Found, LocalRecord
    <3>2. PICK R \in SUBSET Peer : \E rec \in Found(R) :
             /\ IsBest(rec, Found(R))
             /\ Become(c, [client[c] EXCEPT !.pc = "build", !.current = rec])
      BY <1>1, <3>1 DEF Resolve
    <3>3. PICK rec \in Found(R) :
             /\ IsBest(rec, Found(R))
             /\ Become(c, [client[c] EXCEPT !.pc = "build", !.current = rec])
      BY <3>2
    <3>4. ~ Better(newest, rec) /\ rec # None
      BY <3>1, <3>3 DEF IsBest, Found, Live
    <3>5. client'[c] = [client[c] EXCEPT !.pc = "build", !.current = rec]
      BY <3>3, BecomeAlone
    <3> QED BY <2>5, <3>4, <3>5, StateFields
  <2>7. client'[c].pc = "build"
    <3>1. CASE Become(c, [client[c] EXCEPT !.pc = "build"])
      <4>1. client'[c] = [client[c] EXCEPT !.pc = "build"]
        BY <3>1, BecomeAlone
      <4> QED BY <2>5, <4>1, StateFields
    <3>2. CASE \E rec : Become(c, [client[c] EXCEPT !.pc = "build", !.current = rec])
      <4>1. PICK rec : client'[c] = [client[c] EXCEPT !.pc = "build", !.current = rec]
        BY <3>2, BecomeAlone
      <4> QED BY <2>5, <4>1, StateFields
    <3> QED BY <1>1, <3>1, <3>2 DEF Resolve
  <2> QED BY <2>1, <2>2, <2>6, <2>7 DEF Superseding, BuildsOnNewest, Numbered, Live
<1>2. ASSUME NEW c \in Client, Build(c) PROVE Superseding'
  <2> DEFINE current == client[c].current
             rec == BuildRecord(client[c].current, client[c].body)
  <2>1. client[c].pc = "build" /\ UNCHANGED <<now, newest>>
    BY <1>2 DEF Build
  <2>2. \A d \in Client : d # c => client'[d].pc = "idle"
    BY <1>2, BecomeAlone DEF Build, OneAtATime, Active
  <2>3. client[c] \in ClientState
    BY DEF TypeOK
  <2>4. client'[c].pc = "put" /\ client'[c].rec = rec
    <3>1. client'[c] = [client[c] EXCEPT !.pc = "put", !.rec = rec]
      BY <1>2, BecomeAlone DEF Build
    <3> QED BY <2>3, <3>1, StateFields
  <2>5. ASSUME c \in Locked, Live(newest) PROVE rec.seq > newest.seq
    <3>1. current # None /\ ~ Better(newest, current)
      BY <2>1, <2>5 DEF Superseding, BuildsOnNewest
    <3>2. current \in FNRecord /\ newest \in FNRecord
      BY <2>3, <2>5, <3>1, InPlay DEF ClientState, MaybeRecord, Live
    <3>3. current.seq \in Nat /\ newest.seq \in Nat
      BY <3>2, RecordFields
    <3>4. current.seq >= newest.seq
      BY <3>1, <3>3 DEF Better
    <3>5. rec.seq = NextSeq(current)
      BY DEF BuildRecord
    <3>6. NextSeq(current) > current.seq
      BY <3>1, <3>3, InPlay DEF NextSeq
    <3>7. NextSeq(current) \in Nat
      BY <3>3, InPlay DEF NextSeq
    <3> QED BY <3>3, <3>4, <3>5, <3>6, <3>7
  <2> QED BY <2>1, <2>2, <2>4, <2>5 DEF Superseding, BuildsOnNewest, Numbered, Live
<1>3. ASSUME NEW c \in Client, Put(c) \/ SpreadTo(c) PROVE Superseding'
  <2>1. client[c] \in ClientState
    BY DEF TypeOK
  <2>2. /\ client[c].pc \in {"put", "spread"}
        /\ client'[c].pc \in {"spread", "own"}
        /\ client'[c].rec = client[c].rec
    BY <1>3, <2>1, BecomeAlone DEF Put, SpreadTo, ClientState
  <2>3. \A d \in Client : d # c => client'[d] = client[d]
    BY <1>3, BecomeAlone DEF Put, SpreadTo
  <2>4. UNCHANGED <<now, newest>>
    BY <1>3 DEF Put, SpreadTo
  <2> QED BY <2>2, <2>3, <2>4 DEF Superseding, BuildsOnNewest, Numbered, Live
<1>4. ASSUME NEW c \in Client, Own(c) PROVE Superseding'
  <2>1. client'[c].pc = "idle"
    BY <1>4, BecomeAlone DEF Own, Idle
  <2>2. \A d \in Client : d # c => client'[d].pc = "idle"
    BY <1>4, BecomeAlone DEF Own, OneAtATime, Active
  <2> QED BY <2>1, <2>2 DEF Superseding, BuildsOnNewest, Numbered
<1>5. ASSUME NEW c \in Client, ResolveFails(c) PROVE Superseding'
  <2>1. client'[c].pc = "idle" \/ c \notin Locked
    BY <1>5, BecomeAlone DEF ResolveFails, Idle
  <2>2. \A d \in Client : d # c => client'[d] = client[d]
    BY <1>5, BecomeAlone DEF ResolveFails
  <2> QED BY <1>5, <2>1, <2>2, SameSuperseding DEF ResolveFails, Live
<1>6. ASSUME NEW c \in Client, BuildFails(c) \/ PutFails(c) \/ SpreadFails(c) PROVE Superseding'
  <2>1. client'[c].pc = "idle" /\ \A d \in Client : d # c => client'[d] = client[d]
    BY <1>6, BecomeAlone DEF BuildFails, PutFails, SpreadFails, Idle
  <2> QED BY <1>6, <2>1, SameSuperseding DEF BuildFails, PutFails, SpreadFails, Live
<1>7. ASSUME NEW c \in Client, NEW body \in Body, ServiceBegins(c, body) \/ CommandBegins(c, body)
      PROVE  Superseding'
  <2>1. client'[c].pc = "resolve" /\ \A d \in Client : d # c => client'[d] = client[d]
    <3>1. [Idle EXCEPT !.pc = "resolve", !.body = body].pc = "resolve"
      BY DEF Idle
    <3> QED BY <1>7, <3>1, BecomeAlone DEF ServiceBegins, CommandBegins
  <2>2. UNCHANGED <<now, newest>>
    BY <1>7 DEF ServiceBegins, CommandBegins
  <2>3. \A d \in Locked : client'[d] = client[d] \/ client'[d].pc \in {"idle", "resolve"}
    BY <2>1
  <2>4. Live(newest)' => Live(newest) /\ newest' = newest
    BY <2>2 DEF Live
  <2> QED BY <2>3, <2>4, SameSuperseding
<1>8. CASE Tick
  <2>1. Live(newest)' => Live(newest)
    BY <1>8, InPlay DEF Tick, Live, FNRecord
  <2> QED BY <1>8, <2>1, SameSuperseding DEF Tick
<1>9. CASE RepublishPut
  <2>1. newest' = newest \/ newest' = None
    BY <1>9 DEF RepublishPut
  <2> QED BY <1>9, <2>1, SameSuperseding DEF RepublishPut, Live
<1>10. CASE Restart
  <2>1. \A d \in Locked : client'[d].pc = "idle"
    BY <1>10 DEF Restart, Idle
  <2> QED BY <1>10, <2>1, SameSuperseding DEF Restart, Live
<1>11. CASE UNCHANGED <<now, client, newest>>
  BY <1>11, SameSuperseding DEF Live
<1> QED
  BY <1>1, <1>2, <1>3, <1>4, <1>5, <1>6, <1>7, <1>8, <1>9, <1>10, <1>11
     DEF Next, ClientStep, vars, RepublishBegins, RepublishSpread, LocalDrops, PeerDrops

----------------------------------------------------------------------------
(* The theorems                                                            *)

LEMMA InitInv == Init => Inv
<1> SUFFICES ASSUME Init PROVE Inv
  OBVIOUS
<1>1. \A c \in Client : client[c].pc = "idle"
  BY DEF Init, Idle
<1>2. TypeOK /\ InHand
  BY InitTypes
<1>3. ~ Live(newest)
  BY DEF Init, Live
<1>4. OnTime
  BY RecordsAssumption DEF Init, OnTime
<1> QED
  BY <1>1, <1>2, <1>3, <1>4, RecordsAssumption
     DEF Inv, OneAtATime, Active, UnderWay, Publishing, Kept, BuildsOnNewest, Numbered

LEMMA InvStep == ASSUME ~ Overlap, Inv, [Next]_vars PROVE Inv'
BY TypeStep, TurnStep, OnTimeStep, KeptStep, SupersedingStep DEF Inv, Superseding

LEMMA InvHolds == ~ Overlap => (Spec => []Inv)
<1> SUFFICES ASSUME ~ Overlap PROVE Spec => []Inv
  OBVIOUS
<1>1. Inv /\ [Next]_vars => Inv'
  BY InvStep
<1> QED BY <1>1, InitInv, PTL DEF Spec

(* While publications do not overlap, what PublishRecord tracks last, and  *)
(* so what republishOwned puts again, is the newest record published.      *)
THEOREM NewestIsOwned == ~ Overlap => (Spec => []OwnedIsNewest)
<1>1. Inv => OwnedIsNewest
  BY DEF Inv, Kept, OwnedIsNewest
<1> QED BY <1>1, InvHolds, PTL

(* While publications do not overlap, the node's own store holds the       *)
(* newest record until its end of life: republishing every                 *)
(* RepublishInterval is in time for a store that forgets after MaxAge.     *)
THEOREM NewestIsAvailable == ~ Overlap => (Spec => []NewestIsHeld)
<1>1. Inv => NewestIsHeld
  BY DEF Inv, Kept, NewestIsHeld
<1> QED BY <1>1, InvHolds, PTL

(* A publication with the service builds upon the newest record.           *)
THEOREM BuildsOnTheNewest == ~ Overlap => (Spec => []BuildsOnNewest)
<1>1. Inv => BuildsOnNewest
  BY DEF Inv
<1> QED BY <1>1, InvHolds, PTL

(* A publication that succeeds supersedes the newest record: with the      *)
(* service by a higher number, otherwise at least in the order of records. *)
THEOREM PublicationsDoSupersede == ~ Overlap => (Spec => PublicationsSupersede)
<1> DEFINE Supersedes ==
      \A c \in Client :
         client[c].pc = "own" /\ client'[c].pc = "idle" /\ Live(newest) /\ newest' # None =>
            IF c \in Locked THEN client[c].rec.seq > newest.seq
            ELSE ~ Better(newest, client[c].rec)
<1>1. Inv => Supersedes
  BY DEF Inv, Numbered, UnderWay, Publishing
<1>2. Inv /\ [Next]_vars => [Supersedes]_vars
  BY <1>1
<1> QED BY <1>2, InvHolds, PTL DEF Spec, PublicationsSupersede
=============================================================================
