------------------------ MODULE ContentServiceProofs ------------------------
(***************************************************************************)
(* The safety of ContentService, for any contents, writers and policy.     *)
(***************************************************************************)
EXTENDS ContentService, ContentIndexProofs

----------------------------------------------------------------------------
(* Sequences                                                               *)

(* What a concatenation holds.                                             *)
LEMMA RangeConcat ==
    ASSUME NEW s \in Seq(Blob), NEW t \in Seq(Blob)
    PROVE  Range(s \o t) = Range(s) \cup Range(t)
<1>1. ASSUME NEW x \in Range(s \o t) PROVE x \in Range(s) \cup Range(t)
  BY DEF Range
<1>2. ASSUME NEW x \in Range(s) PROVE x \in Range(s \o t)
  BY DEF Range
<1>3. ASSUME NEW x \in Range(t) PROVE x \in Range(s \o t)
  <2>1. PICK i \in DOMAIN t : t[i] = x
    BY DEF Range
  <2>2. Len(s) + i \in DOMAIN (s \o t) /\ (s \o t)[Len(s) + i] = x
    BY <2>1
  <2> QED BY <2>2 DEF Range
<1> QED BY <1>1, <1>2, <1>3

(* What a sequence with one element more holds.                            *)
LEMMA RangeAppend ==
    ASSUME NEW s \in Seq(Blob), NEW h \in Blob
    PROVE  Range(Append(s, h)) = Range(s) \cup {h}
<1>1. ASSUME NEW x \in Range(Append(s, h)) PROVE x \in Range(s) \cup {h}
  BY DEF Range
<1>2. ASSUME NEW x \in Range(s) PROVE x \in Range(Append(s, h))
  BY DEF Range
<1>3. h \in Range(Append(s, h))
  <2>1. Len(s) + 1 \in DOMAIN Append(s, h) /\ Append(s, h)[Len(s) + 1] = h
    OBVIOUS
  <2> QED BY <2>1 DEF Range
<1> QED BY <1>1, <1>2, <1>3

(* What is in a sequence is its head or in its tail.                       *)
LEMMA RangeTail ==
    ASSUME NEW s \in Seq(Blob), s # <<>>
    PROVE  /\ Head(s) \in Blob /\ Tail(s) \in Seq(Blob)
           /\ Range(s) = {Head(s)} \cup Range(Tail(s))
<1>1. ASSUME NEW x \in Range(s) PROVE x \in {Head(s)} \cup Range(Tail(s))
  <2>1. PICK i \in DOMAIN s : s[i] = x
    BY DEF Range
  <2>2. CASE i = 1
    BY <2>1, <2>2
  <2>3. CASE i # 1
    <3>1. i - 1 \in DOMAIN Tail(s) /\ Tail(s)[i - 1] = x
      BY <2>1, <2>3
    <3> QED BY <3>1 DEF Range
  <2> QED BY <2>2, <2>3
<1>2. ASSUME NEW x \in Range(Tail(s)) PROVE x \in Range(s)
  <2>1. PICK i \in DOMAIN Tail(s) : Tail(s)[i] = x
    BY DEF Range
  <2>2. i + 1 \in DOMAIN s /\ s[i + 1] = x
    BY <2>1
  <2> QED BY <2>2 DEF Range
<1>3. Head(s) \in Range(s)
  BY DEF Range
<1> QED BY <1>1, <1>2, <1>3

----------------------------------------------------------------------------
(* The writers                                                             *)

(* What each writer is, whatever the others do: it claims each blob before *)
(* it writes it, between them its claims and what it has yet to write make *)
(* up the set it is to record, and it holds a promise only while it        *)
(* receives a push.                                                        *)
WriterOK(s) ==
    /\ s \in WriterState
    /\ s.pc = "idle" => s = Idle
    /\ s.pc # "idle" => s.root \in Blob /\ s.kind # "none"
    /\ s.pc \in {"touch", "reserve", "admit", "chunks", "release"} => s.claims = <<>>
    /\ s.promised > 0 => s.kind = "push" /\ s.pc \in {"next", "put", "fail", "release"}
    /\ s.pc = "put" => s.todo # <<>> /\ Head(s.todo) \in Range(s.claims)
    /\ s.kind = "push" /\ s.pc \in {"next", "put"} => s.promised = SetSize(s.root)
    /\ s.kind \in {"push", "publish"} /\ s.pc \in {"next", "put"} =>
          Members(s.root, ChunksOf(s.root)) \subseteq Range(s.claims) \cup Range(s.todo)

WritersOK == writer \in [Writer -> WriterState] /\ \A w \in Writer : WriterOK(writer[w])

(* The inductive invariant for the types. *)
Inv == IndexOK /\ up \in BOOLEAN /\ WritersOK

(* A writer that has nothing to do is in order.                            *)
LEMMA IdleOK == WriterOK(Idle)
BY DEF WriterOK, WriterState, Idle

(* One writer moves and the others stay.                                   *)
LEMMA BecomeOK ==
    ASSUME WritersOK, NEW w \in Writer, NEW s, WriterOK(s), Become(w, s)
    PROVE  /\ WritersOK'
           /\ writer'[w] = s
           /\ \A v \in Writer \ {w} : writer'[v] = writer[v]
<1>1. s \in WriterState
  BY DEF WriterOK
<1>2. /\ writer' \in [Writer -> WriterState]
      /\ writer'[w] = s
      /\ \A v \in Writer \ {w} : writer'[v] = writer[v]
  BY <1>1 DEF WritersOK, Become
<1>3. ASSUME NEW v \in Writer PROVE WriterOK(writer'[v])
  BY <1>2 DEF WritersOK
<1> QED BY <1>2, <1>3 DEF WritersOK

(* Where the invariant starts.                                             *)
LEMMA InitInv == Init => Inv
<1> SUFFICES ASSUME Init PROVE Inv
  OBVIOUS
<1>1. IsIndex(file) /\ IsIndex(sets) /\ Mirrors(blobs, sets)
  BY EmptyIndexOK DEF Init
<1>2. IndexTypeOK
  BY <1>1, ServiceAssumption DEF Init, IndexTypeOK, IsIndex
<1>3. WritersOK
  <2>1. Idle \in WriterState
    BY IdleOK DEF WriterOK
  <2> QED BY <2>1, IdleOK DEF Init, WritersOK
<1> QED BY <1>1, <1>2, <1>3 DEF Init, Inv, IndexOK

(* An action that leaves the index alone.                                  *)
LEMMA IndexUnchanged ==
    ASSUME IndexOK, UNCHANGED indexVars
    PROVE  IndexOK'
BY DEF IndexOK, IndexTypeOK, IsIndex, Mirrors, indexVars

(* handlePushStream up to the transfer, and its end.                       *)
LEMMA PushInv ==
    ASSUME Inv, NEW w \in Writer, NEW r \in Blob,
           \/ PushOffer(w, r) \/ PushHave(w) \/ PushAccept(w)
           \/ PushDecline(w) \/ PushCommit(w) \/ PushRelease(w)
    PROVE  Inv'
<1> DEFINE s == writer[w]
<1>1. IndexOK /\ WritersOK /\ WriterOK(s) /\ s \in WriterState /\ up \in BOOLEAN
  BY DEF Inv, WritersOK
<1>2. CASE PushOffer(w, r)
  <2> DEFINE place == IF r \in DOMAIN sets THEN "touch" ELSE "reserve"
             t == [Idle EXCEPT !.kind = "push", !.root = r, !.pc = place]
  <2>1. Become(w, t) /\ UNCHANGED <<indexVars, up>>
    BY <1>2 DEF PushOffer
  <2>2. place \in {"touch", "reserve"}
    OBVIOUS
  <2> HIDE DEF place
  <2>3. /\ t \in WriterState
        /\ t.kind = "push" /\ t.pc = place /\ t.root = r
        /\ t.claims = <<>> /\ t.promised = 0
    <3>1. Idle \in WriterState
      BY IdleOK DEF WriterOK
    <3>2. t \in WriterState
      BY <2>2, <3>1 DEF WriterState
    <3>3. /\ t.kind = "push" /\ t.pc = place /\ t.root = r
          /\ t.claims = Idle.claims /\ t.promised = Idle.promised
      BY <3>1 DEF WriterState
    <3> QED BY <3>2, <3>3 DEF Idle
  <2> HIDE DEF t
  <2>4. WriterOK(t)
    BY <2>2, <2>3 DEF WriterOK
  <2> QED BY <1>1, <2>1, <2>4, BecomeOK, IndexUnchanged DEF Inv
<1>3. CASE PushHave(w)
  <2>1. Become(w, Idle) /\ TouchSets({s.root}) /\ up' = up
    BY <1>3 DEF PushHave, Touch
  <2> QED BY <1>1, <2>1, IdleOK, BecomeOK, TouchSetsOK DEF Inv
<1>4. CASE PushAccept(w)
  <2> DEFINE root == s.root
             t == [s EXCEPT !.pc = "next", !.todo = <<root>> \o ChunksOf(root),
                      !.promised = SetSize(root)]
  <2>1. Become(w, t) /\ Reserve(SetSize(root)) /\ up' = up /\ s.pc = "reserve" /\ s.kind = "push"
    BY <1>4 DEF PushAccept, At
  <2>2. root \in Blob /\ s.claims = <<>>
    BY <1>1, <2>1 DEF WriterOK
  <2>3. SetSize(root) \in Nat /\ ChunksOf(root) \in Seq(Blob) /\ <<root>> \in Seq(Blob)
    BY <2>2, SetSizeType, ChunksOfType
  <2>4. Range(<<root>> \o ChunksOf(root)) = Members(root, ChunksOf(root))
    <3>1. Range(<<root>>) = {root}
      BY DEF Range
    <3> QED BY <2>3, <3>1, RangeConcat DEF Members
  <2>5. t \in WriterState
    <3> DEFINE todo == <<root>> \o ChunksOf(root)
    <3>1. todo \in Seq(Blob)
      BY <2>3
    <3> HIDE DEF todo
    <3>2. [s EXCEPT !.pc = "next", !.todo = todo, !.promised = SetSize(root)] \in WriterState
      BY <1>1, <2>3, <3>1 DEF WriterState
    <3> QED BY <3>2 DEF todo
  <2>6. /\ t.pc = "next" /\ t.kind = "push" /\ t.root = root
        /\ t.todo = <<root>> \o ChunksOf(root) /\ t.promised = SetSize(root)
    BY <1>1, <2>1 DEF WriterState
  <2> HIDE DEF t
  <2>7. WriterOK(t)
    BY <2>2, <2>4, <2>5, <2>6 DEF WriterOK
  <2> QED BY <1>1, <2>1, <2>3, <2>7, BecomeOK, ReserveOK DEF Inv
<1>5. CASE PushDecline(w)
  <2>1. Become(w, Idle) /\ UNCHANGED <<indexVars, up>>
    BY <1>5 DEF PushDecline
  <2> QED BY <1>1, <2>1, IdleOK, BecomeOK, IndexUnchanged DEF Inv
<1>6. CASE PushCommit(w)
  <2> DEFINE root == s.root
  <2>1. PICK fits \in BOOLEAN :
            /\ CommitHosted(root, SetSize(root), ChunksOf(root), s.claims, fits)
            /\ Become(w, IF fits THEN Idle ELSE [s EXCEPT !.pc = "fail", !.promised = 0])
    BY <1>6 DEF PushCommit
  <2>2. s.pc = "next" /\ s.kind = "push" /\ up' = up
    BY <1>6 DEF PushCommit, At
  <2>3. root \in Blob /\ SetSize(root) \in Nat /\ s.claims \in Seq(Blob)
    BY <1>1, <2>2, SetSizeType DEF WriterOK, WriterState
  <2>4. IndexOK'
    BY <1>1, <2>1, <2>3, CommitHostedOK
  <2>5. WriterOK([s EXCEPT !.pc = "fail", !.promised = 0])
    BY <1>1, <2>2 DEF WriterOK, WriterState
  <2>6. WritersOK'
    BY <1>1, <2>1, <2>5, IdleOK, BecomeOK
  <2> QED BY <1>1, <2>2, <2>4, <2>6 DEF Inv
<1>7. CASE PushRelease(w)
  <2>1. Become(w, Idle) /\ Release(s.promised) /\ up' = up
    BY <1>7 DEF PushRelease
  <2>2. s.promised \in Nat
    BY <1>1 DEF WriterState
  <2> QED BY <1>1, <2>1, <2>2, IdleOK, BecomeOK, ReserveOK DEF Inv
<1> QED BY <1>2, <1>3, <1>4, <1>5, <1>6, <1>7

(* PutStream's own steps.                                                  *)
LEMMA PublishInv ==
    ASSUME Inv, NEW w \in Writer, NEW r \in Blob, PublishStart(w, r) \/ PublishRecord(w)
    PROVE  Inv'
<1> DEFINE s == writer[w]
<1>1. IndexOK /\ WritersOK /\ WriterOK(s) /\ s \in WriterState /\ up \in BOOLEAN
  BY DEF Inv, WritersOK
<1>2. CASE PublishStart(w, r)
  <2> DEFINE todo == Append(ChunksOf(r), r)
             t == [Idle EXCEPT !.kind = "publish", !.root = r, !.pc = "next", !.todo = todo]
  <2>1. Become(w, t) /\ UNCHANGED <<indexVars, up>>
    BY <1>2 DEF PublishStart
  <2>2. todo \in Seq(Blob) /\ Range(todo) = Members(r, ChunksOf(r))
    BY ChunksOfType, RangeAppend DEF Members
  <2> HIDE DEF todo
  <2>3. /\ t \in WriterState
        /\ t.kind = "publish" /\ t.pc = "next" /\ t.root = r /\ t.todo = todo
        /\ t.promised = 0
    <3>1. Idle \in WriterState
      BY IdleOK DEF WriterOK
    <3>2. t \in WriterState
      BY <2>2, <3>1 DEF WriterState
    <3>3. /\ t.kind = "publish" /\ t.pc = "next" /\ t.root = r /\ t.todo = todo
          /\ t.promised = Idle.promised
      BY <3>1 DEF WriterState
    <3> QED BY <3>2, <3>3 DEF Idle
  <2> HIDE DEF t
  <2>4. WriterOK(t)
    BY <2>2, <2>3 DEF WriterOK
  <2> QED BY <1>1, <2>1, <2>4, BecomeOK, IndexUnchanged DEF Inv
<1>3. CASE PublishRecord(w)
  <2> DEFINE root == s.root
  <2>1. /\ Become(w, Idle) /\ up' = up /\ s.pc = "next"
        /\ MarkOwned(root, SetSize(root), ChunksOf(root), s.claims)
    BY <1>3 DEF PublishRecord, At
  <2>2. root \in Blob /\ SetSize(root) \in Nat /\ s.claims \in Seq(Blob)
    BY <1>1, <2>1, SetSizeType DEF WriterOK, WriterState
  <2>3. IndexOK'
    BY <1>1, <2>1, <2>2, MarkOwnedOK
  <2> QED BY <1>1, <2>1, <2>3, IdleOK, BecomeOK DEF Inv
<1> QED BY <1>2, <1>3

(* The steps that the writers share.                                       *)
LEMMA SharedInv ==
    ASSUME Inv, NEW w \in Writer,
           \/ ClaimNext(w) \/ PutNext(w) \/ PutFails(w) \/ TransferFails(w) \/ RollBack(w)
    PROVE  Inv'
<1> DEFINE s == writer[w]
<1>1. IndexOK /\ WritersOK /\ WriterOK(s) /\ s \in WriterState /\ up \in BOOLEAN
  BY DEF Inv, WritersOK
<1>2. s.claims \in Seq(Blob) /\ s.todo \in Seq(Blob) /\ s.promised \in Nat
  BY <1>1 DEF WriterState
<1>3. CASE ClaimNext(w)
  <2> DEFINE h == Head(s.todo)
             claims == Append(s.claims, h)
             t == [s EXCEPT !.pc = "put", !.claims = claims]
  <2>1. s.pc = "next" /\ s.todo # <<>> /\ Claim(h) /\ Become(w, t) /\ up' = up
    BY <1>1, <1>3 DEF ClaimNext, WriterState
  <2>2. h \in Blob /\ h \in Range(s.todo)
    BY <1>2, <2>1, RangeTail
  <2>3. claims \in Seq(Blob) /\ Range(claims) = Range(s.claims) \cup {h}
    BY <1>2, <2>2, RangeAppend
  <2> HIDE DEF claims
  <2>4. /\ t \in WriterState
        /\ t.pc = "put" /\ t.claims = claims
        /\ t.kind = s.kind /\ t.root = s.root /\ t.todo = s.todo /\ t.promised = s.promised
    BY <1>1, <2>3 DEF WriterState
  <2> HIDE DEF t
  <2>5. WriterOK(t)
    BY <1>1, <2>1, <2>3, <2>4 DEF WriterOK
  <2> QED BY <1>1, <2>1, <2>2, <2>5, BecomeOK, ClaimOK DEF Inv
<1>4. ASSUME s.pc = "put"
      PROVE  WriterOK([s EXCEPT !.pc = "next", !.todo = Tail(s.todo)])
  <2> DEFINE todo == Tail(s.todo)
             t == [s EXCEPT !.pc = "next", !.todo = todo]
  <2>1. s.todo # <<>> /\ Head(s.todo) \in Range(s.claims)
    BY <1>1, <1>4 DEF WriterOK
  <2>2. todo \in Seq(Blob) /\ Range(s.todo) = {Head(s.todo)} \cup Range(todo)
    BY <1>2, <2>1, RangeTail
  <2> HIDE DEF todo
  <2>3. /\ t \in WriterState
        /\ t.pc = "next" /\ t.todo = todo
        /\ t.kind = s.kind /\ t.root = s.root /\ t.claims = s.claims /\ t.promised = s.promised
    BY <1>1, <2>2 DEF WriterState
  <2> HIDE DEF t
  <2>4. WriterOK(t)
    BY <1>1, <1>4, <2>1, <2>2, <2>3 DEF WriterOK
  <2> QED BY <2>4 DEF t, todo
<1>5. ASSUME s.pc \in {"next", "put"}
      PROVE  WriterOK([s EXCEPT !.pc = "fail"])
  <2> DEFINE t == [s EXCEPT !.pc = "fail"]
  <2>1. /\ t \in WriterState
        /\ t.pc = "fail" /\ t.todo = s.todo
        /\ t.kind = s.kind /\ t.root = s.root /\ t.claims = s.claims /\ t.promised = s.promised
    BY <1>1 DEF WriterState
  <2> HIDE DEF t
  <2>2. WriterOK(t)
    BY <1>1, <1>5, <2>1 DEF WriterOK
  <2> QED BY <2>2 DEF t
<1>6. CASE PutNext(w)
  <2>1. /\ s.pc = "put" /\ Put(Head(s.todo)) /\ up' = up
        /\ Become(w, [s EXCEPT !.pc = "next", !.todo = Tail(s.todo)])
    BY <1>1, <1>6 DEF PutNext, WriterState
  <2>2. Head(s.todo) \in Blob
    BY <1>1, <1>2, <2>1, RangeTail DEF WriterOK
  <2> QED BY <1>1, <1>4, <2>1, <2>2, BecomeOK, PutOK DEF Inv
<1>7. CASE PutFails(w)
  <2>1. /\ s.pc = "put" /\ UNCHANGED <<indexVars, up>>
        /\ \/ Become(w, [s EXCEPT !.pc = "next", !.todo = Tail(s.todo)])
           \/ Become(w, [s EXCEPT !.pc = "fail"])
    BY <1>1, <1>7 DEF PutFails, WriterState
  <2> QED BY <1>1, <1>4, <1>5, <2>1, BecomeOK, IndexUnchanged DEF Inv
<1>8. CASE TransferFails(w)
  <2>1. s.pc = "next" /\ Become(w, [s EXCEPT !.pc = "fail"]) /\ UNCHANGED <<indexVars, up>>
    BY <1>8 DEF TransferFails, At
  <2> QED BY <1>1, <1>5, <2>1, BecomeOK, IndexUnchanged DEF Inv
<1>9. CASE RollBack(w)
  <2> DEFINE t == [s EXCEPT !.pc = "release", !.claims = <<>>, !.todo = <<>>]
  <2>1. s.pc = "fail" /\ Discard(s.claims) /\ up' = up /\ (Become(w, t) \/ Become(w, Idle))
    BY <1>9 DEF RollBack
  <2>2. /\ t \in WriterState
        /\ t.pc = "release" /\ t.claims = <<>>
        /\ t.kind = s.kind /\ t.root = s.root /\ t.promised = s.promised
    <3> DEFINE none == <<>>
    <3>1. none \in Seq(Blob)
      OBVIOUS
    <3> HIDE DEF none
    <3>2. [s EXCEPT !.pc = "release", !.claims = none, !.todo = none] \in WriterState
      BY <1>1, <3>1 DEF WriterState
    <3>3. t \in WriterState
      BY <3>2 DEF none
    <3>4. /\ t.pc = "release" /\ t.claims = <<>>
          /\ t.kind = s.kind /\ t.root = s.root /\ t.promised = s.promised
      BY <1>1 DEF WriterState
    <3> QED BY <3>3, <3>4
  <2> HIDE DEF t
  <2>3. WriterOK(t)
    BY <1>1, <2>1, <2>2 DEF WriterOK
  <2>4. IndexOK'
    BY <1>1, <1>2, <2>1, DiscardOK
  <2> QED BY <1>1, <2>1, <2>3, <2>4, IdleOK, BecomeOK DEF Inv
<1> QED BY <1>3, <1>6, <1>7, <1>8, <1>9

(* FetchStream and the reader it returns.                                  *)
LEMMA FetchInv ==
    ASSUME Inv, NEW w \in Writer, NEW r \in Blob,
           \/ FetchRemote(w, r) \/ FetchAdmit(w) \/ FetchRecord(w)
           \/ FetchChunk(w) \/ FetchClose(w)
    PROVE  Inv'
<1> DEFINE s == writer[w]
<1>1. IndexOK /\ WritersOK /\ WriterOK(s) /\ s \in WriterState /\ up \in BOOLEAN
  BY DEF Inv, WritersOK
<1>2. s.claims \in Seq(Blob) /\ s.todo \in Seq(Blob) /\ s.promised \in Nat
  BY <1>1 DEF WriterState
<1>3. CASE FetchRemote(w, r)
  <2> DEFINE t == [Idle EXCEPT !.kind = "fetch", !.root = r, !.pc = "admit"]
  <2>1. Become(w, t) /\ UNCHANGED <<indexVars, up>>
    BY <1>3 DEF FetchRemote
  <2>2. /\ t \in WriterState
        /\ t.kind = "fetch" /\ t.pc = "admit" /\ t.root = r
        /\ t.claims = <<>> /\ t.promised = 0
    <3>1. Idle \in WriterState
      BY IdleOK DEF WriterOK
    <3>2. t \in WriterState
      BY <3>1 DEF WriterState
    <3>3. /\ t.kind = "fetch" /\ t.pc = "admit" /\ t.root = r
          /\ t.claims = Idle.claims /\ t.promised = Idle.promised
      BY <3>1 DEF WriterState
    <3> QED BY <3>2, <3>3 DEF Idle
  <2> HIDE DEF t
  <2>3. WriterOK(t)
    BY <2>2 DEF WriterOK
  <2> QED BY <1>1, <2>1, <2>3, BecomeOK, IndexUnchanged DEF Inv
<1>4. CASE FetchAdmit(w)
  <2> DEFINE root == s.root
             todo == <<root>>
             t == [s EXCEPT !.pc = "next", !.todo = todo]
  <2>1. /\ s.pc = "admit" /\ s.kind = "fetch" /\ up' = up
        /\ \E fits \in BOOLEAN : Admit(SetSize(root), fits) /\ Become(w, IF fits THEN t ELSE Idle)
    BY <1>4 DEF FetchAdmit, At
  <2>2. root \in Blob /\ SetSize(root) \in Nat
    BY <1>1, <2>1, SetSizeType DEF WriterOK
  <2>3. todo \in Seq(Blob)
    BY <2>2
  <2> HIDE DEF todo
  <2>4. /\ t \in WriterState
        /\ t.pc = "next" /\ t.kind = "fetch" /\ t.root = root /\ t.promised = s.promised
    BY <1>1, <2>1, <2>3 DEF WriterState
  <2> HIDE DEF t
  <2>5. WriterOK(t)
    BY <1>1, <2>1, <2>2, <2>4 DEF WriterOK
  <2>6. IndexOK'
    BY <1>1, <2>1, <2>2, AdmitOK
  <2> QED BY <1>1, <2>1, <2>5, <2>6, IdleOK, BecomeOK DEF Inv
<1>5. CASE FetchRecord(w)
  <2> DEFINE root == s.root
             none == <<>>
             todo == ChunksOf(root)
             t == [s EXCEPT !.pc = "chunks", !.claims = none, !.todo = todo]
  <2>1. /\ s.pc = "next" /\ s.kind = "fetch" /\ up' = up
        /\ AddHosted(root, SetSize(root), ChunksOf(root), s.claims)
        /\ Become(w, Idle) \/ Become(w, t)
    BY <1>5 DEF FetchRecord, At
  <2>2. root \in Blob /\ SetSize(root) \in Nat /\ todo \in Seq(Blob)
    BY <1>1, <2>1, SetSizeType, ChunksOfType DEF WriterOK
  <2>3. none = <<>> /\ none \in Seq(Blob)
    OBVIOUS
  <2>4. IndexOK'
    BY <1>1, <1>2, <2>1, <2>2, AddHostedOK
  <2> HIDE DEF todo, none
  <2>5. /\ t \in WriterState
        /\ t.pc = "chunks" /\ t.kind = "fetch" /\ t.root = root /\ t.claims = none
        /\ t.promised = s.promised
    BY <1>1, <2>1, <2>2, <2>3 DEF WriterState
  <2> HIDE DEF t
  <2>6. WriterOK(t)
    BY <1>1, <1>2, <2>1, <2>2, <2>3, <2>5 DEF WriterOK
  <2> QED BY <1>1, <2>1, <2>4, <2>6, IdleOK, BecomeOK DEF Inv
<1>6. CASE FetchChunk(w)
  <2> DEFINE todo == Tail(s.todo)
             t == [s EXCEPT !.todo = todo]
  <2>1. /\ s.pc = "chunks" /\ s.kind = "fetch" /\ s.todo # <<>> /\ up' = up
        /\ Put(Head(s.todo)) \/ UNCHANGED indexVars
        /\ Become(w, t)
    BY <1>1, <1>6 DEF FetchChunk, At, WriterState
  <2>2. Head(s.todo) \in Blob /\ todo \in Seq(Blob)
    BY <1>2, <2>1, RangeTail
  <2> HIDE DEF todo
  <2>3. /\ t \in WriterState
        /\ t.pc = "chunks" /\ t.kind = "fetch" /\ t.root = s.root /\ t.claims = s.claims
        /\ t.promised = s.promised
    BY <1>1, <2>1, <2>2 DEF WriterState
  <2> HIDE DEF t
  <2>4. WriterOK(t)
    BY <1>1, <2>1, <2>3 DEF WriterOK
  <2>5. IndexOK'
    BY <1>1, <2>1, <2>2, PutOK, IndexUnchanged
  <2> QED BY <1>1, <2>1, <2>4, <2>5, BecomeOK DEF Inv
<1>7. CASE FetchClose(w)
  <2>1. Become(w, Idle) /\ UNCHANGED <<indexVars, up>>
    BY <1>7 DEF FetchClose
  <2> QED BY <1>1, <2>1, IdleOK, BecomeOK, IndexUnchanged DEF Inv
<1> QED BY <1>3, <1>4, <1>5, <1>6, <1>7

(* Readers, the clock, crashes and restarts.                               *)
LEMMA ProcessInv ==
    ASSUME Inv,
           \/ \E h \in Blob : ServeBlob(h) \/ StoreUnindexed(h)
           \/ FlushIndex \/ Tick \/ Crash \/ Start
    PROVE  Inv'
<1>1. IndexOK /\ WritersOK /\ up \in BOOLEAN
  BY DEF Inv
<1>2. ASSUME NEW h \in Blob, ServeBlob(h) PROVE Inv'
  <2>1. TouchSets(blobs[h]) /\ UNCHANGED <<up, writer>>
    BY <1>2 DEF ServeBlob, TouchBlob
  <2> QED BY <1>1, <2>1, TouchSetsOK DEF Inv, WritersOK
<1>3. CASE FlushIndex
  BY <1>1, <1>3, FlushOK DEF FlushIndex, Inv, WritersOK
<1>4. CASE Tick
  <2>1. now' \in Nat /\ UNCHANGED <<disk, file, sets, blobs, pending, reserved, dirty, up, writer>>
    BY <1>1, <1>4 DEF Tick, IndexOK, IndexTypeOK
  <2>2. IndexOK'
    BY <1>1, <2>1 DEF IndexOK, IndexTypeOK, IsIndex, Mirrors
  <2> QED BY <1>1, <2>1, <2>2 DEF Inv, WritersOK
<1>5. CASE Crash
  <2>1. disk' \subseteq disk /\ IsIndex(file')
    <3>1. IsIndex(file) /\ \A V : IsIndex(SetsWithout(V))
      BY <1>1, EvictOK DEF IndexOK
    <3>2. CASE UNCHANGED <<disk, file>>
      BY <3>1, <3>2
    <3>3. ASSUME NEW w \in Writer, DiesDiscarding(w) PROVE disk' \subseteq disk /\ IsIndex(file')
      BY <3>1, <3>3 DEF DiesDiscarding
    <3>4. ASSUME NEW w \in Writer, DiesEvicting(w) PROVE disk' \subseteq disk /\ IsIndex(file')
      BY <3>1, <3>4 DEF DiesEvicting
    <3> QED BY <1>5, <3>2, <3>3, <3>4 DEF Crash
  <2>2. IndexOK'
    BY <1>1, <1>5, <2>1, LoseMemoryOK DEF Crash
  <2>3. writer' = [w \in Writer |-> Idle] /\ up' = FALSE
    BY <1>5 DEF Crash
  <2>4. WritersOK'
    BY <2>3, IdleOK DEF WritersOK, WriterOK
  <2> QED BY <2>2, <2>3, <2>4 DEF Inv
<1>6. CASE Start
  BY <1>1, <1>6, LoadContentIndexOK DEF Start, Inv, WritersOK
<1>7. ASSUME NEW h \in Blob, StoreUnindexed(h) PROVE Inv'
  BY <1>1, <1>7, PutOK DEF StoreUnindexed, Inv, WritersOK
<1> QED BY <1>2, <1>3, <1>4, <1>5, <1>6, <1>7

(* Every step keeps the invariant.                                         *)
LEMMA NextInv == Inv /\ [Next]_vars => Inv'
<1> SUFFICES ASSUME Inv, [Next]_vars PROVE Inv'
  OBVIOUS
<1>1. ASSUME NEW w \in Writer, WriterStep(w) PROVE Inv'
  <2>1. writer[w].pc # "idle"
    BY <1>1 DEF WriterStep, PushHave, PushAccept, PushDecline, PushCommit, PushRelease,
       PublishRecord, ClaimNext, PutNext, PutFails, TransferFails, RollBack, FetchAdmit,
       FetchRecord, FetchChunk, FetchClose, At
  <2>2. writer[w].root \in Blob
    BY <2>1 DEF Inv, WritersOK, WriterOK
  <2> QED BY <1>1, <2>2, PushInv, PublishInv, SharedInv, FetchInv DEF WriterStep
<1>2. ASSUME NEW w \in Writer, Request(w) PROVE Inv'
  BY <1>2, ServiceAssumption, PushInv, PublishInv, FetchInv DEF Request
<1>3. CASE UNCHANGED vars
  <2>1. UNCHANGED indexVars /\ UNCHANGED <<up, writer>>
    BY <1>3 DEF vars
  <2> QED BY <2>1, IndexUnchanged DEF Inv, WritersOK
<1> QED BY <1>1, <1>2, <1>3, ProcessInv DEF Next

(* The invariant holds throughout.                                         *)
LEMMA Invariance == Spec => []Inv
BY InitInv, NextInv, PTL DEF Spec

(* Every variable keeps its type.                                          *)
THEOREM TypeCorrect == Spec => []TypeOK
<1>1. Inv => TypeOK
  BY DEF Inv, IndexOK, WritersOK, WriterOK, TypeOK
<1> QED BY <1>1, Invariance, PTL

----------------------------------------------------------------------------
(* Accounting                                                              *)

(* While the process is down nobody writes and nothing is in memory.       *)
DownOK == ~ up => (\A w \in Writer : writer[w] = Idle) /\ sets = EmptyIndex

(* Every step keeps it so.                                                 *)
LEMMA NextDownOK == DownOK /\ [Next]_vars => DownOK'
<1> SUFFICES ASSUME DownOK, [Next]_vars PROVE DownOK'
  OBVIOUS
<1>1. ASSUME NEW w \in Writer, WriterStep(w) PROVE up /\ up' = up
  BY <1>1 DEF WriterStep, PushHave, PushAccept, PushDecline, PushCommit, PushRelease,
     PublishRecord, ClaimNext, PutNext, PutFails, TransferFails, RollBack, FetchAdmit,
     FetchRecord, FetchChunk, FetchClose, At
<1>2. ASSUME NEW w \in Writer, Request(w) PROVE up /\ up' = up
  BY <1>2 DEF Request, PushOffer, PublishStart, FetchRemote, At
<1>3. ASSUME NEW h \in Blob, ServeBlob(h) PROVE up /\ up' = up
  BY <1>3 DEF ServeBlob
<1>4. CASE FlushIndex
  BY <1>4 DEF FlushIndex, DownOK
<1>5. CASE Tick
  BY <1>5 DEF Tick, DownOK
<1>6. CASE Crash
  BY <1>6 DEF Crash, LoseMemory, DownOK
<1>7. CASE Start
  BY <1>7 DEF Start, DownOK
<1>8. CASE UNCHANGED vars
  BY <1>8 DEF vars, indexVars, DownOK
<1>9. ASSUME NEW h \in Blob, StoreUnindexed(h) PROVE DownOK'
  BY <1>9 DEF StoreUnindexed, Put, DownOK
<1> QED BY <1>1, <1>2, <1>3, <1>4, <1>5, <1>6, <1>7, <1>8, <1>9 DEF Next, DownOK

(* ClaimsCounted, with the finiteness that makes Cardinality mean size.    *)
ClaimsOK == \A h \in Blob : IsFiniteSet(Claimants(h)) /\ pending[h] = Cardinality(Claimants(h))

(* No handle changes, nor does any count.                                  *)
LEMMA ClaimsUnchanged ==
    ASSUME ClaimsOK, pending' = pending,
           \A v \in Writer : writer'[v].claims = writer[v].claims
    PROVE  ClaimsOK'
<1>1. ASSUME NEW h \in Blob PROVE Claimants(h)' = Claimants(h)
  BY DEF Claimants
<1> QED BY <1>1 DEF ClaimsOK

(* One handle grows by h.                                                  *)
LEMMA ClaimsGrow ==
    ASSUME WritersOK, ClaimsOK, NEW w \in Writer, NEW h \in Blob, pending \in [Blob -> Nat],
           Claim(h), writer'[w].claims = Append(writer[w].claims, h),
           \A v \in Writer \ {w} : writer'[v].claims = writer[v].claims
    PROVE  ClaimsOK'
<1> DEFINE n == Len(writer[w].claims)
           Handle(v, g) == {v} \X {i \in DOMAIN writer[v].claims : writer[v].claims[i] = g}
           Handle2(v, g) == {v} \X {i \in DOMAIN writer'[v].claims : writer'[v].claims[i] = g}
<1>1. writer[w].claims \in Seq(Blob) /\ n \in Nat
  BY DEF WritersOK, WriterState
<1>2. /\ DOMAIN writer'[w].claims = (DOMAIN writer[w].claims) \cup {n + 1}
      /\ writer'[w].claims[n + 1] = h
      /\ \A i \in DOMAIN writer[w].claims : writer'[w].claims[i] = writer[w].claims[i]
      /\ n + 1 \notin DOMAIN writer[w].claims
  <2> DEFINE c == writer[w].claims
             d == writer'[w].claims
  <2>1. c \in Seq(Blob) /\ d = Append(c, h) /\ n = Len(c)
    BY <1>1
  <2> HIDE DEF c, d, n
  <2>2. /\ DOMAIN c = 1 .. n /\ DOMAIN d = 1 .. n + 1 /\ n \in Nat
        /\ d[n + 1] = h /\ \A i \in DOMAIN c : d[i] = c[i]
    BY <2>1
  <2>3. DOMAIN d = DOMAIN c \cup {n + 1} /\ n + 1 \notin DOMAIN c
    BY <2>2
  <2> QED BY <2>2, <2>3 DEF c, d
<1>3. ASSUME NEW g \in Blob, g # h PROVE Claimants(g)' = Claimants(g)
  <2>1. ASSUME NEW v \in Writer PROVE Handle2(v, g) = Handle(v, g)
    <3>1. CASE v = w
      BY <1>2, <1>3, <3>1
    <3>2. CASE v # w
      BY <3>2
    <3> QED BY <3>1, <3>2
  <2> QED BY <2>1 DEF Claimants
<1>4. Claimants(h)' = Claimants(h) \cup {<<w, n + 1>>} /\ <<w, n + 1>> \notin Claimants(h)
  <2>1. ASSUME NEW v \in Writer, v # w PROVE Handle2(v, h) = Handle(v, h)
    BY <2>1
  <2>2. Handle2(w, h) = Handle(w, h) \cup {<<w, n + 1>>}
    BY <1>2
  <2>3. \A v \in Writer : <<w, n + 1>> \notin Handle(v, h)
    BY <1>2
  <2>4. /\ Claimants(h) = UNION {Handle(v, h) : v \in Writer}
        /\ Claimants(h)' = UNION {Handle2(v, h) : v \in Writer}
    BY DEF Claimants
  <2> HIDE DEF Handle, Handle2
  <2> QED BY <2>1, <2>2, <2>3, <2>4
<1>5. Cardinality(Claimants(h)') = Cardinality(Claimants(h)) + 1 /\ IsFiniteSet(Claimants(h)')
  <2>1. IsFiniteSet(Claimants(h))
    BY DEF ClaimsOK
  <2>2. /\ IsFiniteSet(Claimants(h) \cup {<<w, n + 1>>})
        /\ Cardinality(Claimants(h) \cup {<<w, n + 1>>}) = Cardinality(Claimants(h)) + 1
    BY <1>4, <2>1, FS_AddElement
  <2> QED BY <1>4, <2>2
<1>6. pending'[h] = pending[h] + 1 /\ \A g \in Blob \ {h} : pending'[g] = pending[g]
  BY DEF Claim
<1> QED BY <1>3, <1>5, <1>6 DEF ClaimsOK

(* One handle is released.                                                 *)
LEMMA ClaimsReleased ==
    ASSUME WritersOK, ClaimsOK, NEW w \in Writer,
           pending' = Released(writer[w].claims), writer'[w].claims = <<>>,
           \A v \in Writer \ {w} : writer'[v].claims = writer[v].claims
    PROVE  ClaimsOK'
<1> SUFFICES ASSUME NEW h \in Blob
             PROVE  IsFiniteSet(Claimants(h)') /\ pending'[h] = Cardinality(Claimants(h)')
  BY DEF ClaimsOK
<1> DEFINE claims == writer[w].claims
           I == {i \in DOMAIN claims : claims[i] = h}
           H == {w} \X I
<1>1. claims \in Seq(Blob)
  BY DEF WritersOK, WriterState
<1>2. IsFiniteSet(I) /\ Count(claims, h) = Cardinality(I) /\ Cardinality(I) \in Nat
  BY <1>1, CountType DEF Count
<1>3. IsFiniteSet(H) /\ Cardinality(H) = Cardinality(I)
  <2>1. IsFiniteSet({w}) /\ Cardinality({w}) = 1
    BY FS_Singleton
  <2> HIDE DEF I
  <2> QED BY <1>2, <2>1, FS_Product
<1>4. H \subseteq Claimants(h)
  BY DEF Claimants
<1>5. Claimants(h)' = Claimants(h) \ H
  <2>1. ASSUME NEW v \in Writer \ {w}
        PROVE  {i \in DOMAIN writer'[v].claims : writer'[v].claims[i] = h}
                 = {i \in DOMAIN writer[v].claims : writer[v].claims[i] = h}
    BY <2>1
  <2>2. {i \in DOMAIN writer'[w].claims : writer'[w].claims[i] = h} = {}
    OBVIOUS
  <2> QED BY <2>1, <2>2 DEF Claimants
<1>6. IsFiniteSet(Claimants(h)) /\ pending[h] = Cardinality(Claimants(h))
  BY DEF ClaimsOK
<1> HIDE DEF I, H
<1>7. /\ IsFiniteSet(Claimants(h) \ H)
      /\ Cardinality(Claimants(h) \ H) = Cardinality(Claimants(h)) - Cardinality(H)
  <2>1. Claimants(h) \cap H = H
    BY <1>4
  <2>2. /\ IsFiniteSet(Claimants(h) \ H)
        /\ Cardinality(Claimants(h) \ H)
             = Cardinality(Claimants(h)) - Cardinality(Claimants(h) \cap H)
    BY <1>6, FS_Difference
  <2> QED BY <2>1, <2>2
<1>8. Cardinality(Claimants(h)) \in Nat /\ Cardinality(Claimants(h) \ H) \in Nat
  BY <1>6, <1>7, FS_CardinalityType
<1>9. pending'[h] = IF pending[h] > Count(claims, h) THEN pending[h] - Count(claims, h) ELSE 0
  BY DEF Released
<1> QED BY <1>2, <1>3, <1>5, <1>6, <1>7, <1>8, <1>9

(* ReservationsCounted, with the finiteness that makes Cardinality mean    *)
(* size.                                                                   *)
ReservedOK == IsFiniteSet(Promises) /\ reserved = Cardinality(Promises)

(* No promise is made or dropped.                                          *)
LEMMA ReservedUnchanged ==
    ASSUME ReservedOK, reserved' = reserved,
           \A v \in Writer : writer'[v].promised = writer[v].promised
    PROVE  ReservedOK'
<1>1. Promises' = Promises
  BY DEF Promises
<1> QED BY <1>1 DEF ReservedOK

(* A promise of p bytes is made to one writer that had none.               *)
LEMMA ReservedGrows ==
    ASSUME ReservedOK, NEW w \in Writer, NEW p \in Nat, reserved' = reserved + p,
           writer[w].promised = 0, writer'[w].promised = p,
           \A v \in Writer \ {w} : writer'[v].promised = writer[v].promised
    PROVE  ReservedOK'
<1> DEFINE Bytes(v) == {v} \X (1 .. writer[v].promised)
           Bytes2(v) == {v} \X (1 .. writer'[v].promised)
           P == {w} \X (1 .. p)
<1>1. /\ Promises = UNION {Bytes(v) : v \in Writer}
      /\ Promises' = UNION {Bytes2(v) : v \in Writer}
  BY DEF Promises
<1>2. Bytes2(w) = P /\ Bytes(w) = {}
  OBVIOUS
<1>3. \A v \in Writer \ {w} : Bytes2(v) = Bytes(v) /\ Bytes(v) \cap P = {}
  OBVIOUS
<1>4. IsFiniteSet(P) /\ Cardinality(P) = p
  BY BytesOfOne
<1> HIDE DEF Bytes, Bytes2, P
<1>5. Promises' = Promises \cup P /\ Promises \cap P = {}
  BY <1>1, <1>2, <1>3
<1>6. IsFiniteSet(Promises) /\ reserved = Cardinality(Promises) /\ reserved \in Nat
  BY FS_CardinalityType DEF ReservedOK
<1>7. /\ IsFiniteSet(Promises \cup P)
      /\ Cardinality(Promises \cup P)
           = Cardinality(Promises) + Cardinality(P) - Cardinality(Promises \cap P)
  BY <1>4, <1>6, FS_Union
<1>8. Cardinality(Promises \cap P) = 0
  BY <1>5, FS_EmptySet
<1> QED BY <1>4, <1>5, <1>6, <1>7, <1>8 DEF ReservedOK

(* A promise is dropped.                                                   *)
LEMMA ReservedDrops ==
    ASSUME ReservedOK, NEW w \in Writer, writer[w].promised \in Nat,
           reserved' = Unpromised(writer[w].promised), writer'[w].promised = 0,
           \A v \in Writer \ {w} : writer'[v].promised = writer[v].promised
    PROVE  ReservedOK'
<1> DEFINE Bytes(v) == {v} \X (1 .. writer[v].promised)
           Bytes2(v) == {v} \X (1 .. writer'[v].promised)
           p == writer[w].promised
           P == {w} \X (1 .. p)
<1>1. /\ Promises = UNION {Bytes(v) : v \in Writer}
      /\ Promises' = UNION {Bytes2(v) : v \in Writer}
  BY DEF Promises
<1>2. Bytes2(w) = {} /\ Bytes(w) = P
  OBVIOUS
<1>3. \A v \in Writer \ {w} : Bytes2(v) = Bytes(v) /\ Bytes(v) \cap P = {}
  OBVIOUS
<1>4. IsFiniteSet(P) /\ Cardinality(P) = p
  BY BytesOfOne
<1> HIDE DEF Bytes, Bytes2, P
<1>5. Promises' = Promises \ P /\ Promises \cap P = P
  BY <1>1, <1>2, <1>3
<1>6. IsFiniteSet(Promises) /\ reserved = Cardinality(Promises) /\ reserved \in Nat
  BY FS_CardinalityType DEF ReservedOK
<1>7. /\ IsFiniteSet(Promises \ P)
      /\ Cardinality(Promises \ P) = Cardinality(Promises) - Cardinality(Promises \cap P)
  BY <1>6, FS_Difference
<1>8. Cardinality(Promises \ P) = reserved - p
  BY <1>4, <1>5, <1>6, <1>7
<1>9. Cardinality(Promises \ P) \in Nat
  BY <1>7, FS_CardinalityType
<1>10. reserved' = reserved - p
  BY <1>6, <1>8, <1>9 DEF Unpromised
<1> QED BY <1>5, <1>7, <1>8, <1>10 DEF ReservedOK

Ledgers == ClaimsOK /\ ReservedOK

(* Nobody holds a claim or a promise.                                      *)
LEMMA LedgersEmpty ==
    ASSUME \A w \in Writer : writer[w] = Idle, pending = [h \in Blob |-> 0], reserved = 0
    PROVE  Ledgers
<1>1. \A w \in Writer : writer[w].claims = <<>> /\ writer[w].promised = 0
  BY DEF Idle
<1>2. ASSUME NEW h \in Blob PROVE Claimants(h) = {}
  BY <1>1 DEF Claimants
<1>3. Promises = {}
  BY <1>1 DEF Promises
<1> QED BY <1>2, <1>3, FS_EmptySet DEF Ledgers, ClaimsOK, ReservedOK

(* The same of the state a crash or a restart leads to.                    *)
LEMMA LedgersEmptied ==
    ASSUME \A w \in Writer : writer'[w] = Idle, pending' = [h \in Blob |-> 0], reserved' = 0
    PROVE  Ledgers'
<1>1. \A w \in Writer : writer'[w].claims = <<>> /\ writer'[w].promised = 0
  BY DEF Idle
<1>2. ASSUME NEW h \in Blob PROVE Claimants(h)' = {}
  BY <1>1 DEF Claimants
<1>3. Promises' = {}
  BY <1>1 DEF Promises
<1> QED BY <1>2, <1>3, FS_EmptySet DEF Ledgers, ClaimsOK, ReservedOK

(* One writer moves, whatever the new state is.                            *)
LEMMA BecomeIs ==
    ASSUME WritersOK, NEW w \in Writer, NEW s, Become(w, s)
    PROVE  /\ writer'[w] = s
           /\ \A v \in Writer \ {w} : writer'[v] = writer[v]
BY DEF WritersOK, Become

(* A step that touches neither ledger.                                     *)
LEMMA LedgersUnchanged ==
    ASSUME Ledgers, WritersOK, NEW w \in Writer, NEW s, Become(w, s),
           s.claims = writer[w].claims, s.promised = writer[w].promised,
           pending' = pending, reserved' = reserved
    PROVE  Ledgers'
<1>1. \A v \in Writer : /\ writer'[v].claims = writer[v].claims
                         /\ writer'[v].promised = writer[v].promised
  BY BecomeIs
<1> QED BY <1>1, ClaimsUnchanged, ReservedUnchanged DEF Ledgers

(* A step that releases a handle and makes no promise.                     *)
LEMMA LedgersReleased ==
    ASSUME Ledgers, WritersOK, NEW w \in Writer, NEW s, Become(w, s),
           s.claims = <<>>, pending' = Released(writer[w].claims),
           s.promised = writer[w].promised, reserved' = reserved
    PROVE  Ledgers'
<1>1. /\ writer'[w].claims = <<>>
      /\ \A v \in Writer \ {w} : writer'[v].claims = writer[v].claims
      /\ \A v \in Writer : writer'[v].promised = writer[v].promised
  BY BecomeIs
<1> QED BY <1>1, ClaimsReleased, ReservedUnchanged DEF Ledgers

(* Idle writers hold nothing.                                              *)
LEMMA IdleHoldsNothing == Idle.claims = <<>> /\ Idle.promised = 0
BY DEF Idle

(* Only a push holds a promise, and only once it is accepted.              *)
LEMMA NoPromise ==
    ASSUME NEW s, WriterOK(s),
           s.kind # "push" \/ s.pc \notin {"next", "put", "fail", "release"}
    PROVE  s.promised = 0
BY DEF WriterOK, WriterState

(* handlePushStream keeps the ledgers.                                     *)
LEMMA PushLedgers ==
    ASSUME Inv, Ledgers, NEW w \in Writer, NEW r \in Blob,
           \/ PushOffer(w, r) \/ PushHave(w) \/ PushAccept(w)
           \/ PushDecline(w) \/ PushCommit(w) \/ PushRelease(w)
    PROVE  Ledgers'
<1> DEFINE s == writer[w]
<1>1. /\ WritersOK /\ WriterOK(s) /\ s \in WriterState /\ s.promised \in Nat
      /\ pending \in [Blob -> Nat]
  BY DEF Inv, WritersOK, WriterState, IndexOK, IndexTypeOK
<1>2. CASE PushOffer(w, r)
  <2> DEFINE t == [Idle EXCEPT !.kind = "push", !.root = r,
                      !.pc = IF r \in DOMAIN sets THEN "touch" ELSE "reserve"]
  <2>1. Become(w, t) /\ s.pc = "idle" /\ pending' = pending /\ reserved' = reserved
    BY <1>2 DEF PushOffer, indexVars, At
  <2>2. s = Idle
    BY <1>1, <2>1 DEF WriterOK
  <2>3. t.claims = Idle.claims /\ t.promised = Idle.promised
    BY DEF Idle
  <2> HIDE DEF t
  <2> QED BY <1>1, <2>1, <2>2, <2>3, LedgersUnchanged
<1>3. CASE PushHave(w)
  <2>1. /\ Become(w, Idle) /\ s.pc = "touch" /\ pending' = pending /\ reserved' = reserved
    BY <1>3 DEF PushHave, Touch, TouchSets, At
  <2>2. s.claims = <<>> /\ s.promised = 0
    BY <1>1, <2>1, NoPromise DEF WriterOK
  <2> QED BY <1>1, <2>1, <2>2, IdleHoldsNothing, LedgersUnchanged
<1>4. CASE PushAccept(w)
  <2> DEFINE root == s.root
             p == SetSize(root)
             t == [s EXCEPT !.pc = "next", !.todo = <<root>> \o ChunksOf(root), !.promised = p]
  <2>1. /\ Become(w, t) /\ s.pc = "reserve"
        /\ pending' = pending /\ reserved' = reserved + p
    BY <1>4 DEF PushAccept, Reserve, At
  <2>2. root \in Blob /\ p \in Nat /\ s.promised = 0
    BY <1>1, <2>1, SetSizeType, NoPromise DEF WriterOK
  <2>3. t.claims = s.claims /\ t.promised = p
    BY <1>1 DEF WriterState
  <2> HIDE DEF t, p
  <2>4. /\ writer'[w] = t
        /\ \A v \in Writer \ {w} : writer'[v] = writer[v]
    BY <1>1, <2>1, BecomeIs
  <2>5. ClaimsOK'
    <3>1. \A v \in Writer : writer'[v].claims = writer[v].claims
      BY <2>3, <2>4
    <3> QED BY <2>1, <3>1, ClaimsUnchanged DEF Ledgers
  <2>6. ReservedOK'
    <3>1. /\ writer'[w].promised = p
          /\ \A v \in Writer \ {w} : writer'[v].promised = writer[v].promised
      BY <2>3, <2>4
    <3> QED BY <2>1, <2>2, <3>1, ReservedGrows DEF Ledgers
  <2> QED BY <2>5, <2>6 DEF Ledgers
<1>5. CASE PushDecline(w)
  <2>1. /\ Become(w, Idle) /\ s.pc = "reserve" /\ pending' = pending /\ reserved' = reserved
    BY <1>5 DEF PushDecline, indexVars, At
  <2>2. s.claims = <<>> /\ s.promised = 0
    BY <1>1, <2>1, NoPromise DEF WriterOK
  <2> QED BY <1>1, <2>1, <2>2, IdleHoldsNothing, LedgersUnchanged
<1>6. CASE PushCommit(w)
  <2> DEFINE root == s.root
             t == [s EXCEPT !.pc = "fail", !.promised = 0]
  <2>1. PICK fits \in BOOLEAN :
            /\ CommitHosted(root, SetSize(root), ChunksOf(root), s.claims, fits)
            /\ Become(w, IF fits THEN Idle ELSE t)
    BY <1>6 DEF PushCommit
  <2>2. s.promised = SetSize(root)
    BY <1>1, <1>6 DEF PushCommit, At, WriterOK
  <2>3. /\ reserved' = Unpromised(s.promised)
        /\ pending' = IF fits THEN Released(s.claims) ELSE pending
    BY <2>1, <2>2 DEF CommitHosted
  <2>4. t.claims = s.claims /\ t.promised = 0
    BY <1>1 DEF WriterState
  <2> HIDE DEF t
  <2>5. /\ writer'[w] = IF fits THEN Idle ELSE t
        /\ \A v \in Writer \ {w} : writer'[v] = writer[v]
    BY <1>1, <2>1, BecomeIs
  <2>6. ClaimsOK'
    <3>1. CASE fits
      <4>1. /\ writer'[w].claims = <<>>
            /\ \A v \in Writer \ {w} : writer'[v].claims = writer[v].claims
        BY <2>5, <3>1, IdleHoldsNothing
      <4> QED BY <1>1, <2>3, <3>1, <4>1, ClaimsReleased DEF Ledgers
    <3>2. CASE ~ fits
      <4>1. \A v \in Writer : writer'[v].claims = writer[v].claims
        BY <2>4, <2>5, <3>2
      <4> QED BY <2>3, <3>2, <4>1, ClaimsUnchanged DEF Ledgers
    <3> QED BY <3>1, <3>2
  <2>7. ReservedOK'
    <3>1. /\ writer'[w].promised = 0
          /\ \A v \in Writer \ {w} : writer'[v].promised = writer[v].promised
      BY <2>4, <2>5, IdleHoldsNothing
    <3> QED BY <1>1, <2>3, <3>1, ReservedDrops DEF Ledgers
  <2> QED BY <2>6, <2>7 DEF Ledgers
<1>7. CASE PushRelease(w)
  <2>1. /\ Become(w, Idle) /\ s.pc = "release"
        /\ pending' = pending /\ reserved' = Unpromised(s.promised)
    BY <1>7 DEF PushRelease, Release, At
  <2>2. s.claims = <<>>
    BY <1>1, <2>1 DEF WriterOK
  <2>3. /\ writer'[w] = Idle
        /\ \A v \in Writer \ {w} : writer'[v] = writer[v]
    BY <1>1, <2>1, BecomeIs
  <2>4. ClaimsOK'
    <3>1. \A v \in Writer : writer'[v].claims = writer[v].claims
      BY <2>2, <2>3, IdleHoldsNothing
    <3> QED BY <2>1, <3>1, ClaimsUnchanged DEF Ledgers
  <2>5. ReservedOK'
    <3>1. /\ writer'[w].promised = 0
          /\ \A v \in Writer \ {w} : writer'[v].promised = writer[v].promised
      BY <2>3, IdleHoldsNothing
    <3> QED BY <1>1, <2>1, <3>1, ReservedDrops DEF Ledgers
  <2> QED BY <2>4, <2>5 DEF Ledgers
<1> QED BY <1>2, <1>3, <1>4, <1>5, <1>6, <1>7

(* PutStream keeps the ledgers.                                            *)
LEMMA PublishLedgers ==
    ASSUME Inv, Ledgers, NEW w \in Writer, NEW r \in Blob,
           PublishStart(w, r) \/ PublishRecord(w)
    PROVE  Ledgers'
<1> DEFINE s == writer[w]
<1>1. WritersOK /\ WriterOK(s) /\ s \in WriterState
  BY DEF Inv, WritersOK
<1>2. CASE PublishStart(w, r)
  <2> DEFINE todo == Append(ChunksOf(r), r)
             t == [Idle EXCEPT !.kind = "publish", !.root = r, !.pc = "next", !.todo = todo]
  <2>1. Become(w, t) /\ s.pc = "idle" /\ pending' = pending /\ reserved' = reserved
    BY <1>2 DEF PublishStart, indexVars, At
  <2>2. s = Idle
    BY <1>1, <2>1 DEF WriterOK
  <2> HIDE DEF todo
  <2>3. t.claims = Idle.claims /\ t.promised = Idle.promised
    BY DEF Idle
  <2> HIDE DEF t
  <2> QED BY <1>1, <2>1, <2>2, <2>3, LedgersUnchanged
<1>3. CASE PublishRecord(w)
  <2>1. /\ Become(w, Idle) /\ s.kind = "publish"
        /\ pending' = Released(s.claims) /\ reserved' = reserved
    BY <1>3 DEF PublishRecord, MarkOwned, At
  <2>2. s.promised = 0
    BY <1>1, <2>1, NoPromise
  <2> QED BY <1>1, <2>1, <2>2, IdleHoldsNothing, LedgersReleased
<1> QED BY <1>2, <1>3

(* The steps that the writers share keep the ledgers.                      *)
LEMMA SharedLedgers ==
    ASSUME Inv, Ledgers, NEW w \in Writer,
           \/ ClaimNext(w) \/ PutNext(w) \/ PutFails(w) \/ TransferFails(w) \/ RollBack(w)
    PROVE  Ledgers'
<1> DEFINE s == writer[w]
<1>1. /\ WritersOK /\ WriterOK(s) /\ s \in WriterState /\ s.todo \in Seq(Blob)
      /\ s.promised \in Nat /\ pending \in [Blob -> Nat]
  BY DEF Inv, WritersOK, WriterState, IndexOK, IndexTypeOK
<1>2. CASE ClaimNext(w)
  <2> DEFINE h == Head(s.todo)
             claims == Append(s.claims, h)
             t == [s EXCEPT !.pc = "put", !.claims = claims]
  <2>1. s.todo # <<>> /\ Claim(h) /\ Become(w, t) /\ reserved' = reserved
    BY <1>1, <1>2 DEF ClaimNext, Claim, WriterState
  <2>2. h \in Blob
    BY <1>1, <2>1, RangeTail
  <2> HIDE DEF h, claims
  <2>3. t.claims = claims /\ t.promised = s.promised
    BY <1>1 DEF WriterState
  <2> HIDE DEF t
  <2>4. /\ writer'[w] = t
        /\ \A v \in Writer \ {w} : writer'[v] = writer[v]
    BY <1>1, <2>1, BecomeIs
  <2>5. ClaimsOK'
    <3>1. /\ writer'[w].claims = Append(writer[w].claims, h)
          /\ \A v \in Writer \ {w} : writer'[v].claims = writer[v].claims
      BY <2>3, <2>4 DEF claims
    <3> QED BY <1>1, <2>1, <2>2, <3>1, ClaimsGrow DEF Ledgers
  <2>6. ReservedOK'
    <3>1. \A v \in Writer : writer'[v].promised = writer[v].promised
      BY <2>3, <2>4
    <3> QED BY <2>1, <3>1, ReservedUnchanged DEF Ledgers
  <2> QED BY <2>5, <2>6 DEF Ledgers
<1>3. ASSUME NEW todo, NEW t, t = [s EXCEPT !.pc = "next", !.todo = todo], Become(w, t),
             pending' = pending, reserved' = reserved
      PROVE  Ledgers'
  <2>1. t.claims = s.claims /\ t.promised = s.promised
    BY <1>1, <1>3 DEF WriterState
  <2> QED BY <1>1, <1>3, <2>1, LedgersUnchanged
<1>4. ASSUME NEW t, t = [s EXCEPT !.pc = "fail"], Become(w, t),
             pending' = pending, reserved' = reserved
      PROVE  Ledgers'
  <2>1. t.claims = s.claims /\ t.promised = s.promised
    BY <1>1, <1>4 DEF WriterState
  <2> QED BY <1>1, <1>4, <2>1, LedgersUnchanged
<1>5. CASE PutNext(w)
  <2>1. /\ Become(w, [s EXCEPT !.pc = "next", !.todo = Tail(s.todo)])
        /\ pending' = pending /\ reserved' = reserved
    BY <1>1, <1>5 DEF PutNext, Put, WriterState
  <2> QED BY <1>3, <2>1
<1>6. CASE PutFails(w)
  <2>1. /\ pending' = pending /\ reserved' = reserved
        /\ \/ Become(w, [s EXCEPT !.pc = "next", !.todo = Tail(s.todo)])
           \/ Become(w, [s EXCEPT !.pc = "fail"])
    BY <1>1, <1>6 DEF PutFails, indexVars, WriterState
  <2> QED BY <1>3, <1>4, <2>1
<1>7. CASE TransferFails(w)
  <2>1. /\ Become(w, [s EXCEPT !.pc = "fail"])
        /\ pending' = pending /\ reserved' = reserved
    BY <1>7 DEF TransferFails, indexVars
  <2> QED BY <1>4, <2>1
<1>8. CASE RollBack(w)
  <2> DEFINE t == [s EXCEPT !.pc = "release", !.claims = <<>>, !.todo = <<>>]
  <2>1. /\ Become(w, IF s.promised > 0 THEN t ELSE Idle)
        /\ pending' = Released(s.claims) /\ reserved' = reserved
    BY <1>8 DEF RollBack, Discard
  <2>2. t.claims = <<>> /\ t.promised = s.promised
    BY <1>1 DEF WriterState
  <2> HIDE DEF t
  <2>3. CASE s.promised > 0
    BY <1>1, <2>1, <2>2, <2>3, LedgersReleased
  <2>4. CASE ~ (s.promised > 0)
    <3>1. s.promised = 0
      BY <1>1, <2>4
    <3> QED BY <1>1, <2>1, <2>4, <3>1, IdleHoldsNothing, LedgersReleased
  <2> QED BY <2>3, <2>4
<1> QED BY <1>2, <1>5, <1>6, <1>7, <1>8

(* FetchStream keeps the ledgers.                                          *)
LEMMA FetchLedgers ==
    ASSUME Inv, Ledgers, NEW w \in Writer, NEW r \in Blob,
           \/ FetchRemote(w, r) \/ FetchAdmit(w) \/ FetchRecord(w)
           \/ FetchChunk(w) \/ FetchClose(w)
    PROVE  Ledgers'
<1> DEFINE s == writer[w]
<1>1. WritersOK /\ WriterOK(s) /\ s \in WriterState
  BY DEF Inv, WritersOK
<1>2. CASE FetchRemote(w, r)
  <2> DEFINE t == [Idle EXCEPT !.kind = "fetch", !.root = r, !.pc = "admit"]
  <2>1. Become(w, t) /\ s.pc = "idle" /\ pending' = pending /\ reserved' = reserved
    BY <1>2 DEF FetchRemote, indexVars, At
  <2>2. s = Idle
    BY <1>1, <2>1 DEF WriterOK
  <2>3. t.claims = Idle.claims /\ t.promised = Idle.promised
    BY DEF Idle
  <2> HIDE DEF t
  <2> QED BY <1>1, <2>1, <2>2, <2>3, LedgersUnchanged
<1>3. CASE FetchAdmit(w)
  <2> DEFINE todo == <<s.root>>
             t == [s EXCEPT !.pc = "next", !.todo = todo]
  <2>1. /\ s.pc = "admit" /\ s.kind = "fetch" /\ pending' = pending /\ reserved' = reserved
        /\ Become(w, t) \/ Become(w, Idle)
    BY <1>3 DEF FetchAdmit, Admit, At
  <2>2. s.claims = <<>> /\ s.promised = 0
    BY <1>1, <2>1, NoPromise DEF WriterOK
  <2> HIDE DEF todo
  <2>3. t.claims = s.claims /\ t.promised = s.promised
    BY <1>1 DEF WriterState
  <2> HIDE DEF t
  <2> QED BY <1>1, <2>1, <2>2, <2>3, IdleHoldsNothing, LedgersUnchanged
<1>4. CASE FetchRecord(w)
  <2> DEFINE todo == ChunksOf(s.root)
             t == [s EXCEPT !.pc = "chunks", !.claims = <<>>, !.todo = todo]
  <2>1. /\ s.kind = "fetch" /\ pending' = Released(s.claims) /\ reserved' = reserved
        /\ Become(w, Idle) \/ Become(w, t)
    BY <1>4 DEF FetchRecord, AddHosted, At
  <2>2. s.promised = 0
    BY <1>1, <2>1, NoPromise
  <2> HIDE DEF todo
  <2>3. t.claims = <<>> /\ t.promised = s.promised
    BY <1>1 DEF WriterState
  <2> HIDE DEF t
  <2> QED BY <1>1, <2>1, <2>2, <2>3, IdleHoldsNothing, LedgersReleased
<1>5. CASE FetchChunk(w)
  <2> DEFINE todo == Tail(s.todo)
             t == [s EXCEPT !.todo = todo]
  <2>1. pending' = pending /\ reserved' = reserved /\ Become(w, t)
    BY <1>1, <1>5 DEF FetchChunk, Put, indexVars, WriterState
  <2> HIDE DEF todo
  <2>2. t.claims = s.claims /\ t.promised = s.promised
    BY <1>1 DEF WriterState
  <2> HIDE DEF t
  <2> QED BY <1>1, <2>1, <2>2, LedgersUnchanged
<1>6. CASE FetchClose(w)
  <2>1. /\ Become(w, Idle) /\ s.pc = "chunks" /\ pending' = pending /\ reserved' = reserved
    BY <1>6 DEF FetchClose, indexVars, At
  <2>2. s.claims = <<>> /\ s.promised = 0
    BY <1>1, <2>1, NoPromise DEF WriterOK
  <2> QED BY <1>1, <2>1, <2>2, IdleHoldsNothing, LedgersUnchanged
<1> QED BY <1>2, <1>3, <1>4, <1>5, <1>6

(* Every step keeps the ledgers.                                           *)
LEMMA NextLedgers == Inv /\ DownOK /\ Ledgers /\ [Next]_vars => Ledgers'
<1> SUFFICES ASSUME Inv, DownOK, Ledgers, [Next]_vars PROVE Ledgers'
  OBVIOUS
<1>1. ASSUME NEW w \in Writer, WriterStep(w) PROVE Ledgers'
  <2>1. writer[w].pc # "idle"
    BY <1>1 DEF WriterStep, PushHave, PushAccept, PushDecline, PushCommit, PushRelease,
       PublishRecord, ClaimNext, PutNext, PutFails, TransferFails, RollBack, FetchAdmit,
       FetchRecord, FetchChunk, FetchClose, At
  <2>2. writer[w].root \in Blob
    BY <2>1 DEF Inv, WritersOK, WriterOK
  <2> QED BY <1>1, <2>2, PushLedgers, PublishLedgers, SharedLedgers, FetchLedgers DEF WriterStep
<1>2. ASSUME NEW w \in Writer, Request(w) PROVE Ledgers'
  BY <1>2, ServiceAssumption, PushLedgers, PublishLedgers, FetchLedgers DEF Request
<1>3. ASSUME writer' = writer, pending' = pending, reserved' = reserved PROVE Ledgers'
  <2>1. \A v \in Writer : /\ writer'[v].claims = writer[v].claims
                           /\ writer'[v].promised = writer[v].promised
    BY <1>3
  <2> QED BY <1>3, <2>1, ClaimsUnchanged, ReservedUnchanged DEF Ledgers
<1>4. ASSUME NEW h \in Blob, ServeBlob(h) PROVE Ledgers'
  BY <1>3, <1>4 DEF ServeBlob, TouchBlob, TouchSets
<1>5. CASE FlushIndex
  BY <1>3, <1>5 DEF FlushIndex, Flush
<1>6. CASE Tick
  BY <1>3, <1>6 DEF Tick
<1>7. CASE UNCHANGED vars
  BY <1>3, <1>7 DEF vars, indexVars
<1>8. CASE Crash \/ Start
  <2>1. /\ \A w \in Writer : writer'[w] = Idle
        /\ pending' = [h \in Blob |-> 0] /\ reserved' = 0
    BY <1>8 DEF Crash, LoseMemory, Start, LoadContentIndex, DownOK
  <2> QED BY <2>1, LedgersEmptied
<1>9. ASSUME NEW h \in Blob, StoreUnindexed(h) PROVE Ledgers'
  BY <1>3, <1>9 DEF StoreUnindexed, Put
<1> QED BY <1>1, <1>2, <1>4, <1>5, <1>6, <1>7, <1>8, <1>9 DEF Next

(* The ledgers agree throughout.                                           *)
LEMMA LedgersInvariance == Spec => [](Inv /\ DownOK /\ Ledgers)
<1>1. Init => DownOK
  BY DEF Init, DownOK
<1>2. Init => Ledgers
  BY LedgersEmpty DEF Init
<1> QED BY <1>1, <1>2, InitInv, NextInv, NextDownOK, NextLedgers, PTL DEF Spec

(* The reverse map, the claim counts and the reserved bytes always agree   *)
(* with the sets, handles and promises they summarise: for any number of   *)
(* concurrent pushes, publishes and fetches, failures and restarts.        *)
THEOREM AccountingHolds == Spec => []Accounting
<1>1. Inv /\ DownOK /\ Ledgers => Accounting
  BY DEF Inv, IndexOK, Mirrors, Ledgers, ClaimsOK, ReservedOK, Accounting, RefsExact,
     ClaimsCounted, ReservationsCounted
<1> QED BY <1>1, LedgersInvariance, PTL

----------------------------------------------------------------------------
(* Durability: what a node publishes it keeps.  Owned sets stay in the     *)
(* index and in index.json, and every blob of theirs stays on disk,        *)
(* through failures, evictions, crashes and restarts.                      *)

(* What the index file knows of owned sets the memory knows too, and if    *)
(* every write succeeds the file lacks none.                               *)
OwnedSaved ==
    /\ OwnedIn(file) \subseteq OwnedIn(sets)
    /\ IndexMayFail \/ OwnedIn(sets) \subseteq OwnedIn(file)

(* The owned sets of an index have all their chunks, and these are in the  *)
(* directory d.                                                            *)
Whole(index, d) ==
    \A r \in OwnedIn(index) :
        index[r].chunks = ChunksOf(r) /\ Members(r, ChunksOf(r)) \subseteq d

(* The owned sets of two indexes are the same ones. *)
SameOwned(new, old) ==
    /\ OwnedIn(new) = OwnedIn(old)
    /\ \A r \in OwnedIn(old) : new[r].chunks = old[r].chunks

(* A call that neither adds nor loses an owned set, in memory or on disk.  *)
StaysOwned == SameOwned(sets', sets) /\ (file' = file \/ SameOwned(file', sets))

----------------------------------------------------------------------------
(* What a deletion spares                                                  *)

(* Discard deletes no blob of a set in the index.                          *)
LEMMA UnwantedSpares ==
    ASSUME IndexOK, NEW hashes, NEW r \in DOMAIN sets,
           NEW h \in Blob, h \in Members(r, sets[r].chunks)
    PROVE  h \notin Unwanted(hashes)
<1>1. r \in blobs[h]
  BY DEF IndexOK, Mirrors
<1> QED BY <1>1 DEF Unwanted

(* An eviction deletes no blob of a set that it leaves.                    *)
LEMMA EvictedSpares ==
    ASSUME IndexOK, NEW V, NEW r \in DOMAIN sets \ V,
           NEW h \in Blob, h \in Members(r, sets[r].chunks)
    PROVE  h \notin Evicted(V)
<1>1. r \in blobs[h]
  BY DEF IndexOK, Mirrors
<1>2. r \in RefsWithout(V)[h]
  BY <1>1 DEF RefsWithout
<1> QED BY <1>2 DEF Evicted

(* A blob in somebody's handle has a claim on it.                          *)
LEMMA ClaimedPending ==
    ASSUME ClaimsOK, NEW w \in Writer, NEW h \in Blob, h \in Range(writer[w].claims)
    PROVE  pending[h] # 0
<1>1. PICK i \in DOMAIN writer[w].claims : writer[w].claims[i] = h
  BY DEF Range
<1>2. <<w, i>> \in Claimants(h)
  BY <1>1 DEF Claimants
<1> QED BY <1>2, FS_EmptySet DEF ClaimsOK

(* And still has it after a step, if it stays in the handle.               *)
LEMMA StillClaimedPending ==
    ASSUME ClaimsOK', NEW w \in Writer, NEW h \in Blob, h \in Range(writer'[w].claims)
    PROVE  pending'[h] # 0
<1>1. PICK i \in DOMAIN writer'[w].claims : writer'[w].claims[i] = h
  BY DEF Range
<1>2. <<w, i>> \in Claimants(h)'
  BY <1>1 DEF Claimants
<1>3. IsFiniteSet(Claimants(h)') /\ pending'[h] = Cardinality(Claimants(h)')
  BY DEF ClaimsOK
<1> QED BY <1>2, <1>3, FS_EmptySet

----------------------------------------------------------------------------
(* Owned sets and the index                                                *)

(* A call that changes neither the index nor its file.                     *)
LEMMA UntouchedStaysOwned ==
    ASSUME sets' = sets, file' = file
    PROVE  StaysOwned
BY DEF StaysOwned, SameOwned

(* Touching sets.                                                          *)
LEMMA TouchStaysOwned ==
    ASSUME IndexOK, NEW R, TouchSets(R)
    PROVE  StaysOwned
<1>1. now \in Nat /\ IsIndex(sets)
  BY DEF IndexOK, IndexTypeOK
<1>2. sets' = Touched(sets, R) /\ file' = file
  BY DEF TouchSets
<1>3. /\ DOMAIN sets' = DOMAIN sets
      /\ \A r \in DOMAIN sets : sets'[r].owned = sets[r].owned /\ sets'[r].chunks = sets[r].chunks
  BY <1>1, <1>2, TouchedOK
<1> QED BY <1>2, <1>3 DEF StaysOwned, SameOwned, OwnedIn

(* Flushing.                                                               *)
LEMMA FlushStaysOwned ==
    ASSUME Flush
    PROVE  StaysOwned
BY DEF Flush, Save, Write, StaysOwned, SameOwned, OwnedIn

(* An eviction's new index has the same owned sets.                        *)
LEMMA SetsWithoutOwned ==
    ASSUME IndexOK, NEW V, V \subseteq HostedSets
    PROVE  SameOwned(SetsWithout(V), sets)
<1>1. /\ DOMAIN SetsWithout(V) = DOMAIN sets \ V
      /\ \A r \in DOMAIN sets \ V : SetsWithout(V)[r] = sets[r]
  BY EvictOK DEF IndexOK
<1> QED BY <1>1 DEF SameOwned, OwnedIn, HostedSets

(* addHostedLocked's new index has the owned sets of the one it starts     *)
(* from.                                                                   *)
LEMMA AddHostedToOwned ==
    ASSUME now \in Nat, NEW index, IsIndex(index), NEW refs, Mirrors(refs, index),
           NEW root \in Blob, NEW size \in Nat,
           AddHostedTo(index, refs, root, size, ChunksOf(root))
    PROVE  SameOwned(sets', index)
<1>1. /\ DOMAIN sets' = DOMAIN index \cup {root}
      /\ \A r \in DOMAIN index : sets'[r].owned = index[r].owned /\ sets'[r].chunks = index[r].chunks
      /\ root \notin DOMAIN index => ~ sets'[root].owned
  BY AddHostedToOK
<1> QED BY <1>1 DEF SameOwned, OwnedIn

(* AddHosted.                                                              *)
LEMMA AddHostedStaysOwned ==
    ASSUME IndexOK, NEW root \in Blob, NEW size \in Nat, NEW hashes,
           AddHosted(root, size, ChunksOf(root), hashes)
    PROVE  StaysOwned
<1>1. now \in Nat /\ IsIndex(sets) /\ Mirrors(blobs, sets)
  BY DEF IndexOK, IndexTypeOK
<1>2. AddHostedTo(sets, blobs, root, size, ChunksOf(root)) /\ (file' = file \/ file' = sets')
  BY DEF AddHosted, Save, Write
<1>3. SameOwned(sets', sets)
  BY <1>1, <1>2, AddHostedToOwned
<1> QED BY <1>2, <1>3 DEF StaysOwned

(* Admit.                                                                  *)
LEMMA AdmitStaysOwned ==
    ASSUME IndexOK, NEW size, NEW fits, Admit(size, fits)
    PROVE  StaysOwned
<1>1. PICK V \in EvictionPasses(size, reserved) : sets' = SetsWithout(V) /\ SaveEvicted(V)
  BY DEF Admit
<1>2. V \subseteq HostedSets
  BY VictimsHosted
<1>3. SameOwned(sets', sets)
  BY <1>1, <1>2, SetsWithoutOwned
<1>4. file' = file \/ file' = sets'
  BY <1>1 DEF SaveEvicted, Save, Write
<1> QED BY <1>3, <1>4 DEF StaysOwned

(* CommitHosted.                                                           *)
LEMMA CommitStaysOwned ==
    ASSUME IndexOK, NEW root \in Blob, NEW size \in Nat, NEW hashes,
           NEW fits, CommitHosted(root, size, ChunksOf(root), hashes, fits)
    PROVE  StaysOwned
<1>1. now \in Nat /\ IsIndex(sets) /\ Mirrors(blobs, sets)
  BY DEF IndexOK, IndexTypeOK
<1>2. PICK V \in EvictionPasses(size, Unpromised(size)) :
          /\ \/ AddHostedTo(SetsWithout(V), RefsWithout(V), root, size, ChunksOf(root))
             \/ sets' = SetsWithout(V)
          /\ file' = file \/ file' = SetsWithout(V) \/ file' = sets'
  BY DEF CommitHosted, SaveCommitted, SaveEvicted, Save, Write
<1>3. V \subseteq HostedSets
  BY VictimsHosted
<1>4. SameOwned(SetsWithout(V), sets)
  BY <1>3, SetsWithoutOwned
<1>5. IsIndex(SetsWithout(V)) /\ Mirrors(RefsWithout(V), SetsWithout(V))
  BY <1>1, EvictOK
<1>6. SameOwned(sets', sets)
  <2>1. CASE sets' = SetsWithout(V)
    BY <1>4, <2>1
  <2>2. CASE AddHostedTo(SetsWithout(V), RefsWithout(V), root, size, ChunksOf(root))
    <3>1. SameOwned(sets', SetsWithout(V))
      BY <1>1, <1>5, <2>2, AddHostedToOwned
    <3> QED BY <1>4, <3>1 DEF SameOwned
  <2> QED BY <1>2, <2>1, <2>2
<1> QED BY <1>2, <1>4, <1>6 DEF StaysOwned

----------------------------------------------------------------------------
(* The invariant                                                           *)

(* A push or publish in state s has written to d every blob it claimed,    *)
(* but for the one it is about to write.                                   *)
Written(s, d) ==
    s.kind \in {"push", "publish"} =>
        /\ s.pc = "next" => Range(s.claims) \subseteq d
        /\ s.pc = "put" => Range(s.claims) \subseteq d \cup {Head(s.todo)}

AllWritten == \A w \in Writer : Written(writer[w], disk)

(* The inductive invariant for OwnedComplete: an owned set is on disk      *)
(* because its publisher claimed and wrote each blob, and from then on     *)
(* because the index in memory references them.  That one is ahead of the  *)
(* file when a write has failed, so both are said to be whole.             *)
DurableInv ==
    /\ up => OwnedSaved
    /\ Whole(file, disk) /\ Whole(sets, disk)
    /\ AllWritten

(* What every step does.                                                   *)
DurableStep == DurableInv' /\ OwnedKept

(* This step deletes no blob of an owned set, nor one that a writer claims *)
(* before and after it.                                                    *)
Spares ==
    \A h \in disk \ disk' :
        /\ \A r \in OwnedIn(sets) : h \notin Members(r, sets[r].chunks)
        /\ \A w \in Writer : h \notin Range(writer[w].claims) \cap Range(writer'[w].claims)

(* Owned sets that stay in the index or come from it are whole if no step  *)
(* took their blobs.                                                       *)
LEMMA StillWhole ==
    ASSUME DurableInv, OwnedSaved, Spares, NEW index, index = file \/ SameOwned(index, sets)
    PROVE  Whole(index, disk')
<1> SUFFICES ASSUME NEW r \in OwnedIn(index)
             PROVE  index[r].chunks = ChunksOf(r) /\ Members(r, ChunksOf(r)) \subseteq disk'
  BY DEF Whole
<1>1. r \in OwnedIn(sets)
  BY DEF SameOwned, OwnedSaved
<1>2. sets[r].chunks = ChunksOf(r) /\ Members(r, ChunksOf(r)) \subseteq disk
  BY <1>1 DEF DurableInv, Whole
<1>3. index[r].chunks = ChunksOf(r)
  BY <1>1, <1>2 DEF DurableInv, Whole, SameOwned
<1> QED BY <1>1, <1>2, <1>3 DEF Spares

(* What a call that adds and loses no owned set does to the owned ones.    *)
LEMMA StaysKept ==
    ASSUME OwnedSaved, StaysOwned
    PROVE  OwnedSaved' /\ OwnedKept
BY DEF OwnedSaved, StaysOwned, SameOwned, OwnedKept

(* A step of one writer that keeps the owned sets and spares the blobs.    *)
LEMMA WriterKeeps ==
    ASSUME Inv, DurableInv, OwnedSaved, StaysOwned, Spares, NEW w \in Writer,
           \A v \in Writer \ {w} : writer'[v] = writer[v],
           Written(writer'[w], disk')
    PROVE  DurableStep
<1>1. Whole(file', disk') /\ Whole(sets', disk')
  BY StillWhole DEF StaysOwned
<1>2. AllWritten'
  <2> SUFFICES ASSUME NEW v \in Writer PROVE Written(writer'[v], disk')
    BY DEF AllWritten
  <2>1. CASE v = w
    BY <2>1
  <2>2. CASE v # w
    <3>1. writer'[v] = writer[v] /\ Written(writer[v], disk)
      BY <2>2 DEF DurableInv, AllWritten
    <3>2. Range(writer[v].claims) \cap disk \subseteq disk'
      BY <3>1 DEF Spares
    <3> QED BY <3>1, <3>2 DEF Written
  <2> QED BY <2>1, <2>2
<1>3. OwnedSaved' /\ OwnedKept
  BY StaysKept
<1> QED BY <1>1, <1>2, <1>3 DEF DurableInv, DurableStep

(* A step that deletes nothing.                                            *)
LEMMA GrowthSpares ==
    ASSUME disk \subseteq disk' PROVE Spares
BY DEF Spares

(* A rollback.                                                             *)
LEMMA DiscardSpares ==
    ASSUME Inv, ClaimsOK', NEW hashes \in Seq(Blob), Discard(hashes)
    PROVE  Spares
<1> SUFFICES ASSUME NEW h \in disk \ disk'
             PROVE  /\ \A r \in OwnedIn(sets) : h \notin Members(r, sets[r].chunks)
                    /\ \A w \in Writer :
                          h \notin Range(writer[w].claims) \cap Range(writer'[w].claims)
  BY DEF Spares
<1>1. h \in Unwanted(hashes) /\ h \in Blob /\ pending' = Released(hashes)
  BY DEF Discard, Inv, IndexOK, IndexTypeOK
<1>2. pending'[h] = 0
  BY <1>1 DEF Unwanted
<1>3. \A r \in DOMAIN sets : h \notin Members(r, sets[r].chunks)
  BY <1>1, UnwantedSpares DEF Inv
<1>4. \A w \in Writer : h \notin Range(writer'[w].claims)
  BY <1>1, <1>2, StillClaimedPending
<1> QED BY <1>3, <1>4 DEF OwnedIn

(* An eviction.                                                            *)
LEMMA EvictionSpares ==
    ASSUME Inv, ClaimsOK, NEW V, V \subseteq HostedSets, disk \ disk' \subseteq Evicted(V)
    PROVE  Spares
<1> SUFFICES ASSUME NEW h \in disk \ disk'
             PROVE  /\ \A r \in OwnedIn(sets) : h \notin Members(r, sets[r].chunks)
                    /\ \A w \in Writer :
                          h \notin Range(writer[w].claims) \cap Range(writer'[w].claims)
  BY DEF Spares
<1>1. h \in Evicted(V) /\ h \in Blob
  BY DEF Inv, IndexOK, IndexTypeOK
<1>2. \A r \in DOMAIN sets \ V : h \notin Members(r, sets[r].chunks)
  BY <1>1, EvictedSpares DEF Inv
<1>3. OwnedIn(sets) \subseteq DOMAIN sets \ V
  BY DEF OwnedIn, HostedSets
<1>4. pending[h] = 0
  BY <1>1 DEF Evicted
<1>5. \A w \in Writer : h \notin Range(writer[w].claims)
  BY <1>1, <1>4, ClaimedPending
<1> QED BY <1>2, <1>3, <1>5

(* An idle writer, or one that has claimed nothing, has all it claimed on  *)
(* disk; so has one that has given up.                                     *)
LEMMA TriviallyWritten ==
    ASSUME NEW s, NEW d,
           \/ s = Idle \/ s.kind = "fetch" \/ s.pc \notin {"next", "put"}
           \/ s.pc = "next" /\ s.claims = <<>>
    PROVE  Written(s, d)
BY DEF Written, Idle, Range

----------------------------------------------------------------------------
(* The steps                                                               *)

(* handlePushStream.                                                       *)
LEMMA PushDurable ==
    ASSUME Inv, Ledgers, DurableInv, NEW w \in Writer, NEW r \in Blob,
           \/ PushOffer(w, r) \/ PushHave(w) \/ PushAccept(w)
           \/ PushDecline(w) \/ PushCommit(w) \/ PushRelease(w)
    PROVE  DurableStep
<1> DEFINE s == writer[w]
<1>1. /\ WritersOK /\ WriterOK(s) /\ s \in WriterState /\ s.promised \in Nat
      /\ IndexOK /\ ClaimsOK
  BY DEF Inv, WritersOK, WriterState, Ledgers
<1>2. OwnedSaved
  BY DEF DurableInv, PushOffer, PushHave, PushAccept, PushDecline, PushCommit, PushRelease, At
<1>3. ASSUME NEW t, Become(w, t), t = Idle \/ t.pc \notin {"next", "put"},
             disk' = disk, sets' = sets, file' = file
      PROVE  DurableStep
  <2>1. writer'[w] = t /\ \A v \in Writer \ {w} : writer'[v] = writer[v]
    BY <1>1, <1>3, BecomeIs
  <2>2. Written(writer'[w], disk')
    BY <1>3, <2>1, TriviallyWritten
  <2>3. StaysOwned /\ Spares
    BY <1>2, <1>3, UntouchedStaysOwned, GrowthSpares
  <2> QED BY <1>2, <2>1, <2>2, <2>3, WriterKeeps
<1>4. CASE PushOffer(w, r)
  <2> DEFINE place == IF r \in DOMAIN sets THEN "touch" ELSE "reserve"
             t == [Idle EXCEPT !.kind = "push", !.root = r, !.pc = place]
  <2>1. Become(w, t) /\ disk' = disk /\ sets' = sets /\ file' = file
    BY <1>4 DEF PushOffer, indexVars
  <2>2. place \in {"touch", "reserve"}
    OBVIOUS
  <2> HIDE DEF place
  <2>3. t.pc = place
    BY DEF Idle
  <2> HIDE DEF t
  <2> QED BY <1>3, <2>1, <2>2, <2>3
<1>5. CASE PushHave(w)
  <2>1. Become(w, Idle) /\ TouchSets({s.root}) /\ disk' = disk
    BY <1>5 DEF PushHave, Touch, TouchSets
  <2>2. writer'[w] = Idle /\ \A v \in Writer \ {w} : writer'[v] = writer[v]
    BY <1>1, <2>1, BecomeIs
  <2>3. StaysOwned /\ Spares
    BY <1>1, <1>2, <2>1, TouchStaysOwned, GrowthSpares
  <2>4. Written(writer'[w], disk')
    BY <2>2, TriviallyWritten
  <2> QED BY <1>2, <2>2, <2>3, <2>4, WriterKeeps
<1>6. CASE PushAccept(w)
  <2> DEFINE root == s.root
             todo == <<root>> \o ChunksOf(root)
             t == [s EXCEPT !.pc = "next", !.todo = todo, !.promised = SetSize(root)]
  <2>1. /\ Become(w, t) /\ s.pc = "reserve"
        /\ disk' = disk /\ sets' = sets /\ file' = file
    BY <1>6 DEF PushAccept, Reserve, At
  <2>2. s.claims = <<>>
    BY <1>1, <2>1 DEF WriterOK
  <2> HIDE DEF todo
  <2>3. t.pc = "next" /\ t.claims = <<>>
    BY <1>1, <2>2 DEF WriterState
  <2> HIDE DEF t
  <2>4. writer'[w] = t /\ \A v \in Writer \ {w} : writer'[v] = writer[v]
    BY <1>1, <2>1, BecomeIs
  <2>5. Written(writer'[w], disk')
    BY <2>3, <2>4, TriviallyWritten
  <2>6. StaysOwned /\ Spares
    BY <1>2, <2>1, UntouchedStaysOwned, GrowthSpares
  <2> QED BY <1>2, <2>4, <2>5, <2>6, WriterKeeps
<1>7. CASE PushDecline(w)
  <2>1. Become(w, Idle) /\ disk' = disk /\ sets' = sets /\ file' = file
    BY <1>7 DEF PushDecline, indexVars
  <2> QED BY <1>3, <2>1
<1>8. CASE PushCommit(w)
  <2> DEFINE root == s.root
             t == [s EXCEPT !.pc = "fail", !.promised = 0]
  <2>1. PICK fits \in BOOLEAN :
            /\ CommitHosted(root, SetSize(root), ChunksOf(root), s.claims, fits)
            /\ Become(w, IF fits THEN Idle ELSE t)
    BY <1>8 DEF PushCommit
  <2>2. root \in Blob /\ SetSize(root) \in Nat
    BY <1>1, <1>8, SetSizeType DEF PushCommit, At, WriterOK
  <2>3. StaysOwned
    BY <1>1, <1>2, <2>1, <2>2, CommitStaysOwned
  <2>4. Spares
    <3>1. PICK V \in EvictionPasses(SetSize(root), Unpromised(SetSize(root))) :
              disk' = disk \ Evicted(V)
      BY <2>1 DEF CommitHosted
    <3>2. V \subseteq HostedSets /\ disk \ disk' \subseteq Evicted(V)
      BY <3>1, VictimsHosted
    <3> QED BY <1>1, <3>2, EvictionSpares
  <2>5. t.pc = "fail"
    BY <1>1 DEF WriterState
  <2> HIDE DEF t
  <2>6. /\ writer'[w] = IF fits THEN Idle ELSE t
        /\ \A v \in Writer \ {w} : writer'[v] = writer[v]
    BY <1>1, <2>1, BecomeIs
  <2>7. Written(writer'[w], disk')
    BY <2>5, <2>6, TriviallyWritten
  <2> QED BY <1>2, <2>3, <2>4, <2>6, <2>7, WriterKeeps
<1>9. CASE PushRelease(w)
  <2>1. Become(w, Idle) /\ disk' = disk /\ sets' = sets /\ file' = file
    BY <1>9 DEF PushRelease, Release
  <2> QED BY <1>3, <2>1
<1> QED BY <1>4, <1>5, <1>6, <1>7, <1>8, <1>9

(* PutStream: recording a set whose blobs were all claimed and written.    *)
LEMMA PublishDurable ==
    ASSUME Inv, DurableInv, NEW w \in Writer, NEW r \in Blob,
           PublishStart(w, r) \/ PublishRecord(w)
    PROVE  DurableStep
<1> DEFINE s == writer[w]
<1>1. WritersOK /\ WriterOK(s) /\ s \in WriterState /\ IndexOK
  BY DEF Inv, WritersOK
<1>2. OwnedSaved
  BY DEF DurableInv, PublishStart, PublishRecord, At
<1>3. CASE PublishStart(w, r)
  <2> DEFINE todo == Append(ChunksOf(r), r)
             t == [Idle EXCEPT !.kind = "publish", !.root = r, !.pc = "next", !.todo = todo]
  <2>1. Become(w, t) /\ disk' = disk /\ sets' = sets /\ file' = file
    BY <1>3 DEF PublishStart, indexVars
  <2> HIDE DEF todo
  <2>2. t.pc = "next" /\ t.claims = <<>>
    BY DEF Idle
  <2> HIDE DEF t
  <2>3. writer'[w] = t /\ \A v \in Writer \ {w} : writer'[v] = writer[v]
    BY <1>1, <2>1, BecomeIs
  <2>4. Written(writer'[w], disk')
    BY <2>2, <2>3, TriviallyWritten
  <2>5. StaysOwned /\ Spares
    BY <1>2, <2>1, UntouchedStaysOwned, GrowthSpares
  <2> QED BY <1>2, <2>3, <2>4, <2>5, WriterKeeps
<1>4. CASE PublishRecord(w)
  <2> DEFINE root == s.root
  <2>1. /\ Become(w, Idle) /\ s.kind = "publish" /\ s.pc = "next" /\ s.todo = <<>>
        /\ MarkOwned(root, SetSize(root), ChunksOf(root), s.claims)
    <3>1. /\ Become(w, Idle)
          /\ MarkOwned(root, SetSize(root), ChunksOf(root), s.claims)
      BY <1>4 DEF PublishRecord
    <3>2. At(w, "publish", "next") /\ s.todo = <<>>
      BY <1>4 DEF PublishRecord
    <3> QED BY <3>1, <3>2 DEF At
  <2>2. disk' = disk /\ (file' = sets' \/ (IndexMayFail /\ file' = file))
    <3>1. disk' = disk
      BY <2>1 DEF MarkOwned
    <3>2. Save(sets')
      BY <2>1 DEF MarkOwned
    <3> QED BY <3>1, <3>2 DEF Save, Write
  <2>3. root \in Blob /\ SetSize(root) \in Nat /\ s.claims \in Seq(Blob)
    BY <1>1, <2>1, SetSizeType DEF WriterOK, WriterState
  <2>4. /\ DOMAIN sets' = DOMAIN sets \cup {root}
        /\ sets'[root].owned /\ sets'[root].chunks = ChunksOf(root)
        /\ \A q \in DOMAIN sets \ {root} : sets'[q] = sets[q]
    BY <1>1, <2>1, <2>3, MarkOwnedOK
  <2>5. Members(root, ChunksOf(root)) \subseteq disk
    <3>1. Members(root, ChunksOf(root)) \subseteq Range(s.claims)
      BY <1>1, <2>1 DEF WriterOK, Range
    <3>2. Range(s.claims) \subseteq disk
      BY <2>1 DEF DurableInv, AllWritten, Written
    <3> QED BY <3>1, <3>2
  <2>6. OwnedIn(sets') = OwnedIn(sets) \cup {root}
    <3>1. ASSUME NEW q, q # root PROVE q \in OwnedIn(sets') <=> q \in OwnedIn(sets)
      BY <2>4, <3>1 DEF OwnedIn
    <3>2. root \in OwnedIn(sets')
      BY <2>4 DEF OwnedIn
    <3> QED BY <3>1, <3>2
  <2>7. Whole(sets', disk)
    <3> SUFFICES ASSUME NEW q \in OwnedIn(sets')
                 PROVE  sets'[q].chunks = ChunksOf(q) /\ Members(q, ChunksOf(q)) \subseteq disk
      BY DEF Whole
    <3>1. CASE q = root
      BY <2>4, <2>5, <3>1
    <3>2. CASE q # root
      <4>1. q \in OwnedIn(sets) /\ sets'[q].chunks = sets[q].chunks
        BY <2>4, <2>6, <3>2 DEF OwnedIn
      <4> QED BY <4>1 DEF DurableInv, Whole
    <3> QED BY <3>1, <3>2
  <2>8. Whole(file', disk)
    BY <2>2, <2>7 DEF DurableInv
  <2>9. AllWritten'
    <3> SUFFICES ASSUME NEW v \in Writer PROVE Written(writer'[v], disk)
      BY <2>2 DEF AllWritten
    <3>1. writer'[w] = Idle /\ \A u \in Writer \ {w} : writer'[u] = writer[u]
      BY <1>1, <2>1, BecomeIs
    <3> QED BY <3>1, TriviallyWritten DEF DurableInv, AllWritten
  <2>10. OwnedSaved' /\ OwnedKept
    BY <1>2, <2>2, <2>6 DEF OwnedSaved, OwnedKept
  <2> QED BY <2>2, <2>7, <2>8, <2>9, <2>10 DEF DurableInv, DurableStep
<1> QED BY <1>3, <1>4

(* Claiming, writing and rolling back.                                     *)
LEMMA SharedDurable ==
    ASSUME Inv, Ledgers, Ledgers', DurableInv, NEW w \in Writer,
           \/ ClaimNext(w) \/ PutNext(w) \/ PutFails(w) \/ TransferFails(w) \/ RollBack(w)
    PROVE  DurableStep
<1> DEFINE s == writer[w]
<1>1. /\ WritersOK /\ WriterOK(s) /\ s \in WriterState /\ Written(s, disk)
      /\ s.claims \in Seq(Blob) /\ s.todo \in Seq(Blob)
  BY DEF Inv, WritersOK, WriterState, DurableInv, AllWritten
<1>2. OwnedSaved
  BY DEF DurableInv, ClaimNext, PutNext, PutFails, TransferFails, RollBack, At
<1>3. ASSUME NEW t, Become(w, t), disk \subseteq disk', sets' = sets, file' = file,
             Written(t, disk')
      PROVE  DurableStep
  <2>1. writer'[w] = t /\ \A v \in Writer \ {w} : writer'[v] = writer[v]
    BY <1>1, <1>3, BecomeIs
  <2>2. StaysOwned /\ Spares
    BY <1>2, <1>3, UntouchedStaysOwned, GrowthSpares
  <2> QED BY <1>2, <1>3, <2>1, <2>2, WriterKeeps
<1>4. CASE ClaimNext(w)
  <2> DEFINE h == Head(s.todo)
             claims == Append(s.claims, h)
             t == [s EXCEPT !.pc = "put", !.claims = claims]
  <2>1. /\ s.pc = "next" /\ s.todo # <<>> /\ Become(w, t)
        /\ disk' = disk /\ sets' = sets /\ file' = file
    BY <1>1, <1>4 DEF ClaimNext, Claim, WriterState
  <2>2. Range(claims) = Range(s.claims) \cup {h}
    BY <1>1, <2>1, RangeTail, RangeAppend
  <2> HIDE DEF claims
  <2>3. t.pc = "put" /\ t.claims = claims /\ t.kind = s.kind /\ t.todo = s.todo
    BY <1>1 DEF WriterState
  <2> HIDE DEF t
  <2>4. Written(t, disk)
    BY <1>1, <2>1, <2>2, <2>3 DEF Written
  <2> QED BY <1>3, <2>1, <2>4
<1>5. CASE PutNext(w)
  <2> DEFINE todo == Tail(s.todo)
             t == [s EXCEPT !.pc = "next", !.todo = todo]
  <2>1. /\ s.pc = "put" /\ Become(w, t)
        /\ disk' = disk \cup {Head(s.todo)} /\ sets' = sets /\ file' = file
    BY <1>1, <1>5 DEF PutNext, Put, WriterState
  <2> HIDE DEF todo
  <2>2. t.pc = "next" /\ t.claims = s.claims /\ t.kind = s.kind
    BY <1>1 DEF WriterState
  <2> HIDE DEF t
  <2>3. Written(t, disk')
    BY <1>1, <2>1, <2>2 DEF Written
  <2> QED BY <1>3, <2>1, <2>3
<1>6. ASSUME NEW t, t = [s EXCEPT !.pc = "fail"], Become(w, t), UNCHANGED indexVars
      PROVE  DurableStep
  <2>1. t.pc = "fail"
    BY <1>1, <1>6 DEF WriterState
  <2>2. Written(t, disk)
    BY <2>1, TriviallyWritten
  <2> QED BY <1>3, <1>6, <2>2 DEF indexVars
<1>7. CASE PutFails(w)
  <2> DEFINE todo == Tail(s.todo)
             t == [s EXCEPT !.pc = "next", !.todo = todo]
  <2>1. /\ UNCHANGED indexVars
        /\ \/ s.kind = "fetch" /\ Become(w, t)
           \/ Become(w, [s EXCEPT !.pc = "fail"])
    BY <1>1, <1>7 DEF PutFails, WriterState
  <2> HIDE DEF todo
  <2>2. CASE s.kind = "fetch" /\ Become(w, t)
    <3>1. t.kind = "fetch"
      BY <1>1, <2>2 DEF WriterState
    <3> HIDE DEF t
    <3>2. Written(t, disk)
      BY <3>1, TriviallyWritten
    <3> QED BY <1>3, <2>1, <2>2, <3>2 DEF indexVars
  <2> QED BY <1>6, <2>1, <2>2
<1>8. CASE TransferFails(w)
  BY <1>6, <1>8 DEF TransferFails
<1>9. CASE RollBack(w)
  <2> DEFINE t == [s EXCEPT !.pc = "release", !.claims = <<>>, !.todo = <<>>]
  <2>1. /\ Become(w, t) \/ Become(w, Idle)
        /\ Discard(s.claims) /\ sets' = sets /\ file' = file
    BY <1>9 DEF RollBack, Discard
  <2>2. StaysOwned
    BY <1>2, <2>1, UntouchedStaysOwned
  <2>3. Spares
    BY <1>1, <2>1, DiscardSpares DEF Ledgers
  <2>4. t.pc = "release"
    BY <1>1 DEF WriterState
  <2> HIDE DEF t
  <2>5. /\ writer'[w] \in {t, Idle}
        /\ \A v \in Writer \ {w} : writer'[v] = writer[v]
    BY <1>1, <2>1, BecomeIs
  <2>6. Written(writer'[w], disk')
    BY <2>4, <2>5, TriviallyWritten
  <2> QED BY <1>2, <2>2, <2>3, <2>5, <2>6, WriterKeeps
<1> QED BY <1>4, <1>5, <1>7, <1>8, <1>9

(* FetchStream.                                                            *)
LEMMA FetchDurable ==
    ASSUME Inv, Ledgers, DurableInv, NEW w \in Writer, NEW r \in Blob,
           \/ FetchRemote(w, r) \/ FetchAdmit(w) \/ FetchRecord(w)
           \/ FetchChunk(w) \/ FetchClose(w)
    PROVE  DurableStep
<1> DEFINE s == writer[w]
<1>1. WritersOK /\ WriterOK(s) /\ s \in WriterState /\ IndexOK /\ ClaimsOK
  BY DEF Inv, WritersOK, Ledgers
<1>2. OwnedSaved
  BY DEF DurableInv, FetchRemote, FetchAdmit, FetchRecord, FetchChunk, FetchClose, At
<1>3. ASSUME NEW t, Become(w, t), t = Idle \/ t.kind = "fetch", StaysOwned, Spares
      PROVE  DurableStep
  <2>1. writer'[w] = t /\ \A v \in Writer \ {w} : writer'[v] = writer[v]
    BY <1>1, <1>3, BecomeIs
  <2>2. Written(writer'[w], disk')
    BY <1>3, <2>1, TriviallyWritten
  <2> QED BY <1>2, <1>3, <2>1, <2>2, WriterKeeps
<1>4. ASSUME sets' = sets, file' = file, disk \subseteq disk' PROVE StaysOwned /\ Spares
  BY <1>2, <1>4, UntouchedStaysOwned, GrowthSpares
<1>5. CASE FetchRemote(w, r)
  <2> DEFINE t == [Idle EXCEPT !.kind = "fetch", !.root = r, !.pc = "admit"]
  <2>1. Become(w, t) /\ UNCHANGED indexVars
    BY <1>5 DEF FetchRemote
  <2>2. t.kind = "fetch"
    BY DEF Idle
  <2> HIDE DEF t
  <2> QED BY <1>3, <1>4, <2>1, <2>2 DEF indexVars
<1>6. CASE FetchAdmit(w)
  <2> DEFINE todo == <<s.root>>
             t == [s EXCEPT !.pc = "next", !.todo = todo]
  <2>1. PICK fits \in BOOLEAN :
            Admit(SetSize(s.root), fits) /\ Become(w, IF fits THEN t ELSE Idle)
    BY <1>6 DEF FetchAdmit
  <2> HIDE DEF todo
  <2>2. t.kind = "fetch"
    BY <1>1, <1>6 DEF FetchAdmit, At, WriterState
  <2> HIDE DEF t
  <2>3. StaysOwned
    BY <1>1, <1>2, <2>1, AdmitStaysOwned
  <2>4. PICK V \in EvictionPasses(SetSize(s.root), reserved) : disk' = disk \ Evicted(V)
    BY <2>1 DEF Admit
  <2>5. V \subseteq HostedSets /\ disk \ disk' \subseteq Evicted(V)
    BY <2>4, VictimsHosted
  <2>6. Spares
    BY <1>1, <2>5, EvictionSpares
  <2> QED BY <1>3, <2>1, <2>2, <2>3, <2>6
<1>7. CASE FetchRecord(w)
  <2> DEFINE root == s.root
             todo == ChunksOf(root)
             t == [s EXCEPT !.pc = "chunks", !.claims = <<>>, !.todo = todo]
  <2>1. /\ AddHosted(root, SetSize(root), ChunksOf(root), s.claims) /\ disk' = disk
        /\ Become(w, Idle) \/ Become(w, t)
        /\ s.pc = "next" /\ s.kind = "fetch"
    BY <1>7 DEF FetchRecord, AddHosted, At
  <2>2. root \in Blob /\ SetSize(root) \in Nat
    BY <1>1, <2>1, SetSizeType DEF WriterOK
  <2>3. StaysOwned /\ Spares
    BY <1>1, <1>2, <2>1, <2>2, AddHostedStaysOwned, GrowthSpares
  <2> HIDE DEF todo
  <2>4. t.kind = "fetch"
    BY <1>1, <2>1 DEF WriterState
  <2> HIDE DEF t
  <2> QED BY <1>3, <2>1, <2>3, <2>4
<1>8. CASE FetchChunk(w)
  <2> DEFINE todo == Tail(s.todo)
             t == [s EXCEPT !.todo = todo]
  <2>1. /\ Become(w, t) /\ s.kind = "fetch"
        /\ sets' = sets /\ file' = file /\ disk \subseteq disk'
    BY <1>1, <1>8 DEF FetchChunk, Put, indexVars, At, WriterState
  <2> HIDE DEF todo
  <2>2. t.kind = "fetch"
    BY <1>1, <2>1 DEF WriterState
  <2> HIDE DEF t
  <2> QED BY <1>3, <1>4, <2>1, <2>2
<1>9. CASE FetchClose(w)
  <2>1. Become(w, Idle) /\ UNCHANGED indexVars
    BY <1>9 DEF FetchClose
  <2> QED BY <1>3, <1>4, <2>1 DEF indexVars
<1> QED BY <1>5, <1>6, <1>7, <1>8, <1>9

(* A step that no writer takes.                                            *)
LEMMA OthersDurable ==
    ASSUME DurableInv, OwnedSaved, StaysOwned, disk' = disk, writer' = writer
    PROVE  DurableStep
<1>1. Whole(file', disk') /\ Whole(sets', disk')
  <2>1. Spares
    BY GrowthSpares
  <2> QED BY <2>1, StillWhole DEF StaysOwned
<1>2. AllWritten'
  BY DEF DurableInv, AllWritten
<1>3. OwnedSaved' /\ OwnedKept
  BY StaysKept
<1> QED BY <1>1, <1>2, <1>3 DEF DurableInv, DurableStep

(* A crash: what it deletes, wherever it strikes, is not the owner's.      *)
LEMMA CrashDurable ==
    ASSUME Inv, DurableInv, Crash
    PROVE  DurableStep
<1>1. up /\ up' = FALSE /\ OwnedSaved /\ IndexOK
  BY DEF Crash, DurableInv, Inv
<1> DEFINE Owners(h) == {r \in OwnedIn(sets) : h \in Members(r, sets[r].chunks)}
           LosesNothingOwned ==
               /\ \A h \in disk \ disk' : Owners(h) = {}
               /\ \/ file' = file
                  \/ \E V : V \subseteq HostedSets /\ file' = SetsWithout(V)
<1>2. LosesNothingOwned
  <2>1. CASE UNCHANGED <<disk, file>>
    BY <2>1
  <2>2. ASSUME NEW w \in Writer, DiesDiscarding(w) PROVE LosesNothingOwned
    <3>1. file' = file /\ disk \ disk' \subseteq Unwanted(writer[w].claims)
      BY <2>2 DEF DiesDiscarding
    <3>2. \A h \in disk \ disk' : h \in Blob
      BY DEF Inv, IndexOK, IndexTypeOK
    <3> QED BY <1>1, <3>1, <3>2, UnwantedSpares DEF OwnedIn
  <2>3. ASSUME NEW w \in Writer, DiesEvicting(w) PROVE LosesNothingOwned
    <3>1. PICK V \in PassesOf(w) :
              /\ disk \ disk' \subseteq Evicted(V)
              /\ file' = file \/ file' = SetsWithout(V)
      BY <2>3 DEF DiesEvicting
    <3>2. V \subseteq HostedSets
      BY <3>1, VictimsHosted DEF PassesOf
    <3>3. ASSUME NEW h \in disk \ disk', NEW r \in OwnedIn(sets),
                 h \in Members(r, sets[r].chunks)
          PROVE  FALSE
      <4>1. h \in Blob /\ r \in DOMAIN sets \ V
        BY <3>2 DEF Inv, IndexOK, IndexTypeOK, OwnedIn, HostedSets
      <4>2. h \notin Evicted(V)
        BY <1>1, <3>3, <4>1, EvictedSpares
      <4> QED BY <3>1, <4>2
    <3> QED BY <3>1, <3>2, <3>3
  <2> QED BY <2>1, <2>2, <2>3 DEF Crash
<1>3. file' = file \/ SameOwned(file', sets)
  BY <1>1, <1>2, SetsWithoutOwned
<1>4. Whole(file', disk')
  <2>1. ASSUME NEW r \in OwnedIn(file')
        PROVE  file'[r].chunks = ChunksOf(r) /\ Members(r, ChunksOf(r)) \subseteq disk'
    <3>1. r \in OwnedIn(sets)
      BY <1>1, <1>3 DEF OwnedSaved, SameOwned
    <3>2. sets[r].chunks = ChunksOf(r) /\ Members(r, ChunksOf(r)) \subseteq disk
      BY <3>1 DEF DurableInv, Whole
    <3>3. file'[r].chunks = ChunksOf(r)
      BY <1>3, <3>1, <3>2 DEF DurableInv, Whole, SameOwned
    <3>4. \A h \in disk \ disk' : h \notin Members(r, ChunksOf(r))
      BY <1>2, <3>1, <3>2
    <3> QED BY <3>2, <3>3, <3>4
  <2> QED BY <2>1 DEF Whole
<1>5. OwnedIn(sets') = {}
  BY DEF Crash, LoseMemory, OwnedIn, EmptyIndex
<1>6. AllWritten'
  BY TriviallyWritten DEF Crash, AllWritten
<1>7. OwnedKept
  BY <1>1, <1>3, <1>5 DEF OwnedSaved, OwnedKept, SameOwned
<1> QED BY <1>1, <1>4, <1>5, <1>6, <1>7 DEF DurableInv, DurableStep, Whole

(* A restart: every owned set has its root on disk, so it is kept; what is *)
(* adopted is not owned.                                                   *)
LEMMA StartDurable ==
    ASSUME Inv, DownOK, DurableInv, Start
    PROVE  DurableStep
<1>1. /\ ~ up /\ up' = TRUE /\ writer' = writer /\ disk' = disk /\ file' = sets'
      /\ LoadContentIndex
  BY DEF Start, LoadContentIndex, Write
<1>2. SameOwned(sets', file)
  <2> DEFINE kept == {r \in DOMAIN file : r \in disk}
  <2>1. /\ kept \subseteq DOMAIN sets'
        /\ \A r \in kept : sets'[r] = file[r]
        /\ \A r \in DOMAIN sets' \ kept : ~ sets'[r].owned
    BY <1>1 DEF LoadContentIndex, Adopted
  <2>2. OwnedIn(file) \subseteq kept
    BY DEF DurableInv, Whole, OwnedIn, Members
  <2> QED BY <2>1, <2>2 DEF OwnedIn, SameOwned
<1>3. OwnedSaved'
  BY <1>1 DEF OwnedSaved
<1>4. Whole(sets', disk')
  BY <1>1, <1>2 DEF DurableInv, Whole, SameOwned
<1>5. AllWritten'
  BY <1>1 DEF DurableInv, AllWritten
<1>6. OwnedKept
  <2>1. OwnedIn(sets) = {}
    BY <1>1 DEF DownOK, OwnedIn, EmptyIndex
  <2> QED BY <1>1, <1>2, <2>1 DEF OwnedKept, SameOwned
<1> QED BY <1>1, <1>3, <1>4, <1>5, <1>6 DEF DurableInv, DurableStep

(* A process without an index only adds to the directory.                  *)
LEMMA UnindexedDurable ==
    ASSUME DownOK, DurableInv, NEW h, StoreUnindexed(h)
    PROVE  DurableStep
<1>1. /\ ~ up /\ up' = up /\ disk \subseteq disk'
      /\ sets' = sets /\ file' = file /\ writer' = writer
  BY DEF StoreUnindexed, Put
<1>2. OwnedIn(sets) = {}
  BY <1>1 DEF DownOK, OwnedIn, EmptyIndex
<1>3. Whole(file', disk') /\ Whole(sets', disk')
  BY <1>1 DEF DurableInv, Whole, OwnedIn
<1>4. AllWritten'
  BY <1>1 DEF DurableInv, AllWritten, Written
<1>5. OwnedKept
  BY <1>1, <1>2 DEF OwnedKept
<1> QED BY <1>1, <1>3, <1>4, <1>5 DEF DurableInv, DurableStep

(* Every step.                                                             *)
LEMMA NextDurable ==
    Inv /\ DownOK /\ Ledgers /\ Ledgers' /\ DurableInv /\ [Next]_vars => DurableStep
<1> SUFFICES ASSUME Inv, DownOK, Ledgers, Ledgers', DurableInv, [Next]_vars PROVE DurableStep
  OBVIOUS
<1>1. ASSUME NEW w \in Writer, WriterStep(w) PROVE DurableStep
  <2>1. writer[w].pc # "idle"
    BY <1>1 DEF WriterStep, PushHave, PushAccept, PushDecline, PushCommit, PushRelease,
       PublishRecord, ClaimNext, PutNext, PutFails, TransferFails, RollBack, FetchAdmit,
       FetchRecord, FetchChunk, FetchClose, At
  <2>2. writer[w].root \in Blob
    BY <2>1 DEF Inv, WritersOK, WriterOK
  <2> QED BY <1>1, <2>2, PushDurable, PublishDurable, SharedDurable, FetchDurable DEF WriterStep
<1>2. ASSUME NEW w \in Writer, Request(w) PROVE DurableStep
  BY <1>2, ServiceAssumption, PushDurable, PublishDurable, FetchDurable DEF Request
<1>3. ASSUME NEW h \in Blob, ServeBlob(h) PROVE DurableStep
  <2>1. TouchSets(blobs[h]) /\ OwnedSaved /\ disk' = disk /\ writer' = writer
    BY <1>3 DEF ServeBlob, TouchBlob, TouchSets, DurableInv
  <2>2. StaysOwned
    BY <2>1, TouchStaysOwned DEF Inv
  <2> QED BY <2>1, <2>2, OthersDurable
<1>4. CASE FlushIndex
  <2>1. Flush /\ OwnedSaved /\ disk' = disk /\ writer' = writer
    BY <1>4 DEF FlushIndex, Flush, DurableInv
  <2>2. StaysOwned
    BY <2>1, FlushStaysOwned
  <2> QED BY <2>1, <2>2, OthersDurable
<1>5. ASSUME UNCHANGED <<disk, file, sets, up, writer>> PROVE DurableStep
  <2>1. DurableInv'
    BY <1>5 DEF DurableInv, OwnedSaved, Whole, AllWritten, OwnedIn
  <2>2. OwnedKept
    <3>1. CASE up
      BY <1>5, <3>1 DEF DurableInv, OwnedSaved, OwnedKept
    <3>2. CASE ~ up
      BY <1>5, <3>2 DEF DownOK, OwnedKept, OwnedIn, EmptyIndex
    <3> QED BY <3>1, <3>2
  <2> QED BY <2>1, <2>2 DEF DurableStep
<1>6. CASE Tick
  BY <1>5, <1>6 DEF Tick
<1>7. CASE UNCHANGED vars
  BY <1>5, <1>7 DEF vars, indexVars
<1>8. CASE Crash
  BY <1>8, CrashDurable
<1>9. CASE Start
  BY <1>9, StartDurable
<1>10. ASSUME NEW h \in Blob, StoreUnindexed(h) PROVE DurableStep
  BY <1>10, UnindexedDurable
<1> QED BY <1>1, <1>2, <1>3, <1>4, <1>6, <1>7, <1>8, <1>9, <1>10 DEF Next

(* Nothing is owned before the first start.                                *)
LEMMA InitDurable == Init => DurableInv
BY TriviallyWritten DEF Init, DurableInv, Whole, AllWritten, OwnedIn, EmptyIndex

(* The invariant holds throughout.                                         *)
LEMMA DurableInvariance == Spec => [](Inv /\ DownOK /\ Ledgers /\ DurableInv)
<1>1. Inv /\ DownOK /\ Ledgers /\ Ledgers' /\ DurableInv /\ [Next]_vars => DurableInv'
  BY NextDurable DEF DurableStep
<1> QED BY <1>1, InitDurable, LedgersInvariance, PTL DEF Spec

(* Every blob of what this node published is on disk, whatever pushes,     *)
(* fetches and evictions run beside it, and wherever a crash strikes.      *)
THEOREM OwnedIsComplete == Spec => []OwnedComplete
<1>1. DurableInv => OwnedComplete
  BY DEF DurableInv, Whole, OwnedComplete
<1> QED BY <1>1, DurableInvariance, PTL

(* No step, crash or restart forgets that this node published a set.       *)
THEOREM OwnedIsDurable == Spec => OwnedDurable
<1>1. Inv /\ DownOK /\ Ledgers /\ Ledgers' /\ DurableInv /\ [Next]_vars => [OwnedKept]_vars
  BY NextDurable DEF DurableStep
<1> QED BY <1>1, DurableInvariance, PTL DEF Spec, OwnedDurable

----------------------------------------------------------------------------
(* Sets in the index                                                       *)

(* An eviction: a set that stays keeps its blobs by its references, and    *)
(* one that its own writer stores again by that writer's claims.           *)
LEMMA EvictionKeepsRecorded ==
    ASSUME Inv, ClaimsOK, NEW V, disk \ disk' \subseteq Evicted(V),
           \A r \in V \cap DOMAIN sets \cap DOMAIN sets' :
               \E w \in Writer : Members(r, ChunksOf(r)) \subseteq Range(writer[w].claims)
    PROVE  RecordedKept
<1> SUFFICES ASSUME NEW r \in DOMAIN sets \cap DOMAIN sets',
                    NEW h \in Members(r, sets[r].chunks) \cap disk, h \notin disk'
             PROVE  FALSE
  BY DEF RecordedKept
<1>1. h \in Blob /\ h \in Evicted(V) /\ pending[h] = 0
  BY DEF Inv, IndexOK, IndexTypeOK, Evicted
<1>2. CASE r \notin V
  BY <1>1, <1>2, EvictedSpares DEF Inv
<1>3. CASE r \in V
  <2>1. PICK w \in Writer : Members(r, ChunksOf(r)) \subseteq Range(writer[w].claims)
    BY <1>3
  <2>2. sets[r].chunks \in {<<>>, ChunksOf(r)}
    BY DEF Inv, IndexOK, IsIndex
  <2>3. h \in Members(r, ChunksOf(r))
    BY <2>2 DEF Members, Range
  <2> QED BY <1>1, <2>1, <2>3, ClaimedPending
<1> QED BY <1>2, <1>3

(* Every step.                                                             *)
LEMMA NextRecorded == Inv /\ Ledgers /\ [Next]_vars => RecordedKept
<1> SUFFICES ASSUME Inv, Ledgers, [Next]_vars PROVE RecordedKept
  OBVIOUS
<1>1. ASSUME disk \subseteq disk' PROVE RecordedKept
  BY <1>1 DEF RecordedKept
<1>2. ASSUME NEW w \in Writer, PushCommit(w) PROVE RecordedKept
  <2> DEFINE s == writer[w]
             root == s.root
  <2>1. PICK fits \in BOOLEAN :
            CommitHosted(root, SetSize(root), ChunksOf(root), s.claims, fits)
    BY <1>2 DEF PushCommit
  <2>2. root \in Blob /\ SetSize(root) \in Nat
    BY <1>2, SetSizeType DEF PushCommit, At, Inv, WritersOK, WriterOK
  <2>3. PICK V \in EvictionPasses(SetSize(root), Unpromised(SetSize(root))) :
            /\ disk' = disk \ Evicted(V)
            /\ \/ AddHostedTo(SetsWithout(V), RefsWithout(V), root, SetSize(root), ChunksOf(root))
               \/ sets' = SetsWithout(V)
    BY <2>1 DEF CommitHosted
  <2>4. /\ IsIndex(SetsWithout(V)) /\ Mirrors(RefsWithout(V), SetsWithout(V))
        /\ DOMAIN SetsWithout(V) = DOMAIN sets \ V
        /\ now \in Nat
    BY EvictOK DEF Inv, IndexOK, IndexTypeOK
  <2>5. DOMAIN sets' \subseteq (DOMAIN sets \ V) \cup {root}
    <3>1. CASE sets' = SetsWithout(V)
      BY <2>4, <3>1
    <3>2. CASE AddHostedTo(SetsWithout(V), RefsWithout(V), root, SetSize(root), ChunksOf(root))
      <4>1. DOMAIN sets' = DOMAIN SetsWithout(V) \cup {root}
        BY <2>2, <2>4, <3>2, AddHostedToOK
      <4> QED BY <2>4, <4>1
    <3> QED BY <2>3, <3>1, <3>2
  <2>6. Members(root, ChunksOf(root)) \subseteq Range(s.claims)
    <3>1. WriterOK(s) /\ s.kind = "push" /\ s.pc = "next" /\ s.todo = <<>>
      BY <1>2 DEF PushCommit, At, Inv, WritersOK
    <3>2. Range(s.todo) = {}
      BY <3>1 DEF Range
    <3> QED BY <3>1, <3>2 DEF WriterOK
  <2>7. disk \ disk' \subseteq Evicted(V)
    BY <2>3
  <2>8. \A r \in V \cap DOMAIN sets \cap DOMAIN sets' :
            \E v \in Writer : Members(r, ChunksOf(r)) \subseteq Range(writer[v].claims)
    BY <2>5, <2>6
  <2> QED BY <2>7, <2>8, EvictionKeepsRecorded DEF Ledgers
<1>3. ASSUME NEW w \in Writer, FetchAdmit(w) PROVE RecordedKept
  <2>1. PICK V \in EvictionPasses(SetSize(writer[w].root), reserved) :
            disk' = disk \ Evicted(V) /\ sets' = SetsWithout(V)
    BY <1>3 DEF FetchAdmit, Admit
  <2>2. DOMAIN sets' = DOMAIN sets \ V
    BY <2>1, EvictOK DEF Inv, IndexOK
  <2>3. disk \ disk' \subseteq Evicted(V) /\ V \cap DOMAIN sets \cap DOMAIN sets' = {}
    BY <2>1, <2>2
  <2> QED BY <2>3, EvictionKeepsRecorded DEF Ledgers
<1>4. ASSUME NEW w \in Writer, RollBack(w) PROVE RecordedKept
  <2>1. disk' = disk \ Unwanted(writer[w].claims)
    BY <1>4 DEF RollBack, Discard
  <2>2. IndexOK /\ disk \subseteq Blob
    BY DEF Inv, IndexOK, IndexTypeOK
  <2> QED BY <2>1, <2>2, UnwantedSpares DEF RecordedKept
<1>5. ASSUME NEW w \in Writer, WriterStep(w), ~ PushCommit(w), ~ FetchAdmit(w), ~ RollBack(w)
      PROVE  disk \subseteq disk'
  BY <1>5 DEF WriterStep, PushHave, PushAccept, PushDecline, PushRelease, PublishRecord,
     ClaimNext, PutNext, PutFails, TransferFails, FetchRecord, FetchChunk, FetchClose,
     Touch, TouchSets, Reserve, Release, MarkOwned, Claim, Put, AddHosted, indexVars
<1>6. ASSUME NEW w \in Writer, Request(w) PROVE disk \subseteq disk'
  BY <1>6 DEF Request, PushOffer, PublishStart, FetchRemote, indexVars
<1>7. ASSUME \/ \E h \in Blob : ServeBlob(h) \/ StoreUnindexed(h)
             \/ FlushIndex \/ Tick \/ Start \/ UNCHANGED vars
      PROVE  disk \subseteq disk'
  BY <1>7 DEF ServeBlob, StoreUnindexed, Put, TouchBlob, TouchSets, FlushIndex, Flush, Tick, Start,
     LoadContentIndex, vars, indexVars
<1>8. CASE Crash
  BY <1>8 DEF Crash, LoseMemory, RecordedKept, EmptyIndex
<1> QED BY <1>1, <1>2, <1>3, <1>4, <1>5, <1>6, <1>7, <1>8 DEF Next

(* While a set stays in the index no step deletes a blob of it: for any    *)
(* number of concurrent writers, whatever blobs their sets share.          *)
THEOREM RecordedBytesAreKept == Spec => RecordedBytesKept
<1>1. Inv /\ DownOK /\ Ledgers /\ [Next]_vars => [RecordedKept]_vars
  BY NextRecorded
<1> QED BY <1>1, LedgersInvariance, PTL DEF Spec, RecordedBytesKept
=============================================================================
