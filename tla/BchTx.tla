------------------------------- MODULE BchTx -------------------------------
(***************************************************************************)
(* The serialization of Bitcoin Cash transactions with CashTokens, and the *)
(* parsing that the registry applies to what a server sends (bchtx.go).    *)
(* A byte string is a sequence of 0 .. 255.  The encoders are for numbers  *)
(* below 2^31; the parsers take whatever the 64 bits of the code hold.     *)
(*                                                                         *)
(* Hashes and signatures are parameters: a transaction is the record       *)
(* [inputs, outputs], an input [txid, index, unlocking], an output         *)
(* [value, script, token].                                                 *)
(***************************************************************************)
EXTENDS Integers, Sequences, SequencesExt

NoTokenInfo == [category |-> <<>>, capability |-> 0, commitment |-> <<>>, amount |-> 0]

HasBit(n, bit) == (n \div bit) % 2 = 1

Bytes(n, b) == [i \in 1 .. n |-> b]

----------------------------------------------------------------------------
(* Encoders                                                                *)

(* A number in k bytes, the least significant one first.                   *)
LittleEndian(n, k) == [i \in 1 .. k |-> IF i > 4 THEN 0 ELSE (n \div 256 ^ (i - 1)) % 256]

VarInt(n) ==
    CASE n < 253 -> <<n>>
      [] n >= 253 /\ n <= 65535 -> <<253>> \o LittleEndian(n, 2)
      [] OTHER -> <<254>> \o LittleEndian(n, 4)

VarBytes(b) == VarInt(Len(b)) \o b

P2pkhScript(hash) == <<118, 169, Len(hash)>> \o hash \o <<136, 172>>

PushData(b) ==
    CASE Len(b) < 76 -> <<Len(b)>> \o b
      [] Len(b) >= 76 /\ Len(b) <= 255 -> <<76, Len(b)>> \o b
      [] OTHER -> <<77>> \o LittleEndian(Len(b), 2) \o b

OpReturnScript(pushes) == <<106>> \o FlattenSeq([i \in DOMAIN pushes |-> PushData(pushes[i])])

HasNFT(t) == t.capability # 0 \/ t.commitment # <<>>

ValidToken(t) ==
    /\ Len(t.category) = 32
    /\ Len(t.commitment) <= 40
    /\ HasNFT(t) \/ t.amount # 0
    /\ t.capability \in {0, 1, 2}

TokenPrefix(t) ==
    LET bitfield == (IF HasNFT(t) THEN 32 ELSE 0) + (IF t.commitment # <<>> THEN 64 ELSE 0)
                    + (IF t.amount > 0 THEN 16 ELSE 0) + (t.capability % 16)
    IN  <<239>> \o t.category \o <<bitfield>>
        \o (IF t.commitment # <<>> THEN VarBytes(t.commitment) ELSE <<>>)
        \o (IF t.amount > 0 THEN VarInt(t.amount) ELSE <<>>)

EncodeOutput(o) ==
    LittleEndian(o.value, 8)
    \o VarBytes((IF o.token # NoTokenInfo THEN TokenPrefix(o.token) ELSE <<>>) \o o.script)

EncodeInput(i) ==
    i.txid \o LittleEndian(i.index, 4) \o VarBytes(i.unlocking) \o Bytes(4, 255)

(* Only a transaction whose tokens are all valid is serialized. *)
Serializable(tx) ==
    \A i \in DOMAIN tx.outputs : tx.outputs[i].token # NoTokenInfo => ValidToken(tx.outputs[i].token)

Serialize(tx) ==
    LittleEndian(2, 4)
    \o VarInt(Len(tx.inputs)) \o FlattenSeq([i \in DOMAIN tx.inputs |-> EncodeInput(tx.inputs[i])])
    \o VarInt(Len(tx.outputs)) \o FlattenSeq([i \in DOMAIN tx.outputs |-> EncodeOutput(tx.outputs[i])])
    \o LittleEndian(0, 4)

(* What input i signs of the coin it spends: its token prefix and script.  *)
ScriptCode(script, token) ==
    VarBytes((IF token # NoTokenInfo THEN TokenPrefix(token) ELSE <<>>) \o script)

----------------------------------------------------------------------------
(* A reader of bytes: what it got and what is left, or that it ran short,  *)
(* or that it panicked.                                                    *)

Short == [ok |-> FALSE, value |-> 0, rest |-> <<>>]
Panic == [ok |-> FALSE, value |-> 1, rest |-> <<>>]
Got(value, rest) == [ok |-> TRUE, value |-> value, rest |-> rest]

Then(read, Continue(_, _)) == IF read.ok THEN Continue(read.value, read.rest) ELSE read

Take(b, n) == IF n > Len(b) THEN Short ELSE Got(SubSeq(b, 1, n), SubSeq(b, n + 1, Len(b)))

Number(digits) == FoldRight(LAMBDA d, n : 256 * n + d, digits, 0)

TakeNumber(b, n) == Then(Take(b, n), LAMBDA digits, rest : Got(Number(digits), rest))

(* The digits of a variable-length number.                                 *)
TakeDigits(b) ==
    Then(TakeNumber(b, 1), LAMBDA n, rest :
        IF n < 253 THEN Got(<<n>>, rest) ELSE Take(rest, 2 ^ (n - 252)))

TakeVarInt(b) == Then(TakeDigits(b), LAMBDA digits, rest : Got(Number(digits), rest))

(* No less than 2^31, which is more than any buffer holds.                 *)
Huge(digits) ==
    /\ Len(digits) >= 4
    /\ digits[4] >= 128 \/ \E i \in 5 .. Len(digits) : digits[i] # 0

(* A huge length that is positive as an int, and no longer is when the     *)
(* position in the buffer is added to it.                                  *)
Overflows(digits, pos) ==
    /\ Len(digits) = 8
    /\ digits[8] = 127 /\ \A i \in 5 .. 7 : digits[i] = 255
    /\ digits[4] >= 128
    /\ Number([i \in 1 .. 4 |-> 255 - digits[i]]) < pos

(* In a buffer of so many bytes.                                           *)
TakeVarBytes(b, size) ==
    Then(TakeDigits(b), LAMBDA digits, rest :
        IF ~ Huge(digits) THEN Take(rest, Number(digits))
        ELSE IF Overflows(digits, size - Len(rest)) THEN Panic ELSE Short)

----------------------------------------------------------------------------
(* Parsers                                                                 *)

ParseInput(b, size) ==
    Then(Take(b, 32), LAMBDA txid, r1 :
        Then(TakeNumber(r1, 4), LAMBDA index, r2 :
            Then(TakeVarBytes(r2, size), LAMBDA script, r3 :
                Then(Take(r3, 4), LAMBDA sequence, r4 :
                    Got([txid |-> txid, index |-> index], r4)))))

TakeCommitment(b, bitfield) ==
    IF ~ HasBit(bitfield, 64) THEN Got(<<>>, b)
    ELSE Then(TakeVarInt(b), LAMBDA n, rest : IF n = 0 \/ n > 40 THEN Short ELSE Take(rest, n))

(* The token and the locking script that follows its prefix. *)
SplitTokenPrefix(wrapped) ==
    IF wrapped = <<>> \/ wrapped[1] # 239
    THEN Got(NoTokenInfo, wrapped)
    ELSE Then(Take(Tail(wrapped), 32), LAMBDA category, r1 :
           Then(TakeNumber(r1, 1), LAMBDA bitfield, r2 :
             IF HasBit(bitfield, 128) THEN Short
             ELSE Then(TakeCommitment(r2, bitfield), LAMBDA commitment, r3 :
                    Then(IF HasBit(bitfield, 16) THEN TakeVarInt(r3) ELSE Got(0, r3), LAMBDA amount, r4 :
                      Got([category |-> category, commitment |-> commitment, amount |-> amount,
                           capability |-> IF HasBit(bitfield, 32) THEN bitfield % 16 ELSE 0], r4)))))

ParseOutput(b, size) ==
    Then(TakeNumber(b, 8), LAMBDA value, r1 :
        Then(TakeVarBytes(r1, size), LAMBDA wrapped, r2 :
            Then(SplitTokenPrefix(wrapped), LAMBDA token, script :
                Got([value |-> value, script |-> script, token |-> token], r2))))

(* The lock time at the end is not looked at. *)
ParseTx(raw) ==
    LET Many(b, Item(_, _)) ==    \* as many items as the count before them says
            Then(TakeVarInt(b), LAMBDA n, first :
                FoldLeft(LAMBDA read, i :
                            Then(read, LAMBDA items, rest :
                                Then(Item(rest, Len(raw)), LAMBDA item, more : Got(Append(items, item), more))),
                         Got(<<>>, first), [i \in 1 .. n |-> i]))
    IN  Then(Take(raw, 4), LAMBDA version, r1 :
            Then(Many(r1, ParseInput), LAMBDA inputs, r2 :
                Then(Many(r2, ParseOutput), LAMBDA outputs, r3 :
                    Got([inputs |-> inputs, outputs |-> outputs], r3))))

TakePush(b) ==
    Then(TakeNumber(b, 1), LAMBDA op, rest :
        CASE op < 76 -> Take(rest, op)
          [] op \in {76, 77} -> Then(TakeNumber(rest, op - 75), LAMBDA n, more : Take(more, n))
          [] OTHER -> Short)

(* The pushes up to the first that is cut off or of another kind. *)
ParseOpReturn(script) ==
    IF script = <<>> \/ script[1] # 106 THEN <<>>
    ELSE LET pushes[b \in Seq(0 .. 255)] ==
                LET read == TakePush(b)
                IN  IF read.ok THEN <<read.value>> \o pushes[read.rest] ELSE <<>>
         IN  pushes[Tail(script)]

P2pkhHash(script) ==
    IF Len(script) = 25 /\ SubSeq(script, 1, 3) = <<118, 169, 20>> /\ SubSeq(script, 24, 25) = <<136, 172>>
    THEN SubSeq(script, 4, 23) ELSE <<>>

(* The first output with metadata about the name: its tag and its key.     *)
FNMetadata(tx, tags, label, validKeys) ==
    LET pushes == [i \in DOMAIN tx.outputs |-> ParseOpReturn(tx.outputs[i].script)]
        about == {i \in DOMAIN pushes :
                     /\ Len(pushes[i]) >= 3
                     /\ pushes[i][1] \in tags
                     /\ pushes[i][2] = label
                     /\ pushes[i][3] \in validKeys}
    IN  IF about = {} THEN <<>>
        ELSE LET i == CHOOSE k \in about : \A j \in about : k <= j
             IN  <<pushes[i][1], pushes[i][3]>>

GenesisCategory(tx) ==
    LET minting == {i \in DOMAIN tx.inputs : tx.inputs[i].index = 0}
    IN  IF minting = {} THEN <<>>
        ELSE tx.inputs[CHOOSE i \in minting : \A j \in minting : i <= j].txid
=============================================================================
