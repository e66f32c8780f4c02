---------------------------- MODULE MCBchWallet ----------------------------
(***************************************************************************)
(* What BchTx and BchWallet compute, checked on small wallets and at the   *)
(* lengths where an encoding changes.  TLC evaluates the assumptions on    *)
(* every run of a module that extends this one.                            *)
(***************************************************************************)
EXTENDS BchWallet, FiniteSets

LOCAL Key == Bytes(36, 8)
LOCAL Category == Bytes(32, 17)
LOCAL Script == P2pkhScript(Bytes(20, 1))

LOCAL Name(tag) == [tag |-> <<70, 78, 48, tag>>, label |-> Bytes(63, 97), key |-> Key,
                    keyHash |-> Bytes(20, 3), marker |-> Bytes(20, 4)]
LOCAL Tags == {Name(49).tag, Name(50).tag}

(* putVarInt and readVarInt agree, whatever follows, at every length the   *)
(* number can take.                                                        *)
ASSUME VarIntsReadBack ==
    \A n \in {0, 1, 252, 253, 254, 255, 256, 65535, 65536, 2 ^ 30} :
        TakeVarInt(VarInt(n) \o <<255, 0>>) = Got(n, <<255, 0>>)

(* appendPush and parseOpReturn agree on both sides of the lengths where   *)
(* the opcode changes: no key is silently cut off.                         *)
ASSUME PushesReadBack ==
    \A m, n \in {0, 1, 75, 76, 77, 255, 256, 300} :
        LET pushes == <<Bytes(m, 106), Bytes(n, 76)>>
        IN  ParseOpReturn(OpReturnScript(pushes)) = pushes

(* Every token that validate lets through is read back by splitTokenPrefix *)
(* together with the script behind it.                                     *)
ASSUME TokensReadBack ==
    \A capability \in 0 .. 3, n \in {0, 1, 20, 40, 41}, amount \in {0, 1, 252, 253, 70000} :
        LET token == [category |-> Category, capability |-> capability,
                      commitment |-> Bytes(n, 239), amount |-> amount]
        IN  ValidToken(token) => SplitTokenPrefix(TokenPrefix(token) \o Script) = Got(token, Script)

----------------------------------------------------------------------------
(* Wallets of up to four coins, of the smallest standard value or of what  *)
(* a claim needs, some with the name's NFT or with tokens of others.       *)

LOCAL Coin(i, kind) ==
    [txid |-> Bytes(32, i), index |-> kind[1], value |-> kind[2], token |-> kind[3]]

LOCAL OtherToken == [category |-> Bytes(32, 18), capability |-> 0, commitment |-> <<1>>, amount |-> 0]

LOCAL Kinds == {<<0, 546, NoTokenInfo>>, <<1, 546, NoTokenInfo>>, <<0, 2600, NoTokenInfo>>,
                <<0, 1000, NameNFT(Category, Bytes(20, 3))>>, <<0, 800, OtherToken>>}

LOCAL Wallets ==
    {[i \in DOMAIN kinds |-> Coin(i, kinds[i])] : kinds \in UNION {[1 .. n -> Kinds] : n \in 1 .. 4}}

LOCAL Claims(wallet) == BuildClaimTx(wallet, Script, Name(49))
LOCAL Rebinds(wallet) == BuildRebindTx(wallet, Script, Category, Name(50))

LOCAL Spends(built) == {built.rest[i] : i \in DOMAIN built.rest}

(* A transaction is paid for: nothing is spent that is not there, and the  *)
(* fee is at least one satoshi for each byte that is sent (estimateFee).   *)
LOCAL Pays(built) == Fee(built) >= Len(Serialize(built.value))

(* No transaction spends a token as if it were money: a claim none at all, *)
(* a rebind the one NFT that it is about.                                  *)
ASSUME TokensAreNotMoney ==
    \A wallet \in Wallets :
        /\ Claims(wallet).ok => \A coin \in Spends(Claims(wallet)) : Plainly(coin)
        /\ Rebinds(wallet).ok => \E nft \in Spends(Rebinds(wallet)) :
                                   /\ nft.token.category = Category
                                   /\ \A coin \in Spends(Rebinds(wallet)) \ {nft} : Plainly(coin)

(* Whatever coins are chosen, the fee is enough for the size they bring,   *)
(* whether the change is paid out or left as fee.                          *)
ASSUME FeesSuffice ==
    \A wallet \in Wallets :
        /\ Claims(wallet).ok => Pays(Claims(wallet))
        /\ Rebinds(wallet).ok => Pays(Rebinds(wallet))

(* A wallet with enough plain coins, one of them fit to mint from, can     *)
(* always claim (selectFundingGenesis).                                    *)
ASSUME ClaimsSucceed ==
    \A wallet \in Wallets :
        LET plain == SelectSeq(wallet, Plainly)
        IN  /\ \E i \in DOMAIN plain : plain[i].index = 0
            /\ Worth(plain) >= TokenDustLimit + DustLimit + EstimateFee(Len(plain), 4)
            => Claims(wallet).ok

LOCAL Small == <<Coin(1, <<1, 546, NoTokenInfo>>), Coin(2, <<0, 1000, NameNFT(Category, Bytes(20, 3))>>),
                 Coin(3, <<0, 2600, NoTokenInfo>>)>>

(* The registry reads a name's transactions as the wallet meant them: the  *)
(* coins, the NFT with its category and the key's hash, and the key.       *)
LOCAL ReadAs(built, category, name) ==
    LET parsed == ParseTx(Serialize(built.value)).value
    IN  /\ Serializable(built.value)
        /\ parsed.outputs = built.value.outputs
        /\ \A i \in DOMAIN parsed.inputs :
              /\ parsed.inputs[i].txid = built.rest[i].txid
              /\ parsed.inputs[i].index = built.rest[i].index
        /\ parsed.outputs[1].token = NameNFT(category, name.keyHash)
        /\ P2pkhHash(parsed.outputs[3].script) = name.marker
        /\ FNMetadata(parsed, Tags, name.label, [1 .. 36 -> 0 .. 255]) = <<name.tag, name.key>>

ASSUME TransactionsReadBack ==
    /\ ReadAs(Claims(Small), GenesisCategory(ParseTx(Serialize(Claims(Small).value)).value), Name(49))
    /\ ReadAs(Rebinds(Small), Category, Name(50))

(* A transaction that is cut off anywhere before its lock time is refused  *)
(* and never read as a shorter one.                                        *)
ASSUME CutOffRefused ==
    LET raw == Serialize(Claims(Small).value)
    IN  \A n \in 0 .. Len(raw) : ParseTx(SubSeq(raw, 1, n)).ok <=> n >= Len(raw) - 4
=============================================================================
