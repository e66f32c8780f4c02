----------------------------- MODULE BchWallet -----------------------------
(***************************************************************************)
(* The wallet that claims and adopts bare names (bchwallet.go): which of   *)
(* its coins a transaction spends, and what it makes of them.  A coin is   *)
(* the record [txid, index, value, token]; the coins come in the order in  *)
(* which the server lists them.  The hashes of keys are parameters, and a  *)
(* signature is as many bytes as the longest one.                          *)
(***************************************************************************)
EXTENDS BchTx, TLC

DustLimit == 546
TokenDustLimit == 1000
FeePerByte == 2

EstimateFee(numIn, numOut) == FeePerByte * (10 + 148 * numIn + 34 * numOut + 100)

Plainly(coin) == coin.token = NoTokenInfo

Worth(coins) == FoldLeft(LAMBDA sum, coin : sum + coin.value, 0, coins)

(* Holdings: tokens without a capability are neither balance nor names. *)
Holdings(coins) ==
    [balance |-> Worth(SelectSeq(coins, Plainly)),
     names |-> Len(SelectSeq(coins, LAMBDA c : c.token.capability # 0))]

(* As many coins from the front as it takes to be worth needs[n], n being  *)
(* how many they are, or none if all of them are not enough.               *)
Enough(coins, needs) ==
    LET lengths == {n \in 1 .. Len(coins) : Worth(SubSeq(coins, 1, n)) >= needs[n]}
    IN  IF lengths = {} THEN <<>>
        ELSE SubSeq(coins, 1, CHOOSE n \in lengths : \A m \in lengths : n <= m)

SelectFunding(coins, need) ==
    Enough(SortSeq(SelectSeq(coins, Plainly), LAMBDA c, d : c.value > d.value),
           [n \in 1 .. Len(coins) |-> need])

(* The first coin is one that a token category can be minted from. *)
SelectFundingGenesis(coins, outValue, numOut) ==
    LET plain == SelectSeq(coins, Plainly)
        minting == {i \in DOMAIN plain : plain[i].index = 0}
        first == CHOOSE i \in minting : \A j \in minting : i <= j
    IN  IF minting = {} THEN <<>>
        ELSE Enough(<<plain[first]>> \o RemoveAt(plain, first),
                    [n \in 1 .. Len(coins) |-> outValue + EstimateFee(n, numOut)])

FindNFT(coins, category) ==
    {i \in DOMAIN coins : ~ Plainly(coins[i]) /\ coins[i].token.category = category}

----------------------------------------------------------------------------

Signature == Bytes(72, 255)
PublicKey == Bytes(33, 2)

NewInputs(coins) ==
    [i \in DOMAIN coins |-> [txid |-> coins[i].txid, index |-> coins[i].index,
                             unlocking |-> PushData(Signature) \o PushData(PublicKey)]]

NameNFT(category, keyHash) ==
    [category |-> category, capability |-> 1, commitment |-> keyHash, amount |-> 0]

(* The outputs of a claim and of a rebind: the NFT, the metadata, the      *)
(* marker, and the change if there is enough of it.                        *)
Outputs(script, nft, metadata, marker, change) ==
    <<[value |-> TokenDustLimit, script |-> script, token |-> nft],
      [value |-> 0, script |-> OpReturnScript(metadata), token |-> NoTokenInfo],
      [value |-> DustLimit, script |-> P2pkhScript(marker), token |-> NoTokenInfo]>>
    \o IF change >= DustLimit
       THEN <<[value |-> change, script |-> script, token |-> NoTokenInfo]>> ELSE <<>>

(* A name: its label, the tag of its metadata, the hash its marker pays,   *)
(* the owner's key and that key's hash.                                    *)
BuildClaimTx(coins, script, name) ==
    LET out == TokenDustLimit + DustLimit
        selected == SelectFundingGenesis(coins, out, 4)
        change == Worth(selected) - out - EstimateFee(Len(selected), 4)
    IN  IF selected = <<>> THEN Short
        ELSE Got([inputs |-> NewInputs(selected),
                  outputs |-> Outputs(script, NameNFT(selected[1].txid, name.keyHash),
                                      <<name.tag, name.label, name.key>>, name.marker, change)],
                 selected)

BuildRebindTx(coins, script, category, name) ==
    LET held == FindNFT(coins, category)
        nft == coins[CHOOSE i \in held : \A j \in held : i <= j]
        funding == SelectFunding(coins, DustLimit + EstimateFee(3, 4))
        selected == <<nft>> \o funding
        change == Worth(selected) - TokenDustLimit - DustLimit - EstimateFee(Len(selected), 4)
    IN  IF held = {} \/ funding = <<>> THEN Short
        ELSE Got([inputs |-> NewInputs(selected),
                  outputs |-> Outputs(script, NameNFT(category, name.keyHash),
                                      <<name.tag, name.label, name.key>>, name.marker, change)],
                 selected)

(* What the outputs leave of the coins. *)
Fee(built) == Worth(built.rest) - Worth(built.value.outputs)
=============================================================================
