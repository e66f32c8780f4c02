----------------------------- MODULE MCBareNames -----------------------------
(***************************************************************************)
(* Small instances of BareNames, and with them the checks of MCBchWallet.  *)
(***************************************************************************)
EXTENDS BareNames, MCBchWallet

Symmetry == Permutations(Query) \cup Permutations(User)

(* Within a block the larger id comes first. *)
MCPlace == [t \in Tx |-> MaxTx - t]
=============================================================================
