------------------------------ MODULE MCWallet ------------------------------
(* Symmetry for TLC: transactions are interchangeable, addresses are ordered. *)
EXTENDS Wallet, TLC

Symmetry == Permutations(Txs)
=============================================================================
