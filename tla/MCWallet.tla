------------------------------ MODULE MCWallet ------------------------------
(***************************************************************************)
(* Instances of WalletContext.  The accounts of a wallet are               *)
(* interchangeable; the runs that check liveness do without the symmetry.  *)
(***************************************************************************)
EXTENDS WalletContext, TLC

Symmetry == Permutations(Accounts)
=============================================================================
