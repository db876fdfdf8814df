-------------------------- MODULE MCLendingService --------------------------
(***************************************************************************)
(* Instances of LendingService: pages and accounts are interchangeable,    *)
(* which the runs that check liveness do not use.                          *)
(***************************************************************************)
EXTENDS LendingService, TLC

Symmetry == Permutations(Pages) \cup Permutations(Accounts)
=============================================================================
