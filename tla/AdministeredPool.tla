--------------------------- MODULE AdministeredPool ---------------------------
(***************************************************************************)
(* The pool as it is used: users, flash loans and the ether gateway, and   *)
(* administrators who change the configuration between two transactions.   *)
(***************************************************************************)
EXTENDS PoolTransactions, PoolConfigurator

AdministeredNext ==
    \/ tx = NoCall /\ (Tick \/ Quotes \/ Administration) /\ UNCHANGED <<ether, tx>>
    \/ PoolCalls \/ FlashLoans \/ EtherCalls \/ Recoveries
    \/ Continues \/ collectELTokens

AdministeredSpec == InitTransactions /\ [][AdministeredNext]_txVars
===============================================================================
