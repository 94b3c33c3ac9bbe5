--------------------------- MODULE MCTransactions ---------------------------
(* Transactions and savepoints alone.                                       *)
EXTENDS Transactions
=============================================================================
