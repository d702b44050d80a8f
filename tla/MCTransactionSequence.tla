----------------------- MODULE MCTransactionSequence -----------------------
(* Three concurrent init requests of one vendor. *)
EXTENDS TransactionSequence
=============================================================================
