------------------------ MODULE MCTransactionSender ------------------------
(***************************************************************************)
(* Small instances of TransactionSender.                                   *)
(***************************************************************************)
EXTENDS TransactionSender

=============================================================================
