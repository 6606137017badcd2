---------------------------- MODULE MCTxConfirmer ----------------------------
(* Small instances of TxConfirmer for TLC. *)
EXTENDS TxConfirmer
=============================================================================
