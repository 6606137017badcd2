--------------------------- MODULE MCTxBroadcaster ---------------------------
(* Small instances of TxBroadcaster for TLC. *)
EXTENDS TxBroadcaster
=============================================================================
