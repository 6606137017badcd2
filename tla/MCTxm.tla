-------------------------------- MODULE MCTxm --------------------------------
(* Small instances of Txm for TLC. *)
EXTENDS Txm
=============================================================================
