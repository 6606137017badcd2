-------------------------- MODULE MCRPCClientBase --------------------------
(***************************************************************************)
(* Small instances of RPCClientBase.                                       *)
(***************************************************************************)
EXTENDS RPCClientBase

\* The second head is higher and has no difficulty.
TwoHeads == {[number |-> 1, difficulty |-> 2], [number |-> 2, difficulty |-> 0]}

=============================================================================
