-------------------------- MODULE MCNodeLifecycle --------------------------
(* NodeLifecycle for TLC: the configuration gives every constant its value. *)
EXTENDS NodeLifecycle
=============================================================================
