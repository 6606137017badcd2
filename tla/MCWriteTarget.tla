--------------------------- MODULE MCWriteTarget ---------------------------
(* Two nodes that execute the same request.                                *)
EXTENDS WriteTarget

=============================================================================
