------------------------- MODULE MCHeadBroadcaster -------------------------
(* Two subscribers and a mailbox that overflows.                           *)
EXTENDS HeadBroadcaster

=============================================================================
