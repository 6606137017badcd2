------------------------------ MODULE HeadFeed ------------------------------
(***************************************************************************)
(* What the head tracker promises to the broadcast mailbox: each head it   *)
(* delivers has a higher block number than the one before.                 *)
(***************************************************************************)
EXTENDS Integers

CONSTANTS Blocks,   \* <<number, fork>> pairs
          NoHead    \* <<number, fork>> below every block

VARIABLE delivered  \* the last head delivered

FeedInit == delivered = NoHead

\* The branch of handleNewHead for a head above the previous one.
DeliverHead(h) == h[1] > delivered[1] /\ delivered' = h

FeedNext == \E h \in Blocks : DeliverHead(h)

FeedSpec == FeedInit /\ [][FeedNext]_delivered

=============================================================================
