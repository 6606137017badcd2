--------------------------- MODULE MCHeadTracker ---------------------------
(* The head tracker on a chain with one fork.                              *)
EXTENDS HeadTracker

\* Finality by tag, by tag with an offset, by depth, and at once.
FourConfigs ==
    {[tag |-> TRUE, depth |-> 0, offset |-> 0],
     [tag |-> TRUE, depth |-> 0, offset |-> 1],
     [tag |-> FALSE, depth |-> 1, offset |-> 0],
     [tag |-> FALSE, depth |-> 0, offset |-> 0]}

\* A new chain and an empty database; a database whose latest block is of the
\* height of the tip, on the other fork.
TwoStarts ==
    {[tip |-> <<0, "a">>, stored |-> {}],
     [tip |-> <<1, "a">>, stored |-> {<<0, "a">>, <<1, "b">>}]}

=============================================================================
