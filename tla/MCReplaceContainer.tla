------------------------- MODULE MCReplaceContainer -------------------------
\* Model checking of ReplaceContainer: one network joined late, two addresses.
EXTENDS ReplaceContainer, TLC

CONSTANTS n1, n2

MCExtra     == {n1}
MCAddressed == {n1, n2}
=============================================================================
