---------------------------- MODULE MCHubRegistry ----------------------------
\* HubRegistry for TLC: two nodes, and a player whose home is one of them.
EXTENDS HubRegistry

CONSTANTS east, west, ada

HomeOf == [p \in {ada} |-> east]

=============================================================================
