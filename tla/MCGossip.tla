------------------------------ MODULE MCGossip ------------------------------
(***************************************************************************)
(* Small swarms for Gossip.                                                *)
(***************************************************************************)
EXTENDS Gossip

CONSTANTS na, nb, nc

\* Everyone joins through na, as the guide has it.
SeedPeers == [n \in Node |-> IF n = na THEN <<>> ELSE <<na>>]

\* na and nb list each other, the others list na.
PairPeers == [n \in Node |-> IF n = na THEN <<nb>> ELSE <<na>>]

=============================================================================
