------------------------------ MODULE MCTravel ------------------------------
(***************************************************************************)
(* Instances of Travel for TLC.                                            *)
(***************************************************************************)
EXTENDS Travel, TLC

CONSTANTS nodeA, nodeB, nodeC, ann, bob, term1, term2

\* Two nodes of one game, and one of another that the roster also offers.
MCHome == [x \in Player |-> nodeA]
MCGame == [n \in Node |-> IF n = nodeC THEN "dominion" ELSE "ledger"]

\* Somebody at node B has Bob's name already.
MCClash == {<<nodeB, bob>>} \cap (Node \X Player)

MCCaller == Session \cup Node

MCSnapshot == [status : Status]

Terminals == Permutations(Session)

=============================================================================
