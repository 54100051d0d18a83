---------------------------- MODULE MCHubTravel ----------------------------
(***************************************************************************)
(* Instances of HubTravel for TLC.                                         *)
(***************************************************************************)
EXTENDS HubTravel, TLC

CONSTANTS a, b, c, p, q

\* Two nodes of one game, and a third of another.
MCHome == [x \in Player |-> IF x = p THEN a ELSE b]
MCGame == [n \in Node |-> IF n = c THEN "dominion" ELSE "ledger"]

=============================================================================
