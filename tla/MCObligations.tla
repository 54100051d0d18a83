---------------------------- MODULE MCObligations ----------------------------
(***************************************************************************)
(* An instance of Obligations for TLC.                                     *)
(***************************************************************************)
EXTENDS Obligations, TLC

CONSTANTS home, abroad, salt, wire

\* Black salt weighs one unit of barter, copper wire three.
MCGoods == <<salt, wire>>
MCWeight == [g \in {salt, wire} |-> IF g = salt THEN 1 ELSE 3]

=============================================================================
