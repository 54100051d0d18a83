--------------------------- MODULE MCSessionServer ---------------------------
(***************************************************************************)
(* An instance of SessionServer for TLC.                                   *)
(***************************************************************************)
EXTENDS SessionServer, TLC

CONSTANTS home, office

\* Two channels on one connection, one on the other.
MCOwner == [k \in Chan |-> IF k = 3 THEN office ELSE home]

=============================================================================
