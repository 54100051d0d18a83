------------------------------- MODULE MCPvP -------------------------------
(***************************************************************************)
(* Instances of PvP for TLC.                                               *)
(***************************************************************************)
EXTENDS PvP, TLC

CONSTANTS near, far, pia, quin, rob, sam

\* Pia lives on one node; Quin, Rob and Sam on the other, and Sam has no
\* character yet.
MCHome == [x \in Player |-> IF x = pia THEN near ELSE far]
MCTested == Player \ {sam}

\* Pia attacks Quin across the network; then she does again, or attacks Sam,
\* or Rob attacks Quin next door.
MCQuarry ==
    [i \in Attack |-> IF i = 1 THEN {<<pia, quin>>}
                      ELSE {<<pia, quin>>, <<pia, sam>>, <<rob, quin>>}]

=============================================================================
