----------------------------- MODULE MCCharacter -----------------------------
(***************************************************************************)
(* An instance of Character for TLC.                                       *)
(***************************************************************************)
EXTENDS Character, TLC

CONSTANTS phone, laptop

\* One creature, which kills in two blows; deeper bands fall back to it.
MCBestiary == <<{3}>>

MCSymmetry == Permutations(Session)

=============================================================================
