------------------------- MODULE MCMultiplayerRoom -------------------------
(***************************************************************************)
(* Small instances of MultiplayerRoom for TLC.                             *)
(***************************************************************************)
EXTENDS MultiplayerRoom, TLC

\* The creator is told apart in Init, so only the others are interchangeable.
Symmetry == Permutations(Players \ {Creator}) \union Permutations(Requests)
=============================================================================
