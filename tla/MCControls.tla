----------------------------- MODULE MCControls -----------------------------
(***************************************************************************)
(* An instance of Controls: two outputs, one of them commanded alone or    *)
(* both at once, of which MaxControls lets only the first through.         *)
(***************************************************************************)
EXTENDS Controls, TLC

CONSTANTS p1, p2

MCPoints == {p1, p2}
MCSymmetry == Permutations(Masters)
MCCommands == {<<p1>>, <<p1, p2>>}
=============================================================================
