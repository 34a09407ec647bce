-------------------------- MODULE MCSessionWindows --------------------------
(* SessionWindows with two windows. *)
EXTENDS SessionWindows, TLC

CONSTANTS w1, w2

MCWindows == {w1, w2}
OneWindow == {w1}
Symmetry == Permutations(MCWindows)
=============================================================================
