------------------------------- MODULE MCHose -------------------------------
(* The hose on a buffer of a few bytes.                                      *)
EXTENDS Hose, TLC

Symmetry == Permutations(Fds)
=============================================================================
