-------------------------- MODULE MCSessionEvents --------------------------
(* Model checking SessionEvents: commands are model values, and one that   *)
(* has not been sent is like any other.                                    *)
EXTENDS SessionEvents, TLC

Symmetry == Permutations(Cmds)
=============================================================================
