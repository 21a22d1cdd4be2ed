----------------------------- MODULE MCPostpone -----------------------------
(* Instances of Postpone for TLC.                                          *)
EXTENDS Postpone, TLC

Symmetry == Permutations(Targets)
=============================================================================
