---------------------------- MODULE MCWorkbench ----------------------------
(* Workbench for TLC.                                                      *)
EXTENDS Workbench, TLC

Symmetry == Permutations(Task)
=============================================================================
