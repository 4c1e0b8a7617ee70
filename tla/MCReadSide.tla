----------------------------- MODULE MCReadSide -----------------------------
(* ReadSide for TLC.                                                       *)
EXTENDS ReadSide, TLC

Symmetry == Permutations(Writer) \cup Permutations(User)
=============================================================================
