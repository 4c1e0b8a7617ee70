------------------------- MODULE MCVersionedRecord -------------------------
(* VersionedRecord for TLC.                                                *)
EXTENDS VersionedRecord, TLC

Symmetry == Permutations(Request) \cup Permutations(Fields)
=============================================================================
