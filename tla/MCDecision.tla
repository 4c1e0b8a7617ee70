----------------------------- MODULE MCDecision -----------------------------
(* ComplianceDecision, with everything that is stated of it, for TLC.      *)
EXTENDS DecisionClaims, DecisionInvariant, LedgerRefinement, TLC

Symmetry == Permutations(Request) \cup Permutations(Fields)
=============================================================================
