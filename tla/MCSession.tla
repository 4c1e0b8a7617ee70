----------------------------- MODULE MCSession -----------------------------
(* Session for TLC: liveness is checked, so without symmetry.              *)
EXTENDS Session
=============================================================================
