------------------------------ MODULE MCStartup ------------------------------
(* Startup for TLC.  No symmetry: the run checks liveness.                 *)
EXTENDS Startup
=============================================================================
