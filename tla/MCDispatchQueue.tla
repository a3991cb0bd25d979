--------------------------- MODULE MCDispatchQueue ---------------------------
(* A small instance of DispatchQueue for TLC.  No symmetry: a run checks    *)
(* liveness.                                                                *)
EXTENDS DispatchQueue
==============================================================================
