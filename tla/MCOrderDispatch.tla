--------------------------- MODULE MCOrderDispatch ---------------------------
(* Small instances of OrderDispatch for TLC. *)
EXTENDS OrderDispatch, TLC

(* Requests and factories are interchangeable: nothing names one of them. *)
Symmetry == Permutations(Request) \cup Permutations(Factory)
==============================================================================
