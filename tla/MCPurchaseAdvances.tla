-------------------------- MODULE MCPurchaseAdvances --------------------------
(* Small instances of PurchaseAdvances for TLC. *)
EXTENDS PurchaseAdvances, TLC

(* Requests are told apart by what they do only. *)
Symmetry == Permutations(Request)

(* The first advance and the first purchase lie in the month cleaned up. *)
FirstOfEach == [purchases |-> {1}, advances |-> {1}]
==============================================================================
