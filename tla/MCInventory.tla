----------------------------- MODULE MCInventory -----------------------------
(* Small instances of Inventory for TLC. *)
EXTENDS Inventory, TLC

(* Requests and products are interchangeable: nothing names one of them. *)
Symmetry == Permutations(Request) \cup Permutations(Product)
==============================================================================
