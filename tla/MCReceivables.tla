---------------------------- MODULE MCReceivables ----------------------------
(* Small instances of Receivables for TLC. *)
EXTENDS Receivables, TLC

Symmetry == Permutations(Request)

(* The first invoice and the first payment lie in the month cleaned up. *)
FirstOfEach == [bills |-> {1}, receipts |-> {1}]
==============================================================================
