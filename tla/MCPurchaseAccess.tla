-------------------------- MODULE MCPurchaseAccess --------------------------
(* Small instances of PurchaseAccess for TLC. *)
EXTENDS PurchaseAccess, TLC

Symmetry == Permutations(Sources) \cup Permutations(Workers)
=============================================================================
