--------------------------- MODULE MCMediaAssets ----------------------------
(* Small instances of MediaAssets for TLC. *)
EXTENDS MediaAssets, TLC

WorkerSymmetry == Permutations(Workers)
=============================================================================
