----------------------------- MODULE MCImportRun -----------------------------
(* Small instances of ImportRun for TLC. *)
EXTENDS ImportRun, TLC

Handlers == Permutations(Importers)
=============================================================================
