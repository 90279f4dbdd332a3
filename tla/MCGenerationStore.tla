------------------------- MODULE MCGenerationStore -------------------------
(***************************************************************************)
(* Four calls: two that race to publish, one that finds the file, and one  *)
(* that comes after a crash or a power cut.                                *)
(***************************************************************************)
EXTENDS GenerationStore, TLC

MCSymmetry == Permutations(Publishers)
=============================================================================
