--------------------------- MODULE DefinitionStoreMC ---------------------------
(***************************************************************************)
(* DefinitionHistory for TLC.                                              *)
(***************************************************************************)
EXTENDS DefinitionHistory, TLC

Symmetry == Permutations(Req) \cup Permutations(Content)
=============================================================================
