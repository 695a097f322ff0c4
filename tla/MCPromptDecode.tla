--------------------------- MODULE MCPromptDecode ---------------------------
(* The calls of one chat session are alike.                                *)
EXTENDS PromptDecode, TLC

RunSymmetry == Permutations(Runs)
=============================================================================
