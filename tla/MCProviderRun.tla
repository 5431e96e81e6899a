---------------------------- MODULE MCProviderRun ----------------------------
(***************************************************************************)
(* ProviderRun for TLC.  The prompts of a run are interchangeable: nothing *)
(* in the specification or in the safety properties orders them.  The      *)
(* symmetry set is used by runs without liveness properties only.          *)
(***************************************************************************)
EXTENDS ProviderRun, TLC

PromptSymmetry == Permutations(Prompt)
=============================================================================
