----------------------------- MODULE Vocabulary ------------------------------
(***************************************************************************)
(* The vocabulary of the loaded model: one set of tokens for the prompts,  *)
(* the answers and the automaton of what was said.                         *)
(***************************************************************************)
CONSTANT Token
==============================================================================
