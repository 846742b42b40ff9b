---------------------------- MODULE MCPromptQueue ----------------------------
(* Small instances of PromptQueue for TLC. *)
EXTENDS PromptQueue, TLC

\* Bridges, sessions and keys can be exchanged.
QueueSymmetry ==
  Permutations(Bridges) \cup Permutations(Sessions) \cup Permutations(Keys)
=============================================================================
