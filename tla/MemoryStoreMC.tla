---------------------------- MODULE MemoryStoreMC ----------------------------
(* Instances of MemoryStore for TLC. *)
EXTENDS MemoryStore, TLC

\* Requests of one handler differ in nothing but their names, and so do keys.
Symmetry == Permutations(Requests) \cup Permutations(Speeches) \cup Permutations(Keys)
=============================================================================
