---------------------------- MODULE MCSharedParts ----------------------------
(* SharedParts for TLC. *)
EXTENDS SharedParts

(* Threads are interchangeable. *)
Symmetric == Permutations(Threads)
=============================================================================
