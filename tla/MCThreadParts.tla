---------------------------- MODULE MCThreadParts ----------------------------
(* ThreadParts for TLC. *)
EXTENDS ThreadParts

(* The thread is 1: 2 differs in the lowest bit, 3 in the second, 5 in the *)
(* third, so that posts need up to three rounds.                           *)
MCIds == {2, 3, 5}
=============================================================================
