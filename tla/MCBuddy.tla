------------------------------- MODULE MCBuddy -------------------------------
(* Buddy for TLC. *)
EXTENDS Buddy

(* The places of refills in a small address space, but for that of nullptr: *)
(* two neighbours may make up a block of 8, four of them a whole one of 16. *)
MCAddressSpace == {4, 8, 12, 16, 20, 24, 28}
=============================================================================
