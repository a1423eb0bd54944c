---------------------------- MODULE MCSystemParts ----------------------------
(* SystemParts for TLC: sizes around every class and every power of two. *)
EXTENDS SystemParts

MCBoundaries == SizesOffered \cup {2 ^ n : n \in 0 .. Bits - 1}

MCAroundBoundaries == {0} \cup UNION {{s - 1, s, s + 1} : s \in MCBoundaries}
=============================================================================
