------------------------------- MODULE MCRange -------------------------------
(***************************************************************************)
(* Instances of Range for TLC.  A page is two of the smallest blocks, a    *)
(* refill two pages, and page 0 is never mapped.                           *)
(***************************************************************************)
EXTENDS Range, TLC

(* mmap places its mappings above twice the refill size, as operating      *)
(* systems do: page 2 is the one that a failed refill of 2 pages unmaps.   *)
MCHighPages == 4 .. 8

(* An address space in which mmap also uses the low pages.                 *)
MCLowPages == 1 .. 7
=============================================================================
