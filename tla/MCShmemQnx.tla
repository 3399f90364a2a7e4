----------------------------- MODULE MCShmemQnx -----------------------------
(***************************************************************************)
(* Models of ShmemQnx for TLC: two clients and two scoids; a GET may ask   *)
(* for one unit, for two, which is what the answer needs, or for three,    *)
(* which is refused.  Offsets and lengths are 0, 1, 2 and -1 in unsigned   *)
(* arithmetic: Modulus is small enough for their sum to wrap, and large    *)
(* enough to hold 2 * MaxSize, as 2^32 is.                                 *)
(***************************************************************************)
EXTENDS ShmemQnx, TLC

Symmetry == Permutations(Clients) \cup Permutations(Scoids)
=============================================================================
