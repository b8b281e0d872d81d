------------------------------ MODULE MCLandlock ------------------------------
(***************************************************************************)
(* Kernels without Landlock, with an ABI that is too old and with ABI 6;   *)
(* two accesses that they know and one that they do not.                   *)
(***************************************************************************)
EXTENDS Landlock

MCAccesses == {"read", "write", "newer"}

MCAbis == {-1, 5, 6}

MCAbiOf == [a \in MCAccesses |-> IF a = "newer" THEN 7 ELSE 1]

===============================================================================
