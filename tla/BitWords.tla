------------------------------- MODULE BitWords -------------------------------
(***************************************************************************)
(* Unsigned words as the sets of the positions of their one bits: a mask   *)
(* is an intersection, | a union and ^ a symmetric difference, and one     *)
(* definition serves TLC and the provers.                                  *)
(***************************************************************************)
EXTENDS Integers

Bits(n) == SUBSET (0 .. 8 * n - 1)       \* words of n octets

Shr(x, k)    == {b \in 0 .. 63 : b + k \in x}
Shl(x, k, n) == {b \in 0 .. 8 * n - 1 : b - k \in x}
Xor(x, y)    == (x \ y) \cup (y \ x)
Ror(x, k)    == {b \in 0 .. 31 : (b + k) % 32 \in x}   \* of 32 bits
=============================================================================
