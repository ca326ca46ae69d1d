-------------------------------- MODULE Words --------------------------------
(***************************************************************************)
(* Unsigned words for TLC, whose integers have 32 bits with the sign:      *)
(* sequences of 2 or 4 digits to the base 2^16, the lowest first, for 4 or *)
(* 8 octets.  Sums and differences wrap.                                   *)
(***************************************************************************)
EXTENDS Integers, Sequences

Base == 65536

\* A word with as many digits as x, all of them computed now.
Like(x, d(_)) == IF Len(x) = 2 THEN <<d(1), d(2)>> ELSE <<d(1), d(2), d(3), d(4)>>

Hex(high, low) == <<low, high>>   \* of four octets
Digit(x, i)    == IF i \in DOMAIN x THEN x[i] ELSE 0

\* With what the digits below carry or borrow: the highest of them that decides.
Plus(x, y) ==
  LET carry(k) == \E j \in 1 .. k - 1 : /\ x[j] + y[j] >= Base
                                        /\ \A l \in j + 1 .. k - 1 : x[l] + y[l] >= Base - 1
      d(k) == (x[k] + y[k] + (IF carry(k) THEN 1 ELSE 0)) % Base
  IN  Like(x, d)

Minus(x, y) ==
  LET borrow(k) == \E j \in 1 .. k - 1 : x[j] < y[j] /\ \A l \in j + 1 .. k - 1 : x[l] <= y[l]
      d(k) == (x[k] - y[k] - (IF borrow(k) THEN 1 ELSE 0)) % Base
  IN  Like(x, d)

\* x >> n and x << n
Right(x, n) ==
  LET r == 2^(n % 16)
      d(k) == (Digit(x, k + n \div 16) \div r) + (Digit(x, k + 1 + n \div 16) % r) * (Base \div r)
  IN  Like(x, d)
Left(x, n) ==
  LET r == 2^(n % 16)
      d(k) == (Digit(x, k - n \div 16) % (Base \div r)) * r + (Digit(x, k - 1 - n \div 16) \div (Base \div r))
  IN  Like(x, d)

\* x & y of four bits, and of a digit
Nibbles == [i \in 0 .. 15 |-> [j \in 0 .. 15 |->
             LET b(n) == IF (i \div n) % 2 = 1 /\ (j \div n) % 2 = 1 THEN n ELSE 0
             IN  b(1) + b(2) + b(4) + b(8)]]
Both(i, j) == Nibbles[i % 16][j % 16] + 16 * Nibbles[(i \div 16) % 16][(j \div 16) % 16]
                + 256 * Nibbles[(i \div 256) % 16][(j \div 256) % 16]
                + 4096 * Nibbles[i \div 4096][j \div 4096]

And(x, y) == LET d(k) == Both(x[k], y[k]) IN Like(x, d)
Or(x, y)  == LET d(k) == x[k] + y[k] - Both(x[k], y[k]) IN Like(x, d)
Eor(x, y) == LET d(k) == x[k] + y[k] - 2 * Both(x[k], y[k]) IN Like(x, d)
Not(x)    == LET d(k) == Base - 1 - x[k] IN Like(x, d)
=============================================================================
