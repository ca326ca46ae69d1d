------------------------------- MODULE Lookup2 -------------------------------
(***************************************************************************)
(* util/lookup2.c: the hash that ldid -T- writes into dylibs, its variants *)
(* and the self-test that comes with it.  ub4, an unsigned long, has four  *)
(* octets or, on 64-bit hosts, eight: a word has Digits digits of Words.   *)
(***************************************************************************)
EXTENDS Words

CONSTANTS
  Digits,     \* 2 or 4
  Lengths,    \* of driver2's keys: some of 0 .. MAXLEN - 1
  Keys,       \* driver3's, of any octets
  MAXPAIR,    \* 80
  MixInputs   \* triples of words of two digits

\* Words of four octets, and three of them.
Word32  == (0 .. Base - 1) \X (0 .. Base - 1)
Word32s == Word32 \X Word32 \X Word32

ASSUME LookupAssumption ==
  /\ Digits \in {2, 4}
  /\ \A key \in Keys : Len(key) \in Nat /\ \A p \in 1 .. Len(key) : key[p] \in 0 .. 255
  /\ MixInputs \subseteq Word32s

VARIABLE test  \* the running test, and its result so far

\* Of two digits, the low one first.
Ub4(low, high) == IF Digits = 2 THEN <<low, high>> ELSE <<low, high, 0, 0>>
Golden == Ub4(\h79b9, \h9e37)
Zeros  == Ub4(0, 0)
OfInt(i) == Ub4(i, 0)

\* a -= b; a -= c; a ^= (c >> 13); b -= c; b -= a; b ^= (a << 8); ...: nine times the same,
\* with what was mixed last at the end of v.  To the left where the number is negative.
Shifts == <<13, -8, 13, 12, -16, 5, 3, -10, 15>>
Shift(x, n) == IF n > 0 THEN Right(x, n) ELSE Left(x, -n)

\* Mutant: mix2 without its masks.
Unmasked(x, mask) == x

\* x & 0xffffffff, where there is a mask.
Masked(x, mask) == IF mask /\ Len(x) > 2 THEN <<x[1], x[2], 0, 0>> ELSE x

\* shifted and mixed are the steps that mask what they shift, or what comes of it.
MixStep(v, n, shifted, mixed) ==
  <<v[2], v[3], Masked(Eor(Minus(Minus(v[1], v[2]), v[3]),
                           Shift(Masked(v[3], n \in shifted), Shifts[n])), n \in mixed)>>
MixMasking(v, shifted, mixed) ==
  LET after[n \in 0 .. 9] == IF n = 0 THEN v ELSE MixStep(after[n - 1], n, shifted, mixed)
  IN  after[9]

Mix(v)  == MixMasking(v, {}, {})
Mix2(v) == MixMasking(v, {3, 4}, 5 .. 9)
-----------------------------------------------------------------------------
(* The hashes.  A key is length octets of memory from k on.                *)

AddTo(v, w) == <<Plus(v[1], w[1]), Plus(v[2], w[2]), Plus(v[3], w[3])>>

\* k[p] + ((ub4)k[p+1] << 8) + ...: n octets, at most four.
Octets4(mem, p, n) ==
  LET o(i) == IF i < n THEN mem[p + i] ELSE 0
  IN  Ub4(o(0) + 256 * o(1), o(2) + 256 * o(3))

\* The w-th word of those octets from k on.
Words4(mem, k, n) == [w \in 1 .. n |-> Octets4(mem, k + 4 * (w - 1), 4)]

\* while (len >= 12): three words each time.
Blocks(words, n, initval) ==
  LET after[m \in 0 .. n] ==
        IF m = 0 THEN <<Golden, Golden, initval>>
        ELSE Mix(AddTo(after[m - 1], [i \in 1 .. 3 |-> words[3 * (m - 1) + i]]))
  IN  after[n]

\* Of n octets, those from the p-th on that go into one word.
From(n, p, most) == IF n <= p THEN 0 ELSE IF n - p > most THEN most ELSE n - p

\* The last 11 octets: the first one of c is for the length.
LastOctets(mem, k, length, counted, v) ==
  LET len == length % 12
      p   == k + length - len
  IN  Mix(AddTo(<<v[1], v[2], Plus(v[3], OfInt(counted))>>,
                <<Octets4(mem, p, From(len, 0, 4)), Octets4(mem, p + 4, From(len, 4, 4)),
                  Left(Octets4(mem, p + 8, From(len, 8, 3)), 8)>>))[3]

HashCounting(mem, k, length, counted, initval) ==
  LET n == length \div 12
  IN  LastOctets(mem, k, length, counted, Blocks(Words4(mem, k, 3 * n), n, initval))

Hash_(mem, k, length, initval) == HashCounting(mem, k, length, length, initval)

\* Of ub4s, key[1] the first.
Hash2(key, length, initval) ==
  LET n    == length \div 3
      rest == length % 3
      last(i) == IF i <= rest THEN key[length - rest + i] ELSE Zeros
      v    == Blocks([w \in 1 .. 3 * n |-> key[w]], n, initval)
  IN  Mix(AddTo(v, <<last(1), last(2), OfInt(length)>>))[3]

\* Aligned keys are read word by word, *(ub4 *)(k+0), on a little-endian host.
Load_(mem, p) == LET d(i) == mem[p + 2 * (i - 1)] + 256 * mem[p + 2 * (i - 1) + 1] IN Like(Zeros, d)
Loaded(mem, k, n) == [w \in 1 .. n |-> Load_(mem, k + 4 * (w - 1))]

Hash3(mem, k, length, initval) ==
  LET n     == length \div 12
      words == IF k % 4 # 0 THEN Words4(mem, k, 3 * n) ELSE Loaded(mem, k, 3 * n)
  IN  LastOctets(mem, k, length, length, Blocks(words, n, initval))
-----------------------------------------------------------------------------
(* The self-test.                                                          *)

\* driver2: does an input bit change every output bit?  left are its e, f, g, h, x, y.
Ones == [n \in 1 .. 6 |-> Not(Zeros)]
Driver2(hlen) == [driver |-> "driver2", hlen |-> hlen, i |-> 0, j |-> 0, m |-> 1, k |-> 0,
                  left |-> Ones, complaint |-> FALSE]

\* Zeros, but k, turned by j bits, in octet i.
Key(hlen, i, j, k) ==
  [p \in 0 .. hlen |-> IF p = i THEN ((k * 2^j) % 256) + ((k * 2^j) \div 256) ELSE 0]

\* The next initval, bit or octet; the loops are left for good after a complaint.
Turn(d, k) ==
  LET fresh == [d EXCEPT !.k = 0, !.left = Ones]
  IN  IF k = MAXPAIR THEN [d EXCEPT !.k = k, !.complaint = TRUE, !.i = d.hlen]
      ELSE IF d.m < 7 THEN [fresh EXCEPT !.m = @ + 1]
      ELSE IF d.j < 7 THEN [fresh EXCEPT !.m = 1, !.j = @ + 1]
      ELSE [fresh EXCEPT !.m = 1, !.j = 0, !.i = @ + 1]

\* e, f, g, h, x and y after another pair of hashes.
Left6(left, c, d) ==
  LET cd == Eor(c, d)
  IN  <<And(left[1], cd), And(left[2], Not(cd)), And(left[3], c), And(left[4], Not(c)),
        And(left[5], d), And(left[6], Not(d))>>

HashKey(k) == Hash_(Key(test.hlen, test.i, test.j, k), 0, test.hlen, OfInt(test.m))

Trial ==
  /\ test.driver = "driver2" /\ test.i < test.hlen
  /\ \E c \in {HashKey(test.k)}, d \in {HashKey(test.k + 1)} :
       \E left \in {Left6(test.left, c, d)} :
         test' = IF left = [n \in 1 .. 6 |-> Zeros] THEN Turn(test, test.k)
                 ELSE IF test.k + 2 = MAXPAIR THEN Turn(test, MAXPAIR)
                 ELSE [test EXCEPT !.k = @ + 2, !.left = left]

\* driver3: does what is around the key, at any alignment, have an influence?  Its sentence
\* has the initval 0, its keys of zeros have 1.  Beside it hash3 of the same key.
Driver3(h, key, initval) ==
  [driver |-> "driver3", h |-> h, key |-> key, initval |-> OfInt(initval), hashes |-> <<>>]

Around ==
  /\ test.driver = "driver3" /\ test.hashes = <<>>
  /\ LET b == test.h + 1
         i == Len(test.key)
         buf(c) == [p \in 0 .. b + i + 12 |-> IF p \in b .. b + i - 1 THEN test.key[p - b + 1] ELSE c]
     IN  test' = [test EXCEPT !.hashes = <<Hash_(buf(0), b, i, test.initval),
                                           Hash_(buf(255), b, i, test.initval),
                                           Hash3(buf(255), b, i, test.initval)>>]

\* driver4: empty keys, each hash the next one's initval.
Driver4 == [driver |-> "driver4", hashes |-> <<>>]

EmptyKey ==
  /\ test.driver = "driver4" /\ Len(test.hashes) < 8
  /\ LET h == IF test.hashes = <<>> THEN Zeros ELSE test.hashes[Len(test.hashes)]
     IN  test' = [test EXCEPT !.hashes = Append(@, Hash_(<<>>, 1, 0, h))]

\* mix2 with ub4s of eight octets beside mix with ub4s of four, and hash2 of the three
\* words, and as many of the same again as make n, beside hash of their octets.
Variants(v, n) == [driver |-> "variants", v |-> v, n |-> n, hashes |-> <<>>]

Compare ==
  /\ test.driver = "variants" /\ test.hashes = <<>>
  /\ LET key == [i \in 1 .. test.n |-> test.v[((i - 1) % 3) + 1]]
         mem == [p \in 0 .. 4 * test.n - 1 |->
                   (key[(p \div 4) + 1][((p % 4) \div 2) + 1] \div (IF p % 2 = 0 THEN 1 ELSE 256)) % 256]
         wide == Mix2([i \in 1 .. 3 |-> test.v[i] \o <<0, 0>>])
     IN  test' = [test EXCEPT !.hashes =
                    <<Mix(test.v), [i \in 1 .. 3 |-> SubSeq(wide[i], 1, 2)],
                      Hash2([i \in 1 .. test.n |-> key[i]], test.n, Zeros),
                      HashCounting(mem, 0, 4 * test.n, test.n, Zeros)>>]

HashInit ==
  test \in {Driver2(hlen) : hlen \in Lengths} \cup {Driver4}
             \cup {Driver3(h, key, n) : h \in 0 .. 7, key \in Keys, n \in 0 .. 1}
             \cup (IF Digits = 2 THEN {Variants(v, n) : v \in MixInputs, n \in 0 .. 7} ELSE {})
HashNext == Trial \/ Around \/ EmptyKey \/ Compare
HashSpec == HashInit /\ [][HashNext]_test
-----------------------------------------------------------------------------
\* driver2: every bit of a key changes every bit of the hash within 40 pairs.
EveryBitCounts == test.driver = "driver2" => ~test.complaint

\* driver3: nothing but the key is hashed; and hash3 is hash on little-endian hosts.
OnlyTheKeyIsHashed ==
  test.driver = "driver3" => \A i \in DOMAIN test.hashes : test.hashes[i] = test.hashes[1]

\* driver4: empty keys go on hashing.
EmptyKeysGoOn ==
  test.driver = "driver4" => \A i, j \in DOMAIN test.hashes :
                               i # j => test.hashes[i] # test.hashes[j]

\* What the comments say: mix2 with ub4s of eight octets is mix; hash2 is hash with the
\* length in ub4s.
VariantsAgree ==
  test.driver = "variants" /\ test.hashes # <<>> => /\ test.hashes[1] = test.hashes[2]
                                                    /\ test.hashes[3] = test.hashes[4]

\* The self-test has no complaints, and the variants are what the comments say of them.
SelfTestPasses == EveryBitCounts /\ OnlyTheKeyIsHashed /\ EmptyKeysGoOn /\ VariantsAgree
=============================================================================
