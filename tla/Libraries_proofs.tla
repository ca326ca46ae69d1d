-------------------------- MODULE Libraries_proofs --------------------------
(***************************************************************************)
(* Headers and libraries that programs are compiled with, and a sample for *)
(* the phone, for all inputs.                                              *)
(*                                                                         *)
(* ByteOrder: for files of any size, any set of hosts and any words, every *)
(* host reads the integer that any other host wrote.  The argument:        *)
(* all swaps but one mirror the octets of a word; a field lies octet by    *)
(* octet in its own order; so a load gives the word on hosts of that order *)
(* and its mirror image on the others.                                     *)
(*                                                                         *)
(* MachRpc: arguments and results of every routine arrive.  The argument:  *)
(* whatever fits is found where it was put, by induction over the fields;  *)
(* and the tables of the two headers, routine by routine, give every array *)
(* room for what its count allows and a count before it.                   *)
(*                                                                         *)
(* LocalPush and Emulated: the state that outlives a block, a turn of a    *)
(* loop or a sort is what the next one takes it for.                       *)
(***************************************************************************)
EXTENDS ByteOrder, MachRpc, LocalPush, Emulated, SequenceTheorems, WellFoundedInduction,
        FiniteSetTheorems, TLAPS

(* Induction, over sets of numbers.                                        *)

\* Every non-empty set of natural numbers has a least one.
LEMMA LeastNumber ==
  ASSUME NEW T \in SUBSET Nat, T # {} PROVE \E x \in T : \A y \in T : x <= y
<1> DEFINE R == OpToRel(<, Nat)
<1>1. IsWellFoundedOn(R, Nat) BY NatLessThanWellFounded
<1>2. \A x, y \in T : y < x => <<y, x>> \in R BY DEF OpToRel
<1> HIDE DEF R
<1>3. PICK x \in T : \A y \in T : ~(<<y, x>> \in R) BY <1>1, WFMin
<1>4. \A y \in T : ~(y < x) BY <1>2, <1>3
<1>5. \A y \in T : x <= y BY <1>4
<1> QED BY <1>5

\* A set that has 0 and with each number the next has all of them.
LEMMA Induction ==
  ASSUME NEW S, 0 \in S, \A n \in Nat : n \in S => n + 1 \in S PROVE \A n \in Nat : n \in S
<1> SUFFICES ASSUME Nat \ S # {} PROVE FALSE
  OBVIOUS
<1>1. PICK x \in Nat \ S : \A y \in Nat \ S : x <= y BY LeastNumber
<1>2. x # 0 /\ x - 1 \in Nat /\ x - 1 \notin Nat \ S BY <1>1
<1>3. x - 1 + 1 \in S BY <1>2
<1> QED BY <1>1, <1>3
-----------------------------------------------------------------------------
(* ByteOrder: words of either order.                                       *)

\* The word of n octets read from its other end.
Mirror(n, x) == {b \in 0 .. 8 * n - 1 : 8 * (n - 1 - b \div 8) + (b % 8) \in x}

\* The mirror image of a word is a word.
LEMMA MirrorIsWord == ASSUME NEW n \in Widths, NEW x PROVE Mirror(n, x) \in Bits(n)
  BY DEF Mirror, Bits

\* Where bit b of the mirror image comes from.
From(n, b) == 8 * (n - 1 - b \div 8) + (b % 8)

\* Mirrored twice, every bit is where it was.
LEMMA FromTwice ==
  ASSUME NEW n \in Widths, NEW b \in 0 .. 8 * n - 1
  PROVE  From(n, b) \in 0 .. 8 * n - 1 /\ From(n, From(n, b)) = b
<1>1. ASSUME NEW c \in 0 .. 15 PROVE From(2, c) \in 0 .. 15 /\ From(2, From(2, c)) = c
  BY DEF From
<1>2. ASSUME NEW c \in 0 .. 31 PROVE From(4, c) \in 0 .. 31 /\ From(4, From(4, c)) = c
  BY DEF From
<1>3. ASSUME NEW c \in 0 .. 63 PROVE From(8, c) \in 0 .. 63 /\ From(8, From(8, c)) = c
  BY DEF From
<1>4. CASE n = 2
  <2>1. 8 * n - 1 = 15 BY <1>4
  <2> QED BY <1>1, <1>4, <2>1
<1>5. CASE n = 4
  <2>1. 8 * n - 1 = 31 BY <1>5
  <2> QED BY <1>2, <1>5, <2>1
<1>6. CASE n = 8
  <2>1. 8 * n - 1 = 63 BY <1>6
  <2> QED BY <1>3, <1>6, <2>1
<1> QED BY <1>4, <1>5, <1>6 DEF Widths

\* A word that is swapped twice is the word again.
LEMMA MirrorTwice ==
  ASSUME NEW n \in Widths, NEW x \in Bits(n) PROVE Mirror(n, Mirror(n, x)) = x
<1>1. Mirror(n, Mirror(n, x)) = {b \in 0 .. 8 * n - 1 : From(n, b) \in Mirror(n, x)}
  BY DEF Mirror, From
<1>2. \A b \in 0 .. 8 * n - 1 : From(n, b) \in Mirror(n, x) <=> b \in x
  BY FromTwice DEF Mirror, From
<1>3. {b \in 0 .. 8 * n - 1 : b \in x} = x BY Zenon DEF Bits
<1> QED BY <1>1, <1>2, <1>3
-----------------------------------------------------------------------------
(* Every swap but the 64-bit one of libkern/arm/ mirrors its argument.     *)

\* The halves of a 16-bit word change places, on every host.
LEMMA Swaps16 ==
  ASSUME NEW h \in Hosts, NEW x \in Bits(2) PROVE Swaps(h, 2, x) = {Mirror(2, x)}
<1>1. OSSwapConstInt16(x) = Mirror(2, x) BY DEF OSSwapConstInt16, Mirror, Shr, Shl, Bits
<1>2. NXSwapShort(x) = Mirror(2, x)      BY DEF NXSwapShort, Mirror, Shr, Shl, Bits
<1>3. LdidSwap16(x) = Mirror(2, x)       BY DEF LdidSwap16, Mirror, Shr, Shl, Bits
<1>4. ArmSwap16(x) = Mirror(2, x)        BY DEF ArmSwap16, Mirror, Shr, Shl, Bits
<1> QED BY <1>1, <1>2, <1>3, <1>4 DEF Swaps, _OSSwapInt

\* So do the four octets of a 32-bit word, with three different ways of doing it.
LEMMA Swaps32 ==
  ASSUME NEW h \in Hosts, NEW x \in Bits(4) PROVE Swaps(h, 4, x) = {Mirror(4, x)}
<1>1. OSSwapConstInt32(x) = Mirror(4, x) BY DEF OSSwapConstInt32, Mirror, Shr, Shl, Bits
<1>2. NXSwapInt(x) = Mirror(4, x)        BY DEF NXSwapInt, Mirror, Shr, Shl, Bits
<1>3. NXSwapLong(x) = Mirror(4, x)
  <2>1. x \cap 0 .. 31 = x
    <3>1. x \subseteq 0 .. 31 BY DEF Bits
    <3> QED BY <3>1, Zenon
  <2> QED BY <1>2, <2>1 DEF NXSwapLong
<1>4. LdidSwap32(x) = Mirror(4, x)       BY DEF LdidSwap32, Mirror, Shr, Shl, Bits
<1>5. ArmSwap32(x) = Mirror(4, x)        BY DEF ArmSwap32, Mirror, Shr, Shl, Bits, Xor, Ror
<1> QED BY <1>1, <1>2, <1>3, <1>4, <1>5 DEF Swaps, _OSSwapInt

\* The 64-bit swap of libkern/arm/ keeps one octet out of its result.
LEMMA ArmSwap64LosesOctet ==
  ASSUME NEW x \in Bits(8) PROVE ArmSwap64(x) = Mirror(8, x) \ (0 .. 7)
<1>1. ASSUME NEW y \in Bits(4) PROVE ArmSwap32(y) = Mirror(4, y)
  BY DEF ArmSwap32, Mirror, Shr, Shl, Bits, Xor, Ror
<1> DEFINE lo == x \cap 0 .. 31
           hi == Shr(x, 32) \cap 0 .. 23
<1>2. lo \in Bits(4) /\ hi \in Bits(4) BY DEF Bits
<1>3. ArmSwap64(x) = Shl(Mirror(4, lo), 32, 8) \cup Mirror(4, hi)
  BY <1>1, <1>2 DEF ArmSwap64
<1> QED BY <1>3 DEF Mirror, Shr, Shl, Bits

\* The 64-bit swaps mirror their argument, except that one.
LEMMA Swaps64 ==
  ASSUME NEW h \in Hosts, NEW x \in Bits(8)
  PROVE  Swaps(h, 8, x) = {IF h = "arm" THEN Mirror(8, x) \ (0 .. 7) ELSE Mirror(8, x)}
<1>1. OSSwapConstInt64(x) = Mirror(8, x) BY DEF OSSwapConstInt64, Mirror, Shr, Shl, Bits
<1> QED BY <1>1, ArmSwap64LosesOctet DEF Swaps, _OSSwapInt

\* What a swap on h makes of x, whichever it is.
LEMMA SwapsMirror ==
  ASSUME NEW h \in Hosts, NEW n \in Widths, NEW x \in Bits(n)
  PROVE  /\ Swaps(h, n, x) = {IF h = "arm" /\ n = 8 THEN Mirror(n, x) \ (0 .. 7)
                              ELSE Mirror(n, x)}
         /\ _OSSwapInt(h, n, x) \in Swaps(h, n, x)
<1>1. _OSSwapInt(h, n, x) \in Swaps(h, n, x) BY DEF Swaps
<1>2. CASE n = 2 BY <1>1, <1>2, Swaps16
<1>3. CASE n = 4 BY <1>1, <1>3, Swaps32
<1>4. CASE n = 8 BY <1>1, <1>4, Swaps64
<1> QED BY <1>2, <1>3, <1>4 DEF Widths
-----------------------------------------------------------------------------
(* A field that lies in the file in its order is read as its value, or as  *)
(* the mirror image of it.                                                 *)

Placed(m, a, o, n, x) == \A i \in 0 .. n - 1 : m[a + Place(o, n, i)] = OctetOf(x, i)

\* A bit is the octet it lies in and its place there.
LEMMA Division ==
  ASSUME NEW n \in Widths, NEW b \in 0 .. 8 * n - 1
  PROVE  b \div 8 \in 0 .. n - 1 /\ b % 8 \in 0 .. 7 /\ 8 * (b \div 8) + (b % 8) = b
  BY DEF Widths

\* A load in the order of the host reads the word, or the mirror image that the other order makes.
LEMMA LoadPlaced ==
  ASSUME NEW h \in Hosts, NEW o \in Orders, NEW n \in Widths, NEW x \in Bits(n),
         NEW m, NEW a \in Nat, Placed(m, a, o, n, x)
  PROVE  _OSReadInt(h, n, m, a) = IF o = HostOrder(h) THEN x ELSE Mirror(n, x)
<1>1. ASSUME NEW b \in 0 .. 8 * n - 1
      PROVE  b % 8 \in m[a + Place(HostOrder(h), n, b \div 8)] <=>
               IF o = HostOrder(h) THEN b \in x ELSE From(n, b) \in x
  <2> DEFINE i == b \div 8
  <2>1. i \in 0 .. n - 1 /\ n - 1 - i \in 0 .. n - 1 /\ b % 8 \in 0 .. 7 /\ 8 * i + (b % 8) = b
    BY Division DEF Widths
  <2>2. CASE o = HostOrder(h)
    <3>1. m[a + Place(HostOrder(h), n, i)] = OctetOf(x, i) BY <2>1, <2>2 DEF Placed
    <3> QED BY <2>1, <2>2, <3>1 DEF OctetOf
  <2>3. CASE o # HostOrder(h)
    <3>1. Place(HostOrder(h), n, i) = Place(o, n, n - 1 - i)
      BY <2>1, <2>3 DEF Place, HostOrder, Orders, Widths
    <3>2. m[a + Place(HostOrder(h), n, i)] = OctetOf(x, n - 1 - i) BY <2>1, <3>1 DEF Placed
    <3> QED BY <2>1, <2>3, <3>2 DEF OctetOf, From
  <2> QED BY <2>2, <2>3
<1>2. CASE o = HostOrder(h)
  <2>1. _OSReadInt(h, n, m, a) = {b \in 0 .. 8 * n - 1 : b \in x} BY <1>1, <1>2 DEF _OSReadInt
  <2>2. {b \in 0 .. 8 * n - 1 : b \in x} = x BY Zenon DEF Bits
  <2> QED BY <1>2, <2>1, <2>2
<1>3. CASE o # HostOrder(h)
  <2>1. _OSReadInt(h, n, m, a) = {b \in 0 .. 8 * n - 1 : From(n, b) \in x}
    BY <1>1, <1>3 DEF _OSReadInt
  <2> QED BY <1>3, <2>1 DEF Mirror, From
<1> QED BY <1>2, <1>3

\* A store leaves the word, or the mirror image that it was given, in order o.
LEMMA StorePlaces ==
  ASSUME NEW h \in Hosts, NEW o \in Orders, NEW n \in Widths, NEW x \in Bits(n),
         NEW a \in Nat, a + n <= FileSize, NEW m \in [Addresses -> ByteValue]
  PROVE  LET y == IF o = HostOrder(h) THEN x ELSE Mirror(n, x)
         IN  Placed(_OSWriteInt(h, n, m, a, y), a, o, n, x)
<1> DEFINE y == IF o = HostOrder(h) THEN x ELSE Mirror(n, x)
           w == _OSWriteInt(h, n, m, a, y)
<1> SUFFICES ASSUME NEW i \in 0 .. n - 1
             PROVE  w[a + Place(o, n, i)] = OctetOf(x, i)
  BY Zenon DEF Placed
<1>1. Place(o, n, i) \in 0 .. n - 1 BY DEF Place, Widths
<1>2. a + Place(o, n, i) \in Addresses /\ a + Place(o, n, i) \in a .. a + n - 1
  BY <1>1, ByteOrderAssumption DEF Addresses, Widths
<1>3. w[a + Place(o, n, i)] = OctetOf(y, Place(HostOrder(h), n, Place(o, n, i)))
  BY <1>1, <1>2 DEF _OSWriteInt, Widths
<1>4. CASE o = HostOrder(h)
  <2>1. Place(o, n, Place(o, n, i)) = i BY DEF Place, Widths
  <2> QED BY <1>3, <1>4, <2>1
<1>5. CASE o # HostOrder(h)
  <2>1. Place(HostOrder(h), n, Place(o, n, i)) = n - 1 - i
    BY <1>5 DEF Place, HostOrder, Orders, Widths
  <2>2. ASSUME NEW k \in 0 .. 7
        PROVE  /\ 8 * (n - 1 - i) + k \in 0 .. 8 * n - 1
               /\ From(n, 8 * (n - 1 - i) + k) = 8 * i + k
    <3>1. (8 * (n - 1 - i) + k) \div 8 = n - 1 - i /\ (8 * (n - 1 - i) + k) % 8 = k
      BY DEF Widths
    <3> QED BY <3>1 DEF From, Widths
  <2>3. OctetOf(Mirror(n, x), n - 1 - i) = OctetOf(x, i)
    BY <2>2 DEF OctetOf, Mirror, From
  <2> QED BY <1>3, <1>5, <2>1, <2>3
<1> QED BY <1>4, <1>5
-----------------------------------------------------------------------------
(* The inductive invariant: every field lies within the file, in its order. *)

WellPlaced ==
  /\ FileTypeOK
  /\ \A a \in Addresses : fields[a] # NoField =>
       /\ a + fields[a].width <= FileSize
       /\ fields[a].value \in Bits(fields[a].width)
       /\ Placed(file, a, fields[a].order, fields[a].width, fields[a].value)

\* A new file is well placed: no field has been written.
LEMMA InitPlaced == FileInit => WellPlaced
  BY DEF FileInit, WellPlaced, FileTypeOK, ByteValue, Bits, Addresses

\* The octet that the device's swap loses of the mirror image is the highest of the word.
LEMMA SwappedMirror ==
  ASSUME NEW x \in Bits(8) PROVE Mirror(8, x) \ (0 .. 7) = Mirror(8, x \ (56 .. 63))
BY DEF Mirror, Bits

\* What is left of a word is a word.
LEMMA SwappedIsWord ==
  ASSUME NEW h, NEW o, NEW n \in Widths, NEW x \in Bits(n) PROVE Swapped(h, o, n, x) \in Bits(n)
BY DEF Swapped, Bits

\* What Write stores is the word in the order of the host, or its mirror image.
LEMMA WriteStores ==
  ASSUME NEW h \in Hosts, NEW o \in Orders, NEW n \in Widths, NEW a \in Addresses,
         NEW x \in Bits(n), Write(h, o, n, a, x)
  PROVE  LET s == Swapped(h, o, n, x)
         IN  file' = _OSWriteInt(h, n, file, a, IF o = HostOrder(h) THEN s ELSE Mirror(n, s))
<1>1. CASE o = HostOrder(h) BY <1>1 DEF Write, OSWriteInt, SwapsHost, Swapped
<1>2. CASE o # HostOrder(h)
  <2>1. Swaps(h, n, x) = {Mirror(n, Swapped(h, o, n, x))}
    <3>1. CASE h = "arm" /\ n = 8
      <4>1. Swaps(h, n, x) = {Mirror(n, x) \ (0 .. 7)} BY <3>1, SwapsMirror
      <4>2. Swapped(h, o, n, x) = x \ (56 .. 63) BY <1>2, <3>1 DEF Swapped
      <4>3. Mirror(n, x) \ (0 .. 7) = Mirror(n, x \ (56 .. 63)) BY <3>1, SwappedMirror
      <4> QED BY <4>1, <4>2, <4>3
    <3>2. CASE ~(h = "arm" /\ n = 8) BY <3>2, SwapsMirror DEF Swapped
    <3> QED BY <3>1, <3>2
  <2>2. _OSSwapInt(h, n, x) = Mirror(n, Swapped(h, o, n, x)) BY <2>1, SwapsMirror
  <2> QED BY <1>2, <2>1, <2>2 DEF Write, OSWriteInt, OSWriteSwapInt, SwapsHost
<1> QED BY <1>1, <1>2

\* Whatever function writes a field, the file is well placed again.
LEMMA WritePlaces ==
  ASSUME WellPlaced, NEW h \in Hosts, NEW o \in Orders, NEW n \in Widths,
         NEW a \in Addresses, NEW x \in Values(n), Write(h, o, n, a, x)
  PROVE  WellPlaced'
<1> DEFINE s == Swapped(h, o, n, x)
           y == IF o = HostOrder(h) THEN s ELSE Mirror(n, s)
<1>a. x \in Bits(n) /\ Bits(n) \subseteq Bits(8)
  BY ByteOrderAssumption DEF Widths, Bits
<1>1. s \in Bits(n) /\ Bits(n) \subseteq Bits(8) BY <1>a, SwappedIsWord
<1>2. file' = _OSWriteInt(h, n, file, a, y) BY <1>a, WriteStores
<1> HIDE DEF s
<1>3. a \in Nat /\ n \in Nat /\ a + n <= FileSize BY DEF Write, Addresses, Widths
<1>4. FileTypeOK'
  <2>1. file' \in [Addresses -> ByteValue]
    BY <1>2 DEF _OSWriteInt, OctetOf, ByteValue, Bits, WellPlaced, FileTypeOK
  <2>2. [width |-> n, order |-> o, value |-> s] \in Field BY <1>1 DEF Field
  <2>3. fields' \in [Addresses -> Field \cup {NoField}]
    BY <2>2 DEF Write, WellPlaced, FileTypeOK, s
  <2> QED BY <2>1, <2>3 DEF FileTypeOK
<1>5. ASSUME NEW b \in Addresses, fields'[b] # NoField
      PROVE  /\ b + fields'[b].width <= FileSize
             /\ fields'[b].value \in Bits(fields'[b].width)
             /\ Placed(file', b, fields'[b].order, fields'[b].width, fields'[b].value)
  <2>1. CASE b = a
    <3>1. fields'[b] = [width |-> n, order |-> o, value |-> s] BY <2>1 DEF Write, s
    <3>2. Placed(file', a, o, n, s)
      BY <1>1, <1>2, <1>3, StorePlaces DEF WellPlaced, FileTypeOK
    <3> QED BY <1>1, <1>3, <2>1, <3>1, <3>2
  <2>2. CASE b # a
    <3>1. fields'[b] = fields[b] /\ fields[b] # NoField /\ ~Overlap(a, n, b)
      BY <1>5, <2>2 DEF Write
    <3> DEFINE f == fields[b]
    <3>2. f \in Field BY <3>1 DEF WellPlaced, FileTypeOK
    <3>3. ASSUME NEW i \in 0 .. f.width - 1
          PROVE  file'[b + Place(f.order, f.width, i)] = file[b + Place(f.order, f.width, i)]
      <4>1. Place(f.order, f.width, i) \in 0 .. f.width - 1
        BY <3>2 DEF Field, Place, Widths
      <4>2. /\ b + Place(f.order, f.width, i) \in Addresses
            /\ b + Place(f.order, f.width, i) \notin a .. a + n - 1
        BY <1>3, <3>1, <3>2, <4>1, ByteOrderAssumption
        DEF Overlap, Addresses, WellPlaced, Field, Widths
      <4> QED BY <1>2, <4>2 DEF _OSWriteInt, WellPlaced, FileTypeOK
    <3>4. Placed(file, b, f.order, f.width, f.value) BY <3>1 DEF WellPlaced
    <3>5. Placed(file', b, f.order, f.width, f.value) BY <3>3, <3>4 DEF Placed
    <3> QED BY <3>1, <3>5 DEF WellPlaced
  <2> QED BY <2>1, <2>2
<1> QED BY <1>4, <1>5 DEF WellPlaced

\* Whichever hosts write whichever integers, every field lies in the file in its own order.
THEOREM AlwaysWellPlaced == FileSpec => []WellPlaced
<1>1. WellPlaced /\ [FileNext]_fileVars => WellPlaced'
  <2> SUFFICES ASSUME WellPlaced, [FileNext]_fileVars PROVE WellPlaced'
    OBVIOUS
  <2>1. CASE FileNext BY <2>1, WritePlaces DEF FileNext
  <2>2. CASE UNCHANGED fileVars
    BY <2>2 DEF fileVars, WellPlaced, FileTypeOK, Placed
  <2> QED BY <2>1, <2>2
<1> QED BY <1>1, InitPlaced, PTL DEF FileSpec

\* The file holds octets and the fields are words of the widths of the headers.
THEOREM FileTypeCorrect == FileSpec => []FileTypeOK
<1>1. WellPlaced => FileTypeOK BY DEF WellPlaced
<1> QED BY <1>1, AlwaysWellPlaced, PTL

\* Every host reads the integers that any host wrote, except that the device loses the
\* highest octet of a big-endian 64-bit integer that it writes, and the lowest octet of one
\* that it reads.
THEOREM ReadersAlwaysAgree == FileSpec => []ReadersAgree
<1>1. WellPlaced => ReadersAgree
  <2> SUFFICES ASSUME WellPlaced, NEW a \in Addresses, NEW h \in Hosts, fields[a] # NoField
               PROVE  LET f == fields[a]
                      IN  Reads(h, a) = {IF f.width = 8 /\ h = "arm" /\ f.order = "big"
                                         THEN f.value \ (0 .. 7) ELSE f.value}
    BY Zenon DEF ReadersAgree
  <2> DEFINE f == fields[a]
             o == f.order
             n == f.width
             x == f.value
             y == _OSReadInt(h, n, file, a)
  <2>1. o \in Orders /\ n \in Widths /\ x \in Bits(n) /\ Placed(file, a, o, n, x) /\ a \in Nat
    BY DEF WellPlaced, FileTypeOK, Field, Addresses
  <2>2. y = IF o = HostOrder(h) THEN x ELSE Mirror(n, x) BY <2>1, LoadPlaced
  <2>3. CASE o = HostOrder(h)
    <3>1. ~(h = "arm" /\ o = "big") BY <2>3 DEF HostOrder
    <3>2. Reads(h, a) = {x} BY <2>2, <2>3 DEF Reads, OSReadInt, SwapsHost
    <3> QED BY <3>1, <3>2
  <2>4. CASE o # HostOrder(h)
    <3>1. h = "arm" => o = "big" BY <2>1, <2>4 DEF HostOrder, Orders
    <3>2. Reads(h, a) = {_OSSwapInt(h, n, y)} \cup Swaps(h, n, y)
      BY <2>4 DEF Reads, OSReadInt, OSReadSwapInt, SwapsHost
    <3>3. y \in Bits(n) /\ Mirror(n, y) = x BY <2>1, <2>2, <2>4, MirrorIsWord, MirrorTwice
    <3>4. Reads(h, a) = {IF h = "arm" /\ n = 8 THEN x \ (0 .. 7) ELSE x}
      BY <2>1, <3>2, <3>3, SwapsMirror
    <3> QED BY <3>1, <3>4
  <2> QED BY <2>3, <2>4
<1> QED BY <1>1, AlwaysWellPlaced, PTL
-----------------------------------------------------------------------------
(* MachRpc: messages.                                                      *)

\* A message as the headers have them: every array behind the value that counts it.
Layout(format) ==
  /\ Len(format) \in 0 .. 8 /\ DOMAIN format = 1 .. Len(format)
  /\ \A k \in DOMAIN format : format[k].max \in Nat
  /\ \A j, k \in DOMAIN format : format[j].name = format[k].name => j = k
  /\ \A k \in DOMAIN format :
       \/ format[k].kind = "descriptor"
       \/ format[k].kind = "word" /\ format[k].max = 1 /\ format[k].name \notin DOMAIN CountOf
       \/ /\ format[k].kind = "array" /\ format[k].max <= 144
          /\ \E j \in 1 .. k - 1 : format[j].kind = "word" /\ Counts(format[j].name, format[k].name)
-----------------------------------------------------------------------------
(* Where fields begin.                                                     *)

Summing(ls, n, g) == g = [k \in 1 .. n + 1 |-> IF k = 1 THEN 1 ELSE g[k - 1] + ls[k - 1]]

\* There are places for any number of fields.
LEMMA StartsExist == ASSUME NEW ls PROVE \A n \in Nat : \E g : Summing(ls, n, g)
<1> DEFINE S == {n \in Nat : \E g : Summing(ls, n, g)}
<1>1. 0 \in S
  <2>1. Summing(ls, 0, [k \in 1 .. 0 + 1 |-> 1]) BY DEF Summing
  <2> QED BY <2>1
<1>2. ASSUME NEW n \in Nat, n \in S PROVE n + 1 \in S
  <2>1. PICK g : Summing(ls, n, g) BY <1>2
  <2> DEFINE h == [k \in 1 .. n + 1 + 1 |-> IF k = 1 THEN 1 ELSE g[k - 1] + ls[k - 1]]
  <2>2. \A k \in 1 .. n + 1 : h[k] = g[k] BY <2>1 DEF Summing
  <2> HIDE DEF h
  <2>3. \A k \in 1 .. n + 1 + 1 : g[k - 1] = h[k - 1] \/ k = 1
    <3>1. \A k \in 1 .. n + 1 + 1 : k = 1 \/ k - 1 \in 1 .. n + 1 OBVIOUS
    <3> QED BY <2>2, <3>1
  <2>4. Summing(ls, n + 1, h) BY <2>3 DEF Summing, h
  <2> QED BY <2>4
<1> HIDE DEF S
<1>3. \A n \in Nat : n \in S BY <1>1, <1>2, Induction
<1> QED BY <1>3 DEF S

\* The first field begins at 1, each other one behind the one before.
LEMMA StartsSteps ==
  ASSUME NEW ls, Len(ls) \in Nat
  PROVE  /\ Starts(ls)[1] = 1
         /\ \A k \in 1 .. Len(ls) : Starts(ls)[k + 1] = Starts(ls)[k] + ls[k]
<1> DEFINE g == CHOOSE g : Summing(ls, Len(ls), g)
<1>2. Summing(ls, Len(ls), g) BY StartsExist
<1>3. Starts(ls) = g BY DEF Starts, Summing
<1> HIDE DEF g
<1>4. g[1] = 1 BY <1>2 DEF Summing
<1>5. ASSUME NEW k \in 1 .. Len(ls) PROVE g[k + 1] = g[k] + ls[k]
  <2>1. k + 1 \in 1 .. Len(ls) + 1 /\ k + 1 # 1 /\ (k + 1) - 1 = k OBVIOUS
  <2> QED BY <1>2, <2>1 DEF Summing
<1> QED BY <1>3, <1>4, <1>5

Lengths_(ls) == Len(ls) \in Nat /\ DOMAIN ls = 1 .. Len(ls) /\ \A k \in DOMAIN ls : ls[k] \in Nat

\* Fields do not overlap, and end where they may.
LEMMA StartsGrow ==
  ASSUME NEW ls, Lengths_(ls)
  PROVE  /\ \A k \in 1 .. Len(ls) + 1 : Starts(ls)[k] \in Nat \ {0}
         /\ \A j, k \in 1 .. Len(ls) + 1 : j < k => Starts(ls)[j] + ls[j] <= Starts(ls)[k]
         /\ \A k \in 1 .. Len(ls) : Starts(ls)[k + 1] = Starts(ls)[k] + ls[k]
<1> DEFINE from == Starts(ls)
<1>1. Len(ls) \in Nat /\ \A k \in 1 .. Len(ls) : ls[k] \in Nat BY DEF Lengths_
<1>2. from[1] = 1 /\ \A k \in 1 .. Len(ls) : from[k + 1] = from[k] + ls[k] BY <1>1, StartsSteps
<1> HIDE DEF from
<1> DEFINE S == {n \in Nat : n <= Len(ls) => from[n + 1] \in Nat \ {0}}
<1>3. 0 \in S BY <1>2
<1>4. ASSUME NEW n \in Nat, n \in S PROVE n + 1 \in S
  <2> SUFFICES ASSUME n + 1 <= Len(ls) PROVE from[n + 1 + 1] \in Nat \ {0}
    OBVIOUS
  <2>1. n + 1 \in 1 .. Len(ls) /\ from[n + 1] \in Nat \ {0} BY <1>1, <1>4
  <2> QED BY <1>1, <1>2, <2>1
<1>5. \A k \in 1 .. Len(ls) + 1 : from[k] \in Nat \ {0}
  <2> HIDE DEF S
  <2>1. \A n \in Nat : n \in S BY <1>3, <1>4, Induction
  <2>2. \A k \in 1 .. Len(ls) + 1 : k - 1 \in Nat /\ k - 1 <= Len(ls) /\ (k - 1) + 1 = k BY <1>1
  <2> QED BY <2>1, <2>2 DEF S
<1>6. ASSUME NEW j \in 1 .. Len(ls) + 1
      PROVE  \A k \in 1 .. Len(ls) + 1 : j < k => from[j] + ls[j] <= from[k]
  <2> DEFINE T == {n \in Nat : j + n + 1 <= Len(ls) + 1 => from[j] + ls[j] <= from[j + n + 1]}
  <2>1. 0 \in T BY <1>1, <1>2, <1>5
  <2>2. ASSUME NEW n \in Nat, n \in T PROVE n + 1 \in T
    <3> SUFFICES ASSUME j + n + 2 <= Len(ls) + 1 PROVE from[j] + ls[j] <= from[j + n + 2]
      OBVIOUS
    <3>1. j + n + 1 \in 1 .. Len(ls) /\ j + n + 2 \in 1 .. Len(ls) + 1 /\ j \in 1 .. Len(ls) BY <1>1
    <3>2. from[j + n + 2] = from[j + n + 1] + ls[j + n + 1] BY <1>2, <3>1
    <3>3. from[j] + ls[j] <= from[j + n + 1] BY <1>1, <2>2
    <3> QED BY SMTT(30), <1>1, <1>5, <3>1, <3>2, <3>3
  <2> HIDE DEF T
  <2>3. \A n \in Nat : n \in T BY <2>1, <2>2, Induction
  <2> SUFFICES ASSUME NEW k \in 1 .. Len(ls) + 1, j < k PROVE from[j] + ls[j] <= from[k]
    OBVIOUS
  <2>4. k - j - 1 \in Nat /\ j + (k - j - 1) + 1 = k /\ k <= Len(ls) + 1 BY <1>1
  <2> QED BY <2>3, <2>4 DEF T
<1> QED BY <1>2, <1>5, <1>6 DEF from

\* With shorter fields everything begins earlier; with fields of at most 144 words, not far.
LEMMA StartsBefore ==
  ASSUME NEW ls, NEW ms, Lengths_(ls), Lengths_(ms), Len(ms) = Len(ls),
         \A k \in 1 .. Len(ls) : ls[k] <= ms[k] /\ ms[k] <= 144
  PROVE  \A k \in 1 .. Len(ls) + 1 : Starts(ls)[k] <= Starts(ms)[k] /\ Starts(ms)[k] <= 1 + 144 * (k - 1)
<1> DEFINE f == Starts(ls)
           g == Starts(ms)
<1>1. Len(ls) \in Nat /\ \A k \in 1 .. Len(ls) : ls[k] \in Nat /\ ms[k] \in Nat BY DEF Lengths_
<1>2. f[1] = 1 /\ g[1] = 1 BY <1>1, StartsSteps
<1>3. \A k \in 1 .. Len(ls) : f[k + 1] = f[k] + ls[k] /\ g[k + 1] = g[k] + ms[k] BY <1>1, StartsSteps
<1>4. \A k \in 1 .. Len(ls) + 1 : f[k] \in Nat /\ g[k] \in Nat BY StartsGrow
<1> HIDE DEF f, g
<1> DEFINE S == {n \in Nat : n <= Len(ls) => f[n + 1] <= g[n + 1] /\ g[n + 1] <= 1 + 144 * n}
<1>5. 0 \in S BY <1>2
<1>6. ASSUME NEW n \in Nat, n \in S PROVE n + 1 \in S
  <2> SUFFICES ASSUME n + 1 <= Len(ls)
               PROVE  f[n + 1 + 1] <= g[n + 1 + 1] /\ g[n + 1 + 1] <= 1 + 144 * (n + 1)
    OBVIOUS
  <2>1. n + 1 \in 1 .. Len(ls) /\ f[n + 1] <= g[n + 1] /\ g[n + 1] <= 1 + 144 * n BY <1>1, <1>6
  <2>2. ls[n + 1] <= ms[n + 1] /\ ms[n + 1] <= 144 BY <2>1
  <2>3. f[n + 1 + 1] = f[n + 1] + ls[n + 1] /\ g[n + 1 + 1] = g[n + 1] + ms[n + 1] BY <1>3, <2>1
  <2>4. f[n + 1] \in Nat /\ g[n + 1] \in Nat /\ ls[n + 1] \in Nat /\ ms[n + 1] \in Nat
    BY <1>1, <1>4, <2>1
  <2> QED BY <2>1, <2>2, <2>3, <2>4
<1> HIDE DEF S
<1>7. \A n \in Nat : n \in S BY <1>5, <1>6, Induction
<1>8. \A k \in 1 .. Len(ls) + 1 : k - 1 \in Nat /\ k - 1 <= Len(ls) /\ (k - 1) + 1 = k BY <1>1
<1> QED BY <1>7, <1>8 DEF S, f, g
-----------------------------------------------------------------------------
(* The size of a message.                                                  *)

Caps(format) ==
  [k \in DOMAIN format |-> IF format[k].kind = "descriptor" THEN 0 ELSE format[k].max]

\* A message of the headers has at most eight fields of at most 144 words.
LEMMA SizeBound ==
  ASSUME NEW format, Layout(format)
  PROVE  /\ Lengths_(Caps(format)) /\ Len(Caps(format)) = Len(format)
         /\ \A k \in DOMAIN format : Caps(format)[k] <= 144
         /\ Size(format) \in Nat /\ Size(format) <= 1152
         /\ Size(format) = Starts(Caps(format))[Len(format) + 1] - 1
<1> DEFINE caps == Caps(format)
<1>1. Len(format) \in Nat /\ Len(format) <= 8 /\ DOMAIN format = 1 .. Len(format) BY DEF Layout
<1>2. DOMAIN caps = 1 .. Len(format) /\ Len(caps) = Len(format)
  <2>1. DOMAIN caps = 1 .. Len(format) BY <1>1 DEF Caps
  <2>2. caps \in [1 .. Len(format) -> Nat] BY <1>1 DEF Caps, Layout
  <2>3. caps \in Seq(Nat) BY <1>1, <2>2, SeqDef
  <2> QED BY <1>1, <2>1, <2>3, LenProperties
<1>3. \A k \in DOMAIN caps : caps[k] \in Nat /\ caps[k] <= 144 BY <1>1, <1>2 DEF Caps, Layout
<1>4. Lengths_(caps) BY <1>1, <1>2, <1>3 DEF Lengths_
<1>5. Size(format) = Starts(caps)[Len(format) + 1] - 1 BY DEF Size, Caps
<1> HIDE DEF caps
<1>6. Len(format) + 1 \in 1 .. Len(caps) + 1 BY <1>1, <1>2
<1>7. Starts(caps)[Len(format) + 1] \in Nat \ {0} BY <1>4, <1>6, StartsGrow
<1>8. \A k \in 1 .. Len(caps) : caps[k] <= caps[k] /\ caps[k] <= 144 BY <1>1, <1>2, <1>3
<1>9. Starts(caps)[Len(format) + 1] <= 1153
  <2>1. \A k \in 1 .. Len(caps) + 1 : Starts(caps)[k] <= 1 + 144 * (k - 1)
    BY <1>4, <1>8, StartsBefore
  <2>2. Starts(caps)[Len(format) + 1] <= 1 + 144 * (Len(format) + 1 - 1) BY <1>6, <2>1
  <2> QED BY <1>1, <1>7, <2>2
<1>10. Size(format) \in Nat /\ Size(format) <= 1152
  <2> DEFINE end == Starts(caps)[Len(format) + 1]
  <2>1. end \in Nat \ {0} /\ end <= 1153 /\ Size(format) = end - 1 BY <1>5, <1>7, <1>9
  <2> HIDE DEF end
  <2> QED BY <2>1
<1>11. \A k \in DOMAIN format : caps[k] <= 144 BY <1>1, <1>2, <1>3
<1> QED BY <1>2, <1>4, <1>5, <1>10, <1>11 DEF caps

\* The room for the messages of a subsystem suffices for each of them.
LEMMA RoomSuffices ==
  ASSUME NEW P, NEW Q, NEW r \in DOMAIN P \cup DOMAIN Q,
         \A m \in DOMAIN P : Layout(P[m]), \A m \in DOMAIN Q : Layout(Q[m])
  PROVE  Room(r, P, Q) \in Nat /\ Size((P ++ Q)[r]) <= Room(r, P, Q)
<1> DEFINE union == IF r \in DOMAIN P THEN P ELSE Q
           sizes == {Size(union[m]) : m \in DOMAIN union}
           Enough(n) == \A m \in DOMAIN union : Size(union[m]) <= n
<1>1. r \in DOMAIN union /\ (P ++ Q)[r] = union[r] BY DEF ++
<1>2. \A m \in DOMAIN union : Layout(union[m]) OBVIOUS
<1>3. ASSUME NEW m \in DOMAIN union PROVE Size(union[m]) \in Nat /\ Size(union[m]) <= 1152
  <2>1. Layout(union[m]) BY <1>2
  <2> QED BY <2>1, SizeBound
<1>4. Room(r, P, Q) = CHOOSE n \in sizes : Enough(n) BY DEF Room
<1> HIDE DEF union
<1>5. \E n \in sizes : Enough(n)
  <2> DEFINE lacks == {1152 - Size(union[m]) : m \in DOMAIN union}
  <2>1. lacks \in SUBSET Nat /\ lacks # {} BY <1>1, <1>3
  <2> HIDE DEF lacks
  <2>2. PICK x \in lacks : \A y \in lacks : x <= y BY <2>1, LeastNumber
  <2>3. PICK m \in DOMAIN union : x = 1152 - Size(union[m]) BY <2>2 DEF lacks
  <2>4. ASSUME NEW n \in DOMAIN union PROVE Size(union[n]) <= Size(union[m])
    <3>1. x <= 1152 - Size(union[n]) BY <2>2 DEF lacks
    <3>2. Size(union[n]) \in Nat /\ Size(union[m]) \in Nat BY <1>3
    <3> QED BY <2>3, <3>1, <3>2
  <2> QED BY <2>4
<1> DEFINE n == CHOOSE n \in sizes : Enough(n)
<1>6. n \in sizes /\ Enough(n) BY <1>5
<1> HIDE DEF n
<1>7. n \in Nat BY <1>3, <1>6
<1>8. Size(union[r]) <= n BY <1>1, <1>6
<1> QED BY <1>1, <1>4, <1>7, <1>8 DEF n
-----------------------------------------------------------------------------
(* What is packed is unpacked.                                             *)

Extents(format, memory) ==
  [k \in DOMAIN format |->
     IF format[k].kind = "descriptor" THEN 0 ELSE Len(memory[format[k].name])]

Words_(w, n) == n \in Nat /\ Len(w) = n /\ w = [i \in 1 .. n |-> w[i]]

\* Values are one word each, arrays as many as their counts say, and those fit.
Fits(format, memory) ==
  \A k \in DOMAIN format :
    /\ format[k].kind = "word" => Words_(memory[format[k].name], 1)
    /\ format[k].kind = "array" =>
         LET len == IntegerIn(memory[CountOf[format[k].name]])
         IN  Words_(memory[format[k].name], len) /\ len <= format[k].max

\* What Layout says of one field that is not a descriptor.
LEMMA FieldFits ==
  ASSUME NEW format, Layout(format), NEW memory, Fits(format, memory),
         NEW k \in DOMAIN format, format[k].kind # "descriptor"
  PROVE  /\ Len(memory[format[k].name]) \in Nat
         /\ Words_(memory[format[k].name], Len(memory[format[k].name]))
         /\ Len(memory[format[k].name]) <= format[k].max
<1>1. CASE format[k].kind = "word"
  <2>1. Words_(memory[format[k].name], 1) /\ format[k].max = 1 BY <1>1 DEF Layout, Fits
  <2> QED BY <2>1 DEF Words_
<1>2. CASE format[k].kind = "array"
  <2> DEFINE len == IntegerIn(memory[CountOf[format[k].name]])
  <2>1. Words_(memory[format[k].name], len) /\ len <= format[k].max BY <1>2 DEF Fits
  <2> QED BY <2>1 DEF Words_
<1> QED BY <1>1, <1>2 DEF Layout

\* What is packed fits the struct of the message.
LEMMA ExtentsFit ==
  ASSUME NEW format, Layout(format), NEW memory, Fits(format, memory)
  PROVE  /\ Lengths_(Extents(format, memory)) /\ Len(Extents(format, memory)) = Len(format)
         /\ DOMAIN Extents(format, memory) = 1 .. Len(format)
         /\ Starts(Extents(format, memory))[Len(format) + 1] - 1 <= Size(format)
<1> DEFINE ls == Extents(format, memory)
<1>1. Len(format) \in Nat /\ DOMAIN format = 1 .. Len(format) BY DEF Layout
<1>2. \A k \in DOMAIN format : ls[k] \in Nat /\ ls[k] <= Caps(format)[k]
  <2> TAKE k \in DOMAIN format
  <2>1. CASE format[k].kind = "descriptor" BY <2>1 DEF Extents, Caps
  <2>2. CASE format[k].kind # "descriptor" BY <2>2, FieldFits DEF Extents, Caps
  <2> QED BY <2>1, <2>2
<1>3. DOMAIN ls = 1 .. Len(format) BY <1>1 DEF Extents
<1>4. Len(ls) = Len(format)
  <2>1. ls = [k \in 1 .. Len(format) |-> ls[k]] BY <1>1 DEF Extents
  <2>2. ls \in [1 .. Len(format) -> Nat] BY <1>1, <1>2, <2>1
  <2>3. ls \in Seq(Nat) BY <1>1, <2>2, SeqDef
  <2> QED BY <1>1, <1>3, <2>3, LenProperties
<1>5. Lengths_(ls) BY <1>1, <1>2, <1>3, <1>4 DEF Lengths_
<1> HIDE DEF ls
<1>6. \A k \in 1 .. Len(ls) : ls[k] <= Caps(format)[k] /\ Caps(format)[k] <= 144
  BY <1>1, <1>2, <1>4, SizeBound
<1>7. Starts(ls)[Len(format) + 1] <= Starts(Caps(format))[Len(format) + 1]
  <2>1. Lengths_(Caps(format)) /\ Len(Caps(format)) = Len(ls) BY <1>4, SizeBound
  <2>2. \A k \in 1 .. Len(ls) + 1 : Starts(ls)[k] <= Starts(Caps(format))[k]
    BY <1>5, <1>6, <2>1, StartsBefore
  <2> QED BY <1>1, <1>4, <2>2
<1>8. Starts(ls)[Len(format) + 1] \in Nat
  <2>1. Len(format) + 1 \in 1 .. Len(ls) + 1 BY <1>1, <1>4
  <2> QED BY <1>5, <2>1, StartsGrow
<1>9. Starts(Caps(format))[Len(format) + 1] \in Int BY SizeBound, <1>1, StartsGrow
<1> QED BY <1>3, <1>4, <1>5, <1>7, <1>8, <1>9, SizeBound DEF ls

\* Every word is at its place in the message.
LEMMA PackPlaces ==
  ASSUME NEW format, Layout(format), NEW memory, Fits(format, memory), NEW number, NEW room \in Nat,
         Size(format) <= room,
         NEW k \in DOMAIN format, format[k].kind # "descriptor",
         NEW i \in 1 .. Len(memory[format[k].name])
  PROVE  WordAt(Pack(number, format, memory, room).words, Starts(Extents(format, memory))[k] + i - 1)
           = memory[format[k].name][i]
<1> DEFINE ls == Extents(format, memory)
           from == Starts(ls)
           end == from[Len(format) + 1] - 1
           Holds(q, p) == from[q] <= p /\ p < from[q + 1]
           words == [p \in 1 .. IF end > room THEN room ELSE end |->
                       LET q == CHOOSE q \in DOMAIN format : Holds(q, p)
                       IN  memory[format[q].name][p - from[q] + 1]]
           at == from[k] + i - 1
<1>1. Pack(number, format, memory, room).words = words BY DEF Pack, Extents
<1>2. Len(format) \in Nat /\ DOMAIN format = 1 .. Len(format) /\ k \in 1 .. Len(format)
  BY DEF Layout
<1>3. Lengths_(ls) /\ Len(ls) = Len(format) /\ DOMAIN ls = 1 .. Len(format) /\ end <= Size(format)
  BY ExtentsFit
<1>4. ls[k] = Len(memory[format[k].name]) BY DEF Extents
<1>5. \A q \in 1 .. Len(format) + 1 : from[q] \in Nat \ {0} BY <1>3, StartsGrow
<1>6. \A j, q \in 1 .. Len(format) + 1 : j < q => from[j] + ls[j] <= from[q] BY <1>3, StartsGrow
<1>7. \A q \in 1 .. Len(format) : from[q + 1] = from[q] + ls[q] BY <1>3, StartsGrow
<1>8. \A q \in 1 .. Len(format) : ls[q] \in Nat BY <1>3 DEF Lengths_
<1>9. Size(format) \in Nat BY SizeBound
<1> HIDE DEF ls, from
<1>10. from[k] \in Nat \ {0} /\ from[k + 1] = from[k] + ls[k] /\ ls[k] \in Nat /\ i \in 1 .. ls[k]
  BY <1>2, <1>4, <1>5, <1>7, <1>8
<1>11. from[k + 1] <= end + 1
  <2>1. CASE k = Len(format) BY <1>2, <1>5, <2>1
  <2>2. CASE k < Len(format)
    <3>1. k + 1 \in 1 .. Len(format) + 1 /\ Len(format) + 1 \in 1 .. Len(format) + 1
          /\ k + 1 < Len(format) + 1 /\ k + 1 \in 1 .. Len(format) BY <1>2, <2>2
    <3>2. from[k + 1] + ls[k + 1] <= from[Len(format) + 1] BY <1>6, <3>1
    <3>3. from[k + 1] \in Nat /\ from[Len(format) + 1] \in Nat /\ ls[k + 1] \in Nat
      BY <1>5, <1>8, <3>1
    <3> QED BY <3>2, <3>3
  <2> QED BY <1>2, <2>1, <2>2
<1>12. end \in Int
  <2>1. Len(format) + 1 \in 1 .. Len(format) + 1 BY <1>2
  <2>2. from[Len(format) + 1] \in Nat BY <1>5, <2>1
  <2> QED BY <2>2
<1> HIDE DEF end
<1>13. at \in Nat /\ from[k] <= at /\ at < from[k + 1] BY <1>10
<1>14. at \in 1 .. IF end > room THEN room ELSE end BY SMTT(30), <1>3, <1>9, <1>10, <1>11, <1>12, <1>13
<1>15. Holds(k, at) BY <1>13
<1>16. ASSUME NEW q \in DOMAIN format, Holds(q, at) PROVE q = k
  <2>1. q \in 1 .. Len(format) /\ q \in 1 .. Len(format) + 1 /\ k \in 1 .. Len(format) + 1 BY <1>2
  <2>2. from[q + 1] = from[q] + ls[q] /\ from[q] \in Nat /\ ls[q] \in Nat BY <1>5, <1>7, <1>8, <2>1
  <2>3. q < k => from[q + 1] <= from[k] BY <1>6, <2>1, <2>2
  <2>4. k < q => from[k + 1] <= from[q] BY <1>6, <1>10, <2>1
  <2>5. from[q] <= at /\ at < from[q + 1] BY <1>16
  <2>6. ~(q < k)
    <3> HIDE DEF at
    <3> QED BY <1>10, <1>13, <2>2, <2>3, <2>5
  <2>7. ~(k < q)
    <3> HIDE DEF at
    <3> QED BY <1>10, <1>13, <2>2, <2>4, <2>5
  <2> QED BY <1>2, <2>1, <2>6, <2>7
<1> HIDE DEF at
<1>17. (CHOOSE q \in DOMAIN format : Holds(q, at)) = k BY <1>15, <1>16
<1>18. words[at] = memory[format[k].name][at - from[k] + 1]
  <2> HIDE DEF Holds
  <2> QED BY <1>14, <1>17
<1>19. at - from[k] + 1 = i BY <1>10 DEF at
<1>20. DOMAIN words = 1 .. IF end > room THEN room ELSE end OBVIOUS
<1> HIDE DEF words
<1> QED BY <1>1, <1>14, <1>18, <1>19, <1>20 DEF WordAt, at, from, ls
-----------------------------------------------------------------------------
(* Where the receiver takes fields to begin.                               *)

Ahead(format, k) == {j \in 1 .. k - 1 : Counts(format[j].name, format[k].name)}

Taken(format, words, k, from) ==
  CASE format[k].kind = "word" -> 1
    [] format[k].kind = "array" /\ Ahead(format, k) # {} ->
         WordAt(words, from[CHOOSE j \in Ahead(format, k) : TRUE])[3]
    [] OTHER -> 0

Reading(format, words, n, g) ==
  g = [k \in 1 .. n + 1 |-> IF k = 1 THEN 1 ELSE g[k - 1] + Taken(format, words, k - 1, g)]

\* What a field takes depends on where those before it begin.
LEMMA TakenAlike ==
  ASSUME NEW format, NEW words, NEW k \in Nat, NEW g, NEW h, \A j \in 1 .. k - 1 : g[j] = h[j]
  PROVE  Taken(format, words, k, g) = Taken(format, words, k, h)
<1>1. CASE Ahead(format, k) = {} BY <1>1 DEF Taken
<1>2. CASE Ahead(format, k) # {}
  <2>1. (CHOOSE j \in Ahead(format, k) : TRUE) \in 1 .. k - 1 BY <1>2 DEF Ahead
  <2> QED BY <2>1 DEF Taken
<1> QED BY <1>1, <1>2

\* Any buffer can be read as any fields.
LEMMA ReadingExists == ASSUME NEW format, NEW words PROVE \A n \in Nat : \E g : Reading(format, words, n, g)
<1> DEFINE S == {n \in Nat : \E g : Reading(format, words, n, g)}
<1>1. 0 \in S
  <2>1. Reading(format, words, 0, [k \in 1 .. 0 + 1 |-> 1]) BY DEF Reading
  <2> QED BY <2>1
<1>2. ASSUME NEW n \in Nat, n \in S PROVE n + 1 \in S
  <2>1. PICK g : Reading(format, words, n, g) BY <1>2
  <2> DEFINE h == [k \in 1 .. n + 1 + 1 |->
                     IF k = 1 THEN 1 ELSE g[k - 1] + Taken(format, words, k - 1, g)]
  <2>2. \A k \in 1 .. n + 1 : h[k] = g[k] BY <2>1 DEF Reading
  <2> HIDE DEF h
  <2>3. ASSUME NEW k \in 1 .. n + 1 + 1, k # 1
        PROVE  g[k - 1] = h[k - 1] /\ Taken(format, words, k - 1, g) = Taken(format, words, k - 1, h)
    <3>1. k - 1 \in 1 .. n + 1 /\ k - 1 \in Nat BY <2>3
    <3>2. \A j \in 1 .. k - 1 - 1 : g[j] = h[j] BY <2>2, <3>1
    <3> QED BY <2>2, <3>1, <3>2, TakenAlike
  <2>4. Reading(format, words, n + 1, h)
    <3>1. h = [k \in 1 .. n + 1 + 1 |->
                 IF k = 1 THEN 1 ELSE h[k - 1] + Taken(format, words, k - 1, h)] BY <2>3 DEF h
    <3> QED BY <3>1 DEF Reading
  <2> QED BY <2>4
<1> HIDE DEF S
<1>3. \A n \in Nat : n \in S BY <1>1, <1>2, Induction
<1> QED BY <1>3 DEF S

\* The first field begins at 1, each other one behind what the one before takes.
LEMMA BeginsSteps ==
  ASSUME NEW format, NEW words, Len(format) \in Nat
  PROVE  /\ Begins(format, words)[1] = 1
         /\ \A k \in 1 .. Len(format) :
              Begins(format, words)[k + 1]
                = Begins(format, words)[k] + Taken(format, words, k, Begins(format, words))
<1> DEFINE g == CHOOSE g : Reading(format, words, Len(format), g)
<1>1. Reading(format, words, Len(format), g) BY ReadingExists
<1>2. Begins(format, words) = g BY DEF Begins, Reading, Taken, Ahead
<1> HIDE DEF g
<1>3. g[1] = 1 BY <1>1 DEF Reading
<1>4. ASSUME NEW k \in 1 .. Len(format) PROVE g[k + 1] = g[k] + Taken(format, words, k, g)
  <2>1. k + 1 \in 1 .. Len(format) + 1 /\ k + 1 # 1 /\ (k + 1) - 1 = k OBVIOUS
  <2> QED BY <1>1, <2>1 DEF Reading
<1> QED BY <1>2, <1>3, <1>4

\* The receiver finds every field where the sender put it.
LEMMA FoundWherePut ==
  ASSUME NEW format, Layout(format), NEW memory, Fits(format, memory), NEW number, NEW room \in Nat,
         Size(format) <= room
  PROVE  \A k \in 1 .. Len(format) + 1 :
           Begins(format, Pack(number, format, memory, room).words)[k]
             = Starts(Extents(format, memory))[k]
<1> DEFINE words == Pack(number, format, memory, room).words
           b == Begins(format, words)
           ls == Extents(format, memory)
           from == Starts(ls)
<1>1. Len(format) \in Nat /\ DOMAIN format = 1 .. Len(format) BY DEF Layout
<1>2. b[1] = 1 /\ \A k \in 1 .. Len(format) : b[k + 1] = b[k] + Taken(format, words, k, b)
  BY <1>1, BeginsSteps
<1>3. Lengths_(ls) /\ Len(ls) = Len(format) BY ExtentsFit
<1>4. from[1] = 1 /\ \A k \in 1 .. Len(format) : from[k + 1] = from[k] + ls[k]
  BY <1>1, <1>3, StartsSteps
<1>5. \A k \in DOMAIN format : format[k].kind # "descriptor" =>
        \A i \in 1 .. Len(memory[format[k].name]) : WordAt(words, from[k] + i - 1) = memory[format[k].name][i]
  BY PackPlaces
<1>6. \A k \in 1 .. Len(format) + 1 : from[k] \in Nat BY <1>3, StartsGrow
<1>7. \A k \in DOMAIN format :
        ls[k] = IF format[k].kind = "descriptor" THEN 0 ELSE Len(memory[format[k].name])
  BY DEF Extents
<1> HIDE DEF words, b, from, ls
<1>8. ASSUME NEW k \in 1 .. Len(format), \A j \in 1 .. k : b[j] = from[j]
      PROVE  Taken(format, words, k, b) = ls[k]
  <2>1. k \in DOMAIN format BY <1>1
  <2>2. CASE format[k].kind = "word"
    <3>1. Words_(memory[format[k].name], 1) BY <2>1, <2>2 DEF Fits
    <3>2. Len(memory[format[k].name]) = 1 BY <3>1 DEF Words_
    <3> QED BY <1>7, <2>1, <2>2, <3>2 DEF Taken
  <2>3. CASE format[k].kind = "array"
    <3>1. PICK j \in 1 .. k - 1 : format[j].kind = "word" /\ Counts(format[j].name, format[k].name)
      BY <2>1, <2>3 DEF Layout
    <3>2. j \in DOMAIN format /\ j \in 1 .. k BY <1>1, <3>1
    <3>3. Ahead(format, k) = {j}
      <4>1. j \in Ahead(format, k) BY <3>1 DEF Ahead
      <4>2. ASSUME NEW l \in Ahead(format, k) PROVE l = j
        <5>1. l \in DOMAIN format /\ format[l].name = format[j].name
          BY <1>1, <3>1, <4>2 DEF Ahead, Counts
        <5> QED BY <3>2, <5>1 DEF Layout
      <4> QED BY <4>1, <4>2
    <3>4. (CHOOSE l \in Ahead(format, k) : TRUE) = j BY <3>3
    <3>5. Taken(format, words, k, b) = WordAt(words, b[j])[3] BY <2>3, <3>3, <3>4 DEF Taken
    <3>6. Words_(memory[format[j].name], 1) BY <3>1, <3>2 DEF Fits
    <3>7. WordAt(words, from[j] + 1 - 1) = memory[format[j].name][1]
      <4>1. 1 \in 1 .. Len(memory[format[j].name]) BY <3>6 DEF Words_
      <4>2. format[j].kind # "descriptor" BY <3>1
      <4> QED BY <1>5, <3>2, <4>1, <4>2
    <3>8. from[j] + 1 - 1 = b[j] /\ j \in 1 .. Len(format) + 1
      <4>1. j \in 1 .. Len(format) + 1 /\ b[j] = from[j] BY <1>1, <1>8, <3>2
      <4> QED BY <1>6, <4>1
    <3>9. CountOf[format[k].name] = format[j].name BY <3>1 DEF Counts
    <3>10. Words_(memory[format[k].name], memory[format[j].name][1][3])
      BY <2>1, <2>3, <3>9 DEF Fits, IntegerIn
    <3>11. Len(memory[format[k].name]) = memory[format[j].name][1][3] BY <3>10 DEF Words_
    <3> QED BY <1>7, <2>1, <2>3, <3>5, <3>7, <3>8, <3>11
  <2>4. CASE format[k].kind = "descriptor" BY <1>7, <2>1, <2>4 DEF Taken
  <2> QED BY <2>1, <2>2, <2>3, <2>4 DEF Layout
<1> DEFINE S == {n \in Nat : n <= Len(format) => \A j \in 1 .. n + 1 : b[j] = from[j]}
<1>9. 0 \in S BY <1>2, <1>4
<1>10. ASSUME NEW n \in Nat, n \in S PROVE n + 1 \in S
  <2> SUFFICES ASSUME n + 1 <= Len(format), NEW j \in 1 .. n + 1 + 1 PROVE b[j] = from[j]
    OBVIOUS
  <2>1. n + 1 \in 1 .. Len(format) /\ \A l \in 1 .. n + 1 : b[l] = from[l] BY <1>1, <1>10
  <2>2. Taken(format, words, n + 1, b) = ls[n + 1] BY <1>8, <2>1
  <2>3. b[n + 1 + 1] = from[n + 1 + 1]
    <3>1. b[n + 1] = from[n + 1] BY <2>1
    <3> QED BY <1>2, <1>4, <2>1, <2>2, <3>1
  <2> QED BY <2>1, <2>3
<1> HIDE DEF S
<1>11. \A n \in Nat : n \in S BY <1>9, <1>10, Induction
<1>12. Len(format) \in S BY <1>1, <1>11
<1> QED BY <1>1, <1>12 DEF S, b, from, words, ls

Carried(format, memory) == [n \in Names(format) |-> memory[n]]

\* What fits into a message arrives as it was.
LEMMA RoundTrip ==
  ASSUME NEW format, Layout(format), NEW memory, Fits(format, memory), NEW number, NEW room \in Nat,
         Size(format) <= room
  PROVE  Unpack(format, Pack(number, format, memory, room)) = Carried(format, memory)
<1> DEFINE packed == Pack(number, format, memory, room)
           b == Begins(format, packed.words)
           ls == Extents(format, memory)
           from == Starts(ls)
           Got(n) == IF n \in DOMAIN packed.descriptors THEN packed.descriptors[n]
                     ELSE LET k == CHOOSE k \in DOMAIN format : format[k].name = n
                          IN  [i \in 1 .. b[k + 1] - b[k] |-> WordAt(packed.words, b[k] + i - 1)]
<1>1. Unpack(format, packed) = [n \in Names(format) |-> Got(n)] BY DEF Unpack
<1>2. packed.descriptors = [n \in {f.name : f \in Descriptors(format)} |-> memory[n]] BY DEF Pack
<1>3. Len(format) \in Nat /\ DOMAIN format = 1 .. Len(format) BY DEF Layout
<1>4. \A k \in 1 .. Len(format) + 1 : b[k] = from[k] BY FoundWherePut
<1>5. Lengths_(ls) /\ Len(ls) = Len(format) BY ExtentsFit
<1>6. \A k \in DOMAIN format : format[k].kind # "descriptor" =>
        \A i \in 1 .. Len(memory[format[k].name]) :
          WordAt(packed.words, from[k] + i - 1) = memory[format[k].name][i]
  BY PackPlaces
<1>7. \A k \in 1 .. Len(format) + 1 : from[k] \in Nat BY <1>5, StartsGrow
<1>8. \A k \in 1 .. Len(format) : from[k + 1] = from[k] + ls[k] BY <1>5, StartsGrow
<1>9. \A k \in DOMAIN format :
        ls[k] = IF format[k].kind = "descriptor" THEN 0 ELSE Len(memory[format[k].name])
  BY DEF Extents
<1> HIDE DEF packed, b, ls, from
<1>10. ASSUME NEW n \in Names(format) PROVE Got(n) = memory[n]
  <2>1. CASE n \in DOMAIN packed.descriptors BY <1>2, <2>1
  <2>2. CASE n \notin DOMAIN packed.descriptors
    <3> DEFINE k == CHOOSE k \in DOMAIN format : format[k].name = n
    <3>1. k \in DOMAIN format /\ format[k].name = n BY DEF Names, Elements
    <3>2. Got(n) = [i \in 1 .. b[k + 1] - b[k] |-> WordAt(packed.words, b[k] + i - 1)] BY <2>2
    <3> HIDE DEF k
    <3>3. format[k].kind # "descriptor" BY <1>2, <2>2, <3>1 DEF Descriptors, Elements
    <3>4. Words_(memory[n], Len(memory[n])) /\ Len(memory[n]) \in Nat BY <3>1, <3>3, FieldFits
    <3>5. k \in 1 .. Len(format) + 1 /\ k + 1 \in 1 .. Len(format) + 1 BY <1>3, <3>1
    <3>6. b[k] = from[k] /\ b[k + 1] = from[k] + Len(memory[n]) /\ from[k] \in Nat
      BY <1>3, <1>4, <1>7, <1>8, <1>9, <3>1, <3>3, <3>5
    <3>7. b[k + 1] - b[k] = Len(memory[n]) BY <3>4, <3>6
    <3>8. \A i \in 1 .. Len(memory[n]) : WordAt(packed.words, b[k] + i - 1) = memory[n][i]
      BY <1>6, <3>1, <3>3, <3>6
    <3>9. Got(n) = [i \in 1 .. Len(memory[n]) |-> memory[n][i]]
      <4> HIDE DEF Got
      <4> QED BY <3>2, <3>7, <3>8
    <3> QED BY <3>4, <3>9 DEF Words_
  <2> QED BY <2>1, <2>2
<1> HIDE DEF Got
<1> QED BY <1>1, <1>10 DEF Carried, packed
-----------------------------------------------------------------------------
(* The tables of the headers.                                              *)

\* The parameters that a prototype has returned.
OutOf(p) == p.pointers \cup {n \in p.values : \E c \in p.pointers : Counts(c, n)}

\* The request carries what goes to the kernel, the reply what is returned.
Given(p, q)    == Names(q) = (p.values \ OutOf(p)) \cup (p.pointers \cap Names(q))
Returns(p, a) == /\ Names(a) \cup {"RetCode"} = OutOf(p) \cup {"RetCode"}
                  /\ "RetCode" \notin OutOf(p)

\* A reply tells a failure, by what it lacks or by its first word.
Tells(a) == Descriptors(a) = {} => Len(a) > 0 /\ a[1] = RetCode

Agrees(p, q, a) == Layout(q) /\ Layout(a) /\ Given(p, q) /\ Returns(p, a) /\ Tells(a)
AllAgree(P, Q, A) ==
  DOMAIN Q = DOMAIN P /\ DOMAIN A = DOMAIN P /\ \A r \in DOMAIN P : Agrees(P[r], Q[r], A[r])

\* Which parameter counts which, one by one.
LEMMA CountedBy ==
  /\ DOMAIN CountOf =
       {"masks", "old_handlers", "old_handlerss", "old_behaviors", "old_flavors", "ledgers",
        "init_port_set", "act_list", "task_info_out", "task_info_in", "thread_info_out", "new_state",
        "old_state", "policy_info", "base", "limit", "emulation_vector"}
  /\ CountOf["masks"] = "masksCnt" /\ CountOf["old_handlers"] = "masksCnt"
  /\ CountOf["old_handlerss"] = "masksCnt" /\ CountOf["old_behaviors"] = "masksCnt"
  /\ CountOf["old_flavors"] = "masksCnt" /\ CountOf["ledgers"] = "ledgersCnt"
  /\ CountOf["init_port_set"] = "init_port_setCnt" /\ CountOf["act_list"] = "act_listCnt"
  /\ CountOf["task_info_out"] = "task_info_outCnt" /\ CountOf["task_info_in"] = "task_info_inCnt"
  /\ CountOf["thread_info_out"] = "thread_info_outCnt" /\ CountOf["new_state"] = "new_stateCnt"
  /\ CountOf["old_state"] = "old_stateCnt" /\ CountOf["policy_info"] = "policy_infoCnt"
  /\ CountOf["base"] = "baseCnt" /\ CountOf["limit"] = "limitCnt"
  /\ CountOf["emulation_vector"] = "emulation_vectorCnt"
  BY DEF CountOf, ++

\* No count is counted.
LEMMA CountsAreWords == \A n \in DOMAIN CountOf : CountOf[n] \notin DOMAIN CountOf
  BY CountedBy

\* The routines of tasks from task_terminate to task_set_special_port.
LEMMA TaskAAgrees == AllAgree(TaskPrototypesA, TaskRequestsA, TaskRepliesA)
<1> USE RpcAssumption, CountedBy DEF Agrees, Layout, Given, Returns, Tells, OutOf, Counts, Names,
        Elements, Descriptors, Params, Port, Ports, OutOfLine, Value, Array, RetCode
<1>1. Agrees(Params({}, {}), <<>>, <<RetCode>>) OBVIOUS
<1>2. Agrees(Params({}, {}), <<>>, <<RetCode>>) OBVIOUS
<1>3. Agrees(Params({}, {}), <<>>, <<RetCode>>) OBVIOUS
<1>4. Agrees(Params({"ledgers", "ledgersCnt", "inherit_memory"}, {"child_task"}),
             <<OutOfLine("ledgers"), Value("ledgersCnt"), Value("inherit_memory")>>,
             <<Port("child_task")>>) OBVIOUS
<1>5. Agrees(Params({}, {"act_list", "act_listCnt"}), <<>>,
             <<OutOfLine("act_list"), Value("act_listCnt")>>) OBVIOUS
<1>6. Agrees(Params({"init_port_set", "init_port_setCnt"}, {}),
             <<OutOfLine("init_port_set"), Value("init_port_setCnt")>>, <<RetCode>>) OBVIOUS
<1>7. Agrees(Params({}, {"init_port_set", "init_port_setCnt"}), <<>>,
             <<OutOfLine("init_port_set"), Value("init_port_setCnt")>>) OBVIOUS
<1>8. Agrees(Params({"flavor", "task_info_out"}, {"task_info_outCnt"}),
             <<Value("flavor"), Value("task_info_outCnt")>>,
             <<RetCode, Value("task_info_outCnt"), Array("task_info_out", 10)>>) OBVIOUS
<1>9. Agrees(Params({"flavor", "task_info_in", "task_info_inCnt"}, {}),
             <<Value("flavor"), Value("task_info_inCnt"), Array("task_info_in", 10)>>,
             <<RetCode>>) OBVIOUS
<1>10. Agrees(Params({"which_port"}, {"special_port"}), <<Value("which_port")>>,
              <<Port("special_port")>>) OBVIOUS
<1>11. Agrees(Params({"which_port", "special_port"}, {}),
              <<Port("special_port"), Value("which_port")>>, <<RetCode>>) OBVIOUS
<1> HIDE RpcAssumption, CountedBy
    DEF Agrees, Layout, Given, Returns, Tells, OutOf, Counts, Names,
        Elements, Descriptors, Params, Port, Ports, OutOfLine, Value, Array, RetCode
<1> QED
  <2> USE DEF TaskPrototypesA, TaskRequestsA, TaskRepliesA, ++
  <2> DEFINE names == {"task_terminate", "task_suspend", "task_resume", "task_create",
                      "task_threads", "mach_ports_register", "mach_ports_lookup", "task_info",
                      "task_set_info", "task_get_special_port", "task_set_special_port"}
  <2> DEFINE Alike(r) == Agrees(TaskPrototypesA[r], TaskRequestsA[r], TaskRepliesA[r])
  <2>0. DOMAIN TaskPrototypesA = names /\ DOMAIN TaskRequestsA = names /\ DOMAIN TaskRepliesA = names
    OBVIOUS
  <2>1. Alike("task_terminate") BY <1>1
  <2>2. Alike("task_suspend") BY <1>2
  <2>3. Alike("task_resume") BY <1>3
  <2>4. Alike("task_create") BY <1>4
  <2>5. Alike("task_threads") BY <1>5
  <2>6. Alike("mach_ports_register") BY <1>6
  <2>7. Alike("mach_ports_lookup") BY <1>7
  <2>8. Alike("task_info") BY <1>8
  <2>9. Alike("task_set_info") BY <1>9
  <2>10. Alike("task_get_special_port") BY <1>10
  <2>11. Alike("task_set_special_port") BY <1>11
  <2> HIDE DEF TaskPrototypesA, TaskRequestsA, TaskRepliesA, ++
  <2> QED BY <2>0, <2>1, <2>2, <2>3, <2>4, <2>5, <2>6, <2>7, <2>8, <2>9, <2>10, <2>11 DEF AllAgree

\* The routines of tasks from thread_create to task_policy_get.
LEMMA TaskBAgrees == AllAgree(TaskPrototypesB, TaskRequestsB, TaskRepliesB)
<1> USE RpcAssumption, CountedBy DEF Agrees, Layout, Given, Returns, Tells, OutOf, Counts, Names,
        Elements, Descriptors, Params, Port, Ports, OutOfLine, Value, Array, RetCode
<1>1. Agrees(Params({}, {"child_act"}), <<>>, <<Port("child_act")>>) OBVIOUS
<1>2. Agrees(Params({"flavor", "new_state", "new_stateCnt"}, {"child_act"}),
             <<Value("flavor"), Value("new_stateCnt"), Array("new_state", 144)>>,
             <<Port("child_act")>>) OBVIOUS
<1>3. Agrees(Params({"exception_mask", "new_port", "behavior", "new_flavor"}, {}),
             <<Port("new_port"), Value("exception_mask"), Value("behavior"),
               Value("new_flavor")>>, <<RetCode>>) OBVIOUS
<1>4. Agrees(Params({"exception_mask", "masks", "old_handlers", "old_behaviors", "old_flavors"},
             {"masksCnt"}), <<Value("exception_mask")>>,
             <<Ports("old_handlers", 32), Value("masksCnt"), Array("masks", 32),
               Array("old_behaviors", 32), Array("old_flavors", 32)>>) OBVIOUS
<1>5. Agrees(Params({"exception_mask", "new_port", "behavior", "new_flavor", "masks",
                     "old_handlerss", "old_behaviors", "old_flavors"}, {"masksCnt"}),
             <<Port("new_port"), Value("exception_mask"), Value("behavior"),
               Value("new_flavor")>>,
             <<Ports("old_handlerss", 32), Value("masksCnt"), Array("masks", 32),
               Array("old_behaviors", 32), Array("old_flavors", 32)>>) OBVIOUS
<1>6. Agrees(Params({"n_ulocks", "policy"}, {"new_lock_set"}),
             <<Value("n_ulocks"), Value("policy")>>, <<Port("new_lock_set")>>) OBVIOUS
<1>7. Agrees(Params({"lock_set"}, {}), <<Port("lock_set")>>, <<RetCode>>) OBVIOUS
<1>8. Agrees(Params({"policy", "value"}, {"semaphore"}), <<Value("policy"), Value("value")>>,
             <<Port("semaphore")>>) OBVIOUS
<1>9. Agrees(Params({"semaphore"}, {}), <<Port("semaphore")>>, <<RetCode>>) OBVIOUS
<1>10. Agrees(Params({"flavor", "policy_info", "policy_infoCnt"}, {}),
              <<Value("flavor"), Value("policy_infoCnt"), Array("policy_info", 16)>>,
              <<RetCode>>) OBVIOUS
<1>11. Agrees(Params({"flavor", "policy_info"}, {"policy_infoCnt", "get_default"}),
              <<Value("flavor"), Value("policy_infoCnt"), Value("get_default")>>,
              <<RetCode, Value("policy_infoCnt"), Array("policy_info", 16),
                Value("get_default")>>) OBVIOUS
<1> HIDE RpcAssumption, CountedBy
    DEF Agrees, Layout, Given, Returns, Tells, OutOf, Counts, Names,
        Elements, Descriptors, Params, Port, Ports, OutOfLine, Value, Array, RetCode
<1> QED
  <2> USE DEF TaskPrototypesB, TaskRequestsB, TaskRepliesB, ++
  <2> DEFINE names == {"thread_create", "thread_create_running", "task_set_exception_ports",
                      "task_get_exception_ports", "task_swap_exception_ports", "lock_set_create",
                      "lock_set_destroy", "semaphore_create", "semaphore_destroy",
                      "task_policy_set", "task_policy_get"}
  <2> DEFINE Alike(r) == Agrees(TaskPrototypesB[r], TaskRequestsB[r], TaskRepliesB[r])
  <2>0. DOMAIN TaskPrototypesB = names /\ DOMAIN TaskRequestsB = names /\ DOMAIN TaskRepliesB = names
    OBVIOUS
  <2>1. Alike("thread_create") BY <1>1
  <2>2. Alike("thread_create_running") BY <1>2
  <2>3. Alike("task_set_exception_ports") BY <1>3
  <2>4. Alike("task_get_exception_ports") BY <1>4
  <2>5. Alike("task_swap_exception_ports") BY <1>5
  <2>6. Alike("lock_set_create") BY <1>6
  <2>7. Alike("lock_set_destroy") BY <1>7
  <2>8. Alike("semaphore_create") BY <1>8
  <2>9. Alike("semaphore_destroy") BY <1>9
  <2>10. Alike("task_policy_set") BY <1>10
  <2>11. Alike("task_policy_get") BY <1>11
  <2> HIDE DEF TaskPrototypesB, TaskRequestsB, TaskRepliesB, ++
  <2> QED BY <2>0, <2>1, <2>2, <2>3, <2>4, <2>5, <2>6, <2>7, <2>8, <2>9, <2>10, <2>11 DEF AllAgree

\* The routines of tasks from task_sample to task_set_policy.
LEMMA TaskCAgrees == AllAgree(TaskPrototypesC, TaskRequestsC, TaskRepliesC)
<1> USE RpcAssumption, CountedBy DEF Agrees, Layout, Given, Returns, Tells, OutOf, Counts, Names,
        Elements, Descriptors, Params, Port, Ports, OutOfLine, Value, Array, RetCode
<1>1. Agrees(Params({"reply"}, {}), <<Port("reply")>>, <<RetCode>>) OBVIOUS
<1>2. Agrees(Params({"policy", "base", "baseCnt", "set_limit", "change"}, {}),
             <<Value("policy"), Value("baseCnt"), Array("base", 5), Value("set_limit"),
               Value("change")>>, <<RetCode>>) OBVIOUS
<1>3. Agrees(Params({"routine_entry_pt", "routine_number"}, {}),
             <<Value("routine_entry_pt"), Value("routine_number")>>, <<RetCode>>) OBVIOUS
<1>4. Agrees(Params({}, {"vector_start", "emulation_vector", "emulation_vectorCnt"}), <<>>,
             <<OutOfLine("emulation_vector"), Value("vector_start"),
               Value("emulation_vectorCnt")>>) OBVIOUS
<1>5. Agrees(Params({"vector_start", "emulation_vector", "emulation_vectorCnt"}, {}),
             <<OutOfLine("emulation_vector"), Value("vector_start"),
               Value("emulation_vectorCnt")>>, <<RetCode>>) OBVIOUS
<1>6. Agrees(Params({"basepc", "boundspc"}, {}), <<Value("basepc"), Value("boundspc")>>,
             <<RetCode>>) OBVIOUS
<1>7. Agrees(Params({"new_set", "assign_threads"}, {}),
             <<Port("new_set"), Value("assign_threads")>>, <<RetCode>>) OBVIOUS
<1>8. Agrees(Params({"assign_threads"}, {}), <<Value("assign_threads")>>, <<RetCode>>) OBVIOUS
<1>9. Agrees(Params({}, {"assigned_set"}), <<>>, <<Port("assigned_set")>>) OBVIOUS
<1>10. Agrees(Params({"pset", "policy", "base", "baseCnt", "limit", "limitCnt", "change"}, {}),
              <<Port("pset"), Value("policy"), Value("baseCnt"), Array("base", 5),
                Value("limitCnt"), Array("limit", 1), Value("change")>>, <<RetCode>>) OBVIOUS
<1> HIDE RpcAssumption, CountedBy
    DEF Agrees, Layout, Given, Returns, Tells, OutOf, Counts, Names,
        Elements, Descriptors, Params, Port, Ports, OutOfLine, Value, Array, RetCode
<1> QED
  <2> USE DEF TaskPrototypesC, TaskRequestsC, TaskRepliesC, ++
  <2> DEFINE names == {"task_sample", "task_policy", "task_set_emulation",
                      "task_get_emulation_vector", "task_set_emulation_vector",
                      "task_set_ras_pc", "task_assign", "task_assign_default",
                      "task_get_assignment", "task_set_policy"}
  <2> DEFINE Alike(r) == Agrees(TaskPrototypesC[r], TaskRequestsC[r], TaskRepliesC[r])
  <2>0. DOMAIN TaskPrototypesC = names /\ DOMAIN TaskRequestsC = names /\ DOMAIN TaskRepliesC = names
    OBVIOUS
  <2>1. Alike("task_sample") BY <1>1
  <2>2. Alike("task_policy") BY <1>2
  <2>3. Alike("task_set_emulation") BY <1>3
  <2>4. Alike("task_get_emulation_vector") BY <1>4
  <2>5. Alike("task_set_emulation_vector") BY <1>5
  <2>6. Alike("task_set_ras_pc") BY <1>6
  <2>7. Alike("task_assign") BY <1>7
  <2>8. Alike("task_assign_default") BY <1>8
  <2>9. Alike("task_get_assignment") BY <1>9
  <2>10. Alike("task_set_policy") BY <1>10
  <2> HIDE DEF TaskPrototypesC, TaskRequestsC, TaskRepliesC, ++
  <2> QED BY <2>0, <2>1, <2>2, <2>3, <2>4, <2>5, <2>6, <2>7, <2>8, <2>9, <2>10 DEF AllAgree

\* The routines of threads from thread_terminate to thread_set_state.
LEMMA ThreadAAgrees == AllAgree(ThreadPrototypesA, ThreadRequestsA, ThreadRepliesA)
<1> USE RpcAssumption, CountedBy DEF Agrees, Layout, Given, Returns, Tells, OutOf, Counts, Names,
        Elements, Descriptors, Params, Port, Ports, OutOfLine, Value, Array, RetCode
<1>1. Agrees(Params({}, {}), <<>>, <<RetCode>>) OBVIOUS
<1>2. Agrees(Params({}, {}), <<>>, <<RetCode>>) OBVIOUS
<1>3. Agrees(Params({}, {}), <<>>, <<RetCode>>) OBVIOUS
<1>4. Agrees(Params({}, {}), <<>>, <<RetCode>>) OBVIOUS
<1>5. Agrees(Params({}, {}), <<>>, <<RetCode>>) OBVIOUS
<1>6. Agrees(Params({"flavor", "old_state"}, {"old_stateCnt"}),
             <<Value("flavor"), Value("old_stateCnt")>>,
             <<RetCode, Value("old_stateCnt"), Array("old_state", 144)>>) OBVIOUS
<1>7. Agrees(Params({"flavor", "new_state", "new_stateCnt"}, {}),
             <<Value("flavor"), Value("new_stateCnt"), Array("new_state", 144)>>,
             <<RetCode>>) OBVIOUS
<1>8. Agrees(Params({"flavor", "old_state"}, {"old_stateCnt"}),
             <<Value("flavor"), Value("old_stateCnt")>>,
             <<RetCode, Value("old_stateCnt"), Array("old_state", 144)>>) OBVIOUS
<1>9. Agrees(Params({"flavor", "new_state", "new_stateCnt"}, {}),
             <<Value("flavor"), Value("new_stateCnt"), Array("new_state", 144)>>,
             <<RetCode>>) OBVIOUS
<1> HIDE RpcAssumption, CountedBy
    DEF Agrees, Layout, Given, Returns, Tells, OutOf, Counts, Names,
        Elements, Descriptors, Params, Port, Ports, OutOfLine, Value, Array, RetCode
<1> QED
  <2> USE DEF ThreadPrototypesA, ThreadRequestsA, ThreadRepliesA, ++
  <2> DEFINE names == {"thread_terminate", "thread_suspend", "thread_resume", "thread_abort",
                      "thread_abort_safely", "act_get_state", "act_set_state",
                      "thread_get_state", "thread_set_state"}
  <2> DEFINE Alike(r) == Agrees(ThreadPrototypesA[r], ThreadRequestsA[r], ThreadRepliesA[r])
  <2>0. DOMAIN ThreadPrototypesA = names /\ DOMAIN ThreadRequestsA = names /\ DOMAIN ThreadRepliesA = names
    OBVIOUS
  <2>1. Alike("thread_terminate") BY <1>1
  <2>2. Alike("thread_suspend") BY <1>2
  <2>3. Alike("thread_resume") BY <1>3
  <2>4. Alike("thread_abort") BY <1>4
  <2>5. Alike("thread_abort_safely") BY <1>5
  <2>6. Alike("act_get_state") BY <1>6
  <2>7. Alike("act_set_state") BY <1>7
  <2>8. Alike("thread_get_state") BY <1>8
  <2>9. Alike("thread_set_state") BY <1>9
  <2> HIDE DEF ThreadPrototypesA, ThreadRequestsA, ThreadRepliesA, ++
  <2> QED BY <2>0, <2>1, <2>2, <2>3, <2>4, <2>5, <2>6, <2>7, <2>8, <2>9 DEF AllAgree

\* The routines of threads from thread_depress_abort to thread_policy_set.
LEMMA ThreadBAgrees == AllAgree(ThreadPrototypesB, ThreadRequestsB, ThreadRepliesB)
<1> USE RpcAssumption, CountedBy DEF Agrees, Layout, Given, Returns, Tells, OutOf, Counts, Names,
        Elements, Descriptors, Params, Port, Ports, OutOfLine, Value, Array, RetCode
<1>1. Agrees(Params({}, {}), <<>>, <<RetCode>>) OBVIOUS
<1>2. Agrees(Params({"which_port"}, {"special_port"}), <<Value("which_port")>>,
             <<Port("special_port")>>) OBVIOUS
<1>3. Agrees(Params({"which_port", "special_port"}, {}),
             <<Port("special_port"), Value("which_port")>>, <<RetCode>>) OBVIOUS
<1>4. Agrees(Params({"flavor", "thread_info_out"}, {"thread_info_outCnt"}),
             <<Value("flavor"), Value("thread_info_outCnt")>>,
             <<RetCode, Value("thread_info_outCnt"), Array("thread_info_out", 12)>>) OBVIOUS
<1>5. Agrees(Params({"exception_mask", "new_port", "behavior", "new_flavor"}, {}),
             <<Port("new_port"), Value("exception_mask"), Value("behavior"),
               Value("new_flavor")>>, <<RetCode>>) OBVIOUS
<1>6. Agrees(Params({"exception_mask", "masks", "old_handlers", "old_behaviors", "old_flavors"},
             {"masksCnt"}), <<Value("exception_mask")>>,
             <<Ports("old_handlers", 32), Value("masksCnt"), Array("masks", 32),
               Array("old_behaviors", 32), Array("old_flavors", 32)>>) OBVIOUS
<1>7. Agrees(Params({"exception_mask", "new_port", "behavior", "new_flavor", "masks",
                     "old_handlers", "old_behaviors", "old_flavors"}, {"masksCnt"}),
             <<Port("new_port"), Value("exception_mask"), Value("behavior"),
               Value("new_flavor")>>,
             <<Ports("old_handlers", 32), Value("masksCnt"), Array("masks", 32),
               Array("old_behaviors", 32), Array("old_flavors", 32)>>) OBVIOUS
<1>8. Agrees(Params({"policy", "base", "baseCnt", "set_limit"}, {}),
             <<Value("policy"), Value("baseCnt"), Array("base", 5), Value("set_limit")>>,
             <<RetCode>>) OBVIOUS
<1>9. Agrees(Params({"flavor", "policy_info", "policy_infoCnt"}, {}),
             <<Value("flavor"), Value("policy_infoCnt"), Array("policy_info", 16)>>,
             <<RetCode>>) OBVIOUS
<1> HIDE RpcAssumption, CountedBy
    DEF Agrees, Layout, Given, Returns, Tells, OutOf, Counts, Names,
        Elements, Descriptors, Params, Port, Ports, OutOfLine, Value, Array, RetCode
<1> QED
  <2> USE DEF ThreadPrototypesB, ThreadRequestsB, ThreadRepliesB, ++
  <2> DEFINE names == {"thread_depress_abort", "thread_get_special_port",
                      "thread_set_special_port", "thread_info", "thread_set_exception_ports",
                      "thread_get_exception_ports", "thread_swap_exception_ports",
                      "thread_policy", "thread_policy_set"}
  <2> DEFINE Alike(r) == Agrees(ThreadPrototypesB[r], ThreadRequestsB[r], ThreadRepliesB[r])
  <2>0. DOMAIN ThreadPrototypesB = names /\ DOMAIN ThreadRequestsB = names /\ DOMAIN ThreadRepliesB = names
    OBVIOUS
  <2>1. Alike("thread_depress_abort") BY <1>1
  <2>2. Alike("thread_get_special_port") BY <1>2
  <2>3. Alike("thread_set_special_port") BY <1>3
  <2>4. Alike("thread_info") BY <1>4
  <2>5. Alike("thread_set_exception_ports") BY <1>5
  <2>6. Alike("thread_get_exception_ports") BY <1>6
  <2>7. Alike("thread_swap_exception_ports") BY <1>7
  <2>8. Alike("thread_policy") BY <1>8
  <2>9. Alike("thread_policy_set") BY <1>9
  <2> HIDE DEF ThreadPrototypesB, ThreadRequestsB, ThreadRepliesB, ++
  <2> QED BY <2>0, <2>1, <2>2, <2>3, <2>4, <2>5, <2>6, <2>7, <2>8, <2>9 DEF AllAgree

\* The routines of threads from thread_assign_default to thread_set_policy.
LEMMA ThreadCAgrees == AllAgree(ThreadPrototypesC, ThreadRequestsC, ThreadRepliesC)
<1> USE RpcAssumption, CountedBy DEF Agrees, Layout, Given, Returns, Tells, OutOf, Counts, Names,
        Elements, Descriptors, Params, Port, Ports, OutOfLine, Value, Array, RetCode
<1>1. Agrees(Params({}, {}), <<>>, <<RetCode>>) OBVIOUS
<1>2. Agrees(Params({"flavor", "policy_info"}, {"policy_infoCnt", "get_default"}),
             <<Value("flavor"), Value("policy_infoCnt"), Value("get_default")>>,
             <<RetCode, Value("policy_infoCnt"), Array("policy_info", 16),
               Value("get_default")>>) OBVIOUS
<1>3. Agrees(Params({"reply"}, {}), <<Port("reply")>>, <<RetCode>>) OBVIOUS
<1>4. Agrees(Params({"trace_status"}, {}), <<Value("trace_status")>>, <<RetCode>>) OBVIOUS
<1>5. Agrees(Params({"new_set"}, {}), <<Port("new_set")>>, <<RetCode>>) OBVIOUS
<1>6. Agrees(Params({}, {"assigned_set"}), <<>>, <<Port("assigned_set")>>) OBVIOUS
<1>7. Agrees(Params({"pset", "policy", "base", "baseCnt", "limit", "limitCnt"}, {}),
             <<Port("pset"), Value("policy"), Value("baseCnt"), Array("base", 5),
               Value("limitCnt"), Array("limit", 1)>>, <<RetCode>>) OBVIOUS
<1> HIDE RpcAssumption, CountedBy
    DEF Agrees, Layout, Given, Returns, Tells, OutOf, Counts, Names,
        Elements, Descriptors, Params, Port, Ports, OutOfLine, Value, Array, RetCode
<1> QED
  <2> USE DEF ThreadPrototypesC, ThreadRequestsC, ThreadRepliesC, ++
  <2> DEFINE names == {"thread_assign_default", "thread_policy_get", "thread_sample",
                      "etap_trace_thread", "thread_assign", "thread_get_assignment",
                      "thread_set_policy"}
  <2> DEFINE Alike(r) == Agrees(ThreadPrototypesC[r], ThreadRequestsC[r], ThreadRepliesC[r])
  <2>0. DOMAIN ThreadPrototypesC = names /\ DOMAIN ThreadRequestsC = names /\ DOMAIN ThreadRepliesC = names
    OBVIOUS
  <2>1. Alike("thread_assign_default") BY <1>1
  <2>2. Alike("thread_policy_get") BY <1>2
  <2>3. Alike("thread_sample") BY <1>3
  <2>4. Alike("etap_trace_thread") BY <1>4
  <2>5. Alike("thread_assign") BY <1>5
  <2>6. Alike("thread_get_assignment") BY <1>6
  <2>7. Alike("thread_set_policy") BY <1>7
  <2> HIDE DEF ThreadPrototypesC, ThreadRequestsC, ThreadRepliesC, ++
  <2> QED BY <2>0, <2>1, <2>2, <2>3, <2>4, <2>5, <2>6, <2>7 DEF AllAgree

\* Tables that agree one by one agree when they are put together.
LEMMA Together ==
  ASSUME NEW P1, NEW Q1, NEW A1, AllAgree(P1, Q1, A1), NEW P2, NEW Q2, NEW A2, AllAgree(P2, Q2, A2)
  PROVE  AllAgree(P1 ++ P2, Q1 ++ Q2, A1 ++ A2)
  BY DEF AllAgree, ++

\* Tables may be joined in any order that keeps the first ones first.
LEMMA JoinAssociates == ASSUME NEW f, NEW g, NEW h PROVE (f ++ g) ++ h = f ++ (g ++ h)
<1>1. DOMAIN ((f ++ g) ++ h) = DOMAIN (f ++ (g ++ h)) BY DEF ++
<1>2. \A x \in DOMAIN ((f ++ g) ++ h) : ((f ++ g) ++ h)[x] = (f ++ (g ++ h))[x] BY DEF ++
<1>3. (f ++ g) ++ h = [x \in DOMAIN ((f ++ g) ++ h) |-> ((f ++ g) ++ h)[x]] BY DEF ++
<1>4. f ++ (g ++ h) = [x \in DOMAIN (f ++ (g ++ h)) |-> (f ++ (g ++ h))[x]] BY DEF ++
<1> QED BY <1>1, <1>2, <1>3, <1>4

\* Every routine's request and reply agree with its prototype, and fit into the unions.
LEMMA TablesAgree ==
  /\ AllAgree(Prototypes, Requests, Replies)
  /\ DOMAIN Requests = DOMAIN TaskRequests \cup DOMAIN ThreadRequests
  /\ DOMAIN Replies = DOMAIN TaskReplies \cup DOMAIN ThreadReplies
  /\ \A r \in DOMAIN TaskRequests : Layout(TaskRequests[r])
  /\ \A r \in DOMAIN ThreadRequests : Layout(ThreadRequests[r])
  /\ \A r \in DOMAIN TaskReplies : Layout(TaskReplies[r])
  /\ \A r \in DOMAIN ThreadReplies : Layout(ThreadReplies[r])
<1> DEFINE P == TaskPrototypesA ++ TaskPrototypesB ++ TaskPrototypesC
           Q == ThreadPrototypesA ++ ThreadPrototypesB ++ ThreadPrototypesC
<1>1. AllAgree(P, TaskRequests, TaskReplies)
  BY TaskAAgrees, TaskBAgrees, TaskCAgrees, Together DEF TaskRequests, TaskReplies
<1>2. AllAgree(Q, ThreadRequests, ThreadReplies)
  BY ThreadAAgrees, ThreadBAgrees, ThreadCAgrees, Together DEF ThreadRequests, ThreadReplies
<1>3. Prototypes = P ++ Q
  <2>1. Prototypes = ((P ++ ThreadPrototypesA) ++ ThreadPrototypesB) ++ ThreadPrototypesC
    BY Zenon DEF Prototypes
  <2> DEFINE A == ThreadPrototypesA  B == ThreadPrototypesB  C == ThreadPrototypesC
  <2> HIDE DEF P, A, B, C
  <2>2. ((P ++ A) ++ B) ++ C = (P ++ (A ++ B)) ++ C BY JoinAssociates
  <2>3. (P ++ (A ++ B)) ++ C = P ++ ((A ++ B) ++ C) BY JoinAssociates
  <2> QED BY <2>1, <2>2, <2>3, Zenon DEF A, B, C
<1> HIDE DEF P, Q
<1>4. AllAgree(Prototypes, Requests, Replies)
  <2>1. AllAgree(P ++ Q, Requests, Replies)
    BY <1>1, <1>2, Together, Zenon DEF Requests, Replies
  <2> QED BY <1>3, <2>1
<1>5. DOMAIN Requests = DOMAIN TaskRequests \cup DOMAIN ThreadRequests
      /\ DOMAIN Replies = DOMAIN TaskReplies \cup DOMAIN ThreadReplies BY DEF Requests, Replies, ++
<1> QED BY <1>1, <1>2, <1>4, <1>5 DEF AllAgree, Agrees
-----------------------------------------------------------------------------
(* What the caller and the kernel send fits into the messages.             *)

\* A count that is chosen is a number, and no larger than any of its arrays.
LEMMA ChosenFits ==
  ASSUME NEW r \in DOMAIN Prototypes, NEW params, NEW ns \in Chosen(r, params)
  PROVE  /\ DOMAIN ns = {c \in params : Counted(r, c) # {}}
         /\ \A c \in DOMAIN ns : ns[c] \in Nat /\ \A f \in Counted(r, c) : ns[c] <= f.max
         /\ \A c \in DOMAIN ns : c \notin DOMAIN CountOf
<1>1. Layout(Requests[r]) /\ Layout(Replies[r]) BY TablesAgree DEF AllAgree, Agrees
<1>2. DOMAIN ns = {c \in params : Counted(r, c) # {}} /\ \A c \in DOMAIN ns : ns[c] \in Amounts(r, c)
  BY DEF Chosen
<1>3. ASSUME NEW c \in DOMAIN ns PROVE ns[c] \in Nat /\ \A f \in Counted(r, c) : ns[c] <= f.max
  <2>1. \A f \in Counted(r, c) : f.max \in Nat BY <1>1 DEF Counted, Elements, Layout
  <2>2. ns[c] \in Amounts(r, c) BY <1>2
  <2> QED BY <2>1, <2>2, ArrayAssumption DEF Amounts
<1>4. ASSUME NEW c \in DOMAIN ns PROVE c \notin DOMAIN CountOf
  <2>1. PICK f \in Counted(r, c) : TRUE BY <1>2
  <2>2. f.name \in DOMAIN CountOf /\ CountOf[f.name] = c BY <2>1 DEF Counted, Counts
  <2> QED BY <2>2, CountsAreWords
<1> QED BY <1>2, <1>3, <1>4

\* What a side has in memory for the fields of a message fits into it.
LEMMA MemoryFits ==
  ASSUME NEW r \in DOMAIN Prototypes, NEW params, NEW ns \in Chosen(r, params), NEW side,
         NEW format \in {Requests[r], Replies[r]}, NEW memory,
         \A n \in Names(format) : \/ n \in params /\ memory[n] = Memory(side, params, ns)[n]
                                  \/ n = "RetCode" /\ Words_(memory[n], 1)
  PROVE  Fits(format, memory)
<1> DEFINE own == Memory(side, params, ns)
<1>1. Layout(format) BY TablesAgree DEF AllAgree, Agrees
<1>2. DOMAIN ns = {c \in params : Counted(r, c) # {}} BY ChosenFits
<1>3. \A c \in DOMAIN ns : ns[c] \in Nat /\ \A f \in Counted(r, c) : ns[c] <= f.max BY ChosenFits
<1>4. \A c \in DOMAIN ns : c \notin DOMAIN CountOf BY ChosenFits
<1>5. \A n \in params : own[n] =
         IF n \in DOMAIN ns THEN <<Datum(side, n, ns[n])>>
         ELSE IF \E c \in DOMAIN ns : Counts(c, n)
         THEN [i \in 1 .. ns[CountOf[n]] |-> Datum(side, n, i)]
         ELSE <<Datum(side, n, 0)>>
  BY DEF Memory
<1> HIDE DEF own
<1>6. \A d : Words_(<<d>>, 1) BY DEF Words_
<1>7. ASSUME NEW k \in DOMAIN format, format[k].kind = "word"
      PROVE  Words_(memory[format[k].name], 1)
  <2> DEFINE n == format[k].name
  <2>1. n \in Names(format) /\ n \notin DOMAIN CountOf BY <1>1, <1>7 DEF Names, Elements, Layout
  <2>2. CASE n \in params /\ memory[n] = own[n]
    <3>1. ~\E c \in DOMAIN ns : Counts(c, n) BY <2>1 DEF Counts
    <3> QED BY <1>5, <1>6, <2>2, <3>1
  <2> QED BY <2>1, <2>2 DEF own
<1>8. ASSUME NEW k \in DOMAIN format, format[k].kind = "array"
      PROVE  LET len == IntegerIn(memory[CountOf[format[k].name]])
             IN  Words_(memory[format[k].name], len) /\ len <= format[k].max
  <2> DEFINE n == format[k].name
             c == CountOf[n]
  <2>1. PICK j \in 1 .. k - 1 : format[j].kind = "word" /\ Counts(format[j].name, n)
    BY <1>1, <1>8 DEF Layout
  <2>2. j \in DOMAIN format BY <1>1, <2>1 DEF Layout
  <2>3. n \in DOMAIN CountOf /\ c = format[j].name BY <2>1 DEF Counts
  <2>4. n \in Names(format) /\ c \in Names(format) BY <2>2, <2>3 DEF Names, Elements
  <2>5. n # "RetCode" /\ c # "RetCode" BY <2>3, CountedBy
  <2>6. n \in params /\ memory[n] = own[n] /\ c \in params /\ memory[c] = own[c]
    BY <2>4, <2>5 DEF own
  <2>7. format[k] \in Counted(r, c) BY <2>3 DEF Counted, Counts, Elements
  <2>8. c \in DOMAIN ns /\ n \notin DOMAIN ns /\ Counts(c, n)
    BY <1>2, <1>4, <2>3, <2>6, <2>7 DEF Counts
  <2>9. memory[c] = <<Datum(side, c, ns[c])>> BY <1>5, <2>6, <2>8
  <2>10. memory[n] = [i \in 1 .. ns[c] |-> Datum(side, n, i)] BY <1>5, <2>6, <2>8
  <2>11. IntegerIn(memory[c]) = ns[c] BY <2>9 DEF IntegerIn, Datum
  <2>12. ns[c] \in Nat /\ ns[c] <= format[k].max BY <1>3, <2>7, <2>8
  <2> HIDE DEF n, c
  <2>13. Words_(memory[n], ns[c])
    <3>1. Len(memory[n]) = ns[c]
      <4>1. memory[n] \in Seq({Datum(side, n, i) : i \in 1 .. ns[c]}) BY <2>10, <2>12, SeqDef
      <4>2. DOMAIN memory[n] = 1 .. ns[c] BY <2>10
      <4> QED BY <2>12, <4>1, <4>2, LenProperties
    <3> QED BY <2>10, <2>12, <3>1 DEF Words_
  <2> QED BY <2>11, <2>12, <2>13 DEF n, c
<1> QED BY <1>7, <1>8 DEF Fits
-----------------------------------------------------------------------------
(* The life of a call.                                                     *)

RequestRoom(r) == Room(r, TaskRequests, ThreadRequests)
ReplyRoom(r)   == Room(r, TaskReplies, ThreadReplies)

\* What the caller gives is what a routine of the headers takes.
Called ==
  /\ routine \in DOMAIN Prototypes
  /\ LET params == In(routine) \cup InOut(routine)
     IN  \E ns \in Chosen(routine, params) : args = Memory("in", params, ns)

Requested ==
  \E id \in DOMAIN Numbers : /\ Numbers[id] = routine
                             /\ message = Pack(id, Requests[routine], args, RequestRoom(routine))

Succeeded ==
  /\ \E ns \in Chosen(routine, Out(routine)) :
       results = Memory("out", Out(routine), ns) ++ RetCodeIs(KERN_SUCCESS)
  /\ message = Pack(0, Replies[routine], results, ReplyRoom(routine))

Failed ==
  /\ results = RetCodeIs(KERN_FAILURE)
  /\ message = Pack(0, <<RetCode>>, results, 1)

RpcInv ==
  /\ rpc \in {"none", "kernel", "routine", "caller", "over"}
  /\ rpc # "none" => Called
  /\ rpc = "kernel" => Requested
  /\ rpc \in {"routine", "caller", "over"} =>
       served = routine /\ given = Carried(Requests[routine], args)
  /\ rpc = "caller" => Succeeded \/ Failed
  /\ rpc = "over" => got = results

\* A request of what a routine takes arrives as it was.
LEMMA RequestArrives ==
  ASSUME NEW r \in DOMAIN Prototypes, NEW ns \in Chosen(r, In(r) \cup InOut(r)), NEW id
  PROVE  LET memory == Memory("in", In(r) \cup InOut(r), ns)
         IN  Unpack(Requests[r], Pack(id, Requests[r], memory, RequestRoom(r)))
               = Carried(Requests[r], memory)
<1> DEFINE params == In(r) \cup InOut(r)
           memory == Memory("in", params, ns)
<1>1. Agrees(Prototypes[r], Requests[r], Replies[r]) BY TablesAgree DEF AllAgree
<1>2. Names(Requests[r]) = params BY <1>1 DEF Agrees, Given, OutOf, In, InOut, Out
<1>3. \A n \in Names(Requests[r]) : n \in params /\ memory[n] = Memory("in", params, ns)[n]
  BY <1>2
<1> HIDE DEF params, memory
<1>4. Fits(Requests[r], memory) BY <1>3, MemoryFits DEF params
<1>5. r \in DOMAIN TaskRequests \cup DOMAIN ThreadRequests BY TablesAgree DEF AllAgree
<1>6. RequestRoom(r) \in Nat /\ Size(Requests[r]) <= RequestRoom(r)
  BY <1>5, TablesAgree, RoomSuffices DEF RequestRoom, Requests
<1>7. Layout(Requests[r]) BY <1>1 DEF Agrees
<1> QED BY <1>4, <1>6, <1>7, RoundTrip DEF params, memory

\* A reply of what a routine returns arrives as it was; if it has descriptors they say so.
LEMMA ReplyArrives ==
  ASSUME NEW r \in DOMAIN Prototypes, NEW ns \in Chosen(r, Out(r))
  PROVE  LET memory == Memory("out", Out(r), ns) ++ RetCodeIs(KERN_SUCCESS)
             reply  == Pack(0, Replies[r], memory, ReplyRoom(r))
         IN  /\ Unpack(Replies[r], reply) = Carried(Replies[r], memory)
             /\ DOMAIN memory = Names(Replies[r]) \cup {"RetCode"}
             /\ memory = [n \in DOMAIN memory |-> memory[n]]
             /\ memory["RetCode"] = <<Datum("out", "RetCode", KERN_SUCCESS)>>
<1> DEFINE own == Memory("out", Out(r), ns)
           memory == own ++ RetCodeIs(KERN_SUCCESS)
<1>1. Agrees(Prototypes[r], Requests[r], Replies[r]) BY TablesAgree DEF AllAgree
<1>2. Names(Replies[r]) \cup {"RetCode"} = Out(r) \cup {"RetCode"} /\ "RetCode" \notin Out(r)
  BY <1>1 DEF Agrees, Returns, OutOf, Out
<1>3. DOMAIN own = Out(r) BY DEF Memory
<1> HIDE DEF own
<1>4. /\ DOMAIN memory = Out(r) \cup {"RetCode"}
      /\ memory = [n \in DOMAIN memory |-> memory[n]]
      /\ \A n \in Out(r) : memory[n] = own[n]
      /\ memory["RetCode"] = <<Datum("out", "RetCode", KERN_SUCCESS)>>
  BY <1>2, <1>3 DEF ++, RetCodeIs
<1> HIDE DEF memory
<1>5. Words_(memory["RetCode"], 1) BY <1>4 DEF Words_
<1>6. \A n \in Names(Replies[r]) : \/ n \in Out(r) /\ memory[n] = own[n]
                                   \/ n = "RetCode" /\ Words_(memory[n], 1)
  BY <1>2, <1>4, <1>5
<1>7. Fits(Replies[r], memory) BY <1>6, MemoryFits DEF own
<1>8. r \in DOMAIN TaskReplies \cup DOMAIN ThreadReplies BY TablesAgree DEF AllAgree
<1>9. ReplyRoom(r) \in Nat /\ Size(Replies[r]) <= ReplyRoom(r)
  BY <1>8, TablesAgree, RoomSuffices DEF ReplyRoom, Replies
<1>10. Layout(Replies[r]) BY <1>1 DEF Agrees
<1>11. Unpack(Replies[r], Pack(0, Replies[r], memory, ReplyRoom(r))) = Carried(Replies[r], memory)
  BY <1>7, <1>9, <1>10, RoundTrip
<1> QED BY <1>2, <1>4, <1>11 DEF memory, own

\* Nothing but a RetCode: the words of a failure, and what any reply says of it.
LEMMA FailureArrives ==
  ASSUME NEW r \in DOMAIN Prototypes
  PROVE  LET memory == RetCodeIs(KERN_FAILURE)
             failure == Pack(0, <<RetCode>>, memory, 1)
         IN  /\ Unpack(<<RetCode>>, failure) = memory
             /\ DOMAIN failure.descriptors = {}
             /\ Descriptors(Replies[r]) = {} =>
                  LET reply == Unpack(Replies[r], failure)
                  IN  "RetCode" \in DOMAIN reply /\ reply["RetCode"] = memory["RetCode"]
<1> DEFINE memory == RetCodeIs(KERN_FAILURE)
           failure == Pack(0, <<RetCode>>, memory, 1)
           word == Datum("out", "RetCode", KERN_FAILURE)
<1>1. Layout(<<RetCode>>) BY CountedBy DEF Layout, RetCode, Value
<1>2. memory = [n \in {"RetCode"} |-> <<word>>] BY DEF RetCodeIs
<1>3. Fits(<<RetCode>>, memory) BY <1>2 DEF Fits, Words_, RetCode, Value
<1>4. Names(<<RetCode>>) = {"RetCode"} /\ Descriptors(<<RetCode>>) = {}
  BY DEF Names, Descriptors, Elements, RetCode, Value
<1>5. Size(<<RetCode>>) <= 1
  <2>1. Len(Caps(<<RetCode>>)) = 1 /\ Caps(<<RetCode>>)[1] = 1 BY <1>1, SizeBound DEF Caps, RetCode, Value
  <2>2. Starts(Caps(<<RetCode>>))[1] = 1 /\ Starts(Caps(<<RetCode>>))[1 + 1] = 1 + 1
    BY <2>1, StartsSteps
  <2>3. Size(<<RetCode>>) = Starts(Caps(<<RetCode>>))[Len(<<RetCode>>) + 1] - 1 BY ZenonT(30), <1>1, SizeBound
  <2>4. Len(<<RetCode>>) = 1 OBVIOUS
  <2> QED BY <2>2, <2>3, <2>4
<1>6. Unpack(<<RetCode>>, failure) = memory
  <2>1. Unpack(<<RetCode>>, failure) = Carried(<<RetCode>>, memory)
    BY <1>1, <1>3, <1>5, RoundTrip
  <2> QED BY <1>2, <1>4, <2>1 DEF Carried
<1>7. DOMAIN failure.descriptors = {} BY <1>4 DEF Pack
<1>8. WordAt(failure.words, 1) = word
  <2>1. Extents(<<RetCode>>, memory) = <<1>>
    BY <1>2 DEF Extents, RetCode, Value
  <2>2. Starts(Extents(<<RetCode>>, memory))[1] = 1 BY <2>1, StartsSteps
  <2>3. WordAt(failure.words, Starts(Extents(<<RetCode>>, memory))[1] + 1 - 1) = memory["RetCode"][1]
    <3>1. 1 \in DOMAIN <<RetCode>> /\ <<RetCode>>[1].kind # "descriptor"
          /\ <<RetCode>>[1].name = "RetCode" BY DEF RetCode, Value
    <3>2. 1 \in 1 .. Len(memory["RetCode"]) BY <1>2
    <3> QED BY <1>1, <1>3, <1>5, <3>1, <3>2, PackPlaces
  <2> QED BY <1>2, <2>2, <2>3
<1> HIDE DEF failure, memory, word
<1>9. ASSUME Descriptors(Replies[r]) = {}
      PROVE  LET reply == Unpack(Replies[r], failure)
             IN  "RetCode" \in DOMAIN reply /\ reply["RetCode"] = memory["RetCode"]
  <2> DEFINE format == Replies[r]
             b == Begins(format, failure.words)
             k == CHOOSE k \in DOMAIN format : format[k].name = "RetCode"
  <2>1. Layout(format) /\ Len(format) > 0 /\ format[1] = RetCode
    BY <1>9, TablesAgree DEF AllAgree, Agrees, Tells
  <2>2. 1 \in DOMAIN format /\ Len(format) \in Nat BY <2>1 DEF Layout
  <2>3. format[1].name = "RetCode" /\ format[1].kind = "word" BY <2>1 DEF RetCode, Value
  <2>4. "RetCode" \in Names(format) BY <2>2, <2>3 DEF Names, Elements
  <2>5. k = 1 BY <2>1, <2>2, <2>3 DEF Layout
  <2>6. Unpack(format, failure)["RetCode"]
          = [i \in 1 .. b[k + 1] - b[k] |-> WordAt(failure.words, b[k] + i - 1)]
    BY <1>7, <2>4 DEF Unpack
  <2> HIDE DEF k, b
  <2>7. b[1] = 1 /\ b[1 + 1] = 1 + 1
    <3>1. 1 \in 1 .. Len(format) BY <2>1, <2>2
    <3>2. Taken(format, failure.words, 1, b) = 1 BY <2>3 DEF Taken
    <3>3. b[1] = 1 /\ b[1 + 1] = b[1] + Taken(format, failure.words, 1, b)
      BY <2>2, <3>1, BeginsSteps DEF b
    <3> QED BY <3>2, <3>3
  <2>8. Unpack(format, failure)["RetCode"] = [i \in 1 .. 1 |-> WordAt(failure.words, i)]
    BY <2>5, <2>6, <2>7
  <2>9. [i \in 1 .. 1 |-> WordAt(failure.words, i)] = <<word>> BY <1>8
  <2>10. "RetCode" \in DOMAIN Unpack(format, failure) BY <2>4 DEF Unpack
  <2> QED BY <1>2, <2>8, <2>9, <2>10 DEF memory
<1> QED BY <1>6, <1>7, <1>9 DEF failure, memory

\* A call sends what Pack makes of the arguments.
LEMMA CallKeeps == ASSUME RpcInv, NEW r \in DOMAIN Prototypes, Call(r) PROVE RpcInv'
<1>1. PICK ns \in Chosen(r, In(r) \cup InOut(r)) : args' = Memory("in", In(r) \cup InOut(r), ns)
  BY DEF Call
<1>2. PICK id \in DOMAIN Numbers :
        Numbers[id] = r /\ message' = Pack(id, Requests[r], args', RequestRoom(r))
  BY DEF Call, RequestRoom
<1>3. rpc' = "kernel" /\ routine' = r BY DEF Call
<1>4. Called' BY <1>1, <1>3 DEF Called
<1>5. Requested' BY <1>2, <1>3 DEF Requested
<1> QED BY <1>3, <1>4, <1>5 DEF RpcInv

\* The kernel finds the routine and gives it what was carried.
LEMMA ServeKeeps == ASSUME RpcInv, Serve PROVE RpcInv'
<1>1. Called /\ Requested BY DEF RpcInv, Serve
<1>2. PICK id \in DOMAIN Numbers :
        Numbers[id] = routine /\ message = Pack(id, Requests[routine], args, RequestRoom(routine))
  BY <1>1 DEF Requested
<1>3. message.id = id BY <1>2 DEF Pack
<1>4. served' = routine BY <1>2, <1>3 DEF Serve
<1>5. routine \in DOMAIN Prototypes BY <1>1 DEF Called
<1>6. PICK ns \in Chosen(routine, In(routine) \cup InOut(routine)) :
        args = Memory("in", In(routine) \cup InOut(routine), ns) BY <1>1 DEF Called
<1>7. given' = Carried(Requests[routine], args)
  <2>1. given' = Unpack(Requests[routine], message) BY <1>4 DEF Serve
  <2>2. Unpack(Requests[routine], Pack(id, Requests[routine], args, RequestRoom(routine)))
          = Carried(Requests[routine], args)
    BY <1>5, <1>6, RequestArrives
  <2> QED BY <1>2, <2>1, <2>2
<1>8. rpc' = "routine" /\ routine' = routine /\ args' = args BY DEF Serve
<1>9. Called' BY <1>1, <1>8 DEF Called
<1> QED BY <1>4, <1>7, <1>8, <1>9 DEF RpcInv

\* A reply is that of a success or of a failure.
LEMMA AnswerKeeps == ASSUME RpcInv, Succeed \/ Fail PROVE RpcInv'
<1>1. Called /\ served = routine /\ given = Carried(Requests[routine], args)
  BY DEF RpcInv, Succeed, Fail
<1>2. rpc' = "caller" /\ routine' = routine /\ args' = args /\ served' = served /\ given' = given
  BY DEF Succeed, Fail
<1>3. Called' BY <1>1, <1>2 DEF Called
<1>4. CASE Succeed
  <2>1. Succeeded' BY <1>1, <1>2, <1>4 DEF Succeed, Succeeded, ReplyRoom
  <2> QED BY <1>1, <1>2, <1>3, <2>1 DEF RpcInv
<1>5. CASE Fail
  <2>1. Failed' BY <1>5 DEF Fail, Failed
  <2> QED BY <1>1, <1>2, <1>3, <2>1 DEF RpcInv
<1> QED BY <1>4, <1>5

\* The caller gets what was returned, or the failure.
LEMMA ReceiveKeeps == ASSUME RpcInv, Receive PROVE RpcInv'
<1> DEFINE format  == Replies[routine]
           failure == Descriptors(format) # {} /\ DOMAIN message.descriptors = {}
           reply   == Unpack(IF failure THEN <<RetCode>> ELSE format, message)
<1>1. Called /\ served = routine /\ given = Carried(Requests[routine], args)
      /\ (Succeeded \/ Failed) BY DEF RpcInv, Receive
<1>2. /\ rpc' = "over" /\ routine' = routine /\ args' = args /\ served' = served /\ given' = given
      /\ results' = results BY DEF Receive
<1>3. got' = IF "RetCode" \in DOMAIN reply /\ IntegerIn(reply["RetCode"]) # KERN_SUCCESS
             THEN [n \in {"RetCode"} |-> reply[n]]
             ELSE RetCodeIs(KERN_SUCCESS) ++ reply
  BY DEF Receive
<1>4. routine \in DOMAIN Prototypes BY <1>1 DEF Called
<1>5. ASSUME Succeeded PROVE got' = results
  <2>1. PICK ns \in Chosen(routine, Out(routine)) :
          results = Memory("out", Out(routine), ns) ++ RetCodeIs(KERN_SUCCESS)
    BY <1>5 DEF Succeeded
  <2>2. message = Pack(0, format, results, ReplyRoom(routine)) BY <1>5 DEF Succeeded
  <2>3. /\ Unpack(format, message) = Carried(format, results)
        /\ DOMAIN results = Names(format) \cup {"RetCode"}
        /\ results = [n \in DOMAIN results |-> results[n]]
        /\ results["RetCode"] = <<Datum("out", "RetCode", KERN_SUCCESS)>>
    BY <1>4, <2>1, <2>2, ReplyArrives
  <2>4. DOMAIN message.descriptors = {f.name : f \in Descriptors(format)} BY <2>2 DEF Pack
  <2>5. ~failure BY <2>4
  <2>6. reply = Carried(format, results) BY <2>3, <2>5
  <2> HIDE DEF reply
  <2>7. "RetCode" \in DOMAIN reply => IntegerIn(reply["RetCode"]) = KERN_SUCCESS
    BY <2>3, <2>6 DEF Carried, IntegerIn, Datum
  <2>8. got' = RetCodeIs(KERN_SUCCESS) ++ reply BY <1>3, <2>7
  <2>9. DOMAIN got' = DOMAIN results /\ \A n \in DOMAIN results : got'[n] = results[n]
    BY <2>3, <2>6, <2>8 DEF ++, RetCodeIs, Carried
  <2>10. got' = [n \in DOMAIN got' |-> got'[n]] BY <2>8 DEF ++
  <2> QED BY <2>3, <2>9, <2>10
<1>6. ASSUME Failed PROVE got' = results
  <2>1. results = RetCodeIs(KERN_FAILURE) /\ message = Pack(0, <<RetCode>>, results, 1)
    BY <1>6 DEF Failed
  <2>2. /\ Unpack(<<RetCode>>, message) = results
        /\ DOMAIN message.descriptors = {}
        /\ Descriptors(format) = {} => /\ "RetCode" \in DOMAIN Unpack(format, message)
                                       /\ Unpack(format, message)["RetCode"] = results["RetCode"]
    BY <1>4, <2>1, FailureArrives
  <2>3. results = [n \in {"RetCode"} |-> results["RetCode"]] BY <2>1 DEF RetCodeIs
  <2>4. "RetCode" \in DOMAIN reply /\ reply["RetCode"] = results["RetCode"]
    BY <2>2, <2>3
  <2>5. IntegerIn(results["RetCode"]) # KERN_SUCCESS
    BY <2>1 DEF RetCodeIs, IntegerIn, Datum, KERN_SUCCESS, KERN_FAILURE
  <2> HIDE DEF reply
  <2> QED BY <1>3, <2>3, <2>4, <2>5
<1>7. got' = results BY <1>1, <1>5, <1>6
<1>8. Called' BY <1>1, <1>2 DEF Called
<1> QED BY <1>1, <1>2, <1>7, <1>8 DEF RpcInv

\* What holds in every state of a call.
LEMMA RpcInvHolds == RpcSpec => []RpcInv
<1>1. RpcInit => RpcInv BY DEF RpcInit, RpcInv
<1>2. RpcInv /\ [RpcNext]_rpcVars => RpcInv'
  <2> SUFFICES ASSUME RpcInv, [RpcNext]_rpcVars PROVE RpcInv'
    OBVIOUS
  <2>1. CASE UNCHANGED rpcVars
    BY <2>1 DEF rpcVars, RpcInv, Called, Requested, Succeeded, Failed
  <2> QED BY <2>1, CallKeeps, ServeKeeps, AnswerKeeps, ReceiveKeeps DEF RpcNext
<1> QED BY <1>1, <1>2, PTL DEF RpcSpec

\* For every bound of the memory out of line and all lengths of the arrays that fit: the
\* kernel runs the routine that was called, with every argument as the caller gave it.
THEOREM ArgumentsAlwaysArrive == RpcSpec => []ArgumentsArrive
<1>1. RpcInv => ArgumentsArrive
  <2> SUFFICES ASSUME RpcInv, rpc \in {"routine", "caller", "over"}
               PROVE  /\ served = routine
                      /\ \A n \in In(routine) \cup InOut(routine) :
                           n \in DOMAIN given /\ given[n] = args[n]
    BY DEF ArgumentsArrive
  <2>1. served = routine /\ given = Carried(Requests[routine], args)
        /\ routine \in DOMAIN Prototypes BY DEF RpcInv, Called
  <2>2. Names(Requests[routine]) = In(routine) \cup InOut(routine)
    BY <2>1, TablesAgree DEF AllAgree, Agrees, Given, OutOf, In, InOut, Out
  <2> QED BY <2>1, <2>2 DEF Carried
<1> QED BY <1>1, RpcInvHolds, PTL

\* The caller gets what the kernel returned, or the RetCode of the failure and nothing else.
THEOREM ResultsAlwaysArrive == RpcSpec => []ResultsArrive
<1>1. RpcInv => ResultsArrive BY DEF RpcInv, ResultsArrive
<1> QED BY <1>1, RpcInvHolds, PTL
-----------------------------------------------------------------------------
(* LocalPush: one background task at a time, and one reminder.             *)

PushBlocks == {"chat", "expired"}
Queued == \E i \in 1 .. Len(mainQueue) : mainQueue[i] = "chat"

\* The invariant is inductive: whatever block runs, it ends the task that the delegate knows,
\* and there is no other one.
PushInv == PushTypeOK /\ TaskIsKnown /\ RemindsOnceAhead

\* Without its seconds, two minutes from now less one is later than now by a minute at most,
\* and what else these components can mean is earlier.
LEMMA FireDateFacts ==
  ASSUME NEW t \in Nat, NEW at \in FireDate(t)
  PROVE  at \in Int /\ at <= t + Minute /\ (t < at \/ Due(t, 2) \in Repeated)
<1>1. Minute \in Nat \ {0} /\ Hour \in Nat BY PushAssumption
<1> DEFINE x == t + 2 * Minute
           q == x \div Minute
           r == x % Minute
<1>2. x \in Nat /\ q \in Int /\ r \in 0 .. Minute - 1 /\ x = Minute * q + r BY <1>1
<1>3. Due(t, 2) = q * Minute BY DEF Due
<1>4. q * Minute = Minute * q BY <1>1, <1>2
<1> HIDE DEF q, r
<1>5. PICK u \in Meant(Due(t, 2)) : at = u - 1 * Minute BY DEF FireDate
<1>6. u = Due(t, 2) \/ (u = Due(t, 2) - Hour /\ Due(t, 2) \in Repeated) BY <1>5 DEF Meant
<1>7. CASE u = Due(t, 2) BY <1>1, <1>2, <1>3, <1>4, <1>5, <1>7
<1>8. CASE u = Due(t, 2) - Hour /\ Due(t, 2) \in Repeated
  <2>1. at = (q * Minute - Hour) - Minute BY <1>1, <1>2, <1>3, <1>5, <1>8
  <2> QED BY <1>1, <1>2, <1>4, <1>8, <2>1
<1> QED BY <1>6, <1>7, <1>8

\* There is nothing before the first launch.
LEMMA PushInit_ == PushInit => PushInv
<1> SUFFICES ASSUME PushInit PROVE PushInv
  OBVIOUS
<1>1. mainQueue = <<>> /\ <<>> \in Seq(PushBlocks) BY DEF PushInit
<1>2. PushTypeOK
  <2>1. now \in Nat /\ waited = 0 /\ 0 \in 0 .. MaxTasks /\ 0 \in 0 .. MaxWait
    BY PushAssumption DEF PushInit
  <2>2. mainQueue \in Seq({"chat", "expired"}) BY <1>1 DEF PushBlocks
  <2>3. /\ app = "off" /\ bgTask = 0 /\ live = {} /\ tasks = 0 /\ warned = {}
        /\ scheduled = {} /\ badge = 0 /\ asserted = FALSE
    BY DEF PushInit, UIBackgroundTaskInvalid
  <2> HIDE DEF PushInit
  <2>4. app \in {"off", "active", "background", "suspended"} BY <2>3
  <2>5. tasks \in 0 .. MaxTasks /\ bgTask \in 0 .. tasks BY <2>1, <2>3
  <2>6. live \subseteq 1 .. tasks /\ warned \subseteq 1 .. tasks BY <2>3
  <2>7. scheduled \subseteq [at : Int, decided : Nat] BY <2>3
  <2>8. badge \in 0 .. 1 BY <2>3
  <2>9. asserted \in BOOLEAN BY <2>3, Zenon
  <2> QED BY <2>1, <2>2, <2>4, <2>5, <2>6, <2>7, <2>8, <2>9 DEF PushTypeOK
<1>3. TaskIsKnown /\ RemindsOnceAhead
  BY DEF PushInit, TaskIsKnown, RemindsOnceAhead, UIBackgroundTaskInvalid
<1> QED BY <1>2, <1>3 DEF PushInv

\* The end of the process leaves no task and no block.
LEMMA EndTask ==
  ASSUME PushInv, End
  PROVE  /\ app' = "off" /\ tasks' \in 0 .. MaxTasks /\ bgTask' \in 0 .. tasks' /\ live' \subseteq 1 .. tasks'
         /\ warned' \subseteq 1 .. tasks' /\ mainQueue' \in Seq({"chat", "expired"}) /\ TaskIsKnown'
<1>1. mainQueue' = <<>> /\ <<>> \in Seq(PushBlocks) BY DEF End
<1>2. tasks \in Nat /\ tasks' = tasks /\ tasks \in 0 .. MaxTasks BY PushAssumption DEF End, PushInv, PushTypeOK
<1> QED BY <1>1, <1>2 DEF End, TaskIsKnown, UIBackgroundTaskInvalid, PushBlocks

\* A block ends the one task.
LEMMA BlockEndsTask ==
  ASSUME PushInv, EndBackgroundTask, mainQueue # <<>>, mainQueue' = Tail(mainQueue), UNCHANGED tasks
  PROVE  /\ bgTask' \in 0 .. tasks' /\ live' = {} /\ mainQueue' \in Seq({"chat", "expired"}) /\ TaskIsKnown'
<1>1. tasks \in Nat /\ live = {bgTask} \ {0}
  BY PushAssumption DEF PushInv, PushTypeOK, TaskIsKnown, UIBackgroundTaskInvalid
<1>2. live' = {} /\ bgTask' = 0 BY <1>1 DEF EndBackgroundTask, UIBackgroundTaskInvalid
<1>3. mainQueue' \in Seq({"chat", "expired"}) BY DEF PushInv, PushTypeOK
<1> QED BY <1>1, <1>2, <1>3 DEF TaskIsKnown, UIBackgroundTaskInvalid

\* Another block at the end of the queue leaves the others in it.
LEMMA BlockIsQueued ==
  ASSUME PushInv, NEW b \in {"chat", "expired"}, mainQueue' = Append(mainQueue, b)
  PROVE  mainQueue' \in Seq({"chat", "expired"}) /\ (Queued \/ b = "chat" => Queued')
<1>1. mainQueue \in Seq({"chat", "expired"}) BY DEF PushInv, PushTypeOK
<1>2. /\ mainQueue' \in Seq({"chat", "expired"}) /\ Len(mainQueue') = Len(mainQueue) + 1
      /\ \A i \in 1 .. Len(mainQueue) : mainQueue'[i] = mainQueue[i]
      /\ mainQueue'[Len(mainQueue) + 1] = b /\ Len(mainQueue) \in Nat
  BY <1>1
<1> QED BY <1>2 DEF Queued

\* Every method and every block keeps the task known and the reminder ahead.
LEMMA PushStep == ASSUME PushInv, [PushNext]_pushVars PROVE PushInv'
<1> USE DEF PushInv
<1>t. /\ PushTypeOK /\ TaskIsKnown /\ RemindsOnceAhead /\ tasks \in Nat /\ now \in Nat
      /\ live = {bgTask} \ {0} /\ (live # {} => Queued)
  BY PushAssumption DEF PushTypeOK, TaskIsKnown, UIBackgroundTaskInvalid, Queued
<1>n. ASSUME UNCHANGED scheduled PROVE RemindsOnceAhead' BY <1>n, <1>t DEF RemindsOnceAhead
<1>k. ASSUME UNCHANGED <<bgTask, live, mainQueue>> PROVE TaskIsKnown' BY <1>k, <1>t DEF TaskIsKnown
<1>1. ASSUME NEW tapped \in BOOLEAN, DidFinishLaunching(tapped) PROVE PushInv'
  <2>1. UNCHANGED <<bgTask, live, tasks, warned, mainQueue, now, waited, asserted>> /\ app' = "active"
    BY <1>1 DEF DidFinishLaunching, task, clock
  <2>2. CASE tapped
    <3>1. badge' = 0 /\ UNCHANGED scheduled BY <1>1, <2>2 DEF DidFinishLaunching
    <3>2. PushTypeOK' BY <1>t, <2>1, <3>1 DEF PushTypeOK
    <3> QED BY <1>n, <1>k, <2>1, <3>1, <3>2
  <2>3. CASE ~tapped
    <3>1. PICK at \in FireDate(now) : scheduled' = {[at |-> at, decided |-> now]} /\ UNCHANGED badge
      BY <1>1, <2>3 DEF DidFinishLaunching
    <3>2. at \in Int /\ at <= now + Minute /\ (now < at \/ Due(now, 2) \in Repeated)
      BY <1>t, FireDateFacts
    <3>3. PushTypeOK' BY <1>t, <2>1, <3>1, <3>2 DEF PushTypeOK
    <3>4. RemindsOnceAhead' BY <3>1, <3>2 DEF RemindsOnceAhead
    <3> QED BY <1>k, <2>1, <3>3, <3>4
  <2> QED BY <2>2, <2>3
<1>2. CASE Fire
  <2>1. UNCHANGED <<app, bgTask, live, tasks, warned, mainQueue, now, waited, asserted>>
        /\ scheduled' \subseteq scheduled /\ badge' \in 0 .. 1
    BY <1>2 DEF Fire, Deliver, task, clock
  <2>2. PushTypeOK' BY <1>t, <2>1 DEF PushTypeOK
  <2>3. RemindsOnceAhead' BY <1>t, <2>1 DEF RemindsOnceAhead
  <2> QED BY <1>k, <2>1, <2>2, <2>3
<1>3. CASE Tick
  <2>1. UNCHANGED <<app, bgTask, live, tasks, warned, mainQueue, scheduled, badge, asserted>>
        /\ now' = now + 1 /\ waited < MaxWait /\ waited' = waited + 1
    BY <1>3 DEF Tick, task, notes
  <2>2. PushTypeOK' BY <1>t, <2>1, PushAssumption DEF PushTypeOK
  <2> QED BY <1>n, <1>k, <2>1, <2>2
<1>4. CASE DidEnterBackground
  <2>1. tasks < MaxTasks /\ UNCHANGED <<now, waited, scheduled, badge>>
    BY <1>4 DEF DidEnterBackground, clock, notes
  <2>2. CASE bgTask # UIBackgroundTaskInvalid
    <3>1. End /\ asserted' = TRUE BY <1>4, <2>2 DEF DidEnterBackground
    <3>2. PushTypeOK' BY <1>t, <2>1, <3>1, EndTask DEF PushTypeOK
    <3> QED BY <1>n, <2>1, <3>1, <3>2, EndTask
  <2>3. CASE bgTask = UIBackgroundTaskInvalid
    <3>1. /\ app' = "background" /\ mainQueue' = Append(mainQueue, "chat") /\ UNCHANGED <<warned, asserted>>
          /\ \/ bgTask' = tasks + 1 /\ tasks' = tasks + 1 /\ live' = live \cup {tasks + 1}
             \/ bgTask' = 0 /\ UNCHANGED <<tasks, live>>
      BY <1>4, <2>3 DEF DidEnterBackground, UIBackgroundTaskInvalid
    <3>2. live = {} BY <1>t, <2>3 DEF UIBackgroundTaskInvalid
    <3>3. mainQueue' \in Seq({"chat", "expired"}) /\ Queued' BY <3>1, BlockIsQueued
    <3>4. PushTypeOK'
      <4>1. tasks' \in 0 .. MaxTasks /\ bgTask' \in 0 .. tasks' /\ live' \subseteq 1 .. tasks'
        BY SMTT(30), <1>t, <2>1, <3>1, <3>2, PushAssumption
      <4>2. warned' \subseteq 1 .. tasks' BY <1>t, <3>1 DEF PushTypeOK
      <4> QED BY <1>t, <2>1, <3>1, <3>3, <4>1, <4>2 DEF PushTypeOK
    <3>5. live' = {bgTask'} \ {0} BY <1>t, <3>1, <3>2
    <3>6. TaskIsKnown' BY <3>3, <3>5 DEF TaskIsKnown, Queued, UIBackgroundTaskInvalid
    <3> QED BY <1>n, <2>1, <3>4, <3>6
  <2> QED BY <2>2, <2>3
<1>5. CASE EnterForeground
  <2>1. UNCHANGED <<bgTask, live, tasks, mainQueue, now, waited, scheduled, asserted>>
        /\ app' = "active" /\ warned' = {} /\ badge' \in {badge, 0}
    BY <1>5 DEF EnterForeground, clock
  <2>2. PushTypeOK' BY <1>t, <2>1 DEF PushTypeOK
  <2> QED BY <1>n, <1>k, <2>1, <2>2
<1>6. ASSUME NEW t \in live, Expire(t) PROVE PushInv'
  <2>1. UNCHANGED <<app, bgTask, live, tasks, now, waited, scheduled, badge, asserted>>
        /\ warned' = warned \cup {t} /\ mainQueue' = Append(mainQueue, "expired")
    BY <1>6 DEF Expire, clock, notes
  <2>2. mainQueue' \in Seq({"chat", "expired"}) /\ (Queued => Queued') BY <2>1, BlockIsQueued
  <2>3. t \in 1 .. tasks BY <1>t DEF PushTypeOK
  <2>4. PushTypeOK' BY <1>t, <2>1, <2>2, <2>3 DEF PushTypeOK
  <2>5. TaskIsKnown' BY <1>t, <2>1, <2>2 DEF TaskIsKnown, Queued, UIBackgroundTaskInvalid
  <2> QED BY <1>n, <2>1, <2>4, <2>5
<1>7. CASE Chat
  <2>1. /\ UNCHANGED <<app, tasks, warned, now, waited, scheduled, asserted>> /\ badge' \in {badge, 0, 1}
        /\ EndBackgroundTask /\ mainQueue # <<>> /\ mainQueue' = Tail(mainQueue)
    BY <1>7 DEF Chat, clock, Deliver
  <2>2. PushTypeOK' BY <1>t, <2>1, BlockEndsTask DEF PushTypeOK
  <2> QED BY <1>n, <2>1, <2>2, BlockEndsTask
<1>8. CASE Expired
  <2>1. /\ UNCHANGED <<app, tasks, warned, now, waited, scheduled, badge, asserted>>
        /\ EndBackgroundTask /\ mainQueue # <<>> /\ mainQueue' = Tail(mainQueue)
    BY <1>8 DEF Expired, clock, notes
  <2>2. PushTypeOK' BY <1>t, <2>1, BlockEndsTask DEF PushTypeOK
  <2> QED BY <1>n, <2>1, <2>2, BlockEndsTask
<1>9. CASE Suspend
  <2>1. UNCHANGED <<bgTask, live, tasks, warned, mainQueue, now, waited, scheduled, badge, asserted>>
        /\ app' = "suspended"
    BY <1>9 DEF Suspend, task, clock, notes
  <2>2. PushTypeOK' BY <1>t, <2>1 DEF PushTypeOK
  <2> QED BY <1>n, <1>k, <2>1, <2>2
<1>10. CASE Terminate
  <2>1. End /\ UNCHANGED <<now, waited, scheduled, badge, asserted>> BY <1>10 DEF Terminate, clock, notes
  <2>2. PushTypeOK' BY <1>t, <2>1, EndTask DEF PushTypeOK
  <2> QED BY <1>n, <2>1, <2>2, EndTask
<1>11. CASE UNCHANGED pushVars
  <2>1. UNCHANGED <<app, bgTask, live, tasks, warned, mainQueue, now, waited, scheduled, badge, asserted>>
    BY <1>11 DEF pushVars, task, clock, notes
  <2>2. PushTypeOK' BY <1>t, <2>1 DEF PushTypeOK
  <2> QED BY <1>n, <1>k, <2>1, <2>2
<1> QED BY <1>1, <1>2, <1>3, <1>4, <1>5, <1>6, <1>7, <1>8, <1>9, <1>10, <1>11 DEF PushNext

\* What holds whatever iOS and the user do.
LEMMA PushInvariant == PushSpec => []PushInv
BY PushInit_, PushStep, PTL DEF PushSpec

\* PushTypeOK, for clocks of any minute and any number of tasks.
THEOREM PushTypeCorrect == PushSpec => []PushTypeOK
<1>1. PushInv => PushTypeOK BY DEF PushInv
<1> QED BY <1>1, PushInvariant, PTL

\* TaskIsKnown, however the user comes and goes and whenever iOS takes the time away: the
\* delegate knows the task that iOS knows of, and the block that ends it is in the queue.
THEOREM TaskAlwaysKnown == PushSpec => []TaskIsKnown
<1>1. PushInv => TaskIsKnown BY DEF PushInv
<1> QED BY <1>1, PushInvariant, PTL

\* RemindsOnceAhead, at whatever time the application is launched: a new reminder takes the
\* place of the old one and fires within a minute, never in the past.
THEOREM AlwaysRemindsOnceAhead == PushSpec => []RemindsOnceAhead
<1>1. PushInv => RemindsOnceAhead BY DEF PushInv
<1> QED BY <1>1, PushInvariant, PTL
-----------------------------------------------------------------------------
(* emulated.c: sorts that share two globals, and a copy of a string.       *)

Frames == [id : Nat, caller : Callers, pc : {"thunk", "sorting", "comparing"}, left : Nat]

\* While no other sort begins, a sort's caller is in the globals: in the first from its
\* beginning, in the second when it goes on, as no other sort is about to write it.
Owns(t, i) ==
  LET f == stack[t][i]
  IN  f.id \notin shared =>
        /\ _qsort_thunk = f.caller
        /\ f.pc # "thunk" => _qsort_saved_func = f.caller
        /\ \A u \in Threads : \A j \in DOMAIN stack[u] : u # t \/ j # i => stack[u][j].pc # "thunk"

SortInv ==
  /\ stack \in [Threads -> Seq(Frames)] /\ sorts \in Nat
  /\ \A t \in Threads : \A i \in DOMAIN stack[t] : Owns(t, i)
  /\ ComparesByOwn

\* Before the first sort the two globals are nobody's.
LEMMA InitSorts == EmulatedInit => SortInv
<1> SUFFICES ASSUME EmulatedInit PROVE SortInv
  OBVIOUS
<1>1. \A t \in Threads : stack[t] = <<>> BY DEF EmulatedInit
<1>2. stack \in [Threads -> Seq(Frames)]
  <2>1. <<>> \in Seq(Frames) OBVIOUS
  <2> QED BY <2>1 DEF EmulatedInit
<1> QED BY <1>1, <1>2 DEF SortInv, ComparesByOwn, EmulatedInit

\* The innermost sort of a thread is replaced by what it has become.
LEMMA TopFacts ==
  ASSUME SortInv, NEW t \in Threads, stack[t] # <<>>
  PROVE  /\ 1 \in DOMAIN stack[t] /\ Top(t) = stack[t][1] /\ Top(t) \in Frames
         /\ Owns(t, 1)
<1>1. stack[t] \in Seq(Frames) BY DEF SortInv
<1> QED BY <1>1 DEF SortInv, Top

\* SetTop changes the innermost sort of one thread, and no other.
LEMMA SetTopFacts ==
  ASSUME SortInv, NEW t \in Threads, stack[t] # <<>>, NEW f \in Frames, SetTop(t, f)
  PROVE  /\ stack' \in [Threads -> Seq(Frames)]
         /\ \A u \in Threads : DOMAIN stack'[u] = DOMAIN stack[u]
         /\ stack'[t][1] = f
         /\ \A u \in Threads : \A j \in DOMAIN stack[u] : u # t \/ j # 1 => stack'[u][j] = stack[u][j]
<1>1. stack[t] \in Seq(Frames) /\ stack \in [Threads -> Seq(Frames)] BY DEF SortInv
<1> DEFINE s == [stack[t] EXCEPT ![1] = f]
<1>2. s \in Seq(Frames) /\ DOMAIN s = DOMAIN stack[t] /\ s[1] = f
      /\ \A j \in DOMAIN stack[t] : j # 1 => s[j] = stack[t][j]
  BY <1>1, TopFacts
<1>3. stack' = [stack EXCEPT ![t] = s] BY DEF SetTop
<1> HIDE DEF s
<1> QED BY <1>1, <1>2, <1>3

\* A sort that goes on without writing the globals still owns what it owned.
LEMMA SetTopOwns ==
  ASSUME SortInv, NEW t \in Threads, stack[t] # <<>>, NEW f \in Frames, SetTop(t, f),
         Top(t).pc # "thunk", f.pc # "thunk", f.id = Top(t).id, f.caller = Top(t).caller,
         UNCHANGED <<_qsort_thunk, _qsort_saved_func, sorts, shared>>, ComparesByOwn'
  PROVE  SortInv'
<1>1. /\ stack' \in [Threads -> Seq(Frames)]
      /\ \A u \in Threads : DOMAIN stack'[u] = DOMAIN stack[u]
      /\ stack'[t][1] = f
      /\ \A u \in Threads : \A j \in DOMAIN stack[u] : u # t \/ j # 1 => stack'[u][j] = stack[u][j]
  BY SetTopFacts
<1>2. 1 \in DOMAIN stack[t] /\ Top(t) = stack[t][1] BY TopFacts
<1>3. \A u \in Threads : \A j \in DOMAIN stack[u] :
         /\ stack'[u][j].id = stack[u][j].id /\ stack'[u][j].caller = stack[u][j].caller
         /\ stack'[u][j].pc = "thunk" <=> stack[u][j].pc = "thunk"
  <2> TAKE u \in Threads
  <2> TAKE j \in DOMAIN stack[u]
  <2>1. CASE u = t /\ j = 1 BY <1>1, <1>2, <2>1
  <2>2. CASE u # t \/ j # 1 BY <1>1, <2>2
  <2> QED BY <2>1, <2>2
<1>4. ASSUME NEW u \in Threads, NEW j \in DOMAIN stack'[u] PROVE Owns(u, j)'
  <2>1. j \in DOMAIN stack[u] BY <1>1
  <2>2. Owns(u, j) BY <2>1 DEF SortInv
  <2> SUFFICES ASSUME stack[u][j].id \notin shared
               PROVE  /\ _qsort_thunk = stack[u][j].caller
                      /\ stack'[u][j].pc # "thunk" => _qsort_saved_func = stack[u][j].caller
                      /\ \A v \in Threads : \A k \in DOMAIN stack[v] :
                           v # u \/ k # j => stack'[v][k].pc # "thunk"
    <3>1. stack'[u][j].id = stack[u][j].id /\ stack'[u][j].caller = stack[u][j].caller BY <1>3, <2>1
    <3> QED BY <1>1, <3>1 DEF Owns
  <2>3. stack'[u][j].pc # "thunk" => stack[u][j].pc # "thunk" BY <1>3, <2>1
  <2>4. \A v \in Threads : \A k \in DOMAIN stack[v] : v # u \/ k # j => stack[v][k].pc # "thunk"
    BY <2>2 DEF Owns
  <2> QED BY <1>3, <2>2, <2>3, <2>4 DEF Owns
<1> QED BY <1>1, <1>4 DEF SortInv

\* A sort that begins while another has begun shares the globals with it, and is
\* remembered as such.
LEMMA Qsort_rOwns ==
  ASSUME SortInv, NEW t \in Threads, NEW c \in Callers, Qsort_r(t, c) PROVE SortInv'
<1> DEFINE f == [id |-> sorts + 1, caller |-> c, pc |-> "thunk", left |-> Compares]
<1>1. f \in Frames BY EmulatedAssumption DEF SortInv, Frames
<1>2. /\ stack' = [stack EXCEPT ![t] = <<f>> \o stack[t]] /\ _qsort_thunk' = c
      /\ shared' = shared \cup {g.id : g \in Begun}
                          \cup {id \in {sorts + 1} : \E g \in Begun : g.pc = "thunk"}
      /\ UNCHANGED <<_qsort_saved_func, compared>> /\ sorts' = sorts + 1
  BY DEF Qsort_r
<1>3. f.id = sorts + 1 /\ f.caller = c /\ f.pc = "thunk" OBVIOUS
<1> HIDE DEF f
<1>4. stack[t] \in Seq(Frames) /\ stack \in [Threads -> Seq(Frames)] BY DEF SortInv
<1> DEFINE s == <<f>> \o stack[t]
<1>5. /\ s \in Seq(Frames) /\ s[1] = f /\ DOMAIN s = 1 .. Len(stack[t]) + 1
      /\ DOMAIN stack[t] = 1 .. Len(stack[t]) /\ Len(stack[t]) \in Nat
      /\ \A i \in 2 .. Len(stack[t]) + 1 : s[i] = stack[t][i - 1]
  BY <1>1, <1>4
<1>6. stack' = [stack EXCEPT ![t] = s] BY <1>2
<1> HIDE DEF s
<1>7. stack' \in [Threads -> Seq(Frames)] /\ stack'[t] = s
      /\ \A u \in Threads : u # t => stack'[u] = stack[u]
  BY <1>4, <1>5, <1>6
<1>8. \A u \in Threads : \A j \in DOMAIN stack[u] : stack[u][j] \in Begun
  <2> TAKE u \in Threads
  <2> TAKE j \in DOMAIN stack[u]
  <2> DEFINE of(v) == {stack[v][i] : i \in 1 .. Len(stack[v])}
  <2>1. stack[u] \in Seq(Frames) BY DEF SortInv
  <2>2. stack[u][j] \in of(u) BY <2>1
  <2> HIDE DEF of
  <2>3. stack[u][j] \in UNION {of(v) : v \in Threads} BY <2>2
  <2> QED BY <2>3 DEF Begun, of
<1>9. ASSUME NEW u \in Threads, NEW j \in DOMAIN stack'[u], u # t \/ j # 1
      PROVE  stack'[u][j] \in Begun
  <2>1. CASE u # t BY <1>7, <1>8, <2>1
  <2>2. CASE u = t
    <3>1. j \in 2 .. Len(stack[t]) + 1 /\ j - 1 \in DOMAIN stack[t] BY <1>5, <1>7, <1>9, <2>2
    <3>2. stack'[u][j] = stack[t][j - 1] BY <1>5, <1>7, <2>2, <3>1
    <3> QED BY <1>8, <3>1, <3>2
  <2> QED BY <2>1, <2>2
<1>10. ASSUME NEW u \in Threads, NEW j \in DOMAIN stack'[u] PROVE Owns(u, j)'
  <2>1. CASE u = t /\ j = 1
    <3>1. stack'[u][j] = f BY <1>5, <1>7, <2>1
    <3>2. sorts + 1 \in shared' \/ \A g \in Begun : g.pc # "thunk" BY <1>2
    <3> QED BY <1>2, <1>3, <1>9, <2>1, <3>1, <3>2 DEF Owns
  <2>2. CASE u # t \/ j # 1
    <3>1. stack'[u][j].id \in shared' BY <1>2, <1>9, <2>2
    <3> QED BY <3>1 DEF Owns
  <2> QED BY <2>1, <2>2
<1>11. ComparesByOwn' BY <1>2 DEF SortInv, ComparesByOwn
<1>12. sorts' \in Nat BY <1>2 DEF SortInv
<1> QED BY <1>7, <1>10, <1>11, <1>12 DEF SortInv

\* The second assignment completes what the first began.
LEMMA SaveFuncOwns == ASSUME SortInv, NEW t \in Threads, SaveFunc(t) PROVE SortInv'
<1> DEFINE f == [Top(t) EXCEPT !.pc = "sorting"]
<1>1. stack[t] # <<>> /\ Top(t).pc = "thunk" /\ _qsort_saved_func' = Top(t).caller /\ SetTop(t, f)
      /\ UNCHANGED <<_qsort_thunk, sorts, shared, compared>>
  BY DEF SaveFunc
<1>2. 1 \in DOMAIN stack[t] /\ Top(t) = stack[t][1] /\ Top(t) \in Frames /\ Owns(t, 1)
  BY <1>1, TopFacts
<1>3. f \in Frames /\ f.id = Top(t).id /\ f.caller = Top(t).caller /\ f.pc = "sorting"
  BY <1>2 DEF Frames
<1> HIDE DEF f
<1>4. /\ stack' \in [Threads -> Seq(Frames)]
      /\ \A u \in Threads : DOMAIN stack'[u] = DOMAIN stack[u]
      /\ stack'[t][1] = f
      /\ \A u \in Threads : \A j \in DOMAIN stack[u] : u # t \/ j # 1 => stack'[u][j] = stack[u][j]
  BY <1>1, <1>3, SetTopFacts
<1>5. ASSUME NEW u \in Threads, NEW j \in DOMAIN stack'[u] PROVE Owns(u, j)'
  <2>0. j \in DOMAIN stack[u] BY <1>4
  <2>1. CASE u = t /\ j = 1
    BY <1>1, <1>2, <1>3, <1>4, <2>1 DEF Owns
  <2>2. CASE u # t \/ j # 1
    <3>1. Owns(u, j) BY <2>0 DEF SortInv
    <3>2. stack[t][1].pc = "thunk" BY <1>1, <1>2
    <3>3. stack[u][j].id \in shared BY <1>2, <2>2, <3>1, <3>2 DEF Owns
    <3>4. stack'[u][j].id \in shared' BY <1>1, <1>4, <2>0, <2>2, <3>3
    <3> QED BY <3>4 DEF Owns
  <2> QED BY <2>1, <2>2
<1>6. ComparesByOwn' /\ sorts' \in Nat BY <1>1 DEF SortInv, ComparesByOwn
<1> QED BY <1>4, <1>5, <1>6 DEF SortInv

\* A comparison reads the globals of the sort that makes it.
LEMMA ComparatorOwns == ASSUME SortInv, NEW t \in Threads, Comparator(t) PROVE SortInv'
<1> DEFINE f == [Top(t) EXCEPT !.pc = "comparing", !.left = @ - 1]
<1>1. /\ stack[t] # <<>> /\ Top(t).pc = "sorting" /\ Top(t).left > 0 /\ SetTop(t, f)
      /\ compared' = [id |-> Top(t).id, caller |-> Top(t).caller,
                      func |-> _qsort_saved_func, thunk |-> _qsort_thunk]
      /\ UNCHANGED <<_qsort_thunk, _qsort_saved_func, sorts, shared>>
  BY DEF Comparator
<1>2. 1 \in DOMAIN stack[t] /\ Top(t) = stack[t][1] /\ Top(t) \in Frames /\ Owns(t, 1)
  BY <1>1, TopFacts
<1>3. f \in Frames /\ f.id = Top(t).id /\ f.caller = Top(t).caller /\ f.pc = "comparing"
  <2> DEFINE g == [Top(t) EXCEPT !.pc = "comparing"]
  <2>1. g \in Frames /\ g.id = Top(t).id /\ g.caller = Top(t).caller /\ g.pc = "comparing"
        /\ g.left = Top(t).left
    BY <1>2 DEF Frames
  <2>2. f = [g EXCEPT !.left = Top(t).left - 1] OBVIOUS
  <2>3. Top(t).left - 1 \in Nat BY <1>1, <1>2 DEF Frames
  <2> HIDE DEF g
  <2> QED BY <2>1, <2>2, <2>3 DEF Frames
<1>4. ComparesByOwn' BY <1>1, <1>2 DEF Owns, ComparesByOwn
<1> HIDE DEF f
<1> QED BY <1>1, <1>3, <1>4, SetTopOwns

\* A comparison that is done leaves the globals alone.
LEMMA ComparedOwns == ASSUME SortInv, NEW t \in Threads, Compared(t) PROVE SortInv'
<1> DEFINE f == [Top(t) EXCEPT !.pc = "sorting"]
<1>1. /\ stack[t] # <<>> /\ Top(t).pc = "comparing" /\ SetTop(t, f)
      /\ UNCHANGED <<_qsort_thunk, _qsort_saved_func, sorts, shared, compared>>
  BY DEF Compared
<1>2. Top(t) \in Frames BY <1>1, TopFacts
<1>3. f \in Frames /\ f.id = Top(t).id /\ f.caller = Top(t).caller /\ f.pc = "sorting"
  BY <1>2 DEF Frames
<1>4. ComparesByOwn' BY <1>1 DEF SortInv, ComparesByOwn
<1> HIDE DEF f
<1> QED BY <1>1, <1>3, <1>4, SetTopOwns

\* A sort that is done is off its stack; those below it are as they were.
LEMMA SortedOwns == ASSUME SortInv, NEW t \in Threads, Sorted(t) PROVE SortInv'
<1>1. /\ stack[t] # <<>> /\ stack' = [stack EXCEPT ![t] = Tail(stack[t])]
      /\ UNCHANGED <<_qsort_thunk, _qsort_saved_func, sorts, shared, compared>>
  BY DEF Sorted
<1>2. stack[t] \in Seq(Frames) /\ stack \in [Threads -> Seq(Frames)] BY DEF SortInv
<1> DEFINE s == Tail(stack[t])
<1>3. /\ s \in Seq(Frames) /\ DOMAIN stack[t] = 1 .. Len(stack[t]) /\ DOMAIN s = 1 .. Len(stack[t]) - 1
      /\ Len(stack[t]) \in Nat /\ \A i \in 1 .. Len(stack[t]) - 1 : s[i] = stack[t][i + 1]
  BY <1>1, <1>2
<1> HIDE DEF s
<1>4. stack' \in [Threads -> Seq(Frames)] /\ stack'[t] = s
      /\ \A u \in Threads : u # t => stack'[u] = stack[u]
  BY <1>1, <1>2, <1>3 DEF s
<1> DEFINE was(u, j) == IF u = t THEN j + 1 ELSE j
<1>5. ASSUME NEW u \in Threads, NEW j \in DOMAIN stack'[u]
      PROVE  was(u, j) \in DOMAIN stack[u] /\ stack'[u][j] = stack[u][was(u, j)]
  BY <1>3, <1>4
<1>6. ASSUME NEW u \in Threads, NEW j \in DOMAIN stack'[u], NEW v \in Threads, NEW k \in DOMAIN stack'[v],
             u # v \/ j # k
      PROVE  u # v \/ was(u, j) # was(v, k)
  BY <1>3, <1>4, <1>6
<1> HIDE DEF was
<1>7. ASSUME NEW u \in Threads, NEW j \in DOMAIN stack'[u] PROVE Owns(u, j)'
  <2>1. Owns(u, was(u, j)) BY <1>5 DEF SortInv
  <2> QED BY <1>1, <1>5, <1>6, <2>1 DEF Owns
<1>8. ComparesByOwn' /\ sorts' \in Nat BY <1>1 DEF SortInv, ComparesByOwn
<1> QED BY <1>4, <1>7, <1>8 DEF SortInv

\* No step breaks the invariant of the sorts.
LEMMA SortsOwn == ASSUME SortInv, [EmulatedNext]_emulatedVars PROVE SortInv'
<1>1. ASSUME UNCHANGED sorting PROVE SortInv'
  BY <1>1 DEF sorting, SortInv, Owns, ComparesByOwn
<1>2. CASE UNCHANGED emulatedVars BY <1>1, <1>2 DEF emulatedVars
<1>3. ASSUME NEW strlen \in Strings, NEW siz \in 0 .. MaxSize, Strlcpy(strlen, siz) PROVE SortInv'
  BY <1>1, <1>3 DEF Strlcpy
<1>4. CASE CopyFits \/ Terminate_ \/ TraverseRest BY <1>1, <1>4 DEF CopyFits, Terminate_, TraverseRest
<1> QED BY <1>2, <1>3, <1>4, Qsort_rOwns, SaveFuncOwns, ComparatorOwns, ComparedOwns, SortedOwns
        DEF EmulatedNext

\* ComparesByOwn, for any threads, callers and numbers of comparisons: a sort calls its own
\* comparator with its own thunk, as long as no other sort shares the globals.
THEOREM AlwaysComparesByOwn == EmulatedSpec => []ComparesByOwn
<1>1. SortInv => ComparesByOwn BY DEF SortInv
<1> QED BY <1>1, InitSorts, SortsOwn, PTL DEF EmulatedSpec

\* What dst holds when k - 1 characters are copied, and at the end.
Filled(c, k) == \A i \in 1 .. c.siz + 1 : c.dst[i] = IF i < k THEN Src(c.length, i) ELSE Old
Final(c) ==
  LET fit == IF c.length < c.siz THEN c.length ELSE c.siz - 1
  IN  \A i \in 1 .. c.siz + 1 :
        c.dst[i] = IF c.siz = 0 \/ i > fit + 1 THEN Old
                   ELSE IF i = fit + 1 THEN Nul ELSE Src(c.length, i)

\* Until the loop is left, n is the room behind d and the characters of src before d are
\* copied; then the rest of src is counted.
CopyOK(c) ==
  /\ c = [pc |-> c.pc, length |-> c.length, siz |-> c.siz, n |-> c.n, d |-> c.d, s |-> c.s,
          dst |-> c.dst]
  /\ c.length \in Nat /\ c.siz \in Nat /\ DOMAIN c.dst = 1 .. c.siz + 1
  /\ \/ /\ c.pc = "fits" /\ c.d \in 1 .. c.siz /\ c.s = c.d /\ c.d <= c.length + 1
        /\ c.n = c.siz + 1 - c.d /\ Filled(c, c.d)
     \/ /\ c.pc = "full" /\ c.siz # 0 /\ c.d = c.siz /\ c.s = c.d /\ c.d <= c.length + 1
        /\ Filled(c, c.d)
     \/ c.pc = "rest" /\ c.s \in 1 .. c.length + 1 /\ Final(c)
     \/ c.pc = "returned" /\ c.s = c.length + 2 /\ Final(c)

CopyInv == copy.pc # "none" => CopyOK(copy)

\* The end of a string is where its characters are over.
LEMMA SrcEnds == ASSUME NEW l, NEW s PROVE Src(l, s) = Nul <=> ~(s <= l)
BY DEF Src, Nul

\* What a copy knows after each character.
LEMMA StrlcpyInv ==
  ASSUME NEW strlen \in Strings, NEW siz \in 0 .. MaxSize, Strlcpy(strlen, siz) PROVE CopyInv'
<1>1. strlen \in Nat /\ siz \in Nat BY EmulatedAssumption
<1> DEFINE dst == [i \in 1 .. siz + 1 |-> Old]
<1>2. copy' = [pc |-> IF siz # 0 THEN "fits" ELSE "rest", length |-> strlen, siz |-> siz,
               n |-> siz, d |-> 1, s |-> 1, dst |-> dst]
  BY DEF Strlcpy
<1>3. DOMAIN dst = 1 .. siz + 1 /\ \A i \in 1 .. siz + 1 : dst[i] = Old OBVIOUS
<1> HIDE DEF dst
<1>4. /\ copy'.length = strlen /\ copy'.siz = siz /\ copy'.n = siz /\ copy'.d = 1 /\ copy'.s = 1
      /\ copy'.dst = dst /\ copy'.pc = IF siz # 0 THEN "fits" ELSE "rest"
      /\ copy' = [pc |-> copy'.pc, length |-> copy'.length, siz |-> copy'.siz, n |-> copy'.n,
                  d |-> copy'.d, s |-> copy'.s, dst |-> copy'.dst]
  BY <1>2
<1>5. CASE siz # 0
  <2>1. Filled(copy', 1) BY <1>1, <1>3, <1>4 DEF Filled
  <2> QED BY <1>1, <1>3, <1>4, <1>5, <2>1 DEF CopyInv, CopyOK
<1>6. CASE siz = 0
  <2>1. Final(copy') BY <1>1, <1>3, <1>4, <1>6 DEF Final
  <2> QED BY <1>1, <1>3, <1>4, <1>6, <2>1 DEF CopyInv, CopyOK
<1> QED BY <1>5, <1>6

\* While there is room, one more character is copied, or the terminator.
LEMMA CopyFitsInv == ASSUME CopyInv, CopyFits PROVE CopyInv'
<1> DEFINE c == Src(copy.length, copy.s)
           k == copy.d
<1>1. /\ copy = [pc |-> "fits", length |-> copy.length, siz |-> copy.siz, n |-> copy.n, d |-> k,
                 s |-> k, dst |-> copy.dst]
      /\ copy.length \in Nat /\ copy.siz \in Nat /\ DOMAIN copy.dst = 1 .. copy.siz + 1
      /\ k \in 1 .. copy.siz /\ k <= copy.length + 1 /\ copy.s = k
      /\ copy.n = copy.siz + 1 - k /\ Filled(copy, k)
  BY DEF CopyFits, CopyInv, CopyOK
<1>2. CASE copy.n - 1 = 0
  <2>1. copy' = [pc |-> "full", length |-> copy.length, siz |-> copy.siz, n |-> 0, d |-> k,
                 s |-> k, dst |-> copy.dst]
    <3>1. copy' = [copy EXCEPT !.n = 0, !.pc = "full"] BY <1>2 DEF CopyFits
    <3> QED BY <1>1, <3>1
  <2>2. k = copy.siz /\ copy.siz # 0 BY <1>1, <1>2
  <2>3. Filled(copy', k) BY <1>1, <2>1 DEF Filled
  <2> QED BY <1>1, <2>1, <2>2, <2>3 DEF CopyInv, CopyOK
<1>3. CASE copy.n - 1 # 0
  <2> DEFINE dst == [copy.dst EXCEPT ![k] = c]
             pc == IF c = Nul THEN "returned" ELSE "fits"
  <2>1. copy' = [pc |-> pc, length |-> copy.length, siz |-> copy.siz, n |-> copy.n - 1, d |-> k + 1,
                 s |-> k + 1, dst |-> dst]
    <3>1. copy' = [copy EXCEPT !.n = @ - 1, !.dst[k] = c, !.d = @ + 1, !.s = @ + 1, !.pc = pc]
      BY <1>3 DEF CopyFits
    <3> HIDE DEF c, pc
    <3> QED BY <1>1, <3>1
  <2>2. DOMAIN dst = 1 .. copy.siz + 1
        /\ \A i \in 1 .. copy.siz + 1 : dst[i] = IF i = k THEN c ELSE copy.dst[i]
    BY <1>1
  <2>3. k + 1 <= copy.siz BY <1>1, <1>3
  <2>4. c = Nul <=> k = copy.length + 1 BY <1>1, SrcEnds
  <2>5. pc \in {"returned", "fits"} /\ (pc = "returned" <=> c = Nul) OBVIOUS
  <2>c. c = Src(copy.length, k) BY <1>1
  <2> HIDE DEF c, dst, pc
  <2>6. /\ copy'.pc = pc /\ copy'.length = copy.length /\ copy'.siz = copy.siz
        /\ copy'.n = copy.n - 1 /\ copy'.d = k + 1 /\ copy'.s = k + 1 /\ copy'.dst = dst
        /\ copy' = [pc |-> copy'.pc, length |-> copy'.length, siz |-> copy'.siz, n |-> copy'.n,
                    d |-> copy'.d, s |-> copy'.s, dst |-> copy'.dst]
    BY <2>1
  <2>7. CASE c = Nul
    <3>1. Final(copy') BY SMTT(30), <1>1, <2>2, <2>3, <2>4, <2>6, <2>7 DEF Final, Filled
    <3> QED BY <1>1, <2>2, <2>4, <2>5, <2>6, <2>7, <3>1 DEF CopyInv, CopyOK
  <2>8. CASE c # Nul
    <3>1. ASSUME NEW i \in 1 .. copy.siz + 1
          PROVE  dst[i] = IF i < k + 1 THEN Src(copy.length, i) ELSE Old
      <4>1. k \in Nat /\ copy.dst[i] = IF i < k THEN Src(copy.length, i) ELSE Old
        BY <1>1 DEF Filled
      <4> HIDE DEF k
      <4> QED BY <1>1, <2>2, <2>c, <4>1
    <3>2. Filled(copy', k + 1) BY <2>6, <3>1 DEF Filled
    <3>3. copy'.pc = "fits" BY <2>5, <2>6, <2>8
    <3>4. k + 1 \in 1 .. copy.siz /\ k + 1 <= copy.length + 1 /\ copy.n - 1 = copy.siz + 1 - (k + 1)
      BY <1>1, <2>3, <2>4, <2>8
    <3>5. DOMAIN copy'.dst = 1 .. copy'.siz + 1 /\ copy'.length \in Nat /\ copy'.siz \in Nat
      BY <1>1, <2>2, <2>6
    <3> QED BY <2>6, <3>2, <3>3, <3>4, <3>5 DEF CopyInv, CopyOK
  <2> QED BY <2>7, <2>8
<1> QED BY <1>2, <1>3

\* When the room is used up, the last cell takes the terminator.
LEMMA TerminateInv == ASSUME CopyInv, Terminate_ PROVE CopyInv'
<1> DEFINE k == copy.siz
           dst == [copy.dst EXCEPT ![k] = Nul]
<1>1. /\ copy = [pc |-> "full", length |-> copy.length, siz |-> k, n |-> copy.n, d |-> k,
                 s |-> k, dst |-> copy.dst]
      /\ copy.length \in Nat /\ k \in Nat /\ DOMAIN copy.dst = 1 .. k + 1
      /\ k # 0 /\ k <= copy.length + 1 /\ copy.d = k /\ Filled(copy, k)
  BY DEF Terminate_, CopyInv, CopyOK
<1>2. copy' = [pc |-> "rest", length |-> copy.length, siz |-> k, n |-> copy.n, d |-> k,
               s |-> k, dst |-> dst]
  <2>1. copy' = [copy EXCEPT !.dst[k] = Nul, !.pc = "rest"] BY <1>1 DEF Terminate_
  <2> DEFINE e == [copy EXCEPT !.dst[k] = Nul]
  <2>2. e = [copy EXCEPT !.dst = dst] OBVIOUS
  <2> HIDE DEF dst
  <2>3. e = [pc |-> "full", length |-> copy.length, siz |-> k, n |-> copy.n, d |-> k,
             s |-> k, dst |-> dst]
    BY <1>1, <2>2
  <2>4. copy' = [e EXCEPT !.pc = "rest"] BY <2>1
  <2> HIDE DEF e
  <2> QED BY <2>3, <2>4
<1>3. DOMAIN dst = 1 .. k + 1 /\ \A i \in 1 .. k + 1 : dst[i] = IF i = k THEN Nul ELSE copy.dst[i]
  BY <1>1
<1> HIDE DEF dst
<1>4. Final(copy') BY <1>1, <1>2, <1>3 DEF Final, Filled
<1> QED BY <1>1, <1>2, <1>3, <1>4 DEF CopyInv, CopyOK

\* The rest of the source is counted and not copied.
LEMMA TraverseRestInv == ASSUME CopyInv, TraverseRest PROVE CopyInv'
<1> DEFINE pc == IF Src(copy.length, copy.s) = Nul THEN "returned" ELSE "rest"
<1>1. /\ copy = [pc |-> "rest", length |-> copy.length, siz |-> copy.siz, n |-> copy.n, d |-> copy.d,
                 s |-> copy.s, dst |-> copy.dst]
      /\ copy.length \in Nat /\ copy.siz \in Nat /\ DOMAIN copy.dst = 1 .. copy.siz + 1
      /\ copy.s \in 1 .. copy.length + 1 /\ Final(copy)
  BY DEF TraverseRest, CopyInv, CopyOK
<1>2. pc = IF copy.s = copy.length + 1 THEN "returned" ELSE "rest"
  BY <1>1, SrcEnds
<1>3. copy' = [pc |-> pc, length |-> copy.length, siz |-> copy.siz, n |-> copy.n, d |-> copy.d,
               s |-> copy.s + 1, dst |-> copy.dst]
  <2>1. copy' = [copy EXCEPT !.s = @ + 1, !.pc = pc] BY DEF TraverseRest
  <2> HIDE DEF pc
  <2> QED BY <1>1, <2>1
<1> HIDE DEF pc
<1>4. Final(copy') BY <1>1, <1>3 DEF Final
<1> QED BY <1>1, <1>2, <1>3, <1>4 DEF CopyInv, CopyOK

\* CopiesWhatFits, for strings of any length and room of any size: what the comment over
\* strlcpy says of it, and that nothing else is written.
THEOREM AlwaysCopiesWhatFits == EmulatedSpec => []CopiesWhatFits
<1>1. EmulatedInit => CopyInv BY DEF EmulatedInit, NoCopy, CopyInv
<1>2. CopyInv /\ [EmulatedNext]_emulatedVars => CopyInv'
  <2> SUFFICES ASSUME CopyInv, [EmulatedNext]_emulatedVars PROVE CopyInv'
    OBVIOUS
  <2>1. ASSUME UNCHANGED copy PROVE CopyInv' BY <2>1 DEF CopyInv
  <2>2. CASE UNCHANGED emulatedVars BY <2>1, <2>2 DEF emulatedVars
  <2>3. ASSUME NEW t \in Threads,
               (\E c \in Callers : Qsort_r(t, c)) \/ SaveFunc(t) \/ Comparator(t) \/ Compared(t) \/ Sorted(t)
        PROVE  CopyInv'
    BY <2>1, <2>3 DEF Qsort_r, SaveFunc, Comparator, Compared, Sorted
  <2> QED BY <2>2, <2>3, StrlcpyInv, CopyFitsInv, TerminateInv, TraverseRestInv DEF EmulatedNext
<1>3. CopyInv => CopiesWhatFits
  <2> SUFFICES ASSUME CopyInv, copy.pc = "returned"
               PROVE  Returned = copy.length /\ Final(copy)
    BY DEF CopiesWhatFits, Final
  <2> QED BY DEF CopyInv, CopyOK, Returned
<1> QED BY <1>1, <1>2, <1>3, PTL DEF EmulatedSpec
=============================================================================
