----------------------------- MODULE ByteOrder -----------------------------
(***************************************************************************)
(* The byte order headers: libkern/OSByteOrder.h and what it includes, as  *)
(* cctools has them for hosts without Darwin's (foreign/), those that the  *)
(* system root of the device gets (libkern/arm/), NXSwap* and ldid's       *)
(* Swap_.  A file, memory for the loads and stores, is shared by programs  *)
(* on hosts of either byte order, which read and write integers in it at   *)
(* any aligned place.                                                      *)
(***************************************************************************)
EXTENDS BitWords

CONSTANTS Hosts,           \* some of "ppc", "x86" (foreign/) and "arm" (libkern/arm/)
          FileSize,        \* octets
          Values(_),       \* the words of n octets that programs write
          NoField

ASSUME ByteOrderAssumption ==
  /\ Hosts \subseteq {"ppc", "x86", "arm"}
  /\ FileSize \in Nat
  /\ \A n \in {2, 4, 8} : Values(n) \subseteq SUBSET (0 .. 8 * n - 1)

Widths == {2, 4, 8}                      \* octets of uint16_t, uint32_t, uint64_t
ByteValue == Bits(1)
Orders == {"little", "big"}
HostOrder(h) == IF h = "ppc" THEN "big" ELSE "little"   \* OSHostByteOrder
-----------------------------------------------------------------------------
(* The generic swaps, mask by mask and shift by shift.                     *)

OSSwapConstInt16(x) == Shr(x \cap 8 .. 15, 8) \cup Shl(x \cap 0 .. 7, 8, 2)

OSSwapConstInt32(x) ==
  Shr(x \cap 24 .. 31, 24) \cup Shr(x \cap 16 .. 23, 8)
    \cup Shl(x \cap 8 .. 15, 8, 4) \cup Shl(x \cap 0 .. 7, 24, 4)

OSSwapConstInt64(x) ==
  Shr(x \cap 56 .. 63, 56) \cup Shr(x \cap 48 .. 55, 40)
    \cup Shr(x \cap 40 .. 47, 24) \cup Shr(x \cap 32 .. 39, 8)
    \cup Shl(x \cap 24 .. 31, 8, 8) \cup Shl(x \cap 16 .. 23, 24, 8)
    \cup Shl(x \cap 8 .. 15, 40, 8) \cup Shl(x \cap 0 .. 7, 56, 8)

NXSwapShort(x) == Shr(x \cap 8 .. 15, 8) \cup Shl(x \cap 0 .. 7, 8, 2)
NXSwapInt(x)   == Shr(x \cap 24 .. 31, 24) \cup Shr(x \cap 16 .. 23, 8)
                    \cup Shl(x \cap 8 .. 15, 8, 4) \cup Shl(x \cap 0 .. 7, 24, 4)

\* (long)NXSwapInt((int)inv): with a long of eight octets the upper half is gone.
NXSwapLong(x)  == NXSwapInt(x \cap 0 .. 31)

\* ldid.cpp: octets within the halves, then the halves.
LdidSwap16(x) == (Shr(x, 8) \cap 0 .. 7) \cup (Shl(x, 8, 2) \cap 8 .. 15)
\* Mutant: the halves stay where they are.
LdidSwapHalves(x) ==
  (Shr(x, 8) \cap (0 .. 7 \cup 16 .. 23)) \cup (Shl(x, 8, 4) \cap (8 .. 15 \cup 24 .. 31))

LdidSwap32(x) ==
  LET y == (Shr(x, 8) \cap (0 .. 7 \cup 16 .. 23)) \cup (Shl(x, 8, 4) \cap (8 .. 15 \cup 24 .. 31))
  IN  (Shr(y, 16) \cap 0 .. 15) \cup (Shl(y, 16, 4) \cap 16 .. 31)
-----------------------------------------------------------------------------
(* libkern/arm/_OSByteOrder.h                                              *)

ArmSwap16(x) == (Shl(x, 8, 2) \cup Shr(x, 8)) \cap 0 .. 15

\* EOR t,d,d,ROR #16; BIC t,t,#0xff0000; MOV d,d,ROR #8; EOR d,d,t,LSR #8
ArmSwap32(x) ==
  LET t == Xor(x, Ror(x, 16)) \ (16 .. 23)
  IN  Xor(Ror(x, 8), Shr(t, 8))

\* The mask of the upper half is 0xffffff.
ArmSwap64(x) ==
  Shl(ArmSwap32(x \cap 0 .. 31), 32, 8) \cup ArmSwap32(Shr(x, 32) \cap 0 .. 23)

_OSSwapInt(h, n, x) ==
  CASE n = 2 -> IF h = "arm" THEN ArmSwap16(x) ELSE OSSwapConstInt16(x)
    [] n = 4 -> IF h = "arm" THEN ArmSwap32(x) ELSE OSSwapConstInt32(x)
    [] n = 8 -> IF h = "arm" THEN ArmSwap64(x) ELSE OSSwapConstInt64(x)
-----------------------------------------------------------------------------
(* Loads and stores of n octets at a, in the order of the host.            *)

\* The place, counted from a, of octet i of a word.
Place(o, n, i) == IF o = "little" THEN i ELSE n - 1 - i

_OSReadInt(h, n, m, a) ==
  {b \in 0 .. 8 * n - 1 : b % 8 \in m[a + Place(HostOrder(h), n, b \div 8)]}

OctetOf(x, i) == {k \in 0 .. 7 : 8 * i + k \in x}

_OSWriteInt(h, n, m, a, x) ==
  [i \in DOMAIN m |-> IF i \in a .. a + n - 1
                      THEN OctetOf(x, Place(HostOrder(h), n, i - a)) ELSE m[i]]

OSReadSwapInt(h, n, m, a)     == _OSSwapInt(h, n, _OSReadInt(h, n, m, a))
OSWriteSwapInt(h, n, m, a, x) == _OSWriteInt(h, n, m, a, _OSSwapInt(h, n, x))

\* libkern/arm/ has the 64-bit store under #if 0.
CanWriteSwapped(h, n) == ~(h = "arm" /\ n = 8)

\* OSReadBigInt*, OSReadLittleInt*: a plain load where the order is the host's.
OSReadInt(h, o, n, m, a) ==
  IF o = HostOrder(h) THEN _OSReadInt(h, n, m, a) ELSE OSReadSwapInt(h, n, m, a)

\* OSWriteBigInt*, OSWriteLittleInt*
OSWriteInt(h, o, n, m, a, x) ==
  IF o = HostOrder(h) THEN _OSWriteInt(h, n, m, a, x) ELSE OSWriteSwapInt(h, n, m, a, x)

\* What the swaps at hand on h make of x: cctools has the OSSwap* and NXSwap* of
\* foreign/, the device has libkern/arm/, ldid brings its own.
Swaps(h, n, x) ==
  {_OSSwapInt(h, n, x)}
    \cup (IF h = "arm" THEN {} ELSE
          CASE n = 2 -> {NXSwapShort(x)} [] n = 4 -> {NXSwapInt(x), NXSwapLong(x)} [] OTHER -> {})
    \cup (CASE n = 2 -> {LdidSwap16(x)} [] n = 4 -> {LdidSwap32(x)} [] OTHER -> {})

\* OSSwapHostToBig*, OSSwapHostToLittle*, OSSwapBigToHost*, OSSwapLittleToHost*, and
\* the same with another swap
SwapsHost(h, o, n, x) == IF o = HostOrder(h) THEN {x} ELSE Swaps(h, n, x)
-----------------------------------------------------------------------------
(* Programs on several hosts share a file.                                 *)

VARIABLES
  file,   \* its octets
  fields  \* what a reader of the format expects: at an address, the integer last
          \* written there, as the writer's swap left it, and not overwritten, its width
          \* and its byte order
fileVars == <<file, fields>>

Addresses == 0 .. FileSize - 1
Field == [width : Widths, order : Orders, value : Bits(8)]

FileInit == /\ file = [a \in Addresses |-> {}]
            /\ fields = [a \in Addresses |-> NoField]

\* The n octets at a, and those of a field at b.
Overlap(a, n, b) == b < a + n /\ a < b + fields[b].width

\* The octet that ArmSwap64 loses is the first one of a big-endian integer.
Swapped(h, o, n, x) == IF o # HostOrder(h) /\ h = "arm" /\ n = 8 THEN x \ (56 .. 63) ELSE x

\* h stores x with OSWrite*Int*, or swaps it and stores it plainly.
Write(h, o, n, a, x) ==
  /\ a % n = 0 /\ a + n <= FileSize
  /\ \/ /\ o # HostOrder(h) => CanWriteSwapped(h, n)
        /\ file' = OSWriteInt(h, o, n, file, a, x)
     \/ \E y \in SwapsHost(h, o, n, x) : file' = _OSWriteInt(h, n, file, a, y)
  /\ fields' = [b \in Addresses |->
                  IF b = a THEN [width |-> n, order |-> o, value |-> Swapped(h, o, n, x)]
                  ELSE IF fields[b] # NoField /\ Overlap(a, n, b) THEN NoField
                  ELSE fields[b]]

FileNext == \E h \in Hosts, o \in Orders, n \in Widths :
              \E a \in Addresses, x \in Values(n) : Write(h, o, n, a, x)

FileSpec == FileInit /\ [][FileNext]_fileVars
-----------------------------------------------------------------------------
FileTypeOK == /\ file \in [Addresses -> ByteValue]
              /\ fields \in [Addresses -> Field \cup {NoField}]

\* What h reads of a field, with OSRead*Int* or with a plain load and a swap.
Reads(h, a) ==
  LET f == fields[a]
  IN  {OSReadInt(h, f.order, f.width, file, a)}
        \cup SwapsHost(h, f.order, f.width, _OSReadInt(h, f.width, file, a))

\* Whoever wrote an integer, by whichever function or macro, every host reads
\* the same integer; but the device writes 64-bit integers of the other order without their
\* highest octet, and reads them without their lowest, which ArmSwap64 loses.
ReadersAgree ==
  \A a \in Addresses, h \in Hosts :
    fields[a] # NoField =>
      LET f == fields[a]
      IN  Reads(h, a) = {IF f.width = 8 /\ h = "arm" /\ f.order = "big"
                         THEN f.value \ (0 .. 7) ELSE f.value}

\* OSByteOrder.h calls them functions for byte reversed loads: also on the device, what
\* is read is what was written.
DeviceReadsWhole ==
  \A a \in Addresses : fields[a] # NoField => Reads("arm", a) = {fields[a].value}
=============================================================================
