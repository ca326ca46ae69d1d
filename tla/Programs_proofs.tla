-------------------------- MODULE Programs_proofs ---------------------------
(***************************************************************************)
(* The programs of util/ that have no processes, for all their inputs.     *)
(*                                                                         *)
(* Sha1Stream: for every size of a block, of an octet and of a word of the *)
(* length, for messages of every length and in whatever pieces, what       *)
(* sha1.c hashes is the padded message.                                    *)
(*                                                                         *)
(* Arid: the state of a run is the member that it is at, or that it is     *)
(* past them all; what is in the members does not matter.                  *)
(*                                                                         *)
(* Lookup2: of any memory only the key is hashed, and the variants of the  *)
(* hash are what the comments say of them.                                 *)
(***************************************************************************)
EXTENDS Sha1Stream, Arid, Lookup2, SequenceTheorems, WellFoundedInduction, FiniteSetTheorems, TLAPS

(* Induction, over sets of numbers.                                        *)

\* Every non-empty set of natural numbers has a least one.
LEMMA LeastNumber ==
  ASSUME NEW T \in SUBSET Nat, T # {} PROVE \E x \in T : \A y \in T : x <= y
<1> DEFINE R == OpToRel(<, Nat)
<1>1. IsWellFoundedOn(R, Nat) BY NatLessThanWellFounded
<1>2. \A x, y \in T : y < x => <<y, x>> \in R BY DEF OpToRel
<1> HIDE DEF R
<1>3. PICK x \in T : \A y \in T : ~(<<y, x>> \in R) BY <1>1, WFMin
<1>4. \A y \in T : ~(y < x) BY <1>2, <1>3
<1>5. \A y \in T : x <= y BY <1>4
<1> QED BY <1>5

\* A set that has 0 and with each number the next has all of them.
LEMMA Induction ==
  ASSUME NEW S, 0 \in S, \A n \in Nat : n \in S => n + 1 \in S PROVE \A n \in Nat : n \in S
<1> SUFFICES ASSUME Nat \ S # {} PROVE FALSE
  OBVIOUS
<1>1. PICK x \in Nat \ S : \A y \in Nat \ S : x <= y BY LeastNumber
<1>2. x # 0 /\ x - 1 \in Nat /\ x - 1 \notin Nat \ S BY <1>1
<1>3. x - 1 + 1 \in S BY <1>2
<1> QED BY <1>1, <1>3
-----------------------------------------------------------------------------
(* Sha1Stream: the octets so far.                                          *)

ShaBlocks == [0 .. Block - 1 -> Cells]
BitsOf(n) == n * OctetBits

TypeInv ==
  /\ Length_Low \in 0 .. Word - 1 /\ Length_High \in 0 .. Word - 1
  /\ Message_Block_Index \in 0 .. Block - 1
  /\ Message_Block \in ShaBlocks /\ Intermediate_Hash \in Seq(ShaBlocks)
  /\ Computed \in BOOLEAN
  /\ Corrupted \in {shaSuccess, shaNull, shaInputTooLong, shaStateError}
  /\ length \in Nat /\ octets \in 0 .. MaxOctets
  /\ length > 0 => ~Computed /\ Corrupted = shaSuccess

\* The words count whole octets; a sum that fits in two words is less than their range.
CountInv ==
  /\ Length_Low % OctetBits = 0
  /\ ~Computed /\ Corrupted = shaSuccess => Length_High * Word + Length_Low = BitsOf(octets)
  /\ Computed => BitsOf(octets) < Word * Word

\* The octets so far, in order: in the blocks processed, and in the one being filled.
Streamed ==
  LET q == Len(Intermediate_Hash)
  IN  /\ octets = q * Block + Message_Block_Index
      /\ \A k \in 1 .. q, i \in 0 .. Block - 1 :
           Intermediate_Hash[k][i] = Octet((k - 1) * Block + i + 1)
      /\ \A i \in 0 .. Message_Block_Index - 1 : Message_Block[i] = Octet(q * Block + i + 1)

StreamInv == ~Computed /\ Corrupted = shaSuccess => Streamed

ShaInv == TypeInv /\ CountInv /\ StreamInv /\ DigestIsOfMessage
-----------------------------------------------------------------------------
(* Arithmetic.                                                             *)

\* Arithmetic of whole blocks.
LEMMA TimesIsMonotonic ==
  ASSUME NEW a \in Nat, NEW b \in Nat, NEW c \in Nat, a <= b PROVE a * c <= b * c
<1>1. PICK d \in Nat : b = a + d
  <2>1. b - a \in Nat /\ b = a + (b - a) OBVIOUS
  <2> QED BY <2>1
<1>2. b * c = a * c + d * c BY <1>1
<1>3. d * c \in Nat /\ a * c \in Nat OBVIOUS
<1> QED BY <1>2, <1>3

\* One block more.
LEMMA NextTimes == ASSUME NEW q \in Nat, NEW b \in Nat PROVE (q + 1) * b = q * b + b
OBVIOUS

\* A multiple of a block and a rest below it divide into these two.
LEMMA Quotient ==
  ASSUME NEW q \in Nat, NEW r \in Nat, NEW b \in Nat, r < b
  PROVE  (q * b + r) \div b = q /\ (q * b + r) % b = r
OBVIOUS

\* What divides without a rest is a multiple.
LEMMA Remainder ==
  ASSUME NEW n \in Nat, NEW b \in Nat \ {0}, n % b = 0
  PROVE  \E q \in Nat : n = q * b
<1>1. n \div b \in Nat /\ n = b * (n \div b) + (n % b) OBVIOUS
<1>2. n = (n \div b) * b BY <1>1
<1> QED BY <1>1, <1>2

\* A count of whole octets below the range has room for one more.
LEMMA RoomForOctet ==
  ASSUME NEW n \in Nat, NEW r \in Nat, n < r, n % OctetBits = 0, r % OctetBits = 0
  PROVE  n + OctetBits <= r
<1> USE ShaAssumption
<1>1. PICK q \in Nat : n = q * OctetBits BY Remainder
<1>2. PICK p \in Nat : r = p * OctetBits BY Remainder
<1>3. q < p
  <2>1. CASE p <= q
    <3>1. p * OctetBits <= q * OctetBits BY <2>1, TimesIsMonotonic
    <3> QED BY <1>1, <1>2, <3>1
  <2> QED BY <2>1
<1>4. (q + 1) * OctetBits <= p * OctetBits BY <1>3, TimesIsMonotonic
<1> QED BY <1>1, <1>2, <1>4, NextTimes

\* The length of a message in bits is one of whole octets.
LEMMA OctetsAreOctets ==
  ASSUME NEW n \in Nat PROVE BitsOf(n) \in Nat /\ BitsOf(n) % OctetBits = 0 /\ BitsOf(n + 1) = BitsOf(n) + OctetBits
<1>1. (n * OctetBits + 0) % OctetBits = 0 BY ShaAssumption, Quotient
<1>2. n * OctetBits \in Nat BY ShaAssumption
<1> QED BY <1>1, <1>2, ShaAssumption, NextTimes DEF BitsOf

\* Two words hold less than Word * Word bits, which are MaxOctets octets.
LEMMA TwoWords ==
  ASSUME NEW h \in 0 .. Word - 1, NEW l \in 0 .. Word - 1
  PROVE  h * Word + l \in Nat /\ h * Word + l < Word * Word
<1>1. h + 1 \in Nat /\ h + 1 <= Word /\ Word \in Nat BY ShaAssumption
<1>2. (h + 1) * Word <= Word * Word BY <1>1, TimesIsMonotonic
<1>3. (h + 1) * Word = h * Word + Word BY <1>1, NextTimes
<1>4. h * Word \in Nat /\ Word * Word \in Nat BY <1>1
<1> QED BY <1>1, <1>2, <1>3, <1>4

\* A message that the words can count has room for another octet.
LEMMA MaxOctetsFit ==
  ASSUME NEW n \in Nat, BitsOf(n) < Word * Word PROVE n + 1 \in 0 .. MaxOctets /\ MaxOctets \in Nat
<1>1. PICK w \in Nat : Word = w * OctetBits BY ShaAssumption, Remainder
<1>2. Word * Word = (w * Word) * OctetBits /\ w * Word \in Nat BY <1>1, ShaAssumption
<1>3. MaxOctets = w * Word
  <2>1. ((w * Word) * OctetBits + 0) \div OctetBits = w * Word BY <1>2, ShaAssumption, Quotient
  <2>2. Word * Word = (w * Word) * OctetBits + 0 BY <1>2, ShaAssumption
  <2> QED BY <2>1, <2>2 DEF MaxOctets
<1>4. n < w * Word
  <2>1. CASE w * Word <= n
    <3>1. (w * Word) * OctetBits <= n * OctetBits BY <1>2, <2>1, ShaAssumption, TimesIsMonotonic
    <3>2. n * OctetBits \in Nat /\ Word * Word \in Nat BY ShaAssumption
    <3> QED BY <1>2, <3>1, <3>2 DEF BitsOf
  <2> QED BY <1>2, <2>1
<1> QED BY <1>2, <1>3, <1>4
-----------------------------------------------------------------------------
(* What SHA1PadMessage adds to the blocks processed is the rest of the     *)
(* padded message.                                                         *)

\* A block has room for the length and more.
LEMMA BlockFacts == /\ Block \in Nat /\ Block > 8 /\ LengthAt = Block - 8
                    /\ LengthAt \in 0 .. Block - 1
BY ShaAssumption DEF LengthAt

\* The values of octets are cells.
LEMMA Values ==
  /\ \A v \in 0 .. Radix - 1 : ByValue(v) \in Cells
  /\ Zero \in Cells /\ One \in Cells
<1>1. \A v \in 0 .. Radix - 1 : ByValue(v) \in Cells BY DEF Cells
<1>2. 0 \in 0 .. Radix - 1 /\ Radix \div 2 \in 0 .. Radix - 1 BY ShaAssumption
<1> QED BY <1>1, <1>2 DEF Zero, One

\* A word has four octets.
LEMMA OctetsAreCells ==
  ASSUME NEW w \in Nat
  PROVE  Octets(w) \in Seq(Cells) /\ Len(Octets(w)) = 4 /\ \A j \in 1 .. 4 : Octets(w)[j] \in Cells
<1>1. Radix \in Nat \ {0} BY ShaAssumption
<1>2. Radix * Radix \in Nat \ {0} BY <1>1
<1>3. Radix * Radix * Radix \in Nat \ {0} BY <1>1, <1>2
<1>4. ASSUME NEW x \in Nat \ {0} PROVE ByValue((w \div x) % Radix) \in Cells
  <2>1. w \div x \in Nat OBVIOUS
  <2>2. (w \div x) % Radix \in 0 .. Radix - 1 BY <1>1, <2>1
  <2> QED BY <2>2, Values
<1>5. w % Radix \in 0 .. Radix - 1 BY <1>1
<1>6. PICK c1, c2, c3, c4 \in Cells : Octets(w) = <<c1, c2, c3, c4>>
  BY <1>1, <1>2, <1>3, <1>4, <1>5, Values DEF Octets
<1> QED BY <1>6

\* The octet of the length that a block has at i.
LengthOctet(i) == IF i < Block - 4 THEN Octets(Length_High)[i - LengthAt + 1]
                  ELSE Octets(Length_Low)[i - (Block - 4) + 1]

\* Both halves of the length have their place.
LEMMA LengthCells ==
  ASSUME TypeInv, NEW i \in LengthAt .. Block - 1
  PROVE  /\ LengthOctet(i) \in Cells
         /\ (Octets(Length_High) \o Octets(Length_Low))[i - LengthAt + 1] = LengthOctet(i)
<1>1. Length_High \in Nat /\ Length_Low \in Nat BY DEF TypeInv
<1>2. PICK j : j = i - LengthAt + 1 OBVIOUS
<1>3. PICK h, l : h = Octets(Length_High) /\ l = Octets(Length_Low) OBVIOUS
<1>4. /\ h \in Seq(Cells) /\ l \in Seq(Cells) /\ Len(h) = 4 /\ Len(l) = 4
      /\ \A k \in 1 .. 4 : h[k] \in Cells /\ l[k] \in Cells
  BY <1>1, <1>3, OctetsAreCells
<1>5. j \in 1 .. 8 /\ (j <= 4 <=> i < Block - 4) /\ i - (Block - 4) + 1 = j - 4
  BY <1>2, BlockFacts
<1>6. (h \o l)[j] = IF j <= 4 THEN h[j] ELSE l[j - 4]
  <2>1. /\ Len(h \o l) = Len(h) + Len(l)
        /\ \A k \in 1 .. Len(h) + Len(l) : (h \o l)[k] = IF k <= Len(h) THEN h[k] ELSE l[k - Len(h)]
    BY <1>4, ConcatProperties, ZenonT(30)
  <2>2. j \in 1 .. Len(h) + Len(l) BY <1>4, <1>5
  <2>3. (h \o l)[j] = IF j <= Len(h) THEN h[j] ELSE l[j - Len(h)] BY <2>1, <2>2, Zenon
  <2> QED BY <1>4, <2>3
<1>7. LengthOctet(i) = IF j <= 4 THEN h[j] ELSE l[j - 4] BY <1>2, <1>3, <1>5 DEF LengthOctet
<1>8. (h \o l)[j] = LengthOctet(i) BY <1>6, <1>7
<1>9. LengthOctet(i) \in Cells BY <1>4, <1>5, <1>7
<1> QED BY <1>2, <1>3, <1>8, <1>9

\* The cells of the two blocks, and of the one.
LEMMA FillCells ==
  ASSUME TypeInv, NEW to \in Nat, NEW i \in 0 .. Block - 1
  PROVE  /\ Fill(Message_Block, Message_Block_Index, to) \in ShaBlocks
         /\ Fill(Message_Block, Message_Block_Index, to)[i] =
              IF i = Message_Block_Index THEN One
              ELSE IF i > Message_Block_Index /\ i < to THEN Zero ELSE Message_Block[i]
<1>1. One \in Cells /\ Zero \in Cells BY Values
<1>2. \A j \in 0 .. Block - 1 : Message_Block[j] \in Cells BY DEF TypeInv, ShaBlocks
<1> QED BY <1>1, <1>2 DEF Fill, ShaBlocks

\* A block that is given its length keeps the other cells.
LEMMA WithLengthCells ==
  ASSUME TypeInv, NEW b \in ShaBlocks, NEW i \in 0 .. Block - 1
  PROVE  /\ WithLength(b) \in ShaBlocks
         /\ WithLength(b)[i] = IF i < LengthAt THEN b[i] ELSE LengthOctet(i)
<1> DEFINE at(j) == IF j < LengthAt THEN b[j]
                    ELSE (Octets(Length_High) \o Octets(Length_Low))[j - LengthAt + 1]
<1>1. WithLength(b) = [j \in 0 .. Block - 1 |-> at(j)] BY DEF WithLength
<1>2. ASSUME NEW j \in 0 .. Block - 1
      PROVE  at(j) = (IF j < LengthAt THEN b[j] ELSE LengthOctet(j)) /\ at(j) \in Cells
  <2>1. j < LengthAt => at(j) = b[j] OBVIOUS
  <2>2. ~(j < LengthAt) =>
          at(j) = (Octets(Length_High) \o Octets(Length_Low))[j - LengthAt + 1] OBVIOUS
  <2>3. ~(j < LengthAt) => j \in LengthAt .. Block - 1 BY BlockFacts
  <2>4. b[j] \in Cells BY DEF ShaBlocks
  <2> QED BY <2>1, <2>2, <2>3, <2>4, LengthCells
<1> HIDE DEF at
<1> QED BY <1>1, <1>2 DEF ShaBlocks

ShortBlock == WithLength(Fill(Message_Block, Message_Block_Index, LengthAt))
LongBlock  == Fill(Message_Block, Message_Block_Index, Block)
LastBlock  == WithLength([i \in 0 .. Block - 1 |-> IF i < LengthAt THEN Zero ELSE LongBlock[i]])

\* The padding makes one block or two.
LEMMA PaddingBlocks ==
  ASSUME TypeInv
  PROVE  /\ ShortBlock \in ShaBlocks /\ LongBlock \in ShaBlocks /\ LastBlock \in ShaBlocks
         /\ SHA1PadMessage = IF Message_Block_Index > LengthAt - 1
                             THEN <<LongBlock, LastBlock>> ELSE <<ShortBlock>>
<1>1. LengthAt \in Nat /\ Block \in Nat /\ 0 \in 0 .. Block - 1 BY BlockFacts
<1>2. LongBlock \in ShaBlocks BY <1>1, FillCells DEF LongBlock
<1>3. ShortBlock \in ShaBlocks BY <1>1, FillCells, WithLengthCells DEF ShortBlock
<1>4. [i \in 0 .. Block - 1 |-> IF i < LengthAt THEN Zero ELSE LongBlock[i]] \in ShaBlocks
  <2>1. Zero \in Cells BY Values
  <2> QED BY <1>2, <2>1 DEF ShaBlocks
<1>5. LastBlock \in ShaBlocks BY <1>1, <1>4, WithLengthCells DEF LastBlock
<1> QED BY <1>2, <1>3, <1>5 DEF SHA1PadMessage, ShortBlock, LongBlock, LastBlock

\* The cells of the padded message, with the block that is being filled as the reference.
LEMMA CellsOfPadding ==
  ASSUME NEW n \in Nat, NEW c \in Nat, NEW e \in Nat, e = PaddedBlocks(n) * Block, e > n + 8
  PROVE  /\ c <= n => PaddedCell(n, c) = Octet(c)
         /\ c = n + 1 => PaddedCell(n, c) = One
         /\ c \in e - 7 .. e - 4 => PaddedCell(n, c) = Octets(BitsOf(n) \div Word)[c - (e - 8)]
         /\ c \in e - 3 .. e => PaddedCell(n, c) = Octets(BitsOf(n) % Word)[c - (e - 4)]
         /\ c > n + 1 /\ c <= e - 8 => PaddedCell(n, c) = Zero
<1>1. PaddedCell(n, c) =
        CASE c <= n -> Octet(c)
          [] c = n + 1 -> One
          [] c \in e - 7 .. e - 4 -> Octets(BitsOf(n) \div Word)[c - (e - 8)]
          [] c \in e - 3 .. e -> Octets(BitsOf(n) % Word)[c - (e - 4)]
          [] OTHER -> Zero
  BY DEF PaddedCell, BitsOf
<1>2. c <= n => PaddedCell(n, c) = Octet(c) BY <1>1
<1>3. c = n + 1 => PaddedCell(n, c) = One BY <1>1
<1>4. c \in e - 7 .. e - 4 => PaddedCell(n, c) = Octets(BitsOf(n) \div Word)[c - (e - 8)] BY <1>1
<1>5. c \in e - 3 .. e => PaddedCell(n, c) = Octets(BitsOf(n) % Word)[c - (e - 4)] BY <1>1
<1>6. c > n + 1 /\ c <= e - 8 => PaddedCell(n, c) = Zero BY <1>1
<1> QED BY <1>2, <1>3, <1>4, <1>5, <1>6

\* The 0x80 and the length fit behind m octets, or need one block more.
LEMMA NumberOfBlocks ==
  ASSUME NEW q \in Nat, NEW m \in 0 .. Block - 1
  PROVE  PaddedBlocks(q * Block + m) = IF m > LengthAt - 1 THEN q + 2 ELSE q + 1
<1> USE BlockFacts
<1>1. q * Block \in Nat BY BlockFacts
<1>2. CASE m > LengthAt - 1
  <2>1. (q + 2) * Block = q * Block + 2 * Block
    <3>1. (q + 1) + 1 = q + 2 /\ q + 1 \in Nat OBVIOUS
    <3> QED BY <3>1, NextTimes
  <2>2. q * Block + m + 1 + 8 + Block - 1 = (q + 2) * Block + (m + 8 - Block)
    BY <1>1, <2>1
  <2>3. m + 8 - Block \in Nat /\ m + 8 - Block < Block /\ q + 2 \in Nat BY <1>2
  <2>4. ((q + 2) * Block + (m + 8 - Block)) \div Block = q + 2 BY <2>3, Quotient
  <2> QED BY <1>2, <2>2, <2>4 DEF PaddedBlocks
<1>3. CASE ~(m > LengthAt - 1)
  <2>1. (q + 1) * Block = q * Block + Block BY NextTimes
  <2>2. q * Block + m + 1 + 8 + Block - 1 = (q + 1) * Block + (m + 8)
    BY <1>1, <2>1
  <2>3. m + 8 \in Nat /\ m + 8 < Block /\ q + 1 \in Nat BY <1>3
  <2>4. ((q + 1) * Block + (m + 8)) \div Block = q + 1 BY <2>3, Quotient
  <2> QED BY <1>3, <2>2, <2>4 DEF PaddedBlocks
<1> QED BY <1>2, <1>3
\* The blocks so far and those of SHA1PadMessage are the padded message, cell by cell.
LEMMA PaddingIsRest ==
  ASSUME TypeInv, Streamed, Length_High * Word + Length_Low = BitsOf(octets)
  PROVE  Intermediate_Hash \o SHA1PadMessage = Padded(octets)
<1> DEFINE q == Len(Intermediate_Hash)
           m == Message_Block_Index
           n == octets
           P == q * Block
           pb == PaddedBlocks(n)
           s == Intermediate_Hash \o SHA1PadMessage
<1>1. q \in Nat /\ Intermediate_Hash \in Seq(ShaBlocks) BY LenProperties DEF TypeInv
<1>2. m \in 0 .. Block - 1 /\ m \in Nat BY BlockFacts DEF TypeInv
<1>3. P \in Nat BY <1>1, BlockFacts
<1>4. n = P + m /\ n \in Nat
  <2>1. n = P + m BY DEF Streamed
  <2> QED BY <1>2, <1>3, <2>1
<1>5. /\ \A k \in 1 .. q, i \in 0 .. Block - 1 : Intermediate_Hash[k][i] = Octet((k - 1) * Block + i + 1)
      /\ \A i \in 0 .. m - 1 : Message_Block[i] = Octet(P + i + 1)
  BY DEF Streamed
<1>6. BitsOf(n) \div Word = Length_High /\ BitsOf(n) % Word = Length_Low
  <2>1. Length_High \in Nat /\ Length_Low \in Nat /\ Length_Low < Word /\ Word \in Nat
    BY ShaAssumption DEF TypeInv
  <2>2. /\ (Length_High * Word + Length_Low) \div Word = Length_High
        /\ (Length_High * Word + Length_Low) % Word = Length_Low
    BY <2>1, Quotient
  <2>3. BitsOf(n) = Length_High * Word + Length_Low OBVIOUS
  <2> QED BY <2>2, <2>3
<1>7. pb = IF m > LengthAt - 1 THEN q + 2 ELSE q + 1
  BY <1>1, <1>2, <1>4, NumberOfBlocks
<1>8. /\ (q + 1) * Block = P + Block
      /\ (q + 2) * Block = P + 2 * Block
  <2>1. (q + 1) * Block = P + Block BY <1>1, BlockFacts, NextTimes
  <2>2. (q + 1) + 1 = q + 2 /\ q + 1 \in Nat BY <1>1
  <2>3. (q + 2) * Block = (q + 1) * Block + Block BY <2>2, BlockFacts, NextTimes
  <2> QED BY <1>3, <2>1, <2>3, BlockFacts
<1>9. pb * Block \in Nat /\ pb * Block > n + 8
  BY <1>2, <1>3, <1>4, <1>7, <1>8, BlockFacts
<1> HIDE DEF P, q
<1>10. ASSUME NEW c \in Nat
       PROVE  /\ c <= n => PaddedCell(n, c) = Octet(c)
              /\ c = n + 1 => PaddedCell(n, c) = One
              /\ c > n + 1 /\ c <= pb * Block - 8 => PaddedCell(n, c) = Zero
              /\ \A i \in LengthAt .. Block - 1 :
                   c = pb * Block - Block + i + 1 => PaddedCell(n, c) = LengthOctet(i)
  <2> DEFINE e == pb * Block
  <2>1. e \in Nat /\ e = PaddedBlocks(n) * Block /\ e > n + 8 BY <1>9
  <2>2. /\ c <= n => PaddedCell(n, c) = Octet(c)
        /\ c = n + 1 => PaddedCell(n, c) = One
        /\ c \in e - 7 .. e - 4 => PaddedCell(n, c) = Octets(Length_High)[c - (e - 8)]
        /\ c \in e - 3 .. e => PaddedCell(n, c) = Octets(Length_Low)[c - (e - 4)]
        /\ c > n + 1 /\ c <= e - 8 => PaddedCell(n, c) = Zero
    <3> HIDE DEF e, pb, n
    <3> QED BY <1>4, <1>6, <2>1, CellsOfPadding
  <2> HIDE DEF e
  <2>3. ASSUME NEW i \in LengthAt .. Block - 1, c = e - Block + i + 1
        PROVE  PaddedCell(n, c) = LengthOctet(i)
    <3>1. i \in Nat /\ e \in Nat /\ Block \in Nat /\ LengthAt = Block - 8 BY <2>1, BlockFacts
    <3>2. CASE i < Block - 4
      <4>1. c \in e - 7 .. e - 4 /\ c - (e - 8) = i - LengthAt + 1 BY <2>3, <3>1, <3>2
      <4> QED BY <2>2, <3>2, <4>1 DEF LengthOctet
    <3>3. CASE ~(i < Block - 4)
      <4>1. c \in e - 3 .. e /\ c - (e - 4) = i - (Block - 4) + 1 BY <2>3, <3>1, <3>3
      <4> QED BY <2>2, <3>3, <4>1 DEF LengthOctet
    <3> QED BY <3>2, <3>3
  <2> QED BY <2>2, <2>3 DEF e
<1> HIDE DEF n, m, pb
\* The blocks processed so far.
<1>11. ASSUME NEW k \in 1 .. q, NEW i \in 0 .. Block - 1
       PROVE  Intermediate_Hash[k][i] = PaddedCell(n, (k - 1) * Block + i + 1)
  <2> DEFINE c == (k - 1) * Block + i + 1
  <2>1. k - 1 \in Nat /\ k \in Nat /\ (k - 1) + 1 = k /\ k <= q BY <1>1
  <2>2. (k - 1) * Block \in Nat /\ k * Block = (k - 1) * Block + Block
    <3>1. ((k - 1) + 1) * Block = (k - 1) * Block + Block BY <2>1, BlockFacts, NextTimes
    <3> QED BY <2>1, <3>1, BlockFacts
  <2>3. k * Block <= P BY <1>1, <2>1, BlockFacts, TimesIsMonotonic DEF P
  <2>4. c \in Nat /\ c <= n BY <1>2, <1>3, <1>4, <2>2, <2>3, BlockFacts
  <2>5. PaddedCell(n, c) = Octet(c) BY <1>10, <2>4
  <2> QED BY <1>5, <2>5
\* The block that was being filled.
<1>12. CASE m > LengthAt - 1
  <2>1. pb = q + 2 /\ pb * Block = P + 2 * Block BY <1>7, <1>8, <1>12
  <2>2. SHA1PadMessage = <<LongBlock, LastBlock>> BY <1>12, PaddingBlocks DEF m
  <2>3. ASSUME NEW i \in 0 .. Block - 1 PROVE LongBlock[i] = PaddedCell(n, P + i + 1)
    <3>1. LongBlock[i] = IF i = m THEN One ELSE IF i > m /\ i < Block THEN Zero ELSE Message_Block[i]
      BY FillCells, BlockFacts DEF LongBlock, m
    <3>2. P + i + 1 \in Nat BY <1>3, BlockFacts
    <3>3. CASE i < m
      <4>1. LongBlock[i] = Octet(P + i + 1) BY <1>2, <1>5, <3>1, <3>3
      <4>2. P + i + 1 <= n BY <1>2, <1>3, <1>4, <3>3
      <4> QED BY <1>10, <3>2, <4>1, <4>2
    <3>4. CASE i = m
      <4>1. P + i + 1 = n + 1 BY <1>2, <1>3, <1>4, <3>4
      <4> QED BY <1>10, <3>1, <3>2, <3>4, <4>1
    <3>5. CASE i > m
      <4>1. LongBlock[i] = Zero BY <1>2, <3>1, <3>5, BlockFacts
      <4>2. P + i + 1 > n + 1 /\ P + i + 1 <= pb * Block - 8
        BY <1>2, <1>3, <1>4, <2>1, <3>5, BlockFacts
      <4> QED BY <1>10, <3>2, <4>1, <4>2
    <3> QED BY <1>2, <3>3, <3>4, <3>5, BlockFacts
  <2>4. ASSUME NEW i \in 0 .. Block - 1 PROVE LastBlock[i] = PaddedCell(n, P + Block + i + 1)
    <3> DEFINE b == [j \in 0 .. Block - 1 |-> IF j < LengthAt THEN Zero ELSE LongBlock[j]]
               c == P + Block + i + 1
    <3>1. b \in ShaBlocks
      <4>1. LongBlock \in ShaBlocks /\ Zero \in Cells BY PaddingBlocks, Values
      <4> QED BY <4>1 DEF ShaBlocks
    <3>2. LastBlock[i] = IF i < LengthAt THEN b[i] ELSE LengthOctet(i)
      BY <3>1, WithLengthCells DEF LastBlock
    <3>3. c \in Nat /\ c > n + 1 /\ c = pb * Block - Block + i + 1 BY <1>2, <1>3, <1>4, <2>1, BlockFacts
    <3>4. i < LengthAt => c <= pb * Block - 8 BY <1>3, <2>1, BlockFacts
    <3> HIDE DEF c
    <3>5. CASE i < LengthAt
      <4>1. b[i] = Zero BY <3>5
      <4> QED BY <1>10, <3>2, <3>3, <3>4, <3>5, <4>1 DEF c
    <3>6. CASE ~(i < LengthAt)
      <4>1. i \in LengthAt .. Block - 1 BY <3>6, BlockFacts
      <4> QED BY <1>10, <3>2, <3>3, <3>6, <4>1 DEF c
    <3> QED BY <3>5, <3>6
  <2>5. /\ s \in Seq(ShaBlocks) /\ Len(s) = q + 2
        /\ \A k \in 1 .. q : s[k] = Intermediate_Hash[k]
        /\ s[q + 1] = LongBlock /\ s[q + 2] = LastBlock
    <3>1. SHA1PadMessage \in Seq(ShaBlocks) /\ Len(SHA1PadMessage) = 2
          /\ SHA1PadMessage[1] = LongBlock /\ SHA1PadMessage[2] = LastBlock
      BY <2>2, PaddingBlocks
    <3> HIDE DEF s
    <3>2. /\ s \in Seq(ShaBlocks) /\ Len(s) = q + 2
          /\ \A k \in 1 .. q + 2 : s[k] = IF k <= q THEN Intermediate_Hash[k] ELSE SHA1PadMessage[k - q]
      <4>1. /\ s \in Seq(ShaBlocks) /\ Len(s) = Len(Intermediate_Hash) + Len(SHA1PadMessage)
            /\ \A k \in 1 .. Len(Intermediate_Hash) + Len(SHA1PadMessage) :
                 s[k] = IF k <= Len(Intermediate_Hash) THEN Intermediate_Hash[k]
                        ELSE SHA1PadMessage[k - Len(Intermediate_Hash)]
        BY <1>1, <3>1, ConcatProperties DEF s
      <4> QED BY <3>1, <4>1 DEF q
    <3>3. \A k \in 1 .. q : k \in 1 .. q + 2 /\ k <= q BY <1>1
    <3>4. /\ q + 1 \in 1 .. q + 2 /\ ~(q + 1 <= q) /\ (q + 1) - q = 1
          /\ q + 2 \in 1 .. q + 2 /\ ~(q + 2 <= q) /\ (q + 2) - q = 2
      BY <1>1
    <3> QED BY <3>1, <3>2, <3>3, <3>4
  <2> HIDE DEF s
  <2>6. ASSUME NEW k \in 1 .. q + 2
        PROVE  s[k] = [i \in 0 .. Block - 1 |-> PaddedCell(n, (k - 1) * Block + i + 1)]
    <3>1. s[k] \in ShaBlocks BY <2>5, ElementOfSeq
    <3>2. ASSUME NEW i \in 0 .. Block - 1 PROVE s[k][i] = PaddedCell(n, (k - 1) * Block + i + 1)
      <4>1. CASE k \in 1 .. q BY <1>11, <2>5, <4>1
      <4>2. CASE k = q + 1
        <5>1. (k - 1) * Block = P BY <1>1, <4>2 DEF P
        <5> QED BY <2>3, <2>5, <4>2, <5>1
      <4>3. CASE k = q + 2
        <5>1. k - 1 = q + 1 BY <1>1, <4>3
        <5>2. (k - 1) * Block = P + Block BY <1>8, <5>1
        <5> QED BY <2>4, <2>5, <4>3, <5>2
      <4> QED BY <1>1, <4>1, <4>2, <4>3
    <3> QED BY <3>1, <3>2 DEF ShaBlocks
  <2>7. s = [k \in 1 .. q + 2 |-> s[k]] BY <2>5, LenProperties
  <2>8. s = Padded(n) BY <2>1, <2>6, <2>7 DEF Padded, pb
  <2> QED BY <2>8 DEF s, n
<1>13. CASE ~(m > LengthAt - 1)
  <2>1. pb = q + 1 /\ pb * Block = P + Block BY <1>7, <1>8, <1>13
  <2>2. SHA1PadMessage = <<ShortBlock>> BY <1>13, PaddingBlocks DEF m
  <2>3. ASSUME NEW i \in 0 .. Block - 1 PROVE ShortBlock[i] = PaddedCell(n, P + i + 1)
    <3> DEFINE b == Fill(Message_Block, Message_Block_Index, LengthAt)
               c == P + i + 1
    <3>1. /\ b \in ShaBlocks
          /\ b[i] = IF i = m THEN One ELSE IF i > m /\ i < LengthAt THEN Zero ELSE Message_Block[i]
      BY FillCells, BlockFacts DEF m
    <3> HIDE DEF b
    <3>2. ShortBlock[i] = IF i < LengthAt THEN b[i] ELSE LengthOctet(i)
      BY <3>1, WithLengthCells DEF ShortBlock, b
    <3>3. c \in Nat /\ c = pb * Block - Block + i + 1 BY <1>3, <2>1, BlockFacts
    <3>4. m < LengthAt BY <1>2, <1>13, BlockFacts
    <3>5. CASE i < m
      <4>1. ShortBlock[i] = Message_Block[i] BY <1>2, <3>1, <3>2, <3>4, <3>5, BlockFacts
      <4>2. ShortBlock[i] = Octet(c) BY <1>2, <1>5, <3>5, <4>1
      <4>3. c <= n BY <1>2, <1>3, <1>4, <3>5
      <4> QED BY <1>10, <3>3, <4>2, <4>3
    <3>6. CASE i = m
      <4>1. ShortBlock[i] = One BY <1>2, <3>1, <3>2, <3>4, <3>6, BlockFacts
      <4>2. c = n + 1 BY <1>2, <1>3, <1>4, <3>6
      <4> QED BY <1>10, <3>3, <4>1, <4>2
    <3>7. CASE i > m
      <4>1. c > n + 1 BY <1>2, <1>3, <1>4, <3>7
      <4>2. i < LengthAt => c <= pb * Block - 8 BY <1>3, <2>1, BlockFacts
      <4>3. i < LengthAt => b[i] = Zero BY <1>2, <3>1, <3>7, BlockFacts
      <4>4. ~(i < LengthAt) => i \in LengthAt .. Block - 1 BY BlockFacts
      <4> HIDE DEF c
      <4> QED BY <1>10, <3>2, <3>3, <4>1, <4>2, <4>3, <4>4 DEF c
    <3> QED BY <1>2, <3>5, <3>6, <3>7, BlockFacts
  <2>5. /\ s \in Seq(ShaBlocks) /\ Len(s) = q + 1
        /\ \A k \in 1 .. q : s[k] = Intermediate_Hash[k]
        /\ s[q + 1] = ShortBlock
    <3>1. SHA1PadMessage \in Seq(ShaBlocks) /\ Len(SHA1PadMessage) = 1
          /\ SHA1PadMessage[1] = ShortBlock
      BY <2>2, PaddingBlocks
    <3> HIDE DEF s
    <3>2. /\ s \in Seq(ShaBlocks) /\ Len(s) = q + 1
          /\ \A k \in 1 .. q + 1 : s[k] = IF k <= q THEN Intermediate_Hash[k] ELSE SHA1PadMessage[k - q]
      <4>1. /\ s \in Seq(ShaBlocks) /\ Len(s) = Len(Intermediate_Hash) + Len(SHA1PadMessage)
            /\ \A k \in 1 .. Len(Intermediate_Hash) + Len(SHA1PadMessage) :
                 s[k] = IF k <= Len(Intermediate_Hash) THEN Intermediate_Hash[k]
                        ELSE SHA1PadMessage[k - Len(Intermediate_Hash)]
        BY <1>1, <3>1, ConcatProperties DEF s
      <4> QED BY <3>1, <4>1 DEF q
    <3>3. \A k \in 1 .. q : k \in 1 .. q + 1 /\ k <= q BY <1>1
    <3>4. q + 1 \in 1 .. q + 1 /\ ~(q + 1 <= q) /\ (q + 1) - q = 1 BY <1>1
    <3> QED BY <3>1, <3>2, <3>3, <3>4
  <2> HIDE DEF s
  <2>6. ASSUME NEW k \in 1 .. q + 1
        PROVE  s[k] = [i \in 0 .. Block - 1 |-> PaddedCell(n, (k - 1) * Block + i + 1)]
    <3>1. s[k] \in ShaBlocks BY <2>5, ElementOfSeq
    <3>2. ASSUME NEW i \in 0 .. Block - 1 PROVE s[k][i] = PaddedCell(n, (k - 1) * Block + i + 1)
      <4>1. CASE k \in 1 .. q BY <1>11, <2>5, <4>1
      <4>2. CASE k = q + 1
        <5>1. (k - 1) * Block = P BY <1>1, <4>2 DEF P
        <5> QED BY <2>3, <2>5, <4>2, <5>1
      <4> QED BY <1>1, <4>1, <4>2
    <3> QED BY <3>1, <3>2 DEF ShaBlocks
  <2>7. s = [k \in 1 .. q + 1 |-> s[k]] BY <2>5, LenProperties
  <2>8. s = Padded(n) BY <2>1, <2>6, <2>7 DEF Padded, pb
  <2> QED BY <2>8 DEF s, n
<1> QED BY <1>12, <1>13
-----------------------------------------------------------------------------
(* One step of the application or of the loop.                             *)

\* Nothing has been put in yet.
LEMMA EmptyMessage ==
  ASSUME Intermediate_Hash = <<>>, Message_Block_Index = 0, octets = 0 PROVE Streamed
<1>1. Len(Intermediate_Hash) = 0 BY EmptySeq
<1>2. 0 * Block + 0 = 0 BY BlockFacts
<1> QED BY <1>1, <1>2 DEF Streamed

\* There is a greatest number of octets that the two words can count.
LEMMA MaxOctetsIsNat == MaxOctets \in Nat
<1>1. 0 \in 0 .. Word - 1 /\ BitsOf(0) = 0 * Word + 0 BY ShaAssumption DEF BitsOf
<1>2. BitsOf(0) < Word * Word BY <1>1, TwoWords
<1> QED BY <1>2, MaxOctetsFit

\* Nothing has been counted yet.
LEMMA ZeroBits == BitsOf(0) = 0 /\ 0 % OctetBits = 0 /\ 0 * Word + 0 = 0
BY ShaAssumption DEF BitsOf

\* An empty context.
LEMMA ShaInitInv == ShaInit => ShaInv
<1> SUFFICES ASSUME ShaInit PROVE ShaInv
  OBVIOUS
<1>1. /\ Length_Low = 0 /\ Length_High = 0 /\ Message_Block_Index = 0 /\ Message_Block = Cleared
      /\ Intermediate_Hash = <<>> /\ Computed = FALSE /\ Corrupted = shaSuccess
      /\ length = 0 /\ octets = 0
  BY DEF ShaInit
<1>2. Cleared \in ShaBlocks BY Values DEF Cleared, ShaBlocks
<1>3. TypeInv
  <2>2. 0 \in 0 .. Word - 1 /\ 0 \in 0 .. Block - 1 /\ 0 \in 0 .. MaxOctets
    BY MaxOctetsIsNat, ShaAssumption, BlockFacts
  <2>3. Intermediate_Hash \in Seq(ShaBlocks) BY <1>1, EmptySeq
  <2> QED BY <1>1, <1>2, <2>2, <2>3 DEF TypeInv
<1>4. CountInv BY <1>1, ZeroBits DEF CountInv
<1>5. StreamInv BY <1>1, EmptyMessage DEF StreamInv
<1> QED BY <1>1, <1>3, <1>4, <1>5 DEF ShaInv, DigestIsOfMessage

\* A reset makes it empty again.
LEMMA ResetInv == ASSUME ShaInv, SHA1Reset PROVE ShaInv'
<1>1. /\ Length_Low' = 0 /\ Length_High' = 0 /\ Message_Block_Index' = 0
      /\ Intermediate_Hash' = <<>> /\ Computed' = FALSE /\ Corrupted' = shaSuccess
      /\ octets' = 0 /\ Message_Block' = Message_Block /\ length' = length /\ length = 0
  BY DEF SHA1Reset
<1>2. TypeInv'
  <2>1. 0 \in 0 .. Word - 1 /\ 0 \in 0 .. Block - 1 BY ShaAssumption, BlockFacts
  <2>2. octets' \in 0 .. MaxOctets BY <1>1, MaxOctetsIsNat
  <2>3. Intermediate_Hash' \in Seq(ShaBlocks) BY <1>1, EmptySeq
  <2> QED BY <1>1, <2>1, <2>2, <2>3 DEF ShaInv, TypeInv
<1>3. CountInv' BY <1>1, ZeroBits DEF CountInv, BitsOf
<1>4. Streamed'
  <2>1. Len(Intermediate_Hash') = 0 BY <1>1, EmptySeq
  <2>2. 0 * Block + 0 = 0 BY BlockFacts
  <2> QED BY <1>1, <2>1, <2>2 DEF Streamed
<1> QED BY <1>1, <1>2, <1>3, <1>4 DEF ShaInv, StreamInv, DigestIsOfMessage

\* A piece is put into its place, or an error is remembered.
LEMMA InputInv == ASSUME ShaInv, NEW k \in Pieces, SHA1Input(k) PROVE ShaInv'
<1>1. /\ length = 0 /\ k > 0
      /\ Corrupted' = IF Computed THEN shaStateError ELSE Corrupted
      /\ length' = IF Computed \/ Corrupted # shaSuccess THEN 0 ELSE k
      /\ Length_Low' = Length_Low /\ Length_High' = Length_High
      /\ Message_Block_Index' = Message_Block_Index /\ Message_Block' = Message_Block
      /\ Intermediate_Hash' = Intermediate_Hash /\ Computed' = Computed /\ octets' = octets
  BY DEF SHA1Input, counts
<1>2. k \in Nat BY ShaAssumption
<1>3. TypeInv' BY <1>1, <1>2 DEF ShaInv, TypeInv
<1>4. ~Computed' => Corrupted' = Corrupted BY <1>1
<1>5. CountInv' BY <1>1, <1>4 DEF ShaInv, CountInv, BitsOf
<1>6. StreamInv' BY <1>1, <1>4 DEF ShaInv, StreamInv, Streamed
<1>7. DigestIsOfMessage' BY <1>1 DEF ShaInv, DigestIsOfMessage
<1> QED BY <1>3, <1>5, <1>6, <1>7 DEF ShaInv

\* One octet more: the words go on counting, unless both become zero.
LEMMA CountOctetInv ==
  ASSUME TypeInv, CountInv, ~Computed, Corrupted = shaSuccess, CountOctet
  PROVE  /\ Length_Low' \in 0 .. Word - 1 /\ Length_High' \in 0 .. Word - 1
         /\ Length_Low' % OctetBits = 0
         /\ Corrupted' \in {shaSuccess, shaNull}
         /\ Corrupted' = shaSuccess => Length_High' * Word + Length_Low' = BitsOf(octets + 1)
<1> DEFINE low  == (Length_Low + OctetBits) % Word
           high == IF low = 0 THEN (Length_High + 1) % Word ELSE Length_High
<1>1. /\ Length_Low' = low /\ Length_High' = high
      /\ Corrupted' = IF low = 0 /\ high = 0 THEN shaNull ELSE Corrupted
  BY DEF CountOctet
<1>2. /\ Length_Low \in Nat /\ Length_High \in Nat /\ Length_Low < Word /\ Length_High < Word
      /\ Word \in Nat \ {0} /\ OctetBits \in Nat \ {0} /\ octets \in Nat
  BY ShaAssumption DEF TypeInv
<1>3. Length_Low + OctetBits <= Word
  BY <1>2, RoomForOctet, ShaAssumption DEF CountInv
<1>4. Length_High * Word + Length_Low = BitsOf(octets) BY DEF CountInv
<1>5. BitsOf(octets + 1) = BitsOf(octets) + OctetBits BY <1>2, OctetsAreOctets
<1>6. \A x \in Nat : x < Word => x % Word = x BY <1>2
<1>7. Word % Word = 0
  <2>1. (1 * Word + 0) % Word = 0 BY <1>2, Quotient
  <2> QED BY <1>2, <2>1
<1>a. Length_High * Word \in Nat BY <1>2
<1>8. CASE Length_Low + OctetBits < Word
  <2>1. low = Length_Low + OctetBits /\ low # 0 BY <1>2, <1>6, <1>8
  <2>2. high = Length_High BY <2>1
  <2>3. low % OctetBits = 0
    <3>1. PICK x \in Nat : Length_Low = x * OctetBits BY <1>2, Remainder DEF CountInv
    <3>2. low = (x + 1) * OctetBits + 0 BY <1>2, <2>1, <3>1, NextTimes
    <3>3. ((x + 1) * OctetBits + 0) % OctetBits = 0 BY <1>2, Quotient
    <3> QED BY <3>2, <3>3
  <2> HIDE DEF low, high
  <2>4. high * Word + low = BitsOf(octets + 1) BY <1>2, <1>4, <1>5, <1>a, <2>1, <2>2
  <2>5. low \in 0 .. Word - 1 /\ high \in 0 .. Word - 1 BY <1>2, <1>8, <2>1, <2>2
  <2>6. Corrupted' = shaSuccess BY <1>1, <2>1
  <2>7. Length_Low' \in 0 .. Word - 1 /\ Length_High' \in 0 .. Word - 1 BY <1>1, <2>5
  <2>8. Length_Low' % OctetBits = 0 BY <1>1, <2>3
  <2>9. Length_High' * Word + Length_Low' = BitsOf(octets + 1) BY <1>1, <2>4
  <2> QED BY <2>6, <2>7, <2>8, <2>9
<1>9. CASE Length_Low + OctetBits = Word
  <2>1. low = 0 BY <1>7, <1>9
  <2>2. 0 % OctetBits = 0 BY <1>2
  <2>3. CASE Length_High + 1 < Word
    <3>1. high = Length_High + 1 BY <1>2, <1>6, <2>1, <2>3
    <3>2. (Length_High + 1) * Word = Length_High * Word + Word BY <1>2, NextTimes
    <3> HIDE DEF low, high
    <3>3. high * Word + low = BitsOf(octets + 1)
      BY <1>2, <1>4, <1>5, <1>9, <1>a, <2>1, <3>1, <3>2
    <3>4. high # 0 /\ high \in 0 .. Word - 1 /\ 0 \in 0 .. Word - 1 BY <1>2, <2>3, <3>1
    <3>5. Length_Low' \in 0 .. Word - 1 /\ Length_High' \in 0 .. Word - 1 BY <1>1, <2>1, <3>4
    <3>6. Corrupted' = shaSuccess BY <1>1, <3>4
    <3>7. Length_Low' % OctetBits = 0 BY <1>1, <2>1, <2>2
    <3>8. Length_High' * Word + Length_Low' = BitsOf(octets + 1) BY <1>1, <3>3
    <3> QED BY <3>5, <3>6, <3>7, <3>8
  <2>4. CASE Length_High + 1 = Word
    <3>1. high = 0 BY <1>7, <2>1, <2>4
    <3> HIDE DEF low, high
    <3>2. Corrupted' = shaNull BY <1>1, <2>1, <3>1
    <3>3. shaNull # shaSuccess BY DEF shaNull, shaSuccess
    <3> QED BY <1>1, <1>2, <2>1, <2>2, <3>1, <3>2, <3>3
  <2> QED BY <1>2, <2>3, <2>4
<1> QED BY <1>2, <1>3, <1>8, <1>9
\* The octet goes where the padded message has it.
LEMMA InputOctetInv == ASSUME ShaInv, InputOctet PROVE ShaInv'
<1> DEFINE m == Message_Block_Index
           q == Len(Intermediate_Hash)
           filled == [Message_Block EXCEPT ![m] = Octet(octets + 1)]
<1> USE DEF ShaInv
<1>1. /\ length > 0 /\ CountOctet /\ octets' = octets + 1 /\ Message_Block' = filled
      /\ IF m + 1 = Block
         THEN Intermediate_Hash' = Append(Intermediate_Hash, filled) /\ Message_Block_Index' = 0
         ELSE Message_Block_Index' = m + 1 /\ Intermediate_Hash' = Intermediate_Hash
      /\ length' = IF Corrupted' = shaSuccess THEN length - 1 ELSE 0
      /\ Computed' = Computed
  BY DEF InputOctet
<1>2. ~Computed /\ Corrupted = shaSuccess BY <1>1 DEF TypeInv
<1>3. Streamed /\ Length_High * Word + Length_Low = BitsOf(octets)
  BY <1>2 DEF StreamInv, CountInv
<1>4. m \in 0 .. Block - 1 /\ m \in Nat /\ octets \in Nat /\ q \in Nat
  BY BlockFacts, LenProperties DEF TypeInv
<1>5. BitsOf(octets) < Word * Word BY <1>3, TwoWords DEF TypeInv
<1>6. octets + 1 \in 0 .. MaxOctets BY <1>4, <1>5, MaxOctetsFit
<1>7. octets = q * Block + m /\ q * Block \in Nat BY <1>3, <1>4, BlockFacts DEF Streamed
<1>8. filled \in ShaBlocks
  <2>1. Octet(octets + 1) \in Cells BY <1>4, <1>6 DEF Cells
  <2> QED BY <1>4, <2>1 DEF TypeInv, ShaBlocks
<1>9. ASSUME NEW i \in 0 .. m PROVE filled[i] = Octet(q * Block + i + 1)
  <2>1. i \in 0 .. Block - 1 BY <1>4, BlockFacts
  <2>2. CASE i = m
    <3>1. filled[i] = Octet(octets + 1) BY <1>4, <2>2 DEF TypeInv, ShaBlocks
    <3> QED BY <1>7, <2>2, <3>1
  <2>3. CASE i # m
    <3>1. i \in 0 .. m - 1 BY <1>4, <2>3
    <3>2. filled[i] = Message_Block[i] BY <2>1, <2>3 DEF TypeInv, ShaBlocks
    <3> QED BY <1>3, <3>1, <3>2 DEF Streamed
  <2> QED BY <2>2, <2>3
<1>10. /\ Length_Low' \in 0 .. Word - 1 /\ Length_High' \in 0 .. Word - 1
       /\ Length_Low' % OctetBits = 0
       /\ Corrupted' \in {shaSuccess, shaNull}
       /\ Corrupted' = shaSuccess => Length_High' * Word + Length_Low' = BitsOf(octets + 1)
  BY <1>1, <1>2, CountOctetInv
<1> HIDE DEF filled
<1>11. ASSUME m + 1 = Block
       PROVE  Streamed' /\ Message_Block_Index' \in 0 .. Block - 1 /\ Intermediate_Hash' \in Seq(ShaBlocks)
  <2>1. /\ Intermediate_Hash' = Append(Intermediate_Hash, filled) /\ Message_Block_Index' = 0
    BY <1>1, <1>11
  <2>2. /\ Intermediate_Hash' \in Seq(ShaBlocks) /\ Len(Intermediate_Hash') = q + 1
        /\ \A k \in 1 .. q : Intermediate_Hash'[k] = Intermediate_Hash[k]
        /\ Intermediate_Hash'[q + 1] = filled
    BY <1>8, <2>1, AppendProperties DEF TypeInv
  <2>3. octets' = (q + 1) * Block + 0
    <3>1. (q + 1) * Block = q * Block + Block BY <1>4, BlockFacts, NextTimes
    <3> QED BY <1>1, <1>4, <1>7, <1>11, <3>1
  <2> HIDE DEF q
  <2>4. ASSUME NEW k \in 1 .. q + 1, NEW i \in 0 .. Block - 1
        PROVE  Intermediate_Hash'[k][i] = Octet((k - 1) * Block + i + 1)
    <3>1. CASE k \in 1 .. q BY <1>3, <2>2, <3>1 DEF Streamed, q
    <3>2. CASE k = q + 1
      <4>1. k - 1 = q /\ i \in 0 .. m BY <1>4, <1>11, <3>2
      <4> QED BY <1>9, <2>2, <3>2, <4>1
    <3> QED BY <1>4, <3>1, <3>2
  <2>5. Streamed' BY <2>1, <2>2, <2>3, <2>4 DEF Streamed
  <2>6. 0 \in 0 .. Block - 1 BY BlockFacts
  <2> QED BY <2>1, <2>2, <2>5, <2>6
<1>12. ASSUME m + 1 # Block
       PROVE  Streamed' /\ Message_Block_Index' \in 0 .. Block - 1 /\ Intermediate_Hash' \in Seq(ShaBlocks)
  <2>1. Intermediate_Hash' = Intermediate_Hash /\ Message_Block_Index' = m + 1
    BY <1>1, <1>12
  <2>2. octets' = q * Block + (m + 1) BY <1>1, <1>4, <1>7
  <2>3. \A i \in 0 .. (m + 1) - 1 : Message_Block'[i] = Octet(q * Block + i + 1)
    BY <1>1, <1>4, <1>9
  <2>4. Streamed' BY <1>3, <2>1, <2>2, <2>3 DEF Streamed
  <2>5. Message_Block_Index' \in 0 .. Block - 1 BY <1>4, <1>12, <2>1, BlockFacts
  <2>6. Intermediate_Hash' \in Seq(ShaBlocks) BY <2>1 DEF TypeInv
  <2> QED BY <2>4, <2>5, <2>6
<1>13. Streamed' /\ Message_Block_Index' \in 0 .. Block - 1 /\ Intermediate_Hash' \in Seq(ShaBlocks)
  BY <1>11, <1>12
<1>14. TypeInv'
  <2>1. length' \in Nat /\ (length' > 0 => Corrupted' = shaSuccess) BY <1>1 DEF TypeInv
  <2>2. Message_Block' \in ShaBlocks BY <1>1, <1>8
  <2>3. octets' \in 0 .. MaxOctets BY <1>1, <1>6
  <2> QED BY <1>1, <1>2, <1>10, <1>13, <2>1, <2>2, <2>3 DEF TypeInv
<1>15. CountInv' BY <1>1, <1>2, <1>10 DEF CountInv
<1>16. StreamInv' BY <1>13 DEF StreamInv
<1>17. DigestIsOfMessage' BY <1>1, <1>2 DEF DigestIsOfMessage
<1> QED BY <1>14, <1>15, <1>16, <1>17

\* The context is cleared once the padding has been hashed.
LEMMA ResultInv == ASSUME ShaInv, SHA1Result PROVE ShaInv'
<1>1. /\ length = 0 /\ Corrupted = shaSuccess /\ Corrupted' = Corrupted /\ length' = length
      /\ octets' = octets
  BY DEF SHA1Result
<1>2. CASE Computed
  <2>1. /\ Intermediate_Hash' = Intermediate_Hash /\ Message_Block' = Message_Block
        /\ Message_Block_Index' = Message_Block_Index /\ Computed' = Computed
        /\ Length_Low' = Length_Low /\ Length_High' = Length_High
    BY <1>2 DEF SHA1Result, counts
  <2>2. TypeInv' BY <1>1, <2>1 DEF ShaInv, TypeInv
  <2>3. CountInv' BY <1>1, <2>1 DEF ShaInv, CountInv, BitsOf
  <2>4. StreamInv' /\ DigestIsOfMessage'
    BY <1>1, <1>2, <2>1 DEF ShaInv, StreamInv, DigestIsOfMessage
  <2> QED BY <2>2, <2>3, <2>4 DEF ShaInv
<1>3. CASE ~Computed
  <2>1. /\ Intermediate_Hash' = Intermediate_Hash \o SHA1PadMessage
        /\ Message_Block' = Cleared /\ Message_Block_Index' = 0
        /\ Length_Low' = 0 /\ Length_High' = 0 /\ Computed' = TRUE
    BY <1>3 DEF SHA1Result
  <2>2. Streamed /\ Length_High * Word + Length_Low = BitsOf(octets)
    BY <1>1, <1>3 DEF ShaInv, StreamInv, CountInv
  <2>3. Intermediate_Hash \o SHA1PadMessage = Padded(octets) BY <2>2, PaddingIsRest DEF ShaInv
  <2>4. DigestIsOfMessage' BY <1>1, <2>1, <2>3 DEF DigestIsOfMessage
  <2>5. TypeInv'
    <3>1. SHA1PadMessage \in Seq(ShaBlocks)
      <4>1. TypeInv BY DEF ShaInv
      <4>2. <<LongBlock, LastBlock>> \in Seq(ShaBlocks) /\ <<ShortBlock>> \in Seq(ShaBlocks)
        BY <4>1, PaddingBlocks
      <4> QED BY <4>1, <4>2, PaddingBlocks
    <3>2. Intermediate_Hash' \in Seq(ShaBlocks)
      BY <2>1, <3>1, ConcatProperties DEF ShaInv, TypeInv
    <3>3. Cleared \in ShaBlocks BY Values DEF Cleared, ShaBlocks
    <3>4. 0 \in 0 .. Word - 1 /\ 0 \in 0 .. Block - 1 BY ShaAssumption, BlockFacts
    <3> QED BY <1>1, <2>1, <3>2, <3>3, <3>4 DEF ShaInv, TypeInv
  <2>6. BitsOf(octets) < Word * Word BY <2>2, TwoWords DEF ShaInv, TypeInv
  <2>7. CountInv' BY <1>1, <2>1, <2>6, ZeroBits DEF CountInv, BitsOf
  <2>8. StreamInv' BY <2>1 DEF StreamInv
  <2> QED BY <2>4, <2>5, <2>7, <2>8 DEF ShaInv
<1> QED BY <1>2, <1>3
-----------------------------------------------------------------------------
\* Every call keeps the invariant.
LEMMA ShaStepInv == ShaInv /\ [ShaNext]_shaVars => ShaInv'
<1> SUFFICES ASSUME ShaInv, [ShaNext]_shaVars PROVE ShaInv'
  OBVIOUS
<1>1. CASE SHA1Reset BY <1>1, ResetInv
<1>2. ASSUME NEW k \in Pieces, SHA1Input(k) PROVE ShaInv' BY <1>2, InputInv
<1>3. CASE InputOctet BY <1>3, InputOctetInv
<1>4. CASE SHA1Result BY <1>4, ResultInv
<1>5. CASE UNCHANGED shaVars
  BY <1>5 DEF shaVars, counts, ShaInv, TypeInv, CountInv, StreamInv, Streamed, BitsOf, DigestIsOfMessage
<1> QED BY <1>1, <1>2, <1>3, <1>4, <1>5 DEF ShaNext

\* The inductive invariant, of messages in any pieces.
THEOREM ShaInductive == ShaSpec => []ShaInv
BY ShaInitInv, ShaStepInv, PTL DEF ShaSpec

\* The context and its blocks keep their shape; no more octets are put in than two words
\* can count.
THEOREM ShaTypeCorrect == ShaSpec => []ShaTypeOK
<1>1. ShaInv => ShaTypeOK
  <2> SUFFICES ASSUME ShaInv PROVE ShaTypeOK OBVIOUS
  <2>1. ASSUME NEW k \in 1 .. Len(Intermediate_Hash)
        PROVE  DOMAIN Intermediate_Hash[k] = 0 .. Block - 1
    <3>1. Intermediate_Hash[k] \in ShaBlocks BY ElementOfSeq DEF ShaInv, TypeInv
    <3> QED BY <3>1 DEF ShaBlocks
  <2>2. DOMAIN Message_Block = 0 .. Block - 1 /\ \A i \in 0 .. Block - 1 : Message_Block[i] \in Cells
    BY DEF ShaInv, TypeInv, ShaBlocks
  <2> QED BY <2>1, <2>2 DEF ShaInv, TypeInv, ShaTypeOK
<1> QED BY <1>1, ShaInductive, PTL

\* The words hold the length of the message in bits, carries between them included, and a
\* message of more bits than they can hold gets no digest.
THEOREM LengthIsAlwaysExact == ShaSpec => []LengthIsExact
<1>1. ShaInv => LengthIsExact BY DEF ShaInv, CountInv, LengthIsExact, BitsOf
<1> QED BY <1>1, ShaInductive, PTL

\* What is hashed is the whole message with the padding and the length of RFC 3174,
\* however it was cut into pieces and wherever it ends in a block.
THEOREM DigestsAreOfMessages == ShaSpec => []DigestIsOfMessage
<1>1. ShaInv => DigestIsOfMessage BY DEF ShaInv
<1> QED BY <1>1, ShaInductive, PTL
-----------------------------------------------------------------------------
(* arid: where the members are.                                            *)

Padding_(ms, pad, k) == IF pad THEN Len(ms[k].text) % 2 ELSE 0
Placed_(ms, pad, n, g) ==
  g = [i \in 1 .. n + 1 |->
         IF i = 1 THEN Magic
         ELSE g[i - 1] + Header + Len(ms[i - 1].text) + (IF pad THEN Len(ms[i - 1].text) % 2 ELSE 0)]

\* There are places for the members of every archive.
LEMMA PlacesExist == ASSUME NEW ms, NEW pad PROVE \A n \in Nat : \E g : Placed_(ms, pad, n, g)
<1> DEFINE Next_(x, k) == x + Header + Len(ms[k].text) + (IF pad THEN Len(ms[k].text) % 2 ELSE 0)
           S == {n \in Nat : \E g : Placed_(ms, pad, n, g)}
<1>1. 0 \in S
  <2>1. Placed_(ms, pad, 0, [i \in 1 .. 0 + 1 |-> Magic]) BY DEF Placed_
  <2> QED BY <2>1
<1>2. ASSUME NEW n \in Nat, n \in S PROVE n + 1 \in S
  <2>1. PICK g : Placed_(ms, pad, n, g) BY <1>2
  <2> DEFINE h == [i \in 1 .. n + 1 + 1 |->
                     IF i = 1 THEN Magic ELSE Next_(g[i - 1], i - 1)]
  <2>a. g = [i \in 1 .. n + 1 |-> IF i = 1 THEN Magic ELSE Next_(g[i - 1], i - 1)]
    BY <2>1 DEF Placed_
  <2> HIDE DEF Next_
  <2>2. \A i \in 1 .. n + 1 : h[i] = g[i] BY <2>a
  <2> HIDE DEF h
  <2>3. \A i \in 1 .. n + 1 + 1 : g[i - 1] = h[i - 1] \/ i = 1
    <3>1. \A i \in 1 .. n + 1 + 1 : i = 1 \/ i - 1 \in 1 .. n + 1 OBVIOUS
    <3> QED BY <2>2, <3>1
  <2>4. h = [i \in 1 .. n + 1 + 1 |-> IF i = 1 THEN Magic ELSE Next_(h[i - 1], i - 1)]
    BY <2>3 DEF h
  <2>5. Placed_(ms, pad, n + 1, h) BY <2>4 DEF Placed_, Next_
  <2> QED BY <2>5
<1> HIDE DEF S
<1>3. \A n \in Nat : n \in S BY <1>1, <1>2, Induction
<1> QED BY <1>3 DEF S

\* A number is even or odd.
LEMMA Parity == ASSUME NEW n \in Nat PROVE n % 2 \in 0 .. 1
OBVIOUS

\* The first member begins behind the magic, each other one behind the one before.
LEMMA StartSteps ==
  ASSUME NEW ms, Len(ms) \in Nat, NEW pad
  PROVE  /\ Start(ms, pad, 1) = 8
         /\ \A k \in 1 .. Len(ms) :
              Start(ms, pad, k + 1) = Start(ms, pad, k) + 60 + Len(ms[k].text) + Padding_(ms, pad, k)
<1> DEFINE g == CHOOSE g : Placed_(ms, pad, Len(ms), g)
<1>2. Placed_(ms, pad, Len(ms), g) BY PlacesExist
<1>3. \A k : Start(ms, pad, k) = g[k] BY DEF Start, Placed_
<1> HIDE DEF g
<1>4. g[1] = 8 BY <1>2 DEF Placed_, Magic
<1>5. ASSUME NEW k \in 1 .. Len(ms)
      PROVE g[k + 1] = g[k] + 60 + Len(ms[k].text) + Padding_(ms, pad, k)
  <2>1. k + 1 \in 1 .. Len(ms) + 1 /\ k + 1 # 1 /\ (k + 1) - 1 = k OBVIOUS
  <2> QED BY <1>2, <2>1 DEF Placed_, Header, Padding_
<1> QED BY <1>3, <1>4, <1>5

\* What goes forward by at least so much at each step does not overlap.
LEMMA Forward ==
  ASSUME NEW n \in Nat, NEW f, NEW s, f[1] = 8,
         \A k \in 1 .. n : s[k] \in Nat /\ \E p \in 0 .. 1 : f[k + 1] = f[k] + 60 + s[k] + p
  PROVE  /\ \A k \in 1 .. n + 1 : f[k] \in Nat /\ f[k] >= 8
         /\ \A j, k \in 1 .. n + 1 : j < k => f[j] + 60 + s[j] <= f[k]
<1> DEFINE S == {m \in Nat : m <= n => f[m + 1] \in Nat /\ f[m + 1] >= 8}
<1>3. 0 \in S OBVIOUS
<1>4. ASSUME NEW m \in Nat, m \in S PROVE m + 1 \in S
  <2> SUFFICES ASSUME m + 1 <= n PROVE f[m + 1 + 1] \in Nat /\ f[m + 1 + 1] >= 8
    OBVIOUS
  <2>1. m + 1 \in 1 .. n /\ m <= n OBVIOUS
  <2>2. f[m + 1] \in Nat /\ f[m + 1] >= 8 BY <1>4, <2>1
  <2>3. s[m + 1] \in Nat /\ \E p \in 0 .. 1 : f[m + 1 + 1] = f[m + 1] + 60 + s[m + 1] + p BY <2>1
  <2> QED BY SMTT(30), <2>2, <2>3
<1>5. \A m \in Nat : m \in S
  <2> HIDE DEF S
  <2> QED BY <1>3, <1>4, Induction
<1>6. ASSUME NEW k \in 1 .. n + 1 PROVE f[k] \in Nat /\ f[k] >= 8
  <2>1. k - 1 \in Nat /\ k - 1 <= n /\ k - 1 + 1 = k OBVIOUS
  <2> QED BY <1>5, <2>1
<1> HIDE DEF S
<1> DEFINE Below(j, k) == f[j] + 60 + s[j] <= f[k]
           U == {m \in Nat : m <= n => \A j \in 1 .. m : Below(j, m + 1)}
<1>7. 0 \in U OBVIOUS
<1>8. ASSUME NEW m \in Nat, m \in U PROVE m + 1 \in U
  <2> SUFFICES ASSUME m + 1 <= n PROVE \A j \in 1 .. m + 1 : Below(j, m + 1 + 1)
    OBVIOUS
  <2> TAKE j \in 1 .. m + 1
  <2>1. m + 1 \in 1 .. n /\ m + 1 \in 1 .. n + 1 /\ j \in 1 .. n /\ j \in 1 .. n + 1 OBVIOUS
  <2>2. PICK p \in 0 .. 1 : f[m + 1 + 1] = f[m + 1] + 60 + s[m + 1] + p BY <2>1
  <2>3. f[m + 1] \in Nat /\ f[j] \in Nat /\ s[j] \in Nat /\ s[m + 1] \in Nat BY <1>6, <2>1
  <2>4. CASE j = m + 1 BY <2>2, <2>3, <2>4
  <2>5. CASE j # m + 1
    <3>1. j \in 1 .. m /\ m <= n BY <2>5
    <3>2. f[j] + 60 + s[j] <= f[m + 1] BY <1>8, <3>1
    <3> QED BY SMTT(30), <2>2, <2>3, <3>2
  <2> QED BY <2>4, <2>5
<1>9. \A m \in Nat : m \in U
  <2> HIDE DEF U
  <2> QED BY <1>7, <1>8, Induction
<1>10. ASSUME NEW j \in 1 .. n + 1, NEW k \in 1 .. n + 1, j < k PROVE Below(j, k)
  <2>1. k - 1 \in Nat /\ k - 1 <= n /\ k - 1 + 1 = k /\ j \in 1 .. k - 1 BY <1>10
  <2>2. k - 1 \in U BY <1>9, <2>1
  <2> HIDE DEF Below
  <2>3. Below(j, k - 1 + 1) BY <2>1, <2>2
  <2> QED BY <2>1, <2>3
<1> QED BY <1>6, <1>10

\* Members do not overlap, with newlines behind those of odd length or without.
LEMMA StartFacts ==
  ASSUME NEW ms, Len(ms) \in Nat, \A k \in 1 .. Len(ms) : Len(ms[k].text) \in Nat, NEW pad
  PROVE  /\ \A k \in 1 .. Len(ms) + 1 : Start(ms, pad, k) \in Nat /\ Start(ms, pad, k) >= 8
         /\ \A j, k \in 1 .. Len(ms) + 1 :
              j < k => Start(ms, pad, j) + 60 + Len(ms[j].text) <= Start(ms, pad, k)
<1> DEFINE n == Len(ms)
           f == [k \in 1 .. n + 1 |-> Start(ms, pad, k)]
           s == [k \in 1 .. n + 1 |-> Len(ms[k].text)]
<1>1. ASSUME NEW k \in 1 .. n
      PROVE  s[k] \in Nat /\ \E p \in 0 .. 1 : f[k + 1] = f[k] + 60 + s[k] + p
  <2>1. k \in 1 .. n + 1 /\ k + 1 \in 1 .. n + 1 OBVIOUS
  <2>2. f[k + 1] = Start(ms, pad, k + 1) /\ f[k] = Start(ms, pad, k) /\ s[k] = Len(ms[k].text)
    BY <2>1
  <2>3. Padding_(ms, pad, k) \in 0 .. 1
    <3>1. Len(ms[k].text) % 2 \in 0 .. 1
      <4>1. Len(ms[k].text) \in Nat OBVIOUS
      <4> QED BY <4>1, Parity
    <3>2. 0 \in 0 .. 1 OBVIOUS
    <3> QED BY <3>1, <3>2, Zenon DEF Padding_
  <2>4. f[k + 1] = f[k] + 60 + s[k] + Padding_(ms, pad, k) BY <2>2, StartSteps
  <2> QED BY <2>2, <2>3, <2>4
<1>2. n \in Nat /\ f[1] = 8
  <2>1. 1 \in 1 .. n + 1 OBVIOUS
  <2> QED BY <2>1, StartSteps
<1>3. /\ \A k \in 1 .. n + 1 : f[k] \in Nat /\ f[k] >= 8
      /\ \A j, k \in 1 .. n + 1 : j < k => f[j] + 60 + s[j] <= f[k]
  <2> HIDE DEF n, f, s
  <2> QED BY <1>1, <1>2, Forward
<1>4. \A k \in 1 .. n + 1 : f[k] = Start(ms, pad, k) /\ s[k] = Len(ms[k].text) OBVIOUS
<1> HIDE DEF f, s
<1> QED BY <1>3, <1>4

\* Without the newlines a member begins earlier, by at most one octet for each one before it.
LEMMA SkewSteps ==
  ASSUME NEW ms, Len(ms) \in Nat, \A k \in 1 .. Len(ms) : Len(ms[k].text) \in Nat
  PROVE  /\ Offset(ms, 1) = Start(ms, FALSE, 1)
         /\ \A k \in 1 .. Len(ms) :
              Offset(ms, k + 1) - Start(ms, FALSE, k + 1) - (Offset(ms, k) - Start(ms, FALSE, k)) \in 0 .. 1
         /\ \A k \in 1 .. Len(ms) + 1 : Offset(ms, k) - Start(ms, FALSE, k) \in Nat
<1> DEFINE a(k) == Offset(ms, k)
           b(k) == Start(ms, FALSE, k)
           l(k) == Len(ms[k].text)
           p(k) == Padding_(ms, TRUE, k)
<1>1. a(1) = b(1) BY StartSteps DEF Offset
<1>2. ASSUME NEW k \in 1 .. Len(ms) + 1 PROVE a(k) \in Nat /\ b(k) \in Nat BY StartFacts DEF Offset
<1>3. ASSUME NEW k \in 1 .. Len(ms) PROVE a(k + 1) - b(k + 1) - (a(k) - b(k)) \in 0 .. 1
  <2>1. a(k + 1) = a(k) + 60 + l(k) + p(k) BY StartSteps DEF Offset
  <2>2. b(k + 1) = b(k) + 60 + l(k) + 0 BY StartSteps DEF Padding_
  <2>3. l(k) \in Nat /\ p(k) \in 0 .. 1
    <3>1. Len(ms[k].text) \in Nat /\ Len(ms[k].text) % 2 \in 0 .. 1
      <4>1. Len(ms[k].text) \in Nat OBVIOUS
      <4> QED BY <4>1, Parity
    <3>2. 0 \in 0 .. 1 OBVIOUS
    <3> QED BY <3>1, <3>2, Zenon DEF Padding_
  <2>4. a(k) \in Nat /\ b(k) \in Nat
    <3>1. k \in 1 .. Len(ms) + 1 OBVIOUS
    <3> QED BY <1>2, <3>1
  <2> HIDE DEF a, b, l, p
  <2> QED BY SMTT(30), <2>1, <2>2, <2>3, <2>4
<1> HIDE DEF a, b
<1> DEFINE S == {m \in Nat : m <= Len(ms) => a(m + 1) - b(m + 1) \in Nat}
<1>4. 0 \in S
  <2>1. 0 + 1 = 1 /\ 1 \in 1 .. Len(ms) + 1 OBVIOUS
  <2>2. a(1) - b(1) = 0 BY <1>1, <1>2, <2>1
  <2> QED BY <2>1, <2>2
<1>5. ASSUME NEW m \in Nat, m \in S PROVE m + 1 \in S
  <2> SUFFICES ASSUME m + 1 <= Len(ms) PROVE a(m + 1 + 1) - b(m + 1 + 1) \in Nat
    OBVIOUS
  <2>1. m + 1 \in 1 .. Len(ms) /\ m + 1 \in 1 .. Len(ms) + 1 /\ m + 1 + 1 \in 1 .. Len(ms) + 1 OBVIOUS
  <2>2. a(m + 1 + 1) - b(m + 1 + 1) - (a(m + 1) - b(m + 1)) \in 0 .. 1 BY <1>3, <2>1
  <2>3. a(m + 1) - b(m + 1) \in Nat BY <1>5
  <2>4. a(m + 1) \in Nat /\ b(m + 1) \in Nat /\ a(m + 1 + 1) \in Nat /\ b(m + 1 + 1) \in Nat
    BY <1>2, <2>1
  <2> QED BY SMTT(30), <2>2, <2>3, <2>4
<1>6. \A m \in Nat : m \in S
  <2> HIDE DEF S
  <2> QED BY <1>4, <1>5, Induction
<1>7. ASSUME NEW k \in 1 .. Len(ms) + 1 PROVE a(k) - b(k) \in Nat
  <2>1. k - 1 \in Nat /\ k - 1 <= Len(ms) /\ k - 1 + 1 = k OBVIOUS
  <2> QED BY <1>6, <2>1
<1> QED BY <1>1, <1>3, <1>7 DEF a, b
-----------------------------------------------------------------------------
(* arid: the digits of a size, and what strtoul makes of them.             *)

Divided(n, m, g) == g = [i \in 0 .. m |-> IF i = 0 THEN n ELSE g[i - 1] \div 10]

\* Dividing by ten may be repeated any number of times.
LEMMA QuotientsExist == ASSUME NEW n PROVE \A m \in Nat : \E g : Divided(n, m, g)
<1> DEFINE S == {m \in Nat : \E g : Divided(n, m, g)}
<1>1. 0 \in S
  <2>1. Divided(n, 0, [i \in 0 .. 0 |-> n]) BY DEF Divided
  <2> QED BY <2>1
<1>2. ASSUME NEW m \in Nat, m \in S PROVE m + 1 \in S
  <2>1. PICK g : Divided(n, m, g) BY <1>2
  <2> DEFINE h == [i \in 0 .. m + 1 |-> IF i = 0 THEN n ELSE g[i - 1] \div 10]
  <2>2. \A i \in 0 .. m : h[i] = g[i] BY <2>1 DEF Divided
  <2> HIDE DEF h
  <2>3. \A i \in 0 .. m + 1 : g[i - 1] = h[i - 1] \/ i = 0
    <3>1. \A i \in 0 .. m + 1 : i = 0 \/ i - 1 \in 0 .. m OBVIOUS
    <3> QED BY <2>2, <3>1
  <2>4. Divided(n, m + 1, h) BY <2>3 DEF Divided, h
  <2> QED BY <2>4
<1> HIDE DEF S
<1>3. \A m \in Nat : m \in S BY <1>1, <1>2, Induction
<1> QED BY <1>3 DEF S

\* Quotients is what dividing by ten again and again makes.
LEMMA QuotientsFacts ==
  ASSUME NEW n \in Nat
  PROVE  /\ Quotients(n)[0] = n
         /\ \A i \in 1 .. 10 : Quotients(n)[i] = Quotients(n)[i - 1] \div 10
         /\ \A i \in 0 .. 10 : Quotients(n)[i] \in 0 .. n
<1> DEFINE q == CHOOSE g : Divided(n, 10, g)
<1>1. Divided(n, 10, q) BY QuotientsExist
<1>2. Quotients(n) = q BY DEF Quotients, Divided
<1> HIDE DEF q
<1>3. q[0] = n /\ \A i \in 1 .. 10 : q[i] = q[i - 1] \div 10 BY <1>1 DEF Divided
<1> DEFINE S == {i \in Nat : i <= 10 => q[i] \in 0 .. n}
<1>4. 0 \in S BY <1>3
<1>5. ASSUME NEW i \in Nat, i \in S PROVE i + 1 \in S
  <2> SUFFICES ASSUME i + 1 <= 10 PROVE q[i + 1] \in 0 .. n
    OBVIOUS
  <2>1. q[i] \in 0 .. n /\ i + 1 \in 1 .. 10 /\ (i + 1) - 1 = i BY <1>5
  <2>2. q[i + 1] = q[i] \div 10 BY <1>3, <2>1
  <2> DEFINE x == q[i]
  <2>3. x \in 0 .. n BY <2>1
  <2> HIDE DEF x
  <2>4. x \div 10 \in 0 .. n BY <2>3
  <2> QED BY <2>2, <2>4 DEF x
<1>6. \A i \in Nat : i \in S
  <2> HIDE DEF S
  <2> QED BY <1>4, <1>5, Induction
<1>7. \A i \in 0 .. 10 : q[i] \in 0 .. n BY <1>6
<1> QED BY <1>2, <1>3, <1>7

\* The first number from p on with a property that one of the numbers has.
LEMMA FirstOne ==
  ASSUME NEW p \in Nat, NEW T, NEW last \in Nat, p <= last, last \in T
  PROVE  \E q \in p .. last : q \in T /\ \A r \in p .. q - 1 : r \notin T
<1> DEFINE U == {q \in p .. last : q \in T}
<1>1. U \in SUBSET Nat /\ U # {} OBVIOUS
<1>2. PICK q \in U : \A r \in U : q <= r
  <2> HIDE DEF U
  <2> QED BY <1>1, LeastNumber
<1>3. \A r \in p .. q - 1 : r \notin T BY <1>2
<1> QED BY <1>2, <1>3

\* A number that ten divisions exhaust has its remainders as digits, and no more than ten.
LEMMA DigitsFacts ==
  ASSUME NEW n \in Nat, Quotients(n)[10] = 0
  PROVE  \E d \in 1 .. 10 :
           /\ Quotients(n)[d] = 0 /\ Len(DecimalDigits(n)) = d
           /\ \A i \in 1 .. d : DecimalDigits(n)[i] = Quotients(n)[d - i] % 10
           /\ \A i \in 1 .. d : DecimalDigits(n)[i] \in 0 .. 9
<1> DEFINE q == Quotients(n)
           Least(k) == q[k] = 0 /\ \A j \in 1 .. k - 1 : q[j] # 0
           d == CHOOSE k \in 1 .. 10 : Least(k)
<1> HIDE DEF q
<1>1. \E k \in 1 .. 10 : Least(k)
  <2> DEFINE T == {k \in Nat : q[k] = 0}
  <2>1. 10 \in T BY DEF q
  <2> HIDE DEF T
  <2>2. PICK k \in 1 .. 10 : k \in T /\ \A r \in 1 .. k - 1 : r \notin T BY <2>1, FirstOne
  <2> QED BY <2>2 DEF T
<1>2. d \in 1 .. 10 /\ Least(d)
  <2> HIDE DEF Least
  <2> QED BY <1>1
<1>3. DecimalDigits(n) = [i \in 1 .. d |-> q[d - i] % 10] BY DEF DecimalDigits, q
<1>4. q[d] = 0 BY <1>2
<1> HIDE DEF d
<1>5. \A i \in 1 .. d : q[d - i] \in Nat
  <2>1. \A i \in 1 .. d : d - i \in 0 .. 10 BY <1>2
  <2>2. \A i \in 0 .. 10 : q[i] \in 0 .. n BY QuotientsFacts DEF q
  <2>3. \A i \in 0 .. 10 : q[i] \in Nat BY <2>2
  <2> QED BY <2>1, <2>3
<1>6. DecimalDigits(n) \in [1 .. d -> 0 .. 9] BY SMTT(30), <1>2, <1>3, <1>5
<1>7. Len(DecimalDigits(n)) = d BY <1>2, <1>6
<1> QED BY <1>2, <1>3, <1>4, <1>6, <1>7 DEF q

Starts(a, p, q) == At(a, q) # Blank /\ \A r \in p .. q - 1 : At(a, r) = Blank
Stops(a, from, q) == At(a, q) \notin 0 .. 9 /\ \A r \in from .. q - 1 : At(a, r) \in 0 .. 9
Values_(a, from, to, g) ==
  g = [q \in from .. to |->
         IF q = from THEN 0
         ELSE LET v == 10 * g[q - 1] + At(a, q - 1) IN IF v < SizeT THEN v ELSE SizeT]

\* A row of digits has a value, however long it is.
LEMMA ValuesExist ==
  ASSUME NEW a, NEW from \in Nat PROVE \A m \in Nat : \E g : Values_(a, from, from + m, g)
<1> DEFINE Next_(x, y) == LET v == 10 * x + y IN IF v < SizeT THEN v ELSE SizeT
           Are(g, m) == g = [q \in from .. from + m |->
                               IF q = from THEN 0 ELSE Next_(g[q - 1], At(a, q - 1))]
           S == {m \in Nat : \E g : Are(g, m)}
<1>1. 0 \in S
  <2>1. Are([q \in from .. from + 0 |-> 0], 0) OBVIOUS
  <2> QED BY <2>1
<1>2. ASSUME NEW m \in Nat, m \in S PROVE m + 1 \in S
  <2>1. PICK g : Are(g, m) BY <1>2
  <2> HIDE DEF Next_
  <2> DEFINE h == [q \in from .. from + (m + 1) |->
                     IF q = from THEN 0 ELSE Next_(g[q - 1], At(a, q - 1))]
  <2>2. \A q \in from .. from + m : h[q] = g[q] BY <2>1
  <2> HIDE DEF h
  <2>3. \A q \in from .. from + (m + 1) : g[q - 1] = h[q - 1] \/ q = from
    <3>1. \A q \in from .. from + (m + 1) : q = from \/ q - 1 \in from .. from + m OBVIOUS
    <3> QED BY <2>2, <3>1
  <2>4. Are(h, m + 1) BY <2>3 DEF h
  <2> QED BY <2>4
<1>3. \A m \in Nat : m \in S
  <2> HIDE DEF S
  <2> QED BY <1>1, <1>2, Induction
<1>4. \A m \in Nat : \A g : Are(g, m) => Values_(a, from, from + m, g) BY Zenon DEF Values_
<1> QED BY <1>3, <1>4

\* Where the digits of a number stand, behind blanks and with none behind them, strtoul
\* makes of them that number.
LEMMA StrtoulReadsBack ==
  ASSUME NEW a, NEW size \in Nat, size >= 60, DOMAIN a = 0 .. size - 1, NEW p \in Nat, NEW b \in 0 .. 2,
         NEW n \in Nat, n < SizeT, SizeT \in Nat, Quotients(n)[10] = 0,
         \A i \in 0 .. b - 1 : At(a, p + i) = Blank,
         \A i \in 1 .. Len(DecimalDigits(n)) : At(a, p + b + i - 1) = DecimalDigits(n)[i],
         At(a, p + b + Len(DecimalDigits(n))) \notin 0 .. 9
  PROVE  Strtoul(a, p) = n
<1> DEFINE q == Quotients(n)
<1>1. PICK d \in 1 .. 10 :
        /\ q[d] = 0 /\ Len(DecimalDigits(n)) = d
        /\ \A i \in 1 .. d : DecimalDigits(n)[i] = q[d - i] % 10
        /\ \A i \in 1 .. d : DecimalDigits(n)[i] \in 0 .. 9
  BY DigitsFacts
<1>2. /\ q[0] = n /\ \A i \in 1 .. 10 : q[i] = q[i - 1] \div 10
      /\ \A i \in 0 .. 10 : q[i] \in 0 .. n
  BY QuotientsFacts
<1> HIDE DEF q
<1> DEFINE f == p + b
           t == p + b + d
           s == Cardinality(DOMAIN a)
<1>3. \A i \in 1 .. d : At(a, f + i - 1) = q[d - i] % 10 /\ At(a, f + i - 1) \in 0 .. 9
  <2> TAKE i \in 1 .. d
  <2>1. i \in 1 .. Len(DecimalDigits(n)) BY <1>1
  <2>2. At(a, f + i - 1) = DecimalDigits(n)[i] BY <2>1
  <2> QED BY <1>1, <2>2
<1>4. At(a, t) \notin 0 .. 9 BY <1>1
<1>5. /\ s = size /\ s >= 60 /\ f \in Nat /\ t \in Nat /\ f \in p .. p + s /\ t \in f .. f + s
      /\ p <= f /\ f < t /\ t = f + d
  <2>1. s = size BY FS_Interval
  <2> HIDE DEF s
  <2> QED BY <1>1, <2>1
<1>6. \A r \in p .. f - 1 : At(a, r) = Blank
  <2> TAKE r \in p .. f - 1
  <2>1. r - p \in 0 .. b - 1 /\ p + (r - p) = r OBVIOUS
  <2>2. At(a, p + (r - p)) = Blank BY <2>1
  <2> QED BY <2>1, <2>2
<1> HIDE DEF f, t, s
<1>7. \A r \in f .. t - 1 : At(a, r) \in 0 .. 9
  <2> TAKE r \in f .. t - 1
  <2>1. r - f + 1 \in 1 .. d /\ f + (r - f + 1) - 1 = r BY <1>5
  <2>2. At(a, f + (r - f + 1) - 1) \in 0 .. 9 BY <1>3, <2>1
  <2> QED BY <2>1, <2>2
<1>8. At(a, f) \in 0 .. 9
  <2>1. f \in f .. t - 1 BY <1>5
  <2> QED BY <1>7, <2>1
<1>9. At(a, f) # Blank /\ At(a, f) # MinusSign /\ At(a, f) \notin {MinusSign, PlusSign}
  BY <1>8 DEF Blank, MinusSign, PlusSign
<1> DEFINE first == CHOOSE r \in p .. p + s : Starts(a, p, r)
           from == IF At(a, first) \in {MinusSign, PlusSign} THEN first + 1 ELSE first
           to == CHOOSE r \in from .. from + s : Stops(a, from, r)
           g == CHOOSE g : Values_(a, from, to, g)
<1>10. first = f
  <2>1. Starts(a, p, f) BY <1>6, <1>9 DEF Starts
  <2>2. ASSUME NEW r \in p .. p + s, Starts(a, p, r) PROVE r = f
    <3>1. r \in Nat BY <1>5
    <3>2. ~(r < f)
      <4>1. r < f => r \in p .. f - 1 BY <1>5, <3>1
      <4> QED BY <1>6, <2>2, <4>1 DEF Starts
    <3>3. ~(f < r)
      <4>1. f < r => f \in p .. r - 1 BY <1>5, <3>1
      <4> QED BY <1>9, <2>2, <4>1 DEF Starts
    <3> QED BY <1>5, <3>1, <3>2, <3>3
  <2>3. \E r \in p .. p + s : Starts(a, p, r) BY <1>5, <2>1
  <2>4. first \in p .. p + s /\ Starts(a, p, first) BY <2>3
  <2> HIDE DEF first
  <2> QED BY <2>2, <2>4
<1>11. from = f
  <2> HIDE DEF first
  <2> QED BY <1>9, <1>10
<1>12. to = t
  <2> HIDE DEF from
  <2>1. Stops(a, f, t) BY <1>4, <1>7 DEF Stops
  <2>2. ASSUME NEW r \in f .. f + s, Stops(a, f, r) PROVE r = t
    <3>1. r \in Nat BY <1>5
    <3>2. ~(r < t)
      <4>1. r < t => r \in f .. t - 1 BY <1>5, <3>1
      <4> QED BY <1>7, <2>2, <4>1 DEF Stops
    <3>3. ~(t < r)
      <4>1. t < r => t \in f .. r - 1 BY <1>5, <3>1
      <4> QED BY <1>4, <2>2, <4>1 DEF Stops
    <3> QED BY <1>5, <3>1, <3>2, <3>3
  <2>3. \E r \in f .. f + s : Stops(a, f, r) BY <1>5, <2>1
  <2>4. to \in f .. f + s /\ Stops(a, f, to) BY <1>11, <2>3
  <2> HIDE DEF to
  <2> QED BY <2>2, <2>4
<1>13. Values_(a, f, t, g)
  <2>1. t - f \in Nat /\ f + (t - f) = t /\ f \in Nat BY <1>5
  <2>2. \E h : Values_(a, f, f + (t - f), h) BY <2>1, ValuesExist
  <2>3. \E h : Values_(a, from, to, h) BY <1>11, <1>12, <2>1, <2>2
  <2> HIDE DEF from, to
  <2> QED BY <1>11, <1>12, <2>3
<1>14. Strtoul(a, p) = IF g[to] = SizeT THEN SizeT - 1
                       ELSE IF At(a, first) = MinusSign THEN (SizeT - g[to]) % SizeT ELSE g[to]
  BY Zenon DEF Strtoul, Starts, Stops, Values_, s
<1> HIDE DEF first, from, to, g
<1>15. g = [r \in f .. t |->
              IF r = f THEN 0
              ELSE LET v == 10 * g[r - 1] + At(a, r - 1) IN IF v < SizeT THEN v ELSE SizeT]
  BY <1>13, Zenon DEF Values_
<1> DEFINE S == {m \in Nat : m <= d => g[f + m] = q[d - m]}
<1>16. 0 \in S
  <2>1. f + 0 = f /\ f \in f .. t /\ d - 0 = d BY <1>1, <1>5
  <2>2. g[f] = 0 BY <1>15, <2>1
  <2> QED BY <1>1, <2>1, <2>2
<1>17. ASSUME NEW m \in Nat, m \in S PROVE m + 1 \in S
  <2> SUFFICES ASSUME m + 1 <= d PROVE g[f + (m + 1)] = q[d - (m + 1)]
    OBVIOUS
  <2>1. g[f + m] = q[d - m] BY <1>1, <1>17
  <2>2. f + (m + 1) \in f .. t /\ f + (m + 1) # f /\ f + (m + 1) - 1 = f + m
    BY <1>1, <1>5
  <2>3. g[f + (m + 1)] = LET v == 10 * g[f + m] + At(a, f + m) IN IF v < SizeT THEN v ELSE SizeT
    <3> HIDE DEF S
    <3>0. PICK r : r = f + (m + 1) OBVIOUS
    <3> DEFINE e(k) == LET v == 10 * g[k - 1] + At(a, k - 1) IN IF v < SizeT THEN v ELSE SizeT
    <3>1. g = [k \in f .. t |-> IF k = f THEN 0 ELSE e(k)] BY <1>15, Zenon
    <3>2. r \in f .. t /\ r # f /\ r - 1 = f + m BY <1>1, <1>5, <3>0
    <3> HIDE DEF e
    <3>3. g[r] = e(r) BY <3>1, <3>2
    <3> QED BY <3>0, <3>2, <3>3 DEF e
  <2>4. At(a, f + m) = q[d - (m + 1)] % 10
    <3>1. m + 1 \in 1 .. d BY <1>1
    <3> QED BY <1>3, <2>2, <3>1
  <2>5. d - m \in 1 .. 10 /\ d - m - 1 = d - (m + 1) /\ d - (m + 1) \in 0 .. 10
    <3>1. d \in 1 .. 10 BY <1>1
    <3>2. m \in Nat /\ m + 1 <= d OBVIOUS
    <3> HIDE DEF S
    <3> QED BY <3>1, <3>2
  <2>6. q[d - m] = q[d - (m + 1)] \div 10 /\ q[d - (m + 1)] \in 0 .. n BY <1>2, <2>5
  <2> DEFINE x == q[d - (m + 1)]
             v_ == 10 * (x \div 10) + (x % 10)
  <2>7. x \in 0 .. n /\ g[f + (m + 1)] = IF v_ < SizeT THEN v_ ELSE SizeT
    BY <2>1, <2>3, <2>4, <2>6
  <2> HIDE DEF x
  <2>8. v_ = x BY <2>7
  <2> HIDE DEF v_
  <2>9. v_ < SizeT BY <2>7, <2>8
  <2> QED BY <2>7, <2>8, <2>9 DEF x
<1>18. \A m \in Nat : m \in S
  <2> HIDE DEF S
  <2> QED BY <1>16, <1>17, Induction
<1>19. g[f + d] = q[d - d]
  <2>1. d \in Nat /\ d <= d BY <1>1
  <2>2. d \in S BY <1>18, <2>1
  <2> QED BY <2>1, <2>2
<1>20. g[to] = n BY <1>1, <1>2, <1>5, <1>12, <1>19
<1>21. g[to] # SizeT /\ At(a, first) # MinusSign BY <1>9, <1>10, <1>20
<1> QED BY <1>14, <1>20, <1>21
-----------------------------------------------------------------------------
(* arid: the archive that ar writes.                                       *)

\* A member's header is where the member begins.
LEMMA ArAt ==
  ASSUME NEW ms, Len(ms) \in Nat, \A k \in 1 .. Len(ms) : Len(ms[k].text) \in Nat
  PROVE  /\ DOMAIN Ar(ms) = 0 .. Offset(ms, Len(ms) + 1) - 1
         /\ \A k \in 1 .. Len(ms) : \A i \in 0 .. 59 : Ar(ms)[Offset(ms, k) + i] = ArHdr(ms[k])[i]
<1> DEFINE at(k) == Offset(ms, k)
           l(k) == Len(ms[k].text)
           here(p) == {k \in 1 .. Len(ms) : p - at(k) \in 0 .. Header + l(k) - 1}
           text(p) == IF p < Magic - 1 THEN Text ELSE Blank
           member(q) == IF here(q) = {} THEN text(q)
                        ELSE LET k == CHOOSE k \in here(q) : TRUE
                                 i == q - at(k)
                             IN  IF i < Header THEN ArHdr(ms[k])[i] ELSE ms[k].text[i - Header + 1]
<1>1. DOMAIN Ar(ms) = 0 .. at(Len(ms) + 1) - 1 BY DEF Ar
<1>2. Ar(ms) = [q \in 0 .. at(Len(ms) + 1) - 1 |-> member(q)] BY DEF Ar, at
<1>3. /\ \A j \in 1 .. Len(ms) + 1 : at(j) \in Nat
      /\ \A h, j \in 1 .. Len(ms) + 1 : h < j => at(h) + 60 + l(h) <= at(j)
      /\ \A j \in 1 .. Len(ms) : l(j) \in Nat
  BY StartFacts DEF Offset
<1> HIDE DEF at, l
<1>4. ASSUME NEW k \in 1 .. Len(ms), NEW i \in 0 .. 59 PROVE Ar(ms)[at(k) + i] = ArHdr(ms[k])[i]
  <2>1. k \in 1 .. Len(ms) + 1 /\ Len(ms) + 1 \in 1 .. Len(ms) + 1 /\ k < Len(ms) + 1 OBVIOUS
  <2>2. PICK x, y, m : x = at(k) /\ y = at(Len(ms) + 1) /\ m = l(k) OBVIOUS
  <2>3. x \in Nat /\ m \in Nat /\ x + 60 + m <= y /\ y \in Nat BY <1>3, <2>1, <2>2
  <2>4. PICK p : p = x + i OBVIOUS
  <2>5. p \in 0 .. y - 1 /\ p - x = i /\ i \in 0 .. Header + m - 1 /\ p \in Nat /\ i < Header
    BY <2>3, <2>4 DEF Header
  <2>6. here(p) = {k}
    <3>1. k \in here(p) BY <2>2, <2>5
    <3>2. ASSUME NEW j \in here(p) PROVE j = k
      <4>1. j \in 1 .. Len(ms) /\ j \in 1 .. Len(ms) + 1 /\ j \in Nat /\ k \in Nat OBVIOUS
      <4>2. PICK aj, w : aj = at(j) /\ w = l(j) OBVIOUS
      <4>3. aj \in Nat /\ w \in Nat BY <1>3, <4>1, <4>2
      <4>4. p - aj \in 0 .. Header + w - 1 BY <4>2
      <4> HIDE DEF here
      <4>5. aj <= p /\ p <= aj + 59 + w BY <2>5, <4>3, <4>4 DEF Header
      <4>6. ~(j < k)
        <5>1. j < k => aj + 60 + w <= x BY <1>3, <2>1, <2>2, <4>1, <4>2
        <5> QED BY <2>3, <2>4, <4>3, <4>5, <5>1
      <4>7. ~(k < j)
        <5>1. k < j => x + 60 + m <= aj BY <1>3, <2>1, <2>2, <4>1, <4>2
        <5> QED BY <2>3, <2>4, <4>3, <4>5, <5>1
      <4> QED BY <4>1, <4>6, <4>7
    <3> HIDE DEF here
    <3> QED BY <3>1, <3>2
  <2> HIDE DEF here, text
  <2>7. (CHOOSE j \in here(p) : TRUE) = k /\ here(p) # {} BY <2>6
  <2>8. member(p) = ArHdr(ms[k])[i] BY <2>2, <2>5, <2>7
  <2> HIDE DEF member
  <2>9. Ar(ms)[p] = member(p) BY <1>2, <2>2, <2>5
  <2> QED BY <2>2, <2>4, <2>8, <2>9
<1> QED BY <1>1, <1>4 DEF at

\* Where the size stands in a header, what is around it, and what is behind the date.
LEMMA HeaderFacts ==
  ASSUME NEW m, m.head \in Heads, Len(m.text) \in Nat, Quotients(Len(m.text))[10] = 0
  PROVE  LET d == Len(DecimalDigits(Len(m.text)))
         IN  /\ d \in 1 .. 10
             /\ \A i \in 1 .. d : ArHdr(m)[47 + i] = DecimalDigits(Len(m.text))[i]
             /\ ArHdr(m)[48 + d] \notin 0 .. 9
             /\ \A i \in {26, 27, 46, 47} : ArHdr(m)[i] = Blank
<1> DEFINE n == Len(m.text)
           d == Len(DecimalDigits(n))
<1>1. d \in 1 .. 10 BY DigitsFacts
<1> HIDE DEF d
<1>2. ASSUME NEW i \in 0 .. 59
      PROVE  ArHdr(m)[i] = IF i \in ArSize THEN InField(DecimalDigits(n), i - 47) ELSE m.head[i]
  BY DEF ArHdr, Header
<1>3. \A i \in {26, 27, 46, 47} : ArHdr(m)[i] = Blank
  <2>1. \A i \in {26, 27, 46, 47} : i \in 0 .. 59 /\ i \notin ArSize /\ m.head[i] = Blank
    BY DEF Heads, ArSize
  <2> QED BY <1>2, <2>1
<1>4. ArHdr(m)[58] = 11
  <2>1. 58 \in 0 .. 59 /\ 58 \notin ArSize /\ m.head[58] = 11 BY DEF Heads, ArSize, Text
  <2> QED BY <1>2, <2>1
<1>5. \A i \in 1 .. d : ArHdr(m)[47 + i] = DecimalDigits(n)[i]
  <2> TAKE i \in 1 .. d
  <2>1. 47 + i \in ArSize /\ 47 + i \in 0 .. 59 /\ (47 + i) - 47 = i /\ i <= d BY <1>1 DEF ArSize
  <2>2. ArHdr(m)[47 + i] = InField(DecimalDigits(n), i) BY <1>2, <2>1
  <2> QED BY <2>1, <2>2 DEF InField, d
<1>6. ArHdr(m)[48 + d] \notin 0 .. 9
  <2>1. CASE d = 10 BY <1>4, <2>1
  <2>2. CASE d # 10
    <3>1. 48 + d \in ArSize /\ 48 + d \in 0 .. 59 /\ (48 + d) - 47 = d + 1 /\ ~(d + 1 <= d)
      BY <1>1, <2>2 DEF ArSize
    <3>2. ArHdr(m)[48 + d] = InField(DecimalDigits(n), d + 1) BY <1>2, <3>1
    <3>3. ArHdr(m)[48 + d] = 10 BY <3>1, <3>2 DEF InField, Blank, d
    <3> QED BY <3>3
  <2> QED BY <2>1, <2>2
<1> QED BY <1>1, <1>3, <1>5, <1>6 DEF d

\* What a number between -m and m is modulo m.
LEMMA Wraps ==
  ASSUME NEW m \in Nat, NEW x \in Int, -m < x, x < m
  PROVE  x % m = IF x >= 0 THEN x ELSE x + m
<1> DEFINE q == x \div m
           r == x % m
<1>1. m > 0 OBVIOUS
<1>2. x = m * q + r /\ r \in 0 .. m - 1 /\ q \in Int BY <1>1
<1> HIDE DEF q, r
<1>3. q >= -1 /\ q <= 0
  <2>1. ASSUME q <= -2 PROVE FALSE
    <3>1. m * q <= m * (-2) BY <1>1, <1>2, <2>1
    <3> QED BY <1>1, <1>2, <3>1
  <2>2. ASSUME q >= 1 PROVE FALSE
    <3>1. m * q >= m * 1 BY <1>1, <1>2, <2>2
    <3> QED BY <1>1, <1>2, <3>1
  <2> QED BY <1>2, <2>1, <2>2
<1>4. q = 0 \/ q = -1 BY <1>2, <1>3
<1>5. r = IF x >= 0 THEN x ELSE x + m BY <1>1, <1>2, <1>4
<1> QED BY <1>5 DEF r
-----------------------------------------------------------------------------
(* arid: what its turns keep.                                              *)

Count == Len(members)
Size_(k) == Len(members[k].text)
Orderly == \A k \in 1 .. Count : Skew(k) <= 2

\* The archives and what is in them.
LEMMA ArchiveFacts ==
  ASSUME members \in Archives
  PROVE  /\ Count \in Nat /\ SizeT \in Nat
         /\ \A k \in 1 .. Count : /\ members[k].head \in Heads /\ Size_(k) \in Nat
                                  /\ Quotients(Size_(k))[10] = 0
         /\ Behind + 8 < SizeT
<1>1. Count \in Nat /\ SizeT \in Nat /\ Behind + 8 < SizeT
  BY AridAssumption DEF Count, Behind, Magic
<1>2. \A k \in 1 .. Count : members[k].head \in Heads /\ members[k].text \in Seq(Chars)
                            /\ Quotients(Size_(k))[10] = 0
  BY AridAssumption DEF Count, Size_
<1>3. \A k \in 1 .. Count : Size_(k) \in Nat BY <1>2 DEF Size_
<1> QED BY <1>1, <1>2, <1>3

\* Where arid looks for the members: up to the last one at most two octets too early, one
\* behind the other, and in the end at most three octets before the end of the file.
LEMMA LookedFacts ==
  ASSUME members \in Archives, Orderly
  PROVE  /\ \A k \in 1 .. Count + 1 : Looked(k) \in Nat /\ Looked(k) >= 8 /\ Offset(members, k) \in Nat
         /\ \A k \in 1 .. Count : /\ Looked(k + 1) = Looked(k) + 60 + Size_(k)
                                  /\ Skew(k) \in 0 .. 2 /\ Offset(members, k) = Looked(k) + Skew(k)
                                  /\ Offset(members, k) + 60 + Size_(k) <= Behind
         /\ \A j, k \in 1 .. Count + 1 : j < k => Looked(j) + 60 + Size_(j) <= Looked(k)
         /\ Looked(1) = 8 /\ Behind \in Nat /\ Behind - Looked(Count + 1) \in 0 .. 3
<1>1. Count \in Nat /\ \A k \in 1 .. Count : Size_(k) \in Nat BY ArchiveFacts
<1>2. Len(members) \in Nat /\ \A k \in 1 .. Len(members) : Len(members[k].text) \in Nat
  BY <1>1 DEF Count, Size_
<1>3. /\ \A k \in 1 .. Count + 1 : Looked(k) \in Nat /\ Looked(k) >= 8
      /\ \A j, k \in 1 .. Count + 1 : j < k => Looked(j) + 60 + Size_(j) <= Looked(k)
  BY <1>2, StartFacts DEF Looked, Count, Size_
<1>4. /\ \A k \in 1 .. Count + 1 : Offset(members, k) \in Nat
      /\ \A j, k \in 1 .. Count + 1 : j < k => Offset(members, j) + 60 + Size_(j) <= Offset(members, k)
  BY <1>2, StartFacts DEF Offset, Count, Size_
<1>5. Looked(1) = 8 /\ \A k \in 1 .. Count : Looked(k + 1) = Looked(k) + 60 + Size_(k)
  <2>1. Looked(1) = 8 BY <1>2, StartSteps DEF Looked
  <2>2. ASSUME NEW k \in 1 .. Count PROVE Looked(k + 1) = Looked(k) + 60 + Size_(k)
    <3>1. Looked(k + 1) = Looked(k) + 60 + Size_(k) + 0
      BY <1>2, StartSteps DEF Looked, Count, Size_, Padding_
    <3>2. k \in 1 .. Count + 1 BY <1>1
    <3>3. Looked(k) \in Nat /\ Size_(k) \in Nat BY <1>1, <1>3, <3>2
    <3> QED BY <3>1, <3>3
  <2> QED BY <2>1, <2>2
<1>6. /\ \A k \in 1 .. Count : Skew(k + 1) - Skew(k) \in 0 .. 1
      /\ \A k \in 1 .. Count + 1 : Skew(k) \in Nat
      /\ Offset(members, 1) = Looked(1)
  BY <1>2, SkewSteps DEF Skew, Looked, Count
<1>7. Behind = Offset(members, Count + 1) /\ Count + 1 \in 1 .. Count + 1 BY <1>1 DEF Behind, Count
<1>8. ASSUME NEW k \in 1 .. Count
      PROVE  /\ Skew(k) \in 0 .. 2 /\ Offset(members, k) = Looked(k) + Skew(k)
             /\ Offset(members, k) + 60 + Size_(k) <= Behind
  <2>1. k \in 1 .. Count + 1 /\ k < Count + 1 BY <1>1
  <2>2. Skew(k) \in 0 .. 2 BY <1>6, <2>1 DEF Orderly
  <2>3. Offset(members, k) = Looked(k) + Skew(k) BY <1>3, <1>4, <2>1 DEF Skew
  <2>4. Offset(members, k) + 60 + Size_(k) <= Behind BY <1>4, <1>7, <2>1
  <2> QED BY <2>2, <2>3, <2>4
<1>9. Behind - Looked(Count + 1) \in 0 .. 3
  <2>1. Behind - Looked(Count + 1) = Skew(Count + 1) BY <1>7 DEF Skew
  <2>2. CASE Count = 0
    <3>1. Offset(members, 1) - Looked(1) = 0
      <4>1. 1 \in 1 .. Count + 1 BY <1>1
      <4> QED BY <1>3, <1>6, <4>1
    <3> QED BY <2>1, <2>2, <3>1 DEF Skew
  <2>3. CASE Count # 0
    <3>1. Count \in 1 .. Count /\ Count \in 1 .. Count + 1 BY <1>1, <2>3
    <3>2. Skew(Count + 1) - Skew(Count) \in 0 .. 1 /\ Skew(Count) \in 0 .. 2 /\ Skew(Count + 1) \in Nat
      BY <1>6, <1>7, <1>8, <3>1
    <3> QED BY <2>1, <3>2
  <2> QED BY <2>2, <2>3
<1>10. Behind \in Nat BY <1>4, <1>7
<1> QED BY <1>3, <1>4, <1>5, <1>8, <1>9, <1>10

Erased(k) == \A i \in ArDate : archive[Looked(k) + i] = IF i = 16 THEN 0 ELSE Blank
Unchanged(p) == archive[p] = Ar(members)[p]

\* In an archive with at most two members of odd length before the last one, arid is at a
\* member, with nothing left of the dates before it, or past them all; and it has changed
\* nothing but dates.
AridInv ==
  /\ members \in Archives
  /\ DOMAIN archive = 0 .. Behind - 1
  /\ Orderly =>
       /\ running => \E k \in 1 .. Count + 1 : data = Looked(k) /\ \A j \in 1 .. k - 1 : Erased(j)
       /\ \A p \in 0 .. Behind - 1 : Unchanged(p) \/ \E k \in 1 .. Count : p - Looked(k) \in ArDate
       /\ finished => \A k \in 1 .. Count : Erased(k)

\* Before the first run nothing has been read.
LEMMA AridInitInv == AridInit => AridInv
<1> SUFFICES ASSUME AridInit PROVE AridInv
  OBVIOUS
<1>1. members \in Archives /\ archive = Ar(members) /\ running = FALSE /\ finished = FALSE
  BY DEF AridInit
<1>2. Len(members) \in Nat /\ \A k \in 1 .. Len(members) : Len(members[k].text) \in Nat
  BY <1>1, ArchiveFacts DEF Count, Size_
<1>3. DOMAIN archive = 0 .. Behind - 1 BY <1>1, <1>2, ArAt DEF Behind
<1> QED BY <1>1, <1>3 DEF AridInv, Unchanged

\* What is not a date has not changed.
LEMMA HeaderKept ==
  ASSUME AridInv, Orderly, NEW k \in 1 .. Count, NEW i \in 0 .. 59, i + Skew(k) >= 28
  PROVE  /\ Offset(members, k) + i \in 0 .. Behind - 1
         /\ archive[Offset(members, k) + i] = ArHdr(members[k])[i]
         /\ \A j \in 1 .. Count : (Offset(members, k) + i) - Looked(j) \notin ArDate
<1>1. members \in Archives /\ Count \in Nat BY ArchiveFacts DEF AridInv
<1>2. PICK x, m, n, p : x = Looked(k) /\ m = Skew(k) /\ n = Size_(k) /\ p = Offset(members, k) + i OBVIOUS
<1>3. /\ x \in Nat /\ m \in 0 .. 2 /\ n \in Nat /\ p = x + m + i /\ x + m + 60 + n <= Behind
      /\ Behind \in Nat /\ i + m >= 28
  <2>1. k \in 1 .. Count + 1 BY <1>1
  <2>2. n \in Nat BY <1>1, <1>2, ArchiveFacts
  <2>3. x \in Nat /\ Behind \in Nat /\ m \in 0 .. 2 /\ Offset(members, k) = x + m
        /\ Offset(members, k) + 60 + n <= Behind
    BY <1>1, <1>2, <2>1, LookedFacts
  <2> QED BY <1>2, <2>2, <2>3
<1>4. p \in 0 .. Behind - 1 BY <1>3
<1>5. ASSUME NEW j \in 1 .. Count PROVE p - Looked(j) \notin ArDate
  <2>1. PICK y, l : y = Looked(j) /\ l = Size_(j) OBVIOUS
  <2>2. j \in 1 .. Count + 1 /\ k \in 1 .. Count + 1 /\ j \in Nat /\ k \in Nat BY <1>1
  <2>3. y \in Nat /\ l \in Nat BY <1>1, <2>1, <2>2, ArchiveFacts, LookedFacts
  <2>4. j < k => y + 60 + l <= x BY <1>1, <1>2, <2>1, <2>2, LookedFacts
  <2>5. k < j => x + 60 + n <= y BY <1>1, <1>2, <2>1, <2>2, LookedFacts
  <2>6. j = k => y = x BY <1>2, <2>1
  <2>7. p - y \notin 16 .. 27
    <3>1. CASE j < k BY <1>3, <2>3, <2>4, <3>1
    <3>2. CASE k < j BY <1>3, <2>3, <2>5, <3>2
    <3>3. CASE j = k BY <1>3, <2>6, <3>3
    <3> QED BY <2>2, <3>1, <3>2, <3>3
  <2> QED BY <2>1, <2>7 DEF ArDate
<1>6. archive[p] = Ar(members)[p] BY <1>4, <1>5 DEF AridInv, Unchanged
<1>7. Ar(members)[p] = ArHdr(members[k])[i]
  <2>0. \A ms : Len(ms) \in Nat /\ (\A j \in 1 .. Len(ms) : Len(ms[j].text) \in Nat) =>
          \A h \in 1 .. Len(ms), g \in 0 .. 59 : Ar(ms)[Offset(ms, h) + g] = ArHdr(ms[h])[g]
    BY ArAt
  <2>1. Len(members) \in Nat /\ \A j \in 1 .. Len(members) : Len(members[j].text) \in Nat
    BY <1>1, ArchiveFacts DEF Count, Size_
  <2>2. k \in 1 .. Len(members) BY DEF Count
  <2>3. Ar(members)[Offset(members, k) + i] = ArHdr(members[k])[i] BY <2>0, <2>1, <2>2, Zenon
  <2> QED BY <1>2, <2>3
<1> QED BY <1>2, <1>4, <1>5, <1>6, <1>7

\* At a member, arid goes on; behind the last one it does not.
LEMMA GoesAtMembers ==
  ASSUME AridInv, Orderly, running, NEW k \in 1 .. Count + 1, data = Looked(k)
  PROVE  /\ Goes <=> k \in 1 .. Count
         /\ k \in 1 .. Count => data + 60 + Size_(k) <= Behind /\ Inside
         /\ data \in Nat /\ data <= Behind /\ Behind + 8 < SizeT
<1>1. /\ members \in Archives /\ Count \in Nat /\ SizeT \in Nat /\ Behind + 8 < SizeT
      /\ \A j \in 1 .. Count : Size_(j) \in Nat
  BY ArchiveFacts DEF AridInv
<1>2. data \in Nat /\ Behind \in Nat BY <1>1, LookedFacts
<1>3. CASE k \in 1 .. Count
  <2>1. Skew(k) \in 0 .. 2 /\ Offset(members, k) = data + Skew(k)
        /\ Offset(members, k) + 60 + Size_(k) <= Behind /\ Size_(k) \in Nat
    BY <1>1, <1>3, LookedFacts
  <2>2. data + 60 + Size_(k) <= Behind /\ data + 60 <= Behind BY <1>2, <2>1
  <2>3. (8 + Behind - data) % SizeT = 8 + Behind - data
    <3> DEFINE z == 8 + Behind - data
    <3>1. z \in Int /\ -SizeT < z /\ z < SizeT /\ z >= 0 BY <1>1, <1>2, <2>2
    <3> HIDE DEF z
    <3>2. z % SizeT = z BY <1>1, <3>1, Wraps
    <3> QED BY <3>2 DEF z
  <2>4. Goes BY <1>1, <1>2, <2>2, <2>3 DEF Goes, Magic, Header
  <2> QED BY <1>1, <1>2, <1>3, <2>2, <2>4 DEF Inside, Header
<1>4. CASE k \notin 1 .. Count
  <2>1. k = Count + 1 BY <1>1, <1>4
  <2>2. Behind - data \in 0 .. 3 BY <1>1, <2>1, LookedFacts
  <2>3. (8 + Behind - data) % SizeT = 8 + Behind - data
    <3> DEFINE z == 8 + Behind - data
    <3>1. z \in Int /\ -SizeT < z /\ z < SizeT /\ z >= 0 BY <1>1, <1>2, <2>2
    <3> HIDE DEF z
    <3>2. z % SizeT = z BY <1>1, <3>1, Wraps
    <3> QED BY <3>2 DEF z
  <2>4. ~Goes BY <1>1, <1>2, <2>2, <2>3 DEF Goes, Magic, Header
  <2> QED BY <1>1, <1>2, <1>4, <2>2, <2>4
<1> QED BY <1>3, <1>4

\* In the file a date is where it is, modulo SizeT or not.
LEMMA DatedFacts ==
  ASSUME NEW a, NEW n \in Nat, DOMAIN a = 0 .. n - 1, SizeT \in Nat, n < SizeT,
         NEW d \in Nat, d + 60 <= n
  PROVE  /\ DOMAIN Dated(a, d) = 0 .. n - 1
         /\ \A p \in 0 .. n - 1 :
              Dated(a, d)[p] = IF p - d \in ArDate THEN IF p - d = 16 THEN 0 ELSE Blank ELSE a[p]
<1>1. ASSUME NEW p \in 0 .. n - 1
      PROVE  Dated(a, d)[p] = IF p - d \in ArDate THEN IF p - d = 16 THEN 0 ELSE Blank ELSE a[p]
  <2>1. p - d \in Int /\ -SizeT < p - d /\ p - d < SizeT OBVIOUS
  <2>2. PICK z : z = (p - d) % SizeT OBVIOUS
  <2>3. z = IF p - d >= 0 THEN p - d ELSE p - d + SizeT BY <2>1, <2>2, Wraps
  <2>4. z \in ArDate <=> p - d \in ArDate BY <2>3 DEF ArDate
  <2>5. p - d \in ArDate => z = p - d BY <2>3 DEF ArDate
  <2>6. Dated(a, d)[p] = IF z \in ArDate THEN IF z = 16 THEN 0 ELSE Blank ELSE a[p]
    BY <2>2 DEF Dated
  <2> QED BY <2>4, <2>5, <2>6
<1> QED BY <1>1 DEF Dated

\* At a member, arid reads the member's own length, whatever is in the member.
LEMMA ReadsLength ==
  ASSUME AridInv, Orderly, NEW k \in 1 .. Count, NEW a, DOMAIN a = 0 .. Behind - 1,
         \A p \in 0 .. Behind - 1 : p - Looked(k) \notin ArDate => a[p] = archive[p]
  PROVE  Strtoul(a, Looked(k) + 48) = Size_(k)
<1>1. /\ members \in Archives /\ Count \in Nat /\ SizeT \in Nat /\ Behind + 8 < SizeT
      /\ members[k].head \in Heads /\ Size_(k) \in Nat /\ Quotients(Size_(k))[10] = 0
  BY ArchiveFacts DEF AridInv
<1>2. PICK x, m, n, size : x = Looked(k) /\ m = Skew(k) /\ n = Size_(k) /\ size = Behind OBVIOUS
<1>3. PICK e : e = Offset(members, k) OBVIOUS
<1>4. /\ x \in Nat /\ m \in 0 .. 2 /\ n \in Nat /\ size \in Nat /\ e = x + m /\ e + 60 + n <= size
      /\ size + 8 < SizeT
  <2>1. k \in 1 .. Count + 1 BY <1>1
  <2> QED BY <1>1, <1>2, <1>3, <2>1, LookedFacts
<1>5. PICK d : d = Len(DecimalDigits(n)) OBVIOUS
<1>6. /\ d \in 1 .. 10 /\ \A i \in 1 .. d : ArHdr(members[k])[47 + i] = DecimalDigits(n)[i]
      /\ ArHdr(members[k])[48 + d] \notin 0 .. 9
      /\ \A i \in {26, 27, 46, 47} : ArHdr(members[k])[i] = Blank
  BY <1>1, <1>2, <1>5, HeaderFacts DEF Size_
<1>7. ASSUME NEW i \in 46 .. 58 PROVE At(a, e + i) = ArHdr(members[k])[i]
  <2>1. i \in 0 .. 59 /\ i + m >= 28 BY <1>4
  <2>2. /\ e + i \in 0 .. Behind - 1 /\ archive[e + i] = ArHdr(members[k])[i]
        /\ (e + i) - Looked(k) \notin ArDate
    BY <1>2, <1>3, <2>1, HeaderKept
  <2>3. PICK q : q = e + i OBVIOUS
  <2>4. q \in 0 .. Behind - 1 /\ q - Looked(k) \notin ArDate /\ archive[q] = ArHdr(members[k])[i]
    BY <2>2, <2>3
  <2>5. a[q] = archive[q] /\ q \in DOMAIN a BY <2>4
  <2>6. At(a, q) = a[q] BY <2>5 DEF At
  <2> QED BY <2>3, <2>4, <2>5, <2>6
<1>8. PICK p : p = x + 48 OBVIOUS
<1>d. d \in 1 .. 10 BY <1>6
<1>9. \A i \in 0 .. m - 1 : At(a, p + i) = Blank
  <2> TAKE i \in 0 .. m - 1
  <2>1. PICK r : r = 48 - m + i OBVIOUS
  <2>2. r \in 46 .. 58 /\ p + i = e + r /\ r \in {26, 27, 46, 47} BY <1>4, <1>8, <2>1
  <2>3. At(a, e + r) = ArHdr(members[k])[r] BY <1>7, <2>2
  <2>4. ArHdr(members[k])[r] = Blank BY <1>6, <2>2
  <2> QED BY <2>2, <2>3, <2>4
<1>10. \A i \in 1 .. d : At(a, p + m + i - 1) = DecimalDigits(n)[i]
  <2> TAKE i \in 1 .. d
  <2>1. PICK r : r = 47 + i OBVIOUS
  <2>2. r \in 46 .. 58 /\ p + m + i - 1 = e + r BY <1>4, <1>d, <1>8, <2>1
  <2>3. At(a, e + r) = ArHdr(members[k])[r] BY <1>7, <2>2
  <2>4. ArHdr(members[k])[r] = DecimalDigits(n)[i] BY <1>6, <2>1
  <2> QED BY <2>2, <2>3, <2>4
<1>11. At(a, p + m + d) \notin 0 .. 9
  <2>1. PICK r : r = 48 + d OBVIOUS
  <2>2. r \in 46 .. 58 /\ p + m + d = e + r BY <1>4, <1>d, <1>8, <2>1
  <2>3. At(a, e + r) = ArHdr(members[k])[r] BY <1>7, <2>2
  <2> QED BY <1>6, <2>1, <2>2, <2>3
<1>12. Strtoul(a, p) = n
  <2>1. p \in Nat /\ size >= 60 /\ n < SizeT
    <3>1. SizeT \in Nat BY <1>1
    <3> QED BY <1>4, <1>8, <3>1
  <2>a. DOMAIN a = 0 .. size - 1 /\ Quotients(n)[10] = 0 /\ SizeT \in Nat BY <1>1, <1>2
  <2>2. \A i \in 1 .. Len(DecimalDigits(n)) : At(a, p + m + i - 1) = DecimalDigits(n)[i]
    BY <1>5, <1>10
  <2>3. At(a, p + m + Len(DecimalDigits(n))) \notin 0 .. 9 BY <1>5, <1>11
  <2>4. m \in 0 .. 2 /\ n \in Nat /\ size \in Nat BY <1>4
  <2> QED BY ZenonT(30), <1>9, <2>1, <2>a, <2>2, <2>3, <2>4, StrtoulReadsBack
<1> QED BY <1>2, <1>8, <1>12

\* From a member a turn goes on to the next one, and leaves nothing of the member's date.
LEMMA MemberKeeps == ASSUME AridInv, Member PROVE AridInv'
<1>1. /\ Goes /\ Inside /\ archive' = Dated(archive, data)
      /\ data' = (data + Strtoul(archive', data + 48) + 60) % SizeT
      /\ UNCHANGED <<members, running, finished>>
  BY DEF Member, Header
<1>2. /\ Behind' = Behind /\ Count' = Count /\ (Orderly' <=> Orderly)
      /\ \A k : Looked(k)' = Looked(k) /\ \A p : (Ar(members)[p])' = Ar(members)[p]
  BY <1>1 DEF Behind, Count, Orderly, Looked, Skew
<1>3. /\ members \in Archives /\ DOMAIN archive = 0 .. Behind - 1
  BY DEF AridInv
<1>4. DOMAIN archive' = 0 .. Behind' - 1 /\ members' \in Archives
  BY <1>1, <1>2, <1>3 DEF Dated
<1>5. ASSUME Orderly
      PROVE  /\ running' => \E k \in 1 .. Count' + 1 : data' = Looked(k)' /\ \A j \in 1 .. k - 1 : Erased(j)'
             /\ \A p \in 0 .. Behind' - 1 : Unchanged(p)' \/ \E k \in 1 .. Count' : p - Looked(k)' \in ArDate
             /\ finished' => \A k \in 1 .. Count' : Erased(k)'
  <2>1. running BY <1>1 DEF Goes
  <2>2. PICK k \in 1 .. Count + 1 : data = Looked(k) /\ \A j \in 1 .. k - 1 : Erased(j)
    BY <1>5, <2>1 DEF AridInv
  <2>3. /\ k \in 1 .. Count /\ data + 60 + Size_(k) <= Behind
        /\ data \in Nat /\ data <= Behind /\ Behind + 8 < SizeT
    BY <1>1, <1>5, <2>1, <2>2, GoesAtMembers
  <2>4. Behind \in Nat /\ SizeT \in Nat /\ Size_(k) \in Nat /\ Count \in Nat
    BY <1>3, <1>5, <2>3, ArchiveFacts, LookedFacts
  <2>5. \A p \in 0 .. Behind - 1 :
          archive'[p] = IF p - data \in ArDate THEN IF p - data = 16 THEN 0 ELSE Blank ELSE archive[p]
    <3> DEFINE n == Behind
    <3>1. n \in Nat /\ DOMAIN archive = 0 .. n - 1 /\ n < SizeT /\ data + 60 <= n
      BY <1>3, <2>3, <2>4
    <3> HIDE DEF n
    <3>2. \A p \in 0 .. n - 1 :
            Dated(archive, data)[p]
              = IF p - data \in ArDate THEN IF p - data = 16 THEN 0 ELSE Blank ELSE archive[p]
      BY <2>3, <2>4, <3>1, DatedFacts
    <3> QED BY <1>1, <3>2 DEF n
  <2>6. Strtoul(archive', data + 48) = Size_(k)
    <3>1. \A p \in 0 .. Behind - 1 : p - Looked(k) \notin ArDate => archive'[p] = archive[p]
      BY <2>2, <2>5
    <3>2. PICK a : a = archive' OBVIOUS
    <3>3. DOMAIN a = 0 .. Behind - 1
          /\ \A p \in 0 .. Behind - 1 : p - Looked(k) \notin ArDate => a[p] = archive[p]
      BY <1>2, <1>4, <3>1, <3>2
    <3>4. Strtoul(a, Looked(k) + 48) = Size_(k) BY <1>5, <2>3, <3>3, ReadsLength
    <3> QED BY <2>2, <3>2, <3>4
  <2>7. data' = Looked(k + 1)
    <3> DEFINE z == data + Size_(k) + 60
    <3>1. z \in Int /\ -SizeT < z /\ z < SizeT /\ z >= 0 BY <2>3, <2>4
    <3>2. data' = z % SizeT BY <1>1, <2>6
    <3>3. Looked(k + 1) = z
      <4>1. Looked(k + 1) = Looked(k) + 60 + Size_(k) BY <1>3, <1>5, <2>3, LookedFacts
      <4> QED BY <2>2, <2>3, <2>4, <4>1
    <3> HIDE DEF z
    <3>4. z % SizeT = z BY <2>4, <3>1, Wraps
    <3> QED BY <3>2, <3>3, <3>4
  <2>8. ASSUME NEW j \in 1 .. Count, j = k \/ Erased(j) PROVE Erased(j)'
    <3> SUFFICES ASSUME NEW i \in ArDate PROVE archive'[Looked(j) + i] = IF i = 16 THEN 0 ELSE Blank
      BY <1>2 DEF Erased
    <3>1. PICK y, l, n : y = Looked(j) /\ l = Size_(j) /\ n = Size_(k) OBVIOUS
    <3>2. j \in 1 .. Count + 1 /\ j \in Nat /\ k \in Nat BY <2>4
    <3>3. y \in Nat /\ l \in Nat /\ n \in Nat /\ y + 60 + l <= Behind
      <4>1. y \in Nat /\ l \in Nat /\ Skew(j) \in 0 .. 2 /\ Offset(members, j) = y + Skew(j)
            /\ Offset(members, j) + 60 + l <= Behind
        BY <1>3, <1>5, <3>1, <3>2, ArchiveFacts, LookedFacts
      <4> QED BY <2>4, <3>1, <4>1
    <3>4. i \in 16 .. 27 BY DEF ArDate
    <3>5. y + i \in 0 .. Behind - 1 BY <2>4, <3>3, <3>4
    <3>6. archive'[y + i] = IF (y + i) - data \in ArDate THEN IF (y + i) - data = 16 THEN 0 ELSE Blank
                            ELSE archive[y + i]
      <4>1. PICK q : q = y + i OBVIOUS
      <4>2. q \in 0 .. Behind - 1 BY <3>5, <4>1
      <4>3. archive'[q] = IF q - data \in ArDate THEN IF q - data = 16 THEN 0 ELSE Blank ELSE archive[q]
        BY <2>5, <4>2, Zenon
      <4> QED BY <4>1, <4>3, Zenon
    <3>7. CASE j = k
      <4>1. (y + i) - data = i BY <2>2, <2>3, <3>1, <3>4, <3>7
      <4> QED BY <3>1, <3>6, <4>1
    <3>8. CASE j # k
      <4>1. j < k => y + 60 + l <= data BY <1>3, <1>5, <2>2, <3>1, <3>2, LookedFacts
      <4>2. k < j => data + 60 + n <= y BY <1>3, <1>5, <2>2, <3>1, <3>2, LookedFacts
      <4>3. (y + i) - data \notin 16 .. 27
        <5>1. CASE j < k BY <2>3, <3>3, <3>4, <4>1, <5>1
        <5>2. CASE k < j BY <2>3, <3>3, <3>4, <4>2, <5>2
        <5> QED BY <3>2, <3>8, <5>1, <5>2
      <4>4. archive'[y + i] = archive[y + i] BY <3>6, <4>3 DEF ArDate
      <4>5. archive[y + i] = IF i = 16 THEN 0 ELSE Blank BY <2>8, <3>1, <3>8 DEF Erased
      <4> QED BY <3>1, <4>4, <4>5
    <3> QED BY <3>7, <3>8
  <2>9. \A j \in 1 .. (k + 1) - 1 : Erased(j)'
    <3> TAKE j \in 1 .. (k + 1) - 1
    <3>1. j \in 1 .. Count /\ (j = k \/ j \in 1 .. k - 1) BY <2>3, <2>4
    <3> QED BY <2>2, <2>8, <3>1
  <2>10. \E h \in 1 .. Count' + 1 : data' = Looked(h)' /\ \A j \in 1 .. h - 1 : Erased(j)'
    <3>1. k + 1 \in 1 .. Count' + 1 BY <1>2, <2>3, <2>4
    <3>2. data' = Looked(k + 1)' BY <1>2, <2>7
    <3> QED BY <2>9, <3>1, <3>2
  <2>11. ASSUME NEW p \in 0 .. Behind - 1
         PROVE  Unchanged(p)' \/ \E h \in 1 .. Count : p - Looked(h) \in ArDate
    <3>1. CASE p - data \in ArDate BY <2>2, <2>3, <3>1
    <3>2. CASE p - data \notin ArDate
      <4>1. archive'[p] = archive[p] BY <2>5, <3>2
      <4>2. Unchanged(p) \/ \E h \in 1 .. Count : p - Looked(h) \in ArDate BY <1>5 DEF AridInv
      <4> QED BY <1>2, <4>1, <4>2 DEF Unchanged
    <3> QED BY <3>1, <3>2
  <2>12. finished' => \A j \in 1 .. Count : Erased(j)'
    <3> SUFFICES ASSUME finished', NEW j \in 1 .. Count PROVE Erased(j)'
      OBVIOUS
    <3>1. Erased(j) BY <1>1, <1>5 DEF AridInv
    <3> QED BY <2>8, <3>1
  <2> QED BY <1>2, <2>10, <2>11, <2>12
<1> QED BY <1>2, <1>4, <1>5 DEF AridInv

\* No turn of the loop and no signal leads astray.
LEMMA AridInductive == AridInv /\ [AridNext]_aridVars => AridInv'
<1> SUFFICES ASSUME AridInv, [AridNext]_aridVars PROVE AridInv'
  OBVIOUS
<1>1. CASE Member BY <1>1, MemberKeeps
<1>2. ASSUME UNCHANGED <<members, archive>>
      PROVE  /\ Behind' = Behind /\ Count' = Count /\ (Orderly' <=> Orderly)
             /\ \A k : Looked(k)' = Looked(k) /\ (Erased(k)' <=> Erased(k))
             /\ \A p : Unchanged(p)' <=> Unchanged(p)
  <2>1. /\ Behind' = Behind /\ Count' = Count /\ (Orderly' <=> Orderly)
        /\ \A k : Looked(k)' = Looked(k)
    BY <1>2 DEF Behind, Count, Orderly, Looked, Skew
  <2>2. \A k : Erased(k)' <=> Erased(k) BY <1>2, <2>1 DEF Erased
  <2>3. \A p : Unchanged(p)' <=> Unchanged(p) BY <1>2 DEF Unchanged
  <2> QED BY <2>1, <2>2, <2>3
<1>3. CASE Arid
  <2>1. data' = 8 /\ UNCHANGED <<members, archive, finished>> BY <1>3 DEF Arid, Magic
  <2>2. Orderly => \E k \in 1 .. Count + 1 : data' = Looked(k) /\ \A j \in 1 .. k - 1 : Erased(j)
    <3> SUFFICES ASSUME Orderly PROVE 1 \in 1 .. Count + 1 /\ data' = Looked(1) /\ 1 .. 1 - 1 = {}
      OBVIOUS
    <3> QED BY <2>1, ArchiveFacts, LookedFacts DEF AridInv
  <2> QED BY <1>2, <2>1, <2>2 DEF AridInv
<1>4. CASE Astray
  <2>1. /\ Goes /\ ~Inside /\ archive' = Dated(archive, data) /\ UNCHANGED members
    BY <1>4 DEF Astray
  <2>2. ~Orderly
    <3> SUFFICES ASSUME Orderly PROVE FALSE
      OBVIOUS
    <3>1. running BY <2>1 DEF Goes
    <3>2. PICK k \in 1 .. Count + 1 : data = Looked(k) BY <3>1 DEF AridInv
    <3> QED BY <2>1, <3>1, <3>2, GoesAtMembers
  <2>3. /\ Behind' = Behind /\ (Orderly' <=> Orderly) BY <2>1 DEF Behind, Orderly, Count, Skew, Looked
  <2>4. DOMAIN archive' = DOMAIN archive BY <2>1 DEF Dated
  <2> QED BY <2>1, <2>2, <2>3, <2>4 DEF AridInv
<1>5. CASE Exit_
  <2>1. running /\ ~Goes /\ running' = FALSE /\ UNCHANGED <<members, archive>> BY <1>5 DEF Exit_
  <2>2. Orderly => \A j \in 1 .. Count : Erased(j)
    <3> SUFFICES ASSUME Orderly PROVE \A j \in 1 .. Count : Erased(j)
      OBVIOUS
    <3>1. PICK k \in 1 .. Count + 1 : data = Looked(k) /\ \A j \in 1 .. k - 1 : Erased(j)
      BY <2>1 DEF AridInv
    <3>2. k \notin 1 .. Count BY <2>1, <3>1, GoesAtMembers
    <3>3. Count \in Nat BY ArchiveFacts DEF AridInv
    <3>4. k = Count + 1 /\ (Count + 1) - 1 = Count BY <3>2, <3>3
    <3> QED BY <3>1, <3>4
  <2> QED BY <1>2, <2>1, <2>2 DEF AridInv
<1>6. CASE Killed
  <2>1. running' = FALSE /\ UNCHANGED <<members, archive, finished>> BY <1>6 DEF Killed
  <2> QED BY <1>2, <2>1 DEF AridInv
<1>7. CASE UNCHANGED aridVars
  <2>1. UNCHANGED <<members, archive, running, data, finished>> BY <1>7 DEF aridVars
  <2> QED BY <1>2, <2>1 DEF AridInv
<1> QED BY <1>1, <1>3, <1>4, <1>5, <1>6, <1>7 DEF AridNext

\* Whatever the members are, however often arid is run and whenever it is stopped: with at
\* most two members of odd length before the last one only dates are overwritten, and when
\* arid has come to its end nothing of any date is left.
THEOREM DatesAreAlwaysErased == AridSpec => []DatesAreErased
<1>1. AridInv => DatesAreErased
  <2> SUFFICES ASSUME AridInv, Orderly
               PROVE  /\ \A p \in DOMAIN archive :
                           archive[p] = Ar(members)[p] \/ \E k \in 1 .. Len(members) : p - Looked(k) \in ArDate
                      /\ finished => \A k \in 1 .. Len(members), i \in ArDate :
                           archive[Offset(members, k) + i] = IF i = 16 /\ Skew(k) = 0 THEN 0 ELSE Blank
    BY DEF DatesAreErased, Orderly, Count
  <2>1. \A p \in DOMAIN archive :
          archive[p] = Ar(members)[p] \/ \E k \in 1 .. Len(members) : p - Looked(k) \in ArDate
    BY DEF AridInv, Unchanged, Count
  <2>2. ASSUME finished, NEW k \in 1 .. Count, NEW i \in ArDate
        PROVE  archive[Offset(members, k) + i] = IF i = 16 /\ Skew(k) = 0 THEN 0 ELSE Blank
    <3>1. Erased(k) BY <2>2 DEF AridInv
    <3>2. PICK x, m : x = Looked(k) /\ m = Skew(k) OBVIOUS
    <3>3. members \in Archives /\ Count \in Nat BY ArchiveFacts DEF AridInv
    <3>4. x \in Nat /\ m \in 0 .. 2 /\ Offset(members, k) = x + m
      <4>1. k \in 1 .. Count + 1 BY <3>3
      <4> QED BY <3>2, <3>3, <4>1, LookedFacts
    <3>5. i \in 16 .. 27 BY DEF ArDate
    <3>6. CASE m + i <= 27
      <4>1. m + i \in ArDate /\ Offset(members, k) + i = x + (m + i) /\ (m + i = 16 <=> i = 16 /\ m = 0)
        BY <3>4, <3>5, <3>6 DEF ArDate
      <4>2. archive[x + (m + i)] = IF m + i = 16 THEN 0 ELSE Blank BY <3>1, <3>2, <4>1 DEF Erased
      <4> QED BY <3>2, <4>1, <4>2
    <3>7. CASE ~(m + i <= 27)
      <4>1. i \in {26, 27} /\ i \in 0 .. 59 /\ i + m >= 28 /\ i # 16 BY <3>4, <3>5, <3>7
      <4>2. archive[Offset(members, k) + i] = ArHdr(members[k])[i] BY <3>2, <4>1, HeaderKept
      <4>3. ArHdr(members[k])[i] = Blank
        <5>1. members[k].head \in Heads /\ Size_(k) \in Nat /\ Quotients(Size_(k))[10] = 0
          BY <3>3, ArchiveFacts
        <5>2. i \in {26, 27, 46, 47} BY <4>1
        <5> QED BY <5>1, <5>2, HeaderFacts DEF Size_
      <4> QED BY <4>1, <4>2, <4>3
    <3> QED BY <3>6, <3>7
  <2> QED BY <2>1, <2>2 DEF Count
<1> QED BY <1>1, AridInitInv, AridInductive, PTL DEF AridSpec
-----------------------------------------------------------------------------
(* Lookup2: the key and nothing but the key.                               *)

\* Twelve octets at a time, and what is left.
LEMMA Twelves ==
  ASSUME NEW size \in Nat
  PROVE  /\ size \div 12 \in Nat /\ size % 12 \in 0 .. 11
         /\ size = 12 * (size \div 12) + (size % 12)
OBVIOUS

\* The octets of a word are those that it counts.
LEMMA OctetsAgree ==
  ASSUME NEW mem, NEW mem2, NEW p \in Nat, NEW n \in 0 .. 4,
         \A q \in p .. p + n - 1 : mem[q] = mem2[q]
  PROVE  Octets4(mem, p, n) = Octets4(mem2, p, n)
<1>1. \A i \in 0 .. 3 : i < n => mem[p + i] = mem2[p + i]
  <2>1. \A i \in 0 .. 3 : i < n => p + i \in p .. p + n - 1 OBVIOUS
  <2> QED BY <2>1
<1>2. /\ 0 < n => mem[p + 0] = mem2[p + 0]
      /\ 1 < n => mem[p + 1] = mem2[p + 1]
      /\ 2 < n => mem[p + 2] = mem2[p + 2]
      /\ 3 < n => mem[p + 3] = mem2[p + 3] BY <1>1
<1> QED BY <1>2 DEF Octets4

\* What two memories have in common is the same words in both.
LEMMA WordsAgree ==
  ASSUME NEW mem, NEW mem2, NEW k \in Nat, NEW n \in Nat,
         \A q \in k .. k + 4 * n - 1 : mem[q] = mem2[q]
  PROVE  Words4(mem, k, n) = Words4(mem2, k, n)
<1>1. ASSUME NEW w \in 1 .. n
      PROVE  Octets4(mem, k + 4 * (w - 1), 4) = Octets4(mem2, k + 4 * (w - 1), 4)
  <2>1. k + 4 * (w - 1) \in Nat OBVIOUS
  <2>2. \A q \in k + 4 * (w - 1) .. k + 4 * (w - 1) + 4 - 1 : q \in k .. k + 4 * n - 1 OBVIOUS
  <2> QED BY <2>1, <2>2, OctetsAgree
<1> QED BY <1>1 DEF Words4

\* The last octets are of the key, too.
LEMMA LastAgree ==
  ASSUME NEW mem, NEW mem2, NEW k \in Nat, NEW size \in Nat, NEW counted, NEW v,
         \A q \in k .. k + size - 1 : mem[q] = mem2[q]
  PROVE  LastOctets(mem, k, size, counted, v) = LastOctets(mem2, k, size, counted, v)
<1> DEFINE len == size % 12
           p   == k + size - len
<1>1. len \in 0 .. 11 /\ p \in Nat /\ k <= p /\ p + len = k + size BY Twelves
<1>2. /\ From(len, 0, 4) \in 0 .. 4 /\ From(len, 0, 4) <= len
      /\ From(len, 4, 4) \in 0 .. 4 /\ (From(len, 4, 4) = 0 \/ 4 + From(len, 4, 4) <= len)
      /\ From(len, 8, 3) \in 0 .. 4 /\ (From(len, 8, 3) = 0 \/ 8 + From(len, 8, 3) <= len)
  BY <1>1 DEF From
<1> HIDE DEF len, p
<1>3. \A q \in p .. p + From(len, 0, 4) - 1 : q \in k .. k + size - 1 BY <1>1, <1>2
<1>4. \A q \in p + 4 .. p + 4 + From(len, 4, 4) - 1 : q \in k .. k + size - 1 BY <1>1, <1>2
<1>5. \A q \in p + 8 .. p + 8 + From(len, 8, 3) - 1 : q \in k .. k + size - 1 BY <1>1, <1>2
<1>6. p + 4 \in Nat /\ p + 8 \in Nat BY <1>1
<1>7. Octets4(mem, p, From(len, 0, 4)) = Octets4(mem2, p, From(len, 0, 4))
  BY <1>1, <1>2, <1>3, OctetsAgree
<1>8. Octets4(mem, p + 4, From(len, 4, 4)) = Octets4(mem2, p + 4, From(len, 4, 4))
  BY <1>2, <1>4, <1>6, OctetsAgree
<1>9. Octets4(mem, p + 8, From(len, 8, 3)) = Octets4(mem2, p + 8, From(len, 8, 3))
  BY <1>2, <1>5, <1>6, OctetsAgree
<1> QED BY <1>7, <1>8, <1>9, Zenon DEF LastOctets, len, p

\* Whatever is around the key, and whatever length is counted.
LEMMA HashReadsTheKey ==
  ASSUME NEW mem, NEW mem2, NEW k \in Nat, NEW size \in Nat, NEW counted, NEW initval,
         \A q \in k .. k + size - 1 : mem[q] = mem2[q]
  PROVE  HashCounting(mem, k, size, counted, initval)
           = HashCounting(mem2, k, size, counted, initval)
<1> DEFINE n == size \div 12
           v == Blocks(Words4(mem, k, 3 * n), n, initval)
<1>1. n \in Nat /\ 3 * n \in Nat /\ 4 * (3 * n) <= size BY Twelves
<1> HIDE DEF n, v
<1>2. \A q \in k .. k + 4 * (3 * n) - 1 : q \in k .. k + size - 1 BY <1>1
<1>3. Words4(mem, k, 3 * n) = Words4(mem2, k, 3 * n)
  <2> DEFINE w == 3 * n
  <2>1. w \in Nat BY <1>1
  <2>2. \A q \in k .. k + 4 * w - 1 : mem[q] = mem2[q] BY <1>2
  <2> HIDE DEF w
  <2>3. Words4(mem, k, w) = Words4(mem2, k, w) BY ZenonT(30), <2>1, <2>2, WordsAgree
  <2> QED BY <2>3 DEF w
<1>4. LastOctets(mem, k, size, counted, v) = LastOctets(mem2, k, size, counted, v)
  BY LastAgree
<1> QED BY <1>3, <1>4, Zenon DEF HashCounting, n, v

\* An aligned word of four octets is what hash makes of the octets.
LEMMA LoadIsOctets ==
  ASSUME Digits = 2, NEW mem, NEW k \in Nat, NEW n \in Nat
  PROVE  Loaded(mem, k, n) = Words4(mem, k, n)
<1>1. ASSUME NEW p \in Nat PROVE Load_(mem, p) = Octets4(mem, p, 4)
  <2>1. Len(Zeros) = 2 BY DEF Zeros, Ub4
  <2>2. Load_(mem, p) = <<mem[p + 2 * (1 - 1)] + 256 * mem[p + 2 * (1 - 1) + 1],
                          mem[p + 2 * (2 - 1)] + 256 * mem[p + 2 * (2 - 1) + 1]>>
    BY <2>1, Zenon DEF Load_, Like
  <2>3. /\ p + 2 * (1 - 1) = p + 0 /\ p + 2 * (1 - 1) + 1 = p + 1
        /\ p + 2 * (2 - 1) = p + 2 /\ p + 2 * (2 - 1) + 1 = p + 3 OBVIOUS
  <2>4. Octets4(mem, p, 4) = <<mem[p + 0] + 256 * mem[p + 1], mem[p + 2] + 256 * mem[p + 3]>>
    BY DEF Octets4, Ub4
  <2> QED BY <2>2, <2>3, <2>4
<1>2. \A w \in 1 .. n : k + 4 * (w - 1) \in Nat OBVIOUS
<1> QED BY <1>1, <1>2 DEF Loaded, Words4

\* hash3 is hash, of any key at any place.
LEMMA Hash3IsHash ==
  ASSUME Digits = 2, NEW mem, NEW k \in Nat, NEW size \in Nat, NEW initval
  PROVE  Hash3(mem, k, size, initval) = Hash_(mem, k, size, initval)
<1> DEFINE n == size \div 12
<1>1. 3 * n \in Nat BY Twelves
<1>2. Loaded(mem, k, 3 * n) = Words4(mem, k, 3 * n) BY <1>1, LoadIsOctets
<1> QED BY <1>2, Zenon DEF Hash3, Hash_, HashCounting

-----------------------------------------------------------------------------
(* mix.                                                                    *)

\* A digit, and four bits of it.
IsDigit(d)  == d \in Nat /\ d < 65536
IsNibble(d) == d \in Nat /\ d < 16

\* A word has two digits.
LEMMA WordDigits ==
  ASSUME NEW x \in Word32
  PROVE  /\ x = <<x[1], x[2]>> /\ Len(x) = 2 /\ DOMAIN x = {1, 2}
         /\ IsDigit(x[1]) /\ IsDigit(x[2])
<1> DEFINE top == Base - 1
<1>1. top \in Int /\ \A d \in Nat : d <= top => IsDigit(d) BY DEF IsDigit, Base
<1> HIDE DEF top
<1>2. \A d \in 0 .. top : d \in Nat /\ d <= top BY <1>1
<1>3. x = <<x[1], x[2]>> /\ x[1] \in 0 .. top /\ x[2] \in 0 .. top BY DEF Word32, top
<1> QED BY <1>1, <1>2, <1>3

\* Two digits make a word.
LEMMA ToWord ==
  ASSUME NEW a, NEW b, IsDigit(a), IsDigit(b) PROVE <<a, b>> \in Word32
<1> DEFINE top == Base - 1
<1>1. top \in Int /\ 0 <= a /\ a <= top /\ 0 <= b /\ b <= top BY DEF IsDigit, Base
<1>2. a \in Int /\ b \in Int BY DEF IsDigit
<1> HIDE DEF top
<1>3. a \in 0 .. top /\ b \in 0 .. top BY <1>1, <1>2
<1> QED BY <1>3 DEF Word32, top

\* What is left of a sum or a difference, taken modulo the base, is a digit.
LEMMA DigitRange ==
  ASSUME NEW a, NEW b, IsDigit(a), IsDigit(b), NEW e \in {0, 1}
  PROVE  IsDigit((a + b + e) % 65536) /\ IsDigit((a - b - e) % 65536)
BY DEF IsDigit

\* Sums and differences are words whatever the operands' digits carry.
LEMMA PlusIsWord ==
  ASSUME NEW x \in Word32, NEW y \in Word32 PROVE Plus(x, y) \in Word32
<1>1. Len(x) = 2 BY WordDigits
<1>2. PICK e \in {0, 1}, f \in {0, 1} :
        Plus(x, y) = <<(x[1] + y[1] + e) % 65536, (x[2] + y[2] + f) % 65536>>
  BY <1>1 DEF Plus, Like, Base
<1>4. IsDigit((x[1] + y[1] + e) % 65536) /\ IsDigit((x[2] + y[2] + f) % 65536)
  BY WordDigits, DigitRange
<1> QED BY <1>2, <1>4, ToWord

\* And differences.
LEMMA MinusIsWord ==
  ASSUME NEW x \in Word32, NEW y \in Word32 PROVE Minus(x, y) \in Word32
<1>1. Len(x) = 2 BY WordDigits
<1>2. PICK e \in {0, 1}, f \in {0, 1} :
        Minus(x, y) = <<(x[1] - y[1] - e) % 65536, (x[2] - y[2] - f) % 65536>>
  BY <1>1 DEF Minus, Like, Base
<1>4. IsDigit((x[1] - y[1] - e) % 65536) /\ IsDigit((x[2] - y[2] - f) % 65536)
  BY WordDigits, DigitRange
<1> QED BY <1>2, <1>4, ToWord

\* What four bits have in common is in both of them.
LEMMA BitFacts ==
  ASSUME NEW p \in 0 .. 1, NEW q \in 0 .. 1, NEW n \in Nat
  PROVE  LET b == IF p = 1 /\ q = 1 THEN n ELSE 0
         IN  b \in Nat /\ b <= n * p /\ b <= n * q /\ n * p + n * q - b <= n
<1>1. p = 0 \/ p = 1 OBVIOUS
<1>2. q = 0 \/ q = 1 OBVIOUS
<1> QED BY <1>1, <1>2

\* b is what i and j have in common, and together they have no more than most.
InCommon(i, j, b, most) == b \in Nat /\ b <= i /\ b <= j /\ i + j - b <= most

\* What two nibbles have in common.
LEMMA NibbleFacts ==
  ASSUME NEW i, NEW j, IsNibble(i), IsNibble(j) PROVE InCommon(i, j, Nibbles[i][j], 15)
<1>0. i \in 0 .. 15 /\ j \in 0 .. 15 BY DEF IsNibble
<1> DEFINE p(n) == (i \div n) % 2
           q(n) == (j \div n) % 2
           b(n) == IF p(n) = 1 /\ q(n) = 1 THEN n ELSE 0
<1>1. Nibbles[i][j] = b(1) + b(2) + b(4) + b(8) BY <1>0 DEF Nibbles
<1>2. i = 1 * p(1) + 2 * p(2) + 4 * p(4) + 8 * p(8) BY <1>0
<1>3. j = 1 * q(1) + 2 * q(2) + 4 * q(4) + 8 * q(8) BY <1>0
<1>4. \A n \in {1, 2, 4, 8} : p(n) \in 0 .. 1 /\ q(n) \in 0 .. 1 BY <1>0
<1> HIDE DEF p, q
<1>5. \A n \in {1, 2, 4, 8} : InCommon(n * p(n), n * q(n), b(n), n)
  BY <1>4, BitFacts DEF InCommon
<1>6. \A n \in {1, 2, 4, 8} : n * p(n) \in Nat /\ n * q(n) \in Nat BY <1>4
<1> HIDE DEF b
<1>7. InCommon(1 * p(1) + 2 * p(2) + 4 * p(4) + 8 * p(8), 1 * q(1) + 2 * q(2) + 4 * q(4) + 8 * q(8),
               b(1) + b(2) + b(4) + b(8), 1 + 2 + 4 + 8)
  <2> DEFINE P(n) == n * p(n)
             Q(n) == n * q(n)
  <2>1. \A n \in {1, 2, 4, 8} : P(n) \in Nat /\ Q(n) \in Nat /\ InCommon(P(n), Q(n), b(n), n)
    BY <1>5, <1>6
  <2> HIDE DEF P, Q
  <2>2. InCommon(P(1) + P(2) + P(4) + P(8), Q(1) + Q(2) + Q(4) + Q(8),
                 b(1) + b(2) + b(4) + b(8), 1 + 2 + 4 + 8)
    <3>1. /\ P(1) \in Nat /\ Q(1) \in Nat /\ InCommon(P(1), Q(1), b(1), 1)
          /\ P(2) \in Nat /\ Q(2) \in Nat /\ InCommon(P(2), Q(2), b(2), 2)
          /\ P(4) \in Nat /\ Q(4) \in Nat /\ InCommon(P(4), Q(4), b(4), 4)
          /\ P(8) \in Nat /\ Q(8) \in Nat /\ InCommon(P(8), Q(8), b(8), 8) BY <2>1
    <3> QED BY <3>1 DEF InCommon
  <2> QED BY <2>2 DEF P, Q
<1>8. 1 + 2 + 4 + 8 = 15 OBVIOUS
<1> QED BY <1>1, <1>2, <1>3, <1>7, <1>8

\* A digit is made of four nibbles.
LEMMA DigitNibbles ==
  ASSUME NEW i, IsDigit(i)
  PROVE  /\ i = (i % 16) + 16 * ((i \div 16) % 16) + 256 * ((i \div 256) % 16) + 4096 * (i \div 4096)
         /\ IsNibble(i % 16) /\ IsNibble((i \div 16) % 16)
         /\ IsNibble((i \div 256) % 16) /\ IsNibble(i \div 4096)
BY DEF IsDigit, IsNibble

\* What two digits have in common.
LEMMA BothFacts ==
  ASSUME NEW i, NEW j, IsDigit(i), IsDigit(j) PROVE InCommon(i, j, Both(i, j), 65535)
<1> DEFINE i1 == i % 16  i2 == (i \div 16) % 16  i3 == (i \div 256) % 16  i4 == i \div 4096
           j1 == j % 16  j2 == (j \div 16) % 16  j3 == (j \div 256) % 16  j4 == j \div 4096
<1>1. /\ i = i1 + 16 * i2 + 256 * i3 + 4096 * i4
      /\ IsNibble(i1) /\ IsNibble(i2) /\ IsNibble(i3) /\ IsNibble(i4) BY DigitNibbles
<1>2. /\ j = j1 + 16 * j2 + 256 * j3 + 4096 * j4
      /\ IsNibble(j1) /\ IsNibble(j2) /\ IsNibble(j3) /\ IsNibble(j4) BY DigitNibbles
<1>3. Both(i, j) = Nibbles[i1][j1] + 16 * Nibbles[i2][j2] + 256 * Nibbles[i3][j3]
                     + 4096 * Nibbles[i4][j4]
  BY DEF Both
<1> HIDE DEF i1, i2, i3, i4, j1, j2, j3, j4
<1>4. /\ InCommon(i1, j1, Nibbles[i1][j1], 15) /\ InCommon(i2, j2, Nibbles[i2][j2], 15)
      /\ InCommon(i3, j3, Nibbles[i3][j3], 15) /\ InCommon(i4, j4, Nibbles[i4][j4], 15)
  BY <1>1, <1>2, NibbleFacts
<1>5. /\ i1 \in Nat /\ i2 \in Nat /\ i3 \in Nat /\ i4 \in Nat
      /\ j1 \in Nat /\ j2 \in Nat /\ j3 \in Nat /\ j4 \in Nat BY <1>1, <1>2 DEF IsNibble
<1>6. InCommon(i1 + 16 * i2 + 256 * i3 + 4096 * i4, j1 + 16 * j2 + 256 * j3 + 4096 * j4,
               Nibbles[i1][j1] + 16 * Nibbles[i2][j2] + 256 * Nibbles[i3][j3]
                 + 4096 * Nibbles[i4][j4], 65535)
  BY <1>4, <1>5 DEF InCommon
<1> QED BY <1>1, <1>2, <1>3, <1>6

\* The exclusive or of words is a word.
LEMMA EorIsWord ==
  ASSUME NEW x \in Word32, NEW y \in Word32 PROVE Eor(x, y) \in Word32
<1>1. Len(x) = 2 BY WordDigits
<1>2. Eor(x, y) = <<x[1] + y[1] - 2 * Both(x[1], y[1]), x[2] + y[2] - 2 * Both(x[2], y[2])>>
  BY <1>1 DEF Eor, Like
<1>3. ASSUME NEW i, NEW j, IsDigit(i), IsDigit(j) PROVE IsDigit(i + j - 2 * Both(i, j))
  BY <1>3, BothFacts DEF IsDigit, InCommon
<1>4. IsDigit(x[1] + y[1] - 2 * Both(x[1], y[1])) /\ IsDigit(x[2] + y[2] - 2 * Both(x[2], y[2]))
  BY <1>3, WordDigits
<1> QED BY <1>2, <1>4, ToWord

\* The shifts of mix.
LEMMA ShiftsAre ==
  /\ \A n \in 1 .. 9 : Shifts[n] \in {13, 12, 5, 3, 15, -8, -16, -10}
  /\ \A n \in 1 .. 9 : Shifts[n] > 0 <=> n \in {1, 3, 4, 6, 7, 9}
BY DEF Shifts

\* The powers of two that shifts divide and multiply by.
LEMMA Powers ==
  ASSUME NEW e, e \in {0, 3, 5, 8, 10, 12, 13, 15}
  PROVE  2^e \in {1, 8, 32, 256, 1024, 4096, 8192, 32768}
<1>1. CASE e = 0
  <2>1. 2^e = 2^0 BY <1>1, Zenon
  <2>2. 2^0 = 1 OBVIOUS
  <2> QED BY <2>1, <2>2
<1>2. CASE e = 3
  <2>1. 2^e = 2^3 BY <1>2, Zenon
  <2>2. 2^3 = 8 OBVIOUS
  <2> QED BY <2>1, <2>2
<1>3. CASE e = 5
  <2>1. 2^e = 2^5 BY <1>3, Zenon
  <2>2. 2^5 = 32 OBVIOUS
  <2> QED BY <2>1, <2>2
<1>4. CASE e = 8
  <2>1. 2^e = 2^8 BY <1>4, Zenon
  <2>2. 2^8 = 256 OBVIOUS
  <2> QED BY <2>1, <2>2
<1>5. CASE e = 10
  <2>1. 2^e = 2^10 BY <1>5, Zenon
  <2>2. 2^10 = 1024 OBVIOUS
  <2> QED BY <2>1, <2>2
<1>6. CASE e = 12
  <2>1. 2^e = 2^12 BY <1>6, Zenon
  <2>2. 2^12 = 4096 OBVIOUS
  <2> QED BY <2>1, <2>2
<1>7. CASE e = 13
  <2>1. 2^e = 2^13 BY <1>7, Zenon
  <2>2. 2^13 = 8192 OBVIOUS
  <2> QED BY <2>1, <2>2
<1>8. CASE e = 15
  <2>1. 2^e = 2^15 BY <1>8, Zenon
  <2>2. 2^15 = 32768 OBVIOUS
  <2> QED BY <2>1, <2>2
<1> QED BY <1>1, <1>2, <1>3, <1>4, <1>5, <1>6, <1>7, <1>8

\* The digits of a shifted word are digits, too.
LEMMA ShiftedDigit ==
  ASSUME NEW a, NEW b, IsDigit(a), IsDigit(b),
         NEW r \in {1, 8, 32, 256, 1024, 4096, 8192, 32768}
  PROVE  /\ IsDigit((a \div r) + (b % r) * (65536 \div r))
         /\ IsDigit((a % (65536 \div r)) * r + (b \div (65536 \div r)))
<1>1. CASE r = 1 BY <1>1 DEF IsDigit
<1>2. CASE r = 8 BY <1>2 DEF IsDigit
<1>3. CASE r = 32 BY <1>3 DEF IsDigit
<1>4. CASE r = 256 BY <1>4 DEF IsDigit
<1>5. CASE r = 1024 BY <1>5 DEF IsDigit
<1>6. CASE r = 4096 BY <1>6 DEF IsDigit
<1>7. CASE r = 8192 BY <1>7 DEF IsDigit
<1>8. CASE r = 32768 BY <1>8 DEF IsDigit
<1> QED BY <1>1, <1>2, <1>3, <1>4, <1>5, <1>6, <1>7, <1>8

\* What is outside of a word is zero.
LEMMA DigitIsDigit == ASSUME NEW x \in Word32, NEW i PROVE IsDigit(Digit(x, i))
BY WordDigits DEF Digit, IsDigit

\* A word that mix shifts is a word.
LEMMA ShiftIsWord ==
  ASSUME NEW x \in Word32, NEW n \in 1 .. 9 PROVE Shift(x, Shifts[n]) \in Word32
<1>0. Len(x) = 2 BY WordDigits
<1> DEFINE s == Shifts[n]
           rs == {1, 8, 32, 256, 1024, 4096, 8192, 32768}
<1>1. s \in {13, 12, 5, 3, 15, -8, -16, -10} BY ShiftsAre
<1> HIDE DEF s
<1>2. CASE s > 0
  <2> DEFINE r == 2^(s % 16)
             d(k) == (Digit(x, k + s \div 16) \div r)
                       + (Digit(x, k + 1 + s \div 16) % r) * (65536 \div r)
  <2>1. s \in {13, 12, 5, 3, 15} BY <1>1, <1>2
  <2>2. s % 16 \in {13, 12, 5, 3, 15} BY <2>1
  <2>3. r \in rs BY <2>2, Powers
  <2>4. Right(x, s) = <<d(1), d(2)>> BY <1>0 DEF Right, Like, Base
  <2> HIDE DEF r
  <2>5. IsDigit(d(1)) /\ IsDigit(d(2)) BY <2>3, DigitIsDigit, ShiftedDigit
  <2> HIDE DEF d
  <2>6. Shift(x, s) = Right(x, s) BY <1>2 DEF Shift
  <2> QED BY <2>4, <2>5, <2>6, ToWord DEF s
<1>3. CASE ~(s > 0)
  <2> DEFINE t == -s
             r == 2^(t % 16)
             d(k) == (Digit(x, k - t \div 16) % (65536 \div r)) * r
                       + (Digit(x, k - 1 - t \div 16) \div (65536 \div r))
  <2>1. t \in {8, 16, 10} BY <1>1, <1>3
  <2> HIDE DEF t
  <2>2. t % 16 \in {8, 0, 10} BY <2>1
  <2>3. r \in rs BY <2>2, Powers
  <2>4. Left(x, t) = <<d(1), d(2)>> BY <1>0 DEF Left, Like, Base
  <2> HIDE DEF r
  <2>5. IsDigit(d(1)) /\ IsDigit(d(2)) BY <2>3, DigitIsDigit, ShiftedDigit
  <2> HIDE DEF d
  <2>6. Shift(x, s) = Left(x, t) BY <1>3 DEF Shift, t
  <2> QED BY <2>4, <2>5, <2>6, ToWord DEF s
<1> QED BY <1>2, <1>3

\* What a step of mix does to words of four octets.
LEMMA MixStepWords ==
  ASSUME NEW v, v[1] \in Word32, v[2] \in Word32, v[3] \in Word32, NEW n \in 1 .. 9,
         NEW shifted, NEW mixed
  PROVE  LET m == Eor(Minus(Minus(v[1], v[2]), v[3]), Shift(v[3], Shifts[n]))
         IN  m \in Word32 /\ MixStep(v, n, shifted, mixed) = <<v[2], v[3], m>>
<1> DEFINE m == Eor(Minus(Minus(v[1], v[2]), v[3]), Shift(v[3], Shifts[n]))
<1>1. Minus(Minus(v[1], v[2]), v[3]) \in Word32 BY MinusIsWord
<1>2. m \in Word32 BY <1>1, ShiftIsWord, EorIsWord
<1>3. ASSUME NEW x \in Word32, NEW mask PROVE Masked(x, mask) = x
  <2>1. Len(x) = 2 BY WordDigits
  <2> QED BY <2>1 DEF Masked
<1> HIDE DEF m
<1>4. MixStep(v, n, shifted, mixed) = <<v[2], v[3], m>> BY <1>2, <1>3, Zenon DEF MixStep, m
<1> QED BY <1>2, <1>4 DEF m

\* The steps of mix, up to the k-th.
MixedTo(v, shifted, mixed, k, g) ==
  g = [n \in 0 .. k |-> IF n = 0 THEN v ELSE MixStep(g[n - 1], n, shifted, mixed)]

\* There is such a function, however many steps.
LEMMA MixesExist ==
  ASSUME NEW v, NEW shifted, NEW mixed
  PROVE  \A k \in Nat : \E g : MixedTo(v, shifted, mixed, k, g)
<1> DEFINE S == {k \in Nat : \E g : MixedTo(v, shifted, mixed, k, g)}
<1>1. 0 \in S
  <2>1. MixedTo(v, shifted, mixed, 0, [n \in 0 .. 0 |-> v]) BY DEF MixedTo
  <2> QED BY <2>1
<1>2. ASSUME NEW k \in Nat, k \in S PROVE k + 1 \in S
  <2>1. PICK g : MixedTo(v, shifted, mixed, k, g) BY <1>2
  <2> DEFINE h == [n \in 0 .. k + 1 |-> IF n = 0 THEN v ELSE MixStep(g[n - 1], n, shifted, mixed)]
  <2>2. \A n \in 0 .. k : h[n] = g[n] BY <2>1 DEF MixedTo
  <2> HIDE DEF h
  <2>3. \A n \in 0 .. k + 1 : n = 0 \/ n - 1 \in 0 .. k OBVIOUS
  <2>4. \A n \in 0 .. k + 1 : n = 0 \/ g[n - 1] = h[n - 1] BY <2>2, <2>3
  <2>5. MixedTo(v, shifted, mixed, k + 1, h) BY <2>4, Zenon DEF MixedTo, h
  <2> QED BY <2>5
<1> HIDE DEF S
<1>3. \A k \in Nat : k \in S BY <1>1, <1>2, Induction
<1> QED BY <1>3 DEF S

\* mix and mix2 go through nine steps.
LEMMA MixSteps ==
  ASSUME NEW v, NEW shifted, NEW mixed
  PROVE  \E g : /\ MixMasking(v, shifted, mixed) = g[9] /\ g[0] = v
                /\ \A n \in 1 .. 9 : g[n] = MixStep(g[n - 1], n, shifted, mixed)
<1> DEFINE g == CHOOSE g : MixedTo(v, shifted, mixed, 9, g)
<1>1. MixedTo(v, shifted, mixed, 9, g) BY MixesExist
<1>2. MixMasking(v, shifted, mixed) = g[9] BY Zenon DEF MixMasking, MixedTo
<1> HIDE DEF g
<1>3. g[0] = v BY <1>1 DEF MixedTo
<1>4. \A n \in 1 .. 9 : g[n] = MixStep(g[n - 1], n, shifted, mixed) BY <1>1 DEF MixedTo
<1> QED BY <1>2, <1>3, <1>4

\* mix keeps words of four octets, whatever it masks.
LEMMA MixWords ==
  ASSUME NEW v, v[1] \in Word32, v[2] \in Word32, v[3] \in Word32, NEW shifted, NEW mixed
  PROVE  MixMasking(v, shifted, mixed) \in Word32s
<1>1. PICK g : /\ MixMasking(v, shifted, mixed) = g[9] /\ g[0] = v
               /\ \A n \in 1 .. 9 : g[n] = MixStep(g[n - 1], n, shifted, mixed)
  BY MixSteps
<1> DEFINE Words_(m) == m[1] \in Word32 /\ m[2] \in Word32 /\ m[3] \in Word32
<1>2. ASSUME NEW n \in 1 .. 9, Words_(g[n - 1]) PROVE g[n] \in Word32s /\ Words_(g[n])
  <2>1. \E m \in Word32 : g[n] = <<g[n - 1][2], g[n - 1][3], m>> BY <1>1, <1>2, MixStepWords
  <2> QED BY <1>2, <2>1 DEF Word32s
<1> DEFINE S == {n \in Nat : n <= 9 => Words_(g[n])}
<1>3. 0 \in S BY <1>1
<1>4. ASSUME NEW n \in Nat, n \in S PROVE n + 1 \in S
  <2>1. CASE n + 1 <= 9
    <3>1. n + 1 \in 1 .. 9 /\ (n + 1) - 1 = n /\ Words_(g[n]) BY <1>4, <2>1
    <3>2. Words_(g[n + 1]) BY <1>2, <3>1
    <3> QED BY <3>2
  <2>2. CASE ~(n + 1 <= 9) BY <2>2
  <2> QED BY <2>1, <2>2
<1> HIDE DEF S
<1>5. 8 \in S BY <1>3, <1>4, Induction
<1>6. Words_(g[9 - 1]) BY <1>5 DEF S
<1>7. g[9] \in Word32s BY <1>2, <1>6
<1> QED BY <1>1, <1>7

(* mix2 on words of eight octets.                                          *)

\* The digits that words of four octets have, and words of eight octets.
Lower(x) == <<x[1], x[2]>>
Eight(x) == x = <<x[1], x[2], x[3], x[4]>> /\ Len(x) = 4 /\ DOMAIN x = 1 .. 4

\* Four digits make a word of eight octets.
LEMMA TupleIsEight == ASSUME NEW a, NEW b, NEW c, NEW d PROVE Eight(<<a, b, c, d>>)
BY DEF Eight

\* The low digits of a difference are the difference of the low digits.
LEMMA LowMinus ==
  ASSUME NEW x, NEW y, Eight(x) PROVE Eight(Minus(x, y)) /\ Lower(Minus(x, y)) = Minus(Lower(x), Lower(y))
<1> DEFINE c(a, b, k) == \E j \in 1 .. k - 1 : a[j] < b[j] /\ \A l \in j + 1 .. k - 1 : a[l] <= b[l]
           d(a, b, k) == (a[k] - b[k] - (IF c(a, b, k) THEN 1 ELSE 0)) % Base
<1>1. Len(x) = 4 BY DEF Eight
<1>2. Minus(x, y) = <<d(x, y, 1), d(x, y, 2), d(x, y, 3), d(x, y, 4)>> BY <1>1 DEF Minus, Like
<1>3. Len(Lower(x)) = 2 BY DEF Lower
<1>4. Minus(Lower(x), Lower(y)) = <<d(Lower(x), Lower(y), 1), d(Lower(x), Lower(y), 2)>>
  BY <1>3 DEF Minus, Like
<1>5. \A k \in {1, 2} : Lower(x)[k] = x[k] /\ Lower(y)[k] = y[k] BY DEF Lower
<1>6. c(x, y, 1) <=> c(Lower(x), Lower(y), 1) OBVIOUS
<1>7. c(x, y, 2) <=> c(Lower(x), Lower(y), 2)
  <2>1. \A j \in 1 .. 2 - 1 : j = 1 /\ j + 1 = 2 OBVIOUS
  <2>2. \A l \in 2 .. 2 - 1 : FALSE OBVIOUS
  <2>3. c(x, y, 2) <=> x[1] < y[1] BY <2>1, <2>2
  <2>4. c(Lower(x), Lower(y), 2) <=> Lower(x)[1] < Lower(y)[1] BY <2>1, <2>2
  <2> QED BY <1>5, <2>3, <2>4
<1> HIDE DEF c
<1>8. d(x, y, 1) = d(Lower(x), Lower(y), 1) /\ d(x, y, 2) = d(Lower(x), Lower(y), 2) BY <1>5, <1>6, <1>7
<1> HIDE DEF d
<1>9. Lower(Minus(x, y)) = <<d(x, y, 1), d(x, y, 2)>> BY <1>2 DEF Lower
<1> QED BY <1>2, <1>4, <1>8, <1>9, TupleIsEight

\* So they are for the exclusive or.
LEMMA LowEor ==
  ASSUME NEW x, NEW y, Eight(x) PROVE Eight(Eor(x, y)) /\ Lower(Eor(x, y)) = Eor(Lower(x), Lower(y))
<1> DEFINE d(a, b, k) == a[k] + b[k] - 2 * Both(a[k], b[k])
<1>1. Len(x) = 4 BY DEF Eight
<1>2. Eor(x, y) = <<d(x, y, 1), d(x, y, 2), d(x, y, 3), d(x, y, 4)>> BY <1>1 DEF Eor, Like
<1>3. Len(Lower(x)) = 2 BY DEF Lower
<1>4. Eor(Lower(x), Lower(y)) = <<d(Lower(x), Lower(y), 1), d(Lower(x), Lower(y), 2)>>
  BY <1>3 DEF Eor, Like
<1>5. \A k \in {1, 2} : Lower(x)[k] = x[k] /\ Lower(y)[k] = y[k] BY DEF Lower
<1>8. d(x, y, 1) = d(Lower(x), Lower(y), 1) /\ d(x, y, 2) = d(Lower(x), Lower(y), 2) BY <1>5
<1> HIDE DEF d
<1>9. Lower(Eor(x, y)) = <<d(x, y, 1), d(x, y, 2)>> BY <1>2 DEF Lower
<1> QED BY <1>2, <1>4, <1>8, <1>9, TupleIsEight

\* What is shifted in from above comes from the third digit.
LEMMA LowShift ==
  ASSUME NEW x, Eight(x), NEW n \in 1 .. 9, n \in {1, 3, 4, 6, 7, 9} => x[3] = 0
  PROVE  /\ Eight(Shift(x, Shifts[n]))
         /\ Lower(Shift(x, Shifts[n])) = Shift(Lower(x), Shifts[n])
<1> DEFINE s == Shifts[n]
<1>0. Len(x) = 4 /\ DOMAIN x = 1 .. 4 BY DEF Eight
<1>1. s \in {13, 12, 5, 3, 15, -8, -16, -10} /\ (s > 0 => x[3] = 0) BY ShiftsAre
<1> HIDE DEF s
<1>2. Len(Lower(x)) = 2 /\ DOMAIN Lower(x) = 1 .. 2 /\ Lower(x)[1] = x[1] /\ Lower(x)[2] = x[2] BY DEF Lower
<1>3. \A i \in Int : i <= 2 => Digit(Lower(x), i) = Digit(x, i) BY <1>0, <1>2 DEF Digit
<1>4. CASE s > 0
  <2> DEFINE r == 2^(s % 16)
             q == Base \div r
             d(a, k) == (Digit(a, k + s \div 16) \div r) + (Digit(a, k + 1 + s \div 16) % r) * q
  <2>1. s \in {13, 12, 5, 3, 15} BY <1>1, <1>4
  <2>2. s \div 16 = 0 BY <2>1
  <2>3. Right(x, s) = <<d(x, 1), d(x, 2), d(x, 3), d(x, 4)>> BY <1>0 DEF Right, Like
  <2>4. Right(Lower(x), s) = <<d(Lower(x), 1), d(Lower(x), 2)>> BY <1>2 DEF Right, Like
  <2> HIDE DEF r, q
  <2>5. Digit(Lower(x), 3) = Digit(x, 3) BY <1>0, <1>1, <1>2, <1>4 DEF Digit
  <2>6. d(Lower(x), 1) = d(x, 1) /\ d(Lower(x), 2) = d(x, 2)
    <3>1. 1 + s \div 16 = 1 /\ 1 + 1 + s \div 16 = 2 /\ 2 + s \div 16 = 2 /\ 2 + 1 + s \div 16 = 3
      BY <2>2
    <3>2. Digit(Lower(x), 1) = Digit(x, 1) /\ Digit(Lower(x), 2) = Digit(x, 2) BY <1>3
    <3> QED BY <2>5, <3>1, <3>2
  <2> HIDE DEF d
  <2>7. Lower(Right(x, s)) = <<d(x, 1), d(x, 2)>> BY <2>3 DEF Lower
  <2>8. Shift(x, s) = Right(x, s) /\ Shift(Lower(x), s) = Right(Lower(x), s) BY <1>4 DEF Shift
  <2> QED BY <2>3, <2>4, <2>6, <2>7, <2>8, TupleIsEight DEF s
<1>5. CASE ~(s > 0)
  <2> DEFINE t == -s
             r == 2^(t % 16)
             q == Base \div r
             d(a, k) == (Digit(a, k - t \div 16) % q) * r + (Digit(a, k - 1 - t \div 16) \div q)
  <2>1. t \in {8, 16, 10} BY <1>1, <1>5
  <2> HIDE DEF t
  <2>2. t \div 16 \in {0, 1} BY <2>1
  <2>3. Left(x, t) = <<d(x, 1), d(x, 2), d(x, 3), d(x, 4)>> BY <1>0 DEF Left, Like
  <2>4. Left(Lower(x), t) = <<d(Lower(x), 1), d(Lower(x), 2)>> BY <1>2 DEF Left, Like
  <2> HIDE DEF r, q
  <2>6. d(Lower(x), 1) = d(x, 1) /\ d(Lower(x), 2) = d(x, 2)
    <3>1. \A k \in {1, 2} : /\ k - t \div 16 \in Int /\ k - t \div 16 <= 2
                            /\ k - 1 - t \div 16 \in Int /\ k - 1 - t \div 16 <= 2
      BY <2>2
    <3>2. \A k \in {1, 2} : /\ Digit(Lower(x), k - t \div 16) = Digit(x, k - t \div 16)
                            /\ Digit(Lower(x), k - 1 - t \div 16) = Digit(x, k - 1 - t \div 16)
      BY <1>3, <3>1
    <3> QED BY <3>2
  <2> HIDE DEF d
  <2>7. Lower(Left(x, t)) = <<d(x, 1), d(x, 2)>> BY <2>3 DEF Lower
  <2>8. Shift(x, s) = Left(x, t) /\ Shift(Lower(x), s) = Left(Lower(x), t) BY <1>5 DEF Shift, t
  <2> QED BY <2>3, <2>4, <2>6, <2>7, <2>8, TupleIsEight DEF s
<1> QED BY <1>4, <1>5

\* u, of words of eight octets, after n steps of mix2, and v, of four, after n of mix.
Alike(u, v, n) ==
  /\ \A i \in 1 .. 3 : Eight(u[i]) /\ Lower(u[i]) = v[i]
  /\ n \in {0, 5, 6, 7, 8, 9} => u[3][3] = 0

\* A mask leaves the low digits alone, and clears the third.
LEMMA LowMasked ==
  ASSUME NEW x, Eight(x), NEW n, NEW masked
  PROVE  /\ Eight(Masked(x, n \in masked)) /\ Lower(Masked(x, n \in masked)) = Lower(x)
         /\ n \in masked => Masked(x, n \in masked)[3] = 0
<1>1. Len(x) > 2 BY DEF Eight
<1>2. CASE n \in masked
  <2>1. Masked(x, n \in masked) = <<x[1], x[2], 0, 0>> BY <1>1, <1>2 DEF Masked
  <2> QED BY <2>1, TupleIsEight DEF Lower
<1>3. CASE n \notin masked BY <1>3 DEF Masked
<1> QED BY <1>2, <1>3

\* A step of mix2 is a step of mix.
LEMMA StepsAlike ==
  ASSUME NEW u, NEW v, NEW n \in 1 .. 9, Alike(u, v, n - 1)
  PROVE  Alike(MixStep(u, n, {3, 4}, 5 .. 9), MixStep(v, n, {}, {}), n)
<1> DEFINE x == Minus(Minus(u[1], u[2]), u[3])
           y == Masked(u[3], n \in {3, 4})
           z == Shift(y, Shifts[n])
           e == Eor(x, z)
           late == 5 .. 9
           m == Masked(e, n \in late)
           m0 == Eor(Minus(Minus(v[1], v[2]), v[3]), Shift(v[3], Shifts[n]))
<1>1. /\ Eight(u[1]) /\ Lower(u[1]) = v[1] /\ Eight(u[2]) /\ Lower(u[2]) = v[2]
      /\ Eight(u[3]) /\ Lower(u[3]) = v[3] BY DEF Alike
<1>2. Eight(x) /\ Lower(x) = Minus(Minus(v[1], v[2]), v[3]) BY <1>1, LowMinus
<1>3. Eight(y) /\ Lower(y) = v[3] /\ (n \in {3, 4} => y[3] = 0)
  <2> DEFINE early == {3, 4}
             z3 == Masked(u[3], n \in early)
  <2> HIDE DEF early
  <2>1. Eight(z3) /\ Lower(z3) = Lower(u[3]) /\ (n \in early => z3[3] = 0) BY <1>1, LowMasked
  <2> QED BY <1>1, <2>1 DEF early
<1>4. n \in {1, 6, 7, 9} => y[3] = 0
  <2>1. n \in {1, 6, 7, 9} => n - 1 \in {0, 5, 6, 7, 8, 9} OBVIOUS
  <2>2. n \in {1, 6, 7, 9} => u[3][3] = 0 BY <2>1 DEF Alike
  <2>3. n \notin {3, 4} => y = u[3] BY DEF Masked
  <2> QED BY <2>2, <2>3
<1> HIDE DEF x, y
<1>5. n \in {1, 3, 4, 6, 7, 9} => y[3] = 0 BY <1>3, <1>4
<1>6. Eight(z) /\ Lower(z) = Shift(v[3], Shifts[n]) BY <1>3, <1>5, LowShift
<1> HIDE DEF z
<1>7. Eight(e) /\ Lower(e) = m0 BY <1>2, <1>6, LowEor
<1> HIDE DEF e, m0
<1> HIDE DEF late
<1>8. Eight(m) /\ Lower(m) = m0 /\ (n \in late => m[3] = 0) BY <1>7, LowMasked
<1>9. MixStep(u, n, {3, 4}, 5 .. 9) = <<u[2], u[3], m>> BY Zenon DEF MixStep, x, y, z, e, m, late
<1>10. MixStep(v, n, {}, {}) = <<v[2], v[3], m0>>
  <2>1. \A w : Masked(w, n \in {}) = w BY DEF Masked
  <2>2. MixStep(v, n, {}, {})
          = <<v[2], v[3], Masked(Eor(Minus(Minus(v[1], v[2]), v[3]),
                                     Shift(Masked(v[3], n \in {}), Shifts[n])), n \in {})>>
    BY Zenon DEF MixStep
  <2> QED BY <2>1, <2>2, Zenon DEF m0
<1> HIDE DEF m
<1>11. n \in {0, 5, 6, 7, 8, 9} => n \in late BY DEF late
<1> QED BY <1>1, <1>8, <1>9, <1>10, <1>11 DEF Alike

\* What the comment says of mix2: it is mix, on hosts whose ub4 has eight octets.
LEMMA Mix2IsMix ==
  ASSUME NEW v, NEW wide, \A i \in 1 .. 3 : wide[i] = <<v[i][1], v[i][2], 0, 0>> /\ v[i] = Lower(v[i])
  PROVE  \A i \in 1 .. 3 : SubSeq(Mix2(wide)[i], 1, 2) = Mix(v)[i]
<1>1. PICK g : /\ Mix2(wide) = g[9] /\ g[0] = wide
               /\ \A n \in 1 .. 9 : g[n] = MixStep(g[n - 1], n, {3, 4}, 5 .. 9)
  BY MixSteps DEF Mix2
<1>2. PICK h : /\ Mix(v) = h[9] /\ h[0] = v
               /\ \A n \in 1 .. 9 : h[n] = MixStep(h[n - 1], n, {}, {})
  BY MixSteps DEF Mix
<1> DEFINE S == {n \in Nat : n <= 9 => Alike(g[n], h[n], n)}
<1>3. 0 \in S
  <2>1. \A i \in 1 .. 3 : Eight(wide[i]) /\ Lower(wide[i]) = v[i]
    <3> TAKE i \in 1 .. 3
    <3>1. wide[i] = <<v[i][1], v[i][2], 0, 0>> /\ v[i] = Lower(v[i]) OBVIOUS
    <3>2. Lower(wide[i]) = <<v[i][1], v[i][2]>> BY <3>1 DEF Lower
    <3> QED BY <3>1, <3>2, TupleIsEight DEF Lower
  <2>2. wide[3][3] = 0
    <3>1. wide[3] = <<v[3][1], v[3][2], 0, 0>> OBVIOUS
    <3> QED BY <3>1
  <2>3. Alike(g[0], h[0], 0) BY <1>1, <1>2, <2>1, <2>2 DEF Alike
  <2> QED BY <2>3
<1>4. ASSUME NEW n \in Nat, n \in S PROVE n + 1 \in S
  <2>1. CASE n + 1 <= 9
    <3>1. n + 1 \in 1 .. 9 /\ (n + 1) - 1 = n /\ Alike(g[n], h[n], n) BY <1>4, <2>1
    <3>2. Alike(g[n + 1], h[n + 1], n + 1) BY <1>1, <1>2, <3>1, StepsAlike
    <3> QED BY <3>2
  <2>2. CASE ~(n + 1 <= 9) BY <2>2
  <2> QED BY <2>1, <2>2
<1> HIDE DEF S
<1>5. 9 \in S BY <1>3, <1>4, Induction
<1>6. Alike(g[9], h[9], 9) BY <1>5 DEF S
<1>7. \A i \in 1 .. 3 : Eight(Mix2(wide)[i]) /\ Lower(Mix2(wide)[i]) = Mix(v)[i]
  BY <1>1, <1>2, <1>6 DEF Alike
<1>8. ASSUME NEW x, Eight(x) PROVE SubSeq(x, 1, 2) = Lower(x)
  <2> DEFINE Q == {x[1], x[2]}
             t == SubSeq(x, 1, 2)
  <2>1. \A i \in 1 .. 2 : x[i] \in Q OBVIOUS
  <2> HIDE DEF Q
  <2>2. t \in Seq(Q) /\ Len(t) = 2 /\ \A i \in 1 .. 2 : t[i] = x[i]
    BY <2>1, SubSeqProperties
  <2> HIDE DEF t
  <2>3. t[1] = x[1] /\ t[2] = x[2] BY <2>2
  <2>4. t = <<t[1], t[2]>> BY <2>2
  <2> QED BY <2>3, <2>4 DEF Lower, t
<1> QED BY <1>7, <1>8

(* hash2.                                                                  *)

\* The blocks, up to the m-th.
BlocksTo(words, initval, m, g) ==
  g = [i \in 0 .. m |-> IF i = 0 THEN <<Golden, Golden, initval>>
                        ELSE Mix(AddTo(g[i - 1], [j \in 1 .. 3 |-> words[3 * (i - 1) + j]]))]

\* There is such a function, however many blocks.
LEMMA BlocksExist ==
  ASSUME NEW words, NEW initval PROVE \A m \in Nat : \E g : BlocksTo(words, initval, m, g)
<1> DEFINE S == {m \in Nat : \E g : BlocksTo(words, initval, m, g)}
           Of(g, i) == IF i = 0 THEN <<Golden, Golden, initval>>
                       ELSE Mix(AddTo(g[i - 1], [j \in 1 .. 3 |-> words[3 * (i - 1) + j]]))
<1>1. 0 \in S
  <2>1. BlocksTo(words, initval, 0, [i \in 0 .. 0 |-> <<Golden, Golden, initval>>]) BY DEF BlocksTo
  <2> QED BY <2>1
<1>2. ASSUME NEW m \in Nat, m \in S PROVE m + 1 \in S
  <2>1. PICK g : BlocksTo(words, initval, m, g) BY <1>2
  <2> DEFINE h == [i \in 0 .. m + 1 |-> Of(g, i)]
  <2>2. \A i \in 0 .. m : h[i] = g[i]
    <3>1. g = [i \in 0 .. m |-> Of(g, i)] BY <2>1 DEF BlocksTo
    <3> HIDE DEF Of
    <3> QED BY <3>1
  <2>3. \A i \in 0 .. m + 1 : i = 0 \/ i - 1 \in 0 .. m OBVIOUS
  <2> HIDE DEF h
  <2>4. \A i \in 0 .. m + 1 : i = 0 \/ g[i - 1] = h[i - 1] BY <2>2, <2>3
  <2>5. \A i \in 0 .. m + 1 : Of(g, i) = Of(h, i) BY <2>4
  <2>6. h = [i \in 0 .. m + 1 |-> Of(h, i)]
    <3>1. h = [i \in 0 .. m + 1 |-> Of(g, i)] BY DEF h
    <3> HIDE DEF Of
    <3> QED BY <2>5, <3>1
  <2>7. BlocksTo(words, initval, m + 1, h) BY <2>6 DEF BlocksTo
  <2> QED BY <2>7
<1> HIDE DEF S
<1>3. \A m \in Nat : m \in S BY <1>1, <1>2, Induction
<1> QED BY <1>3 DEF S

\* What the hashes start with.
LEMMA Constants_ ==
  ASSUME Digits = 2
  PROVE  /\ Golden \in Word32 /\ Zeros = <<0, 0>> /\ Zeros \in Word32
         /\ \A n \in Nat : n < 65536 => OfInt(n) = <<n, 0>> /\ OfInt(n) \in Word32
<1>1. Golden \in Word32
  <2>1. IsDigit(\h79b9) /\ IsDigit(\h9e37) BY DEF IsDigit
  <2> QED BY <2>1, ToWord DEF Golden, Ub4
<1>2. Zeros = <<0, 0>> BY DEF Zeros, Ub4
<1>3. IsDigit(0) BY DEF IsDigit
<1>4. ASSUME NEW n \in Nat, n < 65536 PROVE OfInt(n) = <<n, 0>> /\ OfInt(n) \in Word32
  <2>1. OfInt(n) = <<n, 0>> BY DEF OfInt, Ub4
  <2>2. IsDigit(n) BY <1>4 DEF IsDigit
  <2> QED BY <1>3, <2>1, <2>2, ToWord
<1> QED BY <1>1, <1>2, <1>3, <1>4, ToWord

\* Blocks of words of four octets are hashed to such words.
LEMMA BlocksWords ==
  ASSUME Digits = 2, NEW words, NEW n \in Nat, NEW initval \in Word32,
         \A w \in 1 .. 3 * n : words[w] \in Word32
  PROVE  Blocks(words, n, initval) \in Word32s
<1> DEFINE g == CHOOSE g : BlocksTo(words, initval, n, g)
<1>1. BlocksTo(words, initval, n, g) BY BlocksExist
<1>2. Blocks(words, n, initval) = g[n] BY Zenon DEF Blocks, BlocksTo
<1> HIDE DEF g
<1> DEFINE S == {m \in Nat : m <= n => g[m] \in Word32s}
<1>3. 0 \in S
  <2>1. g[0] = <<Golden, Golden, initval>> BY <1>1 DEF BlocksTo
  <2>2. Golden \in Word32 BY Constants_
  <2>3. g[0] \in Word32s BY <2>1, <2>2 DEF Word32s
  <2> QED BY <2>3
<1>4. ASSUME NEW m \in Nat, m \in S, m + 1 <= n PROVE g[m + 1] \in Word32s
  <2> DEFINE w == [j \in 1 .. 3 |-> words[3 * ((m + 1) - 1) + j]]
             a == AddTo(g[m], w)
  <2>1. g[m + 1] = Mix(a)
    <3>1. m + 1 \in 0 .. n /\ m + 1 # 0 /\ (m + 1) - 1 = m BY <1>4
    <3> QED BY <1>1, <3>1 DEF BlocksTo
  <2>2. g[m] \in Word32s BY <1>4
  <2>3. g[m][1] \in Word32 /\ g[m][2] \in Word32 /\ g[m][3] \in Word32 BY <2>2 DEF Word32s
  <2>4. \A j \in 1 .. 3 : 3 * ((m + 1) - 1) + j \in 1 .. 3 * n BY <1>4
  <2>5. w[1] \in Word32 /\ w[2] \in Word32 /\ w[3] \in Word32 BY <2>4
  <2> HIDE DEF w
  <2>6. a[1] \in Word32 /\ a[2] \in Word32 /\ a[3] \in Word32 BY <2>3, <2>5, PlusIsWord DEF AddTo
  <2> HIDE DEF a
  <2> QED BY <2>1, <2>6, MixWords DEF Mix
<1>5. \A m \in Nat : m \in S => m + 1 \in S BY <1>4
<1> HIDE DEF S
<1>6. n \in S BY <1>3, <1>5, Induction
<1> QED BY <1>2, <1>6 DEF S

\* x is at p, its octets one after the other.
IsAt(mem, p, x) == mem[p] + 256 * mem[p + 1] = x[1] /\ mem[p + 2] + 256 * mem[p + 3] = x[2]

\* Four octets of a word are the word.
LEMMA OctetsOfWord ==
  ASSUME Digits = 2, NEW mem, NEW p \in Nat, NEW x \in Word32, IsAt(mem, p, x)
  PROVE  Octets4(mem, p, 4) = x
<1>1. Octets4(mem, p, 4) = <<mem[p + 0] + 256 * mem[p + 1], mem[p + 2] + 256 * mem[p + 3]>>
  BY DEF Octets4, Ub4
<1>2. p + 0 = p OBVIOUS
<1>3. x = <<x[1], x[2]>> BY WordDigits
<1> QED BY <1>1, <1>2, <1>3 DEF IsAt

\* No octets are a zero.
LEMMA NoOctets ==
  ASSUME Digits = 2, NEW mem, NEW p PROVE Octets4(mem, p, 0) = Zeros
BY DEF Octets4, Zeros, Ub4

\* Zero stays zero.
LEMMA ZerosShifted == ASSUME Digits = 2 PROVE Left(Zeros, 8) = Zeros
<1>1. Zeros = <<0, 0>> BY Constants_
<1>2. \A i : Digit(Zeros, i) = 0 BY <1>1 DEF Digit
<1>3. Len(Zeros) = 2 BY <1>1
<1> DEFINE r == 2^(8 % 16)
           d(k) == (Digit(Zeros, k - 8 \div 16) % (Base \div r)) * r
                     + (Digit(Zeros, k - 1 - 8 \div 16) \div (Base \div r))
<1>4. Left(Zeros, 8) = <<d(1), d(2)>> BY <1>3 DEF Left, Like
<1>5. r = 256 OBVIOUS
<1> HIDE DEF r
<1>6. d(1) = 0 /\ d(2) = 0 BY <1>2, <1>5 DEF Base
<1> QED BY <1>1, <1>4, <1>6

\* And changes nothing.
LEMMA PlusZeros == ASSUME Digits = 2, NEW x \in Word32 PROVE Plus(x, Zeros) = x
<1>1. Zeros = <<0, 0>> BY Constants_
<1>2. x = <<x[1], x[2]>> /\ Len(x) = 2 /\ IsDigit(x[1]) /\ IsDigit(x[2]) BY WordDigits
<1> DEFINE c(k) == \E j \in 1 .. k - 1 : /\ x[j] + Zeros[j] >= Base
                                        /\ \A l \in j + 1 .. k - 1 : x[l] + Zeros[l] >= Base - 1
           d(k) == (x[k] + Zeros[k] + (IF c(k) THEN 1 ELSE 0)) % Base
<1>3. Plus(x, Zeros) = <<d(1), d(2)>> BY <1>2 DEF Plus, Like
<1>4. ~c(1) OBVIOUS
<1>5. ~c(2)
  <2>1. \A j \in 1 .. 2 - 1 : j = 1 OBVIOUS
  <2>2. ~(x[1] + Zeros[1] >= Base) BY <1>1, <1>2 DEF IsDigit, Base
  <2> QED BY <2>1, <2>2
<1> HIDE DEF c
<1>6. d(1) = x[1] /\ d(2) = x[2] BY <1>1, <1>2, <1>4, <1>5 DEF IsDigit, Base
<1> QED BY <1>2, <1>3, <1>6

\* What the comment says of hash2: it is hash of the same octets, but for the length, which
\* counts words.
LEMMA Hash2IsHash ==
  ASSUME Digits = 2, NEW n \in Nat, n < 65536, NEW key, NEW mem, NEW initval \in Word32,
         \A w \in 1 .. n : key[w] \in Word32 /\ IsAt(mem, 4 * (w - 1), key[w])
  PROVE  Hash2(key, n, initval) = HashCounting(mem, 0, 4 * n, n, initval)
<1> DEFINE m     == n \div 3
           rest  == n % 3
           words == [w \in 1 .. 3 * m |-> key[w]]
           v     == Blocks(words, m, initval)
           last(i) == IF i <= rest THEN key[n - rest + i] ELSE Zeros
<1>1. /\ m \in Nat /\ rest \in {0, 1, 2} /\ n = 3 * m + rest /\ 3 * m \in Nat
      /\ (4 * n) \div 12 = m /\ (4 * n) % 12 = 4 * rest OBVIOUS
<1> HIDE DEF m, rest
<1>2. Words4(mem, 0, 3 * m) = words
  <2>1. ASSUME NEW w \in 1 .. 3 * m PROVE Octets4(mem, 0 + 4 * (w - 1), 4) = key[w]
    <3>1. w \in 1 .. n /\ 0 + 4 * (w - 1) = 4 * (w - 1) /\ 4 * (w - 1) \in Nat BY <1>1
    <3> QED BY <3>1, OctetsOfWord
  <2> QED BY <2>1 DEF Words4
<1>3. \A w \in 1 .. 3 * m : words[w] \in Word32 BY <1>1
<1> HIDE DEF words
<1>4. v[1] \in Word32 /\ v[2] \in Word32 /\ v[3] \in Word32
  <2>1. v \in Word32s BY <1>1, <1>3, BlocksWords
  <2> QED BY <2>1 DEF Word32s
<1> DEFINE len == (4 * n) % 12
           p   == 0 + 4 * n - len
<1>5. len = 4 * rest /\ p = 4 * (3 * m) /\ p \in Nat BY <1>1
<1>6. \A i \in {1, 2} : i <= rest => /\ Octets4(mem, 4 * (3 * m) + 4 * (i - 1), 4) = last(i)
                                     /\ n - rest + i \in 1 .. n
  <2> TAKE i \in {1, 2}
  <2> HAVE i <= rest
  <2> DEFINE w == n - rest + i
  <2>1. w \in 1 .. n /\ 4 * (3 * m) + 4 * (i - 1) = 4 * (w - 1) /\ 4 * (w - 1) \in Nat BY <1>1
  <2>2. last(i) = key[w] OBVIOUS
  <2> HIDE DEF w, last
  <2>3. key[w] \in Word32 /\ IsAt(mem, 4 * (w - 1), key[w]) BY <2>1
  <2>4. Octets4(mem, 4 * (w - 1), 4) = key[w] BY <2>1, <2>3, OctetsOfWord
  <2> QED BY <2>1, <2>2, <2>4 DEF w
<1> HIDE DEF v, len, p
<1>7. Octets4(mem, p, From(len, 0, 4)) = last(1)
  <2>1. CASE rest = 0
    <3>1. From(len, 0, 4) = 0 BY <1>5, <2>1 DEF From
    <3> QED BY <2>1, <3>1, NoOctets
  <2>2. CASE rest \in {1, 2}
    <3>1. From(len, 0, 4) = 4 BY <1>5, <2>2 DEF From
    <3>2. p = 4 * (3 * m) + 4 * (1 - 1) /\ 1 <= rest BY <1>1, <1>5, <2>2
    <3> QED BY <1>6, <3>1, <3>2
  <2> QED BY <1>1, <2>1, <2>2
<1>8. Octets4(mem, p + 4, From(len, 4, 4)) = last(2)
  <2>1. CASE rest \in {0, 1}
    <3>1. From(len, 4, 4) = 0 BY <1>5, <2>1 DEF From
    <3> QED BY <2>1, <3>1, NoOctets
  <2>2. CASE rest = 2
    <3>1. From(len, 4, 4) = 4 BY <1>5, <2>2 DEF From
    <3>2. p + 4 = 4 * (3 * m) + 4 * (2 - 1) /\ 2 <= rest BY <1>1, <1>5, <2>2
    <3> QED BY <1>6, <3>1, <3>2
  <2> QED BY <1>1, <2>1, <2>2
<1>9. Left(Octets4(mem, p + 8, From(len, 8, 3)), 8) = Zeros
  <2>1. From(len, 8, 3) = 0 BY <1>1, <1>5 DEF From
  <2> QED BY <2>1, NoOctets, ZerosShifted
<1>10. Plus(Plus(v[3], OfInt(n)), Zeros) = Plus(v[3], OfInt(n))
  <2>1. Plus(v[3], OfInt(n)) \in Word32 BY <1>4, Constants_, PlusIsWord
  <2> QED BY <2>1, PlusZeros
<1> HIDE DEF last
<1>11. AddTo(<<v[1], v[2], Plus(v[3], OfInt(n))>>, <<last(1), last(2), Zeros>>)
         = AddTo(v, <<last(1), last(2), OfInt(n)>>)
  BY <1>10 DEF AddTo
<1>12. LastOctets(mem, 0, 4 * n, n, v) = Mix(AddTo(v, <<last(1), last(2), OfInt(n)>>))[3]
  BY <1>7, <1>8, <1>9, <1>11 DEF LastOctets, len, p
<1>13. HashCounting(mem, 0, 4 * n, n, initval) = LastOctets(mem, 0, 4 * n, n, v)
  BY <1>1, <1>2 DEF HashCounting, v
<1>14. Hash2(key, n, initval) = Mix(AddTo(v, <<last(1), last(2), OfInt(n)>>))[3]
  BY DEF Hash2, v, words, m, last, rest
<1> QED BY <1>12, <1>13, <1>14
-----------------------------------------------------------------------------
(* The self-test.                                                          *)

\* driver3 and the variants, and the hashes that they have compared so far.
Around_(h, key, n, s) ==
  /\ test = [driver |-> "driver3", h |-> h, key |-> key, initval |-> OfInt(n), hashes |-> s]
  /\ Digits = 2 => \A j \in DOMAIN s : s[j] = s[1]
Compared_(v, n, s) ==
  /\ Digits = 2
  /\ test = [driver |-> "variants", v |-> v, n |-> n, hashes |-> s]
  /\ s # <<>> => s[1] = s[2] /\ s[3] = s[4]

\* What each of the four tests has found.
TestInv ==
  \/ test.driver = "driver2" /\ DOMAIN test = DOMAIN Driver2(0)
  \/ \E h \in 0 .. 7, key \in Keys, n \in 0 .. 1 : \E s : Around_(h, key, n, s)
  \/ \E s : test = [driver |-> "driver4", hashes |-> s]
  \/ \E v \in MixInputs, n \in 0 .. 7 : \E s : Compared_(v, n, s)

\* No test has hashed anything yet.
LEMMA TestInit == HashInit => TestInv
<1> SUFFICES ASSUME HashInit PROVE TestInv OBVIOUS
<1>1. CASE \E hlen \in Lengths : test = Driver2(hlen) BY <1>1 DEF TestInv, Driver2
<1>2. CASE test = Driver4 BY <1>2 DEF TestInv, Driver4
<1>3. CASE \E h \in 0 .. 7, key \in Keys, n \in 0 .. 1 : test = Driver3(h, key, n)
  <2>1. PICK h \in 0 .. 7, key \in Keys, n \in 0 .. 1 : test = Driver3(h, key, n) BY <1>3
  <2>2. Around_(h, key, n, <<>>) BY <2>1 DEF Around_, Driver3
  <2> QED BY <2>2 DEF TestInv
<1>4. CASE Digits = 2 /\ \E v \in MixInputs, n \in 0 .. 7 : test = Variants(v, n)
  <2>1. PICK v \in MixInputs, n \in 0 .. 7 : test = Variants(v, n) BY <1>4
  <2>2. Compared_(v, n, <<>>) BY <1>4, <2>1 DEF Compared_, Variants
  <2> QED BY <2>2 DEF TestInv
<1> QED BY <1>1, <1>2, <1>3, <1>4 DEF HashInit

\* driver3 finds the same hash three times.
LEMMA AroundKeeps == ASSUME TestInv, Around PROVE TestInv'
<1>1. PICK h \in 0 .. 7, key \in Keys, n \in 0 .. 1 :
        \E s : test = [driver |-> "driver3", h |-> h, key |-> key, initval |-> OfInt(n), hashes |-> s]
  BY DEF TestInv, Around, Around_, Compared_
<1> DEFINE b == h + 1
           i == Len(key)
           v == OfInt(n)
           buf(c) == [p \in 0 .. b + i + 12 |-> IF p \in b .. b + i - 1 THEN key[p - b + 1] ELSE c]
           hashes == <<Hash_(buf(0), b, i, v), Hash_(buf(255), b, i, v), Hash3(buf(255), b, i, v)>>
<1>2. h \in Nat /\ i \in Nat BY LookupAssumption
<1>3. test.h = h /\ test.key = key /\ test.initval = v BY <1>1
<1>4. test' = [test EXCEPT !.hashes = hashes] BY <1>3, Zenon DEF Around
<1>5. b \in Nat BY <1>2
<1> HIDE DEF i, v
<1>6. hashes[2] = hashes[1]
  <2>1. \A p \in b .. b + i - 1 : p \in 0 .. b + i + 12 BY <1>2, <1>5
  <2>2. \A p \in b .. b + i - 1 : buf(0)[p] = buf(255)[p] BY <2>1
  <2> HIDE DEF buf, b
  <2>3. Hash_(buf(0), b, i, v) = Hash_(buf(255), b, i, v)
    BY <1>2, <1>5, <2>2, HashReadsTheKey DEF Hash_
  <2> QED BY <2>3
<1>7. Digits = 2 => hashes[3] = hashes[2]
  <2> HIDE DEF buf, b
  <2> QED BY <1>2, <1>5, Hash3IsHash
<1>8. DOMAIN hashes = 1 .. 3 OBVIOUS
<1> HIDE DEF hashes
<1>9. test' = [driver |-> "driver3", h |-> h, key |-> key, initval |-> OfInt(n), hashes |-> hashes]
  BY <1>1, <1>4
<1>10. Digits = 2 => \A j \in DOMAIN hashes : hashes[j] = hashes[1] BY <1>6, <1>7, <1>8
<1>11. Around_(h, key, n, hashes)' BY <1>9, <1>10 DEF Around_
<1> QED BY <1>11 DEF TestInv

\* A word of four octets as one of eight.
LEMMA Widened == ASSUME NEW a, NEW b PROVE <<a, b>> \o <<0, 0>> = <<a, b, 0, 0>>
<1> DEFINE S == {a, b, 0}
           x == <<a, b>>
           y == <<0, 0>>
           z == x \o y
<1>1. x \in Seq(S) /\ y \in Seq(S) /\ Len(x) = 2 /\ Len(y) = 2 OBVIOUS
<1>2. x[1] = a /\ x[2] = b /\ y[1] = 0 /\ y[2] = 0 OBVIOUS
<1> HIDE DEF S, x, y
<1>3. z \in Seq(S) /\ Len(z) = 4 BY <1>1, ConcatProperties
<1>4. \A i \in 1 .. Len(x) + Len(y) : z[i] = IF i <= Len(x) THEN x[i] ELSE y[i - Len(x)]
  BY <1>1, ConcatProperties
<1> HIDE DEF z
<1>5. z[1] = a /\ z[2] = b /\ z[3] = 0 /\ z[4] = 0
  <2>1. 1 \in 1 .. Len(x) + Len(y) /\ 2 \in 1 .. Len(x) + Len(y) BY <1>1
  <2>2. 3 \in 1 .. Len(x) + Len(y) /\ 4 \in 1 .. Len(x) + Len(y) BY <1>1
  <2>3. z[1] = x[1] /\ z[2] = x[2] BY <1>1, <1>4, <2>1
  <2>4. z[3] = y[3 - 2] /\ z[4] = y[4 - 2] BY <1>1, <1>4, <2>2
  <2> QED BY <1>2, <2>3, <2>4
<1>6. z = <<z[1], z[2], z[3], z[4]>> BY <1>3
<1> QED BY <1>5, <1>6 DEF x, y, z

\* The variants agree, whatever the words.
LEMMA CompareKeeps == ASSUME TestInv, Compare PROVE TestInv'
<1>1. PICK v \in MixInputs, n \in 0 .. 7 :
        \E s : Digits = 2 /\ test = [driver |-> "variants", v |-> v, n |-> n, hashes |-> s]
  <2>1. test.driver = "variants" BY DEF Compare
  <2> QED BY <2>1 DEF TestInv, Around_, Compared_
<1>2. test.v = v /\ test.n = n BY <1>1
<1> DEFINE key == [i \in 1 .. n |-> v[((i - 1) % 3) + 1]]
           octet(p) == (key[(p \div 4) + 1][((p % 4) \div 2) + 1]
                          \div (IF p % 2 = 0 THEN 1 ELSE 256)) % 256
           mem == [p \in 0 .. 4 * n - 1 |-> octet(p)]
           eight == [i \in 1 .. 3 |-> v[i] \o <<0, 0>>]
           wide == Mix2(eight)
           same == [i \in 1 .. n |-> key[i]]
           hashes == <<Mix(v), [i \in 1 .. 3 |-> SubSeq(wide[i], 1, 2)], Hash2(same, n, Zeros),
                       HashCounting(mem, 0, 4 * n, n, Zeros)>>
<1>3. test' = [test EXCEPT !.hashes = hashes] BY <1>2 DEF Compare
<1>4. v[1] \in Word32 /\ v[2] \in Word32 /\ v[3] \in Word32 BY LookupAssumption DEF Word32s
<1>5. hashes[1] = hashes[2]
  <2>1. ASSUME NEW i \in 1 .. 3
        PROVE  eight[i] = <<v[i][1], v[i][2], 0, 0>> /\ v[i] = Lower(v[i])
    <3>1. v[i] \in Word32 BY <1>4
    <3>2. v[i] = <<v[i][1], v[i][2]>> BY <3>1, WordDigits
    <3>3. <<v[i][1], v[i][2]>> \o <<0, 0>> = <<v[i][1], v[i][2], 0, 0>> BY Widened
    <3> QED BY <3>2, <3>3 DEF Lower
  <2> HIDE DEF eight
  <2>2. \A i \in 1 .. 3 : SubSeq(Mix2(eight)[i], 1, 2) = Mix(v)[i] BY <2>1, Mix2IsMix
  <2>3. Mix(v) = [i \in 1 .. 3 |-> Mix(v)[i]]
    <3>1. Mix(v) \in Word32s BY <1>4, MixWords DEF Mix
    <3> QED BY <3>1 DEF Word32s
  <2> QED BY <2>2, <2>3
<1>6. hashes[3] = hashes[4]
  <2>1. ASSUME NEW w \in 1 .. n PROVE same[w] \in Word32 /\ IsAt(mem, 4 * (w - 1), same[w])
    <3> DEFINE x == same[w]
               p == 4 * (w - 1)
    <3>1. x \in Word32
      <4>1. ((w - 1) % 3) + 1 \in {1, 2, 3} OBVIOUS
      <4> QED BY <1>4, <4>1
    <3>2. IsDigit(x[1]) /\ IsDigit(x[2]) BY <3>1, WordDigits
    <3>3. key[w] = x OBVIOUS
    <3>4. /\ p \in 0 .. 4 * n - 1 /\ p \div 4 = w - 1 /\ p % 4 = 0 /\ p % 2 = 0
          /\ p + 1 \in 0 .. 4 * n - 1 /\ (p + 1) \div 4 = w - 1 /\ (p + 1) % 4 = 1 /\ (p + 1) % 2 = 1
          /\ p + 2 \in 0 .. 4 * n - 1 /\ (p + 2) \div 4 = w - 1 /\ (p + 2) % 4 = 2 /\ (p + 2) % 2 = 0
          /\ p + 3 \in 0 .. 4 * n - 1 /\ (p + 3) \div 4 = w - 1 /\ (p + 3) % 4 = 3 /\ (p + 3) % 2 = 1
      OBVIOUS
    <3>5. (w - 1) + 1 = w /\ (0 \div 2) + 1 = 1 /\ (1 \div 2) + 1 = 1 /\ (2 \div 2) + 1 = 2
          /\ (3 \div 2) + 1 = 2 OBVIOUS
    <3> HIDE DEF key, same, x, p
    <3>6. /\ mem[p] = (x[1] \div 1) % 256 /\ mem[p + 1] = (x[1] \div 256) % 256
          /\ mem[p + 2] = (x[2] \div 1) % 256 /\ mem[p + 3] = (x[2] \div 256) % 256
      BY <3>3, <3>4, <3>5
    <3>7. \A d : IsDigit(d) => ((d \div 1) % 256) + 256 * ((d \div 256) % 256) = d BY DEF IsDigit
    <3> QED BY <3>1, <3>2, <3>6, <3>7 DEF IsAt, x, p
  <2>2. n \in Nat /\ n < 65536 OBVIOUS
  <2>3. Zeros \in Word32 BY <1>1, Constants_
  <2> HIDE DEF mem, same
  <2> QED BY <1>1, <2>1, <2>2, <2>3, Hash2IsHash
<1> HIDE DEF hashes
<1>7. test' = [driver |-> "variants", v |-> v, n |-> n, hashes |-> hashes] BY <1>1, <1>3
<1>8. Compared_(v, n, hashes)' BY <1>1, <1>5, <1>6, <1>7 DEF Compared_
<1> QED BY <1>8 DEF TestInv

\* driver2 and driver4 do not touch what the others found.
LEMMA OthersKeep == ASSUME TestInv, Trial \/ EmptyKey PROVE TestInv'
<1>1. CASE Trial
  <2>1. test.driver = "driver2" /\ DOMAIN test = DOMAIN Driver2(0)
    BY <1>1 DEF Trial, TestInv, Around_, Compared_
  <2> DEFINE Kept(t) == t.driver = "driver2" /\ DOMAIN t = DOMAIN Driver2(0)
  <2>2. DOMAIN Driver2(0) = {"driver", "hlen", "i", "j", "m", "k", "left", "complaint"}
    BY DEF Driver2
  <2>3. \A k : Kept(Turn(test, k)) BY <2>1, <2>2 DEF Turn
  <2>4. \A left : Kept([test EXCEPT !.k = @ + 2, !.left = left]) BY <2>1, <2>2
  <2>5. Kept(test') BY <1>1, <2>3, <2>4 DEF Trial
  <2> QED BY <2>5 DEF TestInv
<1>2. CASE EmptyKey
  <2>1. \E s : test = [driver |-> "driver4", hashes |-> s]
    BY <1>2 DEF EmptyKey, TestInv, Around_, Compared_
  <2>2. PICK s : test' = [test EXCEPT !.hashes = s] BY <1>2 DEF EmptyKey
  <2>3. test' = [driver |-> "driver4", hashes |-> s] BY <2>1, <2>2
  <2> QED BY <2>3 DEF TestInv
<1> QED BY <1>1, <1>2

\* What holds at each moment of the self-test.
LEMMA TestInvHolds == HashSpec => []TestInv
<1>1. TestInv /\ [HashNext]_test => TestInv'
  <2> SUFFICES ASSUME TestInv, [HashNext]_test PROVE TestInv' OBVIOUS
  <2>1. CASE UNCHANGED test BY <2>1 DEF TestInv, Around_, Compared_
  <2> QED BY <2>1, AroundKeeps, CompareKeeps, OthersKeep DEF HashNext
<1> QED BY <1>1, TestInit, PTL DEF HashSpec

\* Where ub4 has four octets: for keys of every length and of any octets, what is around a
\* key has no influence on its hash, and hash3 of an aligned or unaligned key is hash.
THEOREM OnlyKeysAreHashed == Digits = 2 => (HashSpec => []OnlyTheKeyIsHashed)
<1> SUFFICES ASSUME Digits = 2 PROVE HashSpec => []OnlyTheKeyIsHashed OBVIOUS
<1>1. TestInv => OnlyTheKeyIsHashed BY DEF TestInv, OnlyTheKeyIsHashed, Around_, Compared_
<1> QED BY <1>1, TestInvHolds, PTL

\* For all words: mix2 with ub4s of eight octets is mix, and hash2 is hash of the same
\* octets, with the length in words.
THEOREM VariantsAlwaysAgree == HashSpec => []VariantsAgree
<1>1. TestInv => VariantsAgree BY DEF TestInv, VariantsAgree, Around_, Compared_
<1> QED BY <1>1, TestInvHolds, PTL
=============================================================================
