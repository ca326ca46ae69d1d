----------------------------- MODULE Sha1Stream -----------------------------
(***************************************************************************)
(* telesphoreo/util/sha1.c: what SHA1Reset, SHA1Input and SHA1Result do    *)
(* with a message that comes in pieces.                                    *)
(*                                                                         *)
(* The compression function is not looked into: the intermediate hash is   *)
(* the sequence of blocks it was computed from.  Octets are known by their *)
(* place in the message, those of the padding and the length by value.     *)
(***************************************************************************)
EXTENDS Integers, Sequences

CONSTANTS
  Block,       \* 64 octets
  OctetBits,   \* 8
  Radix,       \* 256, for the values of an octet
  Word,        \* 2^32, for Length_Low and Length_High
  Pieces       \* the lengths of message_array

ASSUME ShaAssumption ==
  /\ Block \in Nat /\ Block > 8
  /\ OctetBits \in Nat \ {0} /\ Radix \in Nat \ {0} /\ Word \in Nat \ {0} /\ Word % OctetBits = 0
  /\ Pieces \subseteq Nat

\* enum in sha1.h
shaSuccess      == 0
shaNull         == 1
shaInputTooLong == 2
shaStateError   == 3

LengthAt == Block - 8   \* 56: where the length of the message goes

VARIABLES
  Length_Low, Length_High,
  Message_Block_Index,
  Message_Block,
  Intermediate_Hash,  \* the blocks processed
  Computed, Corrupted,
  length,       \* of the running SHA1Input, what it has left to do
  octets        \* history: how many octets were put in since SHA1Reset

shaVars == <<Length_Low, Length_High, Message_Block_Index, Message_Block, Intermediate_Hash,
             Computed, Corrupted, length, octets>>
counts == <<Length_Low, Length_High>>

Octet(i) == <<"octet", i>>
ByValue(v) == <<"value", v>>
Zero == ByValue(0)
One  == ByValue(Radix \div 2)   \* 0x80

\* w >> 24, w >> 16, w >> 8 and w, each as an octet.
Octets(w) ==
  <<ByValue((w \div (Radix * Radix * Radix)) % Radix), ByValue((w \div (Radix * Radix)) % Radix),
    ByValue((w \div Radix) % Radix), ByValue(w % Radix)>>

MaxOctets == (Word * Word) \div OctetBits
Cells == {Octet(i) : i \in 1 .. MaxOctets} \cup {ByValue(v) : v \in 0 .. Radix - 1}

ShaTypeOK ==
  /\ Length_Low \in 0 .. Word - 1 /\ Length_High \in 0 .. Word - 1
  /\ Message_Block_Index \in 0 .. Block - 1
  /\ DOMAIN Message_Block = 0 .. Block - 1
  /\ \A i \in 0 .. Block - 1 : Message_Block[i] \in Cells
  /\ \A k \in 1 .. Len(Intermediate_Hash) : DOMAIN Intermediate_Hash[k] = 0 .. Block - 1
  /\ Computed \in BOOLEAN
  /\ Corrupted \in {shaSuccess, shaNull, shaInputTooLong, shaStateError}
  /\ length \in Nat /\ octets \in 0 .. MaxOctets

Cleared == [i \in 0 .. Block - 1 |-> Zero]

\* The context on the stack has an arbitrary block until it is filled: here it is zero.
ShaInit ==
  /\ Length_Low = 0 /\ Length_High = 0
  /\ Message_Block_Index = 0 /\ Message_Block = Cleared
  /\ Intermediate_Hash = <<>>
  /\ Computed = FALSE /\ Corrupted = shaSuccess
  /\ length = 0 /\ octets = 0

-----------------------------------------------------------------------------
SHA1Reset ==
  /\ length = 0
  /\ Length_Low' = 0 /\ Length_High' = 0
  /\ Message_Block_Index' = 0
  /\ Intermediate_Hash' = <<>>
  /\ Computed' = FALSE /\ Corrupted' = shaSuccess
  /\ octets' = 0
  /\ UNCHANGED <<Message_Block, length>>

\* SHA1Input up to its loop.  Nothing happens for an empty piece.
SHA1Input(n) ==
  /\ length = 0 /\ n > 0
  /\ Corrupted' = IF Computed THEN shaStateError ELSE Corrupted
  /\ length' = IF Computed \/ Corrupted # shaSuccess THEN 0 ELSE n
  /\ UNCHANGED <<counts, Message_Block_Index, Message_Block, Intermediate_Hash, Computed,
                 octets>>

\* Mutant: the carry into the high word is lost.
CountLow ==
  /\ Length_Low' = (Length_Low + OctetBits) % Word
  /\ UNCHANGED <<Length_High, Corrupted>>

\* The message is too long when its length in bits does not fit in two words.
CountOctet ==
  LET low  == (Length_Low + OctetBits) % Word
      high == IF low = 0 THEN (Length_High + 1) % Word ELSE Length_High
  IN  /\ Length_Low' = low
      /\ Length_High' = high
      /\ Corrupted' = IF low = 0 /\ high = 0 THEN shaNull ELSE Corrupted  \* Corrupted = 1

\* One turn of the loop.
InputOctet ==
  /\ length > 0
  /\ CountOctet
  /\ octets' = octets + 1
  /\ LET filled == [Message_Block EXCEPT ![Message_Block_Index] = Octet(octets + 1)]
     IN  /\ Message_Block' = filled
         /\ IF Message_Block_Index + 1 = Block
            THEN /\ Intermediate_Hash' = Append(Intermediate_Hash, filled)
                 /\ Message_Block_Index' = 0
            ELSE /\ Message_Block_Index' = Message_Block_Index + 1
                 /\ UNCHANGED Intermediate_Hash
  /\ length' = IF Corrupted' = shaSuccess THEN length - 1 ELSE 0
  /\ UNCHANGED Computed

\* The block with 0x80 at index k and zeros from there to cell "to".
Fill(b, k, to) == [i \in 0 .. Block - 1 |->
                     IF i = k THEN One ELSE IF i > k /\ i < to THEN Zero ELSE b[i]]

WithLength(b) ==
  [i \in 0 .. Block - 1 |-> IF i < LengthAt THEN b[i]
                            ELSE (Octets(Length_High) \o Octets(Length_Low))[i - LengthAt + 1]]

\* Mutant: a block that is full up to its length takes the 0x80 as well.
PadShort ==
  IF Message_Block_Index > LengthAt
  THEN <<Fill(Message_Block, Message_Block_Index, Block),
         WithLength([i \in 0 .. Block - 1 |->
           IF i < LengthAt THEN Zero ELSE Fill(Message_Block, Message_Block_Index, Block)[i]])>>
  ELSE <<WithLength(Fill(Message_Block, Message_Block_Index, LengthAt))>>

\* SHA1PadMessage: the blocks it processes.
SHA1PadMessage ==
  IF Message_Block_Index > LengthAt - 1
  THEN <<Fill(Message_Block, Message_Block_Index, Block),
         WithLength([i \in 0 .. Block - 1 |->
           IF i < LengthAt THEN Zero ELSE Fill(Message_Block, Message_Block_Index, Block)[i]])>>
  ELSE <<WithLength(Fill(Message_Block, Message_Block_Index, LengthAt))>>

\* SHA1Result: pads and clears the message once; every call returns the digest, which is
\* the intermediate hash.
SHA1Result ==
  /\ length = 0 /\ Corrupted = shaSuccess
  /\ IF Computed
     THEN UNCHANGED <<Intermediate_Hash, Message_Block, Message_Block_Index, counts, Computed>>
     ELSE /\ Intermediate_Hash' = Intermediate_Hash \o SHA1PadMessage
          /\ Message_Block' = Cleared /\ Message_Block_Index' = 0
          /\ Length_Low' = 0 /\ Length_High' = 0
          /\ Computed' = TRUE
  /\ UNCHANGED <<Corrupted, length, octets>>

ShaNext ==
  \/ SHA1Reset
  \/ \E n \in Pieces : SHA1Input(n)
  \/ InputOctet
  \/ SHA1Result

ShaSpec == ShaInit /\ [][ShaNext]_shaVars

-----------------------------------------------------------------------------
(* The reference: the message, a one bit, zeros, and the length, in blocks *)
(* (RFC 3174, section 4, as the comment on SHA1PadMessage says it).        *)

PaddedBlocks(n) == (n + 1 + 8 + Block - 1) \div Block

PaddedCell(n, c) ==
  LET end  == PaddedBlocks(n) * Block
      bits == n * OctetBits
  IN  CASE c <= n -> Octet(c)
        [] c = n + 1 -> One
        [] c \in end - 7 .. end - 4 -> Octets(bits \div Word)[c - (end - 8)]
        [] c \in end - 3 .. end -> Octets(bits % Word)[c - (end - 4)]
        [] OTHER -> Zero

Padded(n) == [k \in 1 .. PaddedBlocks(n) |->
                [i \in 0 .. Block - 1 |-> PaddedCell(n, (k - 1) * Block + i + 1)]]

\* The digest is that of the whole padded message, in however many pieces it came.
DigestIsOfMessage == Computed => Intermediate_Hash = Padded(octets)

\* As long as the message is not too long, the words hold its length; a message that is
\* too long never gets a digest.
LengthIsExact ==
  /\ ~Computed /\ Corrupted = shaSuccess =>
       Length_High * Word + Length_Low = octets * OctetBits
  /\ Computed => octets * OctetBits < Word * Word
=============================================================================
