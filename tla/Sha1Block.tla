------------------------------ MODULE Sha1Block ------------------------------
(***************************************************************************)
(* util/sha1.c: SHA1ProcessMessageBlock, which Sha1Stream does not look    *)
(* into, word by word and round by round, on messages whose digests are    *)
(* known.                                                                  *)
(***************************************************************************)
EXTENDS Words

CONSTANT Vectors  \* records: the padded octets of a message, and its digest, 5 words

VARIABLES
  vector,
  block,   \* which of the blocks is processed
  t,       \* the loop counter: the round that comes next
  W,       \* the word sequence
  buffers, \* A, B, C, D, E
  Intermediate_Hash_
blockVars == <<vector, block, t, W, buffers, Intermediate_Hash_>>

SHA1CircularShift(n, x) == Or(Left(x, n), Right(x, 32 - n))

\* SHA1Reset
InitialHash == <<Hex(\h6745, \h2301), Hex(\hEFCD, \hAB89), Hex(\h98BA, \hDCFE),
                 Hex(\h1032, \h5476), Hex(\hC3D2, \hE1F0)>>

K == <<Hex(\h5A82, \h7999), Hex(\h6ED9, \hEBA1), Hex(\h8F1B, \hBCDC), Hex(\hCA62, \hC1D6)>>

BlockInit ==
  /\ vector \in Vectors
  /\ block = 1 /\ t = 0 /\ W = <<>> /\ buffers = InitialHash
  /\ Intermediate_Hash_ = InitialHash

Hashing == 64 * block <= Len(vector.octets)

\* The most significant octet of a word comes first.
BlockWord(k) == LET o(i) == vector.octets[64 * (block - 1) + 4 * k + i]
                IN  Hex(256 * o(1) + o(2), 256 * o(3) + o(4))

\* The words of the block, then W[t] from those 3, 8, 14 and 16 before it.  W[t + 1] is
\* the code's W[t].
Expand ==
  /\ Hashing /\ Len(W) < 80
  /\ W' = IF Len(W) < 16 THEN Append(W, BlockWord(Len(W)))
          ELSE LET n == Len(W) + 1
               IN  Append(W, SHA1CircularShift(1, Eor(Eor(W[n - 3], W[n - 8]),
                                                      Eor(W[n - 14], W[n - 16]))))
  /\ UNCHANGED <<vector, block, t, buffers, Intermediate_Hash_>>

\* Mutant: no majority in the third loop.
MixedAlike(b, c, d) ==
  CASE t \in 0 .. 19 -> Or(And(b, c), And(Not(b), d))
    [] OTHER         -> Eor(Eor(b, c), d)

\* What the four loops make of B, C and D.
Mixed(b, c, d) ==
  CASE t \in 0 .. 19  -> Or(And(b, c), And(Not(b), d))
    [] t \in 40 .. 59 -> Or(Or(And(b, c), And(b, d)), And(c, d))
    [] OTHER          -> Eor(Eor(b, c), d)

Round ==
  /\ Hashing /\ Len(W) = 80 /\ t < 80
  /\ LET a == buffers[1]  b == buffers[2]  c == buffers[3]  d == buffers[4]  e == buffers[5]
         temp == Plus(Plus(Plus(Plus(SHA1CircularShift(5, a), Mixed(b, c, d)), e), W[t + 1]),
                      K[(t \div 20) + 1])
     IN  buffers' = <<temp, a, SHA1CircularShift(30, b), c, d>>
  /\ t' = t + 1
  /\ UNCHANGED <<vector, block, W, Intermediate_Hash_>>

AddBuffers ==
  /\ Hashing /\ t = 80
  /\ Intermediate_Hash_' = [i \in 1 .. 5 |-> Plus(Intermediate_Hash_[i], buffers[i])]
  /\ buffers' = Intermediate_Hash_'
  /\ block' = block + 1 /\ t' = 0 /\ W' = <<>>
  /\ UNCHANGED vector

BlockNext == Expand \/ Round \/ AddBuffers
BlockSpec == BlockInit /\ [][BlockNext]_blockVars
-----------------------------------------------------------------------------
\* What comes out is the digest that FIPS 180 gives for the message (sha1.h says that the
\* code implements it).
DigestIsKnown == ~Hashing => Intermediate_Hash_ = vector.digest
=============================================================================
