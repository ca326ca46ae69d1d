------------------------------ MODULE MCPrograms ------------------------------
(***************************************************************************)
(* The programs and libraries that share nothing, for TLC: a behaviour is  *)
(* one of the part it begins with, while the others stay where they began. *)
(***************************************************************************)
EXTENDS Sha1Stream, Sha1Block, Lookup2, ByteOrder, MachRpc, LocalPush, Emulated, Arid

CONSTANT Parts  \* those of interest

VARIABLE part
mcVars == <<part, shaVars, blockVars, test, fileVars, rpcVars, pushVars, emulatedVars, aridVars>>
-----------------------------------------------------------------------------
(* SHA-1: a message shorter than a block, and one whose padding needs a    *)
(* block of its own.                                                       *)

\* The octets of a message of length l, padded.
Message(text, l) ==
  LET size == 64 * ((l + 8) \div 64 + 1)
  IN  [i \in 1 .. size |-> IF i <= l THEN text[i]
                           ELSE IF i = l + 1 THEN 128
                           ELSE IF i = size THEN (8 * l) % 256
                           ELSE IF i = size - 1 THEN (8 * l) \div 256
                           ELSE 0]

MCVectors ==
  {[octets |-> Message(<<97, 98, 99>>, 3),
    digest |-> <<Hex(\hA999, \h3E36), Hex(\h4706, \h816A), Hex(\hBA3E, \h2571),
                 Hex(\h7850, \hC26C), Hex(\h9CD0, \hD89D)>>],
   [octets |-> Message([i \in 1 .. 56 |-> 97 + ((i - 1) \div 4) + ((i - 1) % 4)], 56),
    digest |-> <<Hex(\h8498, \h3E44), Hex(\h1C3B, \hD26E), Hex(\hBAAE, \h4AA1),
                 Hex(\hF951, \h29E5), Hex(\hE546, \h70F1)>>]}

\* lookup2's mix: nothing, everything, single bits and a bit of both.
MCWords == {<<0, 0>>, <<65535, 65535>>, <<1, 0>>, <<0, 32768>>, <<4660, 22136>>}
MCMixInputs == MCWords \X MCWords \X MCWords

\* driver3's keys: "This is the time for all good men to come to the aid of their country",
\* keys of zeros, and others, of every length modulo 12.
MCSentence ==
  <<84, 104, 105, 115, 32, 105, 115, 32, 116, 104, 101, 32, 116, 105, 109, 101, 32, 102,
    111, 114, 32, 97, 108, 108, 32, 103, 111, 111, 100, 32, 109, 101, 110, 32, 116, 111,
    32, 99, 111, 109, 101, 32, 116, 111, 32, 116, 104, 101, 32, 97, 105, 100, 32, 111, 102,
    32, 116, 104, 101, 105, 114, 32, 99, 111, 117, 110, 116, 114, 121>>
MCKeys ==
  {MCSentence}
    \cup {[p \in 1 .. l |-> 0] : l \in {0, 1, 2, 3, 4, 5, 7, 8, 9, 11, 12, 13, 24, 35}}
    \cup {[p \in 1 .. l |-> IF p = l THEN last ELSE (37 * p) % 256] : l \in 1 .. 25, last \in {1, 255}}

\* Integers of n octets: each octet different, with its first bit or its last one.
MCValues(n) == {UNION {{8 * i + i, 8 * i + (n - 1)} : i \in 0 .. n - 1}, {8 * n - 1}}

\* Archives without and with members of odd length; their texts look like sizes.  Three of
\* odd length before one whose text has a negative number lead arid back, or out of the file.
MCHead(date) ==
  [i \in 0 .. 59 |-> CASE i \in 1 .. 2 -> i
                       [] i - 15 \in DOMAIN date -> date[i - 15]
                       [] i \in {28, 34} -> 5
                       [] i \in 40 .. 45 -> <<1, 0, 0, 6, 4, 4>>[i - 39]
                       [] i \in {0, 3, 15, 58} -> Text
                       [] OTHER -> Blank]
MCMembers ==
  {[head |-> MCHead(<<1, 3, 0, 0, 1, 2, 3, 4, 5, 6>>), text |-> <<>>],
   [head |-> MCHead(<<7>>), text |-> <<MinusSign, 6>>],
   [head |-> MCHead(<<9, 9, 9, 9>>), text |-> [i \in 1 .. 7 |-> 9]]}
MCOdd == [head |-> MCHead(<<8, 0>>), text |-> <<MinusSign, 3, 0>>]
MCLast(number) ==
  [head |-> MCHead(<<1, 2>>),
   text |-> [i \in 1 .. 62 |-> IF i - 49 \in DOMAIN number THEN number[i - 49] ELSE Text]]
MCArchives ==
  UNION {[1 .. n -> MCMembers] : n \in 0 .. 3}
    \cup {<<MCOdd, MCOdd, MCLast(<<PlusSign, 1>>), MCOdd>>}
    \cup {<<MCOdd, MCOdd, MCOdd, MCLast(n)>> : n \in {<<MinusSign, 2, 0, 0>>, <<MinusSign, 9, 0, 0>>, <<9, 9, 9, 9, 9, 9, 9, 9>>}}
-----------------------------------------------------------------------------
AllParts == {"stream", "block", "lookup2", "file", "rpc", "push", "emulated", "arid"}

MCInit ==
  /\ part \in Parts
  /\ IF part = "lookup2" THEN HashInit ELSE test = Driver4
  /\ part = "block" \/ vector = CHOOSE v \in Vectors : TRUE
  /\ part = "push" \/ now = CHOOSE t0 \in Midnights : TRUE
  /\ part = "arid" \/ members = <<>>
  /\ ShaInit /\ BlockInit /\ FileInit /\ RpcInit /\ PushInit /\ EmulatedInit /\ AridInit

MCNext ==
  /\ UNCHANGED part
  /\ \/ /\ part = "stream" /\ ShaNext
        /\ UNCHANGED <<blockVars, test, fileVars, rpcVars, pushVars, emulatedVars, aridVars>>
     \/ /\ part = "block" /\ BlockNext
        /\ UNCHANGED <<shaVars, test, fileVars, rpcVars, pushVars, emulatedVars, aridVars>>
     \/ /\ part = "lookup2" /\ HashNext
        /\ UNCHANGED <<shaVars, blockVars, fileVars, rpcVars, pushVars, emulatedVars, aridVars>>
     \/ /\ part = "file" /\ FileNext
        /\ UNCHANGED <<shaVars, blockVars, test, rpcVars, pushVars, emulatedVars, aridVars>>
     \/ /\ part = "rpc" /\ RpcNext
        /\ UNCHANGED <<shaVars, blockVars, test, fileVars, pushVars, emulatedVars, aridVars>>
     \/ /\ part = "push" /\ PushNext
        /\ UNCHANGED <<shaVars, blockVars, test, fileVars, rpcVars, emulatedVars, aridVars>>
     \/ /\ part = "emulated" /\ EmulatedNext
        /\ UNCHANGED <<shaVars, blockVars, test, fileVars, rpcVars, pushVars, aridVars>>
     \/ /\ part = "arid" /\ AridNext
        /\ UNCHANGED <<shaVars, blockVars, test, fileVars, rpcVars, pushVars, emulatedVars>>

MCSpec == MCInit /\ [][MCNext]_mcVars /\ PushFairness
=============================================================================
