----------------------------- MODULE LdidLayout -----------------------------
(***************************************************************************)
(* The embedded signature that "ldid -S" writes into a Mach-O file: where  *)
(* each of its parts goes, which bytes are hashed, and whether all of it   *)
(* fits in the room that codesign_allocate was asked for.                  *)
(*                                                                         *)
(* ldid computes that room (ssize) from the size of the file before        *)
(* codesign_allocate moves the signature to a 16-byte boundary, writes     *)
(* the signature from the boundary on, and compares what it wrote with the *)
(* room only when everything is written.  A signed file may be signed      *)
(* again, by another name and with other entitlements.                     *)
(*                                                                         *)
(* Offsets count from the beginning of the signature; lengths of structs   *)
(* are those of ldid.cpp, all packed.  The file is thin: of a fat one ldid *)
(* counts dataoff of a slice from the start of the file, and writes and    *)
(* hashes other bytes than those modelled here.                            *)
(***************************************************************************)
EXTENDS Integers

CONSTANTS
  Sizes,        \* sizes of the unsigned Mach-O files, in bytes
  BaseLengths,  \* strlen of their names
  XmlSizes,     \* sizes of entitlements files
  NoXml         \* -S without entitlements

ASSUME SizeAssumption ==
  /\ Sizes \subseteq Nat \ {0}
  /\ BaseLengths \subseteq Nat
  /\ XmlSizes \subseteq Nat
  /\ NoXml \notin Nat

VARIABLES
  size,       \* the code: the whole file, or what is before its old signature
  base, xml,  \* of this -S: strlen(base), and xmls or NoXml
  data,       \* dataoff of LC_CODE_SIGNATURE: the code codesign_allocate leaves
  room,       \* datasize of LC_CODE_SIGNATURE
  offset,     \* how far the signature is written
  span,       \* span[p]: where part p of the signature was written
  index,      \* index[slot]: the offset super->index gives for a blob, or -1
  pages,      \* nCodeSlots full pages are hashed up to the last, of "last" bytes
  hashed,     \* hashed[slot]: the bytes hashed into the special slot
  slotAt,     \* slotAt[slot]: where that hash was written
  pc

vars == <<size, base, xml, data, room, offset, span, index, pages, hashed, slotAt, pc>>

SuperBlob     == 12   \* magic, length, count
BlobIndex     == 8    \* type, offset
Blob          == 8    \* magic, length
CodeDirectory == 44
HashSize      == 20   \* hashSize, sizeof(*hashes)
Requirements  == 12   \* an empty requirements blob
Page          == 4096

\* CSSLOT_...
DirectorySlot    == 0
RequirementsSlot == 2
EntitlementsSlot == 5
Slots == {DirectorySlot, RequirementsSlot, EntitlementsSlot}

Parts == {"super", "directory", "ident", "special", "pages", "requirements", "entitlements"}

Span    == [at : Nat, len : Nat]
Nowhere == [at |-> 0, len |-> 0]
Last(s) == s.at + s.len

RoundUp(n) == ((n + 15) \div 16) * 16
Pages(n)   == (n + Page - 1) \div Page
Special(x) == IF x = NoXml THEN RequirementsSlot ELSE EntitlementsSlot
Count(x)   == IF x = NoXml THEN 2 ELSE 3

TypeOK ==
  /\ size \in Nat \ {0} /\ base \in BaseLengths /\ xml \in XmlSizes \cup {NoXml}
  /\ data \in Nat /\ room \in Nat /\ offset \in Nat
  /\ span \in [Parts -> Span]
  /\ index \in [Slots -> Nat \cup {-1}]
  /\ pages \in [count : Nat, last : 0 .. Page]
  /\ hashed \in [Slots -> Span]
  /\ slotAt \in [Slots -> Int]
  /\ pc \in {"allocate", "super", "directory", "special", "pages", "requirements",
             "entitlements", "slots", "check", "signed", "failed"}

Blank ==
  /\ offset' = 0
  /\ span' = [p \in Parts |-> Nowhere]
  /\ index' = [s \in Slots |-> -1]
  /\ pages' = [count |-> 0, last |-> 0]
  /\ hashed' = [s \in Slots |-> Nowhere]
  /\ slotAt' = [s \in Slots |-> 0]

Init ==
  /\ size \in Sizes /\ base \in BaseLengths /\ xml \in XmlSizes \cup {NoXml}
  /\ data = 0 /\ room = 0 /\ offset = 0
  /\ span = [p \in Parts |-> Nowhere]
  /\ index = [s \in Slots |-> -1]
  /\ pages = [count |-> 0, last |-> 0]
  /\ hashed = [s \in Slots |-> Nowhere]
  /\ slotAt = [s \in Slots |-> 0]
  /\ pc = "allocate"

-----------------------------------------------------------------------------
\* Mutant: the room for the entitlements forgets the header of their blob.
ShortSize(n, b, x) ==
  RoundUp(SuperBlob + 2 * BlobIndex + CodeDirectory + b + 1
          + (Special(x) + Pages(n)) * HashSize + Requirements
          + IF x = NoXml THEN 0 ELSE BlobIndex + x)

\* ssize, the room for the signature.
SignatureSize(n, b, x) ==
  RoundUp(SuperBlob + 2 * BlobIndex + CodeDirectory + b + 1
          + (Special(x) + Pages(n)) * HashSize + Requirements
          + IF x = NoXml THEN 0 ELSE BlobIndex + Blob + x)

\* codesign_allocate: the code, without an old signature, up to a 16-byte boundary, and the
\* room after it.
Allocate ==
  /\ pc = "allocate"
  /\ data' = RoundUp(size)
  /\ room' = SignatureSize(size, base, xml)
  /\ pc' = "super"
  /\ UNCHANGED <<size, base, xml, offset, span, index, pages, hashed, slotAt>>

\* Part p is written at the offset.
Put(p, n) == span' = [span EXCEPT ![p] = [at |-> offset, len |-> n]]

WriteSuper ==
  /\ pc = "super"
  /\ span' = [span EXCEPT !["super"] = [at |-> 0, len |-> SuperBlob + Count(xml) * BlobIndex]]
  /\ offset' = SuperBlob + Count(xml) * BlobIndex
  /\ pc' = "directory"
  /\ UNCHANGED <<size, base, xml, data, room, index, pages, hashed, slotAt>>

\* The directory, and the name behind it.
WriteDirectory ==
  /\ pc = "directory"
  /\ index' = [index EXCEPT ![DirectorySlot] = offset]
  /\ span' = [span EXCEPT !["directory"] = [at |-> offset, len |-> CodeDirectory],
                          !["ident"] = [at |-> offset + CodeDirectory, len |-> base + 1]]
  /\ offset' = offset + CodeDirectory + base + 1
  /\ pc' = "special"
  /\ UNCHANGED <<size, base, xml, data, room, pages, hashed, slotAt>>

\* Mutant: as many special slots with entitlements as without.
ClearTwoSlots ==
  /\ pc = "special"
  /\ Put("special", RequirementsSlot * HashSize)
  /\ offset' = offset + RequirementsSlot * HashSize
  /\ pc' = "pages"
  /\ UNCHANGED <<size, base, xml, data, room, index, pages, hashed, slotAt>>

ClearSpecial ==
  /\ pc = "special"
  /\ Put("special", Special(xml) * HashSize)
  /\ offset' = offset + Special(xml) * HashSize
  /\ pc' = "pages"
  /\ UNCHANGED <<size, base, xml, data, room, index, pages, hashed, slotAt>>

\* Mutant: the last page has what is left of the code, nothing when it fills the page.
HashRemainder ==
  /\ pc = "pages"
  /\ pages' = [count |-> Pages(data), last |-> data % Page]
  /\ Put("pages", Pages(data) * HashSize)
  /\ offset' = offset + Pages(data) * HashSize
  /\ pc' = "requirements"
  /\ UNCHANGED <<size, base, xml, data, room, index, hashed, slotAt>>

\* Mutant: the last hash runs to the end of the code from its beginning.
HashAll ==
  /\ pc = "pages"
  /\ pages' = [count |-> Pages(data), last |-> data]
  /\ Put("pages", Pages(data) * HashSize)
  /\ offset' = offset + Pages(data) * HashSize
  /\ pc' = "requirements"
  /\ UNCHANGED <<size, base, xml, data, room, index, hashed, slotAt>>

HashPages ==
  /\ pc = "pages"
  /\ pages' = [count |-> Pages(data), last |-> ((data - 1) % Page) + 1]
  /\ Put("pages", Pages(data) * HashSize)
  /\ offset' = offset + Pages(data) * HashSize
  /\ pc' = "requirements"
  /\ UNCHANGED <<size, base, xml, data, room, index, hashed, slotAt>>

WriteRequirements ==
  /\ pc = "requirements"
  /\ index' = [index EXCEPT ![RequirementsSlot] = offset]
  /\ Put("requirements", Requirements)
  /\ offset' = offset + Requirements
  /\ pc' = IF xml = NoXml THEN "slots" ELSE "entitlements"
  /\ UNCHANGED <<size, base, xml, data, room, pages, hashed, slotAt>>

WriteEntitlements ==
  /\ pc = "entitlements"
  /\ index' = [index EXCEPT ![EntitlementsSlot] = offset]
  /\ Put("entitlements", Blob + xml)
  /\ offset' = offset + Blob + xml
  /\ pc' = "slots"
  /\ UNCHANGED <<size, base, xml, data, room, pages, hashed, slotAt>>

\* The blob that the index has at a: its length field is the length it was written with.
\* (Bytes no blob begins at would have an arbitrary length: here they have none.)
BlobAt(a) ==
  LET found == {p \in {"requirements", "entitlements"} : span[p].at = a /\ span[p].len > 0}
  IN  IF found = {} THEN Nowhere ELSE span[CHOOSE p \in found : TRUE]

\* Mutant: the slot of the last special type is left out.
HashSlotsBelow ==
  /\ pc = "slots"
  /\ hashed' = [s \in Slots |-> IF index[s] # -1 /\ s # DirectorySlot /\ s < Special(xml)
                                THEN BlobAt(index[s]) ELSE hashed[s]]
  /\ slotAt' = [s \in Slots |-> IF index[s] # -1 /\ s # DirectorySlot /\ s < Special(xml)
                                THEN span["pages"].at - s * HashSize ELSE slotAt[s]]
  /\ pc' = "check"
  /\ UNCHANGED <<size, base, xml, data, room, offset, span, index, pages>>

\* Special slots lie before the page hashes, counted backwards from them.
HashSlots ==
  /\ pc = "slots"
  /\ hashed' = [s \in Slots |-> IF index[s] # -1 /\ s # DirectorySlot /\ s <= Special(xml)
                                THEN BlobAt(index[s]) ELSE hashed[s]]
  /\ slotAt' = [s \in Slots |-> IF index[s] # -1 /\ s # DirectorySlot /\ s <= Special(xml)
                                THEN span["pages"].at - s * HashSize ELSE slotAt[s]]
  /\ pc' = "check"
  /\ UNCHANGED <<size, base, xml, data, room, offset, span, index, pages>>

\* "offset (%u) > size (%u)"; else the rest of the room is cleared.
Check ==
  /\ pc = "check"
  /\ pc' = IF offset > room THEN "failed" ELSE "signed"
  /\ UNCHANGED <<size, base, xml, data, room, offset, span, index, pages, hashed, slotAt>>

\* Mutant: the old signature is taken for code.
SignAgainWhole(b, x) ==
  /\ pc = "signed"
  /\ size' = data + room
  /\ base' = b /\ xml' = x
  /\ Blank
  /\ pc' = "allocate"
  /\ UNCHANGED <<data, room>>

\* ldid -S of the signed file: its code ends where its LC_CODE_SIGNATURE begins.
SignAgain(b, x) ==
  /\ pc = "signed"
  /\ size' = data
  /\ base' = b /\ xml' = x
  /\ Blank
  /\ pc' = "allocate"
  /\ UNCHANGED <<data, room>>

Next ==
  \/ Allocate
  \/ WriteSuper \/ WriteDirectory \/ ClearSpecial \/ HashPages
  \/ WriteRequirements \/ WriteEntitlements
  \/ HashSlots
  \/ Check
  \/ \E b \in BaseLengths, x \in XmlSizes \cup {NoXml} : SignAgain(b, x)

Spec == Init /\ [][Next]_vars

-----------------------------------------------------------------------------
(* Properties.                                                             *)

\* ldid checks its room only after it wrote everything: no write goes past the room, for
\* any size of the code, name and entitlements.
WritesWithinRoom ==
  pc # "allocate" => offset <= room /\ \A p \in Parts : Last(span[p]) <= room

\* No part of the signature overwrites another; and each special hash goes into the
\* special slots, clear of the name before them and the page hashes behind them.
PartsDisjoint ==
  /\ \A p, q \in Parts : p # q /\ span[p].len > 0 /\ span[q].len > 0 =>
       Last(span[p]) <= span[q].at \/ Last(span[q]) <= span[p].at
  /\ \A s \in Slots : hashed[s].len > 0 =>
       /\ span["special"].at <= slotAt[s]
       /\ slotAt[s] + HashSize <= Last(span["special"])

\* The page hashes cover each byte of the code once: full pages and a last one that is
\* neither empty nor longer than a page.
PagesCoverCode ==
  pc \notin {"allocate", "super", "directory", "special", "pages"} =>
    /\ (pages.count - 1) * Page + pages.last = data
    /\ pages.last \in 1 .. Page
    /\ span["pages"].len = pages.count * HashSize

\* Every blob that the index of a signed file lists, but the directory, has the hash of
\* its whole extent in the directory.
SlotsCoverBlobs ==
  pc = "signed" =>
    /\ hashed[RequirementsSlot] = span["requirements"]
    /\ span["requirements"].len > 0
    /\ xml # NoXml => hashed[EntitlementsSlot] = span["entitlements"]
                      /\ span["entitlements"].len = Blob + xml

\* Signing again, by any name and with any entitlements, never moves the code's end: the
\* file does not grow by its old signatures.
ResigningKeepsCode == [][data # 0 => data' = data]_vars
=============================================================================
