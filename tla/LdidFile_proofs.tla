-------------------------- MODULE LdidFile_proofs ---------------------------
(***************************************************************************)
(* What ldid makes of a file, for all files.                               *)
(*                                                                         *)
(* LdidLayout: the signature ldid writes fits in the room it asked         *)
(* codesign_allocate for, whatever the sizes of the code, the name and the *)
(* entitlements.  The room is computed from the size of the code before it *)
(* is rounded up to a 16-byte boundary, the page hashes are counted after: *)
(* the argument is that a page is a multiple of 16 bytes, so rounding never*)
(* begins a new page (RoundUpKeepsPages).  The rest is the invariant       *)
(* LayoutInv: the part written at each step lies where the sizes of the    *)
(* parts before it put it.                                                 *)
(*                                                                         *)
(* LdidMachO: for files with any commands, on hosts of either order, and any*)
(* number of runs, stopped anywhere, a file keeps the order of its words, a*)
(* time stamp is that of the file, and ldid says what is there.  IInv holds*)
(* what a run has read of the file against what is in it.                  *)
(***************************************************************************)
EXTENDS LdidLayout, LdidMachO, SequenceTheorems, WellFoundedInduction, FiniteSetTheorems,
        TLAPS

(* LdidLayout: the parts of a signature.                                   *)

\* Rounding up to 16 bytes does not change the number of 4096-byte pages.
LEMMA RoundUpKeepsPages ==
  ASSUME NEW n \in Nat
  PROVE  Pages(RoundUp(n)) = Pages(n)
BY DEF Pages, RoundUp, Page

\* Rounding up gives a multiple of 16, not below its argument, and leaves multiples alone.
LEMMA RoundUpFacts ==
  ASSUME NEW n \in Nat
  PROVE  /\ RoundUp(n) \in Nat
         /\ n <= RoundUp(n)
         /\ RoundUp(RoundUp(n)) = RoundUp(n)
BY DEF RoundUp

\* The pages of a code that is not empty cover it, the last one not being empty.
LEMMA PagesFacts ==
  ASSUME NEW n \in Nat \ {0}
  PROVE  /\ Pages(n) \in Nat
         /\ (Pages(n) - 1) * Page + ((n - 1) % Page) + 1 = n
         /\ ((n - 1) % Page) + 1 \in 1 .. Page
BY DEF Pages, Page

-----------------------------------------------------------------------------
(* The inductive invariant.                                                *)

\* Where the parts end.
SuperEnd        == SuperBlob + Count(xml) * BlobIndex
DirectoryEnd    == SuperEnd + CodeDirectory
IdentEnd        == DirectoryEnd + base + 1
SpecialEnd      == IdentEnd + Special(xml) * HashSize
PagesEnd        == SpecialEnd + Pages(data) * HashSize
RequirementsEnd == PagesEnd + Requirements
EntitlementsEnd == RequirementsEnd + IF xml = NoXml THEN 0 ELSE Blob + xml

\* Between two ends when it is written, nowhere before.
Written(p, done, from, to) ==
  span[p] = IF done THEN [at |-> from, len |-> to - from] ELSE Nowhere

\* The steps from which on each part is written.
AfterSlots        == {"check", "signed"}
AfterEntitlements == {"slots"} \cup AfterSlots
AfterRequirements == {"entitlements"} \cup AfterEntitlements
AfterPages        == {"requirements"} \cup AfterRequirements
AfterSpecial      == {"pages"} \cup AfterPages
AfterDirectory    == {"special"} \cup AfterSpecial
AfterSuper        == {"directory"} \cup AfterDirectory

Places ==
  /\ Written("super", pc \in AfterSuper, 0, SuperEnd)
  /\ Written("directory", pc \in AfterDirectory, SuperEnd, DirectoryEnd)
  /\ Written("ident", pc \in AfterDirectory, DirectoryEnd, IdentEnd)
  /\ Written("special", pc \in AfterSpecial, IdentEnd, SpecialEnd)
  /\ Written("pages", pc \in AfterPages, SpecialEnd, PagesEnd)
  /\ Written("requirements", pc \in AfterRequirements, PagesEnd, RequirementsEnd)
  /\ Written("entitlements", pc \in AfterEntitlements /\ xml # NoXml,
             RequirementsEnd, EntitlementsEnd)

OffsetIsEnd ==
  /\ pc \in {"allocate", "super"} => offset = 0
  /\ pc = "directory" => offset = SuperEnd
  /\ pc = "special" => offset = IdentEnd
  /\ pc = "pages" => offset = SpecialEnd
  /\ pc = "requirements" => offset = PagesEnd
  /\ pc = "entitlements" => offset = RequirementsEnd /\ xml # NoXml
  /\ pc \in AfterEntitlements => offset = EntitlementsEnd

Allocated ==
  /\ pc = "allocate" => data = 0 \/ (size = data /\ RoundUp(data) = data)
  /\ pc # "allocate" => data = RoundUp(size) /\ room = SignatureSize(size, base, xml)

PagesHashed == pc \in AfterPages => pages = [count |-> Pages(data), last |-> ((data - 1) % Page) + 1]

IndexPoints ==
  /\ index[RequirementsSlot] = IF pc \in AfterRequirements THEN PagesEnd ELSE -1
  /\ index[EntitlementsSlot] =
       IF pc \in AfterEntitlements /\ xml # NoXml THEN RequirementsEnd ELSE -1

SlotsHashed ==
  /\ hashed[DirectorySlot] = Nowhere
  /\ pc \notin AfterSlots => hashed[RequirementsSlot] = Nowhere /\ hashed[EntitlementsSlot] = Nowhere
  /\ pc \in AfterSlots =>
       /\ hashed[RequirementsSlot] = span["requirements"]
       /\ slotAt[RequirementsSlot] = SpecialEnd - RequirementsSlot * HashSize
       /\ hashed[EntitlementsSlot] = IF xml = NoXml THEN Nowhere ELSE span["entitlements"]
       /\ xml # NoXml => slotAt[EntitlementsSlot] = SpecialEnd - EntitlementsSlot * HashSize

LayoutInv ==
  /\ TypeOK
  /\ pc # "failed"
  /\ Places
  /\ OffsetIsEnd
  /\ Allocated
  /\ PagesHashed
  /\ IndexPoints
  /\ SlotsHashed

USE DEF DirectorySlot, RequirementsSlot, EntitlementsSlot, Slots, Parts, Span, Nowhere,
        AfterSlots, AfterEntitlements, AfterRequirements, AfterPages, AfterSpecial,
        AfterDirectory, AfterSuper

\* The lengths of the parts are natural numbers.
LEMMA EndsFacts ==
  ASSUME TypeOK, data \in Nat \ {0}
  PROVE  /\ SuperEnd \in Nat /\ SuperEnd = SuperBlob + Count(xml) * BlobIndex /\ SuperEnd > 0
         /\ DirectoryEnd \in Nat /\ DirectoryEnd = SuperEnd + 44
         /\ IdentEnd \in Nat /\ IdentEnd = DirectoryEnd + base + 1 /\ base \in Nat
         /\ SpecialEnd \in Nat /\ SpecialEnd = IdentEnd + Special(xml) * 20
         /\ Special(xml) \in {2, 5}
         /\ PagesEnd \in Nat /\ PagesEnd = SpecialEnd + Pages(data) * 20 /\ Pages(data) \in Nat
         /\ RequirementsEnd \in Nat /\ RequirementsEnd = PagesEnd + 12
         /\ EntitlementsEnd \in Nat /\ EntitlementsEnd >= RequirementsEnd
         /\ xml # NoXml => xml \in Nat /\ EntitlementsEnd = RequirementsEnd + 8 + xml
<1>1. base \in Nat /\ (xml # NoXml => xml \in Nat)
  BY SizeAssumption DEF TypeOK
<1>2. Count(xml) \in {2, 3} /\ Special(xml) \in {2, 5}
  BY DEF Count, Special
<1>3. Pages(data) \in Nat
  BY PagesFacts
<1>4. SuperEnd \in Nat /\ SuperEnd > 0
  BY <1>2 DEF SuperEnd, SuperBlob, BlobIndex
<1>5. /\ IdentEnd \in Nat /\ IdentEnd = DirectoryEnd + base + 1
      /\ DirectoryEnd \in Nat /\ DirectoryEnd = SuperEnd + 44
  BY <1>1, <1>4 DEF IdentEnd, DirectoryEnd, CodeDirectory
<1>6. SpecialEnd \in Nat /\ SpecialEnd = IdentEnd + Special(xml) * 20
  BY <1>2, <1>5 DEF SpecialEnd, HashSize
<1>7. PagesEnd \in Nat /\ PagesEnd = SpecialEnd + Pages(data) * 20
  BY <1>3, <1>6 DEF PagesEnd, HashSize
<1>8. RequirementsEnd \in Nat /\ RequirementsEnd = PagesEnd + 12
  BY <1>7 DEF RequirementsEnd, Requirements
<1>9. /\ EntitlementsEnd \in Nat /\ EntitlementsEnd >= RequirementsEnd
      /\ xml # NoXml => EntitlementsEnd = RequirementsEnd + 8 + xml
  BY <1>1, <1>8 DEF EntitlementsEnd, Blob
<1>. QED
  BY <1>1, <1>2, <1>3, <1>4, <1>5, <1>6, <1>7, <1>8, <1>9 DEF SuperEnd

\* The room that ssize asks for holds all parts, though the pages are counted anew in
\* the code codesign_allocate has moved.
LEMMA RoomHoldsAll ==
  ASSUME TypeOK, data = RoundUp(size), room = SignatureSize(size, base, xml)
  PROVE  data \in Nat \ {0} /\ EntitlementsEnd <= room
<1>1. size \in Nat \ {0} /\ base \in Nat /\ (xml # NoXml => xml \in Nat)
  BY SizeAssumption DEF TypeOK
<1>2. data \in Nat \ {0}
  BY <1>1, RoundUpFacts
<1>3. Pages(data) = Pages(size) /\ Pages(size) \in Nat
  BY <1>1, RoundUpKeepsPages, PagesFacts
<1>4. CASE xml = NoXml
  <2>1. EntitlementsEnd = 12 + 16 + 44 + base + 1 + (2 + Pages(size)) * 20 + 12
    BY <1>1, <1>3, <1>4 DEF EntitlementsEnd, RequirementsEnd, PagesEnd, SpecialEnd, IdentEnd,
       DirectoryEnd, SuperEnd, SuperBlob, BlobIndex, CodeDirectory, HashSize, Requirements,
       Count, Special
  <2>2. room = RoundUp(12 + 16 + 44 + base + 1 + (2 + Pages(size)) * 20 + 12)
    BY <1>1, <1>3, <1>4 DEF SignatureSize, SuperBlob, BlobIndex, CodeDirectory, HashSize,
       Requirements, Special, Blob
  <2>. QED
    BY <1>1, <1>2, <1>3, <2>1, <2>2, RoundUpFacts
<1>5. CASE xml # NoXml
  <2>1. EntitlementsEnd = 12 + 16 + 44 + base + 1 + (5 + Pages(size)) * 20 + 12 + 16 + xml
    BY <1>1, <1>3, <1>5 DEF EntitlementsEnd, RequirementsEnd, PagesEnd, SpecialEnd, IdentEnd,
       DirectoryEnd, SuperEnd, SuperBlob, BlobIndex, CodeDirectory, HashSize, Requirements,
       Count, Special, Blob
  <2>2. room = RoundUp(12 + 16 + 44 + base + 1 + (5 + Pages(size)) * 20 + 12 + 16 + xml)
    BY <1>1, <1>3, <1>5 DEF SignatureSize, SuperBlob, BlobIndex, CodeDirectory, HashSize,
       Requirements, Special, Blob
  <2>. QED
    BY <1>1, <1>2, <1>3, <1>5, <2>1, <2>2, RoundUpFacts
<1>. QED
  BY <1>4, <1>5

\* While one signature is written, the ends of its parts do not move.
LEMMA EndsStay ==
  ASSUME UNCHANGED <<base, xml, data>>
  PROVE  /\ SuperEnd' = SuperEnd
         /\ DirectoryEnd' = DirectoryEnd
         /\ IdentEnd' = IdentEnd
         /\ SpecialEnd' = SpecialEnd
         /\ PagesEnd' = PagesEnd
         /\ RequirementsEnd' = RequirementsEnd
         /\ EntitlementsEnd' = EntitlementsEnd
BY DEF SuperEnd, DirectoryEnd, IdentEnd, SpecialEnd, PagesEnd, RequirementsEnd, EntitlementsEnd

LEMMA InitEstablishes == Init => LayoutInv
<1>. SUFFICES ASSUME Init PROVE LayoutInv
  OBVIOUS
<1>1. TypeOK
  BY SizeAssumption DEF Init, TypeOK, Page
<1>2. Places /\ OffsetIsEnd
  BY <1>1 DEF Init, Places, Written, OffsetIsEnd
<1>3. Allocated /\ PagesHashed /\ IndexPoints /\ SlotsHashed
  BY DEF Init, Allocated, PagesHashed, IndexPoints, SlotsHashed
<1>. QED
  BY <1>1, <1>2, <1>3 DEF Init, LayoutInv

LEMMA AllocatePreserves == LayoutInv /\ Allocate => LayoutInv'
<1>. SUFFICES ASSUME LayoutInv, Allocate PROVE LayoutInv'
  OBVIOUS
<1>. USE DEF LayoutInv, Allocate
<1>1. SignatureSize(size, base, xml) \in Nat
  <2>1. size \in Nat \ {0} /\ base \in Nat /\ (xml # NoXml => xml \in Nat)
    BY SizeAssumption DEF TypeOK
  <2>. QED
    BY <2>1, PagesFacts, RoundUpFacts DEF SignatureSize, SuperBlob, BlobIndex, CodeDirectory,
       HashSize, Requirements, Blob, Special
<1>2. TypeOK'
  BY <1>1, RoundUpFacts DEF TypeOK
<1>3. Places' /\ OffsetIsEnd'
  BY DEF Places, Written, OffsetIsEnd
<1>4. Allocated' /\ PagesHashed' /\ IndexPoints' /\ SlotsHashed'
  BY DEF Allocated, PagesHashed, IndexPoints, SlotsHashed
<1>. QED
  BY <1>2, <1>3, <1>4

\* What all steps that write a part have in common: the code and the room stay.
LEMMA WritingFacts ==
  ASSUME LayoutInv, pc # "allocate"
  PROVE  /\ data \in Nat \ {0}
         /\ EntitlementsEnd <= room
         /\ TypeOK
BY RoomHoldsAll DEF LayoutInv, Allocated

LEMMA WriteSuperPreserves == LayoutInv /\ WriteSuper => LayoutInv'
<1>. SUFFICES ASSUME LayoutInv, WriteSuper PROVE LayoutInv'
  OBVIOUS
<1>. USE DEF LayoutInv, WriteSuper
<1>1. data \in Nat \ {0}
  BY WritingFacts
<1>2. TypeOK'
  BY <1>1, EndsFacts DEF TypeOK
<1>3. Places'
  BY <1>1, EndsFacts, EndsStay DEF Places, Written, TypeOK
<1>4. OffsetIsEnd'
  BY <1>1, EndsFacts, EndsStay DEF OffsetIsEnd
<1>5. Allocated' /\ PagesHashed' /\ IndexPoints' /\ SlotsHashed'
  BY DEF Allocated, PagesHashed, IndexPoints, SlotsHashed
<1>. QED
  BY <1>2, <1>3, <1>4, <1>5

LEMMA WriteDirectoryPreserves == LayoutInv /\ WriteDirectory => LayoutInv'
<1>. SUFFICES ASSUME LayoutInv, WriteDirectory PROVE LayoutInv'
  OBVIOUS
<1>. USE DEF LayoutInv, WriteDirectory
<1>1. data \in Nat \ {0}
  BY WritingFacts
<1>2. TypeOK'
  BY <1>1, EndsFacts DEF TypeOK, OffsetIsEnd, CodeDirectory
<1>3. Places'
  BY <1>1, EndsFacts, EndsStay DEF Places, Written, TypeOK, OffsetIsEnd, CodeDirectory
<1>4. OffsetIsEnd'
  BY <1>1, EndsFacts, EndsStay DEF OffsetIsEnd, CodeDirectory
<1>5. Allocated' /\ PagesHashed' /\ IndexPoints' /\ SlotsHashed'
  BY DEF Allocated, PagesHashed, IndexPoints, SlotsHashed, TypeOK
<1>. QED
  BY <1>2, <1>3, <1>4, <1>5

LEMMA ClearSpecialPreserves == LayoutInv /\ ClearSpecial => LayoutInv'
<1>. SUFFICES ASSUME LayoutInv, ClearSpecial PROVE LayoutInv'
  OBVIOUS
<1>. USE DEF LayoutInv, ClearSpecial, Put
<1>1. data \in Nat \ {0}
  BY WritingFacts
<1>2. TypeOK'
  BY <1>1, EndsFacts DEF TypeOK, OffsetIsEnd, HashSize
<1>3. Places'
  BY <1>1, EndsFacts, EndsStay DEF Places, Written, TypeOK, OffsetIsEnd, HashSize
<1>4. OffsetIsEnd'
  BY <1>1, EndsFacts, EndsStay DEF OffsetIsEnd, HashSize
<1>5. Allocated' /\ PagesHashed' /\ IndexPoints' /\ SlotsHashed'
  BY DEF Allocated, PagesHashed, IndexPoints, SlotsHashed
<1>. QED
  BY <1>2, <1>3, <1>4, <1>5

LEMMA HashPagesPreserves == LayoutInv /\ HashPages => LayoutInv'
<1>. SUFFICES ASSUME LayoutInv, HashPages PROVE LayoutInv'
  OBVIOUS
<1>. USE DEF LayoutInv, HashPages, Put
<1>1. data \in Nat \ {0}
  BY WritingFacts
<1>2. Pages(data) \in Nat /\ ((data - 1) % Page) + 1 \in 0 .. Page
  <2>1. ASSUME NEW r \in 1 .. Page PROVE r \in 0 .. Page
    BY DEF Page
  <2>2. QED
    BY <1>1, <2>1, PagesFacts, Zenon
<1>3. TypeOK'
  BY <1>1, <1>2, EndsFacts DEF TypeOK, OffsetIsEnd, HashSize
<1>4. Places'
  BY <1>1, EndsFacts, EndsStay DEF Places, Written, TypeOK, OffsetIsEnd, HashSize
<1>5. OffsetIsEnd'
  BY <1>1, EndsFacts, EndsStay DEF OffsetIsEnd, HashSize
<1>6. Allocated' /\ PagesHashed' /\ IndexPoints' /\ SlotsHashed'
  BY DEF Allocated, PagesHashed, IndexPoints, SlotsHashed
<1>. QED
  BY <1>3, <1>4, <1>5, <1>6

LEMMA WriteRequirementsPreserves == LayoutInv /\ WriteRequirements => LayoutInv'
<1>. SUFFICES ASSUME LayoutInv, WriteRequirements PROVE LayoutInv'
  OBVIOUS
<1>. USE DEF LayoutInv, WriteRequirements, Put
<1>1. data \in Nat \ {0}
  BY WritingFacts
<1>2. TypeOK'
  BY <1>1, EndsFacts DEF TypeOK, OffsetIsEnd, Requirements
<1>3. Places'
  BY <1>1, EndsFacts, EndsStay DEF Places, Written, TypeOK, OffsetIsEnd, Requirements
<1>4. OffsetIsEnd'
  BY <1>1, EndsFacts, EndsStay DEF OffsetIsEnd, Requirements, EntitlementsEnd
<1>5. IndexPoints'
  BY <1>1, EndsFacts, EndsStay DEF IndexPoints, OffsetIsEnd, TypeOK
<1>6. Allocated' /\ PagesHashed' /\ SlotsHashed'
  BY DEF Allocated, PagesHashed, SlotsHashed
<1>. QED
  BY <1>2, <1>3, <1>4, <1>5, <1>6

LEMMA WriteEntitlementsPreserves == LayoutInv /\ WriteEntitlements => LayoutInv'
<1>. SUFFICES ASSUME LayoutInv, WriteEntitlements PROVE LayoutInv'
  OBVIOUS
<1>. USE DEF LayoutInv, WriteEntitlements, Put
<1>1. data \in Nat \ {0} /\ xml # NoXml
  BY WritingFacts DEF OffsetIsEnd
<1>2. TypeOK'
  BY <1>1, EndsFacts DEF TypeOK, OffsetIsEnd, Blob
<1>3. Places'
  BY <1>1, EndsFacts, EndsStay DEF Places, Written, TypeOK, OffsetIsEnd, Blob
<1>4. OffsetIsEnd'
  BY <1>1, EndsFacts, EndsStay DEF OffsetIsEnd, Blob
<1>5. IndexPoints'
  BY <1>1, EndsFacts, EndsStay DEF IndexPoints, OffsetIsEnd, TypeOK
<1>6. Allocated' /\ PagesHashed' /\ SlotsHashed'
  BY DEF Allocated, PagesHashed, SlotsHashed
<1>. QED
  BY <1>2, <1>3, <1>4, <1>5, <1>6

\* The index leads HashSlots to the very blobs that were written.
LEMMA BlobsFound ==
  ASSUME LayoutInv, pc = "slots"
  PROVE  /\ BlobAt(index[RequirementsSlot]) = span["requirements"]
         /\ xml # NoXml => BlobAt(index[EntitlementsSlot]) = span["entitlements"]
<1>. USE DEF LayoutInv
<1>1. data \in Nat \ {0}
  BY WritingFacts
<1>2. /\ span["requirements"] = [at |-> PagesEnd, len |-> 12]
      /\ xml # NoXml => span["entitlements"] = [at |-> RequirementsEnd, len |-> 8 + xml] /\ xml \in Nat
      /\ xml = NoXml => span["entitlements"].len = 0
      /\ PagesEnd \in Nat /\ RequirementsEnd = PagesEnd + 12
  BY <1>1, EndsFacts DEF Places, Written
<1>3. index[RequirementsSlot] = PagesEnd /\ (xml # NoXml => index[EntitlementsSlot] = RequirementsEnd)
  BY DEF IndexPoints
<1>4. {p \in {"requirements", "entitlements"} : span[p].at = PagesEnd /\ span[p].len > 0}
        = {"requirements"}
  BY <1>2
<1>5. BlobAt(index[RequirementsSlot]) = span["requirements"]
  BY <1>3, <1>4 DEF BlobAt
<1>6. ASSUME xml # NoXml
      PROVE  BlobAt(index[EntitlementsSlot]) = span["entitlements"]
  <2>1. {p \in {"requirements", "entitlements"} : span[p].at = RequirementsEnd /\ span[p].len > 0}
          = {"entitlements"}
    BY <1>2, <1>6
  <2>. QED
    BY <1>3, <1>6, <2>1 DEF BlobAt
<1>. QED
  BY <1>5, <1>6

LEMMA HashSlotsPreserves == LayoutInv /\ HashSlots => LayoutInv'
<1>. SUFFICES ASSUME LayoutInv, HashSlots PROVE LayoutInv'
  OBVIOUS
<1>. USE DEF LayoutInv, HashSlots
<1>1. data \in Nat \ {0}
  BY WritingFacts
<1>2. /\ index[RequirementsSlot] # -1
      /\ xml # NoXml => index[EntitlementsSlot] # -1 /\ Special(xml) = 5
      /\ xml = NoXml => index[EntitlementsSlot] = -1 /\ Special(xml) = 2
  BY <1>1, EndsFacts DEF IndexPoints, Special
<1>3. span["pages"].at = SpecialEnd /\ SpecialEnd \in Nat
  BY <1>1, EndsFacts DEF Places, Written
<1>4. /\ hashed'[DirectorySlot] = hashed[DirectorySlot]
      /\ hashed'[RequirementsSlot] = span["requirements"]
      /\ hashed'[EntitlementsSlot] =
           IF xml = NoXml THEN hashed[EntitlementsSlot] ELSE span["entitlements"]
  BY <1>2, BlobsFound
<1>5. /\ slotAt'[RequirementsSlot] = SpecialEnd - 2 * 20
      /\ xml # NoXml => slotAt'[EntitlementsSlot] = SpecialEnd - 5 * 20
      /\ slotAt'[DirectorySlot] = slotAt[DirectorySlot]
      /\ xml = NoXml => slotAt'[EntitlementsSlot] = slotAt[EntitlementsSlot]
  BY <1>2, <1>3 DEF HashSize
<1>6. TypeOK'
  <2>1. /\ \A s \in Slots : hashed'[s] \in Span
        /\ \A s \in Slots : slotAt'[s] \in Int
    BY <1>3, <1>4, <1>5 DEF TypeOK
  <2>2. hashed' \in [Slots -> Span] /\ slotAt' \in [Slots -> Int]
    BY <2>1
  <2>. QED
    BY <2>2 DEF TypeOK
<1>7. SlotsHashed'
  BY <1>1, <1>4, <1>5, EndsStay DEF SlotsHashed, TypeOK, HashSize
<1>8. Places' /\ OffsetIsEnd' /\ IndexPoints'
  BY EndsStay DEF Places, Written, OffsetIsEnd, IndexPoints
<1>9. Allocated' /\ PagesHashed'
  BY DEF Allocated, PagesHashed
<1>. QED
  BY <1>6, <1>7, <1>8, <1>9

LEMMA CheckPreserves == LayoutInv /\ Check => LayoutInv'
<1>. SUFFICES ASSUME LayoutInv, Check PROVE LayoutInv'
  OBVIOUS
<1>. USE DEF LayoutInv, Check
<1>1. pc' = "signed"
  BY WritingFacts, EndsFacts DEF OffsetIsEnd, TypeOK
<1>2. TypeOK'
  BY <1>1 DEF TypeOK
<1>3. Places' /\ OffsetIsEnd' /\ IndexPoints' /\ SlotsHashed'
  BY <1>1, EndsStay DEF Places, Written, OffsetIsEnd, IndexPoints, SlotsHashed
<1>4. Allocated' /\ PagesHashed'
  BY <1>1 DEF Allocated, PagesHashed
<1>. QED
  BY <1>1, <1>2, <1>3, <1>4

LEMMA SignAgainPreserves ==
  ASSUME NEW b \in BaseLengths, NEW x \in XmlSizes \cup {NoXml}
  PROVE  LayoutInv /\ SignAgain(b, x) => LayoutInv'
<1>. SUFFICES ASSUME LayoutInv, SignAgain(b, x) PROVE LayoutInv'
  OBVIOUS
<1>. USE DEF LayoutInv, SignAgain, Blank
<1>1. data \in Nat \ {0}
  BY WritingFacts
<1>2. RoundUp(data) = data
  BY RoundUpFacts DEF Allocated, TypeOK
<1>3. TypeOK'
  BY <1>1 DEF TypeOK, Page
<1>4. Places' /\ OffsetIsEnd'
  BY <1>3 DEF Places, Written, OffsetIsEnd
<1>5. Allocated' /\ PagesHashed' /\ IndexPoints' /\ SlotsHashed'
  BY <1>2 DEF Allocated, PagesHashed, IndexPoints, SlotsHashed
<1>. QED
  BY <1>3, <1>4, <1>5

LEMMA StepPreserves == LayoutInv /\ [Next]_vars => LayoutInv'
<1>. SUFFICES ASSUME LayoutInv, [Next]_vars PROVE LayoutInv'
  OBVIOUS
<1>1. CASE Allocate
  BY <1>1, AllocatePreserves
<1>2. CASE WriteSuper \/ WriteDirectory \/ ClearSpecial \/ HashPages
  BY <1>2, WriteSuperPreserves, WriteDirectoryPreserves, ClearSpecialPreserves, HashPagesPreserves
<1>3. CASE WriteRequirements \/ WriteEntitlements
  BY <1>3, WriteRequirementsPreserves, WriteEntitlementsPreserves
<1>4. CASE HashSlots \/ Check
  BY <1>4, HashSlotsPreserves, CheckPreserves
<1>5. CASE \E b \in BaseLengths, x \in XmlSizes \cup {NoXml} : SignAgain(b, x)
  BY <1>5, SignAgainPreserves
<1>6. CASE UNCHANGED vars
  <2>. USE <1>6 DEF LayoutInv, vars
  <2>1. TypeOK' /\ PagesHashed' /\ Allocated'
    BY DEF TypeOK, PagesHashed, Allocated
  <2>2. Places' /\ OffsetIsEnd' /\ IndexPoints' /\ SlotsHashed'
    BY EndsStay DEF Places, Written, OffsetIsEnd, IndexPoints, SlotsHashed
  <2>. QED
    BY <2>1, <2>2
<1>. QED
  BY <1>1, <1>2, <1>3, <1>4, <1>5, <1>6 DEF Next

\* The state of a signing stays well typed; above all, every length stays natural.
THEOREM TypeCorrect == Spec => []TypeOK
<1>1. Init => LayoutInv
  BY InitEstablishes
<1>2. LayoutInv /\ [Next]_vars => LayoutInv'
  BY StepPreserves
<1>3. LayoutInv => TypeOK
  BY DEF LayoutInv
<1>. QED
  BY <1>1, <1>2, <1>3, PTL DEF Spec

-----------------------------------------------------------------------------
(* What follows from it.                                                   *)

\* The parts that are written lie one behind the other.
LEMMA PartsInOrder ==
  ASSUME LayoutInv, pc # "allocate"
  PROVE  /\ 0 <= SuperEnd /\ SuperEnd <= DirectoryEnd /\ DirectoryEnd <= IdentEnd
         /\ IdentEnd <= SpecialEnd /\ SpecialEnd <= PagesEnd
         /\ PagesEnd <= RequirementsEnd /\ RequirementsEnd <= EntitlementsEnd
         /\ span["super"].len > 0 => span["super"].at = 0 /\ Last(span["super"]) = SuperEnd
         /\ span["directory"].len > 0 =>
              span["directory"].at = SuperEnd /\ Last(span["directory"]) = DirectoryEnd
         /\ span["ident"].len > 0 => span["ident"].at = DirectoryEnd /\ Last(span["ident"]) = IdentEnd
         /\ span["special"].len > 0 =>
              span["special"].at = IdentEnd /\ Last(span["special"]) = SpecialEnd
         /\ span["pages"].len > 0 => span["pages"].at = SpecialEnd /\ Last(span["pages"]) = PagesEnd
         /\ span["requirements"].len > 0 =>
              span["requirements"].at = PagesEnd /\ Last(span["requirements"]) = RequirementsEnd
         /\ span["entitlements"].len > 0 =>
              span["entitlements"].at = RequirementsEnd /\ Last(span["entitlements"]) = EntitlementsEnd
<1>. USE DEF LayoutInv
<1>1. data \in Nat \ {0}
  BY WritingFacts
<1>2. /\ 0 <= SuperEnd /\ SuperEnd <= DirectoryEnd /\ DirectoryEnd <= IdentEnd
      /\ IdentEnd <= SpecialEnd /\ SpecialEnd <= PagesEnd
      /\ PagesEnd <= RequirementsEnd /\ RequirementsEnd <= EntitlementsEnd
      /\ SuperEnd \in Nat /\ DirectoryEnd \in Nat /\ IdentEnd \in Nat /\ SpecialEnd \in Nat
      /\ PagesEnd \in Nat /\ RequirementsEnd \in Nat /\ EntitlementsEnd \in Nat
  BY <1>1, EndsFacts
<1>3. ASSUME NEW p, NEW done, NEW from \in Nat, NEW to \in Nat,
             Written(p, done, from, to), span[p].len > 0
      PROVE  span[p].at = from /\ Last(span[p]) = to
  BY <1>3 DEF Written, Last
<1>. QED
  BY <1>2, <1>3 DEF Places

\* A part that is not written ends at 0.
LEMMA EmptyPartsEndAtZero ==
  ASSUME LayoutInv, pc # "allocate", NEW p \in Parts, ~(span[p].len > 0)
  PROVE  Last(span[p]) = 0
<1>. USE DEF LayoutInv
<1>1. data \in Nat \ {0}
  BY WritingFacts
<1>2. /\ 0 < SuperEnd /\ SuperEnd < DirectoryEnd /\ DirectoryEnd < IdentEnd
      /\ IdentEnd < SpecialEnd /\ PagesEnd < RequirementsEnd
      /\ xml # NoXml => RequirementsEnd < EntitlementsEnd
      /\ SuperEnd \in Nat /\ DirectoryEnd \in Nat /\ IdentEnd \in Nat /\ SpecialEnd \in Nat
      /\ PagesEnd \in Nat /\ RequirementsEnd \in Nat /\ EntitlementsEnd \in Nat
  BY <1>1, EndsFacts
<1>3. Pages(data) > 0 /\ SpecialEnd < PagesEnd
  BY <1>1, EndsFacts DEF Pages, Page
<1>4. ASSUME NEW done, NEW from \in Nat, NEW to \in Nat,
             Written(p, done, from, to), done => from < to
      PROVE  Last(span[p]) = 0
  BY <1>4 DEF Written, Last
<1>5. CASE p = "super"
  BY <1>2, <1>3, <1>4, <1>5 DEF Places
<1>6. CASE p = "directory"
  BY <1>2, <1>3, <1>4, <1>6 DEF Places
<1>7. CASE p = "ident"
  BY <1>2, <1>3, <1>4, <1>7 DEF Places
<1>8. CASE p = "special"
  BY <1>2, <1>3, <1>4, <1>8 DEF Places
<1>9. CASE p = "pages"
  BY <1>2, <1>3, <1>4, <1>9 DEF Places
<1>10. CASE p = "requirements"
  BY <1>2, <1>3, <1>4, <1>10 DEF Places
<1>11. CASE p = "entitlements"
  BY <1>2, <1>3, <1>4, <1>11 DEF Places
<1>12. QED
  BY <1>5, <1>6, <1>7, <1>8, <1>9, <1>10, <1>11 DEF Parts

\* No part ends behind the room that was asked for.
LEMMA InvariantStaysInRoom == LayoutInv => WritesWithinRoom
<1>. SUFFICES ASSUME LayoutInv, pc # "allocate"
              PROVE  offset <= room /\ \A p \in Parts : Last(span[p]) <= room
  BY DEF WritesWithinRoom
<1>. USE DEF LayoutInv
<1>1. data \in Nat \ {0} /\ EntitlementsEnd <= room /\ room \in Nat
  BY WritingFacts DEF TypeOK
<1>2. offset <= EntitlementsEnd
  BY <1>1, EndsFacts DEF OffsetIsEnd, TypeOK
<1>3. /\ EntitlementsEnd \in Nat /\ offset \in Nat
      /\ SuperEnd \in Nat /\ DirectoryEnd \in Nat /\ IdentEnd \in Nat /\ SpecialEnd \in Nat
      /\ PagesEnd \in Nat /\ RequirementsEnd \in Nat
  BY <1>1, EndsFacts DEF TypeOK
<1>4. ASSUME NEW p \in Parts PROVE Last(span[p]) <= room
  <2>1. CASE span[p].len > 0
    BY <1>1, <1>3, <2>1, PartsInOrder
  <2>2. CASE ~(span[p].len > 0)
    BY <1>1, <2>2, EmptyPartsEndAtZero
  <2>. QED
    BY <2>1, <2>2
<1>. QED
  BY <1>1, <1>2, <1>3, <1>4

\* No two parts overlap.
LEMMA InvariantKeepsPartsApart == LayoutInv => PartsDisjoint
<1>. SUFFICES ASSUME LayoutInv PROVE PartsDisjoint
  OBVIOUS
<1>. USE DEF LayoutInv
<1>1. CASE pc = "allocate"
  BY <1>1 DEF PartsDisjoint, Places, Written, SlotsHashed
<1>2. CASE pc # "allocate"
  <2>1. data \in Nat \ {0}
    BY <1>2, WritingFacts
  <2>2. ASSUME NEW p \in Parts, NEW q \in Parts, p # q, span[p].len > 0, span[q].len > 0
        PROVE  Last(span[p]) <= span[q].at \/ Last(span[q]) <= span[p].at
    <3>1. /\ SuperEnd \in Nat /\ DirectoryEnd \in Nat /\ IdentEnd \in Nat /\ SpecialEnd \in Nat
          /\ PagesEnd \in Nat /\ RequirementsEnd \in Nat /\ EntitlementsEnd \in Nat
      BY <2>1, EndsFacts
    <3>. QED
      BY <1>2, <2>2, <3>1, PartsInOrder
  <2>3. ASSUME NEW s \in Slots, hashed[s].len > 0
        PROVE  /\ span["special"].at <= slotAt[s]
               /\ slotAt[s] + HashSize <= Last(span["special"])
    <3>1. pc \in AfterSlots /\ s # DirectorySlot /\ (s = EntitlementsSlot => xml # NoXml)
      BY <2>3 DEF SlotsHashed
    <3>2. slotAt[s] = SpecialEnd - s * HashSize
      BY <3>1 DEF SlotsHashed
    <3>3. s <= Special(xml)
      BY <3>1 DEF Special
    <3>4. span["special"] = [at |-> IdentEnd, len |-> SpecialEnd - IdentEnd]
      BY <3>1 DEF Places, Written
    <3>. QED
      BY <2>1, <3>1, <3>2, <3>3, <3>4, EndsFacts DEF Last, HashSize
  <2>. QED
    BY <2>2, <2>3 DEF PartsDisjoint
<1>. QED
  BY <1>1, <1>2

\* The page hashes are of all the code and of nothing else.
LEMMA InvariantCoversCode == LayoutInv => PagesCoverCode
<1>. SUFFICES ASSUME LayoutInv, pc \in AfterPages
              PROVE  /\ (pages.count - 1) * Page + pages.last = data
                     /\ pages.last \in 1 .. Page
                     /\ span["pages"].len = pages.count * HashSize
  BY DEF PagesCoverCode, LayoutInv, TypeOK
<1>1. data \in Nat \ {0} /\ TypeOK
  BY WritingFacts
<1>2. pages = [count |-> Pages(data), last |-> ((data - 1) % Page) + 1]
  BY DEF LayoutInv, PagesHashed
<1>3. span["pages"].len = Pages(data) * 20
  BY <1>1, EndsFacts DEF LayoutInv, Places, Written
<1>4. /\ (Pages(data) - 1) * Page + ((data - 1) % Page) + 1 = data
      /\ ((data - 1) % Page) + 1 \in 1 .. Page
      /\ Pages(data) \in Nat
  BY <1>1, PagesFacts
<1>5. (pages.count - 1) * Page + pages.last = data
  BY <1>1, <1>2, <1>4 DEF Page
<1>. QED
  BY <1>2, <1>3, <1>4, <1>5 DEF HashSize

\* The special slots are of the blobs that are there.
LEMMA InvariantHashesBlobs == LayoutInv => SlotsCoverBlobs
<1>. SUFFICES ASSUME LayoutInv, pc = "signed"
              PROVE  /\ hashed[RequirementsSlot] = span["requirements"]
                     /\ span["requirements"].len > 0
                     /\ xml # NoXml => hashed[EntitlementsSlot] = span["entitlements"]
                                       /\ span["entitlements"].len = Blob + xml
  BY DEF SlotsCoverBlobs
<1>1. data \in Nat \ {0} /\ TypeOK
  BY WritingFacts
<1>2. span["requirements"].len = 12
  BY <1>1, EndsFacts DEF LayoutInv, Places, Written
<1>3. xml # NoXml => span["entitlements"].len = 8 + xml
  BY <1>1, EndsFacts DEF LayoutInv, Places, Written
<1>. QED
  BY <1>2, <1>3 DEF LayoutInv, SlotsHashed, Blob

\* ldid never writes past the room it asked codesign_allocate for: the check it makes
\* when all is written cannot fail.
THEOREM SignatureFits == Spec => []WritesWithinRoom
BY InitEstablishes, StepPreserves, InvariantStaysInRoom, PTL DEF Spec

\* The parts of the signature, and the hashes in the special slots, never overlap.
THEOREM PartsStayApart == Spec => []PartsDisjoint
BY InitEstablishes, StepPreserves, InvariantKeepsPartsApart, PTL DEF Spec

\* The page hashes cover each byte of the code once.
THEOREM PageHashesCoverCode == Spec => []PagesCoverCode
BY InitEstablishes, StepPreserves, InvariantCoversCode, PTL DEF Spec

\* The directory of a signed file has the hash of every other blob, in its whole extent.
THEOREM BlobsAreHashed == Spec => []SlotsCoverBlobs
BY InitEstablishes, StepPreserves, InvariantHashesBlobs, PTL DEF Spec

\* A file that is signed again and again does not grow by its old signatures.
THEOREM CodeEndStays == Spec => ResigningKeepsCode
<1>1. LayoutInv /\ [Next]_vars => [data # 0 => data' = data]_vars
  <2>. SUFFICES ASSUME LayoutInv, Next, data # 0 PROVE data' = data
    BY DEF vars
  <2>1. CASE Allocate
    BY <2>1 DEF Allocate, LayoutInv, Allocated
  <2>2. CASE WriteSuper \/ WriteDirectory \/ ClearSpecial \/ HashPages
    BY <2>2 DEF WriteSuper, WriteDirectory, ClearSpecial, HashPages
  <2>3. CASE WriteRequirements \/ WriteEntitlements \/ HashSlots \/ Check
    BY <2>3 DEF WriteRequirements, WriteEntitlements, HashSlots, Check
  <2>4. CASE \E b \in BaseLengths, x \in XmlSizes \cup {NoXml} : SignAgain(b, x)
    BY <2>4 DEF SignAgain
  <2>. QED
    BY <2>1, <2>2, <2>3, <2>4 DEF Next
<1>. QED
  BY <1>1, InitEstablishes, StepPreserves, PTL DEF Spec, ResigningKeepsCode
-----------------------------------------------------------------------------
(* LdidMachO: the words of a Mach-O file.                                  *)

\* What a mapped file is worked on with.
ProcOK ==
  /\ proc = [on |-> proc.on, host |-> proc.host, opts |-> proc.opts, swapped |-> proc.swapped,
             i |-> proc.i, sig |-> proc.sig, hashing |-> proc.hashing, late |-> proc.late]
  /\ proc.host \in Order
  /\ proc.hashing \in BOOLEAN /\ proc.late \in BOOLEAN
  /\ proc.i \in 0 .. Len(mach.cmds) + 2 /\ proc.sig \in 0 .. Len(mach.cmds)
  /\ proc.opts.w \in {NoProc} \cup 0 .. Addrs - 1

TypeInv ==
  /\ WellFormed(mach) /\ IsSeq(said)
  /\ end \in {"none", "done", "threw", "crashed", "asked"}
  /\ invocations \in 0 .. MaxInvocations
  /\ proc # NoProc => ProcOK
  /\ Ran => end = "none"

Stamp(c) == mach.cmds[c].timestamp
Unstamped(c) == [mach EXCEPT !.cmds[c].timestamp = Stored(Zero, mach.order)]

\* ldid knows the order of the file, and of the commands behind it the signature's place
\* and whether an LC_ID_DYLIB was there.
ReadInv ==
  Ran => /\ proc.swapped = (mach.order # proc.host)
         /\ proc.late => \E c \in Cmds(<<"id_dylib">>) : c < proc.i
         /\ proc.sig # 0 => mach.cmds[proc.sig].cmd.v = <<"code_signature">>
         /\ proc.sig = 0 => \A c \in Cmds(<<"code_signature">>) : c >= proc.i

\* A timestamp is Zero while the file is hashed, and the hash of that file then, until a
\* command is rewritten, which makes it the hash of another one.
Rewritten(c, i) == \E j \in DOMAIN mach.cmds : j < i /\ Stamp(c).v[2].cmds[j].cmd # mach.cmds[j].cmd
StampInv ==
  Ran /\ proc.opts.T /\ proc.opts.timeh =>
    \A c \in Cmds(<<"id_dylib">>) :
      c < proc.i =>
        IF proc.late THEN Rewritten(c, proc.i)
        ELSE Stamp(c).v = Hash(Unstamped(c), proc.opts.timev)

HashingInv ==
  Ran /\ proc.hashing =>
    /\ proc.opts.T /\ proc.opts.timeh
    /\ proc.i \in Cmds(<<"id_dylib">>) /\ Stamp(proc.i) = Stored(Zero, mach.order)

\* A file is refused for what is in it, or an option that has nothing to work on; and -S,
\* which does not stay with the file, has left its flag, of the file's order if it goes on.
ThrewInv ==
  /\ end = "threw" =>
       \/ ~Accepted(mach)
       \/ proc.opts.S /\ (mach.order # proc.host \/ ~mach.arm)
       \/ (proc.opts.e \/ proc.opts.s) /\ Cmds(<<"code_signature">>) = {}
  /\ Ran => ~proc.opts.S
  /\ proc # NoProc /\ proc.opts.S /\ ~proc.opts.s /\ Accepted(mach) => proc.host \in mach.flags
  /\ end = "asked" => proc.host = mach.order /\ mach.order \in mach.flags

IInv == TypeInv /\ ReadInv /\ StampInv /\ HashingInv /\ ThrewInv /\ StampIsOfFile
------------------------------------------------------------------------------
(* Words.                                                                  *)

\* With swapped_ as it should be, a load and a swap give the value.
LEMMA ReadsBack ==
  ASSUME NEW h \in Order, NEW o \in Order, NEW v
  PROVE  Swap(o # h, Load(h, Stored(v, o))) = Plain(v)
BY DEF Swap, Swap_, Load, Stored, Plain, Zero, Order

\* A swap and a store leave it in the order of the file.
LEMMA WritesBack ==
  ASSUME NEW h \in Order, NEW o \in Order, NEW v
  PROVE  Store(h, Swap(o # h, Plain(v))) = Stored(v, o)
<1>1. CASE v = Zero
  BY <1>1 DEF Swap, Swap_, Store, Stored, Plain, Zero, Order
<1>2. CASE v # Zero
  <2>1. Swap(o # h, Plain(v)) = [v |-> v, m |-> o # h]
    BY <1>2 DEF Swap, Swap_, Plain
  <2>2. o = CHOOSE x \in Order : (x = h) = ~(o # h)
    <3>1. \A x \in Order : (x = h) = ~(o # h) => x = o
      BY DEF Order
    <3> QED BY <3>1
  <2>3. Store(h, [v |-> v, m |-> o # h]) = Stored(v, CHOOSE x \in Order : (x = h) = ~(o # h))
    BY DEF Store
  <2> QED BY <2>1, <2>2, <2>3
<1> QED BY <1>1, <1>2

\* Zero needs no swap.
LEMMA ZeroIsStored == ASSUME NEW h, NEW o PROVE Store(h, Plain(Zero)) = Stored(Zero, o)
BY DEF Store, Stored, Plain, Zero

\* Storing a value keeps it, in whichever order.
LEMMA StoredValue == ASSUME NEW v, NEW o PROVE Stored(v, o).v = v
BY DEF Stored

\* Different values are different words.
LEMMA PlainIsInjective == ASSUME NEW v, NEW w PROVE Plain(v) = Plain(w) <=> v = w
BY DEF Plain
------------------------------------------------------------------------------
(* Sequences of anything.                                                  *)

\* What a sequence of anything is.
LEMMA SeqFacts ==
  ASSUME NEW s, IsSeq(s)
  PROVE  /\ Len(s) \in Nat /\ DOMAIN s = 1 .. Len(s)
         /\ s = [i \in 1 .. Len(s) |-> s[i]]
BY DEF IsSeq

\* A function on 1 .. n is a sequence of length n.
LEMMA SeqOfLength ==
  ASSUME NEW s, NEW n \in Nat, s = [i \in 1 .. n |-> s[i]]
  PROVE  IsSeq(s) /\ Len(s) = n
<1> DEFINE S == {s[i] : i \in DOMAIN s}
<1>1. s \in [1 .. n -> S] OBVIOUS
<1>2. s \in Seq(S) BY <1>1
<1> QED BY <1>1, <1>2 DEF IsSeq

\* A sequence that grows by one element.
LEMMA AppendFacts ==
  ASSUME NEW s, IsSeq(s), NEW x
  PROVE  /\ IsSeq(Append(s, x)) /\ Len(Append(s, x)) = Len(s) + 1
         /\ DOMAIN Append(s, x) \ DOMAIN s = {Len(s) + 1} /\ Append(s, x)[Len(s) + 1] = x
<1> DEFINE S == {s[i] : i \in DOMAIN s} \cup {x}
<1>1. s \in Seq(S) BY SeqFacts, SeqOfLength DEF IsSeq
<1>2. Append(s, x) \in Seq(S) BY <1>1
<1>3. /\ Len(Append(s, x)) = Len(s) + 1 /\ Append(s, x)[Len(s) + 1] = x
      /\ DOMAIN Append(s, x) = 1 .. Len(s) + 1 /\ DOMAIN s = 1 .. Len(s) /\ Len(s) \in Nat
  BY <1>1, <1>2
<1>4. Append(s, x) = [i \in 1 .. Len(s) + 1 |-> Append(s, x)[i]]
  <2> DEFINE t == Append(s, x)
  <2> HIDE DEF t, S
  <2>1. t \in Seq(S) /\ DOMAIN t = 1 .. Len(s) + 1 BY <1>2, <1>3 DEF t
  <2>2. PICK n \in Nat : t \in [1 .. n -> S] BY <2>1, SeqDef
  <2>3. t = [i \in DOMAIN t |-> t[i]] BY <2>2
  <2> QED BY <2>1, <2>3 DEF t
<1> QED BY <1>3, <1>4, SeqOfLength

\* A sequence in which one element is another.
LEMMA ExceptFacts ==
  ASSUME NEW s, IsSeq(s), NEW k \in DOMAIN s, NEW x
  PROVE  /\ IsSeq([s EXCEPT ![k] = x]) /\ Len([s EXCEPT ![k] = x]) = Len(s)
         /\ DOMAIN [s EXCEPT ![k] = x] = DOMAIN s
         /\ \A i \in DOMAIN s : [s EXCEPT ![k] = x][i] = IF i = k THEN x ELSE s[i]
<1> DEFINE t == [s EXCEPT ![k] = x]
<1>1. Len(s) \in Nat /\ DOMAIN s = 1 .. Len(s) BY SeqFacts
<1>2. DOMAIN t = DOMAIN s /\ \A i \in DOMAIN s : t[i] = IF i = k THEN x ELSE s[i] OBVIOUS
<1>3. t = [i \in 1 .. Len(s) |-> t[i]] BY <1>1
<1> HIDE DEF t
<1>4. IsSeq(t) /\ Len(t) = Len(s) BY <1>1, <1>3, SeqOfLength
<1> QED BY <1>1, <1>2, <1>4 DEF t

------------------------------------------------------------------------------
(* Induction, over sets of numbers.                                        *)

\* Every non-empty set of natural numbers has a least one.
LEMMA LeastNumber ==
  ASSUME NEW T \in SUBSET Nat, T # {} PROVE \E x \in T : \A y \in T : x <= y
<1> DEFINE R == OpToRel(<, Nat)
<1>1. IsWellFoundedOn(R, Nat) BY NatLessThanWellFounded
<1>2. \A x, y \in T : y < x => <<y, x>> \in R BY DEF OpToRel
<1> HIDE DEF R
<1>3. PICK x \in T : \A y \in T : ~(<<y, x>> \in R) BY <1>1, WFMin
<1>4. \A y \in T : ~(y < x) BY <1>2, <1>3
<1>5. \A y \in T : x <= y BY <1>4
<1> QED BY <1>5

\* A set that has 0 and with each number the next has all of them.
LEMMA Induction ==
  ASSUME NEW S, 0 \in S, \A n \in Nat : n \in S => n + 1 \in S PROVE \A n \in Nat : n \in S
<1> SUFFICES ASSUME Nat \ S # {} PROVE FALSE
  OBVIOUS
<1>1. PICK x \in Nat \ S : \A y \in Nat \ S : x <= y BY LeastNumber
<1>2. x # 0 /\ x - 1 \in Nat /\ x - 1 \notin Nat \ S BY <1>1
<1>3. x - 1 + 1 \in S BY <1>2
<1> QED BY <1>1, <1>3

------------------------------------------------------------------------------
(* Options.                                                                *)

After(args, n, g) ==
  g = [k \in 0 .. n |-> IF k = 0 THEN NoOptions ELSE Option(g[k - 1], args[k])]

\* The loop over argv has a value after each argument.
LEMMA AfterExists == ASSUME NEW args PROVE \A n \in Nat : \E g : After(args, n, g)
<1> DEFINE S == {n \in Nat : \E g : After(args, n, g)}
<1>1. 0 \in S
  <2>1. After(args, 0, [k \in 0 .. 0 |-> NoOptions]) BY DEF After
  <2> QED BY <2>1
<1>2. ASSUME NEW n \in Nat, n \in S PROVE n + 1 \in S
  <2>1. PICK g : After(args, n, g) BY <1>2
  <2> DEFINE h == [k \in 0 .. n + 1 |-> IF k = 0 THEN NoOptions ELSE Option(g[k - 1], args[k])]
  <2>2. \A k \in 0 .. n : h[k] = g[k] BY <2>1 DEF After
  <2> HIDE DEF h
  <2>3. \A k \in 0 .. n + 1 : g[k - 1] = h[k - 1] \/ k = 0
    <3>1. \A k \in 0 .. n + 1 : k = 0 \/ k - 1 \in 0 .. n OBVIOUS
    <3> QED BY <2>2, <3>1
  <2>4. After(args, n + 1, h) BY <2>3 DEF After, h
  <2> QED BY <2>4
<1> HIDE DEF S
<1>3. \A n \in Nat : n \in S BY <1>1, <1>2, Induction
<1> QED BY <1>3 DEF S

IsOptions(p) == DOMAIN p = DOMAIN NoOptions /\ p.w \in {NoProc} \cup 0 .. Addrs - 1

\* Whatever the command line, -w has an address if it is there.
LEMMA OptionsType == ASSUME NEW args \in ArgLists PROVE IsOptions(Options(args))
<1>1. Len(args) \in Nat /\ DOMAIN args = 1 .. Len(args) BY ArgAssumption, SeqFacts
<1> DEFINE g == CHOOSE g : After(args, Len(args), g)
<1>2. After(args, Len(args), g) BY <1>1, AfterExists
<1>3. Options(args) = g[Len(args)] BY DEF Options, After
<1> HIDE DEF g
<1>4. IsOptions(NoOptions) BY DEF IsOptions, NoOptions
<1>5. ASSUME NEW p, IsOptions(p), NEW i \in DOMAIN args PROVE IsOptions(Option(p, args[i]))
  <2>1. /\ args[i][1] \in {"-T-", "-T", "-w", "-R", "-t", "-u", "-e", "-s", "-S"}
        /\ args[i][1] = "-w" => args[i][2] \in 0 .. Addrs - 1
    BY ArgAssumption
  <2> DEFINE arg == args[i]
  <2> HIDE DEF arg
  <2>2. CASE args[i][1] = "-w"
    <3>1. Option(p, arg) = [p EXCEPT !.w = arg[2]] BY <2>2 DEF Option, arg
    <3>2. arg[2] \in 0 .. Addrs - 1 BY <2>1, <2>2 DEF arg
    <3> QED BY <3>1, <3>2, <1>5 DEF IsOptions, NoOptions, arg
  <2>3. CASE args[i][1] # "-w"
    <3>1. \/ Option(p, arg) = [p EXCEPT !.T = TRUE, !.timeh = TRUE]
          \/ Option(p, arg) = [p EXCEPT !.T = TRUE, !.timev = arg[2]]
          \/ Option(p, arg) = [p EXCEPT !.R = TRUE]
          \/ Option(p, arg) = [p EXCEPT !.t = TRUE]
          \/ Option(p, arg) = [p EXCEPT !.u = TRUE]
          \/ Option(p, arg) = [p EXCEPT !.e = TRUE]
          \/ Option(p, arg) = [p EXCEPT !.s = TRUE]
          \/ Option(p, arg) = [p EXCEPT !.S = TRUE]
      BY <2>1, <2>3 DEF Option, arg
    <3>2. "w" \in DOMAIN p BY <1>5 DEF IsOptions, NoOptions
    <3>3. DOMAIN Option(p, arg) = DOMAIN p /\ Option(p, arg).w = p.w BY <3>1, <3>2
    <3> QED BY <3>3, <1>5 DEF IsOptions, arg
  <2> QED BY <2>2, <2>3
<1> DEFINE S == {n \in Nat : n <= Len(args) => IsOptions(g[n])}
<1>6. 0 \in S BY <1>1, <1>2, <1>4 DEF After
<1>7. ASSUME NEW n \in Nat, n \in S PROVE n + 1 \in S
  <2> SUFFICES ASSUME n + 1 <= Len(args) PROVE IsOptions(g[n + 1])
    OBVIOUS
  <2>1. g[n + 1] = Option(g[n], args[n + 1]) BY <1>1, <1>2 DEF After
  <2>2. IsOptions(g[n]) /\ n + 1 \in DOMAIN args BY <1>1, <1>7
  <2> QED BY <1>5, <2>1, <2>2
<1>8. Len(args) \in S
  <2> HIDE DEF S
  <2> QED BY <1>1, <1>6, <1>7, Induction
<1> QED BY <1>3, <1>8

------------------------------------------------------------------------------
(* Sections.                                                               *)

\* A sum of two addresses, in 32 bits.
LEMMA SumOfAddresses ==
  ASSUME NEW x \in 0 .. Addrs - 1, NEW y \in 0 .. Addrs - 1
  PROVE  (x + y) % Addrs = IF x + y < Addrs THEN x + y ELSE x + y - Addrs
<1>1. Addrs \in Nat \ {0} BY MachAssumption
<1> DEFINE q == (x + y) \div Addrs
           r == (x + y) % Addrs
<1>2. x + y = Addrs * q + r /\ r \in 0 .. Addrs - 1 /\ q \in Int BY <1>1
<1> HIDE DEF q, r
<1>3. q >= 0 /\ q <= 1
  <2>1. ASSUME q <= -1 PROVE FALSE
    <3>1. Addrs * q <= Addrs * (-1) BY <1>1, <1>2, <2>1
    <3> QED BY <1>1, <1>2, <3>1
  <2>2. ASSUME q >= 2 PROVE FALSE
    <3>1. Addrs * q >= Addrs * 2 BY <1>1, <1>2, <2>2
    <3> QED BY <1>1, <1>2, <3>1
  <2> QED BY <1>2, <2>1, <2>2
<1>4. q = 0 \/ q = 1 BY <1>2, <1>3
<1>5. r = IF x + y < Addrs THEN x + y ELSE x + y - Addrs BY <1>1, <1>2, <1>4
<1> QED BY <1>5 DEF r

\* The section that GetPointer takes has the address, if any has.
LEMMA PointerIsWord ==
  ASSUME WellFormed(mach), NEW a \in 0 .. Addrs - 1
  PROVE  IF WordAt(a) = {} THEN GetPointer(mach, a) = NoProc
         ELSE GetPointer(mach, a) \in WordAt(a)
<1> DEFINE sections == [i \in DOMAIN mach.cmds |->
                          IF mach.cmds[i].cmd.v = <<"segment">> THEN mach.cmds[i].sections ELSE <<>>]
           places == UNION {{i} \X DOMAIN sections[i] : i \in DOMAIN mach.cmds}
           hits == {p \in places : Has(sections[p[1]][p[2]], a)}
           at(p) == a - sections[p[1]][p[2]].addr + sections[p[1]][p[2]].offset
           First(p) == \A q \in hits : p[1] < q[1] \/ (p[1] = q[1] /\ p[2] <= q[2])
<1>1. ASSUME NEW c \in DOMAIN mach.cmds, NEW k \in DOMAIN sections[c]
      PROVE  /\ c \in Cmds(<<"segment">>) /\ k \in DOMAIN mach.cmds[c].sections
             /\ sections[c][k] = mach.cmds[c].sections[k] /\ k \in Nat
             /\ sections[c][k].addr \in 0 .. Addrs - 1 /\ sections[c][k].size \in 0 .. Addrs - 1
  <2>1. c \in Cmds(<<"segment">>) /\ sections[c] = mach.cmds[c].sections BY DEF Cmds
  <2>2. IsCommand(mach.cmds[c], mach.order) BY DEF WellFormed
  <2>3. IsSeq(mach.cmds[c].sections) BY <2>1, <2>2 DEF IsCommand, Cmds
  <2>4. k \in Nat BY <2>1, <2>3, SeqFacts
  <2> QED BY <2>1, <2>2, <2>4 DEF IsCommand, Cmds
<1>2. ASSUME NEW s, s.addr \in 0 .. Addrs - 1, s.size \in 0 .. Addrs - 1
      PROVE  Has(s, a) <=> s.addr + s.size < Addrs /\ a \in s.addr .. s.addr + s.size - 1
  <2>1. (s.addr + s.size) % Addrs
          = IF s.addr + s.size < Addrs THEN s.addr + s.size ELSE s.addr + s.size - Addrs
    BY <1>2, SumOfAddresses
  <2> QED BY <1>2, <2>1, MachAssumption DEF Has
<1>p. ASSUME NEW p \in hits
      PROVE  /\ p[1] \in DOMAIN mach.cmds /\ p[2] \in DOMAIN sections[p[1]] /\ p = <<p[1], p[2]>>
             /\ Has(sections[p[1]][p[2]], a)
  <2> HIDE DEF sections
  <2>1. PICK i \in DOMAIN mach.cmds : p \in {i} \X DOMAIN sections[i] OBVIOUS
  <2> QED BY <2>1
<1>h. ASSUME NEW i \in DOMAIN mach.cmds, NEW k \in DOMAIN sections[i], Has(sections[i][k], a)
      PROVE  <<i, k>> \in hits
  <2> HIDE DEF sections
  <2>1. <<i, k>> \in {i} \X DOMAIN sections[i] OBVIOUS
  <2>2. <<i, k>> \in places BY <2>1
  <2>3. <<i, k>>[1] = i /\ <<i, k>>[2] = k OBVIOUS
  <2> QED BY <2>2, <2>3, <1>h
<1>3. \A p \in hits : at(p) \in WordAt(a)
  <2> SUFFICES ASSUME NEW p \in hits PROVE at(p) \in WordAt(a)
    OBVIOUS
  <2>1. p[1] \in DOMAIN mach.cmds /\ p[2] \in DOMAIN sections[p[1]] /\ Has(sections[p[1]][p[2]], a)
    BY <1>p
  <2> HIDE DEF sections
  <2>2. PICK s : s = mach.cmds[p[1]].sections[p[2]] OBVIOUS
  <2>3. /\ s = sections[p[1]][p[2]] /\ s.addr \in 0 .. Addrs - 1 /\ s.size \in 0 .. Addrs - 1
        /\ p[1] \in Cmds(<<"segment">>) /\ p[2] \in DOMAIN mach.cmds[p[1]].sections
    BY <1>1, <2>1, <2>2
  <2>4. s.addr + s.size < Addrs /\ a \in s.addr .. s.addr + s.size - 1 BY <1>2, <2>1, <2>3
  <2>5. at(p) = a - s.addr + s.offset BY <2>3
  <2>6. s \in UNION {{mach.cmds[c].sections[k] : k \in DOMAIN mach.cmds[c].sections} :
                       c \in Cmds(<<"segment">>)}
    <3> DEFINE of(c) == {mach.cmds[c].sections[k] : k \in DOMAIN mach.cmds[c].sections}
    <3>1. s \in of(p[1]) BY <2>2, <2>3
    <3> HIDE DEF of
    <3>2. s \in UNION {of(c) : c \in Cmds(<<"segment">>)} BY <2>3, <3>1
    <3> QED BY <3>2 DEF of
  <2> HIDE DEF at, hits
  <2> QED BY <2>4, <2>5, <2>6 DEF WordAt
<1>4. ASSUME WordAt(a) # {} PROVE hits # {}
  <2>1. PICK c \in Cmds(<<"segment">>) :
          \E k \in DOMAIN mach.cmds[c].sections :
            LET s == mach.cmds[c].sections[k]
            IN  s.addr + s.size < Addrs /\ a \in s.addr .. s.addr + s.size - 1
    BY <1>4 DEF WordAt
  <2>a. PICK k \in DOMAIN mach.cmds[c].sections :
          LET s == mach.cmds[c].sections[k]
          IN  s.addr + s.size < Addrs /\ a \in s.addr .. s.addr + s.size - 1
    BY <2>1
  <2>2. c \in DOMAIN mach.cmds /\ sections[c] = mach.cmds[c].sections BY DEF Cmds
  <2>3. Has(sections[c][k], a) BY <1>1, <1>2, <2>a, <2>2
  <2>4. <<c, k>> \in hits BY <1>h, <2>a, <2>2, <2>3
  <2> QED BY <2>4
<1>5. ASSUME hits # {} PROVE \E p \in hits : First(p)
  <2> DEFINE ones == {p[1] : p \in hits}
  <2>1. \A p \in hits : p[1] \in Nat /\ p[2] \in Nat /\ p = <<p[1], p[2]>>
    <3>1. DOMAIN mach.cmds \subseteq Nat
      <4>1. IsSeq(mach.cmds) BY DEF WellFormed
      <4> QED BY <4>1, SeqFacts
    <3> HIDE DEF sections, hits
    <3> QED BY <1>p, <1>1, <3>1
  <2> HIDE DEF hits
  <2>2. ones \in SUBSET Nat /\ ones # {} BY <1>5, <2>1
  <2>3. PICK i \in ones : \A j \in ones : i <= j
    <3> HIDE DEF ones
    <3> QED BY <2>2, LeastNumber
  <2> DEFINE twos == {k \in Nat : <<i, k>> \in hits}
  <2>4. twos \in SUBSET Nat /\ twos # {} BY <2>1, <2>3
  <2>5. PICK k \in twos : \A l \in twos : k <= l
    <3> HIDE DEF twos
    <3> QED BY <2>4, LeastNumber
  <2>6. First(<<i, k>>)
    <3> SUFFICES ASSUME NEW q \in hits PROVE i < q[1] \/ (i = q[1] /\ k <= q[2])
      BY <2>5
    <3>1. q[1] \in ones /\ i <= q[1] /\ q[1] \in Nat /\ i \in Nat BY <2>1, <2>2, <2>3
    <3>2. i = q[1] => q[2] \in twos BY <2>1
    <3> QED BY <2>5, <3>1, <3>2
  <2> QED BY <2>6
<1>6. GetPointer(mach, a) = IF hits = {} THEN NoProc ELSE at(CHOOSE p \in hits : First(p))
  BY DEF GetPointer
<1> HIDE DEF hits, at
<1>7. hits # {} => at(CHOOSE p \in hits : First(p)) \in WordAt(a)
  <2> HIDE DEF First
  <2> QED BY <1>3, <1>5
<1>8. hits # {} => WordAt(a) # {} BY <1>3
<1> QED BY <1>4, <1>6, <1>7, <1>8

------------------------------------------------------------------------------
(* The file and the commands in it.                                        *)

\* The commands of a well-formed file: each is one, in the order of the file, and there is
\* one LC_ID_DYLIB at most.
LEMMA CmdsFacts ==
  ASSUME WellFormed(mach)
  PROVE  /\ Len(mach.cmds) \in Nat /\ DOMAIN mach.cmds = 1 .. Len(mach.cmds)
         /\ \A c \in DOMAIN mach.cmds : IsCommand(mach.cmds[c], mach.order)
         /\ \A c, d \in Cmds(<<"id_dylib">>) : c = d
         /\ mach.order \in Order
BY SeqFacts DEF WellFormed, Cmds

PutAt(c, d) == [mach EXCEPT !.cmds[c] = d]

\* A command of the file is replaced by another one.
LEMMA PutFacts ==
  ASSUME WellFormed(mach), NEW c \in DOMAIN mach.cmds, NEW d, IsCommand(d, mach.order),
         d.cmd.v = <<"id_dylib">> => c \in Cmds(<<"id_dylib">>)
  PROVE  /\ WellFormed(PutAt(c, d))
         /\ Len(PutAt(c, d).cmds) = Len(mach.cmds) /\ DOMAIN PutAt(c, d).cmds = DOMAIN mach.cmds
         /\ \A j \in DOMAIN mach.cmds : PutAt(c, d).cmds[j] = IF j = c THEN d ELSE mach.cmds[j]
         /\ PutAt(c, d).order = mach.order
         /\ PutAt(c, d) = [fat |-> mach.fat, archs |-> mach.archs, order |-> mach.order,
                         magic |-> mach.magic, filetype |-> mach.filetype, flags |-> mach.flags,
                         arm |-> mach.arm, pages |-> mach.pages, cmds |-> [mach.cmds EXCEPT ![c] = d]]
<1> DEFINE cmds == [mach.cmds EXCEPT ![c] = d]
           m == PutAt(c, d)
<1>1. m = [fat |-> mach.fat, archs |-> mach.archs, order |-> mach.order,
           magic |-> mach.magic, filetype |-> mach.filetype, flags |-> mach.flags,
           arm |-> mach.arm, pages |-> mach.pages, cmds |-> cmds]
  <2>1. PICK f : f = [fat |-> mach.fat, archs |-> mach.archs, order |-> mach.order, magic |-> mach.magic,
                      filetype |-> mach.filetype, flags |-> mach.flags, arm |-> mach.arm, pages |-> mach.pages, cmds |-> mach.cmds]
    OBVIOUS
  <2>2. mach = f BY <2>1 DEF WellFormed
  <2>3. [f EXCEPT !.cmds[c] = d] = [f EXCEPT !.cmds = [f.cmds EXCEPT ![c] = d]] OBVIOUS
  <2>4. [f EXCEPT !.cmds = cmds] = [fat |-> f.fat, archs |-> f.archs, order |-> f.order, magic |-> f.magic,
                      filetype |-> f.filetype, flags |-> f.flags, arm |-> f.arm, pages |-> f.pages, cmds |-> cmds]
    BY <2>1
  <2> QED BY <2>2, <2>3, <2>4 DEF PutAt
<1>2. IsSeq(mach.cmds) BY DEF WellFormed
<1>3. /\ IsSeq(cmds) /\ Len(cmds) = Len(mach.cmds) /\ DOMAIN cmds = DOMAIN mach.cmds
      /\ \A j \in DOMAIN mach.cmds : cmds[j] = IF j = c THEN d ELSE mach.cmds[j]
  BY <1>2, ExceptFacts
<1> HIDE DEF cmds, m
<1>4. /\ m.fat = mach.fat /\ m.archs = mach.archs /\ m.order = mach.order /\ m.magic = mach.magic
      /\ m.filetype = mach.filetype /\ m.flags = mach.flags /\ m.arm = mach.arm
      /\ m.pages = mach.pages /\ m.cmds = cmds
  BY <1>1
<1>5. \A j \in DOMAIN cmds : IsCommand(cmds[j], m.order) BY <1>3, <1>4, CmdsFacts
<1>6. \A j, k \in DOMAIN cmds : cmds[j].cmd.v = <<"id_dylib">> /\ cmds[k].cmd.v = <<"id_dylib">> => j = k
  <2>1. \A j \in DOMAIN cmds : cmds[j].cmd.v = <<"id_dylib">> => j \in Cmds(<<"id_dylib">>)
    BY <1>3 DEF Cmds
  <2> QED BY <2>1, CmdsFacts
<1>7. WellFormed(m) BY <1>1, <1>3, <1>4, <1>5, <1>6 DEF WellFormed
<1> QED BY <1>1, <1>3, <1>4, <1>7 DEF m, cmds

\* -T: a timestamp is replaced.
LEMMA StampFacts ==
  ASSUME WellFormed(mach), NEW c \in Cmds(<<"id_dylib">>), NEW v
  PROVE  LET d == [mach.cmds[c] EXCEPT !.timestamp = Stored(v, mach.order)]
         IN  /\ IsCommand(d, mach.order) /\ d.cmd = mach.cmds[c].cmd
             /\ d.timestamp = Stored(v, mach.order)
             /\ [mach EXCEPT !.cmds[c].timestamp = Stored(v, mach.order)] = PutAt(c, d)
<1> DEFINE b == mach.cmds[c]
           d == [b EXCEPT !.timestamp = Stored(v, mach.order)]
<1>1. IsCommand(b, mach.order) /\ b.cmd.v = <<"id_dylib">> BY CmdsFacts DEF Cmds
<1>2. c \in DOMAIN mach.cmds BY DEF Cmds
<1>3. [mach EXCEPT !.cmds[c].timestamp = Stored(v, mach.order)] = PutAt(c, d) BY <1>2 DEF PutAt
<1> HIDE DEF b
<1>4. /\ "cmd" \in DOMAIN b /\ "timestamp" \in DOMAIN b /\ b = [x \in DOMAIN b |-> b[x]]
  BY <1>1 DEF IsCommand
<1>5. /\ DOMAIN d = DOMAIN b /\ d = [x \in DOMAIN d |-> d[x]]
      /\ d.timestamp = Stored(v, mach.order) /\ d.cmd = b.cmd
  BY <1>4
<1> HIDE DEF d
<1>6. IsCommand(d, mach.order) BY <1>1, <1>4, <1>5 DEF IsCommand, Stored
<1> QED BY <1>3, <1>5, <1>6 DEF d, b

\* What is hashed has every command and the page hashes of the file, and everything but the
\* timestamp.
LEMMA UnstampedFacts ==
  ASSUME NEW f, WellFormed(f), NEW c \in DOMAIN f.cmds, NEW z
  PROVE  LET g == [f EXCEPT !.cmds[c].timestamp = z]
         IN  g.pages = f.pages /\ \A j \in DOMAIN f.cmds : g.cmds[j].cmd = f.cmds[j].cmd
<1> DEFINE b == f.cmds[c]
           d == [b EXCEPT !.timestamp = z]
           cmds == [f.cmds EXCEPT ![c] = d]
           g == [f EXCEPT !.cmds[c].timestamp = z]
<1>1. f = [fat |-> f.fat, archs |-> f.archs, order |-> f.order, magic |-> f.magic,
           filetype |-> f.filetype, flags |-> f.flags, arm |-> f.arm, pages |-> f.pages, cmds |-> f.cmds]
  BY DEF WellFormed
<1>2. \A j \in DOMAIN f.cmds : "cmd" \in DOMAIN f.cmds[j] BY DEF WellFormed, IsCommand
<1>3. g = [f EXCEPT !.cmds = cmds] OBVIOUS
<1> HIDE DEF g, cmds
<1>4. g.pages = f.pages /\ g.cmds = cmds BY <1>1, <1>3
<1>5. \A j \in DOMAIN f.cmds : cmds[j] = IF j = c THEN d ELSE f.cmds[j] BY DEF cmds
<1>6. d.cmd = b.cmd
  <2>1. "cmd" \in DOMAIN b BY <1>2
  <2> HIDE DEF b
  <2> QED BY <2>1
<1> HIDE DEF d
<1> QED BY <1>4, <1>5, <1>6 DEF g, b

\* -s: the page hashes are other ones.
LEMMA RehashedFacts ==
  ASSUME WellFormed(mach), NEW x
  PROVE  LET m == [mach EXCEPT !.pages = x]
         IN  /\ WellFormed(m) /\ m.pages = x /\ m.cmds = mach.cmds /\ m.order = mach.order
             /\ m.flags = mach.flags
<1> DEFINE m == [mach EXCEPT !.pages = x]
<1>1. m = [fat |-> mach.fat, archs |-> mach.archs, order |-> mach.order, magic |-> mach.magic,
           filetype |-> mach.filetype, flags |-> mach.flags, arm |-> mach.arm, pages |-> x,
           cmds |-> mach.cmds]
  BY DEF WellFormed
<1> HIDE DEF m
<1>2. /\ m.fat = mach.fat /\ m.archs = mach.archs /\ m.order = mach.order /\ m.magic = mach.magic
      /\ m.filetype = mach.filetype /\ m.flags = mach.flags /\ m.arm = mach.arm /\ m.pages = x
      /\ m.cmds = mach.cmds
  BY <1>1
<1>3. WellFormed(m) BY <1>1, <1>2 DEF WellFormed
<1> QED BY <1>2, <1>3 DEF m

\* -R: a command is replaced.
LEMMA ReexportFacts ==
  ASSUME WellFormed(mach), NEW c \in DOMAIN mach.cmds
  PROVE  LET d == [mach.cmds[c] EXCEPT !.cmd = Stored(<<"load_dylib">>, mach.order)]
         IN  /\ IsCommand(d, mach.order) /\ d.cmd = Stored(<<"load_dylib">>, mach.order)
             /\ [mach EXCEPT !.cmds[c].cmd = Stored(<<"load_dylib">>, mach.order)] = PutAt(c, d)
<1> DEFINE b == mach.cmds[c]
           d == [b EXCEPT !.cmd = Stored(<<"load_dylib">>, mach.order)]
<1>1. IsCommand(b, mach.order) BY CmdsFacts
<1>2. [mach EXCEPT !.cmds[c].cmd = Stored(<<"load_dylib">>, mach.order)] = PutAt(c, d) BY DEF PutAt
<1> HIDE DEF b
<1>3. /\ "cmd" \in DOMAIN b /\ b = [x \in DOMAIN b |-> b[x]]
  BY <1>1 DEF IsCommand
<1>4. /\ DOMAIN d = DOMAIN b /\ d = [x \in DOMAIN d |-> d[x]]
      /\ d.cmd = Stored(<<"load_dylib">>, mach.order)
  BY <1>3
<1> HIDE DEF d
<1>5. IsCommand(d, mach.order) BY <1>3, <1>4 DEF IsCommand, Stored, Zero
<1> QED BY <1>2, <1>4, <1>5 DEF d, b

\* What ldid takes a command for is what it is.
LEMMA IsItself ==
  ASSUME TypeInv, ReadInv, Ran, proc.i \in DOMAIN mach.cmds, NEW v
  PROVE  Is(v) <=> Cmd.cmd.v = v
<1>1. IsCommand(Cmd, mach.order) /\ mach.order \in Order BY CmdsFacts DEF Cmd, TypeInv
<1>2. proc.host \in Order /\ proc.swapped = (mach.order # proc.host)
  BY DEF TypeInv, ProcOK, ReadInv, Ran
<1>3. Cmd.cmd = Stored(Cmd.cmd.v, mach.order) BY <1>1 DEF IsCommand
<1>4. Swap(proc.swapped, Load(proc.host, Cmd.cmd)) = Plain(Cmd.cmd.v) BY <1>1, <1>2, <1>3, ReadsBack
<1> QED BY <1>4, PlainIsInjective DEF Is

\* Framework's constructor knows the order of a file, and refuses one for what it holds.
LEMMA FrameworkFacts ==
  ASSUME WellFormed(mach), NEW h \in Order
  PROVE  /\ Framework(h, mach).ok <=> Accepted(mach)
         /\ Framework(h, mach).ok => Framework(h, mach).swapped = (mach.order # h)
<1> DEFINE first == Load(h, IF mach.fat = "no" THEN Stored(mach.magic, mach.order)
                            ELSE Stored(<<"fat">>, mach.fat))
           s1 == first = FAT_CIGAM
           magic == Swap(s1, Load(h, Stored(mach.magic, mach.order)))
           s2 == IF magic = MH_CIGAM THEN ~s1 ELSE s1
           type == Swap(s2, Load(h, Stored(mach.filetype, mach.order)))
<1>1. mach.order \in Order /\ mach.fat \in Order \cup {"no"} BY DEF WellFormed
<1>2. Framework(h, mach) =
        [ok |-> /\ first \in {FAT_CIGAM, FAT_MAGIC} => mach.archs # 0
                /\ magic \in {MH_CIGAM, MH_MAGIC} /\ type \in {Plain(t) : t \in FileTypes},
         swapped |-> s2]
  BY DEF Framework
<1>3. magic.v = mach.magic BY DEF Swap, Swap_, Load, Stored, Zero
<1>4. magic \in {MH_CIGAM, MH_MAGIC} <=> mach.magic = <<"mach">>
  <2>1. magic \in {MH_CIGAM, MH_MAGIC} => mach.magic = <<"mach">>
    BY <1>3 DEF MH_CIGAM, MH_MAGIC, Mirrored, Plain
  <2>2. mach.magic = <<"mach">> => magic \in {MH_CIGAM, MH_MAGIC}
    BY <1>1 DEF MH_CIGAM, MH_MAGIC, Mirrored, Plain, Swap, Swap_, Load, Stored, Zero
  <2> QED BY <2>1, <2>2
<1>l. \A v, o : v # Zero => Load(h, Stored(v, o)) = [v |-> v, m |-> o # h]
  BY DEF Load, Stored
<1>f. mach.magic = <<"mach">> =>
        /\ mach.fat = "no" => first = [v |-> <<"mach">>, m |-> mach.order # h]
        /\ mach.fat # "no" => first = [v |-> <<"fat">>, m |-> mach.fat # h]
  BY <1>l DEF Zero
<1>m. mach.magic = <<"mach">> => Load(h, Stored(mach.magic, mach.order)) = [v |-> <<"mach">>, m |-> mach.order # h]
  BY <1>l DEF Zero
<1>5. mach.magic = <<"mach">> => s2 = (mach.order # h)
  <2> SUFFICES ASSUME mach.magic = <<"mach">> PROVE s2 = (mach.order # h)
    OBVIOUS
  <2> DEFINE w == [v |-> <<"mach">>, m |-> mach.order # h]
  <2>1. magic = Swap(s1, w) BY <1>m
  <2>2. s1 \in BOOLEAN OBVIOUS
  <2> HIDE DEF s1, magic
  <2>3. CASE s1 = TRUE
    <3>1. magic = [v |-> <<"mach">>, m |-> ~(mach.order # h)] BY <2>1, <2>3 DEF Swap, Swap_, Zero
    <3>2. magic = MH_CIGAM <=> ~(mach.order # h) BY <3>1 DEF MH_CIGAM, Mirrored
    <3>3. s2 = ~(magic = MH_CIGAM) BY <2>3
    <3> QED BY <3>2, <3>3
  <2>4. CASE s1 = FALSE
    <3>1. magic = w BY <2>1, <2>4 DEF Swap
    <3>2. magic = MH_CIGAM <=> mach.order # h BY <3>1 DEF MH_CIGAM, Mirrored
    <3> QED BY <2>4, <3>2
  <2> QED BY <2>2, <2>3, <2>4
<1>6. mach.magic = <<"mach">> => (first \in {FAT_CIGAM, FAT_MAGIC} <=> mach.fat # "no")
  <2> SUFFICES ASSUME mach.magic = <<"mach">>
               PROVE  first \in {FAT_CIGAM, FAT_MAGIC} <=> mach.fat # "no"
    OBVIOUS
  <2> HIDE DEF first
  <2>1. FAT_CIGAM = [v |-> <<"fat">>, m |-> TRUE] /\ FAT_MAGIC = [v |-> <<"fat">>, m |-> FALSE]
    BY DEF FAT_CIGAM, FAT_MAGIC, Mirrored, Plain
  <2>2. CASE mach.fat = "no"
    <3>1. first.v # <<"fat">> BY <1>f, <2>2
    <3> QED BY <2>1, <2>2, <3>1
  <2>3. CASE mach.fat # "no"
    <3>1. (mach.fat # h) \in BOOLEAN OBVIOUS
    <3> QED BY <1>f, <2>1, <2>3, <3>1
  <2> QED BY <2>2, <2>3
<1>7. mach.magic = <<"mach">> => (type \in {Plain(t) : t \in FileTypes} <=> mach.filetype \in FileTypes)
  <2> SUFFICES ASSUME mach.magic = <<"mach">>
               PROVE  type \in {Plain(t) : t \in FileTypes} <=> mach.filetype \in FileTypes
    OBVIOUS
  <2>1. s2 = (mach.order # h) BY <1>5
  <2> HIDE DEF s2
  <2>2. type = Plain(mach.filetype) BY <1>1, <2>1, ReadsBack
  <2> HIDE DEF type
  <2> QED BY <2>2, PlainIsInjective
<1> HIDE DEF first, magic, s2, type
<1> QED BY <1>2, <1>4, <1>5, <1>6, <1>7 DEF Accepted

------------------------------------------------------------------------------
(* The invariant.                                                          *)

LEMMA InitInv == MachInit => IInv
<1> SUFFICES ASSUME MachInit PROVE IInv
  OBVIOUS
<1>1. IsSeq(said) BY DEF MachInit, IsSeq
<1>2. ~Ran /\ end = "none" /\ WellFormed(mach) /\ invocations = 0
  BY MachAssumption DEF MachInit, Ran
<1> QED BY <1>1, <1>2, MachAssumption
        DEF IInv, TypeInv, ReadInv, StampInv, HashingInv, ThrewInv, StampIsOfFile, MachInit

\* When nothing runs on, nothing but the end has to be right.
LEMMA EndInv ==
  ASSUME TypeInv', ~Ran', ThrewInv', StampIsOfFile' PROVE IInv'
BY DEF IInv, ReadInv, StampInv, HashingInv

\* -S, of which only the flag is written.
LEMMA FlagFacts ==
  ASSUME WellFormed(mach), NEW x \in Order, mach' = [mach EXCEPT !.flags = @ \cup {x}]
  PROVE  /\ WellFormed(mach)' /\ mach'.cmds = mach.cmds /\ mach'.order = mach.order
         /\ mach'.arm = mach.arm /\ x \in mach'.flags
<1>1. mach' = [fat |-> mach.fat, archs |-> mach.archs, order |-> mach.order,
               magic |-> mach.magic, filetype |-> mach.filetype, flags |-> mach.flags \cup {x},
               arm |-> mach.arm, pages |-> mach.pages, cmds |-> mach.cmds]
  BY DEF WellFormed
<1>2. mach'.flags \subseteq Order BY <1>1 DEF WellFormed
<1>3. /\ mach'.fat = mach.fat /\ mach'.archs = mach.archs /\ mach'.order = mach.order
      /\ mach'.magic = mach.magic /\ mach'.filetype = mach.filetype /\ mach'.pages = mach.pages
      /\ mach'.arm = mach.arm /\ mach'.cmds = mach.cmds /\ mach'.flags = mach.flags \cup {x}
  BY <1>1
<1> QED BY <1>1, <1>2, <1>3 DEF WellFormed

LEMMA OpenInv ==
  ASSUME IInv, NEW h \in LdidHosts, NEW args \in ArgLists, Open(h, args) PROVE IInv'
<1> DEFINE p == Options(args)
           f == Framework(h, mach)
<1>1. h \in Order /\ WellFormed(mach) BY MachAssumption DEF IInv, TypeInv
<1>2. p.w \in {NoProc} \cup 0 .. Addrs - 1 BY OptionsType DEF IsOptions
<1>3. proc' = [on |-> f.ok /\ ~p.S, host |-> h, opts |-> p, swapped |-> f.swapped,
               i |-> 0, sig |-> 0, hashing |-> FALSE, late |-> FALSE]
  BY DEF Open
<1>4. (f.ok <=> Accepted(mach)) /\ (f.ok => f.swapped = (mach.order # h))
  BY <1>1, FrameworkFacts
<1>5. invocations' \in 0 .. MaxInvocations /\ IsSeq(said') /\ said' = <<>>
  <2>1. invocations' \in 0 .. MaxInvocations BY MachAssumption DEF Open, IInv, TypeInv
  <2>2. said' = <<>> BY DEF Open
  <2>3. IsSeq(<<>>) BY DEF IsSeq
  <2> QED BY <2>1, <2>2, <2>3
<1> HIDE DEF p, f
<1>6. /\ proc'.on = (f.ok /\ ~p.S) /\ proc'.host = h /\ proc'.opts = p /\ proc'.swapped = f.swapped
      /\ proc'.i = 0 /\ proc'.sig = 0 /\ proc'.hashing = FALSE /\ proc'.late = FALSE
  BY <1>3
<1>7. ASSUME WellFormed(mach)' PROVE ProcOK'
  <2>1. Len(mach'.cmds) \in Nat BY <1>7, SeqFacts DEF WellFormed
  <2>2. proc' = [on |-> proc'.on, host |-> proc'.host, opts |-> proc'.opts, swapped |-> proc'.swapped,
                 i |-> proc'.i, sig |-> proc'.sig, hashing |-> proc'.hashing, late |-> proc'.late]
    BY <1>3, <1>6
  <2>3. proc'.opts.w \in {NoProc} \cup 0 .. Addrs - 1 BY <1>2, <1>6
  <2>4. proc'.host \in Order BY <1>1, <1>6
  <2>5. proc'.hashing \in BOOLEAN /\ proc'.late \in BOOLEAN BY <1>6
  <2>6. proc'.i \in 0 .. Len(mach'.cmds) + 2 /\ proc'.sig \in 0 .. Len(mach'.cmds)
    BY <1>6, <2>1
  <2> QED BY <2>2, <2>3, <2>4, <2>5, <2>6 DEF ProcOK
<1>8. CASE p.S /\ p.s /\ end' = "crashed" /\ UNCHANGED mach
  <2>1. ~Ran' BY <1>6, <1>8 DEF Ran
  <2>2. TypeInv' BY <1>1, <1>5, <1>7, <1>8, <2>1 DEF TypeInv
  <2>3. ThrewInv' BY <1>6, <1>8, <2>1 DEF ThrewInv
  <2>4. StampIsOfFile' BY <1>8 DEF StampIsOfFile
  <2> QED BY <2>1, <2>2, <2>3, <2>4, EndInv
<1>9. CASE ~f.ok /\ ~(p.S /\ p.s) /\ end' = "threw" /\ UNCHANGED mach
  <2>1. ~Ran' BY <1>6, <1>9 DEF Ran
  <2>2. TypeInv' BY <1>1, <1>5, <1>7, <1>9, <2>1 DEF TypeInv
  <2>3. ~Accepted(mach)' BY <1>4, <1>9 DEF Accepted
  <2>4. ThrewInv' BY <1>9, <2>1, <2>3 DEF ThrewInv
  <2>5. StampIsOfFile' BY <1>9 DEF StampIsOfFile
  <2> QED BY <2>1, <2>2, <2>4, <2>5, EndInv
<1>10. CASE f.ok /\ p.S /\ ~p.s /\ Prepare(h)
  <2>1. ~Ran' BY <1>6, <1>10 DEF Ran
  <2>2. WellFormed(mach)' /\ mach'.order = mach.order /\ mach'.arm = mach.arm /\ h \in mach'.flags
    BY <1>1, <1>10, FlagFacts DEF Prepare
  <2>3. end' = IF mach.order = h /\ mach.arm THEN "asked" ELSE "threw" BY <1>10 DEF Prepare
  <2>4. TypeInv' BY <1>5, <1>7, <2>1, <2>2, <2>3 DEF TypeInv
  <2>5. ThrewInv' BY <1>6, <1>10, <2>1, <2>2, <2>3 DEF ThrewInv
  <2>6. StampIsOfFile' BY <2>3 DEF StampIsOfFile
  <2> QED BY <2>1, <2>4, <2>5, <2>6, EndInv
<1>11. CASE f.ok /\ ~p.S /\ end' = "none" /\ UNCHANGED mach
  <2>1. TypeInv' BY <1>1, <1>5, <1>7, <1>11 DEF TypeInv
  <2>2. \A v : \A c \in Cmds(v)' : c \in Nat /\ c >= 1
    BY <1>1, <1>11, CmdsFacts DEF Cmds
  <2>3. ReadInv' BY <1>4, <1>6, <1>11, <2>2 DEF ReadInv
  <2>4. StampInv' BY <1>6, <2>2 DEF StampInv
  <2>5. HashingInv' BY <1>6 DEF HashingInv
  <2>6. ThrewInv' /\ StampIsOfFile' BY <1>6, <1>11 DEF ThrewInv, StampIsOfFile
  <2> QED BY <2>1, <2>3, <2>4, <2>5, <2>6 DEF IInv
<1> QED BY <1>8, <1>9, <1>10, <1>11 DEF Open, p, f

\* Behind a command that is left as it is, and not the one to be hashed, nothing changes.
LEMMA StampKept ==
  ASSUME WellFormed(mach), StampInv, Ran, UNCHANGED mach, proc.i \in Nat, proc'.i = proc.i + 1,
         proc'.opts = proc.opts, proc'.late = proc.late,
         proc.i \in Cmds(<<"id_dylib">>) => ~(proc.opts.T /\ proc.opts.timeh)
  PROVE  StampInv'
<1>p. \A c : Stamp(c)' = Stamp(c) /\ Unstamped(c)' = Unstamped(c) BY DEF Stamp, Unstamped
<1>q. Cmds(<<"id_dylib">>)' = Cmds(<<"id_dylib">>) BY DEF Cmds
<1>r. \A c : Rewritten(c, proc.i)' <=> Rewritten(c, proc.i + 1) BY DEF Rewritten, Stamp
<1> SUFFICES ASSUME proc.opts.T, proc.opts.timeh, NEW c \in Cmds(<<"id_dylib">>), c < proc.i + 1
             PROVE  IF proc.late THEN Rewritten(c, proc.i + 1)
                    ELSE Stamp(c).v = Hash(Unstamped(c), proc.opts.timev)
  <2> DEFINE Good(c) == IF proc.late THEN Rewritten(c, proc.i)
                        ELSE Stamp(c).v = Hash(Unstamped(c), proc.opts.timev)
  <2>1. \A c : Good(c)' <=> IF proc.late THEN Rewritten(c, proc.i + 1)
                            ELSE Stamp(c).v = Hash(Unstamped(c), proc.opts.timev)
    BY <1>p, <1>r DEF Hash
  <2>2. StampInv' = (Ran' /\ proc'.opts.T /\ proc'.opts.timeh =>
          \A c \in Cmds(<<"id_dylib">>)' : c < proc'.i => Good(c)')
    BY DEF StampInv
  <2> HIDE DEF Good
  <2> QED BY <1>q, <2>1, <2>2
<1>1. c \in Nat /\ c # proc.i BY CmdsFacts DEF Cmds
<1>2. c < proc.i BY <1>1
<1>3. IF proc.late THEN Rewritten(c, proc.i) ELSE Stamp(c).v = Hash(Unstamped(c), proc.opts.timev)
  BY <1>2 DEF StampInv
<1>4. Rewritten(c, proc.i) => Rewritten(c, proc.i + 1) BY CmdsFacts DEF Rewritten
<1> QED BY <1>3, <1>4

\* The loop goes on from a command that is left as it is.
LEMMA AdvanceInv ==
  ASSUME IInv, Ran, ~proc.hashing, proc.i <= Len(mach.cmds) + 1,
         proc' = [proc EXCEPT !.i = @ + 1], IsSeq(said'), UNCHANGED <<mach, end, invocations>>,
         proc.i \notin Cmds(<<"code_signature">>),
         proc.i \in Cmds(<<"id_dylib">>) => ~(proc.opts.T /\ proc.opts.timeh)
  PROVE  IInv'
<1>1. TypeInv /\ ProcOK /\ end = "none" /\ WellFormed(mach) BY DEF IInv, TypeInv, Ran
<1>2. /\ DOMAIN mach.cmds = 1 .. Len(mach.cmds) /\ Len(mach.cmds) \in Nat BY <1>1, CmdsFacts
<1>3. /\ proc'.on = proc.on /\ proc'.host = proc.host /\ proc'.opts = proc.opts
      /\ proc'.swapped = proc.swapped /\ proc'.i = proc.i + 1 /\ proc'.sig = proc.sig
      /\ proc'.hashing = FALSE /\ proc'.late = proc.late /\ proc.i \in Nat
      /\ proc' = [on |-> proc'.on, host |-> proc'.host, opts |-> proc'.opts, swapped |-> proc'.swapped,
                  i |-> proc'.i, sig |-> proc'.sig, hashing |-> proc'.hashing, late |-> proc'.late]
  BY <1>1 DEF ProcOK
<1>4. ProcOK' BY <1>1, <1>2, <1>3 DEF ProcOK
<1>5. TypeInv' BY <1>1, <1>4 DEF TypeInv
<1>6. \A v : Cmds(v)' = Cmds(v) /\ \A c \in Cmds(v) : c \in Nat BY <1>2 DEF Cmds
<1>7. ReadInv' BY <1>3, <1>6 DEF ReadInv, IInv
<1>8. StampInv' BY <1>1, <1>3, StampKept DEF IInv
<1>9. HashingInv' BY <1>3 DEF HashingInv
<1>10. ThrewInv' /\ StampIsOfFile' BY <1>1, <1>3 DEF ThrewInv, StampIsOfFile, IInv
<1> QED BY <1>5, <1>7, <1>8, <1>9, <1>10 DEF IInv

\* Where the loop is.
LEMMA AtCmdFacts ==
  ASSUME IInv, AtCmd
  PROVE  /\ Ran /\ ~proc.hashing /\ proc.i \in DOMAIN mach.cmds /\ proc.i \in Nat
         /\ proc.i <= Len(mach.cmds) /\ WellFormed(mach)
         /\ \A v : Is(v) <=> proc.i \in Cmds(v)
         /\ \A v, w : proc.i \in Cmds(v) /\ proc.i \in Cmds(w) => v = w
<1>1. WellFormed(mach) /\ Ran /\ ~proc.hashing /\ proc.i \in DOMAIN mach.cmds BY DEF AtCmd, IInv, TypeInv
<1>2. \A v : Is(v) <=> proc.i \in Cmds(v) BY <1>1, IsItself DEF IInv, Cmds, Cmd
<1> QED BY <1>1, <1>2, CmdsFacts DEF Cmds

\* What is printed comes behind what was printed.
LEMMA SaidIsSeq ==
  ASSUME IsSeq(said), said' = said \/ \E x : said' = Append(said, x) PROVE IsSeq(said')
<1>1. ASSUME NEW x, said' = Append(said, x) PROVE IsSeq(said')
  <2>1. IsSeq(Append(said, x)) BY AppendFacts
  <2> QED BY <1>1, <2>1
<1>2. CASE said' = said
  <2> QED BY <1>2
<1> QED BY <1>1, <1>2

LEMMA PrintWordInv == ASSUME IInv, PrintWord PROVE IInv'
<1>1. Ran /\ proc.i = 0 /\ WellFormed(mach) BY DEF PrintWord, IInv, TypeInv
<1>2. ~proc.hashing
  <2>1. 0 \notin Cmds(<<"id_dylib">>) BY <1>1, CmdsFacts DEF Cmds
  <2> QED BY <1>1, <2>1 DEF IInv, HashingInv
<1>3. IsSeq(said')
  <2>1. IsSeq(said) /\ (said' = said \/ \E x : said' = Append(said, x)) BY DEF PrintWord, Say, IInv, TypeInv
  <2> QED BY <2>1, SaidIsSeq
<1>4. proc.i <= Len(mach.cmds) /\ \A v : proc.i \notin Cmds(v) BY <1>1, CmdsFacts DEF Cmds
<1>5. proc' = [proc EXCEPT !.i = @ + 1] /\ UNCHANGED <<mach, end, invocations>>
  BY DEF PrintWord, Step
<1> QED BY <1>1, <1>2, <1>3, <1>4, <1>5, AdvanceInv

LEMMA UuidInv == ASSUME IInv, Uuid PROVE IInv'
<1>1. AtCmd /\ Is(<<"uuid">>) BY DEF Uuid
<1>2. IsSeq(said')
  <2>1. IsSeq(said) /\ (said' = said \/ \E x : said' = Append(said, x)) BY DEF Uuid, Say, IInv, TypeInv
  <2> QED BY <2>1, SaidIsSeq
<1>3. proc.i \notin Cmds(<<"code_signature">>) /\ proc.i \notin Cmds(<<"id_dylib">>)
  BY <1>1, AtCmdFacts
<1>4. proc' = [proc EXCEPT !.i = @ + 1] /\ UNCHANGED <<mach, end, invocations>>
  BY DEF Uuid, Step
<1> QED BY <1>1, <1>2, <1>3, <1>4, AtCmdFacts, AdvanceInv

LEMMA IgnoreInv == ASSUME IInv, Ignore PROVE IInv'
<1>1. AtCmd BY DEF Ignore
<1>2. IsSeq(said') BY DEF Ignore, IInv, TypeInv
<1>3. proc.i \notin Cmds(<<"code_signature">>) /\ proc.i \notin Cmds(<<"id_dylib">>)
  BY <1>1, AtCmdFacts DEF Ignore
<1>4. proc' = [proc EXCEPT !.i = @ + 1] /\ UNCHANGED <<mach, end, invocations>>
  BY DEF Ignore, Step
<1> QED BY <1>1, <1>2, <1>3, <1>4, AtCmdFacts, AdvanceInv

\* What the next steps need of a proc that has changed a field or two.
LEMMA ProcFacts ==
  ASSUME ProcOK
  PROVE  /\ [proc EXCEPT !.i = @ + 1, !.sig = proc.i]
              = [on |-> proc.on, host |-> proc.host, opts |-> proc.opts, swapped |-> proc.swapped,
                 i |-> proc.i + 1, sig |-> proc.i, hashing |-> proc.hashing, late |-> proc.late]
         /\ [proc EXCEPT !.hashing = TRUE]
              = [on |-> proc.on, host |-> proc.host, opts |-> proc.opts, swapped |-> proc.swapped,
                 i |-> proc.i, sig |-> proc.sig, hashing |-> TRUE, late |-> proc.late]
         /\ [proc EXCEPT !.hashing = FALSE, !.i = @ + 1]
              = [on |-> proc.on, host |-> proc.host, opts |-> proc.opts, swapped |-> proc.swapped,
                 i |-> proc.i + 1, sig |-> proc.sig, hashing |-> FALSE, late |-> proc.late]
         /\ [proc EXCEPT !.i = @ + 1]
              = [on |-> proc.on, host |-> proc.host, opts |-> proc.opts, swapped |-> proc.swapped,
                 i |-> proc.i + 1, sig |-> proc.sig, hashing |-> proc.hashing, late |-> proc.late]
         /\ [proc EXCEPT !.i = @ + 1, !.late = @ \/ Before(proc.i, <<"id_dylib">>)]
              = [on |-> proc.on, host |-> proc.host, opts |-> proc.opts, swapped |-> proc.swapped,
                 i |-> proc.i + 1, sig |-> proc.sig, hashing |-> proc.hashing,
                 late |-> proc.late \/ Before(proc.i, <<"id_dylib">>)]
         /\ [proc EXCEPT !.on = FALSE]
              = [on |-> FALSE, host |-> proc.host, opts |-> proc.opts, swapped |-> proc.swapped,
                 i |-> proc.i, sig |-> proc.sig, hashing |-> proc.hashing, late |-> proc.late]
         /\ [proc EXCEPT !.on = FALSE, !.late = @ \/ mach'.pages # mach.pages]
              = [on |-> FALSE, host |-> proc.host, opts |-> proc.opts, swapped |-> proc.swapped,
                 i |-> proc.i, sig |-> proc.sig, hashing |-> proc.hashing,
                 late |-> proc.late \/ mach'.pages # mach.pages]
<1> DEFINE P(on, i, sig, hashing, late) ==
             [on |-> on, host |-> proc.host, opts |-> proc.opts, swapped |-> proc.swapped,
              i |-> i, sig |-> sig, hashing |-> hashing, late |-> late]
<1>1. proc = P(proc.on, proc.i, proc.sig, proc.hashing, proc.late) BY DEF ProcOK
<1>2. ASSUME NEW i, NEW sig, NEW x
      PROVE  /\ [proc EXCEPT !.i = i, !.sig = sig] = P(proc.on, i, sig, proc.hashing, proc.late)
             /\ [proc EXCEPT !.hashing = x] = P(proc.on, proc.i, proc.sig, x, proc.late)
             /\ [proc EXCEPT !.hashing = x, !.i = i] = P(proc.on, i, proc.sig, x, proc.late)
             /\ [proc EXCEPT !.i = i] = P(proc.on, i, proc.sig, proc.hashing, proc.late)
             /\ [proc EXCEPT !.i = i, !.late = x] = P(proc.on, i, proc.sig, proc.hashing, x)
             /\ [proc EXCEPT !.on = x] = P(x, proc.i, proc.sig, proc.hashing, proc.late)
             /\ [proc EXCEPT !.on = i, !.late = x] = P(i, proc.i, proc.sig, proc.hashing, x)
  <2>1. ASSUME NEW p, p = P(p.on, p.i, p.sig, p.hashing, p.late)
        PROVE  [p EXCEPT !.i = i, !.sig = sig] = P(p.on, i, sig, p.hashing, p.late)
    <3> DEFINE q == [p EXCEPT !.i = i]
    <3>1. q = P(p.on, i, p.sig, p.hashing, p.late) BY <2>1
    <3>2. [p EXCEPT !.i = i, !.sig = sig] = [q EXCEPT !.sig = sig] OBVIOUS
    <3> HIDE DEF q
    <3>3. [q EXCEPT !.sig = sig] = P(p.on, i, sig, p.hashing, p.late) BY <3>1
    <3> QED BY <3>2, <3>3
  <2>2. ASSUME NEW p, p = P(p.on, p.i, p.sig, p.hashing, p.late)
        PROVE  [p EXCEPT !.hashing = x] = P(p.on, p.i, p.sig, x, p.late)
    BY <2>2
  <2>3. ASSUME NEW p, p = P(p.on, p.i, p.sig, p.hashing, p.late)
        PROVE  [p EXCEPT !.hashing = x, !.i = i] = P(p.on, i, p.sig, x, p.late)
    <3> DEFINE q == [p EXCEPT !.hashing = x]
    <3>1. q = P(p.on, p.i, p.sig, x, p.late) BY <2>3
    <3>2. [p EXCEPT !.hashing = x, !.i = i] = [q EXCEPT !.i = i] OBVIOUS
    <3> HIDE DEF q
    <3>3. [q EXCEPT !.i = i] = P(p.on, i, p.sig, x, p.late) BY <3>1
    <3> QED BY <3>2, <3>3
  <2>4. ASSUME NEW p, p = P(p.on, p.i, p.sig, p.hashing, p.late)
        PROVE  [p EXCEPT !.i = i] = P(p.on, i, p.sig, p.hashing, p.late)
    BY <2>4
  <2>5. ASSUME NEW p, p = P(p.on, p.i, p.sig, p.hashing, p.late)
        PROVE  [p EXCEPT !.i = i, !.late = x] = P(p.on, i, p.sig, p.hashing, x)
    <3> DEFINE q == [p EXCEPT !.i = i]
    <3>1. q = P(p.on, i, p.sig, p.hashing, p.late) BY <2>5
    <3>2. [p EXCEPT !.i = i, !.late = x] = [q EXCEPT !.late = x] OBVIOUS
    <3> HIDE DEF q
    <3>3. [q EXCEPT !.late = x] = P(p.on, i, p.sig, p.hashing, x) BY <3>1
    <3> QED BY <3>2, <3>3
  <2>6. ASSUME NEW p, p = P(p.on, p.i, p.sig, p.hashing, p.late)
        PROVE  [p EXCEPT !.on = x] = P(x, p.i, p.sig, p.hashing, p.late)
    BY <2>6
  <2>7. ASSUME NEW p, p = P(p.on, p.i, p.sig, p.hashing, p.late)
        PROVE  [p EXCEPT !.on = i, !.late = x] = P(i, p.i, p.sig, p.hashing, x)
    <3> DEFINE q == [p EXCEPT !.on = i]
    <3>1. q = P(i, p.i, p.sig, p.hashing, p.late) BY <2>7
    <3>2. [p EXCEPT !.on = i, !.late = x] = [q EXCEPT !.late = x] OBVIOUS
    <3> HIDE DEF q
    <3>3. [q EXCEPT !.late = x] = P(i, p.i, p.sig, p.hashing, x) BY <3>1
    <3> QED BY <3>2, <3>3
  <2> HIDE DEF P
  <2> QED BY <1>1, <2>1, <2>2, <2>3, <2>4, <2>5, <2>6, <2>7
<1>3. [proc EXCEPT !.on = FALSE, !.late = @ \/ mach'.pages # mach.pages]
        = P(FALSE, proc.i, proc.sig, proc.hashing, proc.late \/ mach'.pages # mach.pages)
  <2> DEFINE late == proc.late \/ mach'.pages # mach.pages
  <2> HIDE DEF P, late
  <2>1. [proc EXCEPT !.on = FALSE, !.late = late] = P(FALSE, proc.i, proc.sig, proc.hashing, late)
    BY <1>2
  <2> QED BY <2>1 DEF late
<1>4. /\ [proc EXCEPT !.i = @ + 1, !.late = @ \/ Before(proc.i, <<"id_dylib">>)]
           = P(proc.on, proc.i + 1, proc.sig, proc.hashing, proc.late \/ Before(proc.i, <<"id_dylib">>))
      /\ [proc EXCEPT !.i = @ + 1, !.sig = proc.i] = P(proc.on, proc.i + 1, proc.i, proc.hashing, proc.late)
  BY <1>2
<1>5. /\ [proc EXCEPT !.hashing = TRUE] = P(proc.on, proc.i, proc.sig, TRUE, proc.late)
      /\ [proc EXCEPT !.hashing = FALSE, !.i = @ + 1] = P(proc.on, proc.i + 1, proc.sig, FALSE, proc.late)
      /\ [proc EXCEPT !.i = @ + 1] = P(proc.on, proc.i + 1, proc.sig, proc.hashing, proc.late)
      /\ [proc EXCEPT !.on = FALSE] = P(FALSE, proc.i, proc.sig, proc.hashing, proc.late)
  BY <1>2
<1> QED BY <1>3, <1>4, <1>5

LEMMA SignatureInv == ASSUME IInv, Signature PROVE IInv'
<1>1. AtCmd /\ Is(<<"code_signature">>) /\ UNCHANGED <<mach, said, end, invocations>> BY DEF Signature
<1>2. /\ Ran /\ proc.i \in Cmds(<<"code_signature">>) /\ proc.i \notin Cmds(<<"id_dylib">>)
      /\ ~proc.hashing /\ proc.i \in 1 .. Len(mach.cmds) /\ Len(mach.cmds) \in Nat
  BY <1>1, AtCmdFacts, CmdsFacts
<1>3. TypeInv /\ ProcOK /\ end = "none" BY <1>2 DEF IInv, TypeInv, Ran
<1>4. proc' = [on |-> proc.on, host |-> proc.host, opts |-> proc.opts, swapped |-> proc.swapped,
               i |-> proc.i + 1, sig |-> proc.i, hashing |-> proc.hashing, late |-> proc.late]
  BY <1>3, ProcFacts DEF Signature
<1>5. /\ proc'.on = proc.on /\ proc'.host = proc.host /\ proc'.opts = proc.opts
      /\ proc'.swapped = proc.swapped /\ proc'.i = proc.i + 1 /\ proc'.sig = proc.i
      /\ proc'.hashing = proc.hashing /\ proc'.late = proc.late
  BY <1>4
<1>6. ProcOK' BY <1>1, <1>2, <1>3, <1>4, <1>5 DEF ProcOK
<1>7. TypeInv' BY <1>1, <1>3, <1>6 DEF TypeInv
<1>8. \A v : Cmds(v)' = Cmds(v) /\ \A c \in Cmds(v) : c \in Nat BY <1>1, <1>3, CmdsFacts DEF Cmds, TypeInv
<1>9. ReadInv'
  <2>1. mach' = mach /\ proc'.sig # 0 BY <1>1, <1>2, <1>5
  <2>2. proc'.swapped = (mach'.order # proc'.host) BY <1>2, <1>5, <2>1 DEF ReadInv, IInv
  <2>3. proc'.late => \E c \in Cmds(<<"id_dylib">>)' : c < proc'.i
    <3>1. proc.late => \E c \in Cmds(<<"id_dylib">>) : c < proc.i BY <1>2 DEF ReadInv, IInv
    <3>2. \A c \in Cmds(<<"id_dylib">>) : c < proc.i => c < proc.i + 1 BY <1>2, <1>8
    <3> QED BY <1>5, <1>8, <3>1, <3>2
  <2>4. mach'.cmds[proc'.sig].cmd.v = <<"code_signature">> BY <1>2, <1>5, <2>1 DEF Cmds
  <2> QED BY <2>1, <2>2, <2>3, <2>4 DEF ReadInv
<1>10. StampInv' BY <1>1, <1>2, <1>3, <1>5, StampKept DEF IInv, TypeInv, ProcOK
<1>11. HashingInv' BY <1>2, <1>5 DEF HashingInv
<1>12. ThrewInv' /\ StampIsOfFile' BY <1>1, <1>2, <1>3, <1>5 DEF ThrewInv, StampIsOfFile, IInv
<1> QED BY <1>7, <1>9, <1>10, <1>11, <1>12 DEF IInv

\* What is known of a mapped file while a command is worked on.
LEMMA WorkFacts ==
  ASSUME IInv, Ran
  PROVE  /\ TypeInv /\ ProcOK /\ WellFormed(mach) /\ end = "none"
         /\ proc.host \in Order /\ mach.order \in Order /\ proc.swapped = (mach.order # proc.host)
         /\ \A v : Store(proc.host, Swap(proc.swapped, Plain(v))) = Stored(v, mach.order)
         /\ Store(proc.host, Plain(Zero)) = Stored(Zero, mach.order)
<1>1. TypeInv /\ ProcOK /\ WellFormed(mach) /\ end = "none" BY DEF IInv, TypeInv, Ran
<1>2. proc.host \in Order /\ mach.order \in Order /\ proc.swapped = (mach.order # proc.host)
  BY <1>1, CmdsFacts DEF IInv, ReadInv, ProcOK
<1> QED BY <1>1, <1>2, WritesBack, ZeroIsStored

\* The file's turn is over: nothing but the page hashes may have changed.
LEMMA OverInv ==
  ASSUME IInv, Ran, NEW late \in BOOLEAN,
         proc' = [on |-> FALSE, host |-> proc.host, opts |-> proc.opts, swapped |-> proc.swapped,
                  i |-> proc.i, sig |-> proc.sig, hashing |-> proc.hashing, late |-> late],
         mach' = mach \/ \E x : mach' = [mach EXCEPT !.pages = x],
         IsSeq(said'), UNCHANGED invocations, end' \in {"none", "done", "threw", "crashed"},
         end' = "threw" => (proc.opts.e \/ proc.opts.s) /\ proc.sig = 0 /\ proc.i > Len(mach.cmds),
         end' = "done" => StampIsOfFile'
  PROVE  IInv'
<1>1. TypeInv /\ ProcOK /\ WellFormed(mach) /\ end = "none" BY WorkFacts
<1>2. WellFormed(mach') /\ mach'.cmds = mach.cmds /\ mach'.order = mach.order
  BY <1>1, RehashedFacts
<1>3. /\ proc'.on = FALSE /\ proc'.host = proc.host /\ proc'.opts = proc.opts
      /\ proc'.swapped = proc.swapped /\ proc'.i = proc.i /\ proc'.sig = proc.sig
      /\ proc'.hashing = proc.hashing /\ proc'.late = late
  OBVIOUS
<1>4. ProcOK' BY <1>1, <1>2, <1>3 DEF ProcOK
<1>5. ~Ran' BY <1>3 DEF Ran
<1>6. TypeInv' BY <1>1, <1>2, <1>4, <1>5 DEF TypeInv
<1>7. \A v : Cmds(v)' = Cmds(v) BY <1>2 DEF Cmds
<1>8. end' = "threw" => (proc.opts.e \/ proc.opts.s) /\ Cmds(<<"code_signature">>)' = {}
  <2> SUFFICES ASSUME end' = "threw"
               PROVE  (proc.opts.e \/ proc.opts.s) /\ Cmds(<<"code_signature">>)' = {}
    OBVIOUS
  <2>1. \A c \in Cmds(<<"code_signature">>) : c >= proc.i BY DEF IInv, ReadInv
  <2>2. \A c \in Cmds(<<"code_signature">>) : c \in Nat /\ c < proc.i
    BY <1>1, CmdsFacts DEF Cmds, ProcOK
  <2>3. proc.i \in Nat BY <1>1, CmdsFacts DEF ProcOK
  <2> QED BY <1>7, <2>1, <2>2, <2>3
<1>9. ThrewInv' BY <1>3, <1>5, <1>8 DEF ThrewInv, IInv
<1>10. StampIsOfFile' BY DEF StampIsOfFile
<1> QED BY <1>5, <1>6, <1>9, <1>10, EndInv

LEMMA StopInv == ASSUME IInv, Stop PROVE IInv'
<1>1. /\ Ran /\ UNCHANGED <<said, end, invocations>> /\ proc' = [proc EXCEPT !.on = FALSE]
      /\ mach' = mach \/ \E x : mach' = [mach EXCEPT !.pages = x]
  <2>1. CASE UNCHANGED mach BY <2>1 DEF Stop
  <2>2. CASE mach' = [mach EXCEPT !.pages = IF Blind THEN Lost ELSE <<"some", @>>]
    <3>1. mach' = [mach EXCEPT !.pages = IF Blind THEN Lost ELSE <<"some", mach.pages>>]
      BY <2>2
    <3> QED BY <3>1 DEF Stop
  <2> QED BY <2>1, <2>2 DEF Stop
<1>2. TypeInv /\ ProcOK /\ end = "none" BY <1>1, WorkFacts
<1>3. proc' = [on |-> FALSE, host |-> proc.host, opts |-> proc.opts, swapped |-> proc.swapped,
               i |-> proc.i, sig |-> proc.sig, hashing |-> proc.hashing, late |-> proc.late]
  BY <1>1, <1>2, ProcFacts
<1>4. IsSeq(said') /\ proc.late \in BOOLEAN BY <1>1, <1>2 DEF TypeInv, ProcOK
<1>5. end' = "none" BY <1>1, <1>2
<1> QED BY <1>1, <1>3, <1>4, <1>5, OverInv

\* Behind the loop all commands are behind the hash, if one was made.
LEMMA StampEnds ==
  ASSUME IInv, Ran, proc.i > Len(mach.cmds), proc.opts.T, proc.opts.timeh,
         NEW c \in Cmds(<<"id_dylib">>)
  PROVE  IF proc.late THEN \E j \in DOMAIN mach.cmds : Stamp(c).v[2].cmds[j].cmd # mach.cmds[j].cmd
         ELSE Stamp(c).v = Hash(Unstamped(c), proc.opts.timev)
<1>1. c \in Nat /\ c < proc.i BY WorkFacts, CmdsFacts DEF Cmds, ProcOK
<1> QED BY <1>1 DEF IInv, StampInv, Rewritten

\* StampIsOfFile of a file f, for the options and late of a finished run.
Fits(f, opts, late) ==
  \A c \in {c \in DOMAIN f.cmds : f.cmds[c].cmd.v = <<"id_dylib">>} :
    (f.cmds[c].timestamp.v =
       Hash([f EXCEPT !.cmds[c].timestamp = Stored(Zero, f.order)], opts.timev))
    <=> ~late

LEMMA OfFileIsFits ==
  ASSUME proc'.opts.T /\ proc'.opts.timeh => Fits(mach', proc'.opts, proc'.late)
  PROVE  StampIsOfFile'
<1>1. ASSUME Fits(mach', proc'.opts, proc'.late)
      PROVE  \A c \in Cmds(<<"id_dylib">>)' :
               (mach'.cmds[c].timestamp.v =
                  Hash([mach' EXCEPT !.cmds[c].timestamp = Stored(Zero, mach'.order)], proc'.opts.timev))
               <=> ~proc'.late
  BY <1>1, Zenon DEF Fits, Cmds
<1> QED BY <1>1, Zenon DEF StampIsOfFile

\* The stamp of a file that is left as it is.
LEMMA StampStays ==
  ASSUME IInv, Ran, proc.i > Len(mach.cmds), UNCHANGED mach,
         proc'.opts = proc.opts, proc'.late = proc.late
  PROVE  StampIsOfFile'
<1>0. SUFFICES ASSUME proc.opts.T, proc.opts.timeh PROVE Fits(mach, proc.opts, proc.late)
  BY OfFileIsFits
<1> SUFFICES ASSUME NEW c \in Cmds(<<"id_dylib">>)
             PROVE  (Stamp(c).v = Hash(Unstamped(c), proc.opts.timev)) <=> ~proc.late
  BY DEF Fits, Cmds, Stamp, Unstamped
<1>1. IF proc.late THEN \E j \in DOMAIN mach.cmds : Stamp(c).v[2].cmds[j].cmd # mach.cmds[j].cmd
      ELSE Stamp(c).v = Hash(Unstamped(c), proc.opts.timev)
  BY <1>0, StampEnds
<1>2. Hash(Unstamped(c), proc.opts.timev)[2] = Unstamped(c) BY DEF Hash
<1>3. \A j \in DOMAIN mach.cmds : Unstamped(c).cmds[j].cmd = mach.cmds[j].cmd
  BY WorkFacts, UnstampedFacts DEF Unstamped, Cmds
<1> QED BY <1>1, <1>2, <1>3

\* What the end of a file's turn is, but for -s: the options and the rest of ldid stay.
LEMMA EndedFacts ==
  ASSUME IInv, Ran, NEW how, Ends(how)
  PROVE  /\ proc' = [on |-> FALSE, host |-> proc.host, opts |-> proc.opts, swapped |-> proc.swapped,
                     i |-> proc.i, sig |-> proc.sig, hashing |-> proc.hashing, late |-> proc.late]
         /\ proc'.opts = proc.opts /\ proc'.late = proc.late /\ end' = how
         /\ proc.late \in BOOLEAN
<1>1. ProcOK BY WorkFacts
<1>2. proc' = [on |-> FALSE, host |-> proc.host, opts |-> proc.opts, swapped |-> proc.swapped,
               i |-> proc.i, sig |-> proc.sig, hashing |-> proc.hashing, late |-> proc.late]
  BY <1>1, ProcFacts DEF Ends
<1>3. proc.late \in BOOLEAN BY <1>1 DEF ProcOK
<1>4. proc'.opts = proc.opts /\ proc'.late = proc.late BY <1>2
<1>5. end' = how BY DEF Ends
<1> QED BY <1>2, <1>3, <1>4, <1>5

LEMMA FinishInv == ASSUME IInv, Finish PROVE IInv'
<1>1. Ran /\ Ends("done") /\ UNCHANGED <<mach, said, invocations>> BY DEF Finish
<1>2. ProcOK /\ WellFormed(mach) /\ IsSeq(said') BY <1>1, WorkFacts DEF TypeInv
<1>3. proc.i > Len(mach.cmds) BY <1>2, CmdsFacts DEF Finish, ProcOK
<1>4. StampIsOfFile' BY <1>1, <1>3, EndedFacts, StampStays
<1> QED BY <1>1, <1>2, <1>4, EndedFacts, OverInv

LEMMA RehashUnsignedInv == ASSUME IInv, RehashUnsigned PROVE IInv'
<1>1. Ran /\ Ends("threw") /\ UNCHANGED <<mach, said, invocations>> /\ proc.sig = 0 /\ proc.opts.s
  BY DEF RehashUnsigned, AtRehash
<1>2. ProcOK /\ WellFormed(mach) /\ IsSeq(said') BY <1>1, WorkFacts DEF TypeInv
<1>3. proc.i > Len(mach.cmds) BY <1>2, CmdsFacts DEF RehashUnsigned, AtRehash, ProcOK
<1> QED BY <1>1, <1>2, <1>3, EndedFacts, OverInv

LEMMA RehashBlindInv == ASSUME IInv, RehashBlind PROVE IInv'
<1>1. Ran /\ UNCHANGED <<said, invocations>> /\ mach' \in {mach, [mach EXCEPT !.pages = Lost]}
  BY DEF RehashBlind, AtRehash
<1>2. PICK how \in {"done", "crashed"} : Ends(how) BY DEF RehashBlind
<1>3. ProcOK /\ WellFormed(mach) /\ IsSeq(said') BY <1>1, WorkFacts DEF TypeInv
<1>4. proc.i > Len(mach.cmds) BY <1>3, CmdsFacts DEF RehashBlind, AtRehash, ProcOK
<1>5. StampIsOfFile'
  <2>1. CASE mach' = mach BY <1>1, <1>2, <1>4, <2>1, EndedFacts, StampStays
  <2>2. CASE mach' = [mach EXCEPT !.pages = Lost]
    <3>1. mach'.pages = Lost BY <1>3, <2>2, RehashedFacts
    <3> QED BY <3>1 DEF StampIsOfFile
  <2> QED BY <1>1, <2>1, <2>2
<1> QED BY <1>1, <1>2, <1>3, <1>5, EndedFacts, OverInv

\* -s changes the page hashes, which are in the hash of the file.
LEMMA RehashPagesInv == ASSUME IInv, RehashPages PROVE IInv'
<1> DEFINE late == proc.late \/ mach'.pages # mach.pages
<1>1. /\ Ran /\ UNCHANGED <<said, invocations>> /\ end' = "done"
      /\ mach' = mach \/ mach' = [mach EXCEPT !.pages = PageHashes(mach)]
  BY DEF RehashPages, AtRehash
<1>2. ProcOK /\ WellFormed(mach) /\ IsSeq(said') BY <1>1, WorkFacts DEF TypeInv
<1>3. proc.i > Len(mach.cmds) BY <1>2, CmdsFacts DEF RehashPages, AtRehash, ProcOK
<1>4. proc' = [on |-> FALSE, host |-> proc.host, opts |-> proc.opts, swapped |-> proc.swapped,
               i |-> proc.i, sig |-> proc.sig, hashing |-> proc.hashing, late |-> late]
  BY <1>2, ProcFacts DEF RehashPages
<1>5. late \in BOOLEAN /\ proc'.late = late /\ proc'.opts = proc.opts BY <1>2, <1>4 DEF ProcOK
<1>6. WellFormed(mach') /\ mach'.cmds = mach.cmds /\ mach'.order = mach.order
  BY <1>1, <1>2, RehashedFacts
<1>7. StampIsOfFile'
  <2>1. CASE mach'.pages = mach.pages
    <3>1. mach' = mach
      <4>1. mach' = [fat |-> mach.fat, archs |-> mach.archs, order |-> mach.order, magic |-> mach.magic,
                     filetype |-> mach.filetype, flags |-> mach.flags, arm |-> mach.arm,
                     pages |-> mach.pages, cmds |-> mach.cmds]
            \/ mach' = mach
        <5>1. mach = [fat |-> mach.fat, archs |-> mach.archs, order |-> mach.order, magic |-> mach.magic,
                     filetype |-> mach.filetype, flags |-> mach.flags, arm |-> mach.arm,
                     pages |-> mach.pages, cmds |-> mach.cmds]
          BY <1>2 DEF WellFormed
        <5>2. PICK x : mach' = mach \/ mach' = [mach EXCEPT !.pages = x] BY <1>1
        <5>3. mach' = [mach EXCEPT !.pages = x] => x = mach.pages BY <1>2, <2>1, RehashedFacts
        <5> QED BY <5>1, <5>2, <5>3
      <4> QED BY <1>2, <4>1 DEF WellFormed
    <3>2. proc'.late = proc.late BY <1>2, <1>5, <2>1 DEF ProcOK
    <3> QED BY <1>1, <1>3, <1>5, <3>1, <3>2, StampStays
  <2>2. CASE mach'.pages # mach.pages
    <3> DEFINE after(c) == [mach' EXCEPT !.cmds[c].timestamp = Stored(Zero, mach'.order)]
    <3>0. SUFFICES ASSUME proc.opts.T, proc.opts.timeh PROVE Fits(mach', proc.opts, TRUE)
      BY <1>5, <2>2, OfFileIsFits
    <3>1. SUFFICES ASSUME NEW c \in Cmds(<<"id_dylib">>)
                   PROVE  Stamp(c).v # Hash(after(c), proc.opts.timev)
      BY <1>6 DEF Fits, Cmds, Stamp
    <3>2. c \in DOMAIN mach.cmds BY DEF Cmds
    <3>3. /\ after(c).pages = mach'.pages
          /\ \A j \in DOMAIN mach.cmds : after(c).cmds[j].cmd = mach.cmds[j].cmd
      <4>1. c \in DOMAIN mach'.cmds BY <1>6, <3>2
      <4>2. /\ after(c).pages = mach'.pages
            /\ \A j \in DOMAIN mach'.cmds : after(c).cmds[j].cmd = mach'.cmds[j].cmd
        BY <1>6, <4>1, UnstampedFacts
      <4> HIDE DEF after
      <4> QED BY <1>6, <4>2
    <3>4. Unstamped(c).pages = mach.pages BY <1>2, <3>2, UnstampedFacts DEF Unstamped
    <3>5. IF proc.late THEN \E j \in DOMAIN mach.cmds : Stamp(c).v[2].cmds[j].cmd # mach.cmds[j].cmd
          ELSE Stamp(c).v = Hash(Unstamped(c), proc.opts.timev)
      BY <1>1, <1>3, <3>0, <3>1, StampEnds
    <3> HIDE DEF after
    <3>6. \A g : Hash(g, proc.opts.timev)[2] = g BY DEF Hash
    <3> QED BY <2>2, <3>3, <3>4, <3>5, <3>6
  <2> QED BY <2>1, <2>2
<1> HIDE DEF late
<1> QED BY <1>1, <1>2, <1>4, <1>5, <1>7, OverInv

LEMMA PrintEntitlementsInv == ASSUME IInv, PrintEntitlements PROVE IInv'
<1>1. Ran /\ proc.i = Len(mach.cmds) + 1 /\ UNCHANGED <<mach, invocations>> BY DEF PrintEntitlements
<1>2. TypeInv /\ ProcOK /\ WellFormed(mach) BY <1>1, WorkFacts
<1>3. /\ Len(mach.cmds) \in Nat /\ \A v : proc.i \notin Cmds(v)
  BY <1>1, <1>2, CmdsFacts DEF Cmds
<1>4. ~proc.hashing BY <1>1, <1>3 DEF IInv, HashingInv
<1>5. IsSeq(said')
  <2>1. IsSeq(said) /\ (said' = said \/ \E x : said' = Append(said, x))
    BY <1>2 DEF PrintEntitlements, Say, TypeInv
  <2> QED BY <2>1, SaidIsSeq
<1>6. CASE Step /\ UNCHANGED end
  BY <1>1, <1>3, <1>4, <1>5, <1>6, AdvanceInv DEF Step
<1>7. CASE Ends("threw") /\ proc.opts.e /\ proc.sig = 0
  BY <1>1, <1>3, <1>5, <1>7, EndedFacts, OverInv
<1>8. CASE Ends("crashed")
  BY <1>1, <1>5, <1>8, EndedFacts, OverInv
<1> QED BY <1>6, <1>7, <1>8 DEF PrintEntitlements

\* A command is rewritten in place, and the loop goes on from it or stays there.
LEMMA PutInv ==
  ASSUME IInv, Ran, NEW d, proc.i \in DOMAIN mach.cmds, proc.i \notin Cmds(<<"code_signature">>),
         IsCommand(d, mach.order), d.cmd.v # <<"code_signature">>,
         d.cmd.v = <<"id_dylib">> <=> proc.i \in Cmds(<<"id_dylib">>),
         mach' = PutAt(proc.i, d), IsSeq(said'), UNCHANGED <<end, invocations>>,
         NEW i \in {proc.i, proc.i + 1}, NEW hashing \in BOOLEAN, NEW late \in BOOLEAN,
         proc' = [on |-> proc.on, host |-> proc.host, opts |-> proc.opts, swapped |-> proc.swapped,
                  i |-> i, sig |-> proc.sig, hashing |-> hashing, late |-> late],
         late => \E c \in Cmds(<<"id_dylib">>) : c < i
  PROVE  /\ TypeInv' /\ ReadInv' /\ ThrewInv' /\ StampIsOfFile'
         /\ \A j \in DOMAIN mach.cmds : mach'.cmds[j] = IF j = proc.i THEN d ELSE mach.cmds[j]
         /\ DOMAIN mach'.cmds = DOMAIN mach.cmds /\ mach'.order = mach.order
         /\ Cmds(<<"id_dylib">>)' = Cmds(<<"id_dylib">>)
         /\ proc'.i = i /\ proc'.opts = proc.opts /\ proc'.hashing = hashing /\ proc'.late = late
<1>1. TypeInv /\ ProcOK /\ WellFormed(mach) /\ end = "none" BY WorkFacts
<1>2. /\ WellFormed(mach') /\ Len(mach'.cmds) = Len(mach.cmds) /\ DOMAIN mach'.cmds = DOMAIN mach.cmds
      /\ \A j \in DOMAIN mach.cmds : mach'.cmds[j] = IF j = proc.i THEN d ELSE mach.cmds[j]
      /\ mach'.order = mach.order
  BY <1>1, PutFacts
<1>3. /\ proc'.on = proc.on /\ proc'.host = proc.host /\ proc'.opts = proc.opts
      /\ proc'.swapped = proc.swapped /\ proc'.i = i /\ proc'.sig = proc.sig
      /\ proc'.hashing = hashing /\ proc'.late = late
  OBVIOUS
<1>4. DOMAIN mach.cmds = 1 .. Len(mach.cmds) /\ Len(mach.cmds) \in Nat BY <1>1, CmdsFacts
<1>5. ProcOK' BY <1>1, <1>2, <1>3, <1>4 DEF ProcOK
<1>6. TypeInv' BY <1>1, <1>2, <1>5 DEF TypeInv
<1>7. Cmds(<<"id_dylib">>)' = Cmds(<<"id_dylib">>) BY <1>2 DEF Cmds
<1>8. Cmds(<<"code_signature">>)' = Cmds(<<"code_signature">>) BY <1>2 DEF Cmds
<1>9. ReadInv'
  <2>1. proc.sig # 0 => mach.cmds[proc.sig].cmd.v = <<"code_signature">> BY DEF IInv, ReadInv
  <2>2. proc.sig # 0 => proc.sig \in Cmds(<<"code_signature">>)
    <3>1. proc.sig \in 0 .. Len(mach.cmds) BY <1>1 DEF ProcOK
    <3>2. proc.sig # 0 => proc.sig \in 1 .. Len(mach.cmds) BY <1>4, <3>1
    <3> QED BY <1>4, <2>1, <3>2 DEF Cmds
  <2>3. proc.sig # 0 => proc.sig \in Cmds(<<"code_signature">>)' BY <1>8, <2>2
  <2>4. proc.sig # 0 => mach'.cmds[proc.sig].cmd.v = <<"code_signature">> BY <2>3 DEF Cmds
  <2>5. proc.sig = 0 => \A c \in Cmds(<<"code_signature">>) : c >= i
    BY <1>4 DEF IInv, ReadInv, Cmds
  <2>6. proc'.swapped = (mach'.order # proc'.host) BY <1>2, <1>3 DEF IInv, ReadInv
  <2> QED BY <1>3, <1>7, <1>8, <2>4, <2>5, <2>6 DEF ReadInv
<1>10. ThrewInv' /\ StampIsOfFile' BY <1>1, <1>3 DEF ThrewInv, StampIsOfFile, IInv
<1> QED BY <1>2, <1>3, <1>6, <1>7, <1>9, <1>10

LEMMA ReexportInv == ASSUME IInv, Reexport PROVE IInv'
<1>1. AtCmd /\ Is(<<"reexport_dylib">>) /\ UNCHANGED <<said, end, invocations>> BY DEF Reexport
<1>2. /\ Ran /\ ~proc.hashing /\ proc.i \in DOMAIN mach.cmds /\ proc.i \in Nat
      /\ proc.i \in Cmds(<<"reexport_dylib">>) /\ proc.i \notin Cmds(<<"code_signature">>)
      /\ proc.i \notin Cmds(<<"id_dylib">>)
  BY <1>1, AtCmdFacts
<1>3. TypeInv /\ ProcOK /\ WellFormed(mach) /\ end = "none" /\ mach.order \in Order
  BY <1>2, WorkFacts
<1> DEFINE d == [mach.cmds[proc.i] EXCEPT !.cmd = Stored(<<"load_dylib">>, mach.order)]
           late == proc.late \/ Before(proc.i, <<"id_dylib">>)
<1>4. /\ IsCommand(d, mach.order) /\ d.cmd = Stored(<<"load_dylib">>, mach.order)
      /\ d.cmd.v = <<"load_dylib">>
  BY <1>2, <1>3, ReexportFacts, StoredValue
<1>5. mach' = PutAt(proc.i, d)
  <2>1. Store(proc.host, Swap(proc.swapped, Plain(<<"load_dylib">>))) = Stored(<<"load_dylib">>, mach.order)
    BY <1>2, WorkFacts
  <2>2. mach' = [mach EXCEPT !.cmds[proc.i].cmd = Stored(<<"load_dylib">>, mach.order)]
    BY <2>1 DEF Reexport
  <2> QED BY <1>2, <1>3, <2>2, ReexportFacts
<1>6. proc' = [on |-> proc.on, host |-> proc.host, opts |-> proc.opts, swapped |-> proc.swapped,
               i |-> proc.i + 1, sig |-> proc.sig, hashing |-> proc.hashing, late |-> late]
  BY <1>3, ProcFacts DEF Reexport
<1>7. late \in BOOLEAN /\ proc.hashing \in BOOLEAN
  <2>1. Before(proc.i, <<"id_dylib">>) \in BOOLEAN BY DEF Before
  <2> QED BY <1>3, <2>1 DEF ProcOK
<1>8. DOMAIN mach.cmds = 1 .. Len(mach.cmds) /\ Len(mach.cmds) \in Nat BY <1>3, CmdsFacts
<1>9. Before(proc.i, <<"id_dylib">>) <=> \E c \in Cmds(<<"id_dylib">>) : c < proc.i
  BY SMTT(30), <1>2, <1>8 DEF Before, Cmds
<1>10. \A c \in Cmds(<<"id_dylib">>) : c \in Nat /\ c # proc.i /\ c \in DOMAIN mach.cmds
  BY <1>2, <1>8 DEF Cmds
<1>11. late <=> \E c \in Cmds(<<"id_dylib">>) : c < proc.i BY <1>2, <1>9 DEF IInv, ReadInv
<1>12. late => \E c \in Cmds(<<"id_dylib">>) : c < proc.i + 1 BY <1>2, <1>10, <1>11
<1>13. IsSeq(said') BY <1>1, <1>3 DEF TypeInv
<1>14. d.cmd.v # <<"code_signature">> /\ (d.cmd.v = <<"id_dylib">> <=> proc.i \in Cmds(<<"id_dylib">>))
  BY <1>2, <1>4
<1> HIDE DEF d, late
<1>15. /\ TypeInv' /\ ReadInv' /\ ThrewInv' /\ StampIsOfFile'
       /\ \A j \in DOMAIN mach.cmds : mach'.cmds[j] = IF j = proc.i THEN d ELSE mach.cmds[j]
       /\ DOMAIN mach'.cmds = DOMAIN mach.cmds /\ mach'.order = mach.order
       /\ Cmds(<<"id_dylib">>)' = Cmds(<<"id_dylib">>)
       /\ proc'.i = proc.i + 1 /\ proc'.opts = proc.opts /\ proc'.hashing = proc.hashing
       /\ proc'.late = late
  BY <1>1, <1>2, <1>4, <1>5, <1>6, <1>7, <1>12, <1>13, <1>14, PutInv
<1>16. HashingInv' BY <1>2, <1>15 DEF HashingInv
<1>17. StampInv'
  <2> SUFFICES ASSUME proc.opts.T, proc.opts.timeh, NEW c \in Cmds(<<"id_dylib">>), c < proc.i + 1
               PROVE  late /\ \E j \in DOMAIN mach.cmds :
                        j < proc.i + 1 /\ Stamp(c)'.v[2].cmds[j].cmd # mach'.cmds[j].cmd
    BY <1>15 DEF StampInv, Rewritten
  <2>1. c < proc.i BY <1>2, <1>10
  <2>2. late BY <1>11, <2>1
  <2>3. Stamp(c)' = Stamp(c) BY <1>10, <1>15 DEF Stamp
  <2>4. IF proc.late THEN Rewritten(c, proc.i) ELSE Stamp(c).v = Hash(Unstamped(c), proc.opts.timev)
    BY <1>2, <2>1 DEF IInv, StampInv
  <2>5. CASE proc.late
    <3>1. PICK j \in DOMAIN mach.cmds : j < proc.i /\ Stamp(c).v[2].cmds[j].cmd # mach.cmds[j].cmd
      BY <2>4, <2>5 DEF Rewritten
    <3>2. j < proc.i + 1 /\ j # proc.i BY <1>2, <1>8, <3>1
    <3> QED BY <1>15, <2>2, <2>3, <3>1, <3>2
  <2>6. CASE ~proc.late
    <3>1. Stamp(c).v[2] = Unstamped(c) BY <2>4, <2>6 DEF Hash
    <3>2. Stamp(c).v[2].cmds[proc.i].cmd = mach.cmds[proc.i].cmd
      BY <1>2, <1>3, <1>10, <3>1, UnstampedFacts DEF Unstamped
    <3>3. mach.cmds[proc.i].cmd.v = <<"reexport_dylib">> BY <1>2 DEF Cmds
    <3>4. mach'.cmds[proc.i].cmd.v = <<"load_dylib">> BY <1>2, <1>4, <1>15
    <3>5. mach.cmds[proc.i].cmd # mach'.cmds[proc.i].cmd BY <3>3, <3>4
    <3>6. proc.i < proc.i + 1 BY <1>2
    <3> QED BY <1>2, <2>2, <2>3, <3>2, <3>5, <3>6
  <2> QED BY <2>5, <2>6
<1> QED BY <1>15, <1>16, <1>17 DEF IInv

LEMMA IdDylibInv == ASSUME IInv, IdDylib PROVE IInv'
<1>1. AtCmd /\ Is(<<"id_dylib">>) /\ UNCHANGED <<end, invocations>> BY DEF IdDylib
<1>2. /\ Ran /\ ~proc.hashing /\ proc.i \in DOMAIN mach.cmds /\ proc.i \in Nat
      /\ proc.i <= Len(mach.cmds) /\ proc.i \in Cmds(<<"id_dylib">>)
      /\ proc.i \notin Cmds(<<"code_signature">>)
  BY <1>1, AtCmdFacts
<1>3. TypeInv /\ ProcOK /\ WellFormed(mach) /\ end = "none" /\ mach.order \in Order
  BY <1>2, WorkFacts
<1>4. IsSeq(said')
  <2>1. IsSeq(said) /\ (said' = said \/ \E x : said' = Append(said, x))
    BY <1>3 DEF IdDylib, Say, TypeInv
  <2> QED BY <2>1, SaidIsSeq
<1>5. \A c \in Cmds(<<"id_dylib">>) : c = proc.i BY <1>2, <1>3, CmdsFacts
<1>6. CASE ~proc.opts.T /\ Step /\ UNCHANGED mach
  BY <1>1, <1>2, <1>4, <1>6, AdvanceInv DEF Step
<1> DEFINE d(v) == [mach.cmds[proc.i] EXCEPT !.timestamp = Stored(v, mach.order)]
<1>7. \A v : /\ IsCommand(d(v), mach.order) /\ d(v).cmd = mach.cmds[proc.i].cmd
             /\ d(v).timestamp = Stored(v, mach.order)
             /\ [mach EXCEPT !.cmds[proc.i].timestamp = Stored(v, mach.order)] = PutAt(proc.i, d(v))
             /\ d(v).cmd.v # <<"code_signature">>
             /\ d(v).cmd.v = <<"id_dylib">> <=> proc.i \in Cmds(<<"id_dylib">>)
  <2> TAKE v
  <2>1. /\ IsCommand(d(v), mach.order) /\ d(v).cmd = mach.cmds[proc.i].cmd
        /\ d(v).timestamp = Stored(v, mach.order)
        /\ [mach EXCEPT !.cmds[proc.i].timestamp = Stored(v, mach.order)] = PutAt(proc.i, d(v))
    BY <1>2, <1>3, StampFacts
  <2>2. mach.cmds[proc.i].cmd.v = <<"id_dylib">> BY <1>2 DEF Cmds
  <2> HIDE DEF d
  <2> QED BY <1>2, <2>1, <2>2
<1>8. proc.late \in BOOLEAN BY <1>3 DEF ProcOK
<1>9. proc.late => \E c \in Cmds(<<"id_dylib">>) : c < proc.i BY <1>2 DEF IInv, ReadInv
<1> HIDE DEF d
<1>10. CASE /\ proc.opts.T /\ ~proc.opts.timeh
            /\ mach' = [mach EXCEPT !.cmds[proc.i].timestamp =
                          Store(proc.host, Swap(proc.swapped, Plain(proc.opts.timev)))]
            /\ Step
  <2> DEFINE e == d(proc.opts.timev)
  <2>1. mach' = PutAt(proc.i, e)
    <3>1. Store(proc.host, Swap(proc.swapped, Plain(proc.opts.timev))) = Stored(proc.opts.timev, mach.order)
      BY <1>2, WorkFacts
    <3> QED BY <1>7, <1>10, <3>1
  <2>2. proc' = [on |-> proc.on, host |-> proc.host, opts |-> proc.opts, swapped |-> proc.swapped,
                 i |-> proc.i + 1, sig |-> proc.sig, hashing |-> FALSE, late |-> proc.late]
    <3>1. proc.hashing = FALSE BY <1>2, <1>3 DEF ProcOK
    <3> QED BY <1>3, <1>10, <3>1, ProcFacts DEF Step
  <2>3. proc.late => \E c \in Cmds(<<"id_dylib">>) : c < proc.i + 1 BY <1>2
  <2>4. /\ IsCommand(e, mach.order) /\ e.cmd.v # <<"code_signature">>
        /\ e.cmd.v = <<"id_dylib">> <=> proc.i \in Cmds(<<"id_dylib">>)
    BY <1>7
  <2> HIDE DEF e
  <2>5. /\ TypeInv' /\ ReadInv' /\ ThrewInv' /\ StampIsOfFile'
        /\ proc'.opts = proc.opts /\ proc'.hashing = FALSE
    BY <1>1, <1>2, <1>4, <1>8, <2>1, <2>2, <2>3, <2>4, PutInv
  <2>6. HashingInv' BY <2>5 DEF HashingInv
  <2>7. StampInv' BY <1>10, <2>5 DEF StampInv
  <2> QED BY <2>5, <2>6, <2>7 DEF IInv
<1>11. CASE /\ proc.opts.T /\ proc.opts.timeh
            /\ mach' = [mach EXCEPT !.cmds[proc.i].timestamp = Store(proc.host, Plain(Zero))]
            /\ proc' = [proc EXCEPT !.hashing = TRUE]
  <2> DEFINE e == d(Zero)
  <2>1. mach' = PutAt(proc.i, e)
    <3>1. Store(proc.host, Plain(Zero)) = Stored(Zero, mach.order) BY <1>2, WorkFacts
    <3> QED BY <1>7, <1>11, <3>1
  <2>2. proc' = [on |-> proc.on, host |-> proc.host, opts |-> proc.opts, swapped |-> proc.swapped,
                 i |-> proc.i, sig |-> proc.sig, hashing |-> TRUE, late |-> proc.late]
    BY <1>3, <1>11, ProcFacts
  <2>4. /\ IsCommand(e, mach.order) /\ e.cmd.v # <<"code_signature">>
        /\ e.cmd.v = <<"id_dylib">> <=> proc.i \in Cmds(<<"id_dylib">>)
        /\ e.timestamp = Stored(Zero, mach.order)
    BY <1>7
  <2> HIDE DEF e
  <2>5. /\ TypeInv' /\ ReadInv' /\ ThrewInv' /\ StampIsOfFile'
        /\ \A j \in DOMAIN mach.cmds : mach'.cmds[j] = IF j = proc.i THEN e ELSE mach.cmds[j]
        /\ mach'.order = mach.order /\ Cmds(<<"id_dylib">>)' = Cmds(<<"id_dylib">>)
        /\ proc'.i = proc.i /\ proc'.opts = proc.opts
    BY <1>1, <1>2, <1>4, <1>8, <1>9, <2>1, <2>2, <2>4, PutInv
  <2>6. Stamp(proc.i)' = Stored(Zero, mach'.order) BY <1>2, <2>4, <2>5 DEF Stamp
  <2>7. HashingInv' BY <1>2, <1>11, <2>5, <2>6 DEF HashingInv
  <2>8. StampInv' BY <1>2, <1>5, <2>5 DEF StampInv
  <2> QED BY <2>5, <2>7, <2>8 DEF IInv
<1> QED BY <1>6, <1>10, <1>11 DEF IdDylib

\* A stamp that is taken off again leaves the file as it was.
LEMMA StampedAndUnstamped ==
  ASSUME WellFormed(mach), NEW c \in Cmds(<<"id_dylib">>), NEW v,
         Stamp(c) = Stored(Zero, mach.order)
  PROVE  [[mach EXCEPT !.cmds[c].timestamp = v] EXCEPT !.cmds[c].timestamp = Stored(Zero, mach.order)]
           = mach
<1> DEFINE z == Stored(Zero, mach.order)
           b == mach.cmds[c]
           b1 == [b EXCEPT !.timestamp = v]
           m1 == [mach EXCEPT !.cmds[c].timestamp = v]
           P(cmds) == [fat |-> mach.fat, archs |-> mach.archs, order |-> mach.order,
                       magic |-> mach.magic, filetype |-> mach.filetype, flags |-> mach.flags,
                       arm |-> mach.arm, pages |-> mach.pages, cmds |-> cmds]
<1> HIDE DEF z
<1>1. /\ IsCommand(b, mach.order) /\ b.cmd.v = <<"id_dylib">> /\ c \in DOMAIN mach.cmds
      /\ IsSeq(mach.cmds) /\ mach = P(mach.cmds) /\ b.timestamp = z
  BY CmdsFacts DEF Cmds, Stamp, WellFormed, z
<1>2. "timestamp" \in DOMAIN b /\ b = [x \in DOMAIN b |-> b[x]]
  <2> HIDE DEF b
  <2> QED BY <1>1 DEF IsCommand
<1>3. [b1 EXCEPT !.timestamp = z] = b
  <2> HIDE DEF b
  <2>1. DOMAIN [b1 EXCEPT !.timestamp = z] = DOMAIN b BY <1>2
  <2>2. \A x \in DOMAIN b : [b1 EXCEPT !.timestamp = z][x] = b[x] BY <1>1, <1>2
  <2>3. [b1 EXCEPT !.timestamp = z] = [x \in DOMAIN b |-> [b1 EXCEPT !.timestamp = z][x]]
    BY <2>1
  <2> QED BY <1>2, <2>2, <2>3
<1>4. mach.cmds = [j \in DOMAIN mach.cmds |-> mach.cmds[j]] BY <1>1, SeqFacts
<1>5. m1 = P([mach.cmds EXCEPT ![c] = b1])
  <2>1. m1 = [mach EXCEPT !.cmds = [mach.cmds EXCEPT ![c] = b1]] OBVIOUS
  <2>2. ASSUME NEW cmds PROVE [mach EXCEPT !.cmds = cmds] = P(cmds)
    <3>1. PICK f : f = P(mach.cmds) OBVIOUS
    <3>2. [f EXCEPT !.cmds = cmds] = P(cmds) BY <3>1
    <3> QED BY <1>1, <3>1, <3>2
  <2> HIDE DEF m1, b1, P
  <2> QED BY <2>1, <2>2
<1>6. m1.cmds = [mach.cmds EXCEPT ![c] = b1] BY <1>5
<1>7. m1.cmds[c] = b1 BY <1>1, <1>6
<1>8. [m1 EXCEPT !.cmds[c].timestamp = z] = [m1 EXCEPT !.cmds = [m1.cmds EXCEPT ![c] = [b1 EXCEPT !.timestamp = z]]]
  BY <1>7
<1>9. [m1.cmds EXCEPT ![c] = b] = mach.cmds
  <2> DEFINE cmds == mach.cmds
  <2> HIDE DEF b, b1, cmds, m1
  <2>1. [[cmds EXCEPT ![c] = b1] EXCEPT ![c] = b] = [j \in DOMAIN cmds |-> IF j = c THEN b ELSE cmds[j]]
    OBVIOUS
  <2>2. [j \in DOMAIN cmds |-> IF j = c THEN b ELSE cmds[j]] = [j \in DOMAIN cmds |-> cmds[j]]
    BY DEF b, cmds
  <2>3. m1.cmds = [cmds EXCEPT ![c] = b1] BY <1>6 DEF cmds
  <2>4. cmds = [j \in DOMAIN cmds |-> cmds[j]] BY <1>4 DEF cmds
  <2> QED BY <2>1, <2>2, <2>3, <2>4 DEF cmds
<1>10. ASSUME NEW x, NEW y PROVE [P(x) EXCEPT !.cmds = y] = P(y) OBVIOUS
<1>11. [m1 EXCEPT !.cmds = mach.cmds] = mach
  <2> HIDE DEF P, m1
  <2> QED BY <1>1, <1>5, <1>10
<1> HIDE DEF m1, b1, b
<1> QED BY <1>3, <1>8, <1>9, <1>11 DEF m1, z

LEMMA HashFileInv == ASSUME IInv, HashFile PROVE IInv'
<1>1. /\ Ran /\ proc.hashing /\ UNCHANGED <<said, end, invocations>>
      /\ proc.opts.T /\ proc.opts.timeh
      /\ proc.i \in Cmds(<<"id_dylib">>) /\ Stamp(proc.i) = Stored(Zero, mach.order)
  BY DEF HashFile, IInv, HashingInv
<1>2. TypeInv /\ ProcOK /\ WellFormed(mach) /\ end = "none" /\ mach.order \in Order
  BY <1>1, WorkFacts
<1>3. /\ proc.i \in DOMAIN mach.cmds /\ proc.i \in Nat /\ mach.cmds[proc.i].cmd.v = <<"id_dylib">>
      /\ proc.i \notin Cmds(<<"code_signature">>)
  BY <1>1, <1>2, CmdsFacts DEF Cmds
<1>4. \A c \in Cmds(<<"id_dylib">>) : c = proc.i BY <1>1, <1>2, CmdsFacts
<1>5. ~proc.late BY <1>1, <1>3, <1>4 DEF IInv, ReadInv
<1> DEFINE hash == Hash(mach, proc.opts.timev)
           d == [mach.cmds[proc.i] EXCEPT !.timestamp = Stored(hash, mach.order)]
<1>6. mach' = [mach EXCEPT !.cmds[proc.i].timestamp = Stored(hash, mach.order)]
  <2>1. Store(proc.host, Swap(proc.swapped, Plain(hash))) = Stored(hash, mach.order)
    BY <1>1, WorkFacts
  <2> QED BY <2>1 DEF HashFile
<1> HIDE DEF hash
<1>7. /\ IsCommand(d, mach.order) /\ d.cmd = mach.cmds[proc.i].cmd
      /\ d.timestamp = Stored(hash, mach.order) /\ mach' = PutAt(proc.i, d)
  BY <1>1, <1>2, <1>6, StampFacts
<1> HIDE DEF d
<1>8. proc' = [on |-> proc.on, host |-> proc.host, opts |-> proc.opts, swapped |-> proc.swapped,
               i |-> proc.i + 1, sig |-> proc.sig, hashing |-> FALSE, late |-> proc.late]
  BY <1>2, ProcFacts DEF HashFile
<1>9. proc.late \in BOOLEAN /\ IsSeq(said') BY <1>1, <1>2 DEF ProcOK, TypeInv
<1>10. d.cmd.v # <<"code_signature">> /\ (d.cmd.v = <<"id_dylib">> <=> proc.i \in Cmds(<<"id_dylib">>))
  BY <1>1, <1>3, <1>7
<1>11. /\ TypeInv' /\ ReadInv' /\ ThrewInv' /\ StampIsOfFile'
       /\ \A j \in DOMAIN mach.cmds : mach'.cmds[j] = IF j = proc.i THEN d ELSE mach.cmds[j]
       /\ mach'.order = mach.order /\ Cmds(<<"id_dylib">>)' = Cmds(<<"id_dylib">>)
       /\ proc'.i = proc.i + 1 /\ proc'.opts = proc.opts /\ proc'.hashing = FALSE
       /\ proc'.late = proc.late
  BY <1>1, <1>3, <1>5, <1>7, <1>8, <1>9, <1>10, PutInv
<1>12. HashingInv' BY <1>11 DEF HashingInv
<1>13. [mach' EXCEPT !.cmds[proc.i].timestamp = Stored(Zero, mach'.order)] = mach
  <2> DEFINE v == Stored(hash, mach.order)
             z == Stored(Zero, mach.order)
  <2> HIDE DEF v
  <2>1. [[mach EXCEPT !.cmds[proc.i].timestamp = v] EXCEPT !.cmds[proc.i].timestamp = z] = mach
    BY <1>1, <1>2, StampedAndUnstamped
  <2>2. mach' = [mach EXCEPT !.cmds[proc.i].timestamp = v] BY <1>6 DEF v
  <2>3. z = Stored(Zero, mach'.order) BY <1>11
  <2> HIDE DEF z
  <2> QED BY <2>1, <2>2, <2>3
<1>14. StampInv'
  <2> SUFFICES ASSUME NEW c \in Cmds(<<"id_dylib">>)
               PROVE  Stamp(c)'.v = Hash(Unstamped(c)', proc.opts.timev)
    BY <1>5, <1>11 DEF StampInv, Hash
  <2>1. c = proc.i BY <1>4
  <2>2. Stamp(c)'.v = hash BY <1>3, <1>7, <1>11, <2>1, StoredValue DEF Stamp
  <2>3. Unstamped(c)' = mach BY <1>13, <2>1 DEF Unstamped
  <2> QED BY <2>2, <2>3 DEF hash
<1> QED BY <1>11, <1>12, <1>14 DEF IInv

------------------------------------------------------------------------------
(* What follows for every behaviour.                                       *)

LEMMA Inductive == ASSUME IInv, [MachNext]_machVars PROVE IInv'
<1>1. ASSUME NEW h \in LdidHosts, NEW args \in ArgLists, Open(h, args) PROVE IInv'
  BY <1>1, OpenInv
<1>2. CASE PrintWord BY <1>2, PrintWordInv
<1>3. CASE Reexport BY <1>3, ReexportInv
<1>4. CASE Signature BY <1>4, SignatureInv
<1>5. CASE Uuid BY <1>5, UuidInv
<1>6. CASE IdDylib BY <1>6, IdDylibInv
<1>7. CASE HashFile BY <1>7, HashFileInv
<1>8. CASE Ignore BY <1>8, IgnoreInv
<1>9. CASE Finish BY <1>9, FinishInv
<1>10. CASE Stop BY <1>10, StopInv
<1>12. CASE PrintEntitlements BY <1>12, PrintEntitlementsInv
<1>13. CASE RehashPages BY <1>13, RehashPagesInv
<1>14. CASE RehashBlind BY <1>14, RehashBlindInv
<1>15. CASE RehashUnsigned BY <1>15, RehashUnsignedInv
<1>11. CASE UNCHANGED machVars
  <2>1. mach' = mach /\ proc' = proc /\ said' = said /\ end' = end /\ invocations' = invocations
    BY <1>11 DEF machVars
  <2>2. TypeInv' BY <2>1 DEF IInv, TypeInv, ProcOK, Ran
  <2>3. ReadInv' /\ HashingInv' /\ ThrewInv'
    BY <2>1 DEF IInv, ReadInv, HashingInv, ThrewInv, Ran, Cmds, Stamp, Accepted
  <2>4. StampInv'
    <3>1. /\ \A c : Stamp(c)' = Stamp(c) /\ Unstamped(c)' = Unstamped(c)
          /\ \A c : Rewritten(c, proc.i)' <=> Rewritten(c, proc.i)
          /\ Cmds(<<"id_dylib">>)' = Cmds(<<"id_dylib">>)
      BY <2>1 DEF Stamp, Unstamped, Rewritten, Cmds
    <3> QED BY <2>1, <3>1 DEF IInv, StampInv, Ran, Hash
  <2>5. StampIsOfFile' BY <2>1 DEF IInv, StampIsOfFile, Cmds, Hash
  <2> QED BY <2>2, <2>3, <2>4, <2>5 DEF IInv
<1> QED BY <1>1, <1>2, <1>3, <1>4, <1>5, <1>6, <1>7, <1>8, <1>9, <1>10, <1>11, <1>12, <1>13, <1>14,
           <1>15 DEF MachNext

LEMMA MachInvariant == MachSpec => []IInv
BY InitInv, Inductive, PTL DEF MachSpec

\* MachTypeOK, for any files and command lines: -S sets nothing but MH_DYLDLINK of one order or
\* the other among the flags, and main is behind the commands at most in -e and in -s.
THEOREM MachTypeCorrect == MachSpec => []MachTypeOK
<1>1. IInv => MachTypeOK BY DEF IInv, TypeInv, ProcOK, WellFormed, MachTypeOK
<1> QED BY <1>1, MachInvariant, PTL

\* OrderIsKept, for any files, hosts of either order and any runs, until a -s that reads its
\* offsets mirrored has lost the file: what Framework's constructor takes for the order of the
\* slice is it, a file is refused only for what is in it, and commands and timestamps are
\* written in that order.  MH_DYLDLINK is set in the order of the host, and is that of the
\* file whenever ldid goes on to sign it.
THEOREM OrderAlwaysKept == MachSpec => []OrderIsKept
<1>1. ASSUME IInv PROVE OrderIsKept
  <2>1. WellFormed(mach) BY <1>1 DEF IInv, TypeInv
  <2>2. ASSUME NEW c \in DOMAIN mach.cmds PROVE mach.cmds[c].cmd.o = mach.order
    <3>1. IsCommand(mach.cmds[c], mach.order) BY <2>1, CmdsFacts
    <3>2. mach.cmds[c].cmd.v # Zero /\ mach.cmds[c].cmd = Stored(mach.cmds[c].cmd.v, mach.order)
      BY <3>1 DEF IsCommand
    <3> QED BY <3>2 DEF Stored
  <2>3. ASSUME NEW c \in Cmds(<<"id_dylib">>)
        PROVE  mach.cmds[c].timestamp \in {Stored(mach.cmds[c].timestamp.v, mach.order)}
    <3>1. IsCommand(mach.cmds[c], mach.order) BY <2>1, CmdsFacts DEF Cmds
    <3> QED BY <3>1 DEF IsCommand, Cmds
  <2> QED BY <1>1, <2>2, <2>3 DEF OrderIsKept, IInv, ReadInv, ThrewInv
<1> QED BY <1>1, MachInvariant, PTL

\* StampIsOfFile, for any files, command lines and any runs stopped between any two writes:
\* the timestamp that a finished -T- leaves is the hash of the file without it, unless, and
\* then never, -R has rewritten a command behind it or -s has changed the page hashes.
\* (Beside -S, -T- has another file to stamp, which is not this one.)
THEOREM StampAlwaysOfFile == MachSpec => []StampIsOfFile
<1>1. IInv => StampIsOfFile BY DEF IInv
<1> QED BY <1>1, MachInvariant, PTL

\* What is printed in a step is what the file says then.
Printed(x) ==
  CASE x[1] = "time" -> \E c \in Cmds(<<"id_dylib">>) : x[2] = Plain(mach.cmds[c].timestamp.v)
    [] x[1] = "uuid" -> \E c \in Cmds(<<"uuid">>) : x[2] = mach.cmds[c].uuid
    [] x[1] = "word" -> IF WordAt(proc.opts.w) = {} THEN x[2] = NoProc
                        ELSE \E a \in WordAt(proc.opts.w) :
                               x[2] = [v |-> <<"word", a>>, m |-> mach.order # proc.host]
    [] x[1] = "entitlements" ->
         mach.fat = "no" /\ proc.host = "little" =>
           \E c \in Cmds(<<"code_signature">>) : x[2] = mach.cmds[c].xml

\* The places in the file that an address stands for are numbers.
LEMMA WordsAreAtNumbers ==
  ASSUME WellFormed(mach), NEW a \in 0 .. Addrs - 1 PROVE WordAt(a) \subseteq Nat
<1> SUFFICES ASSUME NEW c \in Cmds(<<"segment">>), NEW k \in DOMAIN mach.cmds[c].sections,
                    NEW s, s = mach.cmds[c].sections[k], a \in s.addr .. s.addr + s.size - 1
             PROVE  a - s.addr + s.offset \in Nat
  BY DEF WordAt
<1>1. IsCommand(mach.cmds[c], mach.order) /\ mach.cmds[c].cmd.v = <<"segment">>
  BY CmdsFacts DEF Cmds
<1>2. s.addr \in 0 .. Addrs - 1 /\ s.offset \in Nat BY <1>1 DEF IsCommand
<1> QED BY <1>2, MachAssumption

\* What -w prints is the word at the address that it was given, or its mirror image.
LEMMA PrintWordSays ==
  ASSUME IInv, PrintWord PROVE said' = said \/ \E x : said' = Append(said, x) /\ Printed(x)
<1> DEFINE place == GetPointer(mach, proc.opts.w)
           x == <<"word", IF place = NoProc THEN NoProc ELSE WordIn(mach, proc.host, place)>>
<1>1. said' = said \/ (proc.opts.w # NoProc /\ said' = Append(said, x)) BY DEF PrintWord, Say
<1>2. WellFormed(mach) /\ ProcOK BY WorkFacts DEF PrintWord
<1>3. ASSUME proc.opts.w # NoProc PROVE Printed(x)
  <2>1. proc.opts.w \in 0 .. Addrs - 1 BY <1>2, <1>3 DEF ProcOK
  <2>2. IF WordAt(proc.opts.w) = {} THEN place = NoProc ELSE place \in WordAt(proc.opts.w)
    BY <1>2, <2>1, PointerIsWord
  <2>3. WordAt(proc.opts.w) \subseteq Nat BY <1>2, <2>1, WordsAreAtNumbers
  <2>4. CASE WordAt(proc.opts.w) = {}
    <3>1. x = <<"word", NoProc>> BY <2>2, <2>4
    <3> HIDE DEF x
    <3> QED BY <2>4, <3>1 DEF Printed
  <2>5. CASE WordAt(proc.opts.w) # {}
    <3>1. place \in WordAt(proc.opts.w) /\ place # NoProc BY <2>2, <2>3, <2>5, ArgAssumption
    <3> HIDE DEF place
    <3>2. WordIn(mach, proc.host, place) = [v |-> <<"word", place>>, m |-> mach.order # proc.host]
      BY DEF WordIn, Load, Stored, Zero
    <3>3. x[1] = "word" /\ x[2] = [v |-> <<"word", place>>, m |-> mach.order # proc.host]
      BY <3>1, <3>2
    <3> HIDE DEF x
    <3> QED BY <2>5, <3>1, <3>3 DEF Printed
  <2> QED BY <2>4, <2>5
<1> HIDE DEF x
<1> QED BY <1>1, <1>3

\* What -u prints is the uuid of the file.
LEMMA UuidSays ==
  ASSUME IInv, Uuid PROVE said' = said \/ \E x : said' = Append(said, x) /\ Printed(x)
<1>1. proc.i \in Cmds(<<"uuid">>) BY AtCmdFacts DEF Uuid
<1>2. Printed(<<"uuid", Cmd.uuid>>) BY <1>1 DEF Printed, Cmd
<1> QED BY <1>2 DEF Uuid, Say

\* What -t prints is the time stamp that the file has.
LEMMA IdDylibSays ==
  ASSUME IInv, IdDylib PROVE said' = said \/ \E x : said' = Append(said, x) /\ Printed(x)
<1>1. proc.i \in Cmds(<<"id_dylib">>) /\ Ran BY AtCmdFacts DEF IdDylib
<1>2. WellFormed(mach) /\ proc.host \in Order /\ mach.order \in Order
      /\ proc.swapped = (mach.order # proc.host)
  BY <1>1, WorkFacts
<1>3. IsCommand(Cmd, mach.order) /\ Cmd.cmd.v = <<"id_dylib">> BY <1>1, <1>2, CmdsFacts DEF Cmds, Cmd
<1>4. Cmd.timestamp = Stored(Cmd.timestamp.v, mach.order) BY <1>3 DEF IsCommand
<1> DEFINE x == <<"time", Swap(proc.swapped, Load(proc.host, Cmd.timestamp))>>
<1>5. Swap(proc.swapped, Load(proc.host, Cmd.timestamp)) = Plain(Cmd.timestamp.v)
  BY <1>2, <1>4, ReadsBack
<1>6. x[1] = "time" /\ x[2] = Plain(mach.cmds[proc.i].timestamp.v) BY <1>5 DEF Cmd
<1>7. said' = said \/ said' = Append(said, x) BY DEF IdDylib, Say
<1> HIDE DEF x
<1>8. Printed(x) BY <1>1, <1>6 DEF Printed
<1> QED BY <1>7, <1>8

\* What -e prints of a thin file, on a host whose order it expects, is the file's.
LEMMA PrintEntitlementsSays ==
  ASSUME IInv, PrintEntitlements PROVE said' = said \/ \E x : said' = Append(said, x) /\ Printed(x)
<1>1. Ran BY DEF PrintEntitlements
<1>2. WellFormed(mach) /\ ProcOK BY <1>1, WorkFacts
<1>3. proc.sig # 0 => proc.sig \in Cmds(<<"code_signature">>)
  <2>1. proc.sig # 0 => mach.cmds[proc.sig].cmd.v = <<"code_signature">> BY <1>1 DEF IInv, ReadInv
  <2> QED BY <1>2, <2>1, CmdsFacts DEF Cmds, ProcOK
<1>4. CASE proc.sig # 0 /\ ~Blind
  <2>1. Printed(<<"entitlements", mach.cmds[proc.sig].xml>>) BY <1>3, <1>4 DEF Printed
  <2> QED BY <1>4, <2>1 DEF PrintEntitlements, Say
<1>5. CASE Blind
  <2>1. Printed(<<"entitlements", NoProc>>) BY <1>5 DEF Printed, Blind
  <2> QED BY <1>5, <2>1 DEF PrintEntitlements, Say
<1>6. CASE proc.sig = 0
  BY <1>6 DEF PrintEntitlements
<1> QED BY <1>4, <1>5, <1>6

\* SaysWhatIsThere, for any files, hosts and command lines: what -t and -u print is what the
\* file says then, whatever its order, and so is -e of a thin file on a little-endian host;
\* what -w prints is the word at its address if the file is of the host's order, and its
\* mirror image if it is not.
THEOREM AlwaysSaysWhatIsThere == MachSpec => SaysWhatIsThere
<1> DEFINE New == \A k \in DOMAIN said' \ DOMAIN said : Printed(said'[k])
<1>1. ASSUME IInv, [MachNext]_machVars PROVE [New]_machVars
  <2>1. ASSUME said' = said PROVE New BY <2>1
  <2>2. ASSUME NEW x, said' = Append(said, x), Printed(x) PROVE New
    <3>1. IsSeq(said) BY <1>1 DEF IInv, TypeInv
    <3>2. DOMAIN said' \ DOMAIN said = {Len(said) + 1} /\ said'[Len(said) + 1] = x
      BY <2>2, <3>1, AppendFacts
    <3> QED BY <2>2, <3>2
  <2>3. ASSUME NEW h \in LdidHosts, NEW args \in ArgLists, Open(h, args) PROVE New
    <3>1. said' = <<>> BY <2>3 DEF Open
    <3>2. DOMAIN said' = {} BY <3>1
    <3> QED BY <3>2
  <2>4. CASE PrintWord BY <1>1, <2>1, <2>2, <2>4, PrintWordSays
  <2>5. CASE Uuid BY <1>1, <2>1, <2>2, <2>5, UuidSays
  <2>6. CASE IdDylib BY <1>1, <2>1, <2>2, <2>6, IdDylibSays
  <2>7. CASE PrintEntitlements BY <1>1, <2>1, <2>2, <2>7, PrintEntitlementsSays
  <2>8. CASE \/ Reexport \/ Signature \/ HashFile \/ Ignore \/ RehashPages \/ RehashBlind
             \/ RehashUnsigned \/ Finish \/ Stop
    <3>1. said' = said
      BY <2>8 DEF Reexport, Signature, HashFile, Ignore, RehashPages, RehashBlind,
                  RehashUnsigned, Finish, Stop
    <3> QED BY <2>1, <3>1
  <2> HIDE DEF New
  <2> QED BY <1>1, <2>3, <2>4, <2>5, <2>6, <2>7, <2>8 DEF MachNext
<1>2. [New]_machVars =>
        [\A k \in DOMAIN said' \ DOMAIN said :
           LET x == said'[k]
           IN  CASE x[1] = "time" -> \E c \in Cmds(<<"id_dylib">>) : x[2] = Plain(mach.cmds[c].timestamp.v)
                 [] x[1] = "uuid" -> \E c \in Cmds(<<"uuid">>) : x[2] = mach.cmds[c].uuid
                 [] x[1] = "word" -> IF WordAt(proc.opts.w) = {} THEN x[2] = NoProc
                                     ELSE \E a \in WordAt(proc.opts.w) :
                                            x[2] = [v |-> <<"word", a>>, m |-> mach.order # proc.host]
                 [] x[1] = "entitlements" ->
                      mach.fat = "no" /\ proc.host = "little" =>
                        \E c \in Cmds(<<"code_signature">>) : x[2] = mach.cmds[c].xml]_machVars
  BY DEF Printed
<1> HIDE DEF New
<1> QED BY <1>1, <1>2, MachInvariant, PTL DEF MachSpec, SaysWhatIsThere
=============================================================================
