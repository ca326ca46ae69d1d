--------------------------------- MODULE Arid ---------------------------------
(***************************************************************************)
(* util/arid.cpp, which make.sh runs on every static library it finds in   *)
(* dest/: it overwrites the dates of an archive's members, in the file     *)
(* itself, so that the tree's hash does not depend on when it was built.   *)
(*                                                                         *)
(* ar puts a newline behind a member of odd length, which arid does not    *)
(* step over: it reads the headers that follow one octet too early, and    *)
(* after three such members what it takes for a length is anything, also   *)
(* a negative number, which leads it back or out of the file.  The archive *)
(* is its characters: digits are numbers, the others are named.            *)
(***************************************************************************)
EXTENDS Integers, Sequences, FiniteSets

CONSTANTS
  Archives,  \* sequences of members
  SizeT,     \* addresses and sizes are modulo this, 2^32 or 2^64
  Landings,  \* bound: where arid can be after a turn outside of the file
  MaxArids   \* bound: how often arid is run

VARIABLES
  members,  \* of the archive, as ar has written them
  archive,  \* archive[p], at p \in 0 .. size - 1
  running,  \* does an arid run?
  data,     \* where it is, counted from the beginning of the file
  finished, \* has an arid come to its end?
  arids
aridVars == <<members, archive, running, data, finished, arids>>

Magic   == 8    \* data += 8
Header  == 60   \* sizeof(struct ar_hdr)
ArDate  == 16 .. 27
ArSize  == 48 .. 57

Blank == 10     \* and newlines
Text  == 11     \* all but these
MinusSign == 12
PlusSign  == 13
Chars == 0 .. PlusSign

\* Where member k begins, the first being 1; or, with no newlines behind members of odd
\* length, where it would.
Start(ms, padded, k) ==
  LET at[i \in 1 .. Len(ms) + 1] ==
        IF i = 1 THEN Magic
        ELSE at[i - 1] + Header + Len(ms[i - 1].text) + (IF padded THEN Len(ms[i - 1].text) % 2 ELSE 0)
  IN  at[k]
Offset(ms, k) == Start(ms, TRUE, k)

\* Character i of a field that holds the decimal digits s.
InField(s, i) == IF i <= Len(s) THEN s[i] ELSE Blank

\* What is left of n without its last i digits.
Quotients(n) == LET q[i \in 0 .. 10] == IF i = 0 THEN n ELSE q[i - 1] \div 10 IN q

DecimalDigits(n) ==
  LET q == Quotients(n)
      k == CHOOSE k \in 1 .. 10 : q[k] = 0 /\ \A j \in 1 .. k - 1 : q[j] # 0
  IN  [i \in 1 .. k |-> q[k - i] % 10]

\* struct ar_hdr, but for the size: a date of at most ten digits, a mode of six, and ARFMAG.
Heads == {h \in [0 .. Header - 1 -> Chars] :
            /\ h[26] = Blank /\ h[27] = Blank /\ h[46] = Blank /\ h[47] = Blank
            /\ h[58] = Text /\ h[59] = Blank}

\* Ten digits have room in ar_size, and the archive in memory.
ASSUME AridAssumption ==
  /\ MaxArids \in Nat /\ SizeT \in Nat /\ Landings \subseteq 0 .. SizeT - 1
  /\ \A ms \in Archives :
       /\ ms = [k \in 1 .. Len(ms) |-> [head |-> ms[k].head, text |-> ms[k].text]] /\ Len(ms) \in Nat
       /\ \A k \in 1 .. Len(ms) : /\ ms[k].head \in Heads /\ ms[k].text \in Seq(Chars)
                                  /\ Quotients(Len(ms[k].text))[10] = 0
       /\ Offset(ms, Len(ms) + 1) + Magic < SizeT

ArHdr(m) ==
  [i \in 0 .. Header - 1 |->
     IF i \in ArSize THEN InField(DecimalDigits(Len(m.text)), i - 47) ELSE m.head[i]]

\* What ar writes.
Ar(ms) ==
  [p \in 0 .. Offset(ms, Len(ms) + 1) - 1 |->
     LET here == {k \in 1 .. Len(ms) : p - Offset(ms, k) \in 0 .. Header + Len(ms[k].text) - 1}
     IN  IF here = {} THEN (IF p < Magic - 1 THEN Text ELSE Blank)
         ELSE LET k == CHOOSE k \in here : TRUE
                  i == p - Offset(ms, k)
              IN  IF i < Header THEN ArHdr(ms[k])[i] ELSE ms[k].text[i - Header + 1]]

\* Behind the file the rest of its last page is zero.
At(a, p) == IF p \in DOMAIN a THEN a[p] ELSE Text

\* strtoul(a + p, NULL, 10), which may read past its field, takes a sign, and has ULONG_MAX
\* for what is too large.
Strtoul(a, p) ==
  LET size  == Cardinality(DOMAIN a)
      first == CHOOSE q \in p .. p + size : At(a, q) # Blank /\ \A r \in p .. q - 1 : At(a, r) = Blank
      from  == IF At(a, first) \in {MinusSign, PlusSign} THEN first + 1 ELSE first
      to    == CHOOSE q \in from .. from + size : At(a, q) \notin 0 .. 9
                                                  /\ \A r \in from .. q - 1 : At(a, r) \in 0 .. 9
      value[q \in from .. to] ==
        IF q = from THEN 0
        ELSE LET v == 10 * value[q - 1] + At(a, q - 1) IN IF v < SizeT THEN v ELSE SizeT
  IN  IF value[to] = SizeT THEN SizeT - 1
      ELSE IF At(a, first) = MinusSign THEN (SizeT - value[to]) % SizeT ELSE value[to]

AridInit ==
  /\ members \in Archives /\ archive = Ar(members)
  /\ running = FALSE /\ data = 0 /\ finished = FALSE /\ arids = 0

\* data = map(...) + 8
Arid ==
  /\ ~running /\ arids < MaxArids
  /\ running' = TRUE /\ data' = Magic /\ arids' = arids + 1
  /\ UNCHANGED <<members, archive, finished>>

\* end is data + size after data += 8: 8 octets behind the end of the file.  The difference
\* is compared as a size_t: past end it is large.
Behind == Offset(members, Len(members) + 1)
Goes == running /\ (Magic + Behind - data) % SizeT >= Header
Inside == data + Header <= Behind

\* The date of a header at d, of which only a part may be in the file.
Dated(a, d) ==
  [p \in DOMAIN a |-> IF (p - d) % SizeT \in ArDate
                      THEN IF (p - d) % SizeT = 16 THEN 0 ELSE Blank
                      ELSE a[p]]

\* Mutant: one character more.
MemberWide ==
  /\ Goes /\ Inside
  /\ archive' = [p \in DOMAIN archive |-> IF p - data = 28 THEN Blank ELSE Dated(archive, data)[p]]
  /\ data' = (data + Strtoul(archive', data + 48) + Header) % SizeT
  /\ UNCHANGED <<members, running, finished, arids>>

\* A turn of the loop.
Member ==
  /\ Goes /\ Inside
  /\ archive' = Dated(archive, data)
  /\ data' = (data + Strtoul(archive', data + 48) + Header) % SizeT
  /\ UNCHANGED <<members, running, finished, arids>>

\* A turn outside of the file: arid is killed, below, or goes on from anywhere.
Astray ==
  /\ Goes /\ ~Inside
  /\ archive' = Dated(archive, data)
  /\ data' \in Landings
  /\ UNCHANGED <<members, running, finished, arids>>

Exit_ ==
  /\ running /\ ~Goes
  /\ running' = FALSE /\ data' = 0 /\ finished' = TRUE
  /\ UNCHANGED <<members, archive, arids>>

Killed ==
  /\ running
  /\ running' = FALSE /\ data' = 0
  /\ UNCHANGED <<members, archive, finished, arids>>

AridNext == Arid \/ Member \/ Astray \/ Exit_ \/ Killed
AridSpec == AridInit /\ [][AridNext]_aridVars
-----------------------------------------------------------------------------
\* Where arid looks for member k, and by how much that is too early.
Looked(k) == Start(members, FALSE, k)
Skew(k) == Offset(members, k) - Looked(k)

\* In an archive with at most two members of odd length before the last one, whatever is in
\* them, arid finds each header, less one octet for each of these members before it.
\* Whenever arid is stopped, only octets that it takes for a date have changed (the name's
\* last one or two among them); and once an arid has come to its end, nothing of any date is
\* left, so that the archive is the same whenever it was made.
DatesAreErased ==
  (\A k \in 1 .. Len(members) : Skew(k) <= 2) =>
    /\ \A p \in DOMAIN archive :
         archive[p] = Ar(members)[p] \/ \E k \in 1 .. Len(members) : p - Looked(k) \in ArDate
    /\ finished => \A k \in 1 .. Len(members), i \in ArDate :
                     archive[Offset(members, k) + i] = IF i = 16 /\ Skew(k) = 0 THEN 0 ELSE Blank
=============================================================================
