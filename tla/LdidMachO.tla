----------------------------- MODULE LdidMachO -----------------------------
(***************************************************************************)
(* ldid's class Framework and the loop of main over the load commands.     *)
(*                                                                         *)
(* A fat or thin Mach-O file of either byte order is mapped, shared, by an *)
(* ldid on a host of either byte order; -t, -u, -w and -e print what they  *)
(* read there, -R and -T change it in place, command by command, -s then   *)
(* hashes its pages again, and a signal may stop ldid between any two      *)
(* writes.  Of -S it is the part that works in the file itself.  -p and -n *)
(* only print, and are left out.                                           *)
(*                                                                         *)
(* A 32-bit word in the file is a value and the order it is stored in; in  *)
(* a register it is that value or, m, its mirror image.  Zero is its own   *)
(* mirror image.                                                           *)
(***************************************************************************)
EXTENDS Naturals, Sequences

CONSTANTS
  Machs,           \* the files
  LdidHosts,       \* the byte orders of the machines ldid runs on
  ArgLists,        \* command lines: sequences of options
  Addrs,           \* addresses are modulo this, 2^32
  MaxInvocations,  \* bound: how often ldid is run
  NoProc           \* no ldid runs

VARIABLES
  mach,        \* the file
  proc,        \* the last ldid, on while it has the file mapped
  said,        \* what it printed, in order
  end,         \* how it ended: "none" (not yet, or by a signal), "done", "threw",
               \* "crashed", "asked" (codesign_allocate for room: LdidSign has the rest)
  invocations
machVars == <<mach, proc, said, end, invocations>>

Order == {"little", "big"}
Zero  == <<>>
Stored(v, o)  == [v |-> v, o |-> IF v = Zero THEN "big" ELSE o]
Load(h, d)    == [v |-> d.v, m |-> d.v # Zero /\ d.o # h]
Store(h, w)   == Stored(w.v, CHOOSE o \in Order : (o = h) = ~w.m)
Swap_(w)      == IF w.v = Zero THEN w ELSE [w EXCEPT !.m = ~@]
Plain(v)      == [v |-> v, m |-> FALSE]
Mirrored(v)   == [v |-> v, m |-> TRUE]

\* Framework::Swap
Swap(s, w) == IF s THEN Swap_(w) ELSE w

IsSeq(s) == s \in Seq({s[i] : i \in DOMAIN s})

\* A load command of a file of order o, with whatever fields its kind has.
IsCommand(c, o) ==
  /\ c = [field \in DOMAIN c |-> c[field]] /\ "cmd" \in DOMAIN c
  /\ c.cmd.v # Zero /\ c.cmd = Stored(c.cmd.v, o)
  /\ c.cmd.v = <<"id_dylib">> => "timestamp" \in DOMAIN c /\ c.timestamp = Stored(c.timestamp.v, o)
  /\ c.cmd.v = <<"segment">> =>
       /\ IsSeq(c.sections)
       /\ \A k \in DOMAIN c.sections :
            LET s == c.sections[k]
            IN  s.addr \in 0 .. Addrs - 1 /\ s.size \in 0 .. Addrs - 1 /\ s.offset \in Nat

\* A file: its commands' words are in its order, and a dylib has one name.  flags are the
\* orders in which MH_DYLDLINK stands in the header; pages is what the page hashes of the
\* signature are of, Zero if it has none.
WellFormed(f) ==
  /\ f = [fat |-> f.fat, archs |-> f.archs, order |-> f.order, magic |-> f.magic,
          filetype |-> f.filetype, flags |-> f.flags, arm |-> f.arm, pages |-> f.pages, cmds |-> f.cmds]
  /\ f.fat \in Order \cup {"no"} /\ f.order \in Order /\ f.arm \in BOOLEAN
  /\ f.flags \subseteq Order
  /\ IsSeq(f.cmds) /\ \A c \in DOMAIN f.cmds : IsCommand(f.cmds[c], f.order)
  /\ \A c, d \in DOMAIN f.cmds :
       f.cmds[c].cmd.v = <<"id_dylib">> /\ f.cmds[d].cmd.v = <<"id_dylib">> => c = d

ASSUME MachAssumption ==
  /\ Addrs \in Nat \ {0} /\ MaxInvocations \in Nat /\ LdidHosts \subseteq Order
  /\ \A f \in Machs : WellFormed(f)

\* Command lines that main accepts, of the options that read or write the file; the address
\* of -w is a number of 32 bits.
ASSUME ArgAssumption ==
  /\ NoProc \notin Nat
  /\ \A args \in ArgLists :
       /\ IsSeq(args)
       /\ \A i \in DOMAIN args :
            /\ args[i][1] \in {"-T-", "-T", "-w", "-R", "-t", "-u", "-e", "-s", "-S"}
            /\ args[i][1] = "-w" => args[i][2] \in 0 .. Addrs - 1
-----------------------------------------------------------------------------
(* Framework::Framework: whose order swapped_ tells, and what is refused.  *)

FAT_MAGIC == Plain(<<"fat">>)
FAT_CIGAM == Mirrored(<<"fat">>)
MH_MAGIC  == Plain(<<"mach">>)
MH_CIGAM  == Mirrored(<<"mach">>)
FileTypes == {<<"execute">>, <<"dylib">>, <<"bundle">>}

Framework(h, f) ==
  LET first == Load(h, IF f.fat = "no" THEN Stored(f.magic, f.order) ELSE Stored(<<"fat">>, f.fat))
      s1    == first = FAT_CIGAM
      magic == Swap(s1, Load(h, Stored(f.magic, f.order)))
      s2    == IF magic = MH_CIGAM THEN ~s1 ELSE s1
  IN  [ok |-> /\ first \in {FAT_CIGAM, FAT_MAGIC} => f.archs # 0
              /\ magic \in {MH_CIGAM, MH_MAGIC}
              /\ Swap(s2, Load(h, Stored(f.filetype, f.order))) \in {Plain(t) : t \in FileTypes},
       swapped |-> s2]

\* Framework::GetPointer: the first section, in the order of the file, that has the
\* address; addr + size is computed in 32 bits.
Has(s, a) == a >= s.addr /\ a < (s.addr + s.size) % Addrs
\* Mutant: only the first section of a segment is looked at.
GetPointerFirst(f, a) ==
  LET hits == {i \in DOMAIN f.cmds : f.cmds[i].cmd.v = <<"segment">> /\ Has(f.cmds[i].sections[1], a)}
  IN  IF hits = {} THEN NoProc
      ELSE LET s == f.cmds[CHOOSE i \in hits : TRUE].sections[1] IN a - s.addr + s.offset

GetPointer(f, a) ==
  LET sections == [i \in DOMAIN f.cmds |->
                     IF f.cmds[i].cmd.v = <<"segment">> THEN f.cmds[i].sections ELSE <<>>]
      hits == {p \in UNION {{i} \X DOMAIN sections[i] : i \in DOMAIN f.cmds} :
                 Has(sections[p[1]][p[2]], a)}
  IN  IF hits = {} THEN NoProc
      ELSE LET p == CHOOSE p \in hits : \A q \in hits :
                      p[1] < q[1] \/ (p[1] = q[1] /\ p[2] <= q[2])
               s == sections[p[1]][p[2]]
           IN  a - s.addr + s.offset
-----------------------------------------------------------------------------
(* main                                                                    *)

NoOptions == [R |-> FALSE, t |-> FALSE, u |-> FALSE, e |-> FALSE, s |-> FALSE, S |-> FALSE,
              T |-> FALSE, timeh |-> FALSE, timev |-> Zero, w |-> NoProc]

\* One option: -T<n> and -T- do not undo each other, and -T- hashes from the last <n>.
Option(p, arg) ==
  CASE arg[1] = "-T-" -> [p EXCEPT !.T = TRUE, !.timeh = TRUE]
    [] arg[1] = "-T"  -> [p EXCEPT !.T = TRUE, !.timev = arg[2]]
    [] arg[1] = "-w"  -> [p EXCEPT !.w = arg[2]]
    [] arg[1] = "-R"  -> [p EXCEPT !.R = TRUE]
    [] arg[1] = "-t"  -> [p EXCEPT !.t = TRUE]
    [] arg[1] = "-u"  -> [p EXCEPT !.u = TRUE]
    [] arg[1] = "-e"  -> [p EXCEPT !.e = TRUE]
    [] arg[1] = "-s"  -> [p EXCEPT !.s = TRUE]
    [] arg[1] = "-S"  -> [p EXCEPT !.S = TRUE]

Options(args) ==
  LET after[n \in 0 .. Len(args)] == IF n = 0 THEN NoOptions ELSE Option(after[n - 1], args[n])
  IN  after[Len(args)]

Ran == proc # NoProc /\ proc.on

\* A command v comes before command i.
Before(i, v) == \E j \in 1 .. i - 1 : mach.cmds[j].cmd.v = v

\* lookup2's hash of the bytes of the file
Hash(f, initval) == <<"hash", f, initval>>

\* sha1 of each page before the signature; the commands are in the first of them.
PageHashes(f) == <<"pages", [f EXCEPT !.pages = Zero]>>

\* A file in which -s wrote hashes over anything.
Lost == <<"lost">>

MachInit ==
  /\ mach \in Machs
  /\ proc = NoProc /\ said = <<>> /\ end = "none" /\ invocations = 0

\* -S: the flag is set, and the cpu type compared, without Swap: in the order of the host.
Prepare(h) ==
  /\ mach' = [mach EXCEPT !.flags = @ \cup {h}]
  /\ end'  = IF mach.order = h /\ mach.arm THEN "asked" ELSE "threw"

\* -S beside -s throws where nothing catches it, before any file is opened.
Open(h, args) ==
  LET p == Options(args)
      f == Framework(h, mach)
  IN  /\ ~Ran /\ invocations < MaxInvocations /\ mach.pages # Lost
      /\ invocations' = invocations + 1
      /\ said' = <<>>
      /\ proc' = [on |-> f.ok /\ ~p.S, host |-> h, opts |-> p, swapped |-> f.swapped,
                  i |-> 0, sig |-> 0, hashing |-> FALSE, late |-> FALSE]
      /\ \/ p.S /\ p.s /\ end' = "crashed" /\ UNCHANGED mach
         \/ ~f.ok /\ ~(p.S /\ p.s) /\ end' = "threw" /\ UNCHANGED mach
         \/ f.ok /\ p.S /\ ~p.s /\ Prepare(h)
         \/ f.ok /\ ~p.S /\ end' = "none" /\ UNCHANGED mach

Cmd   == mach.cmds[proc.i]
AtCmd == Ran /\ proc.i \in DOMAIN mach.cmds /\ ~proc.hashing
Is(v) == Swap(proc.swapped, Load(proc.host, Cmd.cmd)) = Plain(v)
Step  == proc' = [proc EXCEPT !.i = @ + 1]
Say(x) == said' = Append(said, x)

\* The word at a place of the file, as a register of host h has it without Swap.
WordIn(f, h, place) == Load(h, Stored(<<"word", place>>, f.order))

\* -w, before the loop
PrintWord ==
  /\ Ran /\ proc.i = 0
  /\ \/ proc.opts.w = NoProc /\ UNCHANGED said
     \/ /\ proc.opts.w # NoProc
        /\ LET place == GetPointer(mach, proc.opts.w)
           IN  Say(<<"word", IF place = NoProc THEN NoProc ELSE WordIn(mach, proc.host, place)>>)
  /\ Step
  /\ UNCHANGED <<mach, end, invocations>>

\* Mutant: the command is stored without Swap.
ReexportPlain ==
  /\ AtCmd /\ proc.opts.R /\ Is(<<"reexport_dylib">>)
  /\ mach' = [mach EXCEPT !.cmds[proc.i].cmd = Store(proc.host, Plain(<<"load_dylib">>))]
  /\ proc' = [proc EXCEPT !.i = @ + 1, !.late = @ \/ Before(proc.i, <<"id_dylib">>)]
  /\ UNCHANGED <<said, end, invocations>>

\* -R
Reexport ==
  /\ AtCmd /\ proc.opts.R /\ Is(<<"reexport_dylib">>)
  /\ mach' = [mach EXCEPT !.cmds[proc.i].cmd =
                Store(proc.host, Swap(proc.swapped, Plain(<<"load_dylib">>)))]
  /\ proc' = [proc EXCEPT !.i = @ + 1, !.late = @ \/ Before(proc.i, <<"id_dylib">>)]
  /\ UNCHANGED <<said, end, invocations>>

Signature ==
  /\ AtCmd /\ Is(<<"code_signature">>)
  /\ proc' = [proc EXCEPT !.i = @ + 1, !.sig = proc.i]
  /\ UNCHANGED <<mach, said, end, invocations>>

Uuid ==
  /\ AtCmd /\ Is(<<"uuid">>)
  /\ IF proc.opts.u THEN Say(<<"uuid", Cmd.uuid>>) ELSE UNCHANGED said
  /\ Step
  /\ UNCHANGED <<mach, end, invocations>>

\* -t prints the timestamp before -T changes it; -T- makes it zero before it hashes.
IdDylib ==
  /\ AtCmd /\ Is(<<"id_dylib">>)
  /\ IF proc.opts.t THEN Say(<<"time", Swap(proc.swapped, Load(proc.host, Cmd.timestamp))>>)
     ELSE UNCHANGED said
  /\ \/ ~proc.opts.T /\ Step /\ UNCHANGED mach
     \/ /\ proc.opts.T /\ ~proc.opts.timeh
        /\ mach' = [mach EXCEPT !.cmds[proc.i].timestamp =
                      Store(proc.host, Swap(proc.swapped, Plain(proc.opts.timev)))]
        /\ Step
     \/ /\ proc.opts.T /\ proc.opts.timeh
        /\ mach' = [mach EXCEPT !.cmds[proc.i].timestamp = Store(proc.host, Plain(Zero))]
        /\ proc' = [proc EXCEPT !.hashing = TRUE]
  /\ UNCHANGED <<end, invocations>>

\* Mutant: the hash starts from 0.
HashFromZero ==
  /\ Ran /\ proc.hashing
  /\ mach' = [mach EXCEPT !.cmds[proc.i].timestamp =
                Store(proc.host, Swap(proc.swapped, Plain(Hash(mach, Zero))))]
  /\ proc' = [proc EXCEPT !.hashing = FALSE, !.i = @ + 1]
  /\ UNCHANGED <<said, end, invocations>>

HashFile ==
  /\ Ran /\ proc.hashing
  /\ mach' = [mach EXCEPT !.cmds[proc.i].timestamp =
                Store(proc.host, Swap(proc.swapped, Plain(Hash(mach, proc.opts.timev))))]
  /\ proc' = [proc EXCEPT !.hashing = FALSE, !.i = @ + 1]
  /\ UNCHANGED <<said, end, invocations>>

Ignore ==
  /\ AtCmd
  /\ ~(proc.opts.R /\ Is(<<"reexport_dylib">>))
  /\ \A v \in {<<"code_signature">>, <<"uuid">>, <<"id_dylib">>} : ~Is(v)
  /\ Step
  /\ UNCHANGED <<mach, said, end, invocations>>

\* dataoff counts from the slice but -e and -s from the start of the file, and main's own
\* Swap takes the host for little-endian: elsewhere the count and the offsets that they
\* follow are whatever is there.
Blind == mach.fat # "no" \/ proc.host # "little"
Ends(how) == proc' = [proc EXCEPT !.on = FALSE] /\ end' = how

\* After the loop: -e
PrintEntitlements ==
  /\ Ran /\ proc.i = Len(mach.cmds) + 1
  /\ \/ ~proc.opts.e /\ Step /\ UNCHANGED <<said, end>>
     \/ proc.opts.e /\ proc.sig = 0 /\ Ends("threw") /\ UNCHANGED said
     \/ proc.opts.e /\ proc.sig # 0 /\ Step /\ UNCHANGED end
        /\ Say(<<"entitlements", IF Blind THEN NoProc ELSE mach.cmds[proc.sig].xml>>)
     \/ proc.opts.e /\ proc.sig # 0 /\ Blind /\ Ends("crashed") /\ UNCHANGED said
  /\ UNCHANGED <<mach, invocations>>

AtRehash == Ran /\ proc.i > Len(mach.cmds) + 1 /\ proc.opts.s

\* -s: each page is hashed again; with no code directory there is nothing to write.  The last
\* step of the file's turn.
RehashPages ==
  /\ AtRehash /\ proc.sig # 0 /\ ~Blind
  /\ mach' = IF mach.pages = Zero THEN mach ELSE [mach EXCEPT !.pages = PageHashes(mach)]
  /\ proc' = [proc EXCEPT !.on = FALSE, !.late = @ \/ mach'.pages # mach.pages]
  /\ end'  = "done"
  /\ UNCHANGED <<said, invocations>>

\* -s where its offsets are anything: it may find nothing to do.
RehashBlind ==
  /\ AtRehash /\ proc.sig # 0 /\ Blind
  /\ \E how \in {"done", "crashed"} : Ends(how)
  /\ mach' \in {mach, [mach EXCEPT !.pages = Lost]}
  /\ UNCHANGED <<said, invocations>>

RehashUnsigned ==
  /\ AtRehash /\ proc.sig = 0 /\ Ends("threw")
  /\ UNCHANGED <<mach, said, invocations>>

\* The file's turn is over.
Finish ==
  /\ Ran /\ proc.i > Len(mach.cmds) + 1 /\ ~proc.opts.s /\ Ends("done")
  /\ UNCHANGED <<mach, said, invocations>>

\* A signal; in the middle of -s some pages have their new hashes.
Stop ==
  /\ Ran /\ proc' = [proc EXCEPT !.on = FALSE]
  /\ \/ UNCHANGED mach
     \/ /\ AtRehash /\ proc.sig # 0 /\ mach.pages # Zero
        /\ mach' = [mach EXCEPT !.pages = IF Blind THEN Lost ELSE <<"some", @>>]
  /\ UNCHANGED <<said, end, invocations>>

MachNext ==
  \/ \E h \in LdidHosts, args \in ArgLists : Open(h, args)
  \/ PrintWord \/ Reexport \/ Signature \/ Uuid \/ IdDylib \/ HashFile \/ Ignore
  \/ PrintEntitlements \/ RehashPages \/ RehashBlind \/ RehashUnsigned \/ Finish \/ Stop

MachSpec == MachInit /\ [][MachNext]_machVars
-----------------------------------------------------------------------------
Cmds(v) == {c \in DOMAIN mach.cmds : mach.cmds[c].cmd.v = v}

MachTypeOK ==
  /\ mach.flags \subseteq Order
  /\ proc # NoProc => proc.i \in 0 .. Len(mach.cmds) + 2 /\ proc.sig \in 0 .. Len(mach.cmds)
  /\ end \in {"none", "done", "threw", "crashed", "asked"}
  /\ invocations \in 0 .. MaxInvocations

\* Framework's constructor takes the file.
Accepted(f) == f.magic = <<"mach">> /\ f.filetype \in FileTypes /\ (f.fat = "no" \/ f.archs # 0)

\* Whatever the orders of the host, of the fat header and of the slice, of a file that -s has
\* not lost: ldid knows whether the slice is mirrored, refuses a file only for what is in it,
\* and leaves each command and timestamp it writes in the order of the slice.  Not so
\* MH_DYLDLINK, which -S leaves in the order of the host (another flag in a mirrored file):
\* but a run that goes on to sign is of a host of the file's order.
OrderIsKept ==
  mach.pages # Lost =>
  /\ \A c \in DOMAIN mach.cmds : mach.cmds[c].cmd.o = mach.order
  /\ \A c \in Cmds(<<"id_dylib">>) : mach.cmds[c].timestamp \in {Stored(mach.cmds[c].timestamp.v, mach.order)}
  /\ Ran => proc.swapped = (mach.order # proc.host)
  /\ proc # NoProc /\ proc.opts.S /\ ~proc.opts.s /\ Accepted(mach) => proc.host \in mach.flags
  /\ end = "asked" => proc.host = mach.order /\ mach.order \in mach.flags
  /\ end = "threw" =>
       \/ ~Accepted(mach)
       \/ proc.opts.S /\ (mach.order # proc.host \/ ~mach.arm)
       \/ (proc.opts.e \/ proc.opts.s) /\ Cmds(<<"code_signature">>) = {}

\* What a finished -T- leaves is the hash of the file as it is, but for the timestamp,
\* also after runs that were stopped half way: unless the same run had -R and rewrote
\* a command that comes after LC_ID_DYLIB, or -s and changed the page hashes.  Then another
\* -T- would change it.  (-T- beside -S ends as "asked": it stamps the new file.)
StampIsOfFile ==
  end = "done" /\ proc.opts.T /\ proc.opts.timeh /\ mach.pages # Lost =>
    \A c \in Cmds(<<"id_dylib">>) :
      (mach.cmds[c].timestamp.v =
         Hash([mach EXCEPT !.cmds[c].timestamp = Stored(Zero, mach.order)], proc.opts.timev))
      <=> ~proc.late

\* What the file says of a: the place of the word, or nothing.  ldid never finds a section
\* whose end, in 32 bits, is before its start.
WordAt(a) ==
  LET all == UNION {{mach.cmds[c].sections[k] : k \in DOMAIN mach.cmds[c].sections} :
                      c \in Cmds(<<"segment">>)}
  IN  {a - s.addr + s.offset : s \in {s \in all : s.addr + s.size < Addrs /\ a \in s.addr .. s.addr + s.size - 1}}

\* What -t and -u print is what the file says at that moment, in either order, and so is
\* what -e prints of a thin file; of a fat one it is anything.  -w prints the word at its
\* address in a host of the file's order, and elsewhere that word's mirror image.
SaysWhatIsThere ==
  [][\A k \in DOMAIN said' \ DOMAIN said :
       LET x == said'[k]
       IN  CASE x[1] = "time" -> \E c \in Cmds(<<"id_dylib">>) : x[2] = Plain(mach.cmds[c].timestamp.v)
             [] x[1] = "uuid" -> \E c \in Cmds(<<"uuid">>) : x[2] = mach.cmds[c].uuid
             [] x[1] = "word" -> IF WordAt(proc.opts.w) = {} THEN x[2] = NoProc
                                 ELSE \E a \in WordAt(proc.opts.w) :
                                        x[2] = [v |-> <<"word", a>>, m |-> mach.order # proc.host]
             [] x[1] = "entitlements" ->
                  mach.fat = "no" /\ proc.host = "little" =>
                    \E c \in Cmds(<<"code_signature">>) : x[2] = mach.cmds[c].xml]_machVars
=============================================================================
