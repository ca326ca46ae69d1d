# A verification project for toolchain4

toolchain4 builds a cross compiler for the iPhone (`toolchain.sh`) and, with it, Debian packages
for the phone (`telesphoreo/`); it also brings headers for the phone and for the host, and a few sample
projects. These modules model the parts of it in which order, failure, leftovers or single bits matter; TLC
checks them on small instances, and TLAPS proves the central properties for every value of their constants.
Everything is translated from the scripts and from the C, C++ and Objective-C sources.

- [The system](#the-system)
- [Modules and code](#modules-and-code)
- [Runs](#runs)
- [Proofs](#proofs)
- [Findings](#findings)
- [What is not modelled](#what-is-not-modelled)
- [Plan](#plan)

To run it: `tlc -workers 2 -config MCPkgMake.cfg MCPkgMake` (and so on for each row of [Runs](#runs)), and
`tlapm PkgMake_proofs.tla`.

## The system

The program is a set of shell scripts and of small tools they call. Almost all of its state is on the
disk; no script locks anything, and most of them decide what is left to do from what an earlier run
left behind. That is why interruption, not concurrency, is the main hazard.

| component | state it keeps | operations | hard behaviour | what makes it correct |
|---|---|---|---|---|
| `telesphoreo/make.sh`, `remake.sh`, `catdir.sh`: incremental builds | `data/`, `dest/`, `more/`, `stat/*/data-md5`, `data-ver`; a chain of nested processes | make, remake; hash, compare, wipe, build, stamp | a failure or an interrupt between any two steps; edits while a build runs; diamonds in the dependency graph | a stamp stands for a finished tree of the stamped inputs; an incremental build equals a clean one; what is up to date is left alone; a build ends |
| `package.sh`, `control.sh`, `construct.sh`: packaging | `debs/*.deb`, `stat/*/dest-md5`, `dest-ver`, a temporary `DEBIAN` | package, index | two records written one after the other; owners that only a fakeroot session knows; leftovers of `DEBIAN` | a written .deb never changes; only what was packed is recorded; the index offers the package as it is |
| `rehash.sh` | `dest-md5` | records a hash without packing | | agreement with what is in `debs/` |
| `exec.sh`, `folders.sh`, `architect.sh`, `arch/` | none of their own | prepare the environment of one build | | |
| `util/ldid.cpp`: layout of a signature | the signature in a mapped Mach-O file | allocate, write the parts, hash, check | the room is asked for before anything is written and checked after everything is | writes stay in the room; parts do not overlap; every page and every blob is hashed |
| `util/ldid.cpp`: processes and files | the files, `.f.cs`, `.f.cp`; parent and children | open, fork, exec, wait, map, sign, copy, unlink, rename | a child that fails to exec goes on with its parent's loop; a full disk; a kill between unlink and rename | no build is lost or comes back; status 0 means signed; every run ends |
| `util/ldid.cpp`: Mach-O files and load commands | the words of a mapped file, in its order; `swapped_` | find, read and rewrite commands; hash the file | two byte orders in one fat file, on hosts of either; a signal between two writes into the file itself | every command and timestamp keeps the file's order; what is printed is what is there, or for `-w` its mirror image; the timestamp is the hash of the file |
| `util/sha1.c` | a block, two length words, flags; words and rounds | reset, input, result, process a block | pieces across blocks; padding at the block's end; carry and overflow of the length | the digest is that of the padded message, whatever the pieces |
| `util/lookup2.c` | none | `hash`, `hash2`, `hash3`, self-test | wrapping words of four or of eight octets | its own self-test |
| `util/arid.cpp` | the archive, in place | clear the dates | padding that it does not know of, and what it takes for a length after it; a stop at any member | with up to two members of odd length, all dates go and nothing but what it takes for one changes |
| `libkern/`, `byte_order.h`: byte order | integers in files that hosts share | swap, load, store | four implementations of one swap | every host reads what any host wrote |
| `mach/arm/task.h`, `thread_act.h` | a message on its way | 57 routines | arrays packed tightly, unions, errors without the fields | arguments and results arrive as they were given |
| `libstuff/emulated.c` | the globals of `qsort_r` | sort, copy | sorts within sorts and in other threads; the last character | a sort compares by its own comparator; copies end in their room |
| `Projects/LocalPush` | `bgTask`, the main queue, notifications | launch, leave, return, expire, remind | the user and iOS act between any two blocks | the task that is running is known, and ends |
| `toolchain.sh`: headers, build, buildsys*, clean, all | `$SDKS_DIR`, `$TMP_DIR`, `$SYS_DIR` | extract, unpack, move, copy, remove | no `set -e`; what is done is told by the presence of a directory | what is reported as built or extracted is whole |
| `toolchain.sh`: build313, build32 | the same, `darwin_sources`, `src/csu`, `sys313`, `sys32` | download, extract, merge, patch, install csu | two commands share SDKs, sources and csu; every step may be declined | a run that declines nothing ends with a whole root |
| `toolchain.sh`: cctools, llvmgcc; `extract.sh` | sources, build trees, installed binaries | check out, patch, configure, install | presence taken for completeness | |
| other stages of `toolchain.sh` | none that another stage reads | download, ssh, scp | | |
| `as_driver`, `collect2`, `nmedit`, `find.sh` | none | choose a tool, rewrite its arguments | | |
| `bootstrap.sh`, `pwnr/`, `build.sh`, `clean.sh` | external file systems | sequential copies | | |

They interact through the file system and through processes. `package.sh` runs `make.sh` or
`remake.sh`, which runs itself on the dependencies and hands `strip`, `arid` and `ldid` the files of a
package; `ldid` runs `codesign_allocate` and hashes with `sha1.c` and `lookup2.c`; `construct.sh` reads what `make.sh`
and `package.sh` recorded. The byte order headers are what cctools is compiled with on hosts without Darwin's, and what
programs for the phone are compiled with. All of them need the compiler and the system root that `toolchain.sh` made.
`PROJECT.json` lists every component with its status, and every hazard at the line where it bites.

## Modules and code

| module | models | depends on |
|---|---|---|
| `PkgMake` | `make.sh`, `remake.sh` | |
| `TreeCache` | what `make.sh` promises: a cache of finished trees, each entry dropped or filled in one step | |
| `PkgMakeImplements` | the refinement mapping from `PkgMake` to `TreeCache` | `PkgMake`, `TreeCache` |
| `PkgPackage` | `package.sh`, `rehash.sh`, `construct.sh`, with `make.sh` as one step | |
| `Releases` | what `package.sh` promises: a shelf to which releases of finished trees are added, and revisions that are recorded after them | |
| `PkgPackageImplements` | the refinement mapping from `PkgPackage` to `Releases` | `PkgPackage`, `Releases` |
| `LdidLayout` | one signature of a thin file, byte by byte of its offsets | |
| `LdidMachO` | `class Framework`, and the loop over the load commands with `-R`, `-T`, `-t`, `-u`, `-w`, `-e`, then `-s` | |
| `LdidSign` | `ldid` as processes over thin files, with the signature as "the code it covers" | |
| `SignedFiles` | what `ldid` promises: files that are always there and whole, changed as the options ask or exchanged at once for their signed form | |
| `LdidImplements` | the refinement mapping from `LdidSign` to `SignedFiles` | `LdidSign`, `SignedFiles` |
| `Sha1Stream` | `SHA1Reset`, `SHA1Input`, `SHA1Result`, `SHA1PadMessage` | |
| `Sha1Block` | `SHA1ProcessMessageBlock`, word by word | `Words` |
| `Lookup2` | `hash`, `hash2`, `hash3`, `mix`, `mix2`, the self-test | `Words` |
| `ByteOrder` | the swaps, loads and stores of the byte order headers and of `ldid` | `BitWords` |
| `MachMessages`, `MachRpc` | the routines and messages of a task and of a thread; a call | `MachRpc` extends `MachMessages` |
| `Emulated` | `qsort_r`, `strlcpy` | |
| `LocalPush` | the delegate of the sample | |
| `Arid` | `arid` | |
| `Words`, `BitWords` | unsigned words: as digits for TLC to compute with, as sets of bits for the provers too | |
| `SysRoot` | `toolchain.sh` from the SDKs to the system root | |
| `MergedRoot` | `toolchain_build_sys3`: `build313` and `build32` | |
| `MCLdid`, `MCPrograms` | one run over several modules: a behaviour is one of the part it begins with | their modules |
| other `MC...` | the values that a `.cfg` cannot write, and symmetry sets | their module |
| `Programs_proofs`, `Libraries_proofs` | theorems of the programs in `util/` (`Sha1Stream`, `Arid`, `Lookup2`), and of headers, libraries and the sample (`ByteOrder`, `MachRpc`, `LocalPush`, `Emulated`) | their modules |
| `LdidFile_proofs` | theorems of `LdidLayout` and `LdidMachO` | their modules |
| other `..._proofs` | theorems | their module |

**PkgMake.** One action per command that changes the disk, in the order of `make.sh`: the loop over the
dependencies (`Visit`, `Return`), the hash and its comparison (`Skip`, `Hash`), `rm -f data-md5`
(`Unstamp`), `rm -rf` (`Wipe`), the build with its clean-up passes (`Build`), `data-ver` and `data-md5`
(`RecordVersion`, `Stamp`). `callers` is the stack of `make.sh` processes waiting for the one that runs.
`Abort` is a failing step under `set -e`, or an interrupt, at any moment; it ends the whole chain. A hash
is what it is the hash of. A build may have read any content its data had while it ran (`read`); `raced`
remembers that there was more than one. `dest/P` and `more/P` are one value, as they are always wiped,
built and hashed together. The loop follows a glob; here it takes any order. No step looks for a cycle
in the dependencies, as `make.sh` does not; the instance is acyclic.

**TreeCache** knows `data` and a function on the cached packages. It has no processes and no stamps that
are out of step with trees. An entry holds a tree and the inputs it was built from, and is filled only from
cached dependencies.

**PkgPackage.** `Begin` reads version and revision before anything is made, as `helper.sh` does;
`Rebuild`/`SkipBuild` are `remake.sh` or `make.sh`, according to who runs it; then `AddDebian`, `HashTree`,
`Pack`, `RecordMd5`, `RecordRevision`, `RemoveDebian`, one for each command. `Offered` is what
`construct.sh` computes from the disk. A `rehash.sh` is a session that ends in `RecordUnpacked`, after an `AddDebian`
that copies some of the scripts only. `setting` fixes, for a behaviour, who runs what and what may go wrong. `builtBy` says which session knows the owners of the files. `Fail`
may leave a half-written `.deb`, an unfinished tree with or without the new `data-ver`, or an empty `dest-md5` or `dest-ver`, which `echo` opens before it writes.

**Releases** has the sources of the package, the tree as it was built, the shelf and the last recorded revision, and neither processes nor hashes. A release is
added under the next revision and of a tree that is finished; a revision is recorded if there is a release of it, and is forgotten only while the next one is being recorded (`Forget`: the file is empty, and the numbers begin again). The shelf is what `debs/` has of `.deb` files that
`dpkg-deb` has finished: a half-written one is not on it.

**LdidLayout.** `SignatureSize` is `ssize`; one action for every part written, with the place and the
length it has in the code; `HashSlots` goes through the index in the order of `ldid.cpp`; `Check` is the
comparison at the end; `SignAgain` signs the signed file again by another name or with other
entitlements. All lengths are the real ones (`Page` = 4096, `HashSize` = 20, the structs).

**LdidSign.** `procs` is the chain of processes, each in `waitpid` for the next. One action for every system
call that changes a file or may fail. `Throw` is what each `_assert` and `_syscall` does: the loop's `catch` counts and goes
on with the next file, in a child that could not exec as well. `codesign_allocate` is external: it writes
`.f.cs` or fails, possibly half way. `Kill` may end everything at any moment. `OpenFails` and the second
disjunct of `AlterCopy` are an `open` or an `mmap` that fails of a file that is all right. The constructor looks at the header only, so a file that was cut short is taken, and `Crash` is where ldid reads past
its end.

**SignedFiles** has the files and the options, no processes and nothing beside the files. A run links, alters or hashes a file, or exchanges it
for the signed form of exactly its code, altered as the options ask; it ends with status 0 only if all files are signed. In the mapping a file is what
is in its place, or else `.f.cp`: the exchange is the `unlink`, and the `rename` is a stutter.

**LdidMachO.** A 32-bit word of the file is a value and the order it is stored in, and in a register a value or its
mirror image, so that a `Swap` that is missing or one too many shows as a word in the wrong order. Three are missing in the code: `-S` sets and compares flags and cpu type as they are (`Prepare`; `flags` has
the orders in which `MH_DYLDLINK` stands in the header), and `-w` prints its word as it is (`WordIn`). `Open` is the constructor with its two
decisions about `swapped_`; then one action per load command (`Reexport`, `Signature`, `Uuid`, `IdDylib`, `HashFile`, `Ignore`), each a write of
its own into the mapped file, then `-e` (`PrintEntitlements`) and `-s` (`RehashPages`, `RehashUnsigned`), and `Finish`. In a fat file, or on a big-endian host, `-e` and `-s` follow offsets that are anything (`Blind`): they find nothing, print
or hash whatever is there, or crash (`RehashBlind`). `Stop` is a signal between any two of them. Of `-S` it has what is written into the file
itself before room is asked for.

**Sha1Stream.** The context's fields under their own names. The compression function is taken as the block
that it is given, so a digest is the sequence of blocks it was computed from, and two digests are the same
exactly if their blocks are. An octet of the message is its place, one of the padding or of the length its value, and the eight octets of the length stand at the end of the block, at 56 of 64. **Sha1Block** is that function: `Expand` makes one word of `W`, `Round` is one of the eighty rounds,
`AddBuffers` ends a block.

**Lookup2.** The hashes as recursive functions over the words of a key, which are read from memory octet by octet or, by `hash3`, word by word; a word has two or four digits to the base 2^16, for an
`unsigned long` of four or eight octets. The nine steps of `mix` differ in their shifts only, so there is one operator for a step and a table of shifts.
`driver2`, `driver3` and `driver4` are actions, one for each trial; `driver3` takes any keys beside the sentence and the zeros of the code; `Compare` puts the variants beside each other, as the comments say that they agree.

**ByteOrder.** Programs on hosts of either order write integers into a file and read them, with any of the functions at hand on that host.
`fields` remembers what a reader of the format expects where. The phone may store a 64-bit integer of the other order only by a swap and a plain store, which loses the highest octet of it (`Swapped`). Words are sets of bits, so that a mask is an intersection and a rotation a
permutation, and the swap of the ARM assembly is there instruction by instruction.

**MachMessages** has the prototypes, requests and replies of both headers as tables, and their numbers. In **MachRpc** a call is packed in the order of the
request's struct, served by its number, unpacked, and answered with a reply or an error; each word that is sent says what it is of. Arrays have any of the lengths `ArrayLengths`, the largest that fits, or any length out of line. `mig`'s stubs are not in the repository: packing and
unpacking follow what the headers say of the messages (arrays are packed, counts precede them, `Request` and `Reply` unions give the size of the buffers), and
are marked external.

**Emulated.** `qsort_r` in its steps: the thunk is saved, then the comparator, then `qsort` (external) calls the comparator `Compares` times; a
comparator may call `qsort_r`, and so may another thread at any moment. `strlcpy` is one action per turn of its loops.

**LocalPush.** One action per delegate method and per block of the main queue; UIKit, iOS and the user are external: they launch, return to,
leave, suspend and end the application, and call expiration handlers. Blocks read `bgTask` when they run. The date of the reminder goes through the components of a date, which say nothing
of the time zone: a time that the clock shows twice (`Repeated`) may come back as the first of the two (`Meant`).

**Arid.** `Member` is a turn of the loop over the members, on the characters of the archive; `Ar` is what `ar` writes, with a newline behind members of odd
length, and members may hold anything. `Strtoul` takes blanks, a sign and digits from the place on, in the field or behind it; additions and the end of the loop (`Goes`) are modulo `SizeT`. Once `arid` has left the file, `Astray` is a turn there,
after which it may be anywhere in `Landings`. `Killed` stops it anywhere.

**SysRoot.** A tree is `Nothing`, whole and of some release, `Cut` by an interrupt while it was written, or
`Bad` for another reason. `Unpacked` and `Interrupted` say what `cpio -id` makes of leftovers: it keeps every file that is newer than
the archive's. `Moved` says that `mv` cannot replace a directory that has files. A command may fail without being
noticed (`faulty`), as the script looks at few results; `Stop` is an `exit 1` or an interrupt, and damages
the tree that was being written or removed.

**MergedRoot.** One action per step of `toolchain_build_sys3`: the Mac OS X SDK and that of the version
(`HaveSdk`, `GetSdk`), the Darwin sources (`Sources`, `Download`, `Extract`), the root (`CopyHeaders`, `Wipe`, `Merge`,
`Patch`), the startup objects (`Csu`, `Checkout`, `Install`). Every `confirm -N` is a choice. Trees are whole, part or
none; what is merged of anything but whole trees is part. `archive` and `source` are functions on the Darwin
projects, because the script looks for `Xnu` only and goes by that for all of them. `sdk[x] = "left"` is what an
interrupted `cpio` leaves in `SDKs` or `Platforms`, and the next one keeps. `Clean` is one step of the
removal, so that an interrupted `clean` is a state like any other; it takes the trees in the order of the script.

History variables (`raced`, `made`, `edited`; `fresh`; `latest`; `octets`; `faulty`, `found`; `again`, `stuck`; `late`; `fields`; `shared`, `compared`; `decided`) are read by
properties only; no action's guard or effect on another variable depends on them (`octets` names the octet that is put in).

## Runs

| run | configuration | question | properties |
|---|---|---|---|
| `make_any_edits` | `MCPkgMake` | Do interrupts and edits at any moment break incremental builds? | `StampSound`, `IncrementalIsClean`, `MadeStaysMade`, `EventuallyIdle` |
| `make_is_a_cache` | `PkgMakeImplements` (module `MCPkgMake`) | Is `make.sh` an atomic cache for one who reads stamped trees only? | `ImplementsCache` |
| `package` | `PkgPackage` (module `MCPkgPackage`) | Do interrupts, edits, `rehash.sh`, and changes between root and fakeroot break what was published, and is the present package on offer after an undisturbed run? | `RecordedIsPacked`, `FakerootOwnersKept`, `DebsNeverChange`, `OffersCurrent`, and that it is an append-only shelf of releases, `ImplementsReleases` |
| `ldid` | `MCLdid` | Does the signature fit, and cover what it should? Are Mach-O files of every order read and rewritten right, wherever ldid is stopped? Can a run, however it fails, lose or confuse files? | layout: `WritesWithinRoom`, `PartsDisjoint`, `PagesCoverCode`, `SlotsCoverBlobs`, `ResigningKeepsCode`; files: `OrderIsKept`, `StampIsOfFile`, `SaysWhatIsThere`; processes: `NeverStale`, `NothingLost`, `SuccessMeansSigned`, `EveryRunEnds`, and together, as an abstract specification, `ImplementsStore` |
| `ldid_copy_truncated` | `LdidSignCopy` | Is the copy whole when the disk fills up? | `CopyIsWhole`, violated |
| `programs` | `MCPrograms` | Does each of the small programs and libraries do what it is for? | `DigestIsOfMessage`, `LengthIsExact`, `DigestIsKnown`; `SelfTestPasses`; `ReadersAgree`; `ArgumentsArrive`, `ResultsArrive`; `TaskIsKnown`, `EveryTaskEnds`, `RemindsOnceAhead`; `ComparesByOwn`, `CopiesWhatFits`; `DatesAreErased` |
| `swap64_loses_an_octet` | `MCProgramsDevice` (module `MCPrograms`) | Does the phone read 64-bit integers of the other order? | `DeviceReadsWhole`, violated |
| `push_asserts` | `LocalPushAssert` | Is there never a task left when the next one begins? | `NoTaskLeft`, violated |
| `lookup2_long` | `Lookup2Long` | Does the self-test pass where an `unsigned long` has eight octets? | `SelfTestPasses`, violated |
| `sysroot_any_interrupt` | `MCSysRoot` | Does what interrupted runs left behind end up in what later runs report as done? | `BuiltIsWhole`, `ExtractedIsWhole`, `NeverHalfExtracted` |
| `merged_again` | `MCMergedRoot` | Does a run that answers every question with yes repair what was left behind? | `AgainIsWhole` |
| `merged_lacks_csu` | `MergedRootCsu` | Has the second root its startup objects? | `EveryRootStarts`, violated |

The types of the modules are theorems (see [Proofs](#proofs)). Deadlock is checked in the runs of `PkgMake`, `PkgPackage`, `SysRoot` and `MergedRoot`. It is not in `ldid` and `programs`, whose parts
stop when what they look at is over: the bounded number of runs, the end of a message, of a self-test, or of a copy.

### Bounds, and why they are enough

- `MCPkgMake`: three packages, where `app` needs `lib` and `base` and `lib` needs `base`: the smallest graph
  in which a package is needed on two paths, so that one `make.sh` visits it twice. `base` and `lib` have two
  contents; both contents of `lib` build to the same tree, so that an edit with and one without effect on the
  tree above are both there. `app` has one content, as nothing reads its tree. A build over an unfinished
  dependency gives a tree of its own, so that it cannot go unnoticed. Nothing bounds the number of edits and builds.
- `PkgMakeImplements`: the same, with `EditDuringMake = FALSE`. With edits during builds `make.sh` is not
  such a cache, and is not meant to be: `StampSound` says what is left (the stamp is that of what was hashed; the tree may be of
  another content, and the next `make.sh` builds it again, unless the edit was undone).
- `PkgPackage`: two contents, two versions, one maintainer script, in seven settings (`MCSettings`). Root and fakeroot together with edits
  at any moment and revision 1, or with edits between their runs and revisions up to 2, which suffices for a `.deb` that blocks the name that a later run wants; each of the two alone
  with edits at any moment and revisions up to 2; `rehash.sh` and root, with edits between their runs, with scripts (revision 1) and without (2). In all of these every step may fail.
  And fakeroot alone, undisturbed, with scripts and revisions up to 3. `OffersCurrent` is not claimed for more than the last, because the code does not hold
  more: a `make.sh` run by root skips the build after an edit of `_metadata/version` alone and leaves `data-ver` as it was, and a run
  that was interrupted may leave a `.deb` that the next run finds in its way. `RecordedIsPacked` is not claimed where
  `rehash.sh` is run, which records what is not packed on purpose.
- `MCLdid`, layout: code sizes around 0, 1, 2 and 256 pages, from 17 bytes before the page boundary to 17
  after it, so on both sides of the boundary of a page and of 16 bytes; names around a multiple of 8 and of 16;
  no entitlements, empty ones, and up to 500 bytes. Signing again is not bounded. The theorems hold for all sizes.
- `MCLdid`, Mach-O files: every combination of the orders of host, fat header and slice; three lists of commands, in which `LC_ID_DYLIB` comes before and after
  `LC_REEXPORT_DYLIB`, with sections side by side, with a gap, and up to the end of the addresses, which are modulo 16; files that are refused for each reason; thirteen command
  lines and two runs of `ldid`, so that one may finish what another left.
- `MCLdid`, processes: two files, three versions of which one is a text, one rebuild, two runs. Two files are needed for a child that goes on with its parent's
  loop and comes back to it, two runs and a rebuild for leftovers of `.f.cs` and `.f.cp` of another build. Exit
  statuses are modulo 256, and the number of files is assumed to be below that (`FewFiles`): with 256 failures
  the status wraps to that of success. `FlushFails = FALSE` here: a failing flush breaks `NothingLost`, and
  has a run of its own (see [Findings](#findings)).
- `MCPrograms`, SHA-1: in `Sha1Stream` the blocks of the code, of 64 octets with the length at 56; but octets of 2 bits and length words of 16 values, so that the carry comes after 8 octets and
  the overflow after 128, both within reach; pieces of 0, 8 and 55 octets, so that a message ends on each side of 55 and of the end of a block, in one and in two of them. In `Sha1Block` the real sizes, on the two messages whose digests FIPS 180-1 gives: one of a single block, and one whose padding needs a second.
- `MCPrograms`, `Lookup2`: keys of 0, 1, 2, 5, 12 and 13 octets in `driver2` (an empty key, a part of a word, a full block and one more), every bit of each with every initval; in `driver3`, at all eight alignments, its sentence, its keys of zeros up to 35 octets, and others of 1 to 25 octets that have no zeros at their end; 125 triples of words, of zeros, of ones and of single bits, for the variants. The self-test itself goes up to 69 octets, which repeat the block of twelve.
- `MCPrograms`, `ByteOrder`: a file of 8 octets, one host of each kind, and words in which each octet has another bit, so that no two octets can be exchanged unseen. The theorems hold for all.
- `MCPrograms`, `MachRpc`: every routine; arrays of no element, of one, and of as many as there is room for.
- `MCPrograms`, `LocalPush`: three background tasks, three blocks, minutes of three seconds and four seconds, so that a launch falls on every second of a minute. One of the times that an event can have is one that the clock shows twice (`Repeated`), as it is set back by nine seconds.
- `MCPrograms`, `Emulated`: two threads, two comparators, two comparisons in each sort, three sorts: one inside another and one beside them. Strings of 0 to 4 characters into 0 to 6.
- `MCPrograms`, `Arid`: archives of up to three members of even and odd length, whose texts look like lengths, and of four with two or three of odd length, after which a length is negative (back into the file, or out of it), or too large; addresses and sizes modulo 2^20, so that eight digits are too many; two places to which a turn outside of the file leads; two runs.
- `MCSysRoot`: one version of the SDK and two releases of each source, so that a leftover can be told from the
  new. Versions share `$SDKS_DIR/Platforms` and nothing else; two of them make more states than are useful, and the theorems
  hold for any number. `Releases` are interchangeable (`Alike`).
- `MCMergedRoot`: both versions, as they share the Mac OS X SDK, the sources, csu and `Platforms`; two Darwin
  projects, the one that is looked for and another, so that the first may be there without the second. Nothing bounds the number of
  runs and interrupts. This is the largest run, with nine million states in about two minutes.
- `MergedRootCsu`: the same with one project. `MCProgramsDevice`: the part `ByteOrder` of `MCPrograms`. `Lookup2Long`: keys of one and two octets.

Symmetry is used in runs that check safety only, on sets that the module compares for equality.

### Fairness

Three modules state fairness. `PkgMake` has `WF_vars(Running)`: the shell runs the next command of a script that
has one. `LdidSign` has `WF_signVars(SignStep)`: the deepest process is not waiting for anything. `LocalPush` has weak fairness of `Chat` and of `Expired`: the
main thread takes the next block of its queue when it may run. None obliges anyone to edit, to start a
command, to return to an application, or to interrupt anything, and none assumes that a step succeeds. `EventuallyIdle` rests on the
acyclic graph. `EveryRunEnds` rests on the loop over the files, whose index a child inherits, so that even a chain
of children that all go on in their parents' place comes to an end. `EveryTaskEnds` rests on the block that each task is begun with: iOS does not suspend an
application that has a task, so that block runs.

### Mutants

Every property of a passing run has a mutant in `PROJECT.json`: a definition changed the way a plausible mistake in the code would change it (a
stamp not removed first, a hash without the dependencies, a status not looked at, room for one header less, a
block noticed one octet late, a directory not emptied, a mask forgotten). The operators are marked `Mutant:` in the modules
and are used nowhere else.

## Proofs

`tlapm` checks all of it; there are no unproved steps. Constants are as general as the modules' assumptions allow.

**PkgMake_proofs** assumes that `Deps` maps packages to sets of packages, that no package depends on itself,
that `Outputs` yields finished trees, and that the sentinels are none of the values. The graph need not be
acyclic, nor finite.
- `TypeCorrect`: `TypeInv` adds to `TypeOK` that the stamps are a function on the packages.
- `StampsAreSound`. `StampSound` is not inductive: nothing in it prevents `Stamp` from stamping an unfinished
  tree. `StampInv` adds what the running `make.sh` knows: its stamp is gone after `Unstamp`; the dependencies'
  trees are still those that were hashed; after `Build` its tree is an output of the inputs.
- `IncrementalBuildsAreClean`, `UpToDateIsNotRebuilt`. `MadeInv` follows the chain of waiting processes: while nothing is edited, every
  dependency that a loop has left behind is up to date, except the one it waits for now. It follows
  (`RebuiltIsUnused`) that what is being rebuilt is below nothing that is up to date.
- `PkgMakeRefinesTreeCache`, for `EditDuringMake = FALSE`: `Unstamp` and `remake.sh` are `Drop`, `Stamp` is
  `Fill`, every other step is an `Edit` or a stutter.

**PkgPackage_proofs** assumes that the sentinels `None` and `Partial` are none of the values. `IInv` is made of what a run of `package.sh` knows at
each of its commands: the name that `dpkg-deb` writes is free, and what it wrote is what is recorded (`PackInv`); under fakeroot the tree was built
by this very run (`OwnersInv`). For undisturbed settings it adds that `debs/` has nothing above the recorded revision but what is being recorded, and that the tree, the
control files and the hash are those of the present inputs (`OfferInv`, `RunInv`); `OffersCurrent` needs both, since the next
revision must be free for the new package to be the newest.
`ImplementsTheShelf` is the refinement, for every setting. It rests on `ReleaseInv`: a stamp is that of the tree; while a run hashes and packs, the tree is finished and what was
hashed; and the revision that it is about to record is the next one, with a finished `.deb` behind it. `Pack` is a `Release` (`PackReleases`), `RecordRevision` a `Record` (`RevisionRecords`), an empty `dest-ver` a `Forget`, a build
a `Build`, a failure that leaves an unfinished tree a `Spoil` (`FailSpoils`), and all else changes nothing that is promised (`Unseen`). Theorems: `TypeCorrect`, `PublishedStaysPublished`, `SkippedIsPacked`, `FakerootPacksOwners`, `OfferIsCurrent`,
`ImplementsTheShelf`.

**LdidFile_proofs** is about two modules. For `LdidLayout` it assumes that sizes are positive and lengths natural. `LayoutInv` says where each part is once it is written, in terms
of the sizes only. Two facts of arithmetic carry the argument: the room is computed from the size before it is rounded up to 16
and the pages are counted after, which agrees because a page is a multiple of 16 (`RoundUpKeepsPages`); and the special
slots lie before the page hashes. `LayoutInv` contains `pc # "failed"`: the check at the end of the code never fails.
Theorems: `TypeCorrect`, `SignatureFits`, `PartsStayApart`, `PageHashesCoverCode`, `BlobsAreHashed`, `CodeEndStays`.

For `LdidMachO` it assumes that files are well formed (`WellFormed`: every command and timestamp is in the order of the file, and there is one `LC_ID_DYLIB` at most, as
the format has it) and that options are those that `main` accepts, without `-p` and `-n`; files, commands, sections, addresses, hosts and runs are any. The properties are about a file
that is rewritten under a run that goes on. `ReadInv` says that a run knows the order of the file (`swapped_`, from `FrameworkFacts`), and of the
commands behind it whether there was a signature and an `LC_ID_DYLIB`. `StampIsOfFile` is about finished runs only; `StampInv` says for each point of the
loop that a stamp behind it is the hash of the file with this stamp as zero, unless `-R` has rewritten a command in between, or `-s` the page hashes (`late`), and
then is that of another file, since the hash determines what was hashed (a stamp of `-T-` and page hashes of `-s` are terms here, so that two files never share one); `HashingInv` has the zero that stands in the file meanwhile, which a signal may leave there.
`SaysWhatIsThere` is an action property, with one lemma for each action that prints; that of `-w` compares the search of `GetPointer` with the sections that
contain the address (`PointerIsWord`), and claims the mirror image of the word on a host of the other order, which is what the code prints. `OrderIsKept` claims the file's order for commands and timestamps, and for `MH_DYLDLINK` the host's:
only a run whose host has the file's order goes on to sign. Files whose pages `-s` hashed blindly (`Lost`) are in none of this. Theorems: `MachTypeCorrect`, `OrderAlwaysKept`, `StampAlwaysOfFile`, `AlwaysSaysWhatIsThere`.

**LdidSign_proofs** is about any number of files below the range of an exit status, and any number of runs, rebuilds and kills. It assumes that `None` is neither a file's
content nor a status. A child that failed to exec goes on in its parent's loop, so that the stack of processes may be deep and
each of them at another file. `ChainInv` bounds what each can have: every process but the last waits, and the next one either is about to run `codesign_allocate`
for the same file, or has a failure on its count, and so never ends with the status 0 that its parent would take for that of `codesign_allocate`. `CurrentInv` says that the temporary files of the
step in hand come from the file's last build, `SignedInv` that a process without failures has signed what is behind it, and `LostInv` that the file is there until its copy is
whole. `NoBuildIsLost` needs `~FlushFails`; what happens otherwise is the finding `ldid_copy_truncated`.
`LdidImplementsSignedFiles` is the refinement, again for `~FlushFails`. It needs one invariant more: `ReadyInv` follows the copy of the running step from `codesign_allocate` to the
`unlink` and says that its code is that of the file, altered as the options ask, that there is room for a signature in it, and that the file is out of the way when it is renamed.
`SetFlag`, `AlterInPlace` and `Rehash` are changes of one file (`ChangedInPlace`), `Copy` and `Rename` are seen by nobody (`BehindTheFile`), and an `Exit` is an end only of
the first process. Theorems: `SignTypeCorrect`, `OldBuildsStayAway`, `SuccessIsSigned`, `NoBuildIsLost`, `LdidImplementsSignedFiles`.

**SysRoot_proofs** assumes that the default version is a version, that MacOSX is none, and that the sentinels
are different from each other and from the releases. `IInv` says for each point of a stage what the trees hold, given what
the stage found when it began: `ImageTrees` for headers, `SourceTrees` for build, `VersionFits` for the SDK
that is being worked on. `BuiltIsWhole` alone is not inductive, since nothing in it relates `$SYS_DIR` to the
SDK that is copied. Theorems: `TypeCorrect`, `BuiltRootsAreWhole`, `ExtractedSdksAreWhole`, `NoHalfExtractedSdk`.

**MergedRoot_proofs** assumes that MacOSX is no version, and that `Xnu` is a project. `IInv` says what a `Clear` run (every answer yes, nothing
failed, nothing found that cannot be made again) knows at each step: the SDKs are whole from the point where both have been seen
(`SdksFit`); no source is half there once the archives have been extracted (`SourcesFit`); the root is what the steps
so far have made of it (`RootFits`). `AgainIsWhole` speaks of the last step only, and is inductive with all of these. Theorems: `TypeCorrect`, `AgainRepairs`.

**Programs_proofs** is about three modules. For `Sha1Stream`: blocks of any size above 8, with the length in their last eight octets, octets of any number of bits, and length words of any range that is a multiple of it, so it holds for 64 with the length at 56, for 8, and for 2^32.
`ShaInv` adds to the types that the two words count whole octets (`CountInv`), and that the octets put in lie in their order in the blocks that were
processed and in the one that is being filled (`Streamed`). The lemma `PaddingIsRest` compares the one or two blocks that `SHA1PadMessage` makes, cell by cell, with the padded
message. Theorems: `ShaTypeCorrect`, `LengthIsAlwaysExact`, `DigestsAreOfMessages`.

For `Arid`: archives of any number of members with any dates and modes in their headers and anything in them, whose lengths have ten digits at most, as many as `ar_size`, in a memory that has room for them. With at most two members of odd length
before the last one, `arid` looks for a header zero, one or two octets too early, where the size, read from the blanks of the mode on, is still that of the member and ends where it ended: so a run is at a member, by that skew, or past all of them (`AridInv`), and what it overwrites is the
date, or the last one or two octets of the name and the date but for its last blanks. This rests on the digits of a number being read back as that number wherever they stand in the field
(`StrtoulReadsBack`). With three such members it fails, and the module says nothing of what then happens but that it may (`Astray`). Theorem: `DatesAreAlwaysErased`.

For `Lookup2`: keys of any octets and of any length, anywhere in any memory, and any words. Two claims of the code's own self-test and comments are theorems.
- `OnlyKeysAreHashed`, where `ub4` has four octets: `hash` reads nothing but the key (`HashReadsTheKey`, from the words that two memories share; it holds for an `ub4` of eight octets as well), and `hash3`, which reads aligned
  keys word by word, is `hash` (`Hash3IsHash`, from `LoadIsOctets`). With eight octets `hash3` reads eight of the key where it means four, and differs.
- `VariantsAlwaysAgree`: `mix2` with words of eight octets leaves in the low four what `mix` makes of them (`Mix2IsMix`), and `hash2` is `hash` of the same
  octets but for the length that is counted, for lengths below 2^16 (`Hash2IsHash`). The argument for `mix2` is an induction over its nine steps (`StepsAlike`): differences and exclusive ors never carry
  from a high digit into a low one (`LowMinus`, `LowEor`), a shift to the left does not either, and a shift to the right does, from the third digit; wherever it does, a mask
  has cleared that digit, in this step or the step before (`LowShift`). One mask less and this fails, which is what the mutant shows. Exclusive or is a table of nibbles, so that it
  stays within a digit by a lemma about nibbles (`NibbleFacts`).

`TestInv` says what each of the tests has found so far. Theorems: `OnlyKeysAreHashed`, `VariantsAlwaysAgree`.

**Libraries_proofs** is about four modules. For `ByteOrder`: files of any size, any words and any of the hosts. All swaps but one mirror the octets of a word (`SwapsMirror`, from one
lemma for each width); a field lies octet by octet in its own order (`Placed`), which a store establishes and a load reads as the word or its mirror image. `WellPlaced` is
inductive. Theorems: `AlwaysWellPlaced`, `FileTypeCorrect`, `ReadersAlwaysAgree`, which has the octet that `_OSSwapInt64` loses, of what the phone writes and of what it reads, as its exception.

For `MachRpc` (the stubs are not in the repository, so what is proved is that the tables of the two headers agree with themselves): every routine of both headers, arrays of all lengths that fit, memory out of line of any bound. The argument has two halves. `RoundTrip`, for any list of
fields: what is packed is unpacked as it was, if every field fits its extent and each array stands behind the word that counts it (`Fits`, `Layout`). It goes by induction over the fields: where one begins depends on
counts that lie before it, which by then were read as they were written. And `TablesAgree`, about the tables: every request and reply has such a layout, with the parameters of its prototype (`Agrees`), so that
the room of a union suffices (`RoomSuffices`). The properties speak of the ends of a call; `RpcInv` says of the message in flight, too, that it is what `Pack` makes of what was given, under a number of its routine. Of a failure the reply has the `RetCode` alone, which the caller tells by the descriptors that it lacks, or by its first word (`Tells`). Theorems: `ArgumentsAlwaysArrive`,
`ResultsAlwaysArrive`.

For `LocalPush`: a minute of any length and any numbers of tasks and blocks. `TaskIsKnown` and `RemindsOnceAhead` are inductive together with the types: a block that finds no task has
nothing to end, one that finds a task ends the only one; and cutting the seconds off a time two minutes ahead, less one, leaves it ahead
(`FireDateFacts`), unless the clock shows that time twice. Theorems: `PushTypeCorrect`, `TaskAlwaysKnown`, `AlwaysRemindsOnceAhead`.

For `Emulated`: any threads, callers and depths of sorts. `ComparesByOwn` speaks of the moment of a comparison; `Owns` says from its beginning on what of a sort is in
the two globals as long as no other one begins, and that no other one stands between the two assignments. `CopyOK` says for each step of `strlcpy` what has been copied and how much room is left.
Theorems: `AlwaysComparesByOwn`, `AlwaysCopiesWhatFits`.

Each inductive invariant was checked by TLC on the instance of its run before it was proved.

Only model-checked:
- liveness (`EventuallyIdle`, `EveryRunEnds`, `EveryTaskEnds`), because TLAPS does not reason about fairness here;
- `DigestIsKnown`, the digests of two messages, and two conjuncts of `SelfTestPasses`: `EveryBitCounts` (`driver2`) and `EmptyKeysGoOn` (`driver4`). They are computations of single values, and true of
  the constants in the code and not for a reason that a proof could give. Its other two conjuncts are theorems.

Induction is proved where it is needed, over sets of numbers (`Induction`, from the library's `WFMin`), so that what a recursive function computes is within reach: where
a member or a field of a message begins (`OffsetFacts`, `StartsSteps`), the digits of a number, what `strtoul` makes of them, what an option list leaves, the steps of `mix` and the blocks of a hash. The library's induction theorems take an operator as a parameter, which the provers cannot
instantiate, so these are stated anew; no module declares a `RECURSIVE` operator, which they do not know either.

## Findings

- `ldid_copy_truncated` (code bug): `ldid.cpp:791` asserts that all of the copy was written, but the last
  buffer is written by `fclose`, whose result is ignored. On a disk that fills up at that moment the file
  renamed over the program lacks its end, and the program is lost.
- `merged_lacks_csu` (code bug): `toolchain_build_sys3` copies the startup objects into the root inside the block that the question
  about checking out csu decides about (`toolchain.sh:1108-1134`). The question is asked once csu is there, with no as its
  default; so the second of `build313` and `build32`, which `README:33-39` names one after the other, reports a folder
  without `crt1.10.5.o` and `dylib1.10.5.o` as built.

- `swap64_loses_an_octet` (code bug): `_OSSwapInt64` of the phone's `libkern/arm/_OSByteOrder.h:76` masks the upper half of its argument with `0xffffff`, so that the lowest octet of
  the result is 0; `OSReadSwapInt64` and all that is built on it lose that octet.
- `push_asserts` (code bug): `AppDelegate.m:164` asserts that no background task is left when the application leaves the foreground. When the user returns and leaves again before the main queue has
  run the block that ends the task, one is.
- `lookup2_long` (code bug): `lookup2.c:12` takes `unsigned long` for four octets. On a 64-bit host `mix` works on words of eight, and the self-test finds bits of the hash that no bit of the key changes. `ldid`
  stores 32 bits of it.

Met while modelling, and in part in the list of hazards: `hash3`, where `ub4` has eight octets, reads eight of an aligned key at once and is not `hash` (`lookup2.c:230`); `sha1.c` sets `Corrupted = 1` where the length overflows, which `sha1.h` calls `shaNull` and not
`shaInputTooLong`; with a file of the other byte order `-S` sets an unrelated flag before it refuses the file; `-w` prints a word of such a file mirrored; `arid` may go back or leave the file after three members of odd length (`arid.cpp:26-27`); `build` removes `$SYS_DIR` before it looks for a tarball or a package, and,
after `headers` alone, finds none (`noSource`); an interrupted `cpio` in `Platforms` leaves a half-written file that
the next `cpio -id` keeps, so `BuiltIsWhole` is claimed only where nothing of the SDK was there before; an
interrupted `clean` leaves an SDK with files missing that `headers` takes for complete; and `build313` takes one extracted project for all of them. `NeverHalfExtracted` is about an
extraction by `headers` that is interrupted: a `cpio` that dies unnoticed (508) is followed by the `mv` all the same, and that half is `Bad`, not `Cut`; and `build313` unpacks the Mac OS X SDK elsewhere, and its leftovers can become half of one, which is why `AgainIsWhole`
excludes them (`stuck`).

## What is not modelled

- Two of a script at once. Nothing in the repository locks `dest/` or `$SDKS_DIR`, and two of them break
  everything that is stated here; the modules assume one outermost command at a time.
- The contents of builds, patches and archives, wording and layout of outputs, colour, prompts that decide nothing.
- `SysRoot`: the mount of the image, the link to `$PREFIX`, the simulator's IOKit headers of `buildsys50`. `cctools` and `llvmgcc` are one step that may fail.
- `ldid`: `-n` and `-p`, which print; the other architectures of fat files, which ldid never looks at; signing and hashing of fat files (`ldid.cpp:665-666`, `691-692` count the offsets of a slice from the start of the file), of which `LdidMachO` has only that anything may
  come of it, `LdidLayout` and `LdidSign` nothing. `lookup2`: `driver1`, which measures time.
- `construct.sh`: the files `stat/fail`, `real-ver` and `exclude`, which no script of the repository writes, are taken not to be there. `package.sh`: the tags and the compression of the index.
- The environment of a package's build (`exec.sh`, `folders.sh`, `arch/`), which keeps no state of its own, and the wrappers of compilers, `pkg-config`, assemblers and linkers, which rewrite arguments.
- Headers that only declare: `architecture/arm/math.h` and `fenv.h` (prototypes and constants, whose functions are in Darwin's libm), `Projects/IOSurfaceAPI.h`, `Block.h`. The other functions of
  cctools' `libstuff` stubs return constants.
- `libkern/`, `mach/`: who includes the headers. The properties of `ByteOrder` and `MachRpc` say that the headers agree with each other and with themselves, not that Darwin's own do.
- The stubs that `mig` generates, trailers, `NDR` records and the audit of ports; UIKit and iOS beyond what the delegate sees of them.
- Downloads, ssh and scp to a phone, the installer (`pwnr/`, `bootstrap.sh`), whose trees are not in the repository.
- Patches, configuration files, the other sample projects, prebuilt files: data.

## Plan

Done: the modules above. The scripts of `telesphoreo/` came first, because they decide what users install; then `ldid`, which decides whether
it runs, `toolchain.sh`, which decides whether it can be compiled, and the programs and headers that share nothing with the others.

What could follow:

1. `CrossTools`, composed with `SysRoot` in the chain of `all`: `src/gcc`, `src/cctools`, `odcctools` and the installed
   binaries, told by presence; `extract.sh` with its clean-up of an earlier tree.
2. A composition of `PkgPackage` with `PkgMake` in which packages have dependencies.
