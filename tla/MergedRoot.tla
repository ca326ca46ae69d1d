------------------------------ MODULE MergedRoot ------------------------------
(***************************************************************************)
(* toolchain.sh build313 and build32: a system root merged from an old     *)
(* iPhone SDK, the Mac OS X SDK and the Darwin sources, patched, and       *)
(* completed with the startup objects of csu.                              *)
(*                                                                         *)
(* The two commands share the Mac OS X SDK, the Darwin sources and the     *)
(* checkout of csu.  Each of these is told by the presence of a directory, *)
(* and asked about ("again?", by default no) where it is there.  As in     *)
(* SysRoot, results of commands are looked at nowhere, one toolchain.sh    *)
(* runs at a time, and of a tree only its completeness is modelled.        *)
(***************************************************************************)
EXTENDS Naturals

CONSTANTS
  Versions,  \* 3.1.3 and 3.2
  MacOSX,    \* the other SDK
  Projects,  \* the Darwin sources, an archive and a directory each
  Xnu        \* the one whose directory, or else archive, is looked for

ASSUME MergedRootAssumption == MacOSX \notin Versions /\ Xnu \in Projects

Sdks == Versions \cup {MacOSX}

VARIABLES
  sdk,      \* in $SDKS_DIR; "left" when half of it lies in SDKs or Platforms, unmoved
  archive,  \* in $DARWIN_SOURCES_DIR: the .tar.gz
  source,   \* in $DARWIN_SOURCES_DIR: the extracted directory
  sys,      \* sys313, sys32; "merged" before it is patched, "none" without usr/include
  startup,  \* do they have the objects of csu?
  csu,      \* $CSU_DIR; "bare" without a .svn
  pc,
  ver,      \* the version being built
  at,       \* the SDK being looked for
  \* History of this command:
  faulty,   \* did a command fail unnoticed?
  again,    \* was every question answered with yes?
  stuck     \* did it find something incomplete that it does not make again?

disk == <<sdk, archive, source, sys, startup, csu>>
vars == <<disk, pc, ver, at, faulty, again, stuck>>

Points == {"idle", "sdk", "sources", "download", "extract", "headers", "wipe", "merge", "patch",
           "csu", "checkout", "install", "built"}

\* Every variable in its range.
TypeOK ==
  /\ sdk \in [Sdks -> {"none", "left", "part", "whole"}]
  /\ archive \in [Projects -> {"none", "part", "whole"}]
  /\ source \in [Projects -> {"none", "part", "whole"}]
  /\ sys \in [Versions -> {"none", "part", "merged", "whole"}]
  /\ startup \in [Versions -> BOOLEAN]
  /\ csu \in {"none", "bare", "part", "whole"}
  /\ pc \in Points /\ ver \in Versions /\ at \in Sdks
  /\ faulty \in BOOLEAN /\ again \in BOOLEAN /\ stuck \in BOOLEAN

Init ==
  /\ sdk = [x \in Sdks |-> "none"]
  /\ archive = [p \in Projects |-> "none"] /\ source = [p \in Projects |-> "none"]
  /\ sys = [v \in Versions |-> "none"] /\ startup = [v \in Versions |-> FALSE]
  /\ csu = "none"
  /\ pc = "idle" /\ ver \in Versions /\ at = MacOSX
  /\ faulty = FALSE /\ again = FALSE /\ stuck = FALSE

Goto(from, to) == pc = from /\ pc' = to

\* "again?"
Yes == UNCHANGED again
No == again' = FALSE

Run(v) ==
  /\ Goto("idle", "sdk")
  /\ ver' = v /\ at' = MacOSX /\ faulty' = FALSE /\ again' = TRUE
  /\ stuck' = \/ \E x \in {MacOSX, v} : sdk[x] \in {"left", "part"}
              \/ \E p \in Projects : source[p] = "part" /\ archive[p] = "none"
  /\ UNCHANGED disk

-----------------------------------------------------------------------------
(* The SDKs                                                                  *)

NextSdk == IF at = MacOSX THEN at' = ver /\ pc' = pc ELSE at' = MacOSX /\ pc' = "sources"

HaveSdk ==
  /\ pc = "sdk" /\ sdk[at] \in {"part", "whole"}
  /\ NextSdk
  /\ UNCHANGED <<disk, ver, faulty, again, stuck>>

\* rm -fr Platforms: what is left of any version goes.
Swept(s) == [x \in Sdks |-> IF at \in Versions /\ x \in Versions /\ x # at /\ s[x] = "left"
                            THEN "none" ELSE s[x]]

\* xar, cpio and mv of a package that is there.  cpio keeps the files of an interrupted run
\* that are newer than those of the archive, the one cut short included.
GetSdk ==
  /\ pc = "sdk" /\ sdk[at] \in {"none", "left"}
  /\ \E tree \in {"none", "part", "whole"} :
       /\ sdk' = Swept([sdk EXCEPT ![at] = tree])
       /\ faulty' = (faulty \/ tree = "none" \/ (tree = "part" /\ sdk[at] # "left"))
  /\ NextSdk
  /\ UNCHANGED <<archive, source, sys, startup, csu, ver, again, stuck>>

-----------------------------------------------------------------------------
(* The Darwin sources                                                        *)

Sources ==
  /\ pc = "sources"
  /\ \/ source[Xnu] # "none" /\ pc' = "extract" /\ Yes
     \/ source[Xnu] # "none" /\ pc' = "headers" /\ No
     \/ source[Xnu] = "none" /\ archive[Xnu] # "none" /\ pc' = "extract" /\ UNCHANGED again
     \/ source[Xnu] = "none" /\ archive[Xnu] = "none" /\ pc' = "download" /\ UNCHANGED again
  /\ UNCHANGED <<disk, ver, at, faulty, stuck>>

\* wget --no-clobber leaves alone what is there, also what is cut short.
Download ==
  /\ Goto("download", "extract")
  /\ \E missed \in SUBSET {p \in Projects : archive[p] = "none"} :
       /\ \E a \in {"none", "part"} :
            archive' = [p \in Projects |-> IF p \in missed THEN a
                                           ELSE IF archive[p] = "none" THEN "whole" ELSE archive[p]]
       /\ faulty' = (faulty \/ missed # {})
  /\ UNCHANGED <<sdk, source, sys, startup, csu, ver, at, again, stuck>>

\* Mutant: tar does not overwrite what is there.
ExtractMissing ==
  /\ Goto("extract", "headers")
  /\ \E broken \in SUBSET {p \in Projects : archive[p] # "none"} :
       /\ {p \in Projects : archive[p] = "part"} \subseteq broken
       /\ source' = [p \in Projects |-> IF archive[p] = "none" \/ source[p] # "none" THEN source[p]
                                        ELSE IF p \in broken THEN "part" ELSE "whole"]
       /\ faulty' = (faulty \/ broken # {})
  /\ UNCHANGED <<sdk, archive, sys, startup, csu, ver, at, again, stuck>>

\* tar --overwrite of every archive that find finds.
Extract ==
  /\ Goto("extract", "headers")
  /\ \E broken \in SUBSET {p \in Projects : archive[p] # "none"} :
       /\ {p \in Projects : archive[p] = "part"} \subseteq broken
       /\ source' = [p \in Projects |-> IF archive[p] = "none" THEN source[p]
                                        ELSE IF p \in broken THEN "part" ELSE "whole"]
       /\ faulty' = (faulty \/ broken # {})
  /\ UNCHANGED <<sdk, archive, sys, startup, csu, ver, at, again, stuck>>

-----------------------------------------------------------------------------
(* The headers                                                               *)

CopyHeaders ==
  /\ pc = "headers"
  /\ \/ pc' = "wipe" /\ Yes
     \/ sys[ver] # "none" /\ pc' = "csu" /\ No
  /\ UNCHANGED <<disk, ver, at, faulty, stuck>>

Wipe ==
  /\ Goto("wipe", "merge")
  /\ sys' = [sys EXCEPT ![ver] = "none"] /\ startup' = [startup EXCEPT ![ver] = FALSE]
  /\ UNCHANGED <<sdk, archive, source, csu, ver, at, faulty, again, stuck>>

Inputs == {sdk[MacOSX], sdk[ver]} \cup {source[p] : p \in Projects}

\* cp of the SDKs and the sources, one over the other.  cp of a tree that is not there fails.
Merge ==
  /\ Goto("merge", "patch")
  /\ \E failed \in BOOLEAN :
       /\ Inputs \cap {"none", "left"} # {} => failed
       /\ sys' = [sys EXCEPT ![ver] = IF failed \/ Inputs # {"whole"} THEN "part" ELSE "merged"]
       /\ faulty' = (faulty \/ failed)
  /\ UNCHANGED <<sdk, archive, source, startup, csu, ver, at, again, stuck>>

\* patch and svn cat
Patch ==
  /\ Goto("patch", "csu")
  /\ \E failed \in BOOLEAN :
       /\ sys' = [sys EXCEPT ![ver] = IF failed \/ @ = "part" THEN "part" ELSE "whole"]
       /\ faulty' = (faulty \/ failed)
  /\ UNCHANGED <<sdk, archive, source, startup, csu, ver, at, again, stuck>>

-----------------------------------------------------------------------------
(* csu                                                                       *)

\* One question decides about the checkout and about copying the objects.
Csu ==
  /\ pc = "csu"
  /\ \/ pc' = "checkout" /\ Yes
     \/ csu # "none" /\ pc' = "built" /\ No
  /\ UNCHANGED <<disk, ver, at, faulty, stuck>>

\* With a .svn, it is asked once more.
Checkout ==
  /\ Goto("checkout", "install")
  /\ \/ csu' = "whole" /\ Yes /\ UNCHANGED faulty
     \/ csu \in {"part", "whole"} /\ No /\ UNCHANGED <<csu, faulty>>
     \/ csu' \in (IF csu \in {"part", "whole"} THEN {csu} ELSE {"bare", "part"})
        /\ faulty' = TRUE /\ Yes
  /\ UNCHANGED <<sdk, archive, source, sys, startup, ver, at, stuck>>

\* cp of the objects and of libc.dylib
Install ==
  /\ Goto("install", "built")
  /\ \E failed \in BOOLEAN :
       /\ csu = "bare" => failed
       /\ startup' = [startup EXCEPT ![ver] = IF failed THEN FALSE ELSE @ \/ csu = "whole"]
       /\ faulty' = (faulty \/ failed)
  /\ UNCHANGED <<sdk, archive, source, sys, csu, ver, at, again, stuck>>

\* "sys313 folder built!"
Report ==
  /\ Goto("built", "idle")
  /\ faulty' = FALSE /\ again' = FALSE /\ stuck' = FALSE /\ at' = MacOSX
  /\ UNCHANGED <<disk, ver>>

-----------------------------------------------------------------------------
(* clean removes the Darwin sources, the SDKs, and csu, in this order; it may be           *)
(* interrupted within each of them, or between.                                            *)

Clean ==
  /\ pc = "idle"
  /\ \/ \E p \in Projects : archive' = [archive EXCEPT ![p] = "none"] /\ UNCHANGED <<source, sdk, csu>>
     \/ \E p \in Projects : /\ source[p] # "none"
                            /\ \E s \in {"part", "none"} : source' = [source EXCEPT ![p] = s]
                            /\ UNCHANGED <<archive, sdk, csu>>
     \/ /\ \A p \in Projects : archive[p] = "none" /\ source[p] = "none"
        /\ \E x \in Sdks : \/ sdk' = [sdk EXCEPT ![x] = "none"]
                           \/ sdk[x] = "whole" /\ sdk' = [sdk EXCEPT ![x] = "part"]
        /\ UNCHANGED <<archive, source, csu>>
     \/ /\ \A p \in Projects : archive[p] = "none" /\ source[p] = "none"
        /\ \A x \in Sdks : sdk[x] = "none"
        /\ csu' \in (IF csu \in {"part", "whole"} THEN {"part", "bare", "none"} ELSE {"none"})
        /\ UNCHANGED <<archive, source, sdk>>
  /\ UNCHANGED <<sys, startup, pc, ver, at, faulty, again, stuck>>

-----------------------------------------------------------------------------
(* A command that ends early: an "exit 1", or an interrupt, which cuts short what is being  *)
(* written or removed.                                                                     *)

CutShort ==
  \/ pc = "sdk" /\ sdk[at] \in {"none", "left"} /\ sdk' = [sdk EXCEPT ![at] = "left"]
     /\ UNCHANGED <<archive, source, sys, startup, csu>>
  \/ /\ pc = "download"
     /\ \E got \in SUBSET Projects : \E p \in Projects \ got :
          archive' = [q \in Projects |-> IF archive[q] # "none" THEN archive[q]
                                         ELSE IF q \in got THEN "whole"
                                         ELSE IF q = p THEN "part" ELSE "none"]
     /\ UNCHANGED <<sdk, source, sys, startup, csu>>
  \/ /\ pc = "extract"
     /\ \E got \in SUBSET Projects : \E p \in Projects \ got :
          source' = [q \in Projects |-> IF archive[q] = "none" THEN source[q]
                                        ELSE IF q = p \/ (q \in got /\ archive[q] = "part") THEN "part"
                                        ELSE IF q \in got THEN "whole" ELSE source[q]]
     /\ UNCHANGED <<sdk, archive, sys, startup, csu>>
  \/ /\ pc = "wipe" /\ sys[ver] # "none"
     /\ sys' = [sys EXCEPT ![ver] = "part"] /\ startup' \in {startup, [startup EXCEPT ![ver] = FALSE]}
     /\ UNCHANGED <<sdk, archive, source, csu>>
  \/ pc \in {"merge", "patch"} /\ sys' = [sys EXCEPT ![ver] = "part"]
     /\ UNCHANGED <<sdk, archive, source, startup, csu>>
  \/ pc = "checkout" /\ csu' \in (IF csu \in {"part", "whole"} THEN {"part"} ELSE {"bare", "part"})
     /\ UNCHANGED <<sdk, archive, source, sys, startup>>
  \/ pc = "install" /\ startup' = [startup EXCEPT ![ver] = FALSE]
     /\ UNCHANGED <<sdk, archive, source, sys, csu>>

Stop ==
  /\ pc # "idle" /\ pc' = "idle"
  /\ CutShort \/ UNCHANGED disk
  /\ faulty' = FALSE /\ again' = FALSE /\ stuck' = FALSE /\ at' = MacOSX
  /\ UNCHANGED ver

Next ==
  \/ \E v \in Versions : Run(v)
  \/ HaveSdk \/ GetSdk
  \/ Sources \/ Download \/ Extract
  \/ CopyHeaders \/ Wipe \/ Merge \/ Patch
  \/ Csu \/ Checkout \/ Install
  \/ Report \/ Clean \/ Stop

Spec == Init /\ [][Next]_vars

-----------------------------------------------------------------------------
(* Safety                                                                    *)

\* Answering every "again?" with yes repairs whatever interrupted runs of either version, and of
\* clean, left behind: with no command failing unnoticed, "sys313 folder built!" then means that the
\* headers are those of whole SDKs and whole sources, patched, and that the objects of csu are
\* there.  It cannot repair half of an SDK, nor half of a source without its archive.
AgainIsWhole ==
  pc = "built" /\ again /\ ~faulty /\ ~stuck =>
    sys[ver] = "whole" /\ startup[ver]

\* README:35-41 has build313 and then build32 "to build sys32 folder": where nothing fails, csu is
\* checked out and one root has its startup objects, the folder that is reported as built has
\* them, too.  It has not: the question about csu decides about both, and is asked only if
\* csu is there.
EveryRootStarts ==
  /\ pc = "built" /\ ~faulty /\ sys[ver] = "whole" /\ csu = "whole"
  /\ \E v \in Versions : sys[v] = "whole" /\ startup[v]
  => startup[ver]
=============================================================================
