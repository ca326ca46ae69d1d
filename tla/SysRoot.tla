------------------------------- MODULE SysRoot -------------------------------
(***************************************************************************)
(* toolchain.sh, from an SDK to the system root of the compiler: headers,  *)
(* build, rebuild and buildsys*, clean, and "all", which chains them.      *)
(*                                                                         *)
(* toolchain.sh has no "set -e".  What tar, xar, cpio, mv and cp return is *)
(* looked at nowhere, and what is done is told by the presence of a        *)
(* directory.  The model therefore asks of a tree of files only whose it   *)
(* is and whether it is whole, and what cut it short if it is not.         *)
(*                                                                         *)
(* One toolchain.sh runs at a time.  cctools and llvmgcc, the stages of    *)
(* "all" that touch none of these trees, are one step that may fail.       *)
(***************************************************************************)
EXTENDS Naturals, Sequences

CONSTANTS
  Versions,   \* of the SDK: 4.2, and those of buildsys43 and buildsys50
  Default,    \* TOOLCHAIN_VERSION
  MacOSX,     \* the other SDK in the image
  Releases,   \* what the SDK image, a tarball or a package may hold
  Nothing, Cut, Bad

ASSUME SysRootAssumption ==
  /\ Default \in Versions /\ MacOSX \notin Versions
  /\ {Nothing, Cut, Bad} \cap Releases = {}
  /\ Nothing # Cut /\ Cut # Bad /\ Bad # Nothing

Sdks == Versions \cup {MacOSX}

\* A tree of a release, or one that an interrupt cut short while it was written (Cut),
\* or one that lacks something for another reason (Bad).
Trees == Releases \cup {Nothing, Cut, Bad}
Sources == Releases \cup {Nothing}

VARIABLES
  dmg,        \* the iPhone SDK image
  tgz, pkg,   \* in $SDKS_DIR: iPhoneOS<version>.sdk.tgz, iPhoneSDK<version>.pkg
  sdk,        \* in $SDKS_DIR: the extracted SDKs
  platforms,  \* in $SDKS_DIR/Platforms: an SDK being unpacked from its package
  tmp,        \* in $TMP_DIR: an SDK being unpacked from the image
  sys,        \* $SYS_DIR, as far as it has a usr/include
  pc,
  rest,       \* the stages still to be run
  ver,        \* the SDK being worked on
  faulty,     \* history: did a command of this stage fail unnoticed?
  found       \* history: SDKs that were there, or half there, when this stage began

sources == <<dmg, tgz, pkg>>
trees == <<sdk, platforms, tmp, sys>>
vars == <<sources, trees, pc, rest, ver, faulty, found>>

Points ==
  {"idle", "next", "headers", "clearTmp", "unpackImage", "moveOut", "unmount", "extracted",
   "remove", "ask", "wipe", "fetch", "untar", "unpack", "move", "sweep", "copy", "built",
   "noSource", "tools", "clean"}

Stages == {"headers", "tools", "build", "rebuild", "clean"}

\* Every variable in its range.
TypeOK ==
  /\ dmg \in Sources /\ tgz \in [Versions -> Sources] /\ pkg \in [Versions -> Sources]
  /\ sdk \in [Sdks -> Trees] /\ platforms \in [Versions -> Trees]
  /\ tmp \in [Sdks -> Trees] /\ sys \in [Versions -> Trees]
  /\ pc \in Points /\ rest \in Seq(Stages) /\ ver \in Sdks
  /\ faulty \in BOOLEAN /\ found \subseteq Sdks

Init ==
  /\ dmg = Nothing
  /\ tgz = [v \in Versions |-> Nothing] /\ pkg = [v \in Versions |-> Nothing]
  /\ sdk = [x \in Sdks |-> Nothing] /\ platforms = [v \in Versions |-> Nothing]
  /\ tmp = [x \in Sdks |-> Nothing] /\ sys = [v \in Versions |-> Nothing]
  /\ pc = "idle" /\ rest = <<>> /\ ver = Default
  /\ faulty = FALSE /\ found = {}

Goto(from, to) == pc = from /\ pc' = to

\* What "cpio -id" makes of a directory that holds left: it creates what is missing and
\* keeps any file that is newer than the one in the archive, one cut short included.
Unpacked(left, from) ==
  IF left \in {Nothing, from} THEN {from}
  ELSE IF left = Cut THEN {from, Cut} ELSE {Bad}

\* What is left of it when cpio is interrupted.
Interrupted(left, from) ==
  IF left \in {Nothing, Cut} THEN Cut ELSE IF left = from THEN from ELSE Bad

\* "mv" renames a directory; it cannot rename it over one that has files.
Moved(into, from) == IF into = Nothing THEN from ELSE into

-----------------------------------------------------------------------------
(* Between commands, the developer puts an image, a tarball or a package there.            *)

PutSource ==
  /\ pc = "idle"
  /\ \/ dmg' \in Sources /\ UNCHANGED <<tgz, pkg>>
     \/ \E v \in Versions, r \in Sources : tgz' = [tgz EXCEPT ![v] = r] /\ UNCHANGED <<dmg, pkg>>
     \/ \E v \in Versions, r \in Sources : pkg' = [pkg EXCEPT ![v] = r] /\ UNCHANGED <<dmg, tgz>>
  /\ UNCHANGED <<trees, pc, rest, ver, faulty, found>>

\* "all" asks at its end whether to clean.  buildsys43 and buildsys50 are a rebuild of theirs.
Commands ==
  { <<"headers">>, <<"build">>, <<"rebuild">>, <<"clean">>,
    <<"headers", "tools", "build">>, <<"headers", "tools", "build", "clean">> }

Run ==
  /\ Goto("idle", "next")
  /\ rest' \in Commands
  /\ ver' \in IF rest' = <<"rebuild">> THEN Versions ELSE {Default}
  /\ UNCHANGED <<sources, trees, faulty, found>>

Enter(stage) == CASE stage = "build" -> "ask" [] stage = "rebuild" -> "remove" [] OTHER -> stage

NextStage ==
  /\ pc = "next" /\ rest # <<>>
  /\ pc' = Enter(Head(rest)) /\ rest' = Tail(rest)
  /\ ver' = IF ver = MacOSX THEN Default ELSE ver
  /\ faulty' = FALSE
  /\ found' = {x \in Sdks : sdk[x] # Nothing \/ (x \in Versions /\ platforms[x] # Nothing)}
  /\ UNCHANGED <<sources, trees>>

Done ==
  /\ Goto("next", "idle") /\ rest = <<>>
  /\ faulty' = FALSE /\ found' = {} /\ ver' = Default
  /\ UNCHANGED <<sources, trees, rest>>

Tools == Goto("tools", "next") /\ UNCHANGED <<sources, trees, rest, ver, faulty, found>>

-----------------------------------------------------------------------------
(* headers                                                                                 *)

Headers ==
  /\ pc = "headers"
  /\ \/ /\ sdk[Default] # Nothing /\ sdk[MacOSX] # Nothing   \* "already extracted"
        /\ pc' = "next"
     \/ /\ sdk[Default] = Nothing \/ sdk[MacOSX] = Nothing
        /\ dmg # Nothing
        /\ pc' = "clearTmp"
  /\ UNCHANGED <<sources, trees, rest, ver, faulty, found>>

\* Mutant: "rm -fR $TMP_DIR/*" is dropped.
KeepTmp == Goto("clearTmp", "unpackImage") /\ UNCHANGED <<sources, trees, rest, ver, faulty, found>>

ClearTmp ==
  /\ Goto("clearTmp", "unpackImage")
  /\ tmp' = [x \in Sdks |-> Nothing]
  /\ UNCHANGED <<sources, sdk, platforms, sys, rest, ver, faulty, found>>

UnpackImage ==
  /\ Goto("unpackImage", "moveOut")
  /\ \/ \E t \in Unpacked(tmp[ver], dmg) : tmp' = [tmp EXCEPT ![ver] = t] /\ UNCHANGED faulty
     \/ \E t \in {tmp[ver], Bad} : tmp' = [tmp EXCEPT ![ver] = t] /\ faulty' = TRUE
  /\ UNCHANGED <<sources, sdk, platforms, sys, rest, ver, found>>

\* Only the absence of iPhoneOS<version>.sdk is noticed: Stop.
MoveOut ==
  /\ pc = "moveOut"
  /\ ver = MacOSX \/ tmp[ver] # Nothing
  /\ sdk' = [sdk EXCEPT ![ver] = Moved(@, tmp[ver])]
  /\ tmp' = IF sdk[ver] = Nothing THEN [tmp EXCEPT ![ver] = Nothing] ELSE tmp
  /\ IF ver = MacOSX THEN pc' = "unmount" /\ UNCHANGED ver
                     ELSE pc' = "clearTmp" /\ ver' = MacOSX
  /\ UNCHANGED <<sources, platforms, sys, rest, faulty, found>>

Unmount ==
  /\ Goto("unmount", "extracted")
  /\ tmp' = [x \in Sdks |-> Nothing]
  /\ UNCHANGED <<sources, sdk, platforms, sys, rest, ver, faulty, found>>

-----------------------------------------------------------------------------
(* toolchain_sys, toolchain_sys43 and toolchain_sys50                                      *)

Remove ==
  /\ Goto("remove", "ask")
  /\ sys' = [sys EXCEPT ![ver] = Nothing]
  /\ UNCHANGED <<sources, sdk, platforms, tmp, rest, ver, faulty, found>>

\* "copy headers again?" is asked if there is a usr/include.
Keep ==
  /\ Goto("ask", "next") /\ sys[ver] # Nothing
  /\ UNCHANGED <<sources, trees, rest, ver, faulty, found>>

Again == Goto("ask", "wipe") /\ UNCHANGED <<sources, trees, rest, ver, faulty, found>>

Wipe ==
  /\ Goto("wipe", "fetch")
  /\ sys' = [sys EXCEPT ![ver] = Nothing]
  /\ UNCHANGED <<sources, sdk, platforms, tmp, rest, ver, faulty, found>>

\* Mutant: what was extracted before is not removed.
FetchOver ==
  /\ pc = "fetch"
  /\ \/ tgz[ver] # Nothing /\ pc' = "untar"
     \/ tgz[ver] = Nothing /\ pkg[ver] = Nothing /\ pc' = "noSource"
     \/ tgz[ver] = Nothing /\ pkg[ver] # Nothing /\ pc' = "unpack"
  /\ UNCHANGED <<sources, trees, rest, ver, faulty, found>>

\* A tarball is preferred and replaces what was extracted.  An extracted SDK alone will not do.
Fetch ==
  /\ pc = "fetch"
  /\ \/ tgz[ver] # Nothing /\ pc' = "untar" /\ sdk' = [sdk EXCEPT ![ver] = Nothing]
     \/ tgz[ver] = Nothing /\ pkg[ver] = Nothing /\ pc' = "noSource" /\ UNCHANGED sdk
     \/ tgz[ver] = Nothing /\ pkg[ver] # Nothing /\ pc' = "unpack" /\ UNCHANGED sdk
  /\ UNCHANGED <<sources, platforms, tmp, sys, rest, ver, faulty, found>>

\* tar writes over what is there.
Untar ==
  /\ Goto("untar", "copy")
  /\ \/ /\ sdk' = [sdk EXCEPT ![ver] = IF @ \in {Nothing, tgz[ver]} THEN tgz[ver] ELSE Bad]
        /\ UNCHANGED faulty
     \/ /\ \E t \in {sdk[ver], Bad} : sdk' = [sdk EXCEPT ![ver] = t]
        /\ faulty' = TRUE
  /\ UNCHANGED <<sources, platforms, tmp, sys, rest, ver, found>>

Unpack ==
  /\ Goto("unpack", "move")
  /\ \/ /\ \E t \in Unpacked(platforms[ver], pkg[ver]) : platforms' = [platforms EXCEPT ![ver] = t]
        /\ UNCHANGED faulty
     \/ /\ \E t \in {platforms[ver], Bad} : platforms' = [platforms EXCEPT ![ver] = t]
        /\ faulty' = TRUE
  /\ UNCHANGED <<sources, sdk, tmp, sys, rest, ver, found>>

Move ==
  /\ Goto("move", "sweep")
  /\ sdk' = [sdk EXCEPT ![ver] = Moved(@, platforms[ver])]
  /\ platforms' = IF sdk[ver] = Nothing THEN [platforms EXCEPT ![ver] = Nothing] ELSE platforms
  /\ UNCHANGED <<sources, tmp, sys, rest, ver, faulty, found>>

\* rm -fr Platforms: the leftovers of every version
Sweep ==
  /\ Goto("sweep", "copy")
  /\ platforms' = [v \in Versions |-> Nothing]
  /\ UNCHANGED <<sources, sdk, tmp, sys, rest, ver, faulty, found>>

\* System, usr, and the headers of the frameworks.  With no SDK the loop over *.framework still
\* makes a usr/include.
Copy ==
  /\ Goto("copy", "built")
  /\ \/ /\ sys' = [sys EXCEPT ![ver] = IF sdk[ver] = Nothing THEN Bad ELSE sdk[ver]]
        /\ UNCHANGED faulty
     \/ sys' = [sys EXCEPT ![ver] = Bad] /\ faulty' = TRUE
  /\ UNCHANGED <<sources, sdk, platforms, tmp, rest, ver, found>>

\* "Headers extracted.", "sys folder built!"
Report ==
  /\ pc \in {"extracted", "built"} /\ pc' = "next"
  /\ UNCHANGED <<sources, trees, rest, ver, faulty, found>>

-----------------------------------------------------------------------------
(* clean: rm -Rf takes what is in $SDKS_DIR in any order; the image is removed on request. *)

Clean ==
  /\ pc = "clean" /\ pc' = pc
  /\ \/ \E x \in Sdks : sdk[x] # Nothing /\ sdk' = [sdk EXCEPT ![x] = Nothing]
                        /\ UNCHANGED <<tgz, pkg, platforms>>
     \/ \E v \in Versions : platforms[v] # Nothing /\ platforms' = [platforms EXCEPT ![v] = Nothing]
                            /\ UNCHANGED <<tgz, pkg, sdk>>
     \/ \E v \in Versions : tgz[v] # Nothing /\ tgz' = [tgz EXCEPT ![v] = Nothing]
                            /\ UNCHANGED <<pkg, sdk, platforms>>
     \/ \E v \in Versions : pkg[v] # Nothing /\ pkg' = [pkg EXCEPT ![v] = Nothing]
                            /\ UNCHANGED <<tgz, sdk, platforms>>
  /\ UNCHANGED <<dmg, tmp, sys, rest, ver, faulty, found>>

Cleaned ==
  /\ Goto("clean", "next")
  /\ \A x \in Sdks : sdk[x] = Nothing
  /\ \A v \in Versions : platforms[v] = Nothing /\ tgz[v] = Nothing /\ pkg[v] = Nothing
  /\ tmp' = [x \in Sdks |-> Nothing]
  /\ dmg' \in {dmg, Nothing}
  /\ UNCHANGED <<tgz, pkg, sdk, platforms, sys, rest, ver, faulty, found>>

-----------------------------------------------------------------------------
(* A command that ends early: "exit 1" at a failure that is looked at, or an interrupt,     *)
(* which cuts short the tree that is being written or removed.                             *)

Damage(tree, x, by) == tree' = [tree EXCEPT ![x] = by]

Damaged ==
  \/ pc = "unpackImage" /\ Damage(tmp, ver, Interrupted(tmp[ver], dmg)) /\ UNCHANGED <<sdk, platforms, sys>>
  \/ pc = "untar" /\ Damage(sdk, ver, Cut) /\ UNCHANGED <<tmp, platforms, sys>>
  \/ pc = "unpack" /\ Damage(platforms, ver, Interrupted(platforms[ver], pkg[ver])) /\ UNCHANGED <<tmp, sdk, sys>>
  \/ pc = "copy" /\ Damage(sys, ver, Cut) /\ UNCHANGED <<tmp, sdk, platforms>>
  \/ /\ pc \in {"remove", "wipe"} /\ sys[ver] # Nothing
     /\ Damage(sys, ver, Bad) /\ UNCHANGED <<tmp, sdk, platforms>>
  \/ /\ pc = "fetch" /\ tgz[ver] # Nothing /\ sdk[ver] # Nothing
     /\ Damage(sdk, ver, Bad) /\ UNCHANGED <<tmp, sys, platforms>>
  \/ /\ pc = "clean"
     /\ \E x \in Sdks : sdk[x] # Nothing /\ Damage(sdk, x, Bad)
     /\ UNCHANGED <<tmp, sys, platforms>>
  \/ /\ pc \in {"sweep", "clean"}
     /\ \E v \in Versions : platforms[v] # Nothing /\ Damage(platforms, v, Bad)
     /\ UNCHANGED <<tmp, sys, sdk>>

Stop ==
  /\ pc # "idle" /\ pc' = "idle"
  /\ Damaged \/ UNCHANGED trees
  /\ rest' = <<>> /\ ver' = Default /\ faulty' = FALSE /\ found' = {}
  /\ UNCHANGED sources

Next ==
  \/ PutSource \/ Run \/ NextStage \/ Done \/ Tools
  \/ Headers \/ ClearTmp \/ UnpackImage \/ MoveOut \/ Unmount
  \/ Remove \/ Keep \/ Again \/ Wipe \/ Fetch \/ Untar \/ Unpack \/ Move \/ Sweep \/ Copy
  \/ Report \/ Clean \/ Cleaned \/ Stop

Spec == Init /\ [][Next]_vars

-----------------------------------------------------------------------------
(* Safety                                                                                  *)

\* Whatever interrupted commands left behind, "sys folder built!" (toolchain.sh:1528) with no
\* command failing unnoticed means that the system root is the whole SDK of the tarball, or,
\* where nothing of that SDK was there before, of the package.
BuiltIsWhole ==
  (pc = "built" /\ ~faulty) =>
    /\ tgz[ver] # Nothing => sys[ver] = tgz[ver]
    /\ (tgz[ver] = Nothing /\ ver \notin found) => sys[ver] = pkg[ver]

\* A headers that extracts, with no command failing unnoticed, leaves (toolchain.sh:1473) every
\* SDK that was not there before as it is in the image, whole, although interrupted runs leave half of one
\* in $TMP_DIR.
ExtractedIsWhole ==
  (pc = "extracted" /\ ~faulty) => \A x \in {Default, MacOSX} \ found : sdk[x] = dmg

\* The presence of the MacOSX SDK is taken for its completeness (toolchain.sh:415, 852).  An
\* interrupt in the middle of its extraction never leaves half of it in $SDKS_DIR.  (Cut is
\* what such an interrupt leaves.  A cpio that dies unnoticed, 508, and an interrupted clean
\* do leave half an SDK there: that one is Bad, and this is not about it.)
NeverHalfExtracted == sdk[MacOSX] # Cut
=============================================================================
