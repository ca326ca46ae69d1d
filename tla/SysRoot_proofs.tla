--------------------------- MODULE SysRoot_proofs ---------------------------
(***************************************************************************)
(* The safety properties of SysRoot, for every set of versions and of      *)
(* releases.  They follow from what is known of the trees at each point of *)
(* a stage, given what the stage found when it began.                      *)
(***************************************************************************)
EXTENDS SysRoot, SequenceTheorems, TLAPS

\* The version of every point is that of the trees it works on.
VersionFits ==
  /\ pc \in {"idle", "headers", "tools", "clean"} => ver = Default
  /\ pc \in {"remove", "ask", "wipe", "fetch", "untar", "unpack", "move", "sweep", "copy",
             "built", "noSource"} => ver \in Versions
  /\ pc \in {"clearTmp", "unpackImage", "moveOut"} => ver \in {Default, MacOSX}
  /\ pc \in {"unmount", "extracted"} => ver = MacOSX
  /\ ver \notin {Default, MacOSX} => rest \in {<<>>, <<"rebuild">>}

\* What headers knows of $TMP_DIR, and of the SDKs that were not there.
Unpacking == pc \in {"clearTmp", "unpackImage", "moveOut"}

ImageTrees ==
  /\ Unpacking \/ pc \in {"unmount", "extracted"} => dmg \in Releases
  /\ pc = "unpackImage" => tmp[ver] = Nothing
  /\ pc = "moveOut" => tmp[ver] # Cut /\ (~faulty => tmp[ver] = dmg)
  /\ pc = "headers" => \A x \in Sdks \ found : sdk[x] = Nothing
  /\ Unpacking /\ ver = Default => \A x \in {Default, MacOSX} \ found : sdk[x] = Nothing
  /\ Unpacking /\ ver = MacOSX =>
       /\ ~faulty /\ Default \notin found => sdk[Default] = dmg
       /\ MacOSX \notin found => sdk[MacOSX] = Nothing
  /\ pc \in {"unmount", "extracted"} /\ ~faulty =>
       \A x \in {Default, MacOSX} \ found : sdk[x] = dmg

\* What toolchain_sys knows of the SDK that it copies.
Absent == ver \notin found => sdk[ver] = Nothing /\ platforms[ver] = Nothing

SourceTrees ==
  /\ pc \in {"remove", "ask", "wipe", "fetch"} => Absent
  /\ pc = "untar" => tgz[ver] \in Releases /\ sdk[ver] = Nothing
  /\ pc \in {"unpack", "move", "sweep"} => tgz[ver] = Nothing /\ pkg[ver] \in Releases
  /\ pc = "unpack" => Absent
  /\ pc = "move" /\ ~faulty /\ ver \notin found =>
       sdk[ver] = Nothing /\ platforms[ver] = pkg[ver]
  /\ pc = "sweep" /\ ~faulty /\ ver \notin found => sdk[ver] = pkg[ver]
  /\ pc = "copy" => tgz[ver] # Nothing \/ pkg[ver] \in Releases
  /\ pc = "copy" /\ ~faulty =>
       /\ tgz[ver] # Nothing => sdk[ver] = tgz[ver]
       /\ tgz[ver] = Nothing /\ ver \notin found => sdk[ver] = pkg[ver]

IInv ==
  /\ TypeOK
  /\ VersionFits
  /\ ImageTrees
  /\ SourceTrees
  /\ BuiltIsWhole
  /\ NeverHalfExtracted

-----------------------------------------------------------------------------

LEMMA Distinct ==
  /\ Default \in Versions /\ MacOSX \notin Versions /\ Default # MacOSX
  /\ Nothing \notin Releases /\ Cut \notin Releases /\ Bad \notin Releases
  /\ Nothing # Cut /\ Cut # Bad /\ Bad # Nothing
BY SysRootAssumption

\* The commands are sequences of stages; so is what is left of one.
LEMMA CommandsType == Commands \subseteq Seq(Stages)
BY DEF Commands, Stages

LEMMA RestType ==
  ASSUME rest \in Seq(Stages), rest # <<>>
  PROVE  Head(rest) \in Stages /\ Tail(rest) \in Seq(Stages)
BY HeadTailProperties

-----------------------------------------------------------------------------
(* The steps that unpack or copy, or end early, in detail.                  *)

LEMMA NextStagePreserves == IInv /\ NextStage => IInv'
<1>. SUFFICES ASSUME IInv, NextStage PROVE IInv'
  OBVIOUS
<1>. USE Distinct DEF IInv, TypeOK, VersionFits, NextStage, Enter, Stages, sources, trees
<1>1. TypeOK'
  BY RestType DEF Points, Trees, Sources, Sdks
<1>2. VersionFits'
  BY RestType DEF Sdks
<1>3. ImageTrees'
  BY RestType DEF ImageTrees, Unpacking, Sdks, Trees, Sources
<1>4. SourceTrees'
  BY RestType DEF SourceTrees, Absent, Sources, Trees, Sdks
<1>5. BuiltIsWhole'
  BY RestType DEF BuiltIsWhole, SourceTrees, Trees, Sources, Sdks
<1>6. NeverHalfExtracted'
  BY DEF NeverHalfExtracted, ImageTrees, Sdks, Trees
<1>7. QED
  BY <1>1, <1>2, <1>3, <1>4, <1>5, <1>6

LEMMA UnpackImagePreserves == IInv /\ UnpackImage => IInv'
<1>. SUFFICES ASSUME IInv, UnpackImage PROVE IInv'
  OBVIOUS
<1>. USE Distinct DEF IInv, TypeOK, VersionFits, UnpackImage, Goto, Unpacked, sources, trees
<1>1. TypeOK'
  <2>1. dmg \in Releases
    BY DEF ImageTrees, Unpacking
  <2>2. \E t \in Trees : tmp' = [tmp EXCEPT ![ver] = t]
    BY <2>1 DEF Trees, Sdks
  <2>3. faulty' \in BOOLEAN
    OBVIOUS
  <2>4. QED
    BY <2>2, <2>3 DEF Points, Trees, Sources, Sdks
<1>2. VersionFits'
  BY DEF Sdks
<1>3. ImageTrees'
  BY DEF ImageTrees, Unpacking, Sdks, Trees, Sources
<1>4. SourceTrees'
  BY DEF SourceTrees, Absent, Sources, Trees, Sdks
<1>5. BuiltIsWhole'
  BY DEF BuiltIsWhole, SourceTrees, Trees, Sources, Sdks
<1>6. NeverHalfExtracted'
  BY DEF NeverHalfExtracted, ImageTrees, Sdks, Trees
<1>7. QED
  BY <1>1, <1>2, <1>3, <1>4, <1>5, <1>6

LEMMA UntarPreserves == IInv /\ Untar => IInv'
<1>. SUFFICES ASSUME IInv, Untar PROVE IInv'
  OBVIOUS
<1>. USE Distinct DEF IInv, TypeOK, VersionFits, Untar, Goto, sources, trees
<1>1. TypeOK'
  <2>1. tgz[ver] \in Releases
    BY DEF SourceTrees
  <2>2. \E t \in Trees : sdk' = [sdk EXCEPT ![ver] = t]
    BY <2>1 DEF Trees, Sdks
  <2>3. faulty' \in BOOLEAN
    OBVIOUS
  <2>4. QED
    BY <2>2, <2>3 DEF Points, Trees, Sources, Sdks
<1>2. VersionFits'
  BY DEF Sdks
<1>3. ImageTrees'
  BY DEF ImageTrees, Unpacking, Sdks, Trees, Sources
<1>4. SourceTrees'
  BY DEF SourceTrees, Absent, Sources, Trees, Sdks
<1>5. BuiltIsWhole'
  BY DEF BuiltIsWhole, SourceTrees, Trees, Sources, Sdks
<1>6. NeverHalfExtracted'
  BY DEF NeverHalfExtracted, ImageTrees, Sdks, Trees
<1>7. QED
  BY <1>1, <1>2, <1>3, <1>4, <1>5, <1>6

LEMMA UnpackPreserves == IInv /\ Unpack => IInv'
<1>. SUFFICES ASSUME IInv, Unpack PROVE IInv'
  OBVIOUS
<1>. USE Distinct DEF IInv, TypeOK, VersionFits, Unpack, Goto, Unpacked, sources, trees
<1>1. TypeOK'
  <2>1. pkg[ver] \in Releases
    BY DEF SourceTrees
  <2>2. \E t \in Trees : platforms' = [platforms EXCEPT ![ver] = t]
    BY <2>1 DEF Trees
  <2>3. faulty' \in BOOLEAN
    OBVIOUS
  <2>4. QED
    BY <2>2, <2>3 DEF Points, Trees, Sources, Sdks
<1>2. VersionFits'
  BY DEF Sdks
<1>3. ImageTrees'
  BY DEF ImageTrees, Unpacking, Sdks, Trees, Sources
<1>4. SourceTrees'
  BY DEF SourceTrees, Absent, Sources, Trees, Sdks
<1>5. BuiltIsWhole'
  BY DEF BuiltIsWhole, SourceTrees, Trees, Sources, Sdks
<1>6. NeverHalfExtracted'
  BY DEF NeverHalfExtracted, ImageTrees, Sdks, Trees
<1>7. QED
  BY <1>1, <1>2, <1>3, <1>4, <1>5, <1>6

LEMMA CopyPreserves == IInv /\ Copy => IInv'
<1>. SUFFICES ASSUME IInv, Copy PROVE IInv'
  OBVIOUS
<1>. USE Distinct DEF IInv, TypeOK, VersionFits, Copy, Goto, sources, trees
<1>1. TypeOK'
  BY DEF Points, Trees, Sources, Sdks
<1>2. VersionFits'
  BY DEF Sdks
<1>3. ImageTrees'
  BY DEF ImageTrees, Unpacking, Sdks, Trees, Sources
<1>4. SourceTrees'
  BY DEF SourceTrees, Absent, Sources, Trees, Sdks
<1>5. BuiltIsWhole'
  BY DEF BuiltIsWhole, SourceTrees, Trees, Sources, Sdks
<1>6. NeverHalfExtracted'
  BY DEF NeverHalfExtracted, ImageTrees, Sdks, Trees
<1>7. QED
  BY <1>1, <1>2, <1>3, <1>4, <1>5, <1>6

LEMMA StopPreserves == IInv /\ Stop => IInv'
<1>. SUFFICES ASSUME IInv, Stop PROVE IInv'
  OBVIOUS
<1>. USE Distinct DEF IInv, TypeOK, VersionFits, Stop, Damaged, Damage, Interrupted, sources, trees
<1>1. TypeOK'
  <2>1. pc = "fetch" \/ pc = "untar" => ver \in Sdks
    BY DEF Sdks
  <2>2. sdk' \in [Sdks -> Trees]
    BY <2>1 DEF Trees, Sdks
  <2>3. platforms' \in [Versions -> Trees]
    <3>1. pc = "unpack" => Interrupted(platforms[ver], pkg[ver]) \in Trees
      BY DEF Trees, SourceTrees
    <3>2. QED
      BY <3>1 DEF Trees
  <2>4. tmp' \in [Sdks -> Trees]
    <3>1. pc = "unpackImage" => Interrupted(tmp[ver], dmg) \in Trees
      BY DEF Trees, ImageTrees, Unpacking
    <3>2. QED
      BY <3>1 DEF Trees
  <2>5. sys' \in [Versions -> Trees]
    BY DEF Trees
  <2>6. rest' \in Seq(Stages)
    BY EmptySeq
  <2>7. QED
    BY <2>2, <2>3, <2>4, <2>5, <2>6 DEF Points, Sources, Sdks
<1>2. VersionFits'
  BY DEF Sdks
<1>3. ImageTrees'
  BY DEF ImageTrees, Unpacking, Sdks, Trees, Sources
<1>4. SourceTrees'
  BY DEF SourceTrees, Absent, Sources, Trees, Sdks
<1>5. BuiltIsWhole'
  BY DEF BuiltIsWhole, SourceTrees, Trees, Sources, Sdks
<1>6. NeverHalfExtracted'
  BY DEF NeverHalfExtracted, ImageTrees, Sdks, Trees
<1>7. QED
  BY <1>1, <1>2, <1>3, <1>4, <1>5, <1>6

-----------------------------------------------------------------------------
(* The invariant is inductive.                                              *)

LEMMA InitEstablishes == Init => IInv
<1>. SUFFICES ASSUME Init PROVE IInv
  OBVIOUS
<1>. USE Distinct DEF Init
<1>1. TypeOK
  <2>1. rest \in Seq(Stages)
    BY EmptySeq
  <2>2. QED
    BY <2>1 DEF TypeOK, Points, Trees, Sources, Sdks
<1>2. VersionFits /\ ImageTrees /\ SourceTrees
  BY DEF VersionFits, ImageTrees, Unpacking, SourceTrees
<1>3. BuiltIsWhole /\ NeverHalfExtracted
  BY DEF BuiltIsWhole, NeverHalfExtracted, Sdks
<1>4. QED
  BY <1>1, <1>2, <1>3 DEF IInv

LEMMA StepPreserves == IInv /\ [Next]_vars => IInv'
<1>. SUFFICES ASSUME IInv, [Next]_vars PROVE IInv'
  OBVIOUS
<1>. USE Distinct DEF IInv, TypeOK, VersionFits, ImageTrees, Unpacking, SourceTrees, Absent, BuiltIsWhole,
           NeverHalfExtracted, Points, Trees, Sources, Sdks, sources, trees
<1>1. CASE PutSource
  <2>1. pc = "idle" /\ UNCHANGED <<trees, pc, rest, ver, faulty, found>>
    BY <1>1 DEF PutSource
  <2>2. CASE dmg' \in Sources /\ UNCHANGED <<tgz, pkg>>
    BY <2>1, <2>2
  <2>3. CASE \E v \in Versions, r \in Sources : tgz' = [tgz EXCEPT ![v] = r] /\ UNCHANGED <<dmg, pkg>>
    BY <2>1, <2>3
  <2>4. CASE \E v \in Versions, r \in Sources : pkg' = [pkg EXCEPT ![v] = r] /\ UNCHANGED <<dmg, tgz>>
    BY <2>1, <2>4
  <2>5. QED
    BY <1>1, <2>2, <2>3, <2>4 DEF PutSource
<1>2. CASE Run
  BY <1>2, CommandsType DEF Run, Goto
<1>3. CASE NextStage
  BY <1>3, NextStagePreserves
<1>4. CASE Done
  BY <1>4 DEF Done, Goto
<1>5. CASE Tools
  BY <1>5 DEF Tools, Goto
<1>6. CASE Headers
  BY <1>6 DEF Headers
<1>7. CASE ClearTmp
  BY <1>7 DEF ClearTmp, Goto
<1>8. CASE UnpackImage
  BY <1>8, UnpackImagePreserves
<1>9. CASE MoveOut
  BY <1>9 DEF MoveOut, Moved
<1>10. CASE Unmount
  BY <1>10 DEF Unmount, Goto
<1>11. CASE Remove
  BY <1>11 DEF Remove, Goto
<1>12. CASE Keep
  BY <1>12 DEF Keep, Goto
<1>13. CASE Again
  BY <1>13 DEF Again, Goto
<1>14. CASE Wipe
  BY <1>14 DEF Wipe, Goto
<1>15. CASE Fetch
  BY <1>15 DEF Fetch
<1>16. CASE Untar
  BY <1>16, UntarPreserves
<1>17. CASE Unpack
  BY <1>17, UnpackPreserves
<1>18. CASE Move
  BY <1>18 DEF Move, Goto, Moved
<1>19. CASE Sweep
  BY <1>19 DEF Sweep, Goto
<1>20. CASE Copy
  BY <1>20, CopyPreserves
<1>21. CASE Report
  BY <1>21 DEF Report
<1>22. CASE Clean
  BY <1>22 DEF Clean
<1>23. CASE Cleaned
  BY <1>23 DEF Cleaned, Goto
<1>24. CASE Stop
  BY <1>24, StopPreserves
<1>25. CASE UNCHANGED vars
  BY <1>25 DEF vars
<1>26. QED
  BY <1>1, <1>2, <1>3, <1>4, <1>5, <1>6, <1>7, <1>8, <1>9, <1>10, <1>11, <1>12,
     <1>13, <1>14, <1>15, <1>16, <1>17, <1>18, <1>19, <1>20, <1>21, <1>22, <1>23, <1>24, <1>25 DEF Next

-----------------------------------------------------------------------------
(* Theorems.                                                                *)

\* The state of toolchain.sh stays well typed.
THEOREM TypeCorrect == Spec => []TypeOK
<1>1. IInv => TypeOK
  BY DEF IInv
<1>2. QED
  BY <1>1, InitEstablishes, StepPreserves, PTL DEF Spec

\* For every set of versions and releases, a system root that is reported as built, with no
\* command failing unnoticed, is the whole SDK of the tarball, or of the package if nothing of
\* that SDK was there before.
THEOREM BuiltRootsAreWhole == Spec => []BuiltIsWhole
<1>1. IInv => BuiltIsWhole
  BY DEF IInv
<1>2. QED
  BY <1>1, InitEstablishes, StepPreserves, PTL DEF Spec

\* Likewise, SDKs that headers reports as extracted and that were not there before are whole.
THEOREM ExtractedSdksAreWhole == Spec => []ExtractedIsWhole
<1>1. IInv => ExtractedIsWhole
  BY DEF IInv, ImageTrees, ExtractedIsWhole
<1>2. QED
  BY <1>1, InitEstablishes, StepPreserves, PTL DEF Spec

\* No interrupt of toolchain.sh ever leaves half of an extraction under the name of the MacOSX
\* SDK, whose presence later stages rely on.
THEOREM NoHalfExtractedSdk == Spec => []NeverHalfExtracted
<1>1. IInv => NeverHalfExtracted
  BY DEF IInv
<1>2. QED
  BY <1>1, InitEstablishes, StepPreserves, PTL DEF Spec
=============================================================================
