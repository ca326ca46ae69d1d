-------------------------- MODULE MergedRoot_proofs --------------------------
(***************************************************************************)
(* Answering every question with yes repairs what interrupted runs left,   *)
(* for any number of versions and of Darwin sources.                       *)
(*                                                                         *)
(* The invariant says what a clear run, one in which nothing failed, every *)
(* question was answered with yes and nothing was found that cannot be     *)
(* made again, knows of the disk at each of its steps.                     *)
(***************************************************************************)
EXTENDS MergedRoot, TLAPS

Clear == again /\ ~faulty /\ ~stuck

\* The SDKs of this version are whole or will be unpacked into nothing.
SdksFit ==
  /\ at \in {MacOSX, ver}
  /\ pc = "sdk" /\ Clear => \A x \in {MacOSX, ver} : sdk[x] \in {"none", "whole"}
  /\ pc = "sdk" /\ Clear /\ at = ver => sdk[MacOSX] = "whole"
  /\ pc \in {"sources", "download", "extract", "headers", "wipe", "merge"} /\ Clear =>
       sdk[MacOSX] = "whole" /\ sdk[ver] = "whole"

\* No source is half there, unless its archive is still to be extracted.
SourcesFit ==
  /\ pc \in {"sdk", "sources", "download", "extract"} /\ Clear =>
       \A p \in Projects : source[p] = "part" => archive[p] # "none"
  /\ pc \in {"headers", "wipe", "merge"} /\ Clear => \A p \in Projects : source[p] # "part"

RootFits ==
  /\ pc = "patch" /\ Clear => sys[ver] = "merged"
  /\ pc \in {"csu", "checkout", "install", "built"} /\ Clear => sys[ver] = "whole"
  /\ pc = "install" /\ Clear => csu = "whole"
  /\ pc = "built" /\ Clear => startup[ver]

IInv == TypeOK /\ SdksFit /\ SourcesFit /\ RootFits

-----------------------------------------------------------------------------

LEMMA InitEstablishes == Init => IInv
BY MergedRootAssumption
DEF Init, IInv, TypeOK, SdksFit, SourcesFit, RootFits, Clear, Sdks, Points

LEMMA GetSdkPreserves == IInv /\ GetSdk => IInv'
<1>. SUFFICES ASSUME IInv, GetSdk PROVE IInv'
  OBVIOUS
<1>. USE MergedRootAssumption DEF IInv, TypeOK, SdksFit, GetSdk, NextSdk, Swept, Clear, Sdks
<1>1. PICK tree \in {"none", "part", "whole"} :
        /\ sdk' = Swept([sdk EXCEPT ![at] = tree])
        /\ faulty' = (faulty \/ tree = "none" \/ (tree = "part" /\ sdk[at] # "left"))
  OBVIOUS
<1>2. TypeOK'
  BY <1>1 DEF Points
<1>3. SdksFit'
  BY <1>1
<1>4. SourcesFit' /\ RootFits'
  BY <1>1 DEF SourcesFit, RootFits
<1>5. QED
  BY <1>2, <1>3, <1>4

LEMMA SourceStepsPreserve == IInv /\ (Sources \/ Download \/ Extract) => IInv'
<1>. SUFFICES ASSUME IInv, Sources \/ Download \/ Extract PROVE IInv'
  OBVIOUS
<1>. USE MergedRootAssumption DEF IInv, TypeOK, SdksFit, SourcesFit, RootFits, Clear, Goto, Points, disk
<1>1. CASE Sources
  <2>1. CASE No
    BY <1>1, <2>1 DEF Sources, No
  <2>2. CASE pc' = "extract" /\ UNCHANGED again
    BY <1>1, <2>2 DEF Sources
  <2>3. CASE pc' = "download" /\ UNCHANGED again
    BY <1>1, <2>3 DEF Sources
  <2>4. QED
    BY <1>1, <2>1, <2>2, <2>3 DEF Sources, Yes
<1>2. CASE Download
  BY <1>2 DEF Download
<1>3. CASE Extract
  BY <1>3 DEF Extract
<1>4. QED
  BY <1>1, <1>2, <1>3

LEMMA MergePreserves == IInv /\ Merge => IInv'
<1>. SUFFICES ASSUME IInv, Merge PROVE IInv'
  OBVIOUS
<1>. USE MergedRootAssumption DEF IInv, TypeOK, SdksFit, SourcesFit, RootFits, Clear, Goto, Sdks
<1>1. PICK failed \in BOOLEAN :
        /\ Inputs \cap {"none", "left"} # {} => failed
        /\ sys' = [sys EXCEPT ![ver] = IF failed \/ Inputs # {"whole"} THEN "part" ELSE "merged"]
        /\ faulty' = (faulty \/ failed)
  BY DEF Merge
<1>2. Clear' => sys'[ver] = "merged"
  <2>. SUFFICES ASSUME Clear' PROVE sys'[ver] = "merged"
    OBVIOUS
  <2>1. Clear /\ ~failed
    BY <1>1 DEF Merge
  <2>2. sdk[MacOSX] = "whole" /\ sdk[ver] = "whole" /\ \A p \in Projects : source[p] # "part"
    BY <2>1 DEF Merge
  <2>3. \A p \in Projects : source[p] = "whole"
    BY <1>1, <2>1, <2>2 DEF Inputs
  <2>4. Inputs = {"whole"}
    BY <2>2, <2>3 DEF Inputs
  <2>5. QED
    BY <1>1, <2>1, <2>4
<1>3. QED
  BY <1>1, <1>2 DEF Merge, Points

LEMMA StepPreserves == IInv /\ [Next]_vars => IInv'
<1>. SUFFICES ASSUME IInv, [Next]_vars PROVE IInv'
  OBVIOUS
<1>. USE MergedRootAssumption
     DEF IInv, TypeOK, SdksFit, SourcesFit, RootFits, Clear, Goto, Points, Sdks, disk, Yes, No
<1>1. ASSUME NEW v \in Versions, Run(v) PROVE IInv'
  BY <1>1 DEF Run
<1>2. CASE HaveSdk
  BY <1>2 DEF HaveSdk, NextSdk
<1>3. CASE GetSdk
  BY <1>3, GetSdkPreserves
<1>4. CASE Sources \/ Download \/ Extract
  BY <1>4, SourceStepsPreserve
<1>5. CASE CopyHeaders \/ Wipe
  <2>1. CASE CopyHeaders /\ No
    BY <2>1 DEF CopyHeaders
  <2>2. CASE CopyHeaders /\ pc' = "wipe" /\ Yes
    BY <2>2 DEF CopyHeaders
  <2>3. CASE Wipe
    BY <2>3 DEF Wipe
  <2>4. QED
    BY <1>5, <2>1, <2>2, <2>3 DEF CopyHeaders
<1>6. CASE Merge
  BY <1>6, MergePreserves
<1>7. CASE Patch
  BY <1>7 DEF Patch
<1>8. CASE Csu
  <2>1. CASE No
    BY <1>8, <2>1 DEF Csu
  <2>2. CASE pc' = "checkout" /\ Yes
    BY <1>8, <2>2 DEF Csu
  <2>3. QED
    BY <1>8, <2>1, <2>2 DEF Csu
<1>9. CASE Checkout
  <2>1. CASE No
    BY <1>9, <2>1 DEF Checkout
  <2>2. CASE csu' = "whole" /\ Yes /\ UNCHANGED faulty
    BY <1>9, <2>2 DEF Checkout
  <2>3. CASE faulty' = TRUE /\ Yes
    BY <1>9, <2>3 DEF Checkout
  <2>4. QED
    BY <1>9, <2>1, <2>2, <2>3 DEF Checkout
<1>10. CASE Install
  BY <1>10 DEF Install
<1>11. CASE Report
  BY <1>11 DEF Report
<1>12. CASE Clean
  BY <1>12 DEF Clean
<1>13. CASE Stop
  <2>1. pc' = "idle" /\ at' = MacOSX /\ ver' = ver
    BY <1>13 DEF Stop
  <2>2. ver' \in Versions /\ faulty' \in BOOLEAN /\ again' \in BOOLEAN /\ stuck' \in BOOLEAN
    BY <1>13 DEF Stop
  <2>3. CASE UNCHANGED disk
    BY <2>1, <2>2, <2>3
  <2>4. CASE CutShort
    <3>1. CASE pc = "sdk"
      BY <2>1, <2>2, <2>4, <3>1 DEF CutShort
    <3>2. CASE pc = "download"
      BY <2>1, <2>2, <2>4, <3>2 DEF CutShort
    <3>3. CASE pc = "extract"
      BY <2>1, <2>2, <2>4, <3>3 DEF CutShort
    <3>4. CASE pc = "wipe"
      BY <2>1, <2>2, <2>4, <3>4 DEF CutShort
    <3>5. CASE pc \in {"merge", "patch"}
      BY <2>1, <2>2, <2>4, <3>5 DEF CutShort
    <3>6. CASE pc \in {"checkout", "install"}
      BY <2>1, <2>2, <2>4, <3>6 DEF CutShort
    <3>7. QED
      BY <2>4, <3>1, <3>2, <3>3, <3>4, <3>5, <3>6 DEF CutShort
  <2>5. QED
    BY <1>13, <2>3, <2>4 DEF Stop
<1>14. CASE UNCHANGED vars
  BY <1>14 DEF vars
<1>15. QED
  BY <1>1, <1>2, <1>3, <1>4, <1>5, <1>6, <1>7, <1>8, <1>9, <1>10, <1>11, <1>12, <1>13, <1>14
  DEF Next

-----------------------------------------------------------------------------

\* Every state that the commands can be in, or be stopped in, is well typed.
THEOREM TypeCorrect == Spec => []TypeOK
<1>1. IInv => TypeOK
  BY DEF IInv
<1>2. QED
  BY <1>1, InitEstablishes, StepPreserves, PTL DEF Spec

\* Whatever was interrupted before, by whichever version, a run that answers yes throughout, and
\* in which nothing fails, ends with a whole root.
THEOREM AgainRepairs == Spec => []AgainIsWhole
<1>1. IInv => AgainIsWhole
  BY DEF IInv, RootFits, Clear, AgainIsWhole
<1>2. QED
  BY <1>1, InitEstablishes, StepPreserves, PTL DEF Spec
=============================================================================
