------------------------- MODULE PkgPackage_proofs -------------------------
(***************************************************************************)
(* For every set of contents, versions and scripts, every bound and every  *)
(* setting: what package.sh does to debs/ and stat/, whoever runs it.      *)
(***************************************************************************)
EXTENDS PkgPackageImplements, TLAPS

\* What a running package.sh has at hand.
TypeInv ==
  /\ TypeOK
  /\ pc # "idle" => vrsn \in Versions
  /\ pc \in {"make", "debian", "hash"} => rvsn < MaxRevision
  /\ pc = "hash" => debian # None
  /\ pc \in {"pack", "md5", "ver"} => rvsn # 0 /\ hash # None

\* The name that dpkg-deb writes is free, and what it has written is what is recorded.
PackInv ==
  /\ pc = "pack" => debs[<<vrsn, rvsn>>] = None
  /\ pc = "md5"  => debs[<<vrsn, rvsn>>] = [hash EXCEPT !.version = vrsn]

\* A stamp is that of the tree, and the tree is finished when it is hashed and packed, as
\* the next revision.
ReleaseInv ==
  /\ stamp # None => tree = stamp
  /\ pc \in {"debian", "hash", "pack"} => tree # None
  /\ pc \in {"make", "debian", "hash"} => rvsn = destVer
  /\ pc \in {"pack", "md5", "ver"} => rvsn = destVer + 1
  /\ pc = "pack" => hash.tree = tree
  /\ pc \in {"md5", "ver"} => Complete(debs[<<vrsn, rvsn>>])

\* A fakeroot run goes on with the files that it has built itself.
OwnersInv ==
  session = "fakeroot" /\ pc \in {"debian", "hash", "pack"} => builtBy = "this run"

\* The package as data/ has it now.
Current == [tree |-> content, owners |-> "as built", version |-> version, scripts |-> scripts]

\* What the records and debs/ hold between two runs of package.sh, and during one.
OfferInv ==
  /\ destMd5 = None <=> destVer = 0 /\ pc # "ver"
  /\ pc # "ver" /\ destVer # 0 => debs[<<destMd5.version, destVer>>] = destMd5
  /\ \A v \in Versions, r \in 1 .. MaxRevision :
       r > destVer /\ ~(pc \in {"md5", "ver"} /\ v = vrsn /\ r = rvsn) => debs[<<v, r>>] = None

RunInv ==
  /\ pc # "idle" => vrsn = version
  /\ pc \notin {"idle", "make"} => tree = content /\ builtBy = "this run" /\ dataVer = version
  /\ pc = "debian" => debian = None
  /\ pc = "hash" => debian = [version |-> version, scripts |-> scripts]
  /\ pc \in {"make", "debian", "hash"} => rvsn = destVer
  /\ pc \in {"pack", "md5", "ver"} => rvsn = destVer + 1 /\ hash = Current
  /\ pc \in {"md5", "ver"} => debs[<<vrsn, rvsn>>] = Current
  /\ pc = "ver" => destMd5 = Current
  /\ pc = "clean" \/ (pc = "idle" /\ fresh) => destVer # 0 /\ destMd5 = Current /\ dataVer = version

UndisturbedInv == Undisturbed => OfferInv /\ RunInv

IInv == TypeInv /\ PackInv /\ ReleaseInv /\ OwnersInv /\ RecordedIsPacked /\ UndisturbedInv
-----------------------------------------------------------------------------
(* Types.                                                                  *)

\* Whatever the run, what it hashes is a tree with owners, a version and scripts.
LEMMA PackableType ==
  ASSUME TypeOK, debian # None PROVE Packable \in Body
  BY DEF TypeOK, Packable, Owners, Body

LEMMA InitType == Init => TypeInv
<1> SUFFICES ASSUME Init PROVE TypeInv
  OBVIOUS
<1>1. debs \in [Names -> Body \cup {None, Partial}] BY DEF Init
<1>2. destVer \in 0 .. MaxRevision /\ rvsn \in 0 .. MaxRevision BY SettingAssumption DEF Init
<1>3. session \in setting.sessions \cup {None} /\ (pc = "idle" <=> session = None) BY DEF Init
<1> QED BY <1>1, <1>2, <1>3 DEF Init, TypeInv, TypeOK, Builders

\* One step of package.sh at a time.
LEMMA TypeStep == TypeInv /\ [Next]_vars => TypeInv'
<1> SUFFICES ASSUME TypeInv, [Next]_vars PROVE TypeInv'
  OBVIOUS
<1> USE SettingAssumption, SentinelAssumption DEF TypeInv, TypeOK, source, built, records, process
<1>1. CASE Edit
  <2>1. setting.scripts \subseteq Scripts OBVIOUS
  <2>2. content' \in Contents /\ version' \in Versions /\ scripts' \subseteq Scripts
    BY <1>1, <2>1 DEF Edit
  <2>3. /\ fresh' \in BOOLEAN
        /\ UNCHANGED <<built, debian, records, debs, pc, process, setting>>
    BY <1>1 DEF Edit
  <2> QED BY <2>2, <2>3
<1>2. ASSUME NEW s \in setting.sessions, MakeAsDependency(s) PROVE TypeInv'
  BY <1>2 DEF MakeAsDependency, Make, Builders
<1>3. ASSUME NEW s \in setting.sessions, Begin(s) PROVE TypeInv'
  <2>1. s # None /\ setting.revisions \in 0 .. MaxRevision OBVIOUS
  <2> QED BY <1>3, <2>1 DEF Begin
<1>4. CASE Rebuild BY <1>4 DEF Rebuild, Make, Builders
<1>5. CASE SkipBuild BY <1>5 DEF SkipBuild
<1>6. CASE AddDebian BY <1>6 DEF AddDebian
<1>7. CASE HashTree
  <2>1. Packable \in Body BY <1>7, PackableType DEF HashTree
  <2> QED BY <1>7, <2>1 DEF HashTree
<1>8. CASE RecordUnpacked
  <2>1. Packable \in Body BY <1>8, PackableType DEF RecordUnpacked
  <2> QED BY <1>8, <2>1 DEF RecordUnpacked
<1>9. CASE Pack
  <2>1. [hash EXCEPT !.version = vrsn] \in Body BY <1>9 DEF Pack, Body
  <2>2. debs' \in [Names -> Body \cup {None, Partial}] BY <1>9, <2>1 DEF Pack
  <2> QED BY <1>9, <2>2 DEF Pack
<1>10. CASE RecordMd5 BY <1>10 DEF RecordMd5
<1>11. CASE RecordRevision BY <1>11 DEF RecordRevision
<1>a. EndSession \in Builders BY DEF EndSession, Builders
<1>b. Exit => /\ pc' \in {"idle"} /\ session' = None
              /\ vrsn' = None /\ rvsn' \in 0 .. MaxRevision /\ hash' = None
  BY DEF Exit
<1>12. CASE RemoveDebian
  <2>1. Exit /\ debian' = None /\ builtBy' \in Builders BY <1>12, <1>a DEF RemoveDebian
  <2> QED BY <1>12, <1>b, <2>1 DEF RemoveDebian
<1>13. CASE Fail
  <2>1. Exit /\ builtBy' \in Builders BY <1>13, <1>a DEF Fail
  <2>2. /\ tree' \in Contents \cup {None} /\ stamp' \in Contents \cup {None}
        /\ debian' \in [version : Versions, scripts : SUBSET Scripts] \cup {None}
        /\ dataVer' \in Versions \cup {None}
        /\ destMd5' \in Body \cup {None} /\ destVer' \in 0 .. MaxRevision
    BY <1>13 DEF Fail
  <2>3. debs' \in [Names -> Body \cup {None, Partial}] BY <1>13 DEF Fail
  <2> QED BY <1>13, <1>b, <2>1, <2>2, <2>3 DEF Fail
<1>14. CASE UNCHANGED vars BY <1>14 DEF vars
<1> QED BY <1>1, <1>2, <1>3, <1>4, <1>5, <1>6, <1>7, <1>8, <1>9, <1>10, <1>11, <1>12, <1>13,
           <1>14 DEF Next
-----------------------------------------------------------------------------
(* What is packed.                                                         *)

\* Only dpkg-deb touches debs/, and only a name that is free.
LEMMA DebsStep ==
  ASSUME TypeInv, PackInv, [Next]_vars
  PROVE  \/ UNCHANGED debs
         \/ /\ pc = "pack" /\ <<vrsn, rvsn>> \in Names /\ ~Complete(debs[<<vrsn, rvsn>>])
            /\ \/ debs' = [debs EXCEPT ![<<vrsn, rvsn>>] = [hash EXCEPT !.version = vrsn]]
                  /\ hash \in Body /\ vrsn' = vrsn /\ rvsn' = rvsn /\ hash' = hash
               \/ debs' = [debs EXCEPT ![<<vrsn, rvsn>>] = Partial]
<1>1. CASE Pack \/ Fail
  <2>1. CASE UNCHANGED debs BY <2>1
  <2>2. CASE pc = "pack"
    <3>1. <<vrsn, rvsn>> \in Names /\ debs[<<vrsn, rvsn>>] = None /\ hash \in Body
      BY <2>2 DEF TypeInv, TypeOK, PackInv, Names
    <3> QED BY <1>1, <2>2, <3>1 DEF Pack, Fail, Complete, process
  <2> QED BY <1>1, <2>1, <2>2 DEF Pack, Fail
<1>2. CASE Edit BY <1>2 DEF Edit
<1>3. ASSUME NEW s \in setting.sessions, MakeAsDependency(s) \/ Begin(s) PROVE UNCHANGED debs
  BY <1>3 DEF MakeAsDependency, Begin
<1>4. CASE Rebuild \/ SkipBuild \/ AddDebian BY <1>4 DEF Rebuild, SkipBuild, AddDebian
<1>5. CASE HashTree \/ RecordUnpacked \/ RecordMd5 \/ RecordRevision \/ RemoveDebian
  BY <1>5 DEF HashTree, RecordUnpacked, RecordMd5, RecordRevision, RemoveDebian
<1>6. CASE UNCHANGED vars BY <1>6 DEF vars
<1> QED BY <1>1, <1>2, <1>3, <1>4, <1>5, <1>6 DEF Next

\* A complete .deb stays where it is and what it is.
LEMMA CompleteStays ==
  ASSUME TypeInv, PackInv, [Next]_vars, NEW n \in Names, Complete(debs[n])
  PROVE  debs'[n] = debs[n]
<1>1. debs \in [Names -> Body \cup {None, Partial}] BY DEF TypeInv, TypeOK
<1> QED BY <1>1, DebsStep

LEMMA PackStep == TypeInv /\ PackInv /\ [Next]_vars => PackInv'
<1> SUFFICES ASSUME TypeInv, PackInv, [Next]_vars PROVE PackInv'
  OBVIOUS
<1> USE DEF PackInv, source, built, records, process
<1>1. CASE Edit BY <1>1 DEF Edit
<1>2. ASSUME NEW s \in setting.sessions, MakeAsDependency(s) \/ Begin(s) PROVE PackInv'
  BY <1>2 DEF MakeAsDependency, Begin
<1>3. CASE Rebuild \/ SkipBuild \/ AddDebian BY <1>3 DEF Rebuild, SkipBuild, AddDebian
<1>4. CASE HashTree \/ RecordUnpacked BY <1>4 DEF HashTree, RecordUnpacked
<1>5. CASE Pack
  <2>1. <<vrsn, rvsn>> \in Names /\ debs \in [Names -> Body \cup {None, Partial}]
    BY <1>5 DEF Pack, TypeInv, TypeOK, Names
  <2> QED BY <1>5, <2>1 DEF Pack
<1>6. CASE RecordMd5 \/ RecordRevision \/ RemoveDebian \/ Fail
  BY <1>6 DEF RecordMd5, RecordRevision, RemoveDebian, Fail, Exit
<1>7. CASE UNCHANGED vars BY <1>7 DEF vars
<1> QED BY <1>1, <1>2, <1>3, <1>4, <1>5, <1>6, <1>7 DEF Next

\* Every build stamps the tree it has made; a tree that is not stamped is built again.
LEMMA ReleaseStep == TypeInv /\ PackInv /\ ReleaseInv /\ [Next]_vars => ReleaseInv'
<1> SUFFICES ASSUME TypeInv, PackInv, ReleaseInv, [Next]_vars PROVE ReleaseInv'
  OBVIOUS
<1>a. None \notin Contents /\ content \in Contents BY SettingAssumption DEF TypeInv, TypeOK
<1> USE DEF ReleaseInv, source, built, records, process
<1>1. CASE Edit BY <1>1 DEF Edit
<1>2. ASSUME NEW s \in setting.sessions, MakeAsDependency(s) \/ Begin(s) PROVE ReleaseInv'
  BY <1>2 DEF MakeAsDependency, Make, Begin
<1>3. CASE Rebuild \/ SkipBuild \/ AddDebian BY <1>a, <1>3 DEF Rebuild, Make, SkipBuild, AddDebian
<1>4. CASE HashTree \/ RecordUnpacked
  <2>1. Packable.tree = tree BY DEF Packable
  <2> QED BY <1>4, <2>1 DEF HashTree, RecordUnpacked
<1>5. CASE Pack
  <2> DEFINE d == [hash EXCEPT !.version = vrsn]
  <2>1. /\ <<vrsn, rvsn>> \in Names /\ debs \in [Names -> Body \cup {None, Partial}]
        /\ hash \in Body /\ vrsn \in Versions
    BY <1>5 DEF Pack, TypeInv, TypeOK, Names
  <2>2. d \in Body BY <2>1 DEF Body
  <2>3. Complete(d) BY <2>2, SentinelAssumption DEF Complete
  <2>4. debs'[<<vrsn, rvsn>>] = d BY <1>5, <2>1 DEF Pack
  <2> HIDE DEF d
  <2>5. Complete(debs'[<<vrsn, rvsn>>]) BY <2>3, <2>4
  <2>6. Complete(debs[<<vrsn, rvsn>>])' BY <1>5, <2>5 DEF Pack, Complete
  <2> QED BY <1>5, <2>6 DEF Pack
<1>6. CASE RecordMd5 \/ RecordRevision BY <1>6 DEF RecordMd5, RecordRevision, Complete
<1>7. CASE RemoveDebian \/ Fail BY <1>7 DEF RemoveDebian, Fail, Exit
<1>8. CASE UNCHANGED vars BY <1>8 DEF vars, Complete
<1> QED BY <1>1, <1>2, <1>3, <1>4, <1>5, <1>6, <1>7, <1>8 DEF Next

LEMMA OwnersStep == TypeInv /\ OwnersInv /\ [Next]_vars => OwnersInv'
<1> SUFFICES ASSUME TypeInv, OwnersInv, [Next]_vars PROVE OwnersInv'
  OBVIOUS
<1> USE DEF OwnersInv, source, built, records, process
<1>1. CASE Edit BY <1>1 DEF Edit
<1>2. ASSUME NEW s \in setting.sessions, MakeAsDependency(s) \/ Begin(s) PROVE OwnersInv'
  BY <1>2 DEF MakeAsDependency, Begin
<1>3. CASE Rebuild \/ SkipBuild \/ AddDebian
  BY <1>3 DEF Rebuild, Make, SkipBuild, AddDebian
<1>4. CASE HashTree \/ RecordUnpacked BY <1>4 DEF HashTree, RecordUnpacked
<1>5. CASE Pack \/ RecordMd5 \/ RecordRevision BY <1>5 DEF Pack, RecordMd5, RecordRevision
<1>6. CASE RemoveDebian \/ Fail BY <1>6 DEF RemoveDebian, Fail, Exit
<1>7. CASE UNCHANGED vars BY <1>7 DEF vars
<1> QED BY <1>1, <1>2, <1>3, <1>4, <1>5, <1>6, <1>7 DEF Next

\* The hash that RecordMd5 records is that of the .deb before it; nothing else records one.
LEMMA RecordedStep ==
  TypeInv /\ PackInv /\ RecordedIsPacked /\ [Next]_vars => RecordedIsPacked'
<1> SUFFICES ASSUME TypeInv, PackInv, RecordedIsPacked, [Next]_vars,
                    "rehash" \notin setting'.sessions, destMd5' # None
             PROVE  \E n \in Names : /\ Complete(debs'[n])
                                    /\ debs'[n] = [destMd5' EXCEPT !.version = debs'[n].version]
  BY DEF RecordedIsPacked
<1>1. ASSUME destMd5' = destMd5, setting' = setting
      PROVE  \E n \in Names : /\ Complete(debs'[n])
                              /\ debs'[n] = [destMd5' EXCEPT !.version = debs'[n].version]
  <2>1. PICK n \in Names : /\ Complete(debs[n])
                           /\ debs[n] = [destMd5 EXCEPT !.version = debs[n].version]
    BY <1>1 DEF RecordedIsPacked
  <2>2. debs'[n] = debs[n] BY <2>1, CompleteStays
  <2> QED BY <1>1, <2>1, <2>2
<1>2. CASE RecordMd5
  <2> DEFINE n == <<vrsn, rvsn>>
             d == [hash EXCEPT !.version = vrsn]
  <2>1. n \in Names /\ hash \in Body /\ vrsn \in Versions
    BY <1>2 DEF RecordMd5, TypeInv, TypeOK, Names
  <2>2. debs'[n] = d /\ destMd5' = hash BY <1>2 DEF RecordMd5, PackInv
  <2>3. d \in Body /\ d.version = vrsn BY <2>1 DEF Body
  <2>4. Complete(d) BY <2>3, SentinelAssumption DEF Complete
  <2> QED BY <2>1, <2>2, <2>3, <2>4
<1>3. ~RecordUnpacked
  <2>1. setting' = setting BY DEF Next, vars, Edit, MakeAsDependency, Begin, Rebuild, SkipBuild, AddDebian,
          HashTree, RecordUnpacked, Pack, RecordMd5, RecordRevision, RemoveDebian, Fail
  <2> QED BY <2>1, SettingAssumption DEF RecordUnpacked, TypeInv, TypeOK
<1>4. CASE Edit \/ \E s \in setting.sessions : MakeAsDependency(s) \/ Begin(s)
  BY <1>1, <1>4 DEF Edit, MakeAsDependency, Begin, records
<1>5. CASE Rebuild \/ SkipBuild \/ AddDebian
  BY <1>1, <1>5 DEF Rebuild, SkipBuild, AddDebian, records
<1>6. CASE HashTree \/ Pack \/ RecordRevision \/ RemoveDebian \/ Fail
  <2>1. destMd5' = destMd5 /\ setting' = setting
    BY <1>6 DEF HashTree, Pack, RecordRevision, RemoveDebian, Fail, records
  <2> QED BY <1>1, <2>1
<1>7. CASE UNCHANGED vars BY <1>1, <1>7 DEF vars, records
<1> QED BY <1>2, <1>3, <1>4, <1>5, <1>6, <1>7 DEF Next
-----------------------------------------------------------------------------
(* What is on offer.                                                       *)

LEMMA CurrentType == TypeOK => Current \in Body
  BY DEF TypeOK, Current, Body

\* Undisturbed, debs/ has nothing above the recorded revision, so that a tree that is not
\* the recorded one is always packed.
LEMMA UndisturbedStep ==
  TypeInv /\ UndisturbedInv /\ [Next]_vars => UndisturbedInv'
<1> SUFFICES ASSUME TypeInv, UndisturbedInv, [Next]_vars, Undisturbed'
             PROVE  OfferInv' /\ RunInv'
  BY DEF UndisturbedInv
<1>1. setting' = setting
  BY DEF Next, vars, Edit, MakeAsDependency, Begin, Rebuild, SkipBuild, AddDebian,
         HashTree, RecordUnpacked, Pack, RecordMd5, RecordRevision, RemoveDebian, Fail
<1>2. /\ OfferInv /\ RunInv
      /\ setting.sessions = {"fakeroot"} /\ ~setting.crashes /\ ~setting.editDuringRun
  BY <1>1 DEF Undisturbed, UndisturbedInv
<1>3. pc # "idle" => session = "fakeroot" BY <1>2 DEF TypeInv, TypeOK
<1>4. Current \in Body /\ Current # None /\ Current.version = version
  BY CurrentType, SentinelAssumption DEF TypeInv, Current
<1>a. destVer \in Nat /\ MaxRevision \in Nat BY SettingAssumption DEF TypeInv, TypeOK
<1> USE DEF source, built, records, process
<1>5. CASE Edit
  BY <1>2, <1>5 DEF Edit, OfferInv, RunInv
<1>6. ASSUME NEW s \in setting.sessions, MakeAsDependency(s) PROVE OfferInv' /\ RunInv'
  BY <1>2, <1>6 DEF MakeAsDependency, Make, OfferInv, RunInv, Current
<1>7. ASSUME NEW s \in setting.sessions, Begin(s) PROVE OfferInv' /\ RunInv'
  BY <1>2, <1>7 DEF Begin, OfferInv, RunInv
<1>8. CASE Rebuild
  BY <1>2, <1>3, <1>8 DEF Rebuild, Make, OfferInv, RunInv
<1>9. CASE AddDebian
  BY <1>2, <1>3, <1>9 DEF AddDebian, OfferInv, RunInv
<1>10. CASE HashTree
  <2>a. pc = "hash" BY <1>10 DEF HashTree
  <2>b. /\ vrsn = version /\ rvsn = destVer
        /\ tree = content /\ builtBy = "this run" /\ dataVer = version
        /\ debian = [version |-> version, scripts |-> scripts]
    BY <1>2, <2>a DEF RunInv
  <2>1. Packable = Current
    BY <2>b DEF Packable, Owners, Current
  <2>2. rvsn + 1 \in 1 .. MaxRevision /\ version \in Versions /\ destVer \in 0 .. MaxRevision
    BY <2>a, SettingAssumption DEF TypeInv, TypeOK
  <2>3. debs[<<vrsn, rvsn + 1>>] = None
    <3>1. \A v \in Versions, r \in 1 .. MaxRevision : r > destVer => debs[<<v, r>>] = None
      BY <1>2, <2>a DEF OfferInv
    <3>2. rvsn = destVer /\ vrsn \in Versions BY <2>b, <2>2
    <3>3. rvsn + 1 > destVer BY <1>a, <3>2
    <3> QED BY <2>2, <3>1, <3>2, <3>3
  <2>4. CASE destMd5 = Current
    <3>1. pc' = "clean" /\ destVer # 0
      BY <1>2, <1>4, <1>10, <2>a, <2>1, <2>4 DEF HashTree, OfferInv
    <3> QED BY <1>2, <1>10, <2>b, <2>4, <3>1 DEF HashTree, OfferInv, RunInv, Current
  <2>5. CASE destMd5 # Current
    <3>1. pc' = "pack" /\ hash' = Current /\ rvsn' = destVer + 1
      BY <1>10, <2>b, <2>1, <2>3, <2>5 DEF HashTree
    <3> QED BY <1>2, <1>10, <2>a, <2>b, <3>1 DEF HashTree, OfferInv, RunInv, Current
  <2> QED BY <2>4, <2>5
<1>11. CASE Pack
  <2> DEFINE n == <<vrsn, rvsn>>
  <2>1. /\ n \in Names /\ debs \in [Names -> Body \cup {None, Partial}]
        /\ destMd5 \in Body \cup {None} /\ destVer \in 0 .. MaxRevision
    BY <1>11 DEF Pack, TypeInv, TypeOK, Names
  <2>a. pc = "pack" BY <1>11 DEF Pack
  <2>2. /\ vrsn = version /\ rvsn = destVer + 1 /\ hash = Current
        /\ tree = content /\ builtBy = "this run" /\ dataVer = version
    BY <1>2, <2>a DEF RunInv
  <2>b. rvsn = destVer + 1 BY <2>2
  <2>3. [hash EXCEPT !.version = vrsn] = Current
    <3>1. \A d \in Body : [d EXCEPT !.version = d.version] = d BY DEF Body
    <3> QED BY <1>4, <2>2, <3>1
  <2>4. debs'[n] = Current /\ \A k \in Names : k # n => debs'[k] = debs[k]
    BY <1>11, <2>1, <2>3 DEF Pack
  <2>5. OfferInv'
    <3>1. destVer # 0 => destMd5 \in Body /\ <<destMd5.version, destVer>> \in Names
      <4>1. destVer # 0 => destMd5 # None BY <1>2 DEF OfferInv
      <4>2. destVer # 0 => destVer \in 1 .. MaxRevision BY <1>a, <2>1
      <4>3. \A d \in Body : d.version \in Versions BY DEF Body
      <4> QED BY <2>1, <4>1, <4>2, <4>3 DEF Names
    <3>2. destVer # 0 => debs'[<<destMd5.version, destVer>>] = destMd5
      <4>1. destVer # 0 => debs[<<destMd5.version, destVer>>] = destMd5 BY <1>2, <2>a DEF OfferInv
      <4>2. <<destMd5.version, destVer>> # n BY <1>a, <2>b
      <4> QED BY <2>4, <3>1, <4>1, <4>2
    <3>3. ASSUME NEW v \in Versions, NEW r \in 1 .. MaxRevision, r > destVer, ~(v = vrsn /\ r = rvsn)
          PROVE  debs'[<<v, r>>] = None
      BY <1>2, <1>11, <2>4, <3>3 DEF Pack, OfferInv, Names
    <3> QED BY <1>2, <1>11, <3>2, <3>3 DEF Pack, OfferInv
  <2>6. RunInv' BY <1>11, <2>2, <2>4 DEF Pack, RunInv, Current
  <2> QED BY <2>5, <2>6
<1>12. CASE RecordMd5
  BY <1>2, <1>4, <1>12 DEF RecordMd5, OfferInv, RunInv, Current
<1>13. CASE RecordRevision
  <2>1. rvsn = destVer + 1 /\ destMd5 = Current /\ debs[<<vrsn, rvsn>>] = Current /\ vrsn = version
    BY <1>2, <1>13 DEF RecordRevision, RunInv
  <2>2. destVer \in 0 .. MaxRevision BY DEF TypeInv, TypeOK
  <2>3. OfferInv' BY <1>2, <1>4, <1>13, <1>a, <2>1, <2>2 DEF RecordRevision, OfferInv
  <2>4. destVer' # 0
    <3>1. rvsn = destVer + 1 BY <2>1
    <3> QED BY <1>13, <1>a, <3>1 DEF RecordRevision
  <2>5. RunInv' BY <1>2, <1>13, <2>4 DEF RecordRevision, RunInv, Current
  <2> QED BY <2>3, <2>5
<1>14. CASE RemoveDebian
  BY <1>2, <1>14 DEF RemoveDebian, Exit, OfferInv, RunInv, Current
<1>15. ~SkipBuild /\ ~RecordUnpacked /\ ~Fail
  BY <1>2, <1>3 DEF SkipBuild, RecordUnpacked, Fail
<1>16. CASE UNCHANGED vars
  BY <1>2, <1>16 DEF vars, OfferInv, RunInv, Current
<1> QED BY <1>5, <1>6, <1>7, <1>8, <1>9, <1>10, <1>11, <1>12, <1>13, <1>14, <1>15, <1>16 DEF Next
-----------------------------------------------------------------------------
(* The promise: what the steps are on the shelf.                           *)

\* A step that leaves alone what Releases speaks of.
LEMMA Unseen ==
  ASSUME UNCHANGED <<content, version, scripts, tree, debs, destVer>>
  PROVE  UNCHANGED Promised!vars
  BY DEF Promised!vars, Sources, Shelf, Finished, Complete

\* While no .deb is finished or replaced, the shelf stays as it is.
LEMMA ShelfStays ==
  ASSUME \A n \in Names : debs'[n] = debs[n] \/ (~Complete(debs[n]) /\ ~Complete(debs'[n]))
  PROVE  Shelf' = Shelf
<1>1. Finished' = Finished BY DEF Finished, Complete
<1>2. \A n \in Finished : debs'[n] = debs[n] BY DEF Finished
<1> QED BY <1>1, <1>2 DEF Shelf

\* make.sh builds what data/ has.
LEMMA MakeBuilds ==
  ASSUME NEW by, Make(by), UNCHANGED <<source, records, debs>> PROVE Promised!Build
<1>1. Sources' = Sources /\ destVer' = destVer /\ Shelf' = Shelf
  BY DEF source, records, Sources, Shelf, Finished, Complete
<1>2. tree' = Sources.content BY DEF Make, Sources
<1> QED BY <1>1, <1>2 DEF Promised!Build

\* dpkg-deb adds one .deb, of the finished tree, and of the next revision.
LEMMA PackReleases ==
  ASSUME TypeInv, PackInv, ReleaseInv, Pack PROVE Promised!Next
<1> DEFINE n == <<vrsn, rvsn>>
           d == [hash EXCEPT !.version = vrsn]
<1>1. /\ n \in Names /\ debs \in [Names -> Body \cup {None, Partial}]
      /\ hash \in Body /\ vrsn \in Versions
  BY DEF Pack, TypeInv, TypeOK, Names
<1>2. rvsn = destVer + 1 /\ hash.tree = tree /\ tree # None /\ debs[n] = None
  BY DEF Pack, ReleaseInv, PackInv
<1>3. d \in [tree : {tree}, owners : {"as built", "lost"}, version : {vrsn}, scripts : SUBSET Scripts]
  BY <1>1, <1>2 DEF Body
<1>4. Complete(d)
  <2>1. d \in Body BY <1>1 DEF Body
  <2> QED BY <2>1, SentinelAssumption DEF Complete
<1>5. debs'[n] = d /\ \A k \in Names : k # n => debs'[k] = debs[k]
  BY <1>1 DEF Pack
<1> HIDE DEF d
<1>6. n \notin Finished BY <1>2 DEF Finished, Complete
<1>7. Finished' = Finished \cup {n} BY <1>1, <1>4, <1>5 DEF Finished, Complete
<1>8. DOMAIN Shelf = Finished /\ DOMAIN Shelf' = Finished' BY DEF Shelf
<1>9. Shelf'[n] = d BY <1>5, <1>7 DEF Shelf
<1>10. \A k \in DOMAIN Shelf : Shelf'[k] = Shelf[k]
  <2>1. \A k \in Finished : k \in Names BY DEF Finished
  <2> QED BY <1>5, <1>6, <1>7, <1>8, <2>1 DEF Shelf
<1>11. Sources' = Sources /\ tree' = tree /\ destVer' = destVer
  BY DEF Pack, source, built, records, Sources
<1>12. n = <<vrsn, destVer + 1>> BY <1>2
<1> HIDE DEF n
<1>13. Promised!Release(vrsn)
  BY <1>2, <1>3, <1>6, <1>7, <1>8, <1>9, <1>10, <1>11, <1>12 DEF Promised!Release
<1> QED BY <1>1, <1>13 DEF Promised!Next

\* The revision that is recorded is on the shelf.
LEMMA RevisionRecords ==
  ASSUME TypeInv, ReleaseInv, RecordRevision PROVE Promised!Record
<1>1. <<vrsn, rvsn>> \in Names /\ vrsn \in Versions BY DEF RecordRevision, TypeInv, TypeOK, Names
<1>2. rvsn = destVer + 1 /\ Complete(debs[<<vrsn, rvsn>>]) BY DEF RecordRevision, ReleaseInv
<1>3. <<vrsn, destVer + 1>> \in DOMAIN Shelf BY <1>1, <1>2 DEF Shelf, Finished
<1>4. Shelf' = Shelf /\ Sources' = Sources /\ tree' = tree
  BY DEF RecordRevision, source, built, Shelf, Finished, Complete, Sources
<1>5. destVer' = destVer + 1 BY <1>2 DEF RecordRevision
<1> QED BY <1>1, <1>3, <1>4, <1>5 DEF Promised!Record

\* A failure leaves the tree, or an unfinished one; and finishes no .deb.  The revision that
\* it may lose is on the shelf.
LEMMA FailSpoils ==
  ASSUME TypeInv, PackInv, ReleaseInv, Fail
  PROVE  Promised!Spoil \/ Promised!Forget \/ UNCHANGED Promised!vars
<1>1. Shelf' = Shelf
  <2>1. CASE debs' = debs BY <2>1 DEF Shelf, Finished, Complete
  <2>2. CASE debs' # debs
    <3>1. pc = "pack" /\ debs' = [debs EXCEPT ![<<vrsn, rvsn>>] = Partial] BY <2>2 DEF Fail
    <3>2. debs[<<vrsn, rvsn>>] = None /\ debs \in [Names -> Body \cup {None, Partial}]
      BY <3>1 DEF PackInv, TypeInv, TypeOK
    <3>3. \A n \in Names : debs'[n] = debs[n] \/ (~Complete(debs[n]) /\ ~Complete(debs'[n]))
      BY <3>1, <3>2 DEF Complete
    <3> QED BY <3>3, ShelfStays
  <2> QED BY <2>1, <2>2
<1>2. Sources' = Sources BY DEF Fail, source, Sources
<1>3. CASE destVer' = destVer
  <2>1. tree' \in {tree, None} BY DEF Fail
  <2> QED BY <1>1, <1>2, <1>3, <2>1 DEF Promised!Spoil, Promised!vars
<1>4. CASE destVer' # destVer
  <2>1. pc = "ver" /\ destVer' = 0 /\ tree' = tree BY <1>4 DEF Fail, records
  <2>2. <<vrsn, rvsn>> \in Names /\ vrsn \in Versions BY <2>1 DEF TypeInv, TypeOK, Names
  <2>3. rvsn = destVer + 1 /\ Complete(debs[<<vrsn, rvsn>>]) BY <2>1 DEF ReleaseInv
  <2>4. <<vrsn, destVer + 1>> \in DOMAIN Shelf BY <2>2, <2>3 DEF Shelf, Finished
  <2> QED BY <1>1, <1>2, <2>1, <2>2, <2>4 DEF Promised!Forget
<1> QED BY <1>3, <1>4

\* Every step is one of the shelf's, or none.
LEMMA StepImplements ==
  ASSUME TypeInv, PackInv, ReleaseInv, [Next]_vars PROVE [Promised!Next]_(Promised!vars)
<1>1. CASE Edit
  <2>1. setting.scripts \subseteq Scripts BY SettingAssumption DEF TypeInv, TypeOK
  <2>2. content' \in Contents /\ version' \in Versions /\ scripts' \subseteq Scripts
    BY <1>1, <2>1 DEF Edit, TypeInv, TypeOK
  <2>3. Sources' \in [content : Contents, version : Versions, scripts : SUBSET Scripts]
    BY <2>2 DEF Sources
  <2>4. Shelf' = Shelf /\ tree' = tree /\ destVer' = destVer
    BY <1>1 DEF Edit, built, records, Shelf, Finished, Complete
  <2> QED BY <2>3, <2>4 DEF Promised!Edit, Promised!Next
<1>2. ASSUME NEW s \in setting.sessions, MakeAsDependency(s) PROVE Promised!Next
  BY <1>2, MakeBuilds DEF MakeAsDependency, Promised!Next
<1>3. ASSUME NEW s \in setting.sessions, Begin(s) PROVE UNCHANGED Promised!vars
  BY <1>3, Unseen DEF Begin, source, built, records
<1>4. CASE Rebuild BY <1>4, MakeBuilds DEF Rebuild, Promised!Next
<1>5. CASE SkipBuild \/ AddDebian
  BY <1>5, Unseen DEF SkipBuild, AddDebian, source, built, records
<1>6. CASE HashTree \/ RecordUnpacked
  BY <1>6, Unseen DEF HashTree, RecordUnpacked, source, built, records
<1>7. CASE Pack BY <1>7, PackReleases
<1>8. CASE RecordMd5 \/ RemoveDebian
  BY <1>8, Unseen DEF RecordMd5, RemoveDebian, source, built, records
<1>9. CASE RecordRevision BY <1>9, RevisionRecords DEF Promised!Next
<1>10. CASE Fail BY <1>10, FailSpoils DEF Promised!Next
<1>11. CASE UNCHANGED vars
  BY <1>11, Unseen DEF vars, source, built, records
<1> QED BY <1>1, <1>2, <1>3, <1>4, <1>5, <1>6, <1>7, <1>8, <1>9, <1>10, <1>11 DEF Next
-----------------------------------------------------------------------------
(* The theorems.                                                           *)

LEMMA InitEstablishes == Init => IInv
<1> SUFFICES ASSUME Init PROVE IInv
  OBVIOUS
<1>1. PackInv /\ OwnersInv /\ RecordedIsPacked BY DEF Init, PackInv, OwnersInv, RecordedIsPacked
<1>a. ReleaseInv BY DEF Init, ReleaseInv
<1>2. OfferInv /\ RunInv BY DEF Init, OfferInv, RunInv, Names
<1> QED BY <1>1, <1>a, <1>2, InitType DEF IInv, UndisturbedInv

LEMMA StepPreserves == IInv /\ [Next]_vars => IInv'
  BY TypeStep, PackStep, ReleaseStep, OwnersStep, RecordedStep, UndisturbedStep DEF IInv

LEMMA AlwaysIInv == Spec => []IInv
  BY InitEstablishes, StepPreserves, PTL DEF Spec

\* The state of package.sh, of its records and of debs/ stays well typed, for every setting.
THEOREM TypeCorrect == Spec => []TypeOK
<1>1. IInv => TypeOK BY DEF IInv, TypeInv
<1> QED BY <1>1, AlwaysIInv, PTL

\* No step of package.sh, rehash.sh or make.sh, no failure and no interrupt changes a .deb
\* that dpkg-deb has finished, whoever runs them and whatever is edited meanwhile.
THEOREM PublishedStaysPublished == Spec => DebsNeverChange
<1>1. IInv /\ [Next]_vars => [\A n \in Names : Complete(debs[n]) => debs'[n] = debs[n]]_vars
  BY CompleteStays DEF IInv
<1> QED BY <1>1, AlwaysIInv, PTL DEF Spec, DebsNeverChange

\* As long as nobody runs rehash.sh, the tree that package.sh will skip has been packed.
THEOREM SkippedIsPacked == Spec => []RecordedIsPacked
<1>1. IInv => RecordedIsPacked BY DEF IInv
<1> QED BY <1>1, AlwaysIInv, PTL

\* A fakeroot run hashes and packs files whose owners its own build has set.
THEOREM FakerootPacksOwners == Spec => []FakerootOwnersKept
<1>1. IInv => FakerootOwnersKept BY DEF IInv, OwnersInv, FakerootOwnersKept, Owners
<1> QED BY <1>1, AlwaysIInv, PTL

\* Undisturbed, what construct.sh offers after package.sh is the package as it is.
THEOREM OfferIsCurrent == Spec => []OffersCurrent
<1>1. IInv => OffersCurrent
  <2> SUFFICES ASSUME IInv, Undisturbed, fresh, pc = "idle" PROVE Offered = Current
    BY DEF OffersCurrent, Current
  <2>1. OfferInv /\ destVer # 0 /\ destMd5 = Current /\ dataVer = version
    BY DEF IInv, UndisturbedInv, RunInv
  <2>2. <<dataVer, destVer>> \in Names BY <2>1 DEF IInv, TypeInv, TypeOK, Names
  <2>3. debs[<<dataVer, destVer>>] = Current BY <2>1 DEF OfferInv, Current
  <2> QED BY <2>1, <2>2, <2>3 DEF Offered
<1> QED BY <1>1, AlwaysIInv, PTL

\* For one who looks at finished .deb files and the recorded revision, package.sh,
\* rehash.sh and make.sh, run by whomever and failing wherever, only ever add the next
\* release of a finished tree, and record it.
THEOREM ImplementsTheShelf == Spec => ImplementsReleases
<1>1. Init => Promised!Init
  <2> SUFFICES ASSUME Init PROVE Promised!Init
    OBVIOUS
  <2>1. Sources \in [content : Contents, version : Versions, scripts : {{}}] BY DEF Init, Sources
  <2>2. Finished = {} BY DEF Init, Finished, Complete
  <2>3. Shelf = [n \in {} |-> None] BY <2>2 DEF Shelf
  <2> QED BY <2>1, <2>3 DEF Init, Promised!Init
<1>2. IInv /\ [Next]_vars => [Promised!Next]_(Promised!vars) BY StepImplements DEF IInv
<1> QED BY <1>1, <1>2, AlwaysIInv, PTL DEF Spec, ImplementsReleases, Promised!Spec
=============================================================================
