----------------------------- MODULE PkgPackage -----------------------------
(***************************************************************************)
(* telesphoreo/package.sh and construct.sh, for one package: from the tree *)
(* make.sh leaves in dest/ to the .deb files in debs/ and the index of the *)
(* repository.                                                             *)
(*                                                                         *)
(* package.sh makes the package, adds a temporary DEBIAN directory to its  *)
(* tree, and packs the tree as NAME_VERSION-REVISION.deb when its hash is  *)
(* not the one recorded in stat/dest-md5; it then records the hash and the *)
(* revision, in two files.  Run by a normal user it restarts itself under  *)
(* fakeroot and uses remake.sh; run by root it uses make.sh.               *)
(* construct.sh offers the .deb whose name data-ver and dest-ver make up.  *)
(* rehash.sh makes the package and records the hash of its tree, unpacked: *)
(* a tree that has changed for no good reason is not to be packed again.   *)
(*                                                                         *)
(* make.sh is one step here (PkgMake has its inside); the contents of data *)
(* and dependencies are one value, and so is the tree built from them.     *)
(***************************************************************************)
EXTENDS Naturals

CONSTANTS
  Contents,       \* what data/ and the dependencies' trees can be
  Versions,       \* what _metadata/version can say
  Scripts,        \* the maintainer scripts _metadata can have
  Settings,       \* circumstances to look at; their bounds are part of them
  MaxRevision,    \* bound: the largest of them for revisions
  None, Partial    \* nothing, and a .deb that dpkg-deb did not finish

ASSUME SettingAssumption ==
  /\ MaxRevision \in Nat
  /\ Settings \subseteq
       [sessions : SUBSET {"root", "fakeroot", "rehash"},  \* package.sh by root, by a
                                                \* user; rehash.sh, by root
        scripts : SUBSET Scripts,                \* those that edits add and remove
        editDuringRun : BOOLEAN,  \* may data/ be edited meanwhile?
        crashes : BOOLEAN,        \* may a step of it fail, or be interrupted?
        revisions : 0 .. MaxRevision]  \* package.sh does not begin any more at this one
  /\ None \notin Contents \cup Versions \cup {"root", "fakeroot", "rehash"}

VARIABLES
  content, version, scripts,  \* data/NAME: its content, and two parts of _metadata
  tree,      \* what dest/NAME was built from; None while it is unfinished
  builtBy,   \* the session its files were created in
  debian,    \* dest/NAME/DEBIAN: None, or what it holds
  stamp,     \* stat/data-md5: None, or the content that was built
  dataVer,   \* stat/data-ver
  destMd5,   \* stat/dest-md5, None when there is none, or nothing in it
  destVer,   \* stat/dest-ver, 0 when there is none, or nothing in it
  debs,      \* debs/: what each version and revision holds
  pc, session, vrsn, rvsn, hash,  \* the running package.sh
  setting,   \* one of Settings, for good
  \* History:
  fresh      \* whether package.sh runs or has succeeded with nothing edited since it began

source  == <<content, version, scripts>>
built   == <<tree, builtBy, stamp, dataVer>>
records == <<destMd5, destVer>>
process == <<session, vrsn, rvsn, hash>>
vars    == <<source, built, debian, records, debs, pc, process, setting, fresh>>

\* fakeroot keeps the owners and modes a build sets in its own memory: they are known
\* to that run only, and lost when it ends.
Builders == {"root", "this run", "an earlier fakeroot"}

Owners == IF builtBy = "this run" \/ (builtBy = "root" /\ session # "fakeroot")
          THEN "as built" ELSE "lost"

Body  == [tree : Contents \cup {None}, owners : {"as built", "lost"},
          version : Versions, scripts : SUBSET Scripts]
Names == Versions \X (1 .. MaxRevision)

ASSUME SentinelAssumption ==
  /\ None \notin Body /\ Partial \notin Body
  /\ None \notin [version : Versions, scripts : SUBSET Scripts]

\* The tree that is hashed, with the control file and the scripts in DEBIAN.
Packable == [tree |-> tree, owners |-> Owners,
             version |-> debian.version, scripts |-> debian.scripts]

TypeOK ==
  /\ content \in Contents /\ version \in Versions /\ scripts \subseteq Scripts
  /\ tree \in Contents \cup {None} /\ builtBy \in Builders
  /\ debian \in [version : Versions, scripts : SUBSET Scripts] \cup {None}
  /\ stamp \in Contents \cup {None} /\ dataVer \in Versions \cup {None}
  /\ destMd5 \in Body \cup {None} /\ destVer \in 0 .. MaxRevision
  /\ debs \in [Names -> Body \cup {None, Partial}]
  /\ pc \in {"idle", "make", "debian", "hash", "pack", "md5", "ver", "clean"}
  /\ setting \in Settings
  /\ session \in setting.sessions \cup {None} /\ (pc = "idle" <=> session = None)
  /\ vrsn \in Versions \cup {None}
  /\ rvsn \in 0 .. MaxRevision /\ hash \in Body \cup {None}
  /\ fresh \in BOOLEAN

Init ==
  /\ setting \in Settings
  /\ content \in Contents /\ version \in Versions /\ scripts = {}
  /\ tree = None /\ builtBy = "root" /\ debian = None /\ stamp = None /\ dataVer = None
  /\ destMd5 = None /\ destVer = 0
  /\ debs = [n \in Names |-> None]
  /\ pc = "idle" /\ session = None /\ vrsn = None /\ rvsn = 0 /\ hash = None
  /\ fresh = FALSE

-----------------------------------------------------------------------------
(* Around package.sh.                                                      *)

Edit ==
  /\ setting.editDuringRun \/ pc = "idle"
  /\ \/ content' \in Contents \ {content} /\ UNCHANGED <<version, scripts>>
     \/ version' \in Versions \ {version} /\ UNCHANGED <<content, scripts>>
     \/ scripts' \in SUBSET setting.scripts \ {scripts} /\ UNCHANGED <<content, version>>
  /\ fresh' = FALSE
  /\ UNCHANGED <<built, debian, records, debs, pc, process, setting>>

\* Mutant: data-ver is written by the first build only.
MakeKeepsVersion(by) ==
  /\ tree' = content
  /\ builtBy' = by
  /\ debian' = None
  /\ stamp' = content
  /\ dataVer' = IF dataVer = None THEN version ELSE dataVer

\* make.sh of this package, to its end.
Make(by) ==
  /\ tree' = content
  /\ builtBy' = by
  /\ debian' = None
  /\ stamp' = content
  /\ dataVer' = version

\* make.sh of a package that depends on this one makes this one first.
MakeAsDependency(s) ==
  /\ pc = "idle"
  /\ stamp # content
  /\ Make(IF s = "fakeroot" THEN "an earlier fakeroot" ELSE "root")
  /\ UNCHANGED <<source, records, debs, pc, process, setting, fresh>>

\* construct.sh is a function of the disk: it offers the .deb that data-ver and dest-ver
\* name, if there is one.  It also looks for stat/fail, real-ver and exclude, which no script
\* of the repository writes: they are taken not to be there.
Offered == IF destVer # 0 /\ <<dataVer, destVer>> \in Names
           THEN debs[<<dataVer, destVer>>] ELSE None

-----------------------------------------------------------------------------
(* package.sh, and what rehash.sh shares with it.                          *)

\* helper.sh reads the version and the last revision before anything is made.
Begin(s) ==
  /\ pc = "idle"
  /\ destVer < setting.revisions
  /\ pc' = "make"
  /\ session' = s
  /\ vrsn' = version
  /\ rvsn' = destVer
  /\ fresh' = TRUE
  /\ UNCHANGED <<source, built, debian, records, debs, hash, setting>>

\* remake.sh, or make.sh when the stamp is not the content's.
Rebuild ==
  /\ pc = "make"
  /\ session = "fakeroot" \/ stamp # content
  /\ Make(IF session = "fakeroot" THEN "this run" ELSE "root")
  /\ pc' = "debian"
  /\ UNCHANGED <<source, records, debs, process, setting, fresh>>

\* Mutant: a fakeroot run uses the previous build, too.
SkipBuildAlways ==
  /\ pc = "make"
  /\ stamp = content
  /\ pc' = "debian"
  /\ UNCHANGED <<source, built, debian, records, debs, process, setting, fresh>>

\* make.sh by root: "skipping re-build".
SkipBuild ==
  /\ pc = "make"
  /\ session # "fakeroot" /\ stamp = content
  /\ pc' = "debian"
  /\ UNCHANGED <<source, built, debian, records, debs, process, setting, fresh>>

\* Scripts that _metadata no longer has stay in a DEBIAN that was left behind.  Of the five
\* scripts package.sh knows rehash.sh copies three, and never compiles one.
AddDebian ==
  /\ pc = "debian"
  /\ \E added \in IF session = "rehash" THEN SUBSET scripts ELSE {scripts} :
       debian' = [version |-> version,
                  scripts |-> added \cup IF debian = None THEN {} ELSE debian.scripts]
  /\ pc' = "hash"
  /\ UNCHANGED <<source, built, records, debs, process, setting, fresh>>

\* Mutant: a .deb that exists is packed over.
HashOverwrites ==
  /\ pc = "hash" /\ session # "rehash"
  /\ hash' = Packable
  /\ \/ destMd5 = Packable /\ pc' = "clean" /\ UNCHANGED rvsn
     \/ destMd5 # Packable /\ rvsn' = rvsn + 1 /\ pc' = "pack"
  /\ UNCHANGED <<source, built, debian, records, debs, session, vrsn, setting, fresh>>

\* Mutant: the hash is recorded where it is computed, before the tree is packed.
HashRecords ==
  /\ pc = "hash" /\ session # "rehash"
  /\ hash' = Packable
  /\ destMd5' = Packable
  /\ \/ destMd5 = Packable /\ pc' = "clean" /\ UNCHANGED rvsn
     \/ /\ destMd5 # Packable
        /\ rvsn' = rvsn + 1
        /\ pc' = IF debs[<<vrsn, rvsn + 1>>] # None THEN "clean" ELSE "pack"
  /\ UNCHANGED <<source, built, debian, destVer, debs, session, vrsn, setting, fresh>>

\* Mutant: the revision is recorded where it is chosen, before the tree is packed.
HashCounts ==
  /\ pc = "hash" /\ session # "rehash"
  /\ hash' = Packable
  /\ \/ destMd5 = Packable /\ pc' = "clean" /\ UNCHANGED <<rvsn, destVer>>
     \/ /\ destMd5 # Packable
        /\ rvsn' = rvsn + 1 /\ destVer' = rvsn'
        /\ pc' = IF debs[<<vrsn, rvsn + 1>>] # None THEN "clean" ELSE "pack"
  /\ UNCHANGED <<source, built, debian, destMd5, debs, session, vrsn, setting, fresh>>

\* The recorded hash: "skipping re-package".  Another: the next revision, unless a .deb
\* of that name exists already.
HashTree ==
  /\ pc = "hash" /\ session # "rehash"
  /\ hash' = Packable
  /\ \/ destMd5 = Packable /\ pc' = "clean" /\ UNCHANGED rvsn
     \/ /\ destMd5 # Packable
        /\ rvsn' = rvsn + 1
        /\ pc' = IF debs[<<vrsn, rvsn + 1>>] # None THEN "clean" ELSE "pack"
  /\ UNCHANGED <<source, built, debian, records, debs, session, vrsn, setting, fresh>>

\* rehash.sh
RecordUnpacked ==
  /\ pc = "hash" /\ session = "rehash"
  /\ hash' = Packable /\ destMd5' = Packable
  /\ pc' = "clean"
  /\ UNCHANGED <<source, built, debian, destVer, debs, session, vrsn, rvsn, setting, fresh>>

\* dpkg-deb packs the tree, with a control file that names version and revision.
Pack ==
  /\ pc = "pack"
  /\ debs' = [debs EXCEPT ![<<vrsn, rvsn>>] = [hash EXCEPT !.version = vrsn]]
  /\ pc' = "md5"
  /\ UNCHANGED <<source, built, debian, records, process, setting, fresh>>

RecordMd5 ==
  /\ pc = "md5"
  /\ destMd5' = hash
  /\ pc' = "ver"
  /\ UNCHANGED <<source, built, debian, destVer, debs, process, setting, fresh>>

RecordRevision ==
  /\ pc = "ver"
  /\ destVer' = rvsn
  /\ pc' = "clean"
  /\ UNCHANGED <<source, built, debian, destMd5, debs, process, setting, fresh>>

Exit ==
  /\ pc' = "idle"
  /\ session' = None /\ vrsn' = None /\ rvsn' = 0 /\ hash' = None

\* A fakeroot session, and what it knows of the files' owners, ends with its package.sh.
EndSession == IF builtBy = "this run" THEN "an earlier fakeroot" ELSE builtBy

RemoveDebian ==
  /\ pc = "clean"
  /\ debian' = None
  /\ builtBy' = EndSession
  /\ Exit
  /\ UNCHANGED <<source, tree, stamp, dataVer, records, debs, setting, fresh>>

\* A failing step ends package.sh (set -e), an interrupt too.  make.sh may leave an
\* unfinished tree without a stamp, and already the new data-ver, dpkg-deb an unfinished
\* .deb, and echo an empty file: an empty dest-md5 is no tree's hash, an empty dest-ver no
\* revision.
Fail ==
  /\ setting.crashes
  /\ pc # "idle"
  /\ builtBy' = EndSession
  /\ \/ UNCHANGED <<tree, stamp, dataVer, debian, debs, records>>
     \/ /\ pc = "make"
        /\ tree' = None /\ stamp' = None /\ debian' = None /\ dataVer' \in {dataVer, version}
        /\ UNCHANGED <<debs, records>>
     \/ /\ pc = "pack"
        /\ debs' = [debs EXCEPT ![<<vrsn, rvsn>>] = Partial]
        /\ UNCHANGED <<tree, stamp, dataVer, debian, records>>
     \/ /\ pc = "md5" \/ (pc = "hash" /\ session = "rehash")
        /\ destMd5' = None
        /\ UNCHANGED <<tree, stamp, dataVer, debian, debs, destVer>>
     \/ /\ pc = "ver"
        /\ destVer' = 0
        /\ UNCHANGED <<tree, stamp, dataVer, debian, debs, destMd5>>
  /\ Exit
  /\ fresh' = FALSE
  /\ UNCHANGED <<source, setting>>

Next ==
  \/ Edit
  \/ \E s \in setting.sessions : MakeAsDependency(s) \/ Begin(s)
  \/ Rebuild \/ SkipBuild
  \/ AddDebian \/ HashTree \/ RecordUnpacked \/ Pack \/ RecordMd5 \/ RecordRevision \/ RemoveDebian
  \/ Fail

Spec == Init /\ [][Next]_vars

-----------------------------------------------------------------------------
(* Properties.                                                             *)

Complete(d) == d \notin {None, Partial}

\* A .deb once written never changes: a version and revision that a client may have
\* installed always means the same tree.
DebsNeverChange == [][\A n \in Names : Complete(debs[n]) => debs'[n] = debs[n]]_vars

\* "skipping re-package" is said of a tree only when that very tree has been packed,
\* whatever was interrupted in between, as long as nobody runs rehash.sh.
RecordedIsPacked ==
  destMd5 # None /\ "rehash" \notin setting.sessions =>
    \E n \in Names : Complete(debs[n]) /\ debs[n] = [destMd5 EXCEPT !.version = debs[n].version]

\* package.sh:20 "when running fakeroot, we shouldn't use the previous build result as
\* we don't have the fakeroot session info anymore": what a fakeroot run hashes and packs
\* has the owners its build set.
FakerootOwnersKept ==
  session = "fakeroot" /\ pc \in {"hash", "pack"} => Owners = "as built"

\* As long as all runs of package.sh are under fakeroot, none failed and data/ was edited
\* between them only: once package.sh has succeeded, and until the next edit, the
\* repository built by construct.sh offers the package as it is now.
Undisturbed == setting.sessions = {"fakeroot"} /\ ~setting.crashes /\ ~setting.editDuringRun

OffersCurrent ==
  Undisturbed /\ fresh /\ pc = "idle" =>
    Offered = [tree |-> content, owners |-> "as built", version |-> version, scripts |-> scripts]
=============================================================================
