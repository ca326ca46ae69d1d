------------------------------ MODULE PkgMake ------------------------------
(***************************************************************************)
(* telesphoreo/make.sh: the incremental builder of packages.               *)
(*                                                                         *)
(* make.sh P first runs itself on every direct dependency of P, then       *)
(* hashes P's data directory together with the finished trees of those     *)
(* dependencies.  When stat/P/data-md5 holds that hash the package is      *)
(* skipped; otherwise the stamp is removed, the tree wiped, the package's  *)
(* own build script run, the tree cleaned up and signed, and at last       *)
(* data-ver and data-md5 are written.  remake.sh removes the stamp first.  *)
(* Every script runs under "set -e": a failing step ends the whole chain   *)
(* of nested make.sh processes, which is what an interrupt does too.       *)
(*                                                                         *)
(* A hash is modelled by what it is the hash of (md5 without collisions).  *)
(* The trees dest/ARCH/P and more/ARCH/P, which are always wiped, built    *)
(* and hashed together, are one value.                                     *)
(***************************************************************************)
EXTENDS Sequences, FiniteSets

CONSTANTS
  Packages,          \* the directories under data/
  Deps,              \* Deps[p]: the direct dependencies, from _metadata/*.dep
  Contents,          \* Contents[p]: what data/p can hold (without _metadata)
  Outs,              \* finished trees
  Outputs(_, _, _),  \* Outputs(p, c, d): what building p from content c and
                     \* dependency trees d can leave in dest/
  EditDuringMake,    \* may data/ be edited while a make.sh runs?
  Unfinished,        \* a tree that is missing, or that no build has finished
  NoPackage,         \* no make.sh runs
  NoStamp            \* stat/P/data-md5 does not exist

ASSUME DepsAssumption == Deps \in [Packages -> SUBSET Packages]

\* The dependency graph has no loop from a package to itself.  make.sh does
\* not look for cycles: on a longer one it would recurse without end, and
\* EventuallyIdle needs the whole graph acyclic (the proofs do not).
ASSUME NoSelfDependency == \A p \in Packages : p \notin Deps[p]

ASSUME OutputsAssumption ==
  \A p \in Packages : \A c \in Contents[p] :
    \A d \in [Deps[p] -> Outs \cup {Unfinished}] : Outputs(p, c, d) \subseteq Outs

ASSUME SentinelAssumption ==
  /\ Unfinished \notin Outs
  /\ NoPackage \notin Packages
  /\ EditDuringMake \in BOOLEAN
  /\ \A p \in Packages :
       NoStamp \notin [data : Contents[p], deps : [Deps[p] -> Outs \cup {Unfinished}]]

VARIABLES
  data,       \* data[p]: the content of data/p, outside _metadata
  dest,       \* dest[p]: the tree in dest/ARCH/p
  stamp,      \* stamp[p]: stat/ARCH/p/data-md5
  versioned,  \* the packages that have a stat/ARCH/p/data-ver
  callers,    \* the make.sh processes waiting for the running one, innermost first
  pkg,        \* the package of the running make.sh
  pc,         \* where the running make.sh is
  todo,       \* the dependencies its loop has not visited yet
  hashed,     \* PKG_HASH of the running make.sh
  read,       \* every content data[pkg] has had since it was hashed
  \* History, which no step reads to decide what to do:
  raced,      \* packages whose tree was built while their data was edited
  made,       \* packages made successfully, nothing edited or removed since
  edited      \* whether something was edited since the outermost make.sh began

disk    == <<data, dest, stamp, versioned>>
process == <<callers, pkg, pc, todo, hashed, read>>
history == <<raced, made, edited>>
vars    == <<disk, process, history>>

AllContents == UNION {Contents[p] : p \in Packages}
Trees     == Outs \cup {Unfinished}
Inputs(p) == [data |-> data[p], deps |-> [q \in Deps[p] |-> dest[q]]]
InputsOf(p) == [data : Contents[p], deps : [Deps[p] -> Trees]]


\* What the running make.sh is about to do: the loop over the dependencies, then
\* rm -f data-md5, rm -rf of the trees, the build, cp of data-ver, echo of data-md5.
Building    == {"unstamp", "wipe", "build", "record", "stamp"}
ReadingData == {"unstamp", "wipe", "build"}

TypeOK ==
  /\ data \in [Packages -> AllContents]
  /\ \A p \in Packages : data[p] \in Contents[p]
  /\ dest \in [Packages -> Trees]
  /\ DOMAIN stamp = Packages
  /\ \A p \in Packages : stamp[p] \in InputsOf(p) \cup {NoStamp}
  /\ versioned \subseteq Packages
  /\ callers \in Seq([pkg : Packages, todo : SUBSET Packages])
  /\ pc \in {"idle", "deps"} \cup Building
  /\ IF pc = "idle" THEN pkg = NoPackage ELSE pkg \in Packages
  /\ todo \subseteq Packages
  /\ pc \in Building => hashed \in InputsOf(pkg)
  /\ read \subseteq AllContents
  /\ pc \in ReadingData => read \subseteq Contents[pkg]
  /\ raced \subseteq Packages
  /\ made \subseteq Packages
  /\ edited \in BOOLEAN

Init ==
  /\ data \in [Packages -> AllContents]
  /\ \A p \in Packages : data[p] \in Contents[p]
  /\ dest = [p \in Packages |-> Unfinished]
  /\ stamp = [p \in Packages |-> NoStamp]
  /\ versioned = {}
  /\ callers = <<>>
  /\ pkg = NoPackage
  /\ pc = "idle"
  /\ todo = {}
  /\ hashed = NoStamp
  /\ read = {}
  /\ raced = {}
  /\ made = {}
  /\ edited = FALSE

-----------------------------------------------------------------------------
(* The developer, outside the scripts.                                     *)

Edit(p, c) ==
  /\ EditDuringMake \/ pc = "idle"
  /\ c # data[p]
  /\ data' = [data EXCEPT ![p] = c]
  /\ read' = IF p = pkg /\ pc \in ReadingData THEN read \cup {c} ELSE read
  /\ made' = {}
  /\ edited' = TRUE
  /\ UNCHANGED <<dest, stamp, versioned, callers, pkg, pc, todo, hashed, raced>>

\* Mutant: make.sh goes straight to its own package.
StartAlone(p) ==
  /\ pc = "idle"
  /\ pc' = "deps"
  /\ pkg' = p
  /\ todo' = {}
  /\ edited' = FALSE
  /\ UNCHANGED <<disk, callers, hashed, read, raced, made>>

\* ./make.sh p
Start(p) ==
  /\ pc = "idle"
  /\ pc' = "deps"
  /\ pkg' = p
  /\ todo' = Deps[p]
  /\ edited' = FALSE
  /\ UNCHANGED <<disk, callers, hashed, read, raced, made>>

\* ./remake.sh p: rm -f stat/ARCH/p/data-md5; ./make.sh p
StartRemake(p) ==
  /\ pc = "idle"
  /\ pc' = "deps"
  /\ pkg' = p
  /\ todo' = Deps[p]
  /\ stamp' = [stamp EXCEPT ![p] = NoStamp]
  /\ made' = {}
  /\ edited' = FALSE
  /\ UNCHANGED <<data, dest, versioned, callers, hashed, read, raced>>

-----------------------------------------------------------------------------
(* The running make.sh.                                                    *)

\* Mutant: the loop never advances past a dependency it has made.
VisitForever(q) ==
  /\ pc = "deps"
  /\ q \in todo
  /\ callers' = <<[pkg |-> pkg, todo |-> todo]>> \o callers
  /\ pkg' = q
  /\ todo' = Deps[q]
  /\ UNCHANGED <<disk, pc, hashed, read, history>>

\* The loop over PKG_DEPS runs make.sh on the next dependency and waits for it.
\* The loop follows the order of a glob; here it takes any order.
Visit(q) ==
  /\ pc = "deps"
  /\ q \in todo
  /\ callers' = <<[pkg |-> pkg, todo |-> todo \ {q}]>> \o callers
  /\ pkg' = q
  /\ todo' = Deps[q]
  /\ UNCHANGED <<disk, pc, hashed, read, history>>

\* exit 0: the waiting make.sh goes on with its loop.
Return ==
  /\ hashed' = NoStamp
  /\ read' = {}
  /\ made' = IF edited THEN made ELSE made \cup {pkg}
  /\ IF callers = <<>>
     THEN /\ pc' = "idle"
          /\ pkg' = NoPackage
          /\ todo' = {}
          /\ callers' = <<>>
     ELSE /\ pc' = "deps"
          /\ pkg' = Head(callers).pkg
          /\ todo' = Head(callers).todo
          /\ callers' = Tail(callers)

\* Mutant: the dependencies' trees are left out of the hash.
SkipOnSameData ==
  /\ pc = "deps"
  /\ todo = {}
  /\ stamp[pkg] # NoStamp
  /\ stamp[pkg].data = data[pkg]
  /\ Return
  /\ UNCHANGED <<disk, raced, edited>>

\* The hash equals the stamp: "skipping re-build".
Skip ==
  /\ pc = "deps"
  /\ todo = {}
  /\ stamp[pkg] = Inputs(pkg)
  /\ Return
  /\ UNCHANGED <<disk, raced, edited>>

\* Mutant: no early exit, every make.sh rebuilds.
HashAlways ==
  /\ pc = "deps"
  /\ todo = {}
  /\ hashed' = Inputs(pkg)
  /\ read' = {data[pkg]}
  /\ pc' = "unstamp"
  /\ UNCHANGED <<disk, callers, pkg, todo, history>>

\* The hash differs, or there is no stamp.
Hash ==
  /\ pc = "deps"
  /\ todo = {}
  /\ stamp[pkg] # Inputs(pkg)
  /\ hashed' = Inputs(pkg)
  /\ read' = {data[pkg]}
  /\ pc' = "unstamp"
  /\ UNCHANGED <<disk, callers, pkg, todo, history>>

\* Mutant: the old stamp stays while the tree is rebuilt.
UnstampNothing ==
  /\ pc = "unstamp"
  /\ pc' = "wipe"
  /\ UNCHANGED <<disk, callers, pkg, todo, hashed, read, history>>

Unstamp ==
  /\ pc = "unstamp"
  /\ stamp' = [stamp EXCEPT ![pkg] = NoStamp]
  /\ pc' = "wipe"
  /\ UNCHANGED <<data, dest, versioned, callers, pkg, todo, hashed, read, history>>

Wipe ==
  /\ pc = "wipe"
  /\ dest' = [dest EXCEPT ![pkg] = Unfinished]
  /\ pc' = "build"
  /\ UNCHANGED <<data, stamp, versioned, callers, pkg, todo, hashed, read, history>>

\* exec.sh runs data/p/make.sh on the data and the dependencies' trees, and the
\* clean-up, strip, elc and arid passes finish the tree.  The build may have read
\* any content its data had while it ran.
Build ==
  /\ pc = "build"
  /\ \E c \in read :
       \E o \in Outputs(pkg, c, [q \in Deps[pkg] |-> dest[q]]) :
         dest' = [dest EXCEPT ![pkg] = o]
  /\ raced' = IF read = {hashed.data} THEN raced \ {pkg} ELSE raced \cup {pkg}
  /\ pc' = "record"
  /\ UNCHANGED <<data, stamp, versioned, callers, pkg, todo, hashed, read, made, edited>>

RecordVersion ==
  /\ pc = "record"
  /\ versioned' = versioned \cup {pkg}
  /\ pc' = "stamp"
  /\ UNCHANGED <<data, dest, stamp, callers, pkg, todo, hashed, read, history>>

Stamp ==
  /\ pc = "stamp"
  /\ stamp' = [stamp EXCEPT ![pkg] = hashed]
  /\ Return
  /\ UNCHANGED <<data, dest, versioned, raced, edited>>

\* A step fails, or the user interrupts: the whole chain of processes ends.
Abort ==
  /\ pc # "idle"
  /\ pc' = "idle"
  /\ pkg' = NoPackage
  /\ todo' = {}
  /\ callers' = <<>>
  /\ hashed' = NoStamp
  /\ read' = {}
  /\ UNCHANGED <<disk, history>>

Running ==
  \/ \E q \in Packages : Visit(q)
  \/ Skip
  \/ Hash
  \/ Unstamp
  \/ Wipe
  \/ Build
  \/ RecordVersion
  \/ Stamp

Next ==
  \/ \E p \in Packages : \E c \in Contents[p] : Edit(p, c)
  \/ \E p \in Packages : Start(p) \/ StartRemake(p)
  \/ Running
  \/ Abort

Spec == Init /\ [][Next]_vars

\* The shell runs the next command of a script that has one; nothing obliges
\* anyone to edit, to start a build or to interrupt it.
FairSpec == Spec /\ WF_vars(Running)

-----------------------------------------------------------------------------
(* Properties.                                                             *)

\* A data-md5 stamp is never found over a tree that is missing, half wiped or
\* half built, nor without a data-ver, whenever the build was interrupted or
\* failed; and the tree it stands for is one that building from exactly the
\* hashed inputs yields, unless the data was edited while it was being built.
StampSound ==
  \A p \in Packages : stamp[p] # NoStamp =>
    /\ dest[p] \in Outs
    /\ p \in versioned
    /\ p \notin raced => dest[p] \in Outputs(p, stamp[p].data, stamp[p].deps)

\* An incremental build gives what a build from scratch gives: a package made
\* successfully, with nothing edited since, has only such packages below it, its
\* stamp is the hash of what is on the disk now, and so its tree is one its present
\* data and its dependencies' present trees yield.
IncrementalIsClean ==
  \A p \in made :
    /\ Deps[p] \subseteq made
    /\ stamp[p] = Inputs(p)
    /\ p \notin raced => dest[p] \in Outputs(p, data[p], [q \in Deps[p] |-> dest[q]])

\* Making a package again, alone or for the sake of others, does not touch the
\* tree or the stamp of a package that is up to date.
MadeStaysMade ==
  [][\A p \in made \cap made' : dest'[p] = dest[p] /\ stamp'[p] = stamp[p]]_vars

\* Every make.sh ends, whatever is edited while it runs.
EventuallyIdle == (pc # "idle") ~> (pc = "idle")
=============================================================================
