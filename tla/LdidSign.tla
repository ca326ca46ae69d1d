------------------------------ MODULE LdidSign ------------------------------
(***************************************************************************)
(* ldid as a process on the disk: the loop over the files it is given.     *)
(*                                                                         *)
(* "ldid -S f ..." sets MH_DYLDLINK in f where it is, forks and lets       *)
(* codesign_allocate write .f.cs, alters and signs .f.cs through a shared  *)
(* mapping, copies it to .f.cp, and renames .f.cp over f.  "ldid -s" and   *)
(* the other options work in f itself.                                     *)
(*                                                                         *)
(* Whatever fails throws a string, which the loop catches: it counts the   *)
(* failure and goes on with the next file.  A child that cannot execute    *)
(* codesign_allocate throws as well, so it goes on with the loop itself,   *)
(* forking children of its own, and exits with its own count of failures.  *)
(*                                                                         *)
(* LdidLayout has the contents of the signature; here it is the code that  *)
(* its hashes were computed from.  Files are thin: of a fat one -S and -s  *)
(* count offsets of the slice from the start of the file (LdidMachO has    *)
(* that of -s), and nothing is said of it here.                            *)
(***************************************************************************)
EXTENDS Naturals, Sequences

CONSTANTS
  N,            \* the files are 1 .. N, in the order of the command line
  Versions,     \* contents that a build puts in a file
  MachOs,       \* those that Framework's constructor takes for Mach-O
  Signable,     \* those that are for ARM as well
  Modes,        \* what ldid is run with: a subset of {"-S", "-s", "none"}
  Alters,       \* may -T or -R be among the options? a subset of BOOLEAN
  StatusRange,  \* an exit status is modulo 256
  FlushFails,   \* may the flush at fclose fail, unnoticed?
  MaxRebuilds,  \* bound: how often files are rebuilt
  MaxRuns,      \* bound: how often ldid is run
  None          \* no file, no status, no signature

ASSUME SignAssumption ==
  /\ N \in Nat \ {0}
  /\ Signable \subseteq MachOs /\ MachOs \subseteq Versions /\ None \notin Versions
  /\ Modes \subseteq {"-S", "-s", "none"} /\ Alters \subseteq BOOLEAN
  /\ FlushFails \in BOOLEAN
  /\ MaxRebuilds \in Nat /\ MaxRuns \in Nat

\* main returns filee: with 256 failures its status would be that of success.
ASSUME FewFiles == StatusRange \in Nat /\ N < StatusRange

Files == 1 .. N

VARIABLES
  path,     \* path[f]: the file itself
  cs, cp,   \* cs[f], cp[f]: .f.cs and .f.cp
  mode, alter,  \* the options of this run
  procs,    \* the processes of this run, each waiting for the next; the last one runs
  status,   \* the exit status of the last run, None when it was killed
  \* History:
  latest,   \* latest[f]: the version last built
  rebuilds, runs

signVars == <<path, cs, cp, mode, alter, procs, status, latest, rebuilds, runs>>

\* The code: what a build made of it, and what ldid changed in it.
Codes == [version : Versions, linked : BOOLEAN, altered : BOOLEAN]

\* A file: its code, whether it has an LC_CODE_SIGNATURE, the code that its hashes are
\* of, and whether it is all there.
Binaries == [code : Codes, room : BOOLEAN, covers : Codes \cup {None}, whole : BOOLEAN]

ASSUME SentinelAssumption == None \notin Binaries \cup 0 .. StatusRange - 1

Steps == {"open", "fork", "wait", "exec", "allocate", "map", "sign", "copy", "drop", "own",
          "unlink", "rename"}

SignTypeOK ==
  /\ path \in [Files -> Binaries \cup {None}]
  /\ cs \in [Files -> Binaries \cup {None}]
  /\ cp \in [Files -> Binaries \cup {None}]
  /\ mode \in Modes \cup {None} /\ alter \in BOOLEAN
  /\ procs \in Seq([at : 1 .. N + 1, failed : 0 .. N, step : Steps])
  /\ status \in 0 .. StatusRange - 1 \cup {None}
  /\ latest \in [Files -> Versions]
  /\ rebuilds \in 0 .. MaxRebuilds /\ runs \in 0 .. MaxRuns

Fresh(v) == [code |-> [version |-> v, linked |-> FALSE, altered |-> FALSE],
             room |-> FALSE, covers |-> None, whole |-> TRUE]

SignInit ==
  /\ latest \in [Files -> Versions]
  /\ path = [f \in Files |-> Fresh(latest[f])]
  /\ cs = [f \in Files |-> None] /\ cp = [f \in Files |-> None]
  /\ mode = None /\ alter = FALSE /\ procs = <<>> /\ status = None
  /\ rebuilds = 0 /\ runs = 0

-----------------------------------------------------------------------------
(* Between the runs.                                                       *)

Rebuild(f, v) ==
  /\ procs = <<>>
  /\ rebuilds < MaxRebuilds
  /\ path' = [path EXCEPT ![f] = Fresh(v)]
  /\ latest' = [latest EXCEPT ![f] = v]
  /\ rebuilds' = rebuilds + 1
  /\ status' = None
  /\ UNCHANGED <<cs, cp, mode, alter, procs, runs>>

Start(m, a) ==
  /\ procs = <<>>
  /\ runs < MaxRuns
  /\ runs' = runs + 1
  /\ mode' = m /\ alter' = a
  /\ procs' = <<[at |-> 1, failed |-> 0, step |-> "open"]>>
  /\ status' = None
  /\ UNCHANGED <<path, cs, cp, latest, rebuilds>>

-----------------------------------------------------------------------------
(* The running process.                                                    *)

Me == procs[Len(procs)]
Running(s) == procs # <<>> /\ Me.at <= N /\ Me.step = s
Become(p) == procs' = [procs EXCEPT ![Len(procs)] = p]
Goto(s) == Become([Me EXCEPT !.step = s])
disk == <<path, cs, cp>>
rest == <<mode, alter, status, latest, rebuilds, runs>>

NextFile == Become([Me EXCEPT !.at = @ + 1, !.step = "open"])

\* Mutant: a failure is not counted.
ThrowUncounted == Become([Me EXCEPT !.at = @ + 1, !.step = "open"])

\* The catch at the end of the loop.
Throw == Become([Me EXCEPT !.at = @ + 1, !.failed = @ + 1, !.step = "open"])

\* A file that the constructor takes, which looks no further than the header.
Maps(b) == b # None /\ b.code.version \in MachOs

\* Mutant: a file that is not there is waited for.
RetryOpen ==
  /\ Running("open") /\ mode = "-S"
  /\ ~Maps(path[Me.at])
  /\ UNCHANGED <<disk, procs, rest>>

\* open, fstat or mmap may fail of any file.
OpenFails ==
  /\ Running("open") /\ mode = "-S"
  /\ Throw
  /\ UNCHANGED <<disk, rest>>

\* -S: the flag is set in the file itself, before it is known to be for ARM, and to be as
\* long as its load commands say.
SetFlag ==
  /\ Running("open") /\ mode = "-S"
  /\ Maps(path[Me.at])
  /\ path' = [path EXCEPT ![Me.at].code.linked = TRUE]
  /\ \/ path[Me.at].code.version \in Signable /\ Goto("fork")
     \/ (path[Me.at].code.version \notin Signable \/ ~path[Me.at].whole) /\ Throw
  /\ UNCHANGED <<cs, cp, rest>>

\* The other options have no copy to make.
OpenInPlace ==
  /\ Running("open") /\ mode # "-S"
  /\ Goto("map")
  /\ UNCHANGED <<disk, rest>>

\* The child is a copy of its parent, count of failures included.
Fork ==
  /\ Running("fork")
  /\ \/ procs' = Append([procs EXCEPT ![Len(procs)] = [Me EXCEPT !.step = "wait"]],
                        [Me EXCEPT !.step = "exec"])
     \/ Throw
  /\ UNCHANGED <<disk, rest>>

Exec ==
  /\ Running("exec")
  /\ Goto("allocate") \/ Throw
  /\ UNCHANGED <<disk, rest>>

\* Mutant: the parent does not look at how its child exited.
ReturnAnyStatus(s) ==
  LET parent == procs[Len(procs) - 1]
  IN  procs' = Append(SubSeq(procs, 1, Len(procs) - 2), [parent EXCEPT !.step = "map"])

\* The child exits with s, or is killed by a signal (s = None): its parent goes on, or throws.
Return(s) ==
  LET parent == procs[Len(procs) - 1]
  IN  procs' = Append(SubSeq(procs, 1, Len(procs) - 2),
                 IF s = 0 THEN [parent EXCEPT !.step = "map"]
                 ELSE [parent EXCEPT !.at = @ + 1, !.failed = @ + 1, !.step = "open"])

\* codesign_allocate: .f.cs with room for a signature if the file is one for ARM and whole,
\* or a failure, which may leave it unfinished.
CodesignAllocate ==
  /\ Running("allocate")
  /\ \/ /\ path[Me.at] # None /\ path[Me.at].code.version \in Signable /\ path[Me.at].whole
        /\ cs' = [cs EXCEPT ![Me.at] = [path[Me.at] EXCEPT !.room = TRUE, !.covers = None]]
        /\ Return(0)
     \/ /\ \/ UNCHANGED cs
           \/ path[Me.at] # None /\ cs' = [cs EXCEPT ![Me.at] = [path[Me.at] EXCEPT !.whole = FALSE]]
        /\ Return(1)
  /\ UNCHANGED <<path, cp, rest>>

\* -T and -R change the code behind its signature, if it has one.
Alter(b) == [b EXCEPT !.code.altered = @ \/ alter]

\* Mutant: the copy is mapped privately, and what -T and -R change in it is not written.
AlterUnshared ==
  /\ Running("map") /\ mode = "-S"
  /\ (Maps(cs[Me.at]) /\ Goto("sign")) \/ Throw
  /\ UNCHANGED <<disk, rest>>

\* -S: the loop over the load commands, in the copy, if it can be mapped.
AlterCopy ==
  /\ Running("map") /\ mode = "-S"
  /\ \/ /\ Maps(cs[Me.at])
        /\ cs' = [cs EXCEPT ![Me.at] = Alter(@)]
        /\ Goto("sign")
     \/ Throw /\ UNCHANGED cs
  /\ UNCHANGED <<path, cp, rest>>

\* Without -S it is in the file itself; -s goes on to hash its pages anew, and -e may find
\* no signature.
AlterInPlace ==
  /\ Running("map") /\ mode # "-S"
  /\ \/ /\ Maps(path[Me.at])
        /\ path' = [path EXCEPT ![Me.at] = Alter(@)]
        /\ IF mode = "-s" THEN Goto("sign") ELSE NextFile \/ Throw
     \/ Throw /\ UNCHANGED path
  /\ UNCHANGED <<cs, cp, rest>>

Rehash ==
  /\ Running("sign") /\ mode = "-s"
  /\ IF path[Me.at].room
     THEN /\ path' = [path EXCEPT ![Me.at].covers = path[Me.at].code]
          /\ NextFile
     ELSE /\ Throw
          /\ UNCHANGED path
  /\ UNCHANGED <<cs, cp, rest>>

Sign ==
  /\ Running("sign") /\ mode = "-S"
  /\ IF cs[Me.at].room
     THEN /\ cs' = [cs EXCEPT ![Me.at].covers = cs[Me.at].code]
          /\ Goto("copy")
     ELSE /\ Throw
          /\ UNCHANGED cs
  /\ UNCHANGED <<path, cp, rest>>

\* Mutant: what fwrite returns is not looked at.
CopyUnchecked ==
  /\ Running("copy")
  /\ \E whole \in BOOLEAN : cp' = [cp EXCEPT ![Me.at] = [cs[Me.at] EXCEPT !.whole = whole]]
  /\ Goto("drop")
  /\ UNCHANGED <<path, cs, rest>>

\* fwrite notices what it cannot write itself; what stays in its buffer is written by
\* fclose, whose result is ignored.
Copy ==
  /\ Running("copy")
  /\ \/ /\ \E whole \in {TRUE} \cup {~FlushFails} :
             cp' = [cp EXCEPT ![Me.at] = [cs[Me.at] EXCEPT !.whole = whole]]
        /\ Goto("drop")
     \/ /\ cp' = [cp EXCEPT ![Me.at] = [cs[Me.at] EXCEPT !.whole = FALSE]]
        /\ Throw
  /\ UNCHANGED <<path, cs, rest>>

\* The file that -S has mapped is .f.cs, once that is made.
Mapped == IF mode = "-S" /\ Me.step # "open" THEN cs[Me.at] ELSE path[Me.at]

\* The process dies: fopen(.f.cp) failed, and fwrite gets a null pointer; or the file ends
\* before what its load commands promise.
Crash ==
  /\ Running(Me.step)
  /\ \/ Me.step = "copy"
     \/ Me.step \in {"open", "map", "sign"} /\ Mapped # None /\ ~Mapped.whole
  /\ status' = None
  /\ IF Len(procs) = 1 THEN procs' = <<>> ELSE Return(None)
  /\ UNCHANGED <<disk, mode, alter, latest, rebuilds, runs>>

DropTemp ==
  /\ Running("drop")
  /\ \/ cs' = [cs EXCEPT ![Me.at] = None] /\ Goto("own")
     \/ Throw /\ UNCHANGED cs
  /\ UNCHANGED <<path, cp, rest>>

\* stat, chown, chmod.
Own ==
  /\ Running("own")
  /\ Goto("unlink") \/ Throw
  /\ UNCHANGED <<disk, rest>>

Unlink ==
  /\ Running("unlink")
  /\ \/ path' = [path EXCEPT ![Me.at] = None] /\ Goto("rename")
     \/ Throw /\ UNCHANGED path
  /\ UNCHANGED <<cs, cp, rest>>

Rename ==
  /\ Running("rename")
  /\ \/ /\ path' = [path EXCEPT ![Me.at] = cp[Me.at]]
        /\ cp' = [cp EXCEPT ![Me.at] = None]
        /\ NextFile
     \/ Throw /\ UNCHANGED <<path, cp>>
  /\ UNCHANGED <<cs, rest>>

\* return filee: to the shell, or to the parent that forked this process.
Exit ==
  /\ procs # <<>> /\ Me.at > N
  /\ IF Len(procs) = 1
     THEN /\ procs' = <<>>
          /\ status' = Me.failed % StatusRange
     ELSE /\ Return(Me.failed % StatusRange)
          /\ UNCHANGED status
  /\ UNCHANGED <<disk, mode, alter, latest, rebuilds, runs>>

\* An interrupt ends the parent and all its children.
Kill ==
  /\ procs # <<>>
  /\ procs' = <<>>
  /\ UNCHANGED <<disk, rest>>

SignStep ==
  \/ OpenFails \/ SetFlag \/ OpenInPlace
  \/ Fork \/ Exec \/ CodesignAllocate
  \/ AlterCopy \/ AlterInPlace \/ Rehash \/ Sign
  \/ Copy \/ Crash \/ DropTemp \/ Own \/ Unlink \/ Rename
  \/ Exit

SignNext ==
  \/ \E f \in Files, v \in Versions : Rebuild(f, v)
  \/ \E m \in Modes, a \in Alters : Start(m, a)
  \/ SignStep
  \/ Kill

SignSpec == SignInit /\ [][SignNext]_signVars

\* The deepest process runs; those above it sleep in waitpid.
SignFairSpec == SignSpec /\ WF_signVars(SignStep)

-----------------------------------------------------------------------------
(* Properties.                                                             *)

\* An old build never comes back: a .f.cs that an earlier run left behind is never
\* renamed over a newer f.
NeverStale == \A f \in Files : path[f] # None => path[f].code.version = latest[f]

\* At no moment, wherever ldid fails or is killed, is the last build of a file lost: it is
\* in its place, or signed and whole beside it.
NothingLost ==
  \A f \in Files :
    \/ path[f] # None /\ path[f].whole
    \/ cp[f] # None /\ cp[f].whole /\ cp[f].code.version = latest[f] /\ cp[f].covers = cp[f].code

\* Status 0 of ldid -S and of ldid -s means that the signature of every file is of the
\* code the file has now, altered by the same run or not.
SuccessMeansSigned ==
  procs = <<>> /\ status = 0 /\ mode \in {"-S", "-s"} =>
    \A f \in Files : path[f] # None /\ path[f].covers = path[f].code

\* ldid.cpp:791 _assert(writ == size): the file that is renamed over the program is all of it.
CopyIsWhole == \A f \in Files : path[f] # None => path[f].whole

\* However often a child fails to run codesign_allocate and goes on in its parent's place,
\* every ldid comes to its end.
EveryRunEnds == (procs # <<>>) ~> (procs = <<>>)
=============================================================================
