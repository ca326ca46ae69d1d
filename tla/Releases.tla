------------------------------ MODULE Releases ------------------------------
(***************************************************************************)
(* What telesphoreo/package.sh promises of debs/, with no process in it: a *)
(* shelf to which releases are only ever added, one at a time, each of a   *)
(* tree that is finished.  Revisions count up: a release is the next one,  *)
(* and it is on the shelf before its revision is recorded.  The record can *)
(* be lost while it is written; then they count from the beginning.        *)
(***************************************************************************)
EXTENDS Naturals

CONSTANTS Contents, Versions, Scripts, None

VARIABLES
  package,   \* as its data/ has it: content, version and scripts
  tree,      \* the content that was built last; None if it is unfinished
  released,  \* a function on the names, a version and a revision, of the releases
  revision   \* the last one recorded

vars == <<package, tree, released, revision>>

Init ==
  /\ package \in [content : Contents, version : Versions, scripts : {{}}]
  /\ tree = None
  /\ released = [n \in {} |-> None]
  /\ revision = 0

Edit ==
  /\ UNCHANGED <<tree, released, revision>>
  /\ package' \in [content : Contents, version : Versions, scripts : SUBSET Scripts]

Build ==
  /\ tree' = package.content
  /\ UNCHANGED <<package, released, revision>>

Spoil ==
  /\ tree' = None
  /\ UNCHANGED <<package, released, revision>>

\* With whatever owners its files have, and whatever scripts.
Release(v) ==
  LET name == <<v, revision + 1>>
  IN  /\ tree # None
      /\ name \notin DOMAIN released
      /\ DOMAIN released' = DOMAIN released \cup {name}
      /\ released'[name] \in [tree : {tree}, owners : {"as built", "lost"},
                              version : {v}, scripts : SUBSET Scripts]
      /\ \A n \in DOMAIN released : released'[n] = released[n]
      /\ UNCHANGED <<package, tree, revision>>

Record ==
  /\ \E v \in Versions : <<v, revision + 1>> \in DOMAIN released
  /\ revision' = revision + 1
  /\ UNCHANGED <<package, tree, released>>

\* The record is being written, and its file is empty.
Forget ==
  /\ \E v \in Versions : <<v, revision + 1>> \in DOMAIN released
  /\ revision' = 0
  /\ UNCHANGED <<package, tree, released>>

Next ==
  \/ Edit \/ Build \/ Spoil
  \/ \E v \in Versions : Release(v)
  \/ Record \/ Forget

Spec == Init /\ [][Next]_vars
=============================================================================
