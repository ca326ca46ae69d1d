---------------------------- MODULE MCPkgPackage ----------------------------
(* PkgPackage for TLC.  Contents and versions are only compared for        *)
(* equality, so they may be permuted.                                      *)
EXTENDS PkgPackageImplements, TLC

Alike == Permutations(Contents) \cup Permutations(Versions)

\* Both kinds of runs with edits at any moment, up to the first revision, and between runs,
\* up to the second; each alone with edits at any moment, up to the second; fakeroot alone,
\* undisturbed, for longer; and rehash.sh between runs by root, with and without scripts.
Interrupted(sessions, added, during, revisions) ==
  [sessions |-> sessions, scripts |-> added, editDuringRun |-> during, crashes |-> TRUE,
   revisions |-> revisions]

MCSettings ==
  {Interrupted({"root", "fakeroot"}, {}, TRUE, 1), Interrupted({"root", "fakeroot"}, {}, FALSE, 2),
   Interrupted({"root"}, {}, TRUE, 2), Interrupted({"fakeroot"}, {}, TRUE, 2),
   Interrupted({"root", "rehash"}, Scripts, FALSE, 1), Interrupted({"root", "rehash"}, {}, FALSE, 2),
   [sessions |-> {"fakeroot"}, scripts |-> Scripts, editDuringRun |-> FALSE, crashes |-> FALSE,
    revisions |-> 3]}
=============================================================================
