----------------------------- MODULE MCPkgMake -----------------------------
(* Instances of PkgMake for TLC: three packages, one of them needed twice.  *)
EXTENDS PkgMakeImplements, Naturals, FiniteSetsExt

CONSTANTS app, lib, base

\* app needs lib and base, lib needs base: one make.sh of app visits base twice,
\* once before and once after lib is built if the loop takes that order.
MCPackages == {app, lib, base}
MCDeps     == [p \in MCPackages |-> CASE p = app -> {lib, base}
                                      [] p = lib -> {base}
                                      [] OTHER -> {}]

\* app has nothing above it: editing it would only multiply the states.
MCContents == [p \in MCPackages |-> IF p = app THEN {0} ELSE 0..1]
MCOuts     == 0..2

\* A tree depends on the data and on the trees below it.  Both contents of lib
\* build to the same tree (a changed comment), and what is built over an unfinished
\* dependency is a broken tree, 2.
MCOutputs(p, c, d) ==
  {IF \E q \in DOMAIN d : d[q] = Unfinished THEN 2
   ELSE IF p = lib THEN d[base]
   ELSE (c + SumSet({d[q] : q \in DOMAIN d})) % 2}
=============================================================================
