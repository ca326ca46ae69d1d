------------------------- MODULE PkgMakeImplements -------------------------
(***************************************************************************)
(* PkgMake implements TreeCache as long as data/ is not edited while a     *)
(* make.sh runs: an entry of the cache is a stamped tree.                  *)
(***************************************************************************)
EXTENDS PkgMake

Stamped == {p \in Packages : stamp[p] # NoStamp}
Cached  == [p \in Stamped |-> [tree |-> dest[p], from |-> stamp[p]]]

Cache == INSTANCE TreeCache WITH cache <- Cached

\* Every step of the scripts is, for one who reads stamped trees only, the drop or
\* the filling of one entry: a tree is never stamped with inputs other than those on
\* the disk at that moment, nor over a dependency that is itself not stamped.
ImplementsCache == Cache!Spec
=============================================================================
