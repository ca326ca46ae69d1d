------------------------ MODULE PkgPackageImplements ------------------------
(***************************************************************************)
(* PkgPackage implements Releases, whoever runs it and wherever it fails:  *)
(* the shelf holds the .deb files that dpkg-deb has finished.              *)
(***************************************************************************)
EXTENDS PkgPackage

Finished == {n \in Names : Complete(debs[n])}
Shelf    == [n \in Finished |-> debs[n]]
Sources  == [content |-> content, version |-> version, scripts |-> scripts]

Promised == INSTANCE Releases WITH package <- Sources, released <- Shelf, revision <- destVer

\* Every step of package.sh, rehash.sh or make.sh is, for one who looks at finished .deb
\* files and at stat/dest-ver only, no change, or the next release of a finished tree, or
\* its record, or the loss of the record: no revision is recorded that was not released,
\* none is released twice, not even after the record was lost, and nothing on the shelf is
\* replaced, by whatever failure or interrupt.
ImplementsReleases == Promised!Spec
=============================================================================
