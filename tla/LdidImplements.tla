--------------------------- MODULE LdidImplements ---------------------------
(***************************************************************************)
(* ldid implements SignedFiles as long as no flush fails unnoticed: a file *)
(* is what is in its place, or else the copy that was made to be put there.*)
(***************************************************************************)
EXTENDS LdidSign

Best(f) == IF path[f] # None THEN path[f] ELSE cp[f]

Form(b) == IF b # None /\ b.whole
           THEN [code |-> b.code, signed |-> b.room, covers |-> b.covers]
           ELSE None

Kept == [f \in Files |-> Form(Best(f))]

Promised == INSTANCE SignedFiles WITH Statuses <- 0 .. StatusRange - 1, file <- Kept

\* Every step of ldid is, for one who looks for a file in its place and then beside it,
\* no change at all, a change that its options ask for, or the exchange of one file for
\* its signed form; nothing else ever happens to a file, wherever ldid fails or is killed.
ImplementsStore == Promised!Spec
=============================================================================
