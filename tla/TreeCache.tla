----------------------------- MODULE TreeCache -----------------------------
(***************************************************************************)
(* What telesphoreo/make.sh promises its users, with no process in it: the *)
(* dest/ directory is a cache of finished trees.  An entry is dropped, or  *)
(* it is filled at once, from the data and the cached trees of all the     *)
(* dependencies as they are at that moment.  What an entry holds was built *)
(* from exactly the inputs it is recorded under.                           *)
(***************************************************************************)
CONSTANTS Packages, Deps, Contents, Outputs(_, _, _)

VARIABLES
  data,   \* data[p]: what data/p holds
  cache   \* a function on the cached packages: a tree and what it was built from

vars == <<data, cache>>

Init ==
  /\ DOMAIN data = Packages
  /\ \A p \in Packages : data[p] \in Contents[p]
  /\ cache = [p \in {} |-> {}]

Edit(p, c) ==
  /\ data' = [data EXCEPT ![p] = c]
  /\ UNCHANGED cache

Drop(p) ==
  /\ cache' = [q \in DOMAIN cache \ {p} |-> cache[q]]
  /\ UNCHANGED data

Fill(p) ==
  /\ Deps[p] \subseteq DOMAIN cache
  /\ LET trees == [q \in Deps[p] |-> cache[q].tree]
     IN \E t \in Outputs(p, data[p], trees) :
          cache' = [q \in DOMAIN cache \cup {p} |->
                      IF q = p
                      THEN [tree |-> t, from |-> [data |-> data[p], deps |-> trees]]
                      ELSE cache[q]]
  /\ UNCHANGED data

Next ==
  \E p \in Packages :
    \/ \E c \in Contents[p] : Edit(p, c)
    \/ Drop(p)
    \/ Fill(p)

Spec == Init /\ [][Next]_vars
=============================================================================
