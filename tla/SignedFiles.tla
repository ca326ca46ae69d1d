---------------------------- MODULE SignedFiles ----------------------------
(***************************************************************************)
(* What telesphoreo/util/ldid.cpp promises its users, with no process and  *)
(* no temporary file in it: every file is always there, whole.  A file is  *)
(* built, changed where it is, or exchanged at once for its signed form,   *)
(* and a run that ends with status 0 leaves every file signed.             *)
(***************************************************************************)
CONSTANTS Files, Versions, Modes, Alters, Statuses, None

VARIABLES
  file,         \* file[f]: its code, whether it has a signature, and the code this is of
  mode, alter,  \* the options of the run
  status        \* of the last run, None if it has not ended by itself

vars == <<file, mode, alter, status>>

Built(v) == [code |-> [version |-> v, linked |-> FALSE, altered |-> FALSE],
             signed |-> FALSE, covers |-> None]

Init ==
  /\ file \in [Files -> {Built(v) : v \in Versions}]
  /\ mode = None /\ alter = FALSE /\ status = None

Build(f, v) ==
  /\ file' = [file EXCEPT ![f] = Built(v)]
  /\ status' = None
  /\ UNCHANGED <<mode, alter>>

Run(m, a) ==
  /\ mode' = m /\ alter' = a
  /\ status' = None
  /\ UNCHANGED file

\* The code as the options of this run ask for it.
Altered(code) == [code EXCEPT !.altered = @ \/ alter]

Change(f, b) ==
  /\ status = None
  /\ file' = [file EXCEPT ![f] = b]
  /\ UNCHANGED <<mode, alter, status>>

Link(f) ==
  /\ mode = "-S"
  /\ Change(f, [file[f] EXCEPT !.code.linked = TRUE])

Alter(f) ==
  /\ mode # "-S"
  /\ Change(f, [file[f] EXCEPT !.code = Altered(@)])

Hash(f) ==
  /\ mode = "-s" /\ file[f].signed
  /\ Change(f, [file[f] EXCEPT !.covers = file[f].code])

\* The exchange: a signed form of exactly the code that was there.
Sign(f) ==
  /\ mode = "-S" /\ file[f].code.linked
  /\ Change(f, [code |-> Altered(file[f].code), signed |-> TRUE, covers |-> Altered(file[f].code)])

End(s) ==
  /\ status = None
  /\ s = 0 /\ mode \in {"-S", "-s"} => \A f \in Files : file[f].covers = file[f].code
  /\ status' = s
  /\ UNCHANGED <<file, mode, alter>>

Next ==
  \/ \E f \in Files : \/ \E v \in Versions : Build(f, v)
                      \/ Link(f) \/ Alter(f) \/ Hash(f) \/ Sign(f)
  \/ \E m \in Modes, a \in Alters : Run(m, a)
  \/ \E s \in Statuses : End(s)

Spec == Init /\ [][Next]_vars
=============================================================================
