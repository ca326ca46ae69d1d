------------------------------- MODULE Emulated -------------------------------
(***************************************************************************)
(* libstuff/emulated.c of cctools: two of the functions that cctools       *)
(* expects of Darwin's libc, for hosts that lack them.                     *)
(*                                                                         *)
(* qsort_r keeps its comparator and the comparator's argument in two       *)
(* globals and calls qsort.  A comparator may sort, and threads may sort   *)
(* at the same time.  strlcpy goes through its strings one character at a  *)
(* time.                                                                   *)
(***************************************************************************)
EXTENDS Naturals, Sequences

CONSTANTS
  Threads,
  Callers,     \* each has a comparator and a thunk of its own
  Compares,    \* how often a qsort calls its comparator
  MaxSorts,    \* bound: sorts begun
  Strings,     \* lengths of the strings that are copied
  MaxSize,     \* bound: of siz
  Null

ASSUME EmulatedAssumption ==
  /\ Compares \in Nat /\ MaxSorts \in Nat
  /\ Strings \subseteq Nat /\ MaxSize \in Nat
  /\ Null \notin Callers

VARIABLES
  _qsort_thunk, _qsort_saved_func,
  stack,    \* stack[t]: the sorts of thread t, the innermost first
  sorts,    \* how many were begun: each has its number
  shared,   \* history: the sorts that began, or were not over, while another one began
  compared, \* the last comparison: whose, and the comparator and thunk it was made with
  copy      \* a strlcpy: src and siz, its n, how far d and s are, what dst holds
sorting      == <<_qsort_thunk, _qsort_saved_func, stack, sorts, shared, compared>>
emulatedVars == <<sorting, copy>>

NoCopy == [pc |-> "none"]

EmulatedInit ==
  /\ _qsort_thunk = Null /\ _qsort_saved_func = Null
  /\ stack = [t \in Threads |-> <<>>] /\ sorts = 0 /\ shared = {} /\ compared = Null
  /\ copy = NoCopy
-----------------------------------------------------------------------------
(* qsort_r and _qsort_comparator                                           *)

Top(t) == Head(stack[t])
Begun  == UNION {{stack[t][i] : i \in 1 .. Len(stack[t])} : t \in Threads}
SetTop(t, f) == stack' = [stack EXCEPT ![t][1] = f]

\* A program calls qsort_r, or the comparator of the thread's innermost sort does, while
\* it is being called.
Qsort_r(t, c) ==
  /\ sorts < MaxSorts
  /\ stack[t] # <<>> => Top(t).pc = "comparing"
  /\ sorts' = sorts + 1
  /\ shared' = shared \cup {f.id : f \in Begun}
                      \cup {id \in {sorts + 1} : \E f \in Begun : f.pc = "thunk"}
  /\ stack' = [stack EXCEPT ![t] = <<[id |-> sorts + 1, caller |-> c, pc |-> "thunk",
                                      left |-> Compares]>> \o @]
  /\ _qsort_thunk' = c
  /\ UNCHANGED <<_qsort_saved_func, compared, copy>>

\* Mutant: the comparator is saved once for all.
SaveFuncOnce(t) ==
  /\ stack[t] # <<>> /\ Top(t).pc = "thunk"
  /\ _qsort_saved_func' = IF _qsort_saved_func = Null THEN Top(t).caller ELSE _qsort_saved_func
  /\ SetTop(t, [Top(t) EXCEPT !.pc = "sorting"])
  /\ UNCHANGED <<_qsort_thunk, sorts, shared, compared, copy>>

SaveFunc(t) ==
  /\ stack[t] # <<>> /\ Top(t).pc = "thunk"
  /\ _qsort_saved_func' = Top(t).caller
  /\ SetTop(t, [Top(t) EXCEPT !.pc = "sorting"])
  /\ UNCHANGED <<_qsort_thunk, sorts, shared, compared, copy>>

Comparator(t) ==
  /\ stack[t] # <<>> /\ Top(t).pc = "sorting" /\ Top(t).left > 0
  /\ compared' = [id |-> Top(t).id, caller |-> Top(t).caller,
                  func |-> _qsort_saved_func, thunk |-> _qsort_thunk]
  /\ SetTop(t, [Top(t) EXCEPT !.pc = "comparing", !.left = @ - 1])
  /\ UNCHANGED <<_qsort_thunk, _qsort_saved_func, sorts, shared, copy>>

Compared(t) ==
  /\ stack[t] # <<>> /\ Top(t).pc = "comparing"
  /\ SetTop(t, [Top(t) EXCEPT !.pc = "sorting"])
  /\ UNCHANGED <<_qsort_thunk, _qsort_saved_func, sorts, shared, compared, copy>>

Sorted(t) ==
  /\ stack[t] # <<>> /\ Top(t).pc = "sorting" /\ Top(t).left = 0
  /\ stack' = [stack EXCEPT ![t] = Tail(@)]
  /\ UNCHANGED <<_qsort_thunk, _qsort_saved_func, sorts, shared, compared, copy>>
-----------------------------------------------------------------------------
(* strlcpy                                                                 *)

Nul == <<"nul">>
Old == <<"old">>
Src(length, s) == IF s <= length THEN <<"char", s>> ELSE Nul

\* dst has siz characters, and there is one behind it.
Strlcpy(length, siz) ==
  /\ sorts = 0 /\ copy.pc \in {"none", "returned"}
  /\ copy' = [pc |-> IF siz # 0 THEN "fits" ELSE "rest", length |-> length, siz |-> siz,
              n |-> siz, d |-> 1, s |-> 1, dst |-> [i \in 1 .. siz + 1 |-> Old]]
  /\ UNCHANGED sorting

\* Mutant: while (n-- != 0)
CopyFitsLate ==
  /\ copy.pc = "fits"
  /\ LET c == Src(copy.length, copy.s)
     IN  copy' = IF copy.n = 0 THEN [copy EXCEPT !.pc = "full"]
                 ELSE [copy EXCEPT !.n = @ - 1, !.dst[copy.d] = c, !.d = @ + 1, !.s = @ + 1,
                                   !.pc = IF c = Nul THEN "returned" ELSE "fits"]
  /\ UNCHANGED sorting

\* while (--n != 0) if ((*d++ = *s++) == '\0') break;
CopyFits ==
  /\ copy.pc = "fits"
  /\ LET c == Src(copy.length, copy.s)
     IN  copy' = IF copy.n - 1 = 0 THEN [copy EXCEPT !.n = 0, !.pc = "full"]
                 ELSE [copy EXCEPT !.n = @ - 1, !.dst[copy.d] = c, !.d = @ + 1, !.s = @ + 1,
                                   !.pc = IF c = Nul THEN "returned" ELSE "fits"]
  /\ UNCHANGED sorting

Terminate_ ==
  /\ copy.pc = "full"
  /\ copy' = [copy EXCEPT !.dst[copy.d] = Nul, !.pc = "rest"]
  /\ UNCHANGED sorting

\* while (*s++);
TraverseRest ==
  /\ copy.pc = "rest"
  /\ copy' = [copy EXCEPT !.s = @ + 1,
                          !.pc = IF Src(copy.length, copy.s) = Nul THEN "returned" ELSE "rest"]
  /\ UNCHANGED sorting

\* s - src - 1
Returned == copy.s - 2

EmulatedNext ==
  \/ /\ copy = NoCopy
     /\ \E t \in Threads : \/ \E c \in Callers : Qsort_r(t, c)
                           \/ SaveFunc(t) \/ Comparator(t) \/ Compared(t) \/ Sorted(t)
  \/ \E length \in Strings, siz \in 0 .. MaxSize : Strlcpy(length, siz)
  \/ CopyFits \/ Terminate_ \/ TraverseRest

EmulatedSpec == EmulatedInit /\ [][EmulatedNext]_emulatedVars
-----------------------------------------------------------------------------
\* A sort compares by its own comparator and thunk as long as no other one begins, in its
\* comparator or in another thread, and none was just about to.
ComparesByOwn ==
  compared # Null /\ compared.id \notin shared =>
    compared.func = compared.caller /\ compared.thunk = compared.caller

\* "At most siz-1 characters will be copied.  Always NUL terminates (unless siz == 0).
\* Returns strlen(src)" (emulated.c:196), and nothing else is written.
CopiesWhatFits ==
  copy.pc = "returned" =>
    LET fit == IF copy.length < copy.siz THEN copy.length ELSE copy.siz - 1
    IN  /\ Returned = copy.length
        /\ \A i \in 1 .. copy.siz + 1 :
             copy.dst[i] = IF copy.siz = 0 \/ i > fit + 1 THEN Old
                           ELSE IF i = fit + 1 THEN Nul ELSE Src(copy.length, i)
=============================================================================
