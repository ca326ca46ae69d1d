--------------------------- MODULE PkgMake_proofs ---------------------------
(* Theorems about PkgMake, for every set of packages, every dependency     *)
(* graph without self-loops and every build function.                      *)
EXTENDS PkgMakeImplements, SequenceTheorems, TLAPS

Frames == [pkg : Packages, todo : SUBSET Packages]

\* stamp is a function: TypeOK gives its domain and its values, this its shape.
TypeInv == TypeOK /\ stamp = [p \in Packages |-> stamp[p]]

LEMMA InputsType ==
  ASSUME TypeInv, NEW p \in Packages
  PROVE  Inputs(p) \in InputsOf(p) /\ Inputs(p) # NoStamp
  BY DepsAssumption, SentinelAssumption DEF TypeInv, TypeOK, Inputs, InputsOf, Trees

\* exit 0 keeps the process variables well typed.
LEMMA ReturnType ==
  ASSUME TypeInv, pc # "idle", Return
  PROVE  /\ callers' \in Seq(Frames)
         /\ pc' \in {"idle", "deps"}
         /\ IF pc' = "idle" THEN pkg' = NoPackage ELSE pkg' \in Packages
         /\ todo' \subseteq Packages
         /\ read' = {}
         /\ made' \subseteq Packages
<1>1. CASE callers = <<>>
  BY <1>1 DEF TypeInv, TypeOK, Return, Frames
<1>2. CASE callers # <<>>
  <2>1. callers \in Seq(Frames)
    BY DEF TypeInv, TypeOK, Frames
  <2>2. Head(callers) \in Frames /\ Tail(callers) \in Seq(Frames)
    BY <1>2, <2>1, HeadTailProperties
  <2>3. Head(callers).pkg \in Packages /\ Head(callers).todo \subseteq Packages
    BY <2>2 DEF Frames
  <2>4. pkg \in Packages /\ made \subseteq Packages
    BY DEF TypeInv, TypeOK
  <2>5. QED
    BY <1>2, <2>2, <2>3, <2>4 DEF Return
<1>3. QED
  BY <1>1, <1>2

LEMMA TypeInit == Init => TypeInv
  BY EmptySeq DEF Init, TypeInv, TypeOK, Trees, AllContents, Building, ReadingData

LEMMA TypeStep == TypeInv /\ [Next]_vars => TypeInv'
<1> SUFFICES ASSUME TypeInv, [Next]_vars PROVE TypeInv'
  OBVIOUS
<1> USE DEF TypeInv, TypeOK, disk, process, history
<1>1. ASSUME NEW p \in Packages, NEW c \in Contents[p], Edit(p, c)
      PROVE  TypeInv'
  BY <1>1 DEF Edit, AllContents, InputsOf, Building, ReadingData, Trees
<1>2. ASSUME NEW p \in Packages, Start(p)
      PROVE  TypeInv'
  BY <1>2, DepsAssumption DEF Start, AllContents, InputsOf, Building, ReadingData, Trees
<1>3. ASSUME NEW p \in Packages, StartRemake(p)
      PROVE  TypeInv'
  BY <1>3, DepsAssumption DEF StartRemake, AllContents, InputsOf, Building, ReadingData, Trees
<1>4. ASSUME NEW q \in Packages, Visit(q)
      PROVE  TypeInv'
  <2>1. [pkg |-> pkg, todo |-> todo \ {q}] \in Frames
    BY <1>4 DEF Visit, Frames
  <2>2. callers' \in Seq(Frames)
    BY <1>4, <2>1, ConcatProperties DEF Visit, Frames
  <2>3. QED
    BY <1>4, <2>2, DepsAssumption
    DEF Visit, AllContents, InputsOf, Building, ReadingData, Trees, Frames
<1>5. CASE Skip
  BY <1>5, ReturnType DEF Skip, AllContents, InputsOf, Building, ReadingData, Trees, Frames
<1>6. CASE Hash
  BY <1>6, InputsType DEF Hash, AllContents, InputsOf, Building, ReadingData, Trees
<1>7. CASE Unstamp
  BY <1>7 DEF Unstamp, AllContents, InputsOf, Building, ReadingData, Trees
<1>8. CASE Wipe
  BY <1>8 DEF Wipe, AllContents, InputsOf, Building, ReadingData, Trees
<1>9. CASE Build
  <2>1. pkg \in Packages /\ read \subseteq Contents[pkg]
    BY <1>9 DEF Build, ReadingData
  <2>2. [q \in Deps[pkg] |-> dest[q]] \in [Deps[pkg] -> Outs \cup {Unfinished}]
    BY <2>1, DepsAssumption DEF Trees
  <2>3. PICK o \in Outs : dest' = [dest EXCEPT ![pkg] = o]
    BY <1>9, <2>1, <2>2, OutputsAssumption DEF Build
  <2>4. QED
    BY <1>9, <2>1, <2>3 DEF Build, AllContents, InputsOf, Building, ReadingData, Trees
<1>10. CASE RecordVersion
  BY <1>10 DEF RecordVersion, AllContents, InputsOf, Building, ReadingData, Trees
<1>11. CASE Stamp
  BY <1>11, ReturnType
  DEF Stamp, AllContents, InputsOf, Building, ReadingData, Trees, Frames
<1>12. CASE Abort
  BY <1>12, EmptySeq DEF Abort, AllContents, InputsOf, Building, ReadingData, Trees
<1>13. CASE UNCHANGED vars
  BY <1>13 DEF vars, AllContents, InputsOf, Building, ReadingData, Trees
<1>14. QED
  BY <1>1, <1>2, <1>3, <1>4, <1>5, <1>6, <1>7, <1>8, <1>9, <1>10, <1>11, <1>12, <1>13
  DEF Next, Running

\* Every state the scripts can be in or be stopped in is well typed.
THEOREM TypeCorrect == Spec => []TypeOK
<1>1. TypeInv => TypeOK
  BY DEF TypeInv
<1>2. QED
  BY <1>1, TypeInit, TypeStep, PTL DEF Spec

-----------------------------------------------------------------------------
(* Stamps.  The strengthening says what the running make.sh knows at each  *)
(* of its steps: its own stamp is gone from the rm on, its dependencies'   *)
(* trees are still those it hashed, and once built its tree is the output  *)
(* of those inputs.                                                        *)

StampInv ==
  /\ StampSound
  /\ pc \in Building \ {"unstamp"} => stamp[pkg] = NoStamp
  /\ pc \in Building => hashed.deps = [q \in Deps[pkg] |-> dest[q]]
  /\ pc \in {"record", "stamp"} =>
       /\ dest[pkg] \in Outs
       /\ pkg \notin raced => dest[pkg] \in Outputs(pkg, hashed.data, hashed.deps)
  /\ pc = "stamp" => pkg \in versioned

LEMMA StampInit == Init => StampInv
  BY DEF Init, StampInv, StampSound, Building

LEMMA StampStep == TypeInv /\ TypeInv' /\ StampInv /\ [Next]_vars => StampInv'
<1> SUFFICES ASSUME TypeInv, TypeInv', StampInv, [Next]_vars PROVE StampInv'
  OBVIOUS
<1> USE DEF disk, process, history, StampInv, StampSound, Building
<1>t. /\ pc # "idle" => pkg \in Packages
      /\ stamp = [p \in Packages |-> stamp[p]]
      /\ dest \in [Packages -> Trees]
      /\ pc \in Building => hashed \in InputsOf(pkg)
      /\ \A p \in Packages : Deps[p] \subseteq Packages /\ p \notin Deps[p]
  BY DepsAssumption, NoSelfDependency DEF TypeInv, TypeOK
<1>1. ASSUME NEW p \in Packages, NEW c \in Contents[p], Edit(p, c)
      PROVE  StampInv'
  BY <1>1 DEF Edit
<1>2. ASSUME NEW p \in Packages, Start(p)
      PROVE  StampInv'
  BY <1>2 DEF Start
<1>3. ASSUME NEW p \in Packages, StartRemake(p)
      PROVE  StampInv'
  BY <1>3, <1>t DEF StartRemake
<1>4. ASSUME NEW q \in Packages, Visit(q)
      PROVE  StampInv'
  BY <1>4 DEF Visit
<1>5. CASE Skip
  BY <1>5 DEF Skip, Return
<1>6. CASE Hash
  BY <1>6, <1>t DEF Hash, Inputs
<1>7. CASE Unstamp
  BY <1>7, <1>t DEF Unstamp
<1>8. CASE Wipe
  BY <1>8, <1>t DEF Wipe
<1>9. CASE Build
  <2>1. pkg \in Packages /\ read \subseteq Contents[pkg]
    BY <1>9, <1>t DEF Build, ReadingData, TypeInv, TypeOK
  <2>2. [q \in Deps[pkg] |-> dest[q]] \in [Deps[pkg] -> Outs \cup {Unfinished}]
    BY <2>1, <1>t DEF Trees
  <2>3. PICK c \in read :
          \E o \in Outputs(pkg, c, [q \in Deps[pkg] |-> dest[q]]) :
            dest' = [dest EXCEPT ![pkg] = o]
    BY <1>9 DEF Build
  <2>4. PICK o \in Outputs(pkg, c, [q \in Deps[pkg] |-> dest[q]]) :
          dest' = [dest EXCEPT ![pkg] = o]
    BY <2>3
  <2>5. o \in Outs
    BY <2>1, <2>2, OutputsAssumption
  <2>6. dest'[pkg] = o /\ \A p \in Packages \ {pkg} : dest'[p] = dest[p]
    BY <2>1, <2>4, <1>t
  <2>7. hashed' = hashed /\ pkg' = pkg /\ stamp' = stamp /\ versioned' = versioned
        /\ pc = "build" /\ pc' = "record"
    BY <1>9 DEF Build
  <2>8. hashed.deps = [q \in Deps[pkg] |-> dest'[q]]
    BY <2>1, <2>6, <2>7, <1>t
  <2>9. pkg \notin raced' => o \in Outputs(pkg, hashed.data, hashed.deps)
    <3>1. pkg \notin raced' => read = {hashed.data}
      BY <1>9 DEF Build
    <3>2. QED
      BY <3>1, <2>4, <2>7, <2>3
  <2>10. \A p \in Packages \ {pkg} : p \in raced' <=> p \in raced
    BY <1>9 DEF Build
  <2>11. stamp[pkg] = NoStamp
    BY <2>7
  <2>12. StampSound'
    BY <2>6, <2>7, <2>10, <2>11
  <2>13. QED
    BY <2>1, <2>5, <2>6, <2>7, <2>8, <2>9, <2>11, <2>12
<1>10. CASE RecordVersion
  BY <1>10, <1>t DEF RecordVersion
<1>11. CASE Stamp
  <2>1. pc' \in {"idle", "deps"}
    BY <1>11 DEF Stamp, Return
  <2>2. stamp' = [stamp EXCEPT ![pkg] = hashed]
        /\ dest' = dest /\ versioned' = versioned /\ raced' = raced
    BY <1>11 DEF Stamp
  <2>3. QED
    BY <1>11, <1>t, <2>1, <2>2 DEF Stamp
<1>12. CASE Abort
  BY <1>12 DEF Abort
<1>13. CASE UNCHANGED vars
  BY <1>13 DEF vars
<1>14. QED
  BY <1>1, <1>2, <1>3, <1>4, <1>5, <1>6, <1>7, <1>8, <1>9, <1>10, <1>11, <1>12, <1>13
  DEF Next, Running

\* However a build is interrupted, a stamp stands for a finished tree built from the
\* stamped inputs (make.sh's order: remove the stamp, wipe, build, record, stamp).
THEOREM StampsAreSound == Spec => []StampSound
<1>1. StampInv => StampSound
  BY DEF StampInv
<1>2. QED
  BY <1>1, TypeInit, TypeStep, StampInit, StampStep, PTL DEF Spec

-----------------------------------------------------------------------------
(* Up-to-date packages.  The strengthening follows the chain of waiting    *)
(* make.sh processes: while nothing has been edited, every dependency a    *)
(* loop has left behind is up to date, except the one it now waits for.    *)

Callee(i) == IF i = 1 THEN pkg ELSE callers[i - 1].pkg

CallersInv ==
  ~edited => \A i \in 1 .. Len(callers) :
    Deps[callers[i].pkg] \ callers[i].todo \subseteq made \cup {Callee(i)}

MadeClosed == \A p \in made : Deps[p] \subseteq made /\ stamp[p] = Inputs(p)

MadeInv ==
  /\ MadeClosed
  /\ CallersInv
  /\ pc = "idle" => callers = <<>>
  /\ pc \in Building => pkg \notin made
  /\ pc # "idle" /\ ~edited => Deps[pkg] \ todo \subseteq made
  /\ pc \in Building => todo = {}
  /\ pc \in Building /\ ~edited => hashed = Inputs(pkg)

LEMMA MadeInit == Init => MadeInv
  BY DEF Init, MadeInv, MadeClosed, CallersInv, Building

\* A package whose tree or stamp is being rewritten is below no up-to-date package.
LEMMA RebuiltIsUnused ==
  ASSUME TypeInv, MadeInv, pc \in Building, NEW p \in made
  PROVE  p # pkg /\ pkg \notin Deps[p]
  BY DEF MadeInv, MadeClosed

\* Going back to the caller carries its frame over, and the package just done.
LEMMA MadeReturn ==
  ASSUME TypeInv, MadeInv, pc # "idle", Return, edited' = edited,
         ~edited => Deps[pkg] \subseteq made
  PROVE  /\ CallersInv'
         /\ pc' = "idle" => callers' = <<>>
         /\ pc' \notin Building
         /\ pc' # "idle" /\ ~edited' => Deps[pkg'] \ todo' \subseteq made'
<1>1. CASE callers = <<>>
  BY <1>1 DEF Return, CallersInv, Building
<1>2. CASE callers # <<>>
  <2> USE DEF Frames
  <2>1. callers \in Seq(Frames)
    BY DEF TypeInv, TypeOK
  <2>2. /\ Tail(callers) \in Seq(Frames)
        /\ Len(Tail(callers)) = Len(callers) - 1
        /\ \A i \in 1 .. Len(Tail(callers)) : Tail(callers)[i] = callers[i + 1]
    BY <1>2, <2>1, HeadTailProperties
  <2>3. Head(callers) = callers[1] /\ Len(callers) \in Nat \ {0}
    BY <1>2, <2>1, EmptySeq
  <2>4. /\ pc' = "deps" /\ pkg' = callers[1].pkg /\ todo' = callers[1].todo
        /\ callers' = Tail(callers)
        /\ made' = IF edited THEN made ELSE made \cup {pkg}
    BY <1>2, <2>3 DEF Return
  <2>5. ASSUME ~edited
        PROVE  Deps[pkg'] \ todo' \subseteq made'
    BY <2>3, <2>4, <2>5 DEF MadeInv, CallersInv, Callee
  <2>6. ASSUME ~edited, NEW i \in 1 .. Len(callers')
        PROVE  Deps[callers'[i].pkg] \ callers'[i].todo \subseteq made' \cup {Callee(i)'}
    <3>1. i + 1 \in 1 .. Len(callers) /\ callers'[i] = callers[i + 1]
      BY <2>2, <2>3, <2>4
    <3>2. Callee(i)' = Callee(i + 1)
      BY <2>2, <2>3, <2>4, <3>1 DEF Callee
    <3>3. QED
      BY <2>4, <2>6, <3>1, <3>2 DEF MadeInv, CallersInv
  <2>7. QED
    BY <2>4, <2>5, <2>6 DEF CallersInv, Building
<1>3. QED
  BY <1>1, <1>2

LEMMA MadeStep == TypeInv /\ MadeInv /\ [Next]_vars => MadeInv'
<1> SUFFICES ASSUME TypeInv, MadeInv, [Next]_vars PROVE MadeInv'
  OBVIOUS
<1> USE DEF disk, process, history, MadeInv, MadeClosed, Building
<1>t. /\ pc # "idle" => pkg \in Packages
      /\ stamp = [p \in Packages |-> stamp[p]]
      /\ dest \in [Packages -> Trees]
      /\ made \subseteq Packages
      /\ \A p \in Packages : Deps[p] \subseteq Packages /\ p \notin Deps[p]
  BY DepsAssumption, NoSelfDependency DEF TypeInv, TypeOK
<1>1. ASSUME NEW p \in Packages, NEW c \in Contents[p], Edit(p, c)
      PROVE  MadeInv'
  BY <1>1 DEF Edit, CallersInv
<1>2. ASSUME NEW p \in Packages, Start(p)
      PROVE  MadeInv'
  BY <1>2 DEF Start, CallersInv, Inputs
<1>3. ASSUME NEW p \in Packages, StartRemake(p)
      PROVE  MadeInv'
  BY <1>3 DEF StartRemake, CallersInv
<1>4. ASSUME NEW q \in Packages, Visit(q)
      PROVE  MadeInv'
  <2> DEFINE f == [pkg |-> pkg, todo |-> todo \ {q}]
  <2>1. callers \in Seq(Frames) /\ <<f>> \in Seq(Frames) /\ Len(<<f>>) = 1 /\ <<f>>[1] = f
    BY <1>4, <1>t DEF Visit, TypeInv, TypeOK, Frames
  <2>2. callers' = <<f>> \o callers /\ pkg' = q /\ todo' = Deps[q] /\ made' = made
        /\ edited' = edited /\ pc = "deps" /\ pc' = "deps" /\ q \in todo
    BY <1>4 DEF Visit
  <2>3. /\ Len(callers') = 1 + Len(callers) /\ Len(callers) \in Nat
        /\ callers'[1] = f
        /\ \A i \in 2 .. Len(callers') : callers'[i] = callers[i - 1]
    BY <2>1, <2>2, ConcatProperties, LenProperties
  <2>4. ASSUME ~edited, NEW i \in 1 .. Len(callers')
        PROVE  Deps[callers'[i].pkg] \ callers'[i].todo \subseteq made' \cup {Callee(i)'}
    <3>1. CASE i = 1
      BY <2>2, <2>3, <2>4, <3>1 DEF Callee
    <3>2. CASE i = 2
      <4>1. 1 \in 1 .. Len(callers) /\ callers'[i] = callers[1]
        BY <2>3, <3>2
      <4>2. Callee(i)' = Callee(1)
        BY <2>3, <3>2 DEF Callee
      <4>3. QED
        BY <2>2, <2>4, <4>1, <4>2 DEF CallersInv
    <3>3. CASE i > 2
      <4>1. i - 1 \in 1 .. Len(callers) /\ i - 1 # 1 /\ callers'[i] = callers[i - 1]
            /\ callers'[i - 1] = callers[(i - 1) - 1]
        BY <2>3, <3>3
      <4>2. Callee(i)' = Callee(i - 1)
        BY <4>1, <3>3 DEF Callee
      <4>3. QED
        BY <2>2, <2>4, <4>1, <4>2 DEF CallersInv
    <3>4. QED
      BY <2>3, <3>1, <3>2, <3>3
  <2>5. CallersInv'
    BY <2>2, <2>4 DEF CallersInv
  <2>6. MadeClosed'
    BY <1>4 DEF Visit, Inputs
  <2>7. QED
    BY <2>2, <2>5, <2>6
<1>5. CASE Skip
  <2>1. pc # "idle" /\ Return /\ edited' = edited /\ stamp[pkg] = Inputs(pkg)
        /\ (~edited => Deps[pkg] \subseteq made)
    BY <1>5 DEF Skip
  <2>2. made' = IF edited THEN made ELSE made \cup {pkg}
    BY <2>1 DEF Return
  <2>3. \A p \in Packages : Inputs(p)' = Inputs(p) /\ stamp'[p] = stamp[p]
    BY <1>5 DEF Skip, Inputs
  <2>4. MadeClosed'
    BY <2>1, <2>2, <2>3, <1>t
  <2>5. QED
    BY <2>1, <2>4, MadeReturn
<1>6. CASE Hash
  <2>1. \A p \in Packages : Inputs(p)' = Inputs(p)
    BY <1>6 DEF Hash, Inputs
  <2>2. pkg \in Packages /\ pkg \notin made /\ hashed' = Inputs(pkg)
    BY <1>6, <1>t DEF Hash
  <2>3. MadeClosed' /\ CallersInv'
    BY <1>6, <1>t, <2>1 DEF Hash, CallersInv, Callee
  <2>4. QED
    BY <1>6, <2>1, <2>2, <2>3 DEF Hash
<1>7. CASE Unstamp
  BY <1>7, <1>t, RebuiltIsUnused DEF Unstamp, Inputs, CallersInv, Callee
<1>8. CASE Wipe
  <2>1. \A p \in made \cup {pkg} : Inputs(p)' = Inputs(p)
    BY <1>8, <1>t, RebuiltIsUnused DEF Wipe, Inputs
  <2>2. QED
    BY <1>8, <1>t, <2>1 DEF Wipe, CallersInv, Callee
<1>9. CASE Build
  <2>1. PICK o : dest' = [dest EXCEPT ![pkg] = o]
    BY <1>9 DEF Build
  <2>2. \A p \in made \cup {pkg} : Inputs(p)' = Inputs(p)
    <3>1. pkg \in Packages /\ data' = data
      BY <1>9, <1>t DEF Build
    <3>2. \A p \in made \cup {pkg} : pkg \notin Deps[p] /\ Deps[p] \subseteq Packages
      BY <1>9, <1>t, <3>1, RebuiltIsUnused DEF Build
    <3>3. \A q \in Packages \ {pkg} : dest'[q] = dest[q]
      BY <2>1, <3>1, <1>t
    <3>4. QED
      BY <3>1, <3>2, <3>3 DEF Inputs
  <2>3. QED
    BY <1>9, <1>t, <2>2 DEF Build, CallersInv, Callee
<1>10. CASE RecordVersion
  BY <1>10 DEF RecordVersion, Inputs, CallersInv, Callee
<1>11. CASE Stamp
  <2>1. pc = "stamp" /\ Return /\ edited' = edited
        /\ (~edited => Deps[pkg] \subseteq made)
        /\ (~edited => hashed = Inputs(pkg))
    BY <1>11 DEF Stamp
  <2>2. made' = IF edited THEN made ELSE made \cup {pkg}
    BY <2>1 DEF Return
  <2>3. stamp' = [stamp EXCEPT ![pkg] = hashed] /\ \A p \in Packages : Inputs(p)' = Inputs(p)
    BY <1>11 DEF Stamp, Inputs
  <2>4. \A p \in made : p # pkg
    BY <2>1
  <2>5. MadeClosed'
    BY <2>1, <2>2, <2>3, <2>4, <1>t
  <2>6. QED
    BY <2>1, <2>5, MadeReturn
<1>12. CASE Abort
  BY <1>12 DEF Abort, Inputs, CallersInv
<1>13. CASE UNCHANGED vars
  BY <1>13 DEF vars, Inputs, CallersInv, Callee
<1>14. QED
  BY <1>1, <1>2, <1>3, <1>4, <1>5, <1>6, <1>7, <1>8, <1>9, <1>10, <1>11, <1>12, <1>13
  DEF Next, Running

LEMMA MadeCorrect == Spec => [](TypeInv /\ StampInv /\ MadeInv)
<1>1. Init => TypeInv /\ StampInv /\ MadeInv
  BY TypeInit, StampInit, MadeInit
<1>2. TypeInv /\ StampInv /\ MadeInv /\ [Next]_vars => (TypeInv /\ StampInv /\ MadeInv)'
  BY TypeStep, StampStep, MadeStep
<1>3. QED
  BY <1>1, <1>2, PTL DEF Spec

\* After make.sh succeeds, everything below its package is what a build from scratch
\* of the present data could have left.
THEOREM IncrementalBuildsAreClean == Spec => []IncrementalIsClean
<1>1. TypeInv /\ StampInv /\ MadeInv => IncrementalIsClean
  <2> SUFFICES ASSUME TypeInv, StampInv, MadeInv, NEW p \in made
               PROVE  /\ Deps[p] \subseteq made
                      /\ stamp[p] = Inputs(p)
                      /\ p \notin raced =>
                           dest[p] \in Outputs(p, data[p], [q \in Deps[p] |-> dest[q]])
    BY DEF IncrementalIsClean
  <2>1. p \in Packages /\ stamp[p] = Inputs(p) /\ Deps[p] \subseteq made
    BY DEF MadeInv, MadeClosed, TypeInv, TypeOK
  <2>2. stamp[p] # NoStamp
    BY <2>1, InputsType
  <2>3. QED
    BY <2>1, <2>2 DEF StampInv, StampSound, Inputs
<1>2. QED
  BY <1>1, MadeCorrect, PTL

\* No step of any make.sh rewrites the tree or the stamp of an up-to-date package.
THEOREM UpToDateIsNotRebuilt == Spec => MadeStaysMade
<1>1. TypeInv /\ MadeInv /\ [Next]_vars =>
        [\A p \in made \cap made' : dest'[p] = dest[p] /\ stamp'[p] = stamp[p]]_vars
  <2> SUFFICES ASSUME TypeInv, MadeInv, Next, NEW p \in made \cap made'
               PROVE  dest'[p] = dest[p] /\ stamp'[p] = stamp[p]
    OBVIOUS
  <2>1. CASE pc \in Building
    <3>1. p # pkg
      BY <2>1, RebuiltIsUnused
    <3>2. QED
      BY <2>1, <3>1
      DEF Next, Running, Edit, Start, StartRemake, Visit, Skip, Hash, Unstamp, Wipe, Build,
          RecordVersion, Stamp, Abort, Building, disk, TypeInv, TypeOK
  <2>2. CASE pc \notin Building
    BY <2>2
    DEF Next, Running, Edit, Start, StartRemake, Visit, Skip, Hash, Unstamp, Wipe, Build,
        RecordVersion, Stamp, Abort, Building, disk
  <2>3. QED
    BY <2>1, <2>2
<1>2. QED
  BY <1>1, MadeCorrect, PTL DEF Spec, MadeStaysMade

-----------------------------------------------------------------------------
(* The abstract cache, when data/ is edited only between builds.           *)

IdleEditInv ==
  /\ pc # "idle" => ~edited
  /\ raced = {}
  /\ pc \in ReadingData => read = {hashed.data}

LEMMA IdleEditInit == Init => IdleEditInv
  BY DEF Init, IdleEditInv, ReadingData

LEMMA IdleEditStep ==
  ASSUME ~EditDuringMake
  PROVE  TypeInv /\ MadeInv /\ IdleEditInv /\ [Next]_vars => IdleEditInv'
<1> SUFFICES ASSUME TypeInv, MadeInv, IdleEditInv, [Next]_vars PROVE IdleEditInv'
  OBVIOUS
<1> USE DEF IdleEditInv, ReadingData, disk, history
<1>1. ASSUME NEW p \in Packages, NEW c \in Contents[p], Edit(p, c)
      PROVE  IdleEditInv'
  BY <1>1 DEF Edit
<1>2. CASE \E p \in Packages : Start(p) \/ StartRemake(p)
  BY <1>2 DEF Start, StartRemake, MadeInv, Building
<1>3. CASE \E q \in Packages : Visit(q)
  BY <1>3 DEF Visit
<1>4. CASE Skip \/ Stamp
  BY <1>4 DEF Skip, Stamp, Return
<1>5. CASE Hash
  BY <1>5 DEF Hash, Inputs
<1>6. CASE Unstamp \/ Wipe \/ RecordVersion \/ Abort
  BY <1>6 DEF Unstamp, Wipe, RecordVersion, Abort
<1>7. CASE Build
  BY <1>7 DEF Build
<1>8. CASE UNCHANGED vars
  BY <1>8 DEF vars, process
<1>9. QED
  BY <1>1, <1>2, <1>3, <1>4, <1>5, <1>6, <1>7, <1>8 DEF Next, Running

LEMMA CacheInit == Init => Cache!Init
  BY DEF Init, Cache!Init, Cached, Stamped

LEMMA CacheStep ==
  TypeInv /\ StampInv /\ MadeInv /\ IdleEditInv /\ [Next]_vars => [Cache!Next]_(Cache!vars)
<1> SUFFICES ASSUME TypeInv, StampInv, MadeInv, IdleEditInv, [Next]_vars
             PROVE  Cache!Next \/ (data' = data /\ Cached' = Cached)
  BY DEF Cache!vars
<1> USE DEF disk, process, history
<1>t. /\ pc # "idle" => pkg \in Packages
      /\ stamp = [p \in Packages |-> stamp[p]]
      /\ dest \in [Packages -> Trees]
      /\ \A p \in Packages : Deps[p] \subseteq Packages
  BY DepsAssumption DEF TypeInv, TypeOK
<1>1. ASSUME NEW p \in Packages, NEW c \in Contents[p], Edit(p, c)
      PROVE  Cache!Next
  BY <1>1 DEF Edit, Cached, Stamped, Cache!Next, Cache!Edit
<1>2. ASSUME NEW p \in Packages, StartRemake(p)
      PROVE  Cache!Next
  <2>1. Cache!Drop(p)
    BY <1>2, <1>t DEF StartRemake, Cached, Stamped, Cache!Drop
  <2>2. QED
    BY <2>1 DEF Cache!Next
<1>3. CASE Unstamp
  <2>1. Cache!Drop(pkg) /\ pkg \in Packages
    BY <1>3, <1>t DEF Unstamp, Cached, Stamped, Cache!Drop
  <2>2. QED
    BY <2>1 DEF Cache!Next
<1>4. CASE Wipe
  BY <1>4, <1>t DEF Wipe, Cached, Stamped, StampInv, Building
<1>5. CASE Build
  <2>1. PICK o : dest' = [dest EXCEPT ![pkg] = o]
    BY <1>5 DEF Build
  <2>2. stamp' = stamp /\ data' = data /\ stamp[pkg] = NoStamp /\ pkg \in Packages
    BY <1>5, <1>t DEF Build, StampInv, Building
  <2>3. \A p \in Packages \ {pkg} : dest'[p] = dest[p]
    BY <2>1, <2>2, <1>t
  <2>4. QED
    BY <2>2, <2>3 DEF Cached, Stamped
<1>6. CASE Stamp
  <2>1. /\ pkg \in Packages /\ data' = data /\ dest' = dest
        /\ stamp' = [stamp EXCEPT ![pkg] = hashed]
        /\ hashed = Inputs(pkg) /\ Deps[pkg] \subseteq made /\ pkg \notin Deps[pkg]
    BY <1>6, <1>t, NoSelfDependency DEF Stamp, MadeInv, Building, IdleEditInv
  <2>2. \A q \in Deps[pkg] : stamp[q] # NoStamp /\ q \in Packages
    <3>1. \A q \in Deps[pkg] : q \in Packages /\ stamp[q] = Inputs(q)
      BY <2>1, <1>t DEF MadeInv, MadeClosed
    <3>2. QED
      BY <3>1, InputsType
  <2>3. \A q \in Deps[pkg] : q \in Stamped /\ Cached[q].tree = dest[q]
    BY <2>2 DEF Cached, Stamped
  <2>4. Deps[pkg] \subseteq DOMAIN Cached
    BY <2>2 DEF Cached, Stamped
  <2> DEFINE trees == [q \in Deps[pkg] |-> Cached[q].tree]
  <2>5. trees = [q \in Deps[pkg] |-> dest[q]]
    BY <2>3
  <2>6. dest[pkg] \in Outputs(pkg, data[pkg], trees)
    BY <1>6, <2>1, <2>5 DEF Stamp, StampInv, IdleEditInv, Inputs
  <2>7. Inputs(pkg) # NoStamp /\ Inputs(pkg) = [data |-> data[pkg], deps |-> trees]
    BY <2>1, <2>5, InputsType DEF Inputs
  <2>8. Cached' = [q \in DOMAIN Cached \cup {pkg} |->
                     IF q = pkg
                     THEN [tree |-> dest[pkg], from |-> [data |-> data[pkg], deps |-> trees]]
                     ELSE Cached[q]]
    <3>1. Stamped' = Stamped \cup {pkg} /\ DOMAIN Cached = Stamped
      BY <2>1, <2>7, <1>t DEF Cached, Stamped
    <3>2. \A q \in Stamped \ {pkg} : stamp'[q] = stamp[q] /\ dest'[q] = dest[q]
      BY <2>1, <1>t DEF Stamped
    <3>3. stamp'[pkg] = [data |-> data[pkg], deps |-> trees]
      BY <2>1, <2>7, <1>t
    <3>4. QED
      BY <2>1, <3>1, <3>2, <3>3 DEF Cached
  <2>9. Cache!Fill(pkg)
    BY <2>1, <2>4, <2>6, <2>8 DEF Cache!Fill
  <2>10. QED
    BY <2>1, <2>9 DEF Cache!Next
<1>7. CASE \/ \E p \in Packages : Start(p)
           \/ \E q \in Packages : Visit(q)
           \/ Skip \/ Hash \/ RecordVersion \/ Abort \/ UNCHANGED vars
  BY <1>7 DEF Start, Visit, Skip, Hash, RecordVersion, Abort, vars, Cached, Stamped
<1>8. QED
  BY <1>1, <1>2, <1>3, <1>4, <1>5, <1>6, <1>7 DEF Next, Running

\* With data/ left alone while builds run, make.sh implements the cache of trees.
THEOREM PkgMakeRefinesTreeCache == ~EditDuringMake => (Spec => ImplementsCache)
<1> SUFFICES ASSUME ~EditDuringMake PROVE Spec => ImplementsCache
  OBVIOUS
<1>1. Init => TypeInv /\ StampInv /\ MadeInv /\ IdleEditInv
  BY TypeInit, StampInit, MadeInit, IdleEditInit
<1>2. TypeInv /\ StampInv /\ MadeInv /\ IdleEditInv /\ [Next]_vars
        => (TypeInv /\ StampInv /\ MadeInv /\ IdleEditInv)'
  BY TypeStep, StampStep, MadeStep, IdleEditStep
<1>3. QED
  BY <1>1, <1>2, CacheInit, CacheStep, PTL DEF Spec, ImplementsCache, Cache!Spec
=============================================================================
