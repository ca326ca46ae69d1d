-------------------------- MODULE LdidSign_proofs --------------------------
(***************************************************************************)
(* For any number of files below 256, any contents and options, and any    *)
(* number of runs, builds and kills: what ldid does to the files, in       *)
(* whichever of its processes.                                             *)
(***************************************************************************)
EXTENDS LdidImplements, SequenceTheorems, TLAPS

Proc == [at : 1 .. N + 1, failed : 0 .. N, step : Steps]

\* A child is about to run codesign_allocate for its parent, or has failed to, and
\* goes on in its place with a failure on its count.
Child(p, c) ==
  IF c.step \in {"exec", "allocate"} THEN c.at = p.at /\ c.failed = p.failed ELSE c.failed > 0

Children == {"exec", "allocate"}

\* The processes wait for each other, and none has more failures than files behind it.
ChainInv ==
  /\ \A i \in 1 .. Len(procs) : procs[i].failed < procs[i].at
  /\ \A i \in 1 .. Len(procs) - 1 :
       procs[i].step = "wait" /\ procs[i].at <= N /\ Child(procs[i], procs[i + 1])
  /\ procs # <<>> => /\ Len(procs) = 1 => Me.step \notin Children
                     /\ Me.step # "wait"
                     /\ Me.step # "open" => Me.at <= N

\* The running process has the temporary files that its step goes on with.
HasCs == Me.step = "copy" \/ (Me.step \in {"map", "sign"} /\ mode = "-S")
HasCp == Me.step \in {"drop", "own", "unlink", "rename"}

\* What is made to be renamed over a file comes from its last build; -s has mapped its file.
CurrentInv ==
  procs # <<>> =>
    /\ HasCs => cs[Me.at] # None /\ cs[Me.at].code.version = latest[Me.at]
    /\ HasCp => cp[Me.at] # None /\ cp[Me.at].code.version = latest[Me.at]
    /\ Me.step = "sign" /\ mode # "-S" => Maps(path[Me.at])

Signed(f) == path[f] # None /\ path[f].covers = path[f].code

\* A process without failures has signed the files that are behind it.
SignedInv ==
  procs # <<>> =>
    /\ status = None
    /\ Me.step = "copy" => cs[Me.at].covers = cs[Me.at].code
    /\ HasCp => cp[Me.at].covers = cp[Me.at].code
    /\ mode \in {"-S", "-s"} /\ Me.failed = 0 => \A f \in 1 .. Me.at - 1 : Signed(f)

\* The file stays until its copy is whole; the copy is whole if the disk never fills up
\* behind the back of fwrite.
LostInv ==
  ~FlushFails =>
    /\ CopyIsWhole /\ NothingLost
    /\ procs # <<>> => /\ HasCs \/ Me.step \in {"drop", "own", "unlink"} => path[Me.at] # None
                       /\ HasCp => cp[Me.at].whole

IInv == SignTypeOK /\ ChainInv /\ CurrentInv /\ NeverStale /\ SignedInv /\ SuccessMeansSigned /\ LostInv

\* What -S makes to be renamed over a file is its code as the options ask for it, with
\* room for a signature, until the file is out of the way.
ReadyInv ==
  procs # <<>> =>
    LET f == Me.at
    IN  /\ Me.step \notin {"open", "map", "sign"} => mode = "-S"
        /\ mode = "-S" /\ Me.step \notin {"open", "rename"} => path[f] # None /\ path[f].code.linked
        /\ mode = "-S" /\ Me.step = "map" => cs[f].room /\ cs[f].code = path[f].code
        /\ mode = "-S" /\ Me.step \in {"sign", "copy"} =>
             cs[f].room /\ cs[f].code = Promised!Altered(path[f].code)
        /\ Me.step \in {"drop", "own", "unlink"} =>
             cp[f].room /\ cp[f].code = Promised!Altered(path[f].code)
        /\ Me.step = "rename" => path[f] = None
-----------------------------------------------------------------------------
(* The sequence of processes.                                              *)

\* The running process has become p, and the others are as they were.
LEMMA BecomeOne ==
  ASSUME procs \in Seq(Proc), procs # <<>>, NEW p \in Proc, Become(p)
  PROVE  /\ procs' \in Seq(Proc) /\ procs' # <<>> /\ Len(procs') = Len(procs)
         /\ Me' = p
         /\ \A i \in 1 .. Len(procs) - 1 : procs'[i] = procs[i]
<1>1. Len(procs) \in Nat \ {0} BY EmptySeq
<1>2. Len(procs) \in 1 .. Len(procs) BY <1>1
<1>3. /\ procs' \in Seq(Proc) /\ Len(procs') = Len(procs)
      /\ \A j \in 1 .. Len(procs) : procs'[j] = IF j = Len(procs) THEN p ELSE procs[j]
  BY <1>2, ExceptSeq DEF Become
<1>4. Me' = p BY <1>2, <1>3 DEF Me
<1>5. procs' # <<>> BY <1>1, <1>3, EmptySeq
<1> QED BY <1>1, <1>3, <1>4, <1>5

\* A chain that is not of one process has a parent in it.
LEMMA MoreThanOne == ASSUME NEW n \in Nat \ {0}, n # 1 PROVE n > 1
OBVIOUS

\* The last process is gone, and its parent has become q.
LEMMA ReturnOne ==
  ASSUME procs \in Seq(Proc), Len(procs) > 1, NEW q \in Proc,
         procs' = Append(SubSeq(procs, 1, Len(procs) - 2), q)
  PROVE  /\ procs' \in Seq(Proc) /\ procs' # <<>> /\ Len(procs') = Len(procs) - 1
         /\ Me' = q
         /\ \A i \in 1 .. Len(procs) - 2 : procs'[i] = procs[i]
<1> DEFINE s == SubSeq(procs, 1, Len(procs) - 2)
<1>1. Len(procs) \in Nat BY LenProperties
<1>2. \A i \in 1 .. Len(procs) - 2 : procs[i] \in Proc BY <1>1, ElementOfSeq
<1>3. /\ s \in Seq(Proc) /\ Len(s) = Len(procs) - 2
      /\ \A i \in 1 .. Len(procs) - 2 : s[i] = procs[i]
  <2>1. /\ s \in Seq(Proc)
        /\ Len(s) = IF 1 <= Len(procs) - 2 THEN Len(procs) - 2 - 1 + 1 ELSE 0
        /\ \A i \in 1 .. Len(procs) - 2 - 1 + 1 : s[i] = procs[1 + i - 1]
    BY <1>1, <1>2, SubSeqProperties
  <2> HIDE DEF s
  <2>2. Len(s) = Len(procs) - 2
    <3>1. CASE Len(procs) = 2 BY <2>1, <3>1
    <3>2. CASE Len(procs) > 2
      <4>1. 1 <= Len(procs) - 2 /\ Len(procs) - 2 - 1 + 1 = Len(procs) - 2 BY <1>1, <3>2
      <4> QED BY <2>1, <4>1
    <3>3. Len(procs) = 2 \/ Len(procs) > 2
      <4> DEFINE n == Len(procs)
      <4>1. n \in Nat /\ n > 1 BY <1>1
      <4> HIDE DEF n
      <4>2. n = 2 \/ n > 2 BY <4>1
      <4> QED BY <4>2 DEF n
    <3> QED BY <3>1, <3>2, <3>3
  <2>3. ASSUME NEW i \in 1 .. Len(procs) - 2 PROVE s[i] = procs[i]
    <3>1. i \in 1 .. Len(procs) - 2 - 1 + 1 /\ 1 + i - 1 = i BY <1>1
    <3> QED BY <2>1, <3>1
  <2> QED BY <2>1, <2>2, <2>3
<1> HIDE DEF s
<1>4. procs' = Append(s, q) BY DEF s
<1>5. /\ procs' \in Seq(Proc) /\ procs' # <<>> /\ Len(procs') = Len(s) + 1
      /\ \A i \in 1 .. Len(s) : procs'[i] = s[i]
      /\ procs'[Len(s) + 1] = q
  BY <1>3, <1>4, AppendProperties
<1>6. Me' = q BY <1>5 DEF Me
<1> QED BY <1>1, <1>3, <1>5, <1>6

\* The running process waits as w for a new one.
LEMMA ForkOne ==
  ASSUME procs \in Seq(Proc), procs # <<>>, NEW w \in Proc, NEW c \in Proc,
         procs' = Append([procs EXCEPT ![Len(procs)] = w], c)
  PROVE  /\ procs' \in Seq(Proc) /\ procs' # <<>> /\ Len(procs') = Len(procs) + 1
         /\ Me' = c /\ procs'[Len(procs)] = w
         /\ \A i \in 1 .. Len(procs) - 1 : procs'[i] = procs[i]
<1> DEFINE s == [procs EXCEPT ![Len(procs)] = w]
<1>1. Len(procs) \in Nat \ {0} BY EmptySeq
<1>2. Len(procs) \in 1 .. Len(procs) BY <1>1
<1>3. /\ s \in Seq(Proc) /\ Len(s) = Len(procs)
      /\ \A j \in 1 .. Len(procs) : s[j] = IF j = Len(procs) THEN w ELSE procs[j]
  BY <1>2, ExceptSeq
<1> HIDE DEF s
<1>4. procs' = Append(s, c) BY DEF s
<1>5. /\ procs' \in Seq(Proc) /\ procs' # <<>> /\ Len(procs') = Len(s) + 1
      /\ \A i \in 1 .. Len(s) : procs'[i] = s[i]
      /\ procs'[Len(s) + 1] = c
  BY <1>3, <1>4, AppendProperties
<1>6. Me' = c BY <1>5 DEF Me
<1> QED BY <1>1, <1>2, <1>3, <1>5, <1>6

Procs == procs \in Seq(Proc) /\ ChainInv

\* The running process is the last of the chain.
LEMMA MeInSeq ==
  ASSUME procs \in Seq(Proc), procs # <<>>
  PROVE  Len(procs) \in Nat \ {0} /\ Me \in Proc
<1>1. Len(procs) \in Nat \ {0} BY EmptySeq
<1>2. Len(procs) \in 1 .. Len(procs) BY <1>1
<1> QED BY <1>1, <1>2, ElementOfSeq DEF Me

\* Failures only grow, and what a child does once it is a loop of its own leaves it one.
LEMMA BecomeChain ==
  ASSUME Procs, procs # <<>>, NEW p \in Proc, Become(p),
         p.failed >= Me.failed, p.failed < p.at,
         p.step # "wait", p.step # "open" => p.at <= N,
         p.step \in Children => Me.step \in Children /\ p.at = Me.at /\ p.failed = Me.failed,
         Me.step \in Children /\ p.step \notin Children => p.failed > 0
  PROVE  Procs' /\ procs' # <<>> /\ Me' = p /\ Len(procs') = Len(procs)
<1>1. Len(procs) \in Nat \ {0} /\ Me \in Proc BY MeInSeq DEF Procs
<1>2. /\ procs' \in Seq(Proc) /\ procs' # <<>> /\ Len(procs') = Len(procs)
      /\ Me' = p
      /\ \A i \in 1 .. Len(procs) - 1 : procs'[i] = procs[i]
  BY BecomeOne DEF Procs
<1>a. procs'[Len(procs)] = p BY <1>2 DEF Me
<1>3. ASSUME NEW i \in 1 .. Len(procs') PROVE procs'[i].failed < procs'[i].at
  <2>1. CASE i = Len(procs) BY <1>a, <2>1
  <2>2. CASE i # Len(procs)
    <3>1. i \in 1 .. Len(procs) /\ i \in 1 .. Len(procs) - 1 BY <1>1, <1>2, <2>2
    <3> QED BY <1>2, <3>1 DEF Procs, ChainInv
  <2> QED BY <2>1, <2>2
<1>4. ASSUME NEW i \in 1 .. Len(procs') - 1
      PROVE  procs'[i].step = "wait" /\ procs'[i].at <= N /\ Child(procs'[i], procs'[i + 1])
  <2>1. i \in 1 .. Len(procs) - 1 BY <1>2
  <2>2. procs[i].step = "wait" /\ procs[i].at <= N /\ Child(procs[i], procs[i + 1])
    BY <2>1 DEF Procs, ChainInv
  <2>3. procs'[i] = procs[i] BY <1>2, <2>1
  <2>4. CASE i + 1 = Len(procs)
    <3>1. procs[i + 1] = Me /\ procs'[i + 1] = p BY <1>a, <2>4 DEF Me
    <3>2. Child(procs[i], Me) BY <2>2, <3>1
    <3>3. Child(procs[i], p)
      <4>1. CASE p.step \in Children BY <3>2, <4>1 DEF Child, Children
      <4>2. CASE p.step \notin Children
        <5>1. CASE Me.step \in Children BY <4>2, <5>1 DEF Child, Children
        <5>2. CASE Me.step \notin Children
          <6>1. Me.failed > 0 BY <3>2, <5>2 DEF Child, Children
          <6>2. p.failed > 0 BY <6>1, <1>1 DEF Proc
          <6> QED BY <4>2, <6>2 DEF Child, Children
        <5> QED BY <5>1, <5>2
      <4> QED BY <4>1, <4>2
    <3> QED BY <2>2, <2>3, <3>1, <3>3
  <2>5. CASE i + 1 # Len(procs)
    <3>1. i + 1 \in 1 .. Len(procs) - 1 BY <1>1, <2>1, <2>5
    <3>2. procs'[i + 1] = procs[i + 1] BY <1>2, <3>1
    <3> QED BY <2>2, <2>3, <3>2
  <2> QED BY <2>4, <2>5
<1>5. Len(procs') = 1 => Me'.step \notin Children
  <2> SUFFICES ASSUME Len(procs') = 1 PROVE Me'.step \notin Children OBVIOUS
  <2>1. Me.step \notin Children BY <1>2 DEF Procs, ChainInv
  <2> QED BY <1>2, <2>1
<1>6. ChainInv' BY <1>2, <1>3, <1>4, <1>5 DEF ChainInv
<1> QED BY <1>2, <1>6 DEF Procs
\* The running process works on a file, with fewer failures than files behind it.
LEMMA RunningAt ==
  ASSUME Procs, NEW s, Running(s)
  PROVE  /\ procs # <<>> /\ Len(procs) \in Nat \ {0} /\ Me \in Proc /\ Me.step = s
         /\ Me.at \in Files /\ Me.at + 1 \in 1 .. N + 1
         /\ Me.failed \in 0 .. N /\ Me.failed < Me.at /\ Me.failed + 1 \in 1 .. N
<1>1. procs # <<>> /\ Me.step = s /\ Me.at <= N BY DEF Running
<1>2. Len(procs) \in Nat \ {0} /\ Me \in Proc BY <1>1, MeInSeq DEF Procs
<1>3. Len(procs) \in 1 .. Len(procs) BY <1>2
<1>4. Me.failed < Me.at BY <1>3 DEF Procs, ChainInv, Me
<1>5. Me.at \in 1 .. N + 1 /\ Me.failed \in 0 .. N BY <1>2 DEF Proc
<1> QED BY <1>1, <1>2, <1>4, <1>5, SignAssumption DEF Files

\* Goto, Throw, NextFile and Return keep the chain.
LEMMA GotoChain ==
  ASSUME Procs, NEW t, Running(t), NEW s \in Steps \ {"wait"}, Goto(s),
         t \in Children <=> s \in Children
  PROVE  Procs' /\ procs' # <<>> /\ Me' = [Me EXCEPT !.step = s]
<1> DEFINE p == [Me EXCEPT !.step = s]
<1>1. procs # <<>> /\ Me \in Proc /\ Me.step = t /\ Me.at <= N /\ Me.failed < Me.at
  BY RunningAt DEF Running
<1>2. p \in Proc /\ p.at = Me.at /\ p.failed = Me.failed /\ p.step = s BY <1>1 DEF Proc
<1>3. Become(p) BY DEF Goto
<1>4. p.failed >= Me.failed BY <1>1, <1>2 DEF Proc
<1> HIDE DEF p
<1>5. Procs' /\ procs' # <<>> /\ Me' = p BY <1>1, <1>2, <1>3, <1>4, BecomeChain
<1> QED BY <1>5 DEF p

\* The catch goes on with the next file and one failure more.
LEMMA ThrowChain ==
  ASSUME Procs, NEW t, Running(t), Throw
  PROVE  /\ Procs' /\ procs' # <<>> /\ Me' \in Proc
         /\ Me'.step = "open" /\ Me'.failed > 0 /\ Me'.at = Me.at + 1
<1> DEFINE p == [Me EXCEPT !.at = @ + 1, !.failed = @ + 1, !.step = "open"]
<1>1. /\ procs # <<>> /\ Me \in Proc /\ Me.at + 1 \in 1 .. N + 1 /\ Me.at \in Nat
      /\ Me.failed \in 0 .. N /\ Me.failed < Me.at /\ Me.failed + 1 \in 1 .. N
  BY RunningAt DEF Files
<1>2. p \in Proc /\ p.at = Me.at + 1 /\ p.failed = Me.failed + 1 /\ p.step = "open"
  <2>1. Me.failed + 1 \in 0 .. N /\ "open" \in Steps BY <1>1 DEF Steps
  <2> QED BY <1>1, <2>1 DEF Proc
<1>3. Become(p) BY DEF Throw
<1> HIDE DEF p
<1>4. p.failed >= Me.failed /\ p.failed > 0 /\ p.failed < p.at BY <1>1, <1>2
<1>5. p.step \notin Children BY <1>2 DEF Children
<1>6. Procs' /\ procs' # <<>> /\ Me' = p
  BY <1>1, <1>2, <1>3, <1>4, <1>5, BecomeChain
<1> QED BY <1>2, <1>4, <1>6

\* A file that is done leaves the count of failures as it is.
LEMMA NextFileChain ==
  ASSUME Procs, NEW t, Running(t), t \notin Children, NextFile
  PROVE  /\ Procs' /\ procs' # <<>> /\ Me' \in Proc
         /\ Me'.step = "open" /\ Me'.failed = Me.failed /\ Me'.at = Me.at + 1
<1> DEFINE p == [Me EXCEPT !.at = @ + 1, !.step = "open"]
<1>1. /\ procs # <<>> /\ Me \in Proc /\ Me.at + 1 \in 1 .. N + 1 /\ Me.at \in Nat
      /\ Me.failed \in 0 .. N /\ Me.failed < Me.at /\ Me.step = t
  BY RunningAt DEF Files
<1>2. p \in Proc /\ p.at = Me.at + 1 /\ p.failed = Me.failed /\ p.step = "open"
  BY <1>1 DEF Proc, Steps
<1>3. Become(p) BY DEF NextFile
<1> HIDE DEF p
<1>4. p.failed >= Me.failed /\ p.failed < p.at BY <1>1, <1>2
<1>5. p.step \notin Children BY <1>2 DEF Children
<1>6. Procs' /\ procs' # <<>> /\ Me' = p
  BY <1>1, <1>2, <1>3, <1>4, <1>5, BecomeChain
<1> QED BY <1>2, <1>6

\* A child returns 0 only for the file that its parent waits for, and with the failures
\* that its parent has.
LEMMA ReturnChain ==
  ASSUME Procs, Len(procs) > 1, NEW s, Return(s), s = 0 => Me.step = "allocate"
  PROVE  /\ Procs' /\ procs' # <<>> /\ Me' \in Proc
         /\ s = 0 => Me' = [at |-> Me.at, failed |-> Me.failed, step |-> "map"]
         /\ s # 0 => Me'.step = "open" /\ Me'.failed > 0
<1> DEFINE n == Len(procs)
           parent == procs[n - 1]
           p == IF s = 0 THEN [parent EXCEPT !.step = "map"]
                ELSE [parent EXCEPT !.at = @ + 1, !.failed = @ + 1, !.step = "open"]
<1>1. n \in Nat /\ n > 1 BY LenProperties DEF Procs
<1> HIDE DEF n
<1>a. n - 1 \in 1 .. n - 1 /\ n - 1 \in 1 .. n /\ (n - 1) + 1 = n BY <1>1
<1>2. parent \in Proc BY <1>a, ElementOfSeq DEF Procs, n
<1>3. /\ parent.step = "wait" /\ parent.at <= N /\ parent.failed < parent.at
      /\ Child(parent, procs[(n - 1) + 1])
  BY <1>a DEF Procs, ChainInv, n
<1>4. Child(parent, Me) BY <1>a, <1>3 DEF Me, n
<1> HIDE DEF parent
<1>5. /\ parent.at \in 1 .. N + 1 /\ parent.failed \in 0 .. N /\ N \in Nat
      /\ parent.at <= N /\ parent.failed < parent.at
  BY <1>2, <1>3, SignAssumption DEF Proc
<1>6. /\ p \in Proc /\ p.failed < p.at
      /\ s = 0 => p = [parent EXCEPT !.step = "map"] /\ p.step = "map" /\ p.at = parent.at /\ p.failed = parent.failed
      /\ s # 0 => p.step = "open" /\ p.failed = parent.failed + 1 /\ p.at = parent.at + 1
  <2>1. CASE s = 0 BY <1>2, <1>5, <2>1 DEF Proc, Steps
  <2>2. CASE s # 0
    <3>1. parent.at + 1 \in 1 .. N + 1 /\ parent.failed + 1 \in 0 .. N /\ "open" \in Steps
      BY <1>5 DEF Steps
    <3>2. parent.failed + 1 < parent.at + 1 BY <1>5
    <3> QED BY <1>2, <2>2, <3>1, <3>2 DEF Proc
  <2> QED BY <2>1, <2>2
<1>7. procs' = Append(SubSeq(procs, 1, Len(procs) - 2), p)
  BY DEF Return, p, parent, n
<1> HIDE DEF p
<1>8. /\ procs' \in Seq(Proc) /\ procs' # <<>> /\ Len(procs') = n - 1
      /\ Me' = p
      /\ \A i \in 1 .. n - 2 : procs'[i] = procs[i]
  BY <1>1, <1>6, <1>7, ReturnOne DEF Procs, n
<1>b. procs'[n - 1] = p BY <1>8 DEF Me
<1>c. p.step \in {"map", "open"} /\ p.step # "wait" /\ p.step \notin Children
      /\ (p.step # "open" => p.at <= N)
  BY <1>5, <1>6 DEF Children
<1>9. ASSUME NEW i \in 1 .. Len(procs') PROVE procs'[i].failed < procs'[i].at
  <2>1. CASE i = n - 1 BY <1>6, <1>b, <2>1
  <2>2. CASE i # n - 1
    <3>1. i \in 1 .. n - 2 /\ i \in 1 .. n BY <1>1, <1>8, <2>2
    <3> QED BY <1>8, <3>1 DEF Procs, ChainInv, n
  <2> QED BY <2>1, <2>2
<1>10. ASSUME NEW i \in 1 .. Len(procs') - 1
       PROVE  procs'[i].step = "wait" /\ procs'[i].at <= N /\ Child(procs'[i], procs'[i + 1])
  <2>1. i \in 1 .. n - 2 /\ i \in 1 .. n - 1 BY <1>1, <1>8
  <2>2. procs[i].step = "wait" /\ procs[i].at <= N /\ Child(procs[i], procs[i + 1])
    BY <2>1 DEF Procs, ChainInv, n
  <2>3. procs'[i] = procs[i] BY <1>8, <2>1
  <2>4. CASE i + 1 = n - 1
    <3>1. procs[i + 1] = parent /\ procs'[i + 1] = p BY <1>b, <2>4 DEF parent
    <3>2. Child(procs[i], parent) BY <2>2, <3>1
    <3>3. parent.failed > 0 BY <1>3, <3>2 DEF Child
    <3>4. p.failed > 0 BY <1>5, <1>6, <3>3
    <3>5. Child(procs[i], p) BY <1>c, <3>4 DEF Child, Children
    <3> QED BY <2>2, <2>3, <3>1, <3>5
  <2>5. CASE i + 1 # n - 1
    <3>1. i + 1 \in 1 .. n - 2 BY <1>1, <2>1, <2>5
    <3>2. procs'[i + 1] = procs[i + 1] BY <1>8, <3>1
    <3> QED BY <2>2, <2>3, <3>2
  <2> QED BY <2>4, <2>5
<1>11. ChainInv' BY <1>8, <1>9, <1>10, <1>c DEF ChainInv
<1>12. ASSUME s = 0 PROVE Me' = [at |-> Me.at, failed |-> Me.failed, step |-> "map"]
  <2>1. parent.at = Me.at /\ parent.failed = Me.failed BY <1>4, <1>12 DEF Child
  <2>2. p = [at |-> parent.at, failed |-> parent.failed, step |-> "map"]
    BY <1>2, <1>6, <1>12 DEF Proc
  <2> QED BY <1>8, <2>1, <2>2
<1>13. s # 0 => Me'.step = "open" /\ Me'.failed > 0 BY <1>5, <1>6, <1>8
<1> QED BY <1>6, <1>8, <1>11, <1>12, <1>13 DEF Procs
-----------------------------------------------------------------------------
(* The files.                                                              *)

Data ==
  /\ path \in [Files -> Binaries \cup {None}]
  /\ cs \in [Files -> Binaries \cup {None}]
  /\ cp \in [Files -> Binaries \cup {None}]
  /\ mode \in Modes \cup {None} /\ alter \in BOOLEAN
  /\ status \in 0 .. StatusRange - 1 \cup {None}
  /\ latest \in [Files -> Versions]
  /\ rebuilds \in 0 .. MaxRebuilds /\ runs \in 0 .. MaxRuns

\* The types of the files and the options, and that of the chain.
LEMMA TypeParts == SignTypeOK <=> Data /\ procs \in Seq(Proc)
BY DEF SignTypeOK, Data, Proc

\* A file with a field changed is another file.
LEMMA BinaryFields ==
  ASSUME NEW b \in Binaries
  PROVE  /\ b # None /\ b.code \in Codes /\ b.code.version \in Versions
         /\ b.whole \in BOOLEAN /\ b.covers \in Codes \cup {None}
BY SentinelAssumption DEF Binaries, Codes

\* What the steps do to a binary, and what they leave alone.
LEMMA Linked ==
  ASSUME NEW b \in Binaries
  PROVE  LET c == [b EXCEPT !.code.linked = TRUE]
         IN  c \in Binaries /\ c.code.version = b.code.version /\ c.whole = b.whole
<1>1. [b.code EXCEPT !.linked = TRUE] \in Codes BY BinaryFields DEF Codes
<1> QED BY <1>1, BinaryFields DEF Binaries, Codes

LEMMA AlterKeeps ==
  ASSUME NEW b \in Binaries, alter \in BOOLEAN
  PROVE  Alter(b) \in Binaries /\ Alter(b).code.version = b.code.version /\ Alter(b).whole = b.whole
<1> DEFINE c == [b.code EXCEPT !.altered = b.code.altered \/ alter]
<1>1. (b.code.altered \/ alter) \in BOOLEAN OBVIOUS
<1>2. c \in Codes /\ c.version = b.code.version BY <1>1, BinaryFields DEF Codes
<1>3. Alter(b) = [b EXCEPT !.code = c] BY DEF Alter
<1> HIDE DEF c
<1> QED BY <1>2, <1>3 DEF Binaries

\* Hashing changes what a signature is of, and nothing else.
LEMMA Covered ==
  ASSUME NEW b \in Binaries
  PROVE  LET c == [b EXCEPT !.covers = b.code]
         IN  c \in Binaries /\ c.code = b.code /\ c.whole = b.whole /\ c.covers = c.code
BY BinaryFields DEF Binaries

\* A copy differs from what it is of in being whole or not.
LEMMA Copied ==
  ASSUME NEW b \in Binaries, NEW w \in BOOLEAN
  PROVE  LET c == [b EXCEPT !.whole = w]
         IN  c \in Binaries /\ c.code = b.code /\ c.covers = b.covers /\ c.whole = w
BY DEF Binaries

\* A new build is whole and of its version.
LEMMA FreshType ==
  ASSUME NEW v \in Versions
  PROVE  Fresh(v) \in Binaries /\ Fresh(v).code.version = v /\ Fresh(v).whole
BY DEF Fresh, Binaries, Codes

SafeInv == CurrentInv /\ NeverStale /\ SignedInv /\ SuccessMeansSigned /\ LostInv

\* After a failure there are no temporary files to go on with, and no success to report.
LEMMA Failed ==
  ASSUME SafeInv, procs # <<>>, procs' # <<>>, Me' \in Proc, Me'.step = "open", Me'.failed > 0,
         UNCHANGED status, NeverStale', ~FlushFails => (CopyIsWhole /\ NothingLost)'
  PROVE  SafeInv'
<1>1. status' = None BY DEF SafeInv, SignedInv
<1>2. ~HasCs' /\ ~HasCp' BY DEF HasCs, HasCp
<1>3. Me'.failed # 0 BY DEF Proc
<1>4. CurrentInv' BY <1>2 DEF CurrentInv
<1>5. SignedInv' BY <1>1, <1>2, <1>3 DEF SignedInv
<1>6. SuccessMeansSigned' BY DEF SuccessMeansSigned
<1>7. LostInv' BY <1>2 DEF LostInv
<1> QED BY <1>4, <1>5, <1>6, <1>7 DEF SafeInv

\* A failure loses nothing and reports no success.
LEMMA ThrowSafe ==
  ASSUME Procs, SafeInv, NEW t, Running(t), Throw, UNCHANGED <<disk, rest>>
  PROVE  Procs' /\ SafeInv'
<1>1. /\ Procs' /\ procs' # <<>> /\ Me' \in Proc
      /\ Me'.step = "open" /\ Me'.failed > 0
  BY ThrowChain
<1>2. NeverStale' BY DEF SafeInv, NeverStale, disk, rest
<1>3. ~FlushFails => (CopyIsWhole /\ NothingLost)'
  BY DEF SafeInv, LostInv, CopyIsWhole, NothingLost, disk, rest
<1>4. UNCHANGED status BY DEF rest
<1>5. procs # <<>> BY DEF Running
<1> QED BY <1>1, <1>2, <1>3, <1>4, <1>5, Failed
-----------------------------------------------------------------------------
(* One action at a time.                                                   *)

Inv == Data /\ Procs /\ SafeInv

\* The invariant in the parts that the proofs take it in.
LEMMA InvIsIInv == Inv <=> IInv
BY TypeParts DEF Inv, IInv, SafeInv, Procs

LEMMA ThrowInv ==
  ASSUME Inv, NEW t, Running(t), Throw, UNCHANGED <<disk, rest>>
  PROVE  Inv'
<1>1. Procs' /\ SafeInv' BY ThrowSafe DEF Inv
<1>2. Data' BY DEF Inv, Data, disk, rest
<1> QED BY <1>1, <1>2 DEF Inv

\* What is known of the running process at a step.
LEMMA AtStep ==
  ASSUME Inv, NEW t, Running(t)
  PROVE  /\ procs # <<>> /\ Me \in Proc /\ Me.step = t /\ Me.at \in Files /\ Me.at \in Nat
         /\ path[Me.at] \in Binaries \cup {None}
         /\ cs[Me.at] \in Binaries \cup {None}
         /\ cp[Me.at] \in Binaries \cup {None}
         /\ status = None
BY RunningAt DEF Inv, Data, SafeInv, SignedInv, Files

\* The files behind a process without failures stay signed while it works on the next one.
LEMMA BehindStaysSigned ==
  ASSUME Inv, NEW t, Running(t), UNCHANGED rest, procs' # <<>>, Me' \in Proc,
         Me'.at = Me.at, Me'.failed = Me.failed,
         \A f \in Files : f # Me.at => path'[f] = path[f]
  PROVE  mode' \in {"-S", "-s"} /\ Me'.failed = 0 => \A f \in 1 .. Me'.at - 1 : Signed(f)'
<1> SUFFICES ASSUME mode' \in {"-S", "-s"}, Me'.failed = 0, NEW f \in 1 .. Me'.at - 1
             PROVE  Signed(f)'
  OBVIOUS
<1>1. procs # <<>> /\ Me.at \in Files /\ Me.at \in Nat BY AtStep
<1>2. mode \in {"-S", "-s"} /\ Me.failed = 0 /\ f \in 1 .. Me.at - 1 BY DEF rest
<1>3. Signed(f) BY <1>1, <1>2 DEF Inv, SafeInv, SignedInv
<1>4. f \in Files /\ f # Me.at BY <1>1, <1>2, SignAssumption DEF Files
<1> QED BY <1>3, <1>4 DEF Signed

\* A change in the file itself, of anything but its version, after which the process goes on
\* with the file or with the next one, or counts a failure.
LEMMA InPlaceInv ==
  ASSUME Inv, NEW t, Running(t), Maps(path[Me.at]),
         NEW b \in Binaries, b.code.version = path[Me.at].code.version, b.whole = path[Me.at].whole,
         path' = [path EXCEPT ![Me.at] = b], UNCHANGED <<cs, cp, rest>>,
         Procs', procs' # <<>>, Me' \in Proc, ~HasCs', ~HasCp',
         \/ Me'.at = Me.at /\ Me'.failed = Me.failed
         \/ /\ Me'.at = Me.at + 1 /\ Me'.failed = Me.failed /\ Me'.step = "open"
            /\ mode \in {"-S", "-s"} => b.covers = b.code
         \/ Me'.step = "open" /\ Me'.failed > 0
  PROVE  Inv'
<1> DEFINE a == Me.at
<1>2. procs # <<>> /\ Me \in Proc /\ a \in Files /\ a \in Nat /\ path[a] \in Binaries
  BY AtStep DEF Maps
<1>4. b # None /\ b.code.version \in MachOs /\ (~FlushFails => b.whole)
  BY <1>2, BinaryFields DEF Maps, Inv, SafeInv, LostInv, CopyIsWhole
<1>5. path' = [path EXCEPT ![a] = b] OBVIOUS
<1>6. /\ path' \in [Files -> Binaries \cup {None}]
      /\ path'[a] = b /\ \A f \in Files : f # a => path'[f] = path[f]
  BY <1>2, <1>5 DEF Inv, Data
<1>7. Data' BY <1>6 DEF Inv, Data, rest
<1>10. NeverStale'
  BY <1>2, <1>4, <1>6, BinaryFields DEF Inv, SafeInv, NeverStale, rest
<1>11. SignedInv'
  <2>1. status' = None BY <1>2 DEF Inv, SafeInv, SignedInv, rest
  <2>2. ASSUME mode' \in {"-S", "-s"}, Me'.failed = 0, NEW f \in 1 .. Me'.at - 1 PROVE Signed(f)'
    <3>0. Me'.failed = Me.failed /\ (Me'.at = Me.at \/ Me'.at = Me.at + 1) BY <2>2
    <3>1. mode \in {"-S", "-s"} /\ Me.failed = 0 BY <2>2, <3>0 DEF rest
    <3>2. CASE f = a
      <4>1. Me'.at # Me.at BY <1>2, <2>2, <3>2
      <4>2. b.covers = b.code BY <2>2, <3>1, <4>1
      <4>3. path'[f] = b BY <1>6, <3>2
      <4> QED BY <1>4, <4>2, <4>3 DEF Signed
    <3>3. CASE f # a
      <4>1. f \in 1 .. a - 1 BY <1>2, <2>2, <3>0, <3>3
      <4>2. Signed(f) BY <1>2, <3>1, <4>1 DEF Inv, SafeInv, SignedInv
      <4>3. f \in Files BY <1>2, <4>1, SignAssumption DEF Files
      <4>4. path'[f] = path[f] BY <1>6, <3>3, <4>3
      <4> QED BY <4>2, <4>4 DEF Signed
    <3> QED BY <3>2, <3>3
  <2>3. ~(Me'.step = "copy") BY DEF HasCs
  <2> QED BY <2>1, <2>2, <2>3 DEF SignedInv
<1>12. LostInv'
  <2>1. ~FlushFails => CopyIsWhole'
    <3> SUFFICES ASSUME ~FlushFails, NEW f \in Files, path'[f] # None PROVE path'[f].whole
      BY DEF CopyIsWhole
    <3>1. CASE f = a BY <1>4, <1>6, <3>1
    <3>2. CASE f # a BY <1>6, <3>2 DEF Inv, SafeInv, LostInv, CopyIsWhole
    <3> QED BY <3>1, <3>2
  <2>2. ~FlushFails => NothingLost'
    <3> SUFFICES ASSUME ~FlushFails, NEW f \in Files
                 PROVE  \/ path'[f] # None /\ path'[f].whole
                        \/ /\ cp[f] # None /\ cp[f].whole
                           /\ cp[f].code.version = latest[f] /\ cp[f].covers = cp[f].code
      BY DEF NothingLost, rest
    <3>1. CASE f = a BY <1>4, <1>6, <3>1
    <3>2. CASE f # a BY <1>6, <3>2 DEF Inv, SafeInv, LostInv, NothingLost
    <3> QED BY <3>1, <3>2
  <2>3. ~HasCs' /\ ~HasCp' /\ Me'.step \notin {"drop", "own", "unlink"} BY DEF HasCp
  <2> QED BY <2>1, <2>2, <2>3 DEF LostInv
<1>13. CurrentInv'
  <2>1. ASSUME Me'.step = "sign", mode' # "-S" PROVE Maps(path'[Me'.at])
    <3>1. Me'.at = a BY <2>1
    <3> QED BY <1>4, <1>6, <3>1 DEF Maps
  <2> QED BY <2>1 DEF CurrentInv
<1>14. SuccessMeansSigned' BY DEF SuccessMeansSigned
<1> QED BY <1>7, <1>10, <1>11, <1>12, <1>13, <1>14 DEF Inv, SafeInv

\* The flag is set in the file itself, which stays whole and of its build.
LEMMA SetFlagInv == ASSUME Inv, SetFlag PROVE Inv'
<1> DEFINE b == [path[Me.at] EXCEPT !.code.linked = TRUE]
<1>1. Running("open") /\ mode = "-S" /\ Maps(path[Me.at]) /\ UNCHANGED <<cs, cp, rest>>
      /\ path' = [path EXCEPT ![Me.at].code.linked = TRUE]
  BY DEF SetFlag
<1>2. Me \in Proc /\ path[Me.at] \in Binaries BY <1>1, AtStep DEF Maps
<1>4. b \in Binaries /\ b.code.version = path[Me.at].code.version /\ b.whole = path[Me.at].whole
  BY <1>2, Linked
<1>5. path' = [path EXCEPT ![Me.at] = b] BY <1>1
<1> HIDE DEF b
<1>6. CASE Goto("fork")
  <2>1. Procs' /\ procs' # <<>> /\ Me' = [Me EXCEPT !.step = "fork"]
    BY <1>1, <1>6, GotoChain DEF Inv, Steps, Children
  <2>2. Me' \in Proc /\ Me'.at = Me.at /\ Me'.failed = Me.failed /\ ~HasCs' /\ ~HasCp'
    BY <1>2, <2>1 DEF Proc, Steps, HasCs, HasCp
  <2> QED BY <1>1, <1>4, <1>5, <2>1, <2>2, InPlaceInv
<1>7. CASE Throw
  <2>1. Procs' /\ procs' # <<>> /\ Me' \in Proc /\ Me'.step = "open" /\ Me'.failed > 0
    BY <1>1, <1>7, ThrowChain DEF Inv
  <2>2. ~HasCs' /\ ~HasCp' BY <2>1 DEF HasCs, HasCp
  <2> QED BY <1>1, <1>4, <1>5, <2>1, <2>2, InPlaceInv
<1> QED BY <1>6, <1>7 DEF SetFlag

LEMMA AlterInPlaceInv == ASSUME Inv, AlterInPlace PROVE Inv'
<1> DEFINE b == Alter(path[Me.at])
<1>1. Running("map") /\ mode # "-S" /\ UNCHANGED <<cs, cp, rest>> BY DEF AlterInPlace
<1>2. Me \in Proc /\ path[Me.at] \in Binaries \cup {None} /\ alter \in BOOLEAN
  BY <1>1, AtStep DEF Inv, Data
<1>3. CASE Throw /\ UNCHANGED path
  <2>1. UNCHANGED <<disk, rest>> BY <1>1, <1>3 DEF disk
  <2> QED BY <1>1, <1>3, <2>1, ThrowInv
<1>4. CASE Maps(path[Me.at]) /\ path' = [path EXCEPT ![Me.at] = b]
  <2>2. b \in Binaries /\ b.code.version = path[Me.at].code.version /\ b.whole = path[Me.at].whole
    BY <1>2, <1>4, AlterKeeps DEF Maps
  <2> HIDE DEF b
  <2>3. CASE mode = "-s" /\ Goto("sign")
    <3>2. Procs' /\ procs' # <<>> /\ Me' = [Me EXCEPT !.step = "sign"]
      BY <1>1, <2>3, GotoChain DEF Inv, Steps, Children
    <3>3. mode' = mode BY <1>1 DEF rest
    <3>4. Me' \in Proc /\ Me'.at = Me.at /\ Me'.failed = Me.failed /\ ~HasCs' /\ ~HasCp'
      BY <1>1, <1>2, <3>2, <3>3 DEF Proc, Steps, HasCs, HasCp
    <3> QED BY <1>1, <1>4, <2>2, <3>2, <3>4, InPlaceInv
  <2>4. CASE mode # "-s" /\ NextFile
    <3>2. /\ Procs' /\ procs' # <<>> /\ Me' \in Proc
          /\ Me'.step = "open" /\ Me'.failed = Me.failed /\ Me'.at = Me.at + 1
      BY <1>1, <2>4, NextFileChain DEF Inv, Children
    <3>3. ~HasCs' /\ ~HasCp' BY <3>2 DEF HasCs, HasCp
    <3>4. mode \in {"-S", "-s"} => b.covers = b.code BY <1>1, <2>4
    <3> QED BY <1>1, <1>4, <2>2, <3>2, <3>3, <3>4, InPlaceInv
  <2>5. CASE Throw
    <3>1. Procs' /\ procs' # <<>> /\ Me' \in Proc /\ Me'.step = "open" /\ Me'.failed > 0
      BY <1>1, <2>5, ThrowChain DEF Inv
    <3>2. ~HasCs' /\ ~HasCp' BY <3>1 DEF HasCs, HasCp
    <3> QED BY <1>1, <1>4, <2>2, <3>1, <3>2, InPlaceInv
  <2>6. (mode = "-s" /\ Goto("sign")) \/ (mode # "-s" /\ NextFile) \/ Throw
    BY DEF AlterInPlace
  <2> QED BY <2>3, <2>4, <2>5, <2>6
<1> QED BY <1>3, <1>4 DEF AlterInPlace

\* -s signs the file at hand, or fails at it.
LEMMA RehashInv == ASSUME Inv, Rehash PROVE Inv'
<1> DEFINE b == [path[Me.at] EXCEPT !.covers = path[Me.at].code]
<1>1. Running("sign") /\ mode = "-s" /\ UNCHANGED <<cs, cp, rest>> BY DEF Rehash
<1>2. Me \in Proc /\ path[Me.at] \in Binaries \cup {None} /\ procs # <<>> /\ Me.step = "sign"
  BY <1>1, AtStep
<1>3. CASE ~path[Me.at].room
  <2>1. Throw /\ UNCHANGED <<disk, rest>> BY <1>3 DEF Rehash, disk
  <2> QED BY <1>1, <2>1, ThrowInv
<1>4. CASE path[Me.at].room
  <2>1. path' = [path EXCEPT ![Me.at] = b] /\ NextFile BY <1>4 DEF Rehash
  <2>2. Maps(path[Me.at]) BY <1>1, <1>2 DEF Inv, SafeInv, CurrentInv
  <2>3. b \in Binaries /\ b.code = path[Me.at].code /\ b.whole = path[Me.at].whole /\ b.covers = b.code
    BY <1>2, <2>2, Covered DEF Maps
  <2> HIDE DEF b
  <2>4. /\ Procs' /\ procs' # <<>> /\ Me' \in Proc
        /\ Me'.step = "open" /\ Me'.failed = Me.failed /\ Me'.at = Me.at + 1
    BY <1>1, <2>1, NextFileChain DEF Inv, Children
  <2>5. ~HasCs' /\ ~HasCp' BY <2>4 DEF HasCs, HasCp
  <2>6. b.code.version = path[Me.at].code.version BY <2>3
  <2> QED BY <1>1, <2>1, <2>2, <2>3, <2>4, <2>5, <2>6, InPlaceInv
<1> QED BY <1>3, <1>4

\* A process that goes on with the same file, while nothing on the disk changes.
LEMMA SameDiskInv ==
  ASSUME Inv, NEW t, Running(t), UNCHANGED <<disk, rest>>,
         Procs', procs' # <<>>, Me' \in Proc, Me'.at = Me.at, Me'.failed = Me.failed,
         HasCs' => HasCs, HasCp' => HasCp, Me'.step # "copy",
         Me'.step = "sign" => mode = "-S",
         Me'.step \in {"drop", "own", "unlink"} => Me.step \in {"drop", "own", "unlink"}
  PROVE  Inv'
<1>1. procs # <<>> BY DEF Running
<1>2. /\ path' = path /\ cs' = cs /\ cp' = cp /\ mode' = mode /\ status' = status
      /\ latest' = latest
  BY DEF disk, rest
<1>3. Data' BY <1>2 DEF Inv, Data, rest
<1>4. CurrentInv' BY <1>1, <1>2 DEF Inv, SafeInv, CurrentInv
<1>5. NeverStale' BY <1>2 DEF Inv, SafeInv, NeverStale
<1>6. SignedInv' BY <1>1, <1>2, AtStep, BehindStaysSigned DEF Inv, SafeInv, SignedInv
<1>7. SuccessMeansSigned' BY DEF SuccessMeansSigned
<1>8. ~FlushFails => CopyIsWhole' /\ NothingLost'
  BY <1>2 DEF Inv, SafeInv, LostInv, CopyIsWhole, NothingLost
<1>9. LostInv'
  BY <1>1, <1>2, <1>8 DEF Inv, SafeInv, LostInv, HasCp
<1> QED BY <1>3, <1>4, <1>5, <1>6, <1>7, <1>9 DEF Inv, SafeInv
LEMMA OpenInv == ASSUME Inv, OpenFails \/ OpenInPlace PROVE Inv'
<1>1. CASE OpenFails BY <1>1, ThrowInv DEF OpenFails
<1>2. CASE OpenInPlace
  <2>1. Running("open") /\ mode # "-S" /\ Goto("map") /\ UNCHANGED <<disk, rest>>
    BY <1>2 DEF OpenInPlace
  <2>2. Me \in Proc BY <2>1, AtStep
  <2>3. Procs' /\ procs' # <<>> /\ Me' = [Me EXCEPT !.step = "map"]
    BY <2>1, GotoChain DEF Inv, Steps, Children
  <2>4. Me' \in Proc /\ Me'.at = Me.at /\ Me'.failed = Me.failed /\ Me'.step = "map"
    BY <2>2, <2>3 DEF Proc, Steps
  <2>5. ~HasCs' /\ ~HasCp' BY <2>1, <2>4 DEF HasCs, HasCp, rest
  <2> QED BY <2>1, <2>3, <2>4, <2>5, SameDiskInv
<1> QED BY <1>1, <1>2

LEMMA OwnInv == ASSUME Inv, Own PROVE Inv'
<1>1. Running("own") /\ UNCHANGED <<disk, rest>> BY DEF Own
<1>2. CASE Throw BY <1>1, <1>2, ThrowInv
<1>3. CASE Goto("unlink")
  <2>1. Procs' /\ procs' # <<>> /\ Me' = [Me EXCEPT !.step = "unlink"]
    BY <1>1, <1>3, GotoChain DEF Inv, Steps, Children
  <2>2. Me \in Proc /\ Me.step = "own" BY <1>1, AtStep
  <2>3. Me' \in Proc /\ Me'.at = Me.at /\ Me'.failed = Me.failed /\ Me'.step = "unlink"
    BY <2>1, <2>2 DEF Proc, Steps
  <2>4. ~HasCs' /\ HasCp BY <2>2, <2>3 DEF HasCs, HasCp
  <2> QED BY <1>1, <2>1, <2>2, <2>3, <2>4, SameDiskInv
<1> QED BY <1>2, <1>3 DEF Own

LEMMA ExecInv == ASSUME Inv, Exec PROVE Inv'
<1>1. Running("exec") /\ UNCHANGED <<disk, rest>> BY DEF Exec
<1>2. CASE Throw BY <1>1, <1>2, ThrowInv
<1>3. CASE Goto("allocate")
  <2>1. Procs' /\ procs' # <<>> /\ Me' = [Me EXCEPT !.step = "allocate"]
    BY <1>1, <1>3, GotoChain DEF Inv, Steps, Children
  <2>2. Me \in Proc BY <1>1, AtStep
  <2>3. Me' \in Proc /\ Me'.at = Me.at /\ Me'.failed = Me.failed /\ Me'.step = "allocate"
    BY <2>1, <2>2 DEF Proc, Steps
  <2>4. ~HasCs' /\ ~HasCp' BY <2>3 DEF HasCs, HasCp
  <2> QED BY <1>1, <2>1, <2>3, <2>4, SameDiskInv
<1> QED BY <1>2, <1>3 DEF Exec

\* The child stands for its parent until it has run codesign_allocate.
LEMMA ForkInv == ASSUME Inv, Fork PROVE Inv'
<1> DEFINE w == [Me EXCEPT !.step = "wait"]
           c == [Me EXCEPT !.step = "exec"]
           n == Len(procs)
<1>1. Running("fork") /\ UNCHANGED <<disk, rest>> BY DEF Fork
<1>2. CASE Throw BY <1>1, <1>2, ThrowInv
<1>3. CASE procs' = Append([procs EXCEPT ![Len(procs)] = w], c)
  <2>1. /\ procs # <<>> /\ n \in Nat \ {0} /\ Me \in Proc /\ Me.step = "fork"
        /\ Me.at \in Files /\ Me.at <= N /\ Me.failed < Me.at
    BY <1>1, RunningAt DEF Inv, Running
  <2>2. /\ w \in Proc /\ w.at = Me.at /\ w.failed = Me.failed /\ w.step = "wait"
        /\ c \in Proc /\ c.at = Me.at /\ c.failed = Me.failed /\ c.step = "exec"
    BY <2>1 DEF Proc, Steps
  <2> HIDE DEF w, c
  <2>3. /\ procs' \in Seq(Proc) /\ procs' # <<>> /\ Len(procs') = n + 1
        /\ Me' = c /\ procs'[n] = w
        /\ \A i \in 1 .. n - 1 : procs'[i] = procs[i]
    BY <1>3, <2>1, <2>2, ForkOne DEF Inv, Procs
  <2>a. procs'[n + 1] = c BY <2>3 DEF Me
  <2>b. procs[n] = Me BY DEF Me
  <2> HIDE DEF n
  <2>4. ASSUME NEW i \in 1 .. Len(procs') PROVE procs'[i].failed < procs'[i].at
    <3>1. CASE i \in {n, n + 1} BY <2>1, <2>2, <2>3, <2>a, <3>1
    <3>2. CASE i \notin {n, n + 1}
      <4>1. i \in 1 .. n - 1 /\ i \in 1 .. n BY <2>1, <2>3, <3>2
      <4> QED BY <2>3, <4>1 DEF Inv, Procs, ChainInv, n
    <3> QED BY <3>1, <3>2
  <2>5. ASSUME NEW i \in 1 .. Len(procs') - 1
        PROVE  procs'[i].step = "wait" /\ procs'[i].at <= N /\ Child(procs'[i], procs'[i + 1])
    <3>1. CASE i = n BY <2>1, <2>2, <2>3, <2>a, <3>1 DEF Child
    <3>2. CASE i # n
      <4>1. i \in 1 .. n - 1 BY <2>1, <2>3, <3>2
      <4>2. procs[i].step = "wait" /\ procs[i].at <= N /\ Child(procs[i], procs[i + 1])
        BY <4>1 DEF Inv, Procs, ChainInv, n
      <4>3. procs'[i] = procs[i] BY <2>3, <4>1
      <4>4. CASE i + 1 = n
        <5>1. Child(procs[i], Me) BY <2>b, <4>2, <4>4
        <5>2. Child(procs[i], w) BY <2>1, <2>2, <5>1 DEF Child
        <5>3. procs'[i + 1] = w BY <2>3, <4>4
        <5> QED BY <4>2, <4>3, <5>2, <5>3
      <4>5. CASE i + 1 # n
        <5>1. i + 1 \in 1 .. n - 1 BY <2>1, <4>1, <4>5
        <5> QED BY <2>3, <4>2, <4>3, <5>1
      <4> QED BY <4>4, <4>5
    <3> QED BY <3>1, <3>2
  <2>6. Len(procs') # 1 BY <2>1, <2>3
  <2>7. ChainInv' BY <2>1, <2>2, <2>3, <2>4, <2>5, <2>6 DEF ChainInv
  <2>8. ~HasCs' /\ ~HasCp' BY <2>2, <2>3 DEF HasCs, HasCp
  <2> QED BY <1>1, <2>2, <2>3, <2>7, <2>8, SameDiskInv DEF Procs
<1> QED BY <1>2, <1>3 DEF Fork
\* What a process knows of the temporary files that it goes on with.
Prepared ==
  /\ HasCs => /\ cs[Me.at] # None /\ cs[Me.at].code.version = latest[Me.at]
              /\ Me.step = "copy" => cs[Me.at].covers = cs[Me.at].code
  /\ HasCp => /\ cp[Me.at] # None /\ cp[Me.at].code.version = latest[Me.at]
              /\ cp[Me.at].covers = cp[Me.at].code
  /\ Me.step = "sign" => mode = "-S"
  /\ ~FlushFails => /\ HasCs \/ Me.step \in {"drop", "own", "unlink"} => path[Me.at] # None
                    /\ HasCp => cp[Me.at].whole

\* Work on the temporary files of a file that is still there.
TempsInv ==
  /\ cs \in [Files -> Binaries \cup {None}]
  /\ cp \in [Files -> Binaries \cup {None}]
  /\ ~FlushFails => NothingLost

\* A step that leaves the files in their places, and is ready for the next one.
LEMMA FilesKeptInv ==
  ASSUME Inv, NEW t, Running(t), UNCHANGED <<path, rest>>, TempsInv',
         Procs', procs' # <<>>, Me' \in Proc,
         \/ Me'.step = "open" /\ Me'.failed > 0
         \/ Me'.at = Me.at /\ Me'.failed = Me.failed /\ Prepared'
  PROVE  Inv'
<1>1. procs # <<>> BY DEF Running
<1>2. path' = path /\ mode' = mode /\ status' = status /\ latest' = latest BY DEF rest
<1>3. Data' BY <1>2 DEF Inv, Data, rest, TempsInv
<1>4. NeverStale' BY <1>2 DEF Inv, SafeInv, NeverStale
<1>5. ~FlushFails => CopyIsWhole' /\ NothingLost'
  BY <1>2 DEF Inv, SafeInv, LostInv, CopyIsWhole, TempsInv
<1>6. CASE Me'.step = "open" /\ Me'.failed > 0
  <2>1. SafeInv' BY <1>1, <1>2, <1>4, <1>5, <1>6, Failed DEF Inv
  <2> QED BY <1>3, <2>1 DEF Inv
<1>7. CASE Me'.at = Me.at /\ Me'.failed = Me.failed /\ Prepared'
  <2>1. CurrentInv' BY <1>7 DEF CurrentInv, Prepared
  <2>2. mode' \in {"-S", "-s"} /\ Me'.failed = 0 => \A f \in 1 .. Me'.at - 1 : Signed(f)'
    BY <1>2, <1>7, BehindStaysSigned
  <2>3. status' = None BY <1>2, AtStep
  <2>4. SignedInv' BY <1>7, <2>2, <2>3 DEF SignedInv, Prepared, HasCs
  <2>5. LostInv' BY <1>5, <1>7 DEF LostInv, Prepared
  <2>6. SuccessMeansSigned' BY DEF SuccessMeansSigned
  <2> QED BY <1>3, <1>4, <2>1, <2>4, <2>5, <2>6 DEF Inv, SafeInv
<1> QED BY <1>6, <1>7

\* .f.cs does not count for what may be lost.
LEMMA CsOnly ==
  ASSUME Inv, UNCHANGED <<path, cp, rest>>, cs' \in [Files -> Binaries \cup {None}]
  PROVE  TempsInv'
<1>1. path' = path /\ cp' = cp /\ latest' = latest BY DEF rest
<1> QED BY <1>1 DEF Inv, Data, SafeInv, LostInv, NothingLost, TempsInv

LEMMA AlterCopyInv == ASSUME Inv, AlterCopy PROVE Inv'
<1> DEFINE b == Alter(cs[Me.at])
<1>1. Running("map") /\ mode = "-S" /\ UNCHANGED <<path, cp, rest>> BY DEF AlterCopy
<1>2. /\ Me \in Proc /\ Me.at \in Files /\ Me.step = "map" /\ procs # <<>>
      /\ cs[Me.at] \in Binaries \cup {None} /\ alter \in BOOLEAN
  BY <1>1, AtStep DEF Inv, Data
<1>3. CASE Throw /\ UNCHANGED cs
  <2>1. UNCHANGED <<disk, rest>> BY <1>1, <1>3 DEF disk
  <2> QED BY <1>1, <1>3, <2>1, ThrowInv
<1>4. CASE Maps(cs[Me.at]) /\ cs' = [cs EXCEPT ![Me.at] = b] /\ Goto("sign")
  <2>1. cs' = [cs EXCEPT ![Me.at] = b] /\ Goto("sign") BY <1>4
  <2>2. b \in Binaries /\ b.code.version = cs[Me.at].code.version /\ b # None
    BY <1>2, <1>4, AlterKeeps, BinaryFields DEF Maps
  <2> HIDE DEF b
  <2>3. cs' \in [Files -> Binaries \cup {None}] /\ cs'[Me.at] = b
    BY <1>2, <2>1, <2>2 DEF Inv, Data
  <2>4. Procs' /\ procs' # <<>> /\ Me' = [Me EXCEPT !.step = "sign"]
    BY <1>1, <2>1, GotoChain DEF Inv, Steps, Children
  <2>5. Me' \in Proc /\ Me'.at = Me.at /\ Me'.failed = Me.failed /\ Me'.step = "sign"
    BY <1>2, <2>4 DEF Proc, Steps
  <2>6. HasCs BY <1>1, <1>2 DEF HasCs
  <2>7. ~HasCp' /\ Me'.step \notin {"drop", "own", "unlink"} BY <2>5 DEF HasCp
  <2>8. cs[Me.at].code.version = latest[Me.at] BY <1>2, <2>6 DEF Inv, SafeInv, CurrentInv
  <2>9. ~FlushFails => path[Me.at] # None BY <1>2, <2>6 DEF Inv, SafeInv, LostInv
  <2>10. path' = path /\ latest' = latest /\ mode' = mode BY <1>1 DEF rest
  <2>11. Prepared' BY <1>1, <2>2, <2>3, <2>5, <2>7, <2>8, <2>9, <2>10 DEF Prepared
  <2>12. TempsInv' BY <1>1, <2>3, CsOnly
  <2> QED BY <1>1, <2>4, <2>5, <2>11, <2>12, FilesKeptInv
<1> QED BY <1>3, <1>4 DEF AlterCopy

LEMMA SignInv == ASSUME Inv, Sign PROVE Inv'
<1> DEFINE b == [cs[Me.at] EXCEPT !.covers = cs[Me.at].code]
<1>1. Running("sign") /\ mode = "-S" /\ UNCHANGED <<path, cp, rest>> BY DEF Sign
<1>2. /\ Me \in Proc /\ Me.at \in Files /\ Me.step = "sign" /\ procs # <<>>
      /\ cs[Me.at] \in Binaries \cup {None}
  BY <1>1, AtStep
<1>3. CASE ~cs[Me.at].room
  <2>1. Throw /\ UNCHANGED <<disk, rest>> BY <1>3 DEF Sign, disk
  <2> QED BY <1>1, <2>1, ThrowInv
<1>4. CASE cs[Me.at].room
  <2>1. cs' = [cs EXCEPT ![Me.at] = b] /\ Goto("copy") BY <1>4 DEF Sign
  <2>2. HasCs BY <1>1, <1>2 DEF HasCs
  <2>3. cs[Me.at] # None /\ cs[Me.at].code.version = latest[Me.at]
    BY <1>2, <2>2 DEF Inv, SafeInv, CurrentInv
  <2>4. b \in Binaries /\ b.code = cs[Me.at].code /\ b.covers = b.code /\ b # None
    BY <1>2, <2>3, Covered, BinaryFields
  <2> HIDE DEF b
  <2>5. cs' \in [Files -> Binaries \cup {None}] /\ cs'[Me.at] = b
    BY <1>2, <2>1, <2>4 DEF Inv, Data
  <2>6. Procs' /\ procs' # <<>> /\ Me' = [Me EXCEPT !.step = "copy"]
    BY <1>1, <2>1, GotoChain DEF Inv, Steps, Children
  <2>7. Me' \in Proc /\ Me'.at = Me.at /\ Me'.failed = Me.failed /\ Me'.step = "copy"
    BY <1>2, <2>6 DEF Proc, Steps
  <2>8. ~HasCp' BY <2>7 DEF HasCp
  <2>9. ~FlushFails => path[Me.at] # None BY <1>2, <2>2 DEF Inv, SafeInv, LostInv
  <2>10. path' = path /\ latest' = latest /\ mode' = mode BY <1>1 DEF rest
  <2>11. Prepared' BY <2>3, <2>4, <2>5, <2>7, <2>8, <2>9, <2>10 DEF Prepared
  <2>12. TempsInv' BY <1>1, <2>5, CsOnly
  <2> QED BY <1>1, <2>6, <2>7, <2>11, <2>12, FilesKeptInv
<1> QED BY <1>3, <1>4
\* The copy is of the signed code; the file itself is still there.
LEMMA CopyInv == ASSUME Inv, Copy PROVE Inv'
<1>1. Running("copy") /\ UNCHANGED <<path, cs, rest>> BY DEF Copy
<1>2. /\ Me \in Proc /\ Me.at \in Files /\ Me.step = "copy" /\ procs # <<>>
      /\ cs[Me.at] \in Binaries \cup {None} /\ path[Me.at] \in Binaries \cup {None}
  BY <1>1, AtStep
<1>3. HasCs BY <1>2 DEF HasCs
<1>4. /\ cs[Me.at] # None /\ cs[Me.at].code.version = latest[Me.at]
      /\ cs[Me.at].covers = cs[Me.at].code
  BY <1>2, <1>3 DEF Inv, SafeInv, CurrentInv, SignedInv
<1>5. ~FlushFails => path[Me.at] # None /\ path[Me.at].whole
  BY <1>2, <1>3 DEF Inv, SafeInv, LostInv, CopyIsWhole
<1>6. path' = path /\ latest' = latest /\ mode' = mode BY <1>1 DEF rest
<1>7. ASSUME NEW w \in BOOLEAN, cp' = [cp EXCEPT ![Me.at] = [cs[Me.at] EXCEPT !.whole = w]]
      PROVE  /\ TempsInv'
             /\ cp'[Me.at] # None /\ cp'[Me.at].code.version = latest[Me.at]
             /\ cp'[Me.at].covers = cp'[Me.at].code /\ cp'[Me.at].whole = w
  <2> DEFINE b == [cs[Me.at] EXCEPT !.whole = w]
  <2>1. /\ b \in Binaries /\ b.code = cs[Me.at].code /\ b.covers = cs[Me.at].covers
        /\ b.whole = w /\ b # None
    BY <1>2, <1>4, Copied, BinaryFields
  <2>2. cp' = [cp EXCEPT ![Me.at] = b] BY <1>7
  <2> HIDE DEF b
  <2>3. /\ cp' \in [Files -> Binaries \cup {None}] /\ cp'[Me.at] = b
        /\ \A f \in Files : f # Me.at => cp'[f] = cp[f]
    BY <1>2, <2>1, <2>2 DEF Inv, Data
  <2>4. ~FlushFails => NothingLost'
    <3> SUFFICES ASSUME ~FlushFails, NEW f \in Files
                 PROVE  \/ path[f] # None /\ path[f].whole
                        \/ /\ cp'[f] # None /\ cp'[f].whole
                           /\ cp'[f].code.version = latest[f] /\ cp'[f].covers = cp'[f].code
      BY <1>6 DEF NothingLost
    <3>1. CASE f = Me.at BY <1>5, <3>1
    <3>2. CASE f # Me.at BY <2>3, <3>2 DEF Inv, SafeInv, LostInv, NothingLost
    <3> QED BY <3>1, <3>2
  <2>5. cs' \in [Files -> Binaries \cup {None}] BY <1>1 DEF Inv, Data
  <2> QED BY <1>4, <2>1, <2>3, <2>4, <2>5 DEF TempsInv
<1>8. ASSUME NEW w \in {TRUE} \cup {~FlushFails},
             cp' = [cp EXCEPT ![Me.at] = [cs[Me.at] EXCEPT !.whole = w]], Goto("drop")
      PROVE  Inv'
  <2>1. w \in BOOLEAN /\ (~FlushFails => w) BY <1>8
  <2>2. /\ TempsInv'
        /\ cp'[Me.at] # None /\ cp'[Me.at].code.version = latest[Me.at]
        /\ cp'[Me.at].covers = cp'[Me.at].code /\ cp'[Me.at].whole = w
    BY <1>7, <1>8, <2>1
  <2>3. Procs' /\ procs' # <<>> /\ Me' = [Me EXCEPT !.step = "drop"]
    BY <1>1, <1>8, GotoChain DEF Inv, Steps, Children
  <2>4. Me' \in Proc /\ Me'.at = Me.at /\ Me'.failed = Me.failed /\ Me'.step = "drop"
    BY <1>2, <2>3 DEF Proc, Steps
  <2>5. ~HasCs' BY <2>4 DEF HasCs
  <2>6. Prepared' BY <1>5, <1>6, <2>1, <2>2, <2>4, <2>5 DEF Prepared
  <2> QED BY <1>1, <2>2, <2>3, <2>4, <2>6, FilesKeptInv
<1>9. CASE cp' = [cp EXCEPT ![Me.at] = [cs[Me.at] EXCEPT !.whole = FALSE]] /\ Throw
  <2>1. TempsInv' BY <1>7, <1>9
  <2>2. /\ Procs' /\ procs' # <<>> /\ Me' \in Proc
        /\ Me'.step = "open" /\ Me'.failed > 0
    BY <1>1, <1>9, ThrowChain DEF Inv
  <2> QED BY <1>1, <2>1, <2>2, FilesKeptInv
<1> QED BY <1>8, <1>9 DEF Copy

\* .f.cs goes once it has been copied.
LEMMA DropTempInv == ASSUME Inv, DropTemp PROVE Inv'
<1>1. Running("drop") /\ UNCHANGED <<path, cp, rest>> BY DEF DropTemp
<1>2. /\ Me \in Proc /\ Me.at \in Files /\ Me.step = "drop" /\ procs # <<>>
  BY <1>1, AtStep
<1>3. CASE Throw /\ UNCHANGED cs
  <2>1. UNCHANGED <<disk, rest>> BY <1>1, <1>3 DEF disk
  <2> QED BY <1>1, <1>3, <2>1, ThrowInv
<1>4. CASE cs' = [cs EXCEPT ![Me.at] = None] /\ Goto("own")
  <2>1. cs' \in [Files -> Binaries \cup {None}] BY <1>2, <1>4 DEF Inv, Data
  <2>2. TempsInv' BY <1>1, <2>1, CsOnly
  <2>3. Procs' /\ procs' # <<>> /\ Me' = [Me EXCEPT !.step = "own"]
    BY <1>1, <1>4, GotoChain DEF Inv, Steps, Children
  <2>4. Me' \in Proc /\ Me'.at = Me.at /\ Me'.failed = Me.failed /\ Me'.step = "own"
    BY <1>2, <2>3 DEF Proc, Steps
  <2>5. HasCp BY <1>2 DEF HasCp
  <2>6. /\ cp[Me.at] # None /\ cp[Me.at].code.version = latest[Me.at]
        /\ cp[Me.at].covers = cp[Me.at].code
        /\ ~FlushFails => path[Me.at] # None /\ cp[Me.at].whole
    BY <1>2, <2>5 DEF Inv, SafeInv, CurrentInv, SignedInv, LostInv
  <2>7. path' = path /\ cp' = cp /\ latest' = latest BY <1>1 DEF rest
  <2>8. ~HasCs' /\ Me'.step # "sign" BY <2>4 DEF HasCs
  <2>9. Prepared' BY <2>4, <2>6, <2>7, <2>8 DEF Prepared
  <2> QED BY <1>1, <2>2, <2>3, <2>4, <2>9, FilesKeptInv
<1> QED BY <1>3, <1>4 DEF DropTemp

\* codesign_allocate copies the file that is there, which is of the last build.
LEMMA CodesignAllocateInv == ASSUME Inv, CodesignAllocate PROVE Inv'
<1> DEFINE m == [at |-> Me.at, failed |-> Me.failed, step |-> "map"]
<1>1. Running("allocate") /\ UNCHANGED <<path, cp, rest>> BY DEF CodesignAllocate
<1>2. /\ Me \in Proc /\ Me.at \in Files /\ Me.step = "allocate" /\ procs # <<>>
      /\ path[Me.at] \in Binaries \cup {None} /\ Len(procs) \in Nat \ {0}
  BY <1>1, AtStep, RunningAt DEF Inv
<1>3. Len(procs) > 1
  <2>1. Len(procs) # 1 BY <1>2 DEF Inv, Procs, ChainInv, Children
  <2> QED BY <1>2, <2>1, MoreThanOne
<1>4. CASE /\ path[Me.at] # None
           /\ cs' = [cs EXCEPT ![Me.at] = [path[Me.at] EXCEPT !.room = TRUE, !.covers = None]]
           /\ Return(0)
  <2> DEFINE b == [path[Me.at] EXCEPT !.room = TRUE, !.covers = None]
  <2>1. b \in Binaries /\ b.code = path[Me.at].code /\ b # None
    <3>1. path[Me.at] \in Binaries BY <1>2, <1>4
    <3>2. b \in Binaries /\ b.code = path[Me.at].code BY <3>1 DEF Binaries
    <3> QED BY <3>2, BinaryFields
  <2>2. cs' = [cs EXCEPT ![Me.at] = b] BY <1>4
  <2> HIDE DEF b
  <2>3. cs' \in [Files -> Binaries \cup {None}] /\ cs'[Me.at] = b
    BY <1>2, <2>1, <2>2 DEF Inv, Data
  <2>4. TempsInv' BY <1>1, <2>3, CsOnly
  <2>5. Procs' /\ procs' # <<>> /\ Me' \in Proc /\ Me' = m
    BY <1>2, <1>3, <1>4, ReturnChain DEF Inv
  <2>6. Me'.at = Me.at /\ Me'.failed = Me.failed /\ Me'.step = "map" BY <2>5
  <2>7. ~HasCp' /\ Me'.step \notin {"drop", "own", "unlink", "sign", "copy"} BY <2>6 DEF HasCp
  <2>8. path[Me.at] # None /\ b.code.version = latest[Me.at]
    BY <1>2, <1>4, <2>1 DEF Inv, SafeInv, NeverStale
  <2>9. path' = path /\ latest' = latest BY <1>1 DEF rest
  <2>10. Prepared' BY <2>1, <2>3, <2>6, <2>7, <2>8, <2>9 DEF Prepared
  <2> QED BY <1>1, <2>4, <2>5, <2>6, <2>10, FilesKeptInv
<1>5. CASE /\ \/ UNCHANGED cs
              \/ path[Me.at] # None /\ cs' = [cs EXCEPT ![Me.at] = [path[Me.at] EXCEPT !.whole = FALSE]]
           /\ Return(1)
  <2>1. cs' \in [Files -> Binaries \cup {None}]
    <3>1. CASE UNCHANGED cs BY <3>1 DEF Inv, Data
    <3>2. CASE path[Me.at] # None /\ cs' = [cs EXCEPT ![Me.at] = [path[Me.at] EXCEPT !.whole = FALSE]]
      <4>1. [path[Me.at] EXCEPT !.whole = FALSE] \in Binaries BY <1>2, <3>2, Copied
      <4> QED BY <1>2, <3>2, <4>1 DEF Inv, Data
    <3> QED BY <1>5, <3>1, <3>2
  <2>2. TempsInv' BY <1>1, <2>1, CsOnly
  <2>3. Procs' /\ procs' # <<>> /\ Me' \in Proc /\ Me'.step = "open" /\ Me'.failed > 0
    BY <1>2, <1>3, <1>5, ReturnChain DEF Inv
  <2> QED BY <1>1, <2>2, <2>3, FilesKeptInv
<1> QED BY <1>4, <1>5 DEF CodesignAllocate
\* From here to the rename the copy is the only one.
LEMMA UnlinkInv == ASSUME Inv, Unlink PROVE Inv'
<1>1. Running("unlink") /\ UNCHANGED <<cs, cp, rest>> BY DEF Unlink
<1>2. Me \in Proc /\ Me.at \in Files /\ Me.step = "unlink" /\ procs # <<>> BY <1>1, AtStep
<1>3. CASE Throw /\ UNCHANGED path
  <2>1. UNCHANGED <<disk, rest>> BY <1>1, <1>3 DEF disk
  <2> QED BY <1>1, <1>3, <2>1, ThrowInv
<1>4. CASE path' = [path EXCEPT ![Me.at] = None] /\ Goto("rename")
  <2>1. HasCp BY <1>2 DEF HasCp
  <2>2. /\ cp[Me.at] # None /\ cp[Me.at].code.version = latest[Me.at]
        /\ cp[Me.at].covers = cp[Me.at].code
        /\ ~FlushFails => cp[Me.at].whole
    BY <1>2, <2>1 DEF Inv, SafeInv, CurrentInv, SignedInv, LostInv
  <2>3. /\ path' \in [Files -> Binaries \cup {None}] /\ path'[Me.at] = None
        /\ \A f \in Files : f # Me.at => path'[f] = path[f]
    BY <1>2, <1>4 DEF Inv, Data
  <2>4. cs' = cs /\ cp' = cp /\ latest' = latest /\ mode' = mode /\ status' = status
    BY <1>1 DEF rest
  <2>5. Procs' /\ procs' # <<>> /\ Me' = [Me EXCEPT !.step = "rename"]
    BY <1>1, <1>4, GotoChain DEF Inv, Steps, Children
  <2>6. Me' \in Proc /\ Me'.at = Me.at /\ Me'.failed = Me.failed /\ Me'.step = "rename"
    BY <1>2, <2>5 DEF Proc, Steps
  <2>7. ~HasCs' BY <2>6 DEF HasCs
  <2>8. Data' BY <1>1, <2>3 DEF Inv, Data, rest
  <2>9. CurrentInv' BY <2>2, <2>4, <2>6, <2>7 DEF CurrentInv
  <2>10. NeverStale'
    BY <2>3, <2>4 DEF Inv, SafeInv, NeverStale
  <2>11. SignedInv'
    <3>1. mode' \in {"-S", "-s"} /\ Me'.failed = 0 => \A f \in 1 .. Me'.at - 1 : Signed(f)'
      BY <1>1, <2>3, <2>5, <2>6, BehindStaysSigned
    <3>2. status' = None BY <1>1, <2>4, AtStep
    <3> QED BY <2>2, <2>4, <2>6, <3>1, <3>2 DEF SignedInv
  <2>12. LostInv'
    <3>1. ~FlushFails => CopyIsWhole' BY <2>3 DEF Inv, SafeInv, LostInv, CopyIsWhole
    <3>2. ~FlushFails => NothingLost'
      <4> SUFFICES ASSUME ~FlushFails, NEW f \in Files
                   PROVE  \/ path'[f] # None /\ path'[f].whole
                          \/ /\ cp[f] # None /\ cp[f].whole
                             /\ cp[f].code.version = latest[f] /\ cp[f].covers = cp[f].code
        BY <2>4 DEF NothingLost
      <4>1. CASE f = Me.at BY <2>2, <4>1
      <4>2. CASE f # Me.at BY <2>3, <4>2 DEF Inv, SafeInv, LostInv, NothingLost
      <4> QED BY <4>1, <4>2
    <3> QED BY <2>2, <2>4, <2>6, <2>7, <3>1, <3>2 DEF LostInv
  <2>13. SuccessMeansSigned' BY <2>5 DEF SuccessMeansSigned
  <2> QED BY <2>5, <2>8, <2>9, <2>10, <2>11, <2>12, <2>13 DEF Inv, SafeInv
<1> QED BY <1>3, <1>4 DEF Unlink

\* What is renamed over the file is signed, of the last build, and whole unless the flush
\* may fail.
LEMMA RenameInv == ASSUME Inv, Rename PROVE Inv'
<1>1. Running("rename") /\ UNCHANGED <<cs, rest>> BY DEF Rename
<1>2. /\ Me \in Proc /\ Me.at \in Files /\ Me.at \in Nat /\ Me.step = "rename" /\ procs # <<>>
      /\ cp[Me.at] \in Binaries \cup {None}
  BY <1>1, AtStep
<1>3. CASE Throw /\ UNCHANGED <<path, cp>>
  <2>1. UNCHANGED <<disk, rest>> BY <1>1, <1>3 DEF disk
  <2> QED BY <1>1, <1>3, <2>1, ThrowInv
<1>4. CASE /\ path' = [path EXCEPT ![Me.at] = cp[Me.at]]
           /\ cp' = [cp EXCEPT ![Me.at] = None]
           /\ NextFile
  <2>1. HasCp BY <1>2 DEF HasCp
  <2>2. /\ cp[Me.at] # None /\ cp[Me.at].code.version = latest[Me.at]
        /\ cp[Me.at].covers = cp[Me.at].code
        /\ ~FlushFails => cp[Me.at].whole
    BY <1>2, <2>1 DEF Inv, SafeInv, CurrentInv, SignedInv, LostInv
  <2>3. /\ path' \in [Files -> Binaries \cup {None}] /\ path'[Me.at] = cp[Me.at]
        /\ \A f \in Files : f # Me.at => path'[f] = path[f]
    BY <1>2, <1>4 DEF Inv, Data
  <2>4. /\ cp' \in [Files -> Binaries \cup {None}]
        /\ \A f \in Files : f # Me.at => cp'[f] = cp[f]
    BY <1>2, <1>4 DEF Inv, Data
  <2>5. cs' = cs /\ latest' = latest /\ mode' = mode /\ status' = status
    BY <1>1 DEF rest
  <2>6. /\ Procs' /\ procs' # <<>> /\ Me' \in Proc
        /\ Me'.step = "open" /\ Me'.failed = Me.failed /\ Me'.at = Me.at + 1
    BY <1>1, <1>4, NextFileChain DEF Inv, Children
  <2>7. ~HasCs' /\ ~HasCp' BY <2>6 DEF HasCs, HasCp
  <2>8. Data' BY <1>1, <2>3, <2>4 DEF Inv, Data, rest
  <2>9. CurrentInv' BY <2>6, <2>7 DEF CurrentInv
  <2>10. NeverStale' BY <2>2, <2>3, <2>5 DEF Inv, SafeInv, NeverStale
  <2>11. SignedInv'
    <3>1. ASSUME mode' \in {"-S", "-s"}, Me'.failed = 0, NEW f \in 1 .. Me'.at - 1
          PROVE  Signed(f)'
      <4>1. CASE f = Me.at BY <2>2, <2>3, <4>1 DEF Signed
      <4>2. CASE f # Me.at
        <5>1. mode \in {"-S", "-s"} /\ Me.failed = 0 /\ f \in 1 .. Me.at - 1
          BY <1>2, <2>5, <2>6, <3>1, <4>2
        <5>2. Signed(f) BY <1>2, <5>1 DEF Inv, SafeInv, SignedInv
        <5>3. f \in Files BY <1>2, <5>1, SignAssumption DEF Files
        <5> QED BY <2>3, <4>2, <5>2, <5>3 DEF Signed
      <4> QED BY <4>1, <4>2
    <3>2. status' = None BY <1>1, <2>5, AtStep
    <3> QED BY <2>6, <2>7, <3>1, <3>2 DEF SignedInv
  <2>12. LostInv'
    <3>1. ~FlushFails => CopyIsWhole'
      BY <2>2, <2>3 DEF Inv, SafeInv, LostInv, CopyIsWhole
    <3>2. ~FlushFails => NothingLost'
      <4> SUFFICES ASSUME ~FlushFails, NEW f \in Files
                   PROVE  \/ path'[f] # None /\ path'[f].whole
                          \/ /\ cp'[f] # None /\ cp'[f].whole
                             /\ cp'[f].code.version = latest[f] /\ cp'[f].covers = cp'[f].code
        BY <2>5 DEF NothingLost
      <4>1. CASE f = Me.at BY <2>2, <2>3, <4>1
      <4>2. CASE f # Me.at BY <2>3, <2>4, <4>2 DEF Inv, SafeInv, LostInv, NothingLost
      <4> QED BY <4>1, <4>2
    <3> QED BY <2>6, <2>7, <3>1, <3>2 DEF LostInv
  <2>13. SuccessMeansSigned' BY <2>6 DEF SuccessMeansSigned
  <2> QED BY <2>6, <2>8, <2>9, <2>10, <2>11, <2>12, <2>13 DEF Inv, SafeInv
<1> QED BY <1>3, <1>4 DEF Rename
\* A failure that is told to the parent.
LEMMA ReturnFailureInv ==
  ASSUME Inv, procs # <<>>, Len(procs) # 1, NEW s, s # 0, Return(s), UNCHANGED <<disk, rest>>
  PROVE  Inv'
<1>1. Len(procs) > 1 BY MeInSeq, MoreThanOne DEF Inv, Procs
<1>2. Procs' /\ procs' # <<>> /\ Me' \in Proc /\ Me'.step = "open" /\ Me'.failed > 0
  BY <1>1, ReturnChain DEF Inv
<1>3. /\ path' = path /\ cs' = cs /\ cp' = cp /\ latest' = latest /\ status' = status
  BY DEF disk, rest
<1>4. NeverStale' BY <1>3 DEF Inv, SafeInv, NeverStale
<1>5. ~FlushFails => (CopyIsWhole /\ NothingLost)'
  BY <1>3 DEF Inv, SafeInv, LostInv, CopyIsWhole, NothingLost
<1>6. SafeInv' BY <1>2, <1>3, <1>4, <1>5, Failed DEF Inv
<1>7. Data' BY <1>3 DEF Inv, Data, rest
<1> QED BY <1>2, <1>6, <1>7 DEF Inv

\* No process is left.
LEMMA EndInv ==
  ASSUME Inv, procs' = <<>>, UNCHANGED <<disk, mode, alter, latest, rebuilds, runs>>,
         status' \in 0 .. StatusRange - 1 \cup {None}, SuccessMeansSigned'
  PROVE  Inv'
<1>1. path' = path /\ cs' = cs /\ cp' = cp BY DEF disk
<1>2. Data' BY <1>1 DEF Inv, Data
<1>3. Procs'
  <2>1. procs' \in Seq(Proc) /\ Len(procs') = 0 BY EmptySeq
  <2>2. ChainInv' BY <2>1 DEF ChainInv
  <2> QED BY <2>1, <2>2 DEF Procs
<1>4. CurrentInv' /\ SignedInv' BY DEF CurrentInv, SignedInv
<1>5. NeverStale' BY <1>1 DEF Inv, SafeInv, NeverStale
<1>6. LostInv' BY <1>1 DEF Inv, SafeInv, LostInv, CopyIsWhole, NothingLost
<1> QED BY <1>2, <1>3, <1>4, <1>5, <1>6 DEF Inv, SafeInv

\* A run that was killed has no status 0.
LEMMA NoneIsNoStatus == None # 0
BY SignAssumption, FewFiles, SentinelAssumption

LEMMA CrashInv == ASSUME Inv, Crash PROVE Inv'
<1>1. /\ Running(Me.step) /\ status' = None
      /\ UNCHANGED <<disk, mode, alter, latest, rebuilds, runs>>
  BY DEF Crash
<1>2. procs # <<>> /\ status = None BY <1>1, AtStep
<1>3. CASE Len(procs) = 1
  <2>1. procs' = <<>> BY <1>3 DEF Crash
  <2>2. SuccessMeansSigned' BY <1>1, NoneIsNoStatus DEF SuccessMeansSigned
  <2> QED BY <1>1, <2>1, <2>2, EndInv
<1>4. CASE Len(procs) # 1
  <2>1. Return(None) BY <1>4 DEF Crash
  <2>2. UNCHANGED <<disk, rest>> BY <1>1, <1>2 DEF rest
  <2> QED BY <1>2, <1>4, <2>1, <2>2, NoneIsNoStatus, ReturnFailureInv
<1> QED BY <1>3, <1>4

\* An interrupt leaves no process, and a status that is none.
LEMMA KillInv == ASSUME Inv, Kill PROVE Inv'
<1>1. procs # <<>> /\ procs' = <<>> /\ UNCHANGED <<disk, rest>> BY DEF Kill
<1>2. status' = None BY <1>1 DEF Inv, SafeInv, SignedInv, rest
<1>3. SuccessMeansSigned' BY <1>2, NoneIsNoStatus DEF SuccessMeansSigned
<1> QED BY <1>1, <1>2, <1>3, EndInv DEF rest

\* With fewer than StatusRange files a status is a count of failures.
LEMMA StatusIsCount ==
  ASSUME Inv, procs # <<>>
  PROVE  Me.failed \in 0 .. N /\ Me.failed % StatusRange = Me.failed /\ Me.failed < StatusRange
<1>1. Me.failed \in 0 .. N BY MeInSeq DEF Inv, Procs, Proc
<1>2. \A x, y \in Nat : x < y => x % y = x OBVIOUS
<1>3. Me.failed \in Nat /\ StatusRange \in Nat /\ Me.failed < StatusRange
  BY <1>1, SignAssumption, FewFiles
<1> QED BY <1>1, <1>2, <1>3

\* A child that goes on in its parent's place never exits with status 0.
LEMMA ChildFails ==
  ASSUME Inv, Exit, Len(procs) # 1
  PROVE  Me.failed % StatusRange # 0
<1> DEFINE n == Len(procs)
<1>1. procs # <<>> /\ Me.at > N BY DEF Exit
<1>2. n \in Nat \ {0} /\ Me \in Proc BY <1>1, MeInSeq DEF Inv, Procs
<1>3. n - 1 \in 1 .. n - 1 /\ (n - 1) + 1 = n
  <2>1. n > 1 BY <1>2, MoreThanOne
  <2> QED BY <1>2, <2>1
<1>4. Child(procs[n - 1], procs[(n - 1) + 1]) BY <1>3 DEF Inv, Procs, ChainInv
<1>5. Child(procs[n - 1], Me) BY <1>3, <1>4 DEF Me
<1>6. Me.step = "open"
  <2>1. ~(Me.at <= N) BY <1>1, <1>2, SignAssumption DEF Proc
  <2> QED BY <1>1, <2>1 DEF Inv, Procs, ChainInv
<1>7. Me.failed > 0 BY <1>5, <1>6 DEF Child
<1> QED BY <1>1, <1>7, StatusIsCount

\* With fewer than StatusRange files, status 0 is that of a process without failures,
\* which is never that of a child that went on in its parent's place.
LEMMA ExitInv == ASSUME Inv, Exit PROVE Inv'
<1>1. /\ procs # <<>> /\ Me.at > N
      /\ UNCHANGED <<disk, mode, alter, latest, rebuilds, runs>>
  BY DEF Exit
<1>2. Len(procs) \in Nat \ {0} /\ Me \in Proc BY <1>1, MeInSeq DEF Inv, Procs
<1>3. Me.at = N + 1 /\ Me.failed \in 0 .. N /\ N \in Nat /\ StatusRange \in Nat /\ N < StatusRange
  BY <1>1, <1>2, SignAssumption, FewFiles DEF Proc
<1>4. Me.failed % StatusRange = Me.failed BY <1>1, StatusIsCount
<1>5. CASE Len(procs) = 1
  <2>1. procs' = <<>> /\ status' = Me.failed BY <1>4, <1>5 DEF Exit
  <2>2. SuccessMeansSigned'
    <3> SUFFICES ASSUME status' = 0, mode' \in {"-S", "-s"}, NEW f \in Files
                 PROVE  path'[f] # None /\ path'[f].covers = path'[f].code
      BY DEF SuccessMeansSigned
    <3>1. Me.failed = 0 /\ mode \in {"-S", "-s"} BY <1>1, <2>1
    <3>2. f \in 1 .. Me.at - 1 BY <1>3 DEF Files
    <3>3. Signed(f) BY <1>1, <3>1, <3>2 DEF Inv, SafeInv, SignedInv
    <3> QED BY <1>1, <3>3 DEF Signed, disk
  <2>3. status' \in 0 .. StatusRange - 1 BY <1>3, <2>1
  <2> QED BY <1>1, <2>1, <2>2, <2>3, EndInv
<1>6. CASE Len(procs) # 1
  <2>1. Return(Me.failed) /\ UNCHANGED <<disk, rest>> BY <1>1, <1>4, <1>6 DEF Exit, rest
  <2>2. Me.failed # 0 BY <1>4, <1>6, ChildFails
  <2> QED BY <1>1, <1>6, <2>1, <2>2, ReturnFailureInv
<1> QED BY <1>5, <1>6
LEMMA RebuildInv ==
  ASSUME Inv, NEW g \in Files, NEW v \in Versions, Rebuild(g, v) PROVE Inv'
<1>1. /\ procs = <<>> /\ procs' = procs /\ status' = None /\ cs' = cs /\ cp' = cp
      /\ mode' = mode /\ alter' = alter /\ runs' = runs
      /\ rebuilds < MaxRebuilds /\ rebuilds' = rebuilds + 1
  BY DEF Rebuild
<1> DEFINE b == Fresh(v)
<1>2. b \in Binaries /\ b.code.version = v /\ b.whole /\ b # None BY FreshType, BinaryFields
<1>3. path' = [path EXCEPT ![g] = b] /\ latest' = [latest EXCEPT ![g] = v] BY DEF Rebuild
<1> HIDE DEF b
<1>4. /\ path' \in [Files -> Binaries \cup {None}] /\ path'[g] = b
      /\ \A f \in Files : f # g => path'[f] = path[f]
      /\ latest' \in [Files -> Versions] /\ latest'[g] = v
      /\ \A f \in Files : f # g => latest'[f] = latest[f]
  BY <1>2, <1>3 DEF Inv, Data
<1>5. rebuilds' \in 0 .. MaxRebuilds BY <1>1, SignAssumption DEF Inv, Data
<1>6. Data' BY <1>1, <1>4, <1>5 DEF Inv, Data
<1>7. Procs' BY <1>1 DEF Inv, Procs, ChainInv, Me
<1>8. NeverStale' BY <1>2, <1>4 DEF Inv, SafeInv, NeverStale
<1>9. ~FlushFails => CopyIsWhole' /\ NothingLost'
  <2> SUFFICES ASSUME ~FlushFails PROVE CopyIsWhole' /\ NothingLost' OBVIOUS
  <2>1. CopyIsWhole' BY <1>2, <1>4 DEF Inv, SafeInv, LostInv, CopyIsWhole
  <2>2. ASSUME NEW f \in Files
        PROVE  \/ path'[f] # None /\ path'[f].whole
               \/ /\ cp'[f] # None /\ cp'[f].whole
                  /\ cp'[f].code.version = latest'[f] /\ cp'[f].covers = cp'[f].code
    <3>1. CASE f = g BY <1>2, <1>4, <3>1
    <3>2. CASE f # g BY <1>1, <1>4, <3>2 DEF Inv, SafeInv, LostInv, NothingLost
    <3> QED BY <3>1, <3>2
  <2> QED BY <2>1, <2>2 DEF NothingLost
<1>10. SuccessMeansSigned' BY <1>1, NoneIsNoStatus DEF SuccessMeansSigned
<1>11. CurrentInv' /\ SignedInv' /\ LostInv' BY <1>1, <1>9 DEF CurrentInv, SignedInv, LostInv
<1> QED BY <1>6, <1>7, <1>8, <1>10, <1>11 DEF Inv, SafeInv

\* Temporary files of earlier runs stay, and no process goes on with them.
LEMMA StartInv ==
  ASSUME Inv, NEW m \in Modes, NEW a \in Alters, Start(m, a) PROVE Inv'
<1> DEFINE p == [at |-> 1, failed |-> 0, step |-> "open"]
<1>1. /\ status' = None /\ path' = path /\ cs' = cs /\ cp' = cp /\ latest' = latest
      /\ mode' = m /\ alter' = a /\ rebuilds' = rebuilds
      /\ runs < MaxRuns /\ runs' = runs + 1
      /\ procs' = <<p>>
  BY DEF Start
<1>2. p \in Proc /\ p.at = 1 /\ p.failed = 0 /\ p.step = "open" BY SignAssumption DEF Proc, Steps
<1> HIDE DEF p
<1>3. procs' \in Seq(Proc) /\ Len(procs') = 1 /\ procs'[1] = p /\ procs' # <<>> BY <1>1, <1>2
<1>4. Me' = p BY <1>3 DEF Me
<1>5. ChainInv' BY <1>2, <1>3, <1>4 DEF ChainInv, Children
<1>6. Data'
  <2>1. runs' \in 0 .. MaxRuns /\ alter' \in BOOLEAN BY <1>1, SignAssumption DEF Inv, Data
  <2> QED BY <1>1, <2>1 DEF Inv, Data
<1>7. ~HasCs' /\ ~HasCp' BY <1>2, <1>4 DEF HasCs, HasCp
<1>8. CurrentInv' BY <1>2, <1>4, <1>7 DEF CurrentInv
<1>9. SignedInv' BY <1>1, <1>2, <1>4, <1>7 DEF SignedInv
<1>10. NeverStale' BY <1>1 DEF Inv, SafeInv, NeverStale
<1>11. SuccessMeansSigned' BY <1>3 DEF SuccessMeansSigned
<1>12. LostInv'
  BY <1>1, <1>2, <1>4, <1>7 DEF Inv, SafeInv, LostInv, CopyIsWhole, NothingLost
<1> QED BY <1>3, <1>5, <1>6, <1>8, <1>9, <1>10, <1>11, <1>12 DEF Inv, SafeInv, Procs

LEMMA InitInv == SignInit => Inv
<1> SUFFICES ASSUME SignInit PROVE Inv
  OBVIOUS
<1>1. /\ latest \in [Files -> Versions] /\ path = [f \in Files |-> Fresh(latest[f])]
      /\ cs = [f \in Files |-> None] /\ cp = [f \in Files |-> None]
      /\ mode = None /\ alter = FALSE /\ procs = <<>> /\ status = None
      /\ rebuilds = 0 /\ runs = 0
  BY DEF SignInit
<1>2. \A f \in Files : /\ path[f] \in Binaries /\ path[f].code.version = latest[f]
                       /\ path[f].whole /\ path[f] # None
  BY <1>1, FreshType, BinaryFields
<1>3. Data
  <2>1. path \in [Files -> Binaries \cup {None}] BY <1>1, <1>2
  <2>2. cs \in [Files -> Binaries \cup {None}] /\ cp \in [Files -> Binaries \cup {None}]
    BY <1>1
  <2>3. rebuilds \in 0 .. MaxRebuilds /\ runs \in 0 .. MaxRuns BY <1>1, SignAssumption
  <2>4. mode \in Modes \cup {None} /\ alter \in BOOLEAN /\ latest \in [Files -> Versions]
        /\ status \in 0 .. StatusRange - 1 \cup {None}
    BY <1>1
  <2> QED BY <2>1, <2>2, <2>3, <2>4 DEF Data
<1>4. Procs
  <2>1. procs \in Seq(Proc) /\ Len(procs) = 0 BY <1>1, EmptySeq
  <2> QED BY <1>1, <2>1 DEF Procs, ChainInv
<1>5. NeverStale /\ CopyIsWhole /\ NothingLost
  BY <1>2 DEF NeverStale, CopyIsWhole, NothingLost
<1>6. SuccessMeansSigned BY <1>1, NoneIsNoStatus DEF SuccessMeansSigned
<1>7. CurrentInv /\ SignedInv /\ LostInv BY <1>1, <1>5 DEF CurrentInv, SignedInv, LostInv
<1> QED BY <1>3, <1>4, <1>5, <1>6, <1>7 DEF Inv, SafeInv
-----------------------------------------------------------------------------
LEMMA StepInv == Inv /\ [SignNext]_signVars => Inv'
<1> SUFFICES ASSUME Inv, [SignNext]_signVars PROVE Inv'
  OBVIOUS
<1>1. ASSUME NEW g \in Files, NEW v \in Versions, Rebuild(g, v) PROVE Inv'
  BY <1>1, RebuildInv
<1>2. ASSUME NEW m \in Modes, NEW a \in Alters, Start(m, a) PROVE Inv'
  BY <1>2, StartInv
<1>3. CASE OpenFails \/ OpenInPlace BY <1>3, OpenInv
<1>4. CASE SetFlag BY <1>4, SetFlagInv
<1>5. CASE Fork BY <1>5, ForkInv
<1>6. CASE Exec BY <1>6, ExecInv
<1>7. CASE CodesignAllocate BY <1>7, CodesignAllocateInv
<1>8. CASE AlterCopy BY <1>8, AlterCopyInv
<1>9. CASE AlterInPlace BY <1>9, AlterInPlaceInv
<1>10. CASE Rehash BY <1>10, RehashInv
<1>11. CASE Sign BY <1>11, SignInv
<1>12. CASE Copy BY <1>12, CopyInv
<1>13. CASE Crash BY <1>13, CrashInv
<1>14. CASE DropTemp BY <1>14, DropTempInv
<1>15. CASE Own BY <1>15, OwnInv
<1>16. CASE Unlink BY <1>16, UnlinkInv
<1>17. CASE Rename BY <1>17, RenameInv
<1>18. CASE Exit BY <1>18, ExitInv
<1>19. CASE Kill BY <1>19, KillInv
<1>20. CASE UNCHANGED signVars
  <2>1. Data' BY <1>20 DEF signVars, Inv, Data
  <2>2. Procs' BY <1>20 DEF signVars, Inv, Procs, ChainInv, Me
  <2>3. CurrentInv' /\ SignedInv'
    BY <1>20 DEF signVars, Inv, SafeInv, CurrentInv, SignedInv, Me, HasCs, HasCp, Signed
  <2>4. NeverStale' /\ SuccessMeansSigned'
    BY <1>20 DEF signVars, Inv, SafeInv, NeverStale, SuccessMeansSigned
  <2>5. LostInv'
    BY <1>20 DEF signVars, Inv, SafeInv, LostInv, CopyIsWhole, NothingLost, Me, HasCs, HasCp
  <2> QED BY <2>1, <2>2, <2>3, <2>4, <2>5 DEF Inv, SafeInv
<1> QED
  BY <1>1, <1>2, <1>3, <1>4, <1>5, <1>6, <1>7, <1>8, <1>9, <1>10, <1>11, <1>12, <1>13, <1>14,
     <1>15, <1>16, <1>17, <1>18, <1>19, <1>20 DEF SignNext, SignStep

\* The inductive invariant, whatever fails and whoever is killed.
THEOREM Inductive == SignSpec => []IInv
<1>1. SignInit => IInv BY InitInv, InvIsIInv
<1>2. IInv /\ [SignNext]_signVars => IInv' BY StepInv, InvIsIInv, PTL
<1> QED BY <1>1, <1>2, PTL DEF SignSpec

\* Files, processes and counts stay what they are; no process counts more failures than
\* there are files, those of its children included.
THEOREM SignTypeCorrect == SignSpec => []SignTypeOK
<1>1. IInv => SignTypeOK BY DEF IInv
<1> QED BY <1>1, Inductive, PTL

\* An old build never comes back, from however many children and interrupted runs.
THEOREM OldBuildsStayAway == SignSpec => []NeverStale
<1>1. IInv => NeverStale BY DEF IInv
<1> QED BY <1>1, Inductive, PTL

\* Status 0 of -S and -s means that every file has a signature of the code that it has.
THEOREM SuccessIsSigned == SignSpec => []SuccessMeansSigned
<1>1. IInv => SuccessMeansSigned BY DEF IInv
<1> QED BY <1>1, Inductive, PTL

\* Wherever ldid fails or is killed, the last build of every file is there, in its place or
\* signed beside it, if no flush fails unnoticed.
THEOREM NoBuildIsLost == ~FlushFails /\ SignSpec => []NothingLost
<1>1. ~FlushFails /\ IInv => NothingLost BY DEF IInv, LostInv
<1>2. ~FlushFails => [](~FlushFails) OBVIOUS
<1> QED BY <1>1, <1>2, Inductive, PTL
-----------------------------------------------------------------------------
(* Every step is one of SignedFiles.                                       *)

\* Between files nothing is ready, and nothing needs to be.
LEMMA NothingReady ==
  ASSUME procs' = <<>> \/ Me'.step = "open"
  PROVE  ReadyInv'
BY DEF ReadyInv

LEMMA ThrowReady ==
  ASSUME Inv, NEW t, Running(t), Throw
  PROVE  ReadyInv'
BY ThrowChain, NothingReady DEF Inv

LEMMA NextFileReady ==
  ASSUME Inv, NEW t, Running(t), t \notin Children, NextFile
  PROVE  ReadyInv'
BY NextFileChain, NothingReady DEF Inv

\* The running process goes on with its file.
LEMMA GoesOn ==
  ASSUME Inv, NEW t, Running(t), NEW s \in Steps \ {"wait"}, Goto(s),
         t \in Children <=> s \in Children
  PROVE  /\ procs # <<>> /\ Me.step = t /\ Me.at \in Files
         /\ procs' # <<>> /\ Me'.at = Me.at /\ Me'.step = s
<1>1. procs # <<>> /\ Me \in Proc /\ Me.step = t /\ Me.at \in Files BY AtStep
<1>2. procs' # <<>> /\ Me' = [Me EXCEPT !.step = s] BY GotoChain DEF Inv
<1> QED BY <1>1, <1>2 DEF Proc

\* -T and -R change the code, and nothing else.
LEMMA AlterForm ==
  ASSUME NEW b \in Binaries, alter \in BOOLEAN
  PROVE  /\ Alter(b).code = Promised!Altered(b.code)
         /\ Alter(b).room = b.room /\ Alter(b).covers = b.covers /\ Alter(b).whole = b.whole
<1> DEFINE c == Promised!Altered(b.code)
<1>1. Alter(b) = [b EXCEPT !.code = c] BY DEF Alter, Promised!Altered
<1> HIDE DEF c
<1> QED BY <1>1 DEF Binaries, c

LEMMA SetFlagReady == ASSUME Inv, ReadyInv, SetFlag PROVE ReadyInv'
<1>1. Running("open") /\ mode = "-S" /\ Maps(path[Me.at]) /\ mode' = mode
  BY DEF SetFlag, rest
<1>2. CASE Throw BY <1>1, <1>2, ThrowReady
<1>3. CASE Goto("fork")
  <2>2. Me.at \in Files /\ Me'.at = Me.at /\ Me'.step = "fork"
    BY <1>1, <1>3, GoesOn DEF Steps, Children
  <2>3. path[Me.at] \in Binaries BY <1>1, AtStep DEF Maps
  <2> DEFINE b == [path[Me.at] EXCEPT !.code.linked = TRUE]
  <2>4. b \in Binaries /\ b.code.linked
    <3>1. b.code = [path[Me.at].code EXCEPT !.linked = TRUE] BY <2>3 DEF Binaries
    <3> QED BY <2>3, <3>1, Linked, BinaryFields DEF Codes
  <2>5. path' = [path EXCEPT ![Me.at] = b] BY DEF SetFlag
  <2> HIDE DEF b
  <2>6. path'[Me.at] = b BY <2>2, <2>5 DEF Inv, Data
  <2> QED BY <1>1, <2>2, <2>4, <2>6, BinaryFields DEF ReadyInv
<1> QED BY <1>2, <1>3 DEF SetFlag

LEMMA ForkReady == ASSUME Inv, ReadyInv, Fork PROVE ReadyInv'
<1> DEFINE w == [Me EXCEPT !.step = "wait"]
           c == [Me EXCEPT !.step = "exec"]
<1>1. Running("fork") /\ path' = path /\ mode' = mode BY DEF Fork, disk, rest
<1>2. CASE Throw BY <1>1, <1>2, ThrowReady
<1>3. CASE procs' = Append([procs EXCEPT ![Len(procs)] = w], c)
  <2>1. procs # <<>> /\ Me \in Proc /\ Me.step = "fork" BY <1>1, AtStep
  <2>2. w \in Proc /\ c \in Proc /\ c.at = Me.at /\ c.step = "exec" BY <2>1 DEF Proc, Steps
  <2> HIDE DEF w, c
  <2>3. Me' = c BY <1>3, <2>1, <2>2, ForkOne DEF Inv, Procs
  <2> QED BY <1>1, <2>1, <2>2, <2>3 DEF ReadyInv
<1> QED BY <1>2, <1>3 DEF Fork

LEMMA ExecReady == ASSUME Inv, ReadyInv, Exec PROVE ReadyInv'
<1>1. Running("exec") /\ path' = path /\ mode' = mode BY DEF Exec, disk, rest
<1>2. CASE Throw BY <1>1, <1>2, ThrowReady
<1>3. CASE Goto("allocate")
  <2>1. procs # <<>> /\ Me.step = "exec" /\ Me'.at = Me.at /\ Me'.step = "allocate"
    BY <1>1, <1>3, GoesOn DEF Steps, Children
  <2> QED BY <1>1, <2>1 DEF ReadyInv
<1> QED BY <1>2, <1>3 DEF Exec

\* A child that ends goes on as its parent: at the same file if codesign_allocate wrote
\* the copy, and at another one otherwise.
LEMMA CodesignAllocateReady == ASSUME Inv, ReadyInv, CodesignAllocate PROVE ReadyInv'
<1>1. Running("allocate") /\ path' = path /\ mode' = mode BY DEF CodesignAllocate, rest
<1>2. /\ Me.at \in Files /\ Me.step = "allocate" /\ procs # <<>>
      /\ path[Me.at] \in Binaries \cup {None} /\ Len(procs) \in Nat \ {0}
  BY <1>1, AtStep, RunningAt DEF Inv
<1>3. Len(procs) > 1
  <2>1. Len(procs) # 1 BY <1>2 DEF Inv, Procs, ChainInv, Children
  <2> QED BY <1>2, <2>1, MoreThanOne
<1>4. CASE /\ path[Me.at] # None
           /\ cs' = [cs EXCEPT ![Me.at] = [path[Me.at] EXCEPT !.room = TRUE, !.covers = None]]
           /\ Return(0)
  <2> DEFINE b == [path[Me.at] EXCEPT !.room = TRUE, !.covers = None]
  <2>1. path[Me.at] \in Binaries BY <1>2, <1>4
  <2>2. b.room /\ b.code = path[Me.at].code BY <2>1 DEF Binaries
  <2>3. cs' = [cs EXCEPT ![Me.at] = b] BY <1>4
  <2> HIDE DEF b
  <2>4. cs'[Me.at] = b BY <1>2, <2>3 DEF Inv, Data
  <2>5. Me' = [at |-> Me.at, failed |-> Me.failed, step |-> "map"]
    BY <1>2, <1>3, <1>4, ReturnChain DEF Inv
  <2>6. Me'.at = Me.at /\ Me'.step = "map" BY <2>5
  <2> QED BY <1>1, <1>2, <2>2, <2>4, <2>6 DEF ReadyInv
<1>5. CASE Return(1)
  <2>1. Me'.step = "open" BY <1>2, <1>3, <1>5, ReturnChain DEF Inv
  <2> QED BY <2>1, NothingReady
<1> QED BY <1>4, <1>5 DEF CodesignAllocate

LEMMA AlterCopyReady == ASSUME Inv, ReadyInv, AlterCopy PROVE ReadyInv'
<1>1. Running("map") /\ mode = "-S" /\ path' = path /\ mode' = mode /\ alter' = alter
  BY DEF AlterCopy, rest
<1>2. /\ Me.at \in Files /\ Me.step = "map" /\ procs # <<>>
      /\ cs[Me.at] \in Binaries \cup {None} /\ alter \in BOOLEAN
  BY <1>1, AtStep DEF Inv, Data
<1>3. CASE Throw BY <1>1, <1>3, ThrowReady
<1>4. CASE Maps(cs[Me.at]) /\ cs' = [cs EXCEPT ![Me.at] = Alter(@)] /\ Goto("sign")
  <2> DEFINE b == Alter(cs[Me.at])
  <2>1. cs' = [cs EXCEPT ![Me.at] = b] /\ Goto("sign") BY <1>4
  <2>2. cs[Me.at].room /\ cs[Me.at].code = path[Me.at].code BY <1>1, <1>2 DEF ReadyInv
  <2>3. b.room /\ b.code = Promised!Altered(path[Me.at].code)
    BY <1>2, <1>4, <2>2, AlterForm DEF Maps
  <2> HIDE DEF b
  <2>4. cs'[Me.at] = b BY <1>2, <2>1 DEF Inv, Data
  <2>5. Me'.at = Me.at /\ Me'.step = "sign" BY <1>1, <2>1, GoesOn DEF Steps, Children
  <2>6. path[Me.at] # None /\ path[Me.at].code.linked BY <1>1, <1>2 DEF ReadyInv
  <2>7. /\ path'[Me'.at] # None /\ path'[Me'.at].code.linked
        /\ cs'[Me'.at].room /\ cs'[Me'.at].code = (Promised!Altered(path[Me.at].code))'
    BY <1>1, <2>3, <2>4, <2>5, <2>6 DEF Promised!Altered
  <2> QED BY <1>1, <2>5, <2>7 DEF ReadyInv
<1> QED BY <1>3, <1>4 DEF AlterCopy

LEMMA SignReady == ASSUME Inv, ReadyInv, Sign PROVE ReadyInv'
<1>1. Running("sign") /\ mode = "-S" /\ path' = path /\ mode' = mode /\ alter' = alter
  BY DEF Sign, rest
<1>2. Me.at \in Files /\ Me.step = "sign" /\ procs # <<>> /\ cs[Me.at] \in Binaries \cup {None}
  BY <1>1, AtStep
<1>3. CASE ~cs[Me.at].room BY <1>1, <1>3, ThrowReady DEF Sign
<1>4. CASE cs[Me.at].room
  <2> DEFINE b == [cs[Me.at] EXCEPT !.covers = cs[Me.at].code]
  <2>1. cs' = [cs EXCEPT ![Me.at] = b] /\ Goto("copy") BY <1>4 DEF Sign
  <2>2. cs[Me.at] \in Binaries
    BY <1>1, <1>2 DEF Inv, SafeInv, CurrentInv, HasCs
  <2>3. b.room = cs[Me.at].room /\ b.code = cs[Me.at].code BY <2>2 DEF Binaries
  <2> HIDE DEF b
  <2>4. cs'[Me.at] = b BY <1>2, <2>1 DEF Inv, Data
  <2>5. Me'.at = Me.at /\ Me'.step = "copy" BY <1>1, <2>1, GoesOn DEF Steps, Children
  <2>6. /\ path[Me.at] # None /\ path[Me.at].code.linked
        /\ cs[Me.at].room /\ cs[Me.at].code = Promised!Altered(path[Me.at].code)
    BY <1>1, <1>2 DEF ReadyInv
  <2>7. /\ path'[Me'.at] # None /\ path'[Me'.at].code.linked
        /\ cs'[Me'.at].room /\ cs'[Me'.at].code = (Promised!Altered(path[Me.at].code))'
    BY ZenonT(30), <1>1, <1>4, <2>3, <2>4, <2>5, <2>6 DEF Promised!Altered
  <2> QED BY <1>1, <2>5, <2>7 DEF ReadyInv
<1> QED BY <1>3, <1>4

LEMMA CopyReady == ASSUME Inv, ReadyInv, Copy PROVE ReadyInv'
<1>1. Running("copy") /\ path' = path /\ mode' = mode /\ alter' = alter BY DEF Copy, rest
<1>2. Me.at \in Files /\ Me.step = "copy" /\ procs # <<>> /\ cs[Me.at] \in Binaries \cup {None}
  BY <1>1, AtStep
<1>3. CASE Throw BY <1>1, <1>3, ThrowReady
<1>4. ASSUME NEW w \in BOOLEAN, Goto("drop"),
             cp' = [cp EXCEPT ![Me.at] = [cs[Me.at] EXCEPT !.whole = w]]
      PROVE  ReadyInv'
  <2> DEFINE b == [cs[Me.at] EXCEPT !.whole = w]
  <2>1. cp' = [cp EXCEPT ![Me.at] = b] BY <1>4
  <2>2. cs[Me.at] \in Binaries
    BY <1>2 DEF Inv, SafeInv, CurrentInv, HasCs
  <2>3. b.room = cs[Me.at].room /\ b.code = cs[Me.at].code BY <2>2 DEF Binaries
  <2> HIDE DEF b
  <2>4. cp'[Me.at] = b BY <1>2, <2>1 DEF Inv, Data
  <2>5. Me'.at = Me.at /\ Me'.step = "drop" BY <1>1, <1>4, GoesOn DEF Steps, Children
  <2>6. /\ mode = "-S" /\ path[Me.at] # None /\ path[Me.at].code.linked
        /\ cs[Me.at].room /\ cs[Me.at].code = Promised!Altered(path[Me.at].code)
    BY <1>2 DEF ReadyInv
  <2>7. /\ path'[Me'.at] # None /\ path'[Me'.at].code.linked
        /\ cp'[Me'.at].room /\ cp'[Me'.at].code = (Promised!Altered(path[Me.at].code))'
    BY ZenonT(30), <1>1, <2>3, <2>4, <2>5, <2>6 DEF Promised!Altered
  <2> QED BY <1>1, <2>5, <2>6, <2>7 DEF ReadyInv
<1> QED BY <1>3, <1>4 DEF Copy

\* The copy stays as it is while the file is made to look like it, and goes.
LEMMA OwnersReady == ASSUME Inv, ReadyInv, DropTemp \/ Own PROVE ReadyInv'
<1>1. /\ \E t \in {"drop", "own"} : Running(t)
      /\ path' = path /\ cp' = cp /\ mode' = mode /\ alter' = alter
  BY DEF DropTemp, Own, disk, rest
<1>2. PICK t \in {"drop", "own"} : Running(t) BY <1>1
<1>3. CASE Throw BY <1>2, <1>3, ThrowReady
<1>4. ASSUME NEW s \in {"own", "unlink"}, Goto(s) PROVE ReadyInv'
  <2>1. procs # <<>> /\ Me.step \in {"drop", "own"} /\ Me'.at = Me.at /\ Me'.step = s
    BY <1>2, <1>4, GoesOn DEF Steps, Children
  <2>2. /\ mode = "-S" /\ path[Me.at] # None /\ path[Me.at].code.linked
        /\ cp[Me.at].room /\ cp[Me.at].code = Promised!Altered(path[Me.at].code)
    BY <2>1 DEF ReadyInv
  <2>3. /\ path'[Me'.at] # None /\ path'[Me'.at].code.linked
        /\ cp'[Me'.at].room /\ cp'[Me'.at].code = (Promised!Altered(path[Me.at].code))'
    BY <1>1, <2>1, <2>2 DEF Promised!Altered
  <2> QED BY <1>1, <2>1, <2>2, <2>3 DEF ReadyInv
<1> QED BY <1>3, <1>4 DEF DropTemp, Own

LEMMA UnlinkReady == ASSUME Inv, ReadyInv, Unlink PROVE ReadyInv'
<1>1. Running("unlink") /\ mode' = mode BY DEF Unlink, rest
<1>2. CASE Throw BY <1>1, <1>2, ThrowReady
<1>3. CASE path' = [path EXCEPT ![Me.at] = None] /\ Goto("rename")
  <2>1. /\ procs # <<>> /\ Me.step = "unlink" /\ Me.at \in Files
        /\ Me'.at = Me.at /\ Me'.step = "rename"
    BY <1>1, <1>3, GoesOn DEF Steps, Children
  <2>2. path'[Me.at] = None BY <1>3, <2>1 DEF Inv, Data
  <2> QED BY <1>1, <2>1, <2>2 DEF ReadyInv
<1> QED BY <1>2, <1>3 DEF Unlink

\* The options other than -S have nothing to prepare.
LEMMA InPlaceReady ==
  ASSUME Inv, OpenFails \/ OpenInPlace \/ AlterInPlace \/ Rehash \/ Rename
  PROVE  ReadyInv'
<1>1. CASE OpenFails BY <1>1, ThrowReady DEF OpenFails
<1>2. CASE OpenInPlace
  <2>1. Running("open") /\ mode # "-S" /\ mode' = mode /\ Goto("map")
    BY <1>2 DEF OpenInPlace, rest
  <2>2. Me'.step = "map" BY <2>1, GoesOn DEF Steps, Children
  <2> QED BY <2>1, <2>2 DEF ReadyInv
<1>3. CASE AlterInPlace
  <2>1. Running("map") /\ mode # "-S" /\ mode' = mode /\ (Goto("sign") \/ NextFile \/ Throw)
    BY <1>3 DEF AlterInPlace, rest
  <2>2. CASE Goto("sign")
    <3>1. Me'.step = "sign" BY <2>1, <2>2, GoesOn DEF Steps, Children
    <3> QED BY <2>1, <3>1 DEF ReadyInv
  <2>3. CASE NextFile BY <2>1, <2>3, NextFileReady DEF Children
  <2>4. CASE Throw BY <2>1, <2>4, ThrowReady
  <2> QED BY <2>1, <2>2, <2>3, <2>4
<1>4. CASE Rehash \/ Rename
  <2>1. (Running("sign") \/ Running("rename")) /\ (NextFile \/ Throw) BY <1>4 DEF Rehash, Rename
  <2> QED BY <2>1, NextFileReady, ThrowReady DEF Children
<1> QED BY <1>1, <1>2, <1>3, <1>4

\* The ends of processes.
LEMMA EndReady == ASSUME Inv, Crash \/ Exit \/ Kill PROVE ReadyInv'
<1>1. CASE procs' = <<>> BY <1>1, NothingReady
<1>2. ASSUME NEW s, Return(s), Len(procs) # 1, procs # <<>>, s = 0 => Me.step = "allocate"
      PROVE  ReadyInv' \/ s = 0
  <2>1. Len(procs) > 1 BY <1>2, MeInSeq, MoreThanOne DEF Inv, Procs
  <2>2. s # 0 => Me'.step = "open" BY <1>2, <2>1, ReturnChain DEF Inv
  <2> QED BY <2>2, NothingReady
<1>3. CASE Crash BY <1>1, <1>2, <1>3, NoneIsNoStatus DEF Crash, Running
<1>4. CASE Exit
  <2>1. CASE Len(procs) = 1 BY <1>1, <1>4, <2>1 DEF Exit
  <2>2. CASE Len(procs) # 1
    <3>1. procs # <<>> /\ Me.at > N /\ Return(Me.failed % StatusRange) BY <1>4, <2>2 DEF Exit
    <3>2. Me.failed % StatusRange # 0 BY <1>4, <2>2, ChildFails
    <3> QED BY <1>2, <2>2, <3>1, <3>2
  <2> QED BY <2>1, <2>2
<1>5. CASE Kill BY <1>1, <1>5 DEF Kill
<1> QED BY <1>3, <1>4, <1>5

\* No step breaks ReadyInv.
LEMMA StepReady == Inv /\ ReadyInv /\ [SignNext]_signVars => ReadyInv'
<1> SUFFICES ASSUME Inv, ReadyInv, [SignNext]_signVars PROVE ReadyInv'
  OBVIOUS
<1>1. ASSUME NEW f \in Files, NEW v \in Versions, Rebuild(f, v) PROVE ReadyInv'
  BY <1>1, NothingReady DEF Rebuild
<1>2. ASSUME NEW m \in Modes, NEW a \in Alters, Start(m, a) PROVE ReadyInv'
  <2>1. Me'.step = "open" BY <1>2 DEF Start, Me
  <2> QED BY <2>1, NothingReady
<1>3. CASE SignStep
  BY <1>3, SetFlagReady, ForkReady, ExecReady, CodesignAllocateReady, AlterCopyReady, SignReady,
     CopyReady, OwnersReady, UnlinkReady, InPlaceReady, EndReady DEF SignStep
<1>4. CASE Kill BY <1>4, EndReady
<1>5. CASE UNCHANGED signVars BY <1>5 DEF signVars, ReadyInv, Me, Promised!Altered
<1> QED BY <1>1, <1>2, <1>3, <1>4, <1>5 DEF SignNext

\* What is kept of a file, and what a step that touches one file only makes of it.
LEMMA KeptAt ==
  ASSUME NEW f \in Files, NEW b \in Binaries, Best(f) = b, b.whole
  PROVE  Kept[f] = [code |-> b.code, signed |-> b.room, covers |-> b.covers]
<1>1. b # None BY BinaryFields
<1> QED BY <1>1 DEF Kept, Form

LEMMA KeptThere ==
  ASSUME ~FlushFails, Inv, NEW f \in Files, path[f] # None
  PROVE  /\ path[f] \in Binaries /\ path[f].whole
         /\ Kept[f] = [code |-> path[f].code, signed |-> path[f].room, covers |-> path[f].covers]
<1>1. path[f] \in Binaries /\ path[f].whole
  BY DEF Inv, Data, SafeInv, LostInv, CopyIsWhole
<1>2. Best(f) = path[f] BY DEF Best
<1> QED BY <1>1, <1>2, KeptAt

\* Who looks at files and their copies only sees nothing of anything else.
LEMMA SameKept == ASSUME path' = path, cp' = cp PROVE Kept' = Kept
BY DEF Kept, Best, Form

LEMMA KeptChanged ==
  ASSUME NEW a \in Files, NEW b \in Binaries, b.whole,
         b = IF path'[a] # None THEN path'[a] ELSE cp'[a],
         \A f \in Files : f # a => path'[f] = path[f] /\ cp'[f] = cp[f]
  PROVE  Kept' = [Kept EXCEPT ![a] = [code |-> b.code, signed |-> b.room, covers |-> b.covers]]
<1> DEFINE c == [code |-> b.code, signed |-> b.room, covers |-> b.covers]
<1>1. b # None BY BinaryFields
<1>2. ASSUME NEW f \in Files PROVE Form((Best(f))') = IF f = a THEN c ELSE Form(Best(f))
  <2>1. CASE f = a BY <1>1, <2>1 DEF Best, Form
  <2>2. CASE f # a
    <3>1. (Best(f))' = Best(f) BY <2>2 DEF Best
    <3> QED BY <2>2, <3>1
  <2> QED BY <2>1, <2>2
<1> HIDE DEF c
<1>3. Kept' = [f \in Files |-> Form((Best(f))')] BY DEF Kept, Form
<1>4. [Kept EXCEPT ![a] = c] = [f \in Files |-> IF f = a THEN c ELSE Form(Best(f))] BY DEF Kept
<1> QED BY <1>2, <1>3, <1>4 DEF c

\* A change in the file itself.
LEMMA ChangedInPlace ==
  ASSUME ~FlushFails, Inv, NEW t, Running(t), path[Me.at] # None,
         NEW b \in Binaries, b.whole, path' = [path EXCEPT ![Me.at] = b],
         UNCHANGED <<cp, rest>>
  PROVE  Promised!Change(Me.at, [code |-> b.code, signed |-> b.room, covers |-> b.covers])
<1>1. Me.at \in Files /\ status = None BY AtStep
<1>2. path'[Me.at] = b /\ b # None /\ \A f \in Files : f # Me.at => path'[f] = path[f]
  BY <1>1, BinaryFields DEF Inv, Data
<1>3. b = IF path'[Me.at] # None THEN path'[Me.at] ELSE cp'[Me.at] BY <1>2
<1> QED BY <1>1, <1>2, <1>3, KeptChanged DEF Promised!Change, rest

\* Freshly built files are what SignedFiles begins with.
LEMMA InitStore == SignInit => Promised!Init
<1> SUFFICES ASSUME SignInit PROVE Promised!Init
  OBVIOUS
<1>1. /\ latest \in [Files -> Versions] /\ path = [f \in Files |-> Fresh(latest[f])]
      /\ mode = None /\ alter = FALSE /\ status = None
  BY DEF SignInit
<1>2. ASSUME NEW f \in Files PROVE Kept[f] = Promised!Built(latest[f])
  <2>1. path[f] = Fresh(latest[f]) /\ Fresh(latest[f]) \in Binaries BY <1>1, FreshType
  <2>2. Best(f) = Fresh(latest[f]) BY <2>1, BinaryFields DEF Best
  <2>3. Fresh(latest[f]).whole BY <1>1, FreshType
  <2> QED BY <2>1, <2>2, <2>3, KeptAt DEF Fresh, Promised!Built
<1>3. Kept \in [Files -> {Promised!Built(v) : v \in Versions}] BY <1>1, <1>2 DEF Kept
<1> QED BY <1>1, <1>3 DEF Promised!Init

\* The flag is set in the file that is there.
LEMMA SetFlagStore == ASSUME ~FlushFails, Inv, SetFlag PROVE Promised!Link(Me.at)
<1> DEFINE b == [path[Me.at] EXCEPT !.code.linked = TRUE]
<1>1. /\ Running("open") /\ mode = "-S" /\ Maps(path[Me.at]) /\ UNCHANGED <<cp, rest>>
      /\ path' = [path EXCEPT ![Me.at].code.linked = TRUE]
  BY DEF SetFlag
<1>2. Me.at \in Files /\ path[Me.at] # None BY <1>1, AtStep DEF Maps
<1>3. /\ path[Me.at] \in Binaries /\ path[Me.at].whole
      /\ Kept[Me.at] = [code |-> path[Me.at].code, signed |-> path[Me.at].room,
                        covers |-> path[Me.at].covers]
  BY <1>2, KeptThere
<1>4. b \in Binaries /\ b.whole BY <1>3, Linked
<1>5. [Kept[Me.at] EXCEPT !.code.linked = TRUE]
        = [code |-> b.code, signed |-> b.room, covers |-> b.covers]
  <2>1. /\ b.code = [path[Me.at].code EXCEPT !.linked = TRUE]
        /\ b.room = path[Me.at].room /\ b.covers = path[Me.at].covers
    BY <1>3 DEF Binaries
  <2> HIDE DEF b
  <2> DEFINE d == [Kept[Me.at].code EXCEPT !.linked = TRUE]
  <2>2. [Kept[Me.at] EXCEPT !.code.linked = TRUE] = [Kept[Me.at] EXCEPT !.code = d]
    BY DEF d
  <2>3. d = b.code BY <1>3, <2>1
  <2> HIDE DEF d
  <2>4. [Kept[Me.at] EXCEPT !.code = d]
          = [code |-> d, signed |-> path[Me.at].room, covers |-> path[Me.at].covers]
    <3> DEFINE k == Kept[Me.at]
    <3>1. k = [code |-> path[Me.at].code, signed |-> path[Me.at].room,
               covers |-> path[Me.at].covers]
      BY <1>3
    <3> HIDE DEF k
    <3>2. [k EXCEPT !.code = d]
            = [code |-> d, signed |-> path[Me.at].room, covers |-> path[Me.at].covers]
      BY <3>1
    <3> QED BY <3>2 DEF k
  <2> QED BY <2>1, <2>2, <2>3, <2>4
<1>6. path' = [path EXCEPT ![Me.at] = b] BY <1>1
<1> HIDE DEF b
<1> QED BY <1>1, <1>2, <1>4, <1>5, <1>6, ChangedInPlace DEF Promised!Link

\* -T and -R without -S change the file that is there, or fail.
LEMMA AlterInPlaceStore ==
  ASSUME ~FlushFails, Inv, AlterInPlace
  PROVE  Promised!Alter(Me.at) \/ UNCHANGED Promised!vars
<1> DEFINE b == Alter(path[Me.at])
<1>1. Running("map") /\ mode # "-S" /\ UNCHANGED <<cp, rest>> BY DEF AlterInPlace
<1>2. Me.at \in Files /\ alter \in BOOLEAN BY <1>1, AtStep DEF Inv, Data
<1>3. CASE path' = path BY <1>1, <1>3, SameKept DEF Promised!vars, rest
<1>4. CASE Maps(path[Me.at]) /\ path' = [path EXCEPT ![Me.at] = b]
  <2>1. path' = [path EXCEPT ![Me.at] = b] /\ path[Me.at] # None BY <1>4 DEF Maps
  <2>2. /\ path[Me.at] \in Binaries /\ path[Me.at].whole
        /\ Kept[Me.at] = [code |-> path[Me.at].code, signed |-> path[Me.at].room,
                          covers |-> path[Me.at].covers]
    BY <1>2, <2>1, KeptThere
  <2>3. /\ b \in Binaries /\ b.whole /\ b.code = Promised!Altered(path[Me.at].code)
        /\ b.room = path[Me.at].room /\ b.covers = path[Me.at].covers
    BY <1>2, <2>2, AlterKeeps, AlterForm
  <2> HIDE DEF b
  <2>4. [Kept[Me.at] EXCEPT !.code = Promised!Altered(Kept[Me.at].code)]
          = [code |-> b.code, signed |-> b.room, covers |-> b.covers]
    BY <2>2, <2>3
  <2> QED BY <1>1, <1>2, <2>1, <2>3, <2>4, ChangedInPlace DEF Promised!Alter
<1> QED BY <1>3, <1>4 DEF AlterInPlace

\* -s hashes the file that is there, if it has a signature.
LEMMA RehashStore ==
  ASSUME ~FlushFails, Inv, Rehash
  PROVE  Promised!Hash(Me.at) \/ UNCHANGED Promised!vars
<1> DEFINE b == [path[Me.at] EXCEPT !.covers = path[Me.at].code]
<1>1. Running("sign") /\ mode = "-s" /\ UNCHANGED <<cp, rest>> BY DEF Rehash
<1>2. Me.at \in Files /\ path[Me.at] # None
  BY <1>1, AtStep DEF Inv, SafeInv, CurrentInv, Maps
<1>3. CASE ~path[Me.at].room
  <2>1. path' = path BY <1>3 DEF Rehash
  <2> QED BY <1>1, <2>1, SameKept DEF Promised!vars, rest
<1>4. CASE path[Me.at].room
  <2>1. path' = [path EXCEPT ![Me.at] = b] BY <1>4 DEF Rehash
  <2>2. /\ path[Me.at] \in Binaries /\ path[Me.at].whole
        /\ Kept[Me.at] = [code |-> path[Me.at].code, signed |-> path[Me.at].room,
                          covers |-> path[Me.at].covers]
    BY <1>2, KeptThere
  <2>3. b \in Binaries /\ b.whole /\ b.code = path[Me.at].code /\ b.covers = b.code
    BY <2>2, Covered
  <2>4. b.room = path[Me.at].room BY <2>2 DEF Binaries
  <2> HIDE DEF b
  <2>5. [Kept[Me.at] EXCEPT !.covers = Kept[Me.at].code]
          = [code |-> b.code, signed |-> b.room, covers |-> b.covers]
    BY <2>2, <2>3, <2>4
  <2>6. Kept[Me.at].signed BY <1>4, <2>2
  <2> QED BY <1>1, <1>2, <2>1, <2>3, <2>5, <2>6, ChangedInPlace DEF Promised!Hash
<1> QED BY <1>3, <1>4

\* The exchange is the unlink: from then on the signed copy is the file.
LEMMA UnlinkStore ==
  ASSUME ~FlushFails, Inv, ReadyInv, Unlink
  PROVE  Promised!Sign(Me.at) \/ UNCHANGED Promised!vars
<1>1. Running("unlink") /\ cp' = cp /\ UNCHANGED rest BY DEF Unlink
<1>2. /\ Me.at \in Files /\ Me.step = "unlink" /\ procs # <<>> /\ status = None
      /\ cp[Me.at] \in Binaries \cup {None}
  BY <1>1, AtStep
<1>3. CASE path' = path BY <1>1, <1>3, SameKept DEF Promised!vars, rest
<1>4. CASE path' = [path EXCEPT ![Me.at] = None]
  <2>1. HasCp BY <1>2 DEF HasCp
  <2>2. cp[Me.at] \in Binaries /\ cp[Me.at].covers = cp[Me.at].code /\ cp[Me.at].whole
    BY <1>2, <2>1 DEF Inv, SafeInv, CurrentInv, SignedInv, LostInv
  <2>3. /\ mode = "-S" /\ path[Me.at] # None /\ path[Me.at].code.linked
        /\ cp[Me.at].room /\ cp[Me.at].code = Promised!Altered(path[Me.at].code)
    BY <1>2 DEF ReadyInv
  <2>4. Kept[Me.at].code = path[Me.at].code
    <3>1. Kept[Me.at] = [code |-> path[Me.at].code, signed |-> path[Me.at].room,
                         covers |-> path[Me.at].covers]
      BY <1>2, <2>3, KeptThere
    <3> QED BY <3>1
  <2>5. path'[Me.at] = None /\ \A f \in Files : f # Me.at => path'[f] = path[f]
    BY <1>2, <1>4 DEF Inv, Data
  <2>6. cp[Me.at] = IF path'[Me.at] # None THEN path'[Me.at] ELSE cp'[Me.at] BY <1>1, <2>5
  <2>7. Kept' = [Kept EXCEPT ![Me.at] = [code |-> cp[Me.at].code, signed |-> cp[Me.at].room,
                                         covers |-> cp[Me.at].covers]]
    BY <1>1, <1>2, <2>2, <2>5, <2>6, KeptChanged
  <2>8. cp[Me.at].room = TRUE BY <2>2, <2>3 DEF Binaries
  <2> QED BY <1>1, <1>2, <2>2, <2>3, <2>4, <2>7, <2>8 DEF Promised!Sign, Promised!Change, rest
<1> QED BY <1>3, <1>4 DEF Unlink

\* The copy is not looked at while the file is in its place, and is the file when it is
\* renamed to where the file was.
LEMMA BehindTheFile ==
  ASSUME ~FlushFails, Inv, ReadyInv, Copy \/ Rename
  PROVE  UNCHANGED Promised!vars
<1>1. CASE Copy
  <2>1. Running("copy") /\ path' = path /\ UNCHANGED rest BY <1>1 DEF Copy
  <2>2. Me.at \in Files /\ Me.step = "copy" /\ procs # <<>> BY <2>1, AtStep
  <2>3. path[Me.at] # None BY <2>2 DEF ReadyInv
  <2>4. \A f \in Files : f # Me.at => cp'[f] = cp[f]
    <3>1. \E w \in BOOLEAN : cp' = [cp EXCEPT ![Me.at] = [cs[Me.at] EXCEPT !.whole = w]]
      BY <1>1 DEF Copy
    <3> QED BY <2>2, <3>1 DEF Inv, Data
  <2>5. \A f \in Files : Form((Best(f))') = Form(Best(f)) BY <2>1, <2>3, <2>4 DEF Best, Form
  <2>6. Kept' = Kept BY <2>5 DEF Kept, Form
  <2> QED BY <2>1, <2>6 DEF Promised!vars, rest
<1>2. CASE Rename
  <2>1. Running("rename") /\ UNCHANGED rest BY <1>2 DEF Rename
  <2>2. Me.at \in Files /\ Me.step = "rename" /\ procs # <<>> BY <2>1, AtStep
  <2>3. path[Me.at] = None /\ cp[Me.at] # None
    BY <2>2 DEF ReadyInv, Inv, SafeInv, CurrentInv, HasCp
  <2>4. CASE UNCHANGED <<path, cp>> BY <2>1, <2>4, SameKept DEF Promised!vars, rest
  <2>5. CASE path' = [path EXCEPT ![Me.at] = cp[Me.at]] /\ cp' = [cp EXCEPT ![Me.at] = None]
    <3>1. /\ path'[Me.at] = cp[Me.at]
          /\ \A f \in Files : f # Me.at => path'[f] = path[f] /\ cp'[f] = cp[f]
      BY <2>2, <2>5 DEF Inv, Data
    <3>2. \A f \in Files : Form((Best(f))') = Form(Best(f)) BY <2>3, <3>1 DEF Best, Form
    <3>3. Kept' = Kept BY <3>2 DEF Kept, Form
    <3> QED BY <2>1, <3>3 DEF Promised!vars, rest
  <2> QED BY <1>2, <2>4, <2>5 DEF Rename
<1> QED BY <1>1, <1>2

\* The shell sees the status of the first process only, and 0 only when all is signed.
LEMMA ExitStore ==
  ASSUME ~FlushFails, Inv, Inv', Exit
  PROVE  (\E s \in 0 .. StatusRange - 1 : Promised!End(s)) \/ UNCHANGED Promised!vars
<1>1. procs # <<>> /\ UNCHANGED <<disk, mode, alter>> BY DEF Exit
<1>2. Kept' = Kept BY <1>1, SameKept DEF disk
<1>3. CASE Len(procs) = 1
  <2>1. procs' = <<>> /\ status' = Me.failed % StatusRange BY <1>3 DEF Exit
  <2>2. status' \in 0 .. StatusRange - 1
    <3>1. Me.failed \in 0 .. N /\ status' = Me.failed /\ Me.failed < StatusRange
      BY <1>1, <2>1, StatusIsCount
    <3> QED BY <3>1, FewFiles, SignAssumption
  <2>3. status = None BY <1>1 DEF Inv, SafeInv, SignedInv
  <2>4. ASSUME status' = 0, mode \in {"-S", "-s"}, NEW f \in Files
        PROVE  Kept[f].covers = Kept[f].code
    <3>1. path'[f] # None /\ path'[f].covers = path'[f].code
      BY <1>1, <2>1, <2>4 DEF Inv, SafeInv, SuccessMeansSigned
    <3>2. path[f] # None /\ path[f].covers = path[f].code BY <1>1, <3>1 DEF disk
    <3>3. Kept[f] = [code |-> path[f].code, signed |-> path[f].room, covers |-> path[f].covers]
      BY <3>2, KeptThere
    <3> QED BY <3>2, <3>3
  <2>5. Promised!End(status') BY <1>1, <1>2, <2>3, <2>4 DEF Promised!End
  <2> QED BY <2>2, <2>5
<1>4. CASE Len(procs) # 1 BY <1>1, <1>2, <1>4 DEF Exit, Promised!vars
<1> QED BY <1>3, <1>4

\* A build is a build.
LEMMA RebuildStore ==
  ASSUME Inv, NEW g \in Files, NEW v \in Versions, Rebuild(g, v) PROVE Promised!Build(g, v)
<1> DEFINE b == Fresh(v)
<1>1. b \in Binaries /\ b.whole /\ b # None BY FreshType, BinaryFields
<1>2. [code |-> b.code, signed |-> b.room, covers |-> b.covers] = Promised!Built(v)
  BY DEF Fresh, Promised!Built
<1>3. path' = [path EXCEPT ![g] = b] /\ cp' = cp /\ status' = None /\ UNCHANGED <<mode, alter>>
  BY DEF Rebuild
<1> HIDE DEF b
<1>4. path'[g] = b /\ \A f \in Files : f # g => path'[f] = path[f] BY <1>3 DEF Inv, Data
<1>5. b = IF path'[g] # None THEN path'[g] ELSE cp'[g] BY <1>1, <1>4
<1>6. Kept' = [Kept EXCEPT ![g] = Promised!Built(v)] BY <1>1, <1>2, <1>3, <1>4, <1>5, KeptChanged
<1> QED BY <1>3, <1>6 DEF Promised!Build

\* Every step of ldid is one of SignedFiles, or none.
LEMMA StepStore ==
  ASSUME ~FlushFails, Inv, Inv', ReadyInv, [SignNext]_signVars
  PROVE  [Promised!Next]_(Promised!vars)
<1> SUFFICES Promised!Next \/ UNCHANGED Promised!vars
  OBVIOUS
<1>1. ASSUME NEW f \in Files, NEW v \in Versions, Rebuild(f, v) PROVE Promised!Next
  BY <1>1, RebuildStore DEF Promised!Next
<1>2. ASSUME NEW m \in Modes, NEW a \in Alters, Start(m, a) PROVE Promised!Next
  <2>1. Promised!Run(m, a) BY <1>2, SameKept DEF Start, Promised!Run
  <2> QED BY <2>1 DEF Promised!Next
<1>3. CASE SetFlag
  <2>1. Me.at \in Files BY <1>3, AtStep DEF SetFlag
  <2> QED BY <1>3, <2>1, SetFlagStore DEF Promised!Next
<1>4. CASE AlterInPlace
  <2>1. Me.at \in Files BY <1>4, AtStep DEF AlterInPlace
  <2> QED BY <1>4, <2>1, AlterInPlaceStore DEF Promised!Next
<1>5. CASE Rehash
  <2>1. Me.at \in Files BY <1>5, AtStep DEF Rehash
  <2> QED BY <1>5, <2>1, RehashStore DEF Promised!Next
<1>6. CASE Unlink
  <2>1. Me.at \in Files BY <1>6, AtStep DEF Unlink
  <2> QED BY <1>6, <2>1, UnlinkStore DEF Promised!Next
<1>7. CASE Copy \/ Rename BY <1>7, BehindTheFile
<1>8. CASE Exit BY <1>8, ExitStore DEF Promised!Next
<1>9. CASE \/ OpenFails \/ OpenInPlace \/ Fork \/ Exec \/ CodesignAllocate
           \/ AlterCopy \/ Sign \/ DropTemp \/ Own \/ Kill
  <2>1. path' = path /\ cp' = cp /\ mode' = mode /\ alter' = alter /\ status' = status
    BY <1>9 DEF OpenFails, OpenInPlace, Fork, Exec, CodesignAllocate, AlterCopy, Sign, DropTemp,
                Own, Kill, disk, rest
  <2> QED BY <2>1, SameKept DEF Promised!vars
<1>10. CASE Crash
  <2>1. status = None BY <1>10, AtStep DEF Crash
  <2> QED BY <1>10, <2>1, SameKept DEF Crash, Promised!vars, disk
<1>11. CASE UNCHANGED signVars BY <1>11, SameKept DEF signVars, Promised!vars
<1> QED
  BY <1>1, <1>2, <1>3, <1>4, <1>5, <1>6, <1>7, <1>8, <1>9, <1>10, <1>11 DEF SignNext, SignStep

\* ldid implements SignedFiles: with no flush that fails unnoticed, every file is at every
\* moment there as it was built or changed, or exchanged as a whole for its signed form.
THEOREM LdidImplementsSignedFiles == ~FlushFails => (SignSpec => ImplementsStore)
<1> SUFFICES ASSUME ~FlushFails PROVE SignSpec => ImplementsStore
  OBVIOUS
<1> DEFINE I == Inv /\ ReadyInv
<1>1. SignInit => I BY InitInv DEF SignInit, ReadyInv
<1>2. I /\ [SignNext]_signVars => I' BY StepInv, StepReady
<1>3. SignInit => Promised!Init BY InitStore
<1>4. I /\ I' /\ [SignNext]_signVars => [Promised!Next]_(Promised!vars) BY StepStore
<1> QED BY <1>1, <1>2, <1>3, <1>4, PTL DEF SignSpec, ImplementsStore, Promised!Spec
=============================================================================
