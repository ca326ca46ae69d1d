------------------------------- MODULE MachRpc -------------------------------
(***************************************************************************)
(* A call of a routine of MachMessages, from the caller to the kernel and  *)
(* back.                                                                   *)
(*                                                                         *)
(* The stubs on both sides pack a message in the order of its struct, and  *)
(* as the headers warn, tightly: an array takes as many words as its count *)
(* says, and what follows it moves up.  Ports and memory out of line are   *)
(* in descriptors, at their places before the words.  A word in memory is  *)
(* whose it is, of which parameter, and an integer: a count, or its place  *)
(* in an array.                                                            *)
(***************************************************************************)
EXTENDS MachMessages

CONSTANT ArrayLengths  \* bound: lengths of arrays, besides the largest

ASSUME ArrayAssumption == ArrayLengths \subseteq Nat
-----------------------------------------------------------------------------
(* Parameters and messages.                                                *)

\* The parameter that counts the elements of an array.
CountOf ==
  [n \in {"masks", "old_handlers", "old_handlerss", "old_behaviors", "old_flavors"} |-> "masksCnt"]
    ++ [ledgers |-> "ledgersCnt", init_port_set |-> "init_port_setCnt", act_list |-> "act_listCnt",
        task_info_out |-> "task_info_outCnt", task_info_in |-> "task_info_inCnt",
        thread_info_out |-> "thread_info_outCnt", new_state |-> "new_stateCnt",
        old_state |-> "old_stateCnt", policy_info |-> "policy_infoCnt", base |-> "baseCnt",
        limit |-> "limitCnt", emulation_vector |-> "emulation_vectorCnt"]
Counts(c, n) == n \in DOMAIN CountOf /\ CountOf[n] = c

Elements(fields) == {fields[k] : k \in DOMAIN fields}
Names(fields) == {f.name : f \in Elements(fields)}
Descriptors(fields) == {f \in Elements(fields) : f.kind = "descriptor"}

\* What a routine returns: pointers, and the arrays whose count is one.
Out(r) == Prototypes[r].pointers
            \cup {n \in Prototypes[r].values : \E c \in Prototypes[r].pointers : Counts(c, n)}
In(r)  == Prototypes[r].values \ Out(r)

\* Pointers that also go to the kernel: the room in an array.
InOut(r) == Prototypes[r].pointers \cap Names(Requests[r])

\* The arrays that c counts, and how many elements they may have.
Counted(r, c) == {f \in Elements(Requests[r]) \cup Elements(Replies[r]) : Counts(c, f.name)}
Amounts(r, c) ==
  {n \in ArrayLengths \cup {f.max : f \in Counted(r, c)} : \A f \in Counted(r, c) : n <= f.max}

\* A number for each count among params.
Chosen(r, params) ==
  LET counts == {c \in params : Counted(r, c) # {}}
  IN  {ns \in [counts -> UNION {Amounts(r, c) : c \in counts}] :
         \A c \in counts : ns[c] \in Amounts(r, c)}

Datum(side, n, i) == <<side, n, i>>
Stale == Datum("stale", "", 0)   \* what an earlier message left in a buffer
IntegerIn(words) == words[1][3]

\* The values of params, if the counts are ns.
Memory(side, params, ns) ==
  [n \in params |->
     IF n \in DOMAIN ns THEN <<Datum(side, n, ns[n])>>
     ELSE IF \E c \in DOMAIN ns : Counts(c, n)
     THEN [i \in 1 .. ns[CountOf[n]] |-> Datum(side, n, i)]
     ELSE <<Datum(side, n, 0)>>]

\* Where each of several fields begins, if they have so many words each, and the last ends.
Starts(lengths) ==
  LET from[k \in 1 .. Len(lengths) + 1] == IF k = 1 THEN 1 ELSE from[k - 1] + lengths[k - 1]
  IN  from

\* The buffer of a message has room for every member of its union.
Size(fields) ==
  Starts([k \in DOMAIN fields |-> IF fields[k].kind = "descriptor" THEN 0 ELSE fields[k].max])
    [Len(fields) + 1] - 1
Room(r, task, thread) ==
  LET union == IF r \in DOMAIN task THEN task ELSE thread
  IN  CHOOSE n \in {Size(union[m]) : m \in DOMAIN union} : \A m \in DOMAIN union : Size(union[m]) <= n

Pack(number, fields, memory, room) ==
  LET from == Starts([k \in DOMAIN fields |->
                        IF fields[k].kind = "descriptor" THEN 0 ELSE Len(memory[fields[k].name])])
      end  == from[Len(fields) + 1] - 1
  IN  [id |-> number,
       words |-> [p \in 1 .. IF end > room THEN room ELSE end |->
                    LET k == CHOOSE k \in DOMAIN fields : from[k] <= p /\ p < from[k + 1]
                    IN  memory[fields[k].name][p - from[k] + 1]],
       descriptors |-> [n \in {f.name : f \in Descriptors(fields)} |-> memory[n]]]

\* What is at p in a buffer.
WordAt(words, p) == IF p \in DOMAIN words THEN words[p] ELSE Stale

\* Where the receiver takes each field to begin: after one word, or after as many as the
\* count before it says.
Begins(fields, words) ==
  LET counts(k) == {j \in 1 .. k - 1 : Counts(fields[j].name, fields[k].name)}
      extent(k, from) ==
        CASE fields[k].kind = "word" -> 1
          [] fields[k].kind = "array" /\ counts(k) # {} ->
               WordAt(words, from[CHOOSE j \in counts(k) : TRUE])[3]
          [] OTHER -> 0
      from[k \in 1 .. Len(fields) + 1] ==
        IF k = 1 THEN 1 ELSE from[k - 1] + extent(k - 1, from)
  IN  from

Unpack(fields, message) ==
  LET from == Begins(fields, message.words)
  IN  [n \in Names(fields) |->
         IF n \in DOMAIN message.descriptors THEN message.descriptors[n]
         ELSE LET k == CHOOSE k \in DOMAIN fields : fields[k].name = n
              IN  [i \in 1 .. from[k + 1] - from[k] |-> WordAt(message.words, from[k] + i - 1)]]
-----------------------------------------------------------------------------
(* A call.                                                                 *)

VARIABLES
  rpc,            \* what comes next: "none", "kernel", "routine", "caller", "over"
  routine, args,  \* what is called, with what
  message,        \* the request, then the reply
  served, given,  \* what the kernel runs, and what it was given
  results,        \* what it returns
  got             \* what the caller got
rpcVars == <<rpc, routine, args, message, served, given, results, got>>

NoMemory == [n \in {} |-> <<>>]
NoMessage == [id |-> 0, words |-> <<>>, descriptors |-> NoMemory]
KERN_SUCCESS == 0
KERN_FAILURE == 5
RetCodeIs(k) == [n \in {"RetCode"} |-> <<Datum("out", "RetCode", k)>>]

RpcInit ==
  /\ rpc = "none" /\ routine = "none" /\ args = NoMemory /\ message = NoMessage
  /\ served = "none" /\ given = NoMemory /\ results = NoMemory /\ got = NoMemory

Call(r) ==
  /\ rpc \in {"none", "over"}
  /\ \E ns \in Chosen(r, In(r) \cup InOut(r)) : args' = Memory("in", In(r) \cup InOut(r), ns)
  /\ \E id \in {id \in DOMAIN Numbers : Numbers[id] = r} :
       message' = Pack(id, Requests[r], args', Room(r, TaskRequests, ThreadRequests))
  /\ rpc' = "kernel" /\ routine' = r
  /\ served' = "none" /\ given' = NoMemory /\ results' = NoMemory /\ got' = NoMemory

\* The kernel finds the routine by the number of the request.
Serve ==
  /\ rpc = "kernel"
  /\ served' = Numbers[message.id]
  /\ given' = Unpack(Requests[served'], message)
  /\ rpc' = "routine" /\ message' = NoMessage
  /\ UNCHANGED <<routine, args, results, got>>

\* Results fill at most the room the caller has.
Succeed ==
  /\ rpc = "routine"
  /\ \E ns \in Chosen(served, Out(served)) :
       /\ \A c \in DOMAIN ns \cap InOut(served) : ns[c] <= IntegerIn(given[c])
       /\ results' = Memory("out", Out(served), ns) ++ RetCodeIs(KERN_SUCCESS)
  /\ message' = Pack(0, Replies[served], results', Room(served, TaskReplies, ThreadReplies))
  /\ rpc' = "caller"
  /\ UNCHANGED <<routine, args, served, given, got>>

\* A failure is a mig_reply_error_t, whatever the reply of the routine: RetCode alone.
Fail ==
  /\ rpc = "routine"
  /\ results' = RetCodeIs(KERN_FAILURE)
  /\ message' = Pack(0, <<RetCode>>, results', 1)
  /\ rpc' = "caller"
  /\ UNCHANGED <<routine, args, served, given, got>>

\* A reply that should have descriptors and has none is a failure; in the others RetCode
\* tells.
Receive ==
  /\ rpc = "caller"
  /\ LET fields  == Replies[routine]
         failure == Descriptors(fields) # {} /\ DOMAIN message.descriptors = {}
         reply   == Unpack(IF failure THEN <<RetCode>> ELSE fields, message)
     IN  got' = IF "RetCode" \in DOMAIN reply /\ IntegerIn(reply["RetCode"]) # KERN_SUCCESS
                THEN [n \in {"RetCode"} |-> reply[n]]
                ELSE RetCodeIs(KERN_SUCCESS) ++ reply
  /\ rpc' = "over" /\ message' = NoMessage
  /\ UNCHANGED <<routine, args, served, given, results>>

RpcNext == (\E r \in DOMAIN Prototypes : Call(r)) \/ Serve \/ Succeed \/ Fail \/ Receive
RpcSpec == RpcInit /\ [][RpcNext]_rpcVars
-----------------------------------------------------------------------------
\* The kernel runs the routine that was called, with every argument of its prototype as
\* the caller gave it, whatever the lengths of the arrays and the sizes of the buffers.
ArgumentsArrive ==
  rpc \in {"routine", "caller", "over"} =>
    /\ served = routine
    /\ \A n \in In(routine) \cup InOut(routine) : n \in DOMAIN given /\ given[n] = args[n]

\* The caller gets every result of the prototype as the kernel returned it, or the
\* RetCode of a failure and nothing else.
ResultsArrive == rpc = "over" => got = results
=============================================================================
