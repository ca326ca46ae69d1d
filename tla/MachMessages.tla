----------------------------- MODULE MachMessages -----------------------------
(***************************************************************************)
(* mach/arm/task.h and mach/arm/thread_act.h: the routines of a Mach task  *)
(* and of a thread, the messages that carry a call to the kernel and its   *)
(* results back, and the numbers that tell the messages apart.  The target *)
(* of a call, the first parameter of each, is the message's destination.   *)
(***************************************************************************)
EXTENDS Naturals, Sequences

CONSTANT MaxOutOfLine  \* bound: elements of an array out of line

ASSUME RpcAssumption == MaxOutOfLine \in Nat \ {0}

\* Both functions in one, the first one's values where both have some.
f ++ g == [x \in DOMAIN f \cup DOMAIN g |-> IF x \in DOMAIN f THEN f[x] ELSE g[x]]

\* Parameters of a routine: those passed by value or as an array, those by pointer.
Params(values, pointers) == [values |-> values, pointers |-> pointers]

\* Fields of a message.
Value(n)     == [kind |-> "word", name |-> n, max |-> 1]
Array(n, m)  == [kind |-> "array", name |-> n, max |-> m]
Port(n)      == [kind |-> "descriptor", name |-> n, max |-> 1]
Ports(n, m)  == [kind |-> "descriptor", name |-> n, max |-> m]
OutOfLine(n) == [kind |-> "descriptor", name |-> n, max |-> MaxOutOfLine]
RetCode      == Value("RetCode")
-----------------------------------------------------------------------------
(* The routines.                                                           *)

TaskPrototypesA ==
  [r \in {"task_terminate", "task_suspend", "task_resume"} |-> Params({}, {})] ++
  [task_create |-> Params({"ledgers", "ledgersCnt", "inherit_memory"}, {"child_task"}),
   task_threads |-> Params({}, {"act_list", "act_listCnt"}),
   mach_ports_register |-> Params({"init_port_set", "init_port_setCnt"}, {}),
   mach_ports_lookup |-> Params({}, {"init_port_set", "init_port_setCnt"}),
   task_info |-> Params({"flavor", "task_info_out"}, {"task_info_outCnt"}),
   task_set_info |-> Params({"flavor", "task_info_in", "task_info_inCnt"}, {}),
   task_get_special_port |-> Params({"which_port"}, {"special_port"}),
   task_set_special_port |-> Params({"which_port", "special_port"}, {})]

TaskPrototypesB ==
  [thread_create |-> Params({}, {"child_act"}),
   thread_create_running |-> Params({"flavor", "new_state", "new_stateCnt"}, {"child_act"}),
   task_set_exception_ports |->
      Params({"exception_mask", "new_port", "behavior", "new_flavor"}, {}),
   task_get_exception_ports |->
      Params({"exception_mask", "masks", "old_handlers", "old_behaviors", "old_flavors"},
             {"masksCnt"}),
   task_swap_exception_ports |->
      Params({"exception_mask", "new_port", "behavior", "new_flavor", "masks",
              "old_handlerss", "old_behaviors", "old_flavors"},
             {"masksCnt"}),
   lock_set_create |-> Params({"n_ulocks", "policy"}, {"new_lock_set"}),
   lock_set_destroy |-> Params({"lock_set"}, {}),
   semaphore_create |-> Params({"policy", "value"}, {"semaphore"}),
   semaphore_destroy |-> Params({"semaphore"}, {}),
   task_policy_set |-> Params({"flavor", "policy_info", "policy_infoCnt"}, {}),
   task_policy_get |-> Params({"flavor", "policy_info"}, {"policy_infoCnt", "get_default"})]

TaskPrototypesC ==
  [task_sample |-> Params({"reply"}, {}),
   task_policy |-> Params({"policy", "base", "baseCnt", "set_limit", "change"}, {}),
   task_set_emulation |-> Params({"routine_entry_pt", "routine_number"}, {}),
   task_get_emulation_vector |->
      Params({}, {"vector_start", "emulation_vector", "emulation_vectorCnt"}),
   task_set_emulation_vector |->
      Params({"vector_start", "emulation_vector", "emulation_vectorCnt"}, {}),
   task_set_ras_pc |-> Params({"basepc", "boundspc"}, {}),
   task_assign |-> Params({"new_set", "assign_threads"}, {}),
   task_assign_default |-> Params({"assign_threads"}, {}),
   task_get_assignment |-> Params({}, {"assigned_set"}),
   task_set_policy |->
      Params({"pset", "policy", "base", "baseCnt", "limit", "limitCnt", "change"}, {})]

ThreadPrototypesA ==
  [r \in {"thread_terminate", "thread_suspend", "thread_resume", "thread_abort",
          "thread_abort_safely"} |-> Params({}, {})] ++
  [act_get_state |-> Params({"flavor", "old_state"}, {"old_stateCnt"}),
   act_set_state |-> Params({"flavor", "new_state", "new_stateCnt"}, {}),
   thread_get_state |-> Params({"flavor", "old_state"}, {"old_stateCnt"}),
   thread_set_state |-> Params({"flavor", "new_state", "new_stateCnt"}, {})]

ThreadPrototypesB ==
  [thread_depress_abort |-> Params({}, {}),
   thread_get_special_port |-> Params({"which_port"}, {"special_port"}),
   thread_set_special_port |-> Params({"which_port", "special_port"}, {}),
   thread_info |-> Params({"flavor", "thread_info_out"}, {"thread_info_outCnt"}),
   thread_set_exception_ports |->
      Params({"exception_mask", "new_port", "behavior", "new_flavor"}, {}),
   thread_get_exception_ports |->
      Params({"exception_mask", "masks", "old_handlers", "old_behaviors", "old_flavors"},
             {"masksCnt"}),
   thread_swap_exception_ports |->
      Params({"exception_mask", "new_port", "behavior", "new_flavor", "masks",
              "old_handlers", "old_behaviors", "old_flavors"},
             {"masksCnt"}),
   thread_policy |-> Params({"policy", "base", "baseCnt", "set_limit"}, {}),
   thread_policy_set |-> Params({"flavor", "policy_info", "policy_infoCnt"}, {})]

ThreadPrototypesC ==
  [thread_assign_default |-> Params({}, {}),
   thread_policy_get |-> Params({"flavor", "policy_info"}, {"policy_infoCnt", "get_default"}),
   thread_sample |-> Params({"reply"}, {}),
   etap_trace_thread |-> Params({"trace_status"}, {}),
   thread_assign |-> Params({"new_set"}, {}),
   thread_get_assignment |-> Params({}, {"assigned_set"}),
   thread_set_policy |-> Params({"pset", "policy", "base", "baseCnt", "limit", "limitCnt"}, {})]

Prototypes == TaskPrototypesA ++ TaskPrototypesB ++ TaskPrototypesC
                ++ ThreadPrototypesA ++ ThreadPrototypesB ++ ThreadPrototypesC
-----------------------------------------------------------------------------
(* Their requests.                                                         *)

TaskRequestsA ==
  [r \in {"task_terminate", "task_threads", "mach_ports_lookup", "task_suspend",
          "task_resume"} |-> <<>>] ++
  [task_create |-> <<OutOfLine("ledgers"), Value("ledgersCnt"), Value("inherit_memory")>>,
   mach_ports_register |-> <<OutOfLine("init_port_set"), Value("init_port_setCnt")>>,
   task_info |-> <<Value("flavor"), Value("task_info_outCnt")>>,
   task_set_info |-> <<Value("flavor"), Value("task_info_inCnt"), Array("task_info_in", 10)>>,
   task_get_special_port |-> <<Value("which_port")>>,
   task_set_special_port |-> <<Port("special_port"), Value("which_port")>>]

TaskRequestsB ==
  [thread_create |-> <<>>,
   thread_create_running |-> <<Value("flavor"), Value("new_stateCnt"), Array("new_state", 144)>>,
   task_set_exception_ports |->
      <<Port("new_port"), Value("exception_mask"), Value("behavior"), Value("new_flavor")>>,
   task_get_exception_ports |-> <<Value("exception_mask")>>,
   task_swap_exception_ports |->
      <<Port("new_port"), Value("exception_mask"), Value("behavior"), Value("new_flavor")>>,
   lock_set_create |-> <<Value("n_ulocks"), Value("policy")>>,
   lock_set_destroy |-> <<Port("lock_set")>>,
   semaphore_create |-> <<Value("policy"), Value("value")>>,
   semaphore_destroy |-> <<Port("semaphore")>>,
   task_policy_set |-> <<Value("flavor"), Value("policy_infoCnt"), Array("policy_info", 16)>>,
   task_policy_get |-> <<Value("flavor"), Value("policy_infoCnt"), Value("get_default")>>]

TaskRequestsC ==
  [r \in {"task_get_emulation_vector", "task_get_assignment"} |-> <<>>] ++
  [task_sample |-> <<Port("reply")>>,
   task_policy |->
      <<Value("policy"), Value("baseCnt"), Array("base", 5), Value("set_limit"),
        Value("change")>>,
   task_set_emulation |-> <<Value("routine_entry_pt"), Value("routine_number")>>,
   task_set_emulation_vector |->
      <<OutOfLine("emulation_vector"), Value("vector_start"), Value("emulation_vectorCnt")>>,
   task_set_ras_pc |-> <<Value("basepc"), Value("boundspc")>>,
   task_assign |-> <<Port("new_set"), Value("assign_threads")>>,
   task_assign_default |-> <<Value("assign_threads")>>,
   task_set_policy |->
      <<Port("pset"), Value("policy"), Value("baseCnt"), Array("base", 5), Value("limitCnt"),
        Array("limit", 1), Value("change")>>]

\* Mutant: the count of an array comes after the array.
CountLast ==
  [TaskRequestsA ++ TaskRequestsB ++ TaskRequestsC EXCEPT !.task_set_policy =
     <<Port("pset"), Value("policy"), Value("baseCnt"), Array("base", 5), Array("limit", 1),
       Value("limitCnt"), Value("change")>>]

\* union __RequestUnion__task_subsystem
TaskRequests == TaskRequestsA ++ TaskRequestsB ++ TaskRequestsC

ThreadRequestsA ==
  [r \in {"thread_terminate", "thread_suspend", "thread_resume", "thread_abort",
          "thread_abort_safely"} |-> <<>>] ++
  [act_get_state |-> <<Value("flavor"), Value("old_stateCnt")>>,
   act_set_state |-> <<Value("flavor"), Value("new_stateCnt"), Array("new_state", 144)>>,
   thread_get_state |-> <<Value("flavor"), Value("old_stateCnt")>>,
   thread_set_state |-> <<Value("flavor"), Value("new_stateCnt"), Array("new_state", 144)>>]

ThreadRequestsB ==
  [thread_depress_abort |-> <<>>,
   thread_get_special_port |-> <<Value("which_port")>>,
   thread_set_special_port |-> <<Port("special_port"), Value("which_port")>>,
   thread_info |-> <<Value("flavor"), Value("thread_info_outCnt")>>,
   thread_set_exception_ports |->
      <<Port("new_port"), Value("exception_mask"), Value("behavior"), Value("new_flavor")>>,
   thread_get_exception_ports |-> <<Value("exception_mask")>>,
   thread_swap_exception_ports |->
      <<Port("new_port"), Value("exception_mask"), Value("behavior"), Value("new_flavor")>>,
   thread_policy |-> <<Value("policy"), Value("baseCnt"), Array("base", 5), Value("set_limit")>>,
   thread_policy_set |-> <<Value("flavor"), Value("policy_infoCnt"), Array("policy_info", 16)>>]

ThreadRequestsC ==
  [r \in {"thread_assign_default", "thread_get_assignment"} |-> <<>>] ++
  [thread_policy_get |-> <<Value("flavor"), Value("policy_infoCnt"), Value("get_default")>>,
   thread_sample |-> <<Port("reply")>>,
   etap_trace_thread |-> <<Value("trace_status")>>,
   thread_assign |-> <<Port("new_set")>>,
   thread_set_policy |->
      <<Port("pset"), Value("policy"), Value("baseCnt"), Array("base", 5), Value("limitCnt"),
        Array("limit", 1)>>]

ThreadRequests == ThreadRequestsA ++ ThreadRequestsB ++ ThreadRequestsC

Requests == TaskRequests ++ ThreadRequests
-----------------------------------------------------------------------------
(* Their replies.  The kernel's RetCode is in them, or 0 if there is none. *)

TaskRepliesA ==
  [r \in {"task_terminate", "mach_ports_register", "task_set_info", "task_suspend",
          "task_resume", "task_set_special_port"} |-> <<RetCode>>] ++
  [task_create |-> <<Port("child_task")>>,
   task_threads |-> <<OutOfLine("act_list"), Value("act_listCnt")>>,
   mach_ports_lookup |-> <<OutOfLine("init_port_set"), Value("init_port_setCnt")>>,
   task_info |-> <<RetCode, Value("task_info_outCnt"), Array("task_info_out", 10)>>,
   task_get_special_port |-> <<Port("special_port")>>]

TaskRepliesB ==
  [r \in {"task_set_exception_ports", "lock_set_destroy", "semaphore_destroy",
          "task_policy_set"} |-> <<RetCode>>] ++
  [thread_create |-> <<Port("child_act")>>,
   thread_create_running |-> <<Port("child_act")>>,
   task_get_exception_ports |->
      <<Ports("old_handlers", 32), Value("masksCnt"), Array("masks", 32),
        Array("old_behaviors", 32), Array("old_flavors", 32)>>,
   task_swap_exception_ports |->
      <<Ports("old_handlerss", 32), Value("masksCnt"), Array("masks", 32),
        Array("old_behaviors", 32), Array("old_flavors", 32)>>,
   lock_set_create |-> <<Port("new_lock_set")>>,
   semaphore_create |-> <<Port("semaphore")>>,
   task_policy_get |->
      <<RetCode, Value("policy_infoCnt"), Array("policy_info", 16), Value("get_default")>>]

TaskRepliesC ==
  [r \in {"task_sample", "task_policy", "task_set_emulation", "task_set_emulation_vector",
          "task_set_ras_pc", "task_assign", "task_assign_default",
          "task_set_policy"} |-> <<RetCode>>] ++
  [task_get_emulation_vector |->
      <<OutOfLine("emulation_vector"), Value("vector_start"), Value("emulation_vectorCnt")>>,
   task_get_assignment |-> <<Port("assigned_set")>>]

TaskReplies == TaskRepliesA ++ TaskRepliesB ++ TaskRepliesC

ThreadRepliesA ==
  [r \in {"thread_terminate", "act_set_state", "thread_set_state", "thread_suspend",
          "thread_resume", "thread_abort", "thread_abort_safely"} |-> <<RetCode>>] ++
  [act_get_state |-> <<RetCode, Value("old_stateCnt"), Array("old_state", 144)>>,
   thread_get_state |-> <<RetCode, Value("old_stateCnt"), Array("old_state", 144)>>]

ThreadRepliesB ==
  [r \in {"thread_depress_abort", "thread_set_special_port", "thread_set_exception_ports",
          "thread_policy", "thread_policy_set"} |-> <<RetCode>>] ++
  [thread_get_special_port |-> <<Port("special_port")>>,
   thread_info |-> <<RetCode, Value("thread_info_outCnt"), Array("thread_info_out", 12)>>,
   thread_get_exception_ports |->
      <<Ports("old_handlers", 32), Value("masksCnt"), Array("masks", 32),
        Array("old_behaviors", 32), Array("old_flavors", 32)>>,
   thread_swap_exception_ports |->
      <<Ports("old_handlers", 32), Value("masksCnt"), Array("masks", 32),
        Array("old_behaviors", 32), Array("old_flavors", 32)>>]

ThreadRepliesC ==
  [r \in {"thread_sample", "etap_trace_thread", "thread_assign", "thread_assign_default",
          "thread_set_policy"} |-> <<RetCode>>] ++
  [thread_policy_get |->
      <<RetCode, Value("policy_infoCnt"), Array("policy_info", 16), Value("get_default")>>,
   thread_get_assignment |-> <<Port("assigned_set")>>]

\* Mutant: RetCode is not what the reply begins with.
RetCodeLate ==
  [ThreadRepliesA ++ ThreadRepliesB ++ ThreadRepliesC EXCEPT !.thread_get_state =
     <<Value("old_stateCnt"), RetCode, Array("old_state", 144)>>]

ThreadReplies == ThreadRepliesA ++ ThreadRepliesB ++ ThreadRepliesC

Replies == TaskReplies ++ ThreadReplies
-----------------------------------------------------------------------------
(* The numbers of the requests.                                            *)

Numbered(first, names) == [id \in first .. first + Len(names) - 1 |-> names[id - first + 1]]

SubsystemMapTask ==
  Numbered(3400,
    <<"task_create", "task_terminate", "task_threads", "mach_ports_register",
      "mach_ports_lookup", "task_info", "task_set_info", "task_suspend", "task_resume",
      "task_get_special_port", "task_set_special_port", "thread_create",
      "thread_create_running", "task_set_exception_ports", "task_get_exception_ports",
      "task_swap_exception_ports", "lock_set_create", "lock_set_destroy", "semaphore_create",
      "semaphore_destroy", "task_policy_set", "task_policy_get", "task_sample", "task_policy",
      "task_set_emulation", "task_get_emulation_vector", "task_set_emulation_vector",
      "task_set_ras_pc">>) ++
  Numbered(3429,
    <<"task_assign", "task_assign_default", "task_get_assignment", "task_set_policy">>)

SubsystemMapThreadAct ==
  Numbered(3600,
    <<"thread_terminate", "act_get_state", "act_set_state", "thread_get_state",
      "thread_set_state", "thread_suspend", "thread_resume", "thread_abort",
      "thread_abort_safely", "thread_depress_abort", "thread_get_special_port",
      "thread_set_special_port", "thread_info", "thread_set_exception_ports",
      "thread_get_exception_ports", "thread_swap_exception_ports", "thread_policy",
      "thread_policy_set", "thread_policy_get", "thread_sample", "etap_trace_thread",
      "thread_assign", "thread_assign_default", "thread_get_assignment", "thread_set_policy">>)

Numbers == SubsystemMapTask ++ SubsystemMapThreadAct
=============================================================================
