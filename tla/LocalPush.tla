------------------------------ MODULE LocalPush ------------------------------
(***************************************************************************)
(* Projects/LocalPush: the delegate of an application that reminds its     *)
(* user of an event and asks for messages in a background task.            *)
(*                                                                         *)
(* Everything runs on the main thread, one callback or block at a time:    *)
(* what UIKit calls, and the blocks of the main queue in their order.  In  *)
(* between, the user comes and goes and iOS decides when the time in the   *)
(* background is over.  The blocks read bgTask when they run, not when     *)
(* they are queued.                                                        *)
(***************************************************************************)
EXTENDS Integers, Sequences

CONSTANTS
  Minute,      \* seconds
  Repeated,    \* times that the clock, set back, shows for the second time
  Hour,        \* how far it is set back
  Midnights,   \* when the clock may stand at the first launch
  MaxTasks,    \* bound: background tasks begun
  MaxBlocks,   \* bound: of the main queue when the application leaves the foreground
  MaxWait      \* bound: seconds that pass in all

ASSUME PushAssumption ==
  /\ Minute \in Nat \ {0} /\ Midnights \subseteq Nat
  /\ Repeated \subseteq Nat /\ Hour \in Nat
  /\ MaxTasks \in Nat /\ MaxBlocks \in Nat /\ MaxWait \in Nat

VARIABLES
  app,         \* "off", "active", "background" or "suspended"
  bgTask,      \* the delegate's: UIBackgroundTaskInvalid, or the last task begun
  live,        \* the background tasks that iOS knows of
  tasks,       \* how many were begun
  warned,      \* tasks whose expiration handlers iOS has called: no time remains
  mainQueue,   \* blocks: "chat" and "expired"
  now, waited, \* seconds; of them, how many passed
  scheduled,   \* local notifications: when they fire, and when that was decided
  badge,       \* applicationIconBadgeNumber
  asserted     \* an NSAssert has ended the application
task     == <<bgTask, live, tasks, warned, mainQueue>>
clock    == <<now, waited>>
notes    == <<scheduled, badge>>
pushVars == <<app, task, clock, notes, asserted>>

UIBackgroundTaskInvalid == 0
Running == app \in {"active", "background"}

PushInit ==
  /\ app = "off" /\ bgTask = UIBackgroundTaskInvalid /\ live = {} /\ tasks = 0
  /\ warned = {} /\ mainQueue = <<>>
  /\ now \in Midnights /\ waited = 0
  /\ scheduled = {} /\ badge = 0 /\ asserted = FALSE

\* The process is gone, and with it its blocks and its tasks.
End ==
  /\ app' = "off" /\ bgTask' = UIBackgroundTaskInvalid /\ live' = {}
  /\ warned' = {} /\ mainQueue' = <<>>
  /\ UNCHANGED tasks
-----------------------------------------------------------------------------
(* The reminder.                                                           *)

\* The time n minutes from t without the seconds; as the components of a date it may mean
\* an earlier time as well, because they say nothing of the time zone.
Due(t, n) == ((t + n * Minute) \div Minute) * Minute
Meant(u) == {u} \cup (IF u \in Repeated THEN {u - Hour} ELSE {})

\* Mutant: one minute from now.
FireDateSooner(t) == {u - 1 * Minute : u \in Meant(Due(t, 1))}

\* The event is two minutes from now, and the notification 1 minute before.
FireDate(t) == {u - 1 * Minute : u \in Meant(Due(t, 2))}

\* A tapped notification: its badge number, 1, less one.  Else a new reminder replaces
\* the ones of earlier launches.
DidFinishLaunching(tapped) ==
  /\ app = "off" /\ ~asserted
  /\ app' = "active"
  /\ IF tapped
     THEN /\ badge = 1 /\ badge' = 1 - 1
          /\ UNCHANGED scheduled
     ELSE /\ \E at \in FireDate(now) : scheduled' = {[at |-> at, decided |-> now]}
          /\ UNCHANGED badge
  /\ UNCHANGED <<task, clock, asserted>>

\* An active application gets the notification itself (didReceiveLocalNotification: an
\* alert, and its number less one); else iOS shows it with the number.
Deliver == badge' = IF app = "active" THEN 1 - 1 ELSE 1

Fire ==
  /\ \E n \in scheduled : now >= n.at /\ scheduled' = scheduled \ {n}
  /\ Deliver
  /\ UNCHANGED <<app, task, clock, asserted>>

Tick ==
  /\ waited < MaxWait
  /\ now' = now + 1 /\ waited' = waited + 1
  /\ UNCHANGED <<app, task, notes, asserted>>
-----------------------------------------------------------------------------
(* The background task.                                                    *)

\* Mutant: a task begins whether or not there is one.
BeginAnother ==
  /\ app = "active" /\ tasks < MaxTasks /\ Len(mainQueue) < MaxBlocks
  /\ app' = "background"
  /\ bgTask' = tasks + 1 /\ tasks' = tasks + 1 /\ live' = live \cup {tasks + 1}
  /\ mainQueue' = Append(mainQueue, "chat")
  /\ UNCHANGED <<warned, asserted, clock, notes>>

\* iOS may have no background task to give.
DidEnterBackground ==
  /\ app = "active" /\ tasks < MaxTasks /\ Len(mainQueue) < MaxBlocks
  /\ IF bgTask # UIBackgroundTaskInvalid
     THEN End /\ asserted' = TRUE
     ELSE /\ app' = "background"
          /\ \/ bgTask' = tasks + 1 /\ tasks' = tasks + 1 /\ live' = live \cup {tasks + 1}
             \/ bgTask' = UIBackgroundTaskInvalid /\ UNCHANGED <<tasks, live>>
          /\ mainQueue' = Append(mainQueue, "chat")
          /\ UNCHANGED <<warned, asserted>>
  /\ UNCHANGED <<clock, notes>>

\* The user opens the application, or the notification that it shows, again.
EnterForeground ==
  /\ app \in {"background", "suspended"}
  /\ app' = "active" /\ warned' = {}
  /\ badge' \in {badge, 1 - 1}
  /\ UNCHANGED <<bgTask, live, tasks, mainQueue, clock, scheduled, asserted>>

\* The expiration handler of a task queues a block.
Expire(t) ==
  /\ app = "background" /\ t \in live \ warned
  /\ warned' = warned \cup {t}
  /\ mainQueue' = Append(mainQueue, "expired")
  /\ UNCHANGED <<app, bgTask, live, tasks, clock, notes, asserted>>

EndBackgroundTask ==
  /\ live' = live \ {bgTask}
  /\ bgTask' = UIBackgroundTaskInvalid

\* Mutant: the task is left to its expiration handler.
ChatKeepsTask ==
  /\ Running /\ mainQueue # <<>> /\ Head(mainQueue) = "chat"
  /\ IF warned = {} THEN Deliver ELSE UNCHANGED badge
  /\ mainQueue' = Tail(mainQueue)
  /\ UNCHANGED <<app, bgTask, live, tasks, warned, clock, scheduled, asserted>>

\* checkForIncomingChat always has a message: the first turn of the loop presents it,
\* unless no time is left for one.
Chat ==
  /\ Running /\ mainQueue # <<>> /\ Head(mainQueue) = "chat"
  /\ IF warned = {} THEN Deliver ELSE UNCHANGED badge
  /\ EndBackgroundTask
  /\ mainQueue' = Tail(mainQueue)
  /\ UNCHANGED <<app, tasks, warned, clock, scheduled, asserted>>

Expired ==
  /\ Running /\ mainQueue # <<>> /\ Head(mainQueue) = "expired"
  /\ EndBackgroundTask
  /\ mainQueue' = Tail(mainQueue)
  /\ UNCHANGED <<app, tasks, warned, clock, notes, asserted>>

\* iOS suspends an application without tasks; one with tasks it ends when the time is
\* over, and any that is not active when it needs the memory.
Suspend ==
  /\ app = "background" /\ live = {}
  /\ app' = "suspended"
  /\ UNCHANGED <<task, clock, notes, asserted>>

Terminate ==
  /\ \/ app = "suspended"
     \/ app = "background" /\ (live = {} \/ warned # {})
  /\ End
  /\ UNCHANGED <<clock, notes, asserted>>

PushNext ==
  \/ \E tapped \in BOOLEAN : DidFinishLaunching(tapped)
  \/ Fire \/ Tick
  \/ DidEnterBackground \/ EnterForeground
  \/ \E t \in live : Expire(t)
  \/ Chat \/ Expired
  \/ Suspend \/ Terminate

\* The main thread takes the next block whenever it may run.
PushFairness == WF_pushVars(Chat) /\ WF_pushVars(Expired)

PushSpec == PushInit /\ [][PushNext]_pushVars /\ PushFairness
-----------------------------------------------------------------------------
PushTypeOK ==
  /\ app \in {"off", "active", "background", "suspended"}
  /\ tasks \in 0 .. MaxTasks
  /\ bgTask \in 0 .. tasks /\ live \subseteq 1 .. tasks
  /\ warned \subseteq 1 .. tasks
  /\ mainQueue \in Seq({"chat", "expired"})
  /\ now \in Nat /\ waited \in 0 .. MaxWait
  /\ scheduled \subseteq [at : Int, decided : Nat]
  /\ badge \in 0 .. 1 /\ asserted \in BOOLEAN

\* Whenever the user comes back and whenever the time is over, the delegate knows every
\* task it has begun and not ended, it is one, and a block that will end it is queued.
TaskIsKnown ==
  /\ live = {bgTask} \ {UIBackgroundTaskInvalid}
  /\ live # {} => \E i \in 1 .. Len(mainQueue) : mainQueue[i] = "chat"

\* A task is always ended by the application or with it, so that iOS need not do it.
EveryTaskEnds == \A t \in 1 .. MaxTasks : (t \in live) ~> (t \notin live)

\* At most one reminder is outstanding, and it was set to fire later than it was set, by
\* no more than a minute; unless the event's time is shown twice.
RemindsOnceAhead ==
  \A m, n \in scheduled : /\ m = n /\ n.at <= n.decided + Minute
                          /\ n.decided < n.at \/ Due(n.decided, 2) \in Repeated

\* AppDelegate.m:164 asserts that no task is left when the next one begins.
NoTaskLeft == ~asserted
=============================================================================
