----------------------------- MODULE ThreadPool -----------------------------
(***************************************************************************)
(* include/thread_pool.h: the workers' loop, enqueue and the destructor.   *)
(*                                                                         *)
(* What runs under queue_mutex_ is one step.  Both notifications come      *)
(* after the mutex is released, so a worker may look at the queue between  *)
(* a push and its notify_one.  A task may itself call enqueue.  Tasks are  *)
(* numbered in the order they are pushed; an exception of a task ends in   *)
(* its future and the worker goes on.                                      *)
(***************************************************************************)
EXTENDS Integers, Sequences, FiniteSets

CONSTANTS Worker,   \* workers_
          Client,   \* threads that call enqueue
          Owner,    \* the thread that runs the destructor
          MaxTasks  \* bound: tasks pushed

ASSUME PoolAssumption ==
  /\ Worker # {} /\ IsFiniteSet(Worker)
  /\ Worker \cap Client = {} /\ Owner \notin Worker \cup Client
  /\ MaxTasks \in Nat

VARIABLES
  tasks,      \* tasks_
  stop,       \* stop_
  w,          \* where each worker is: "check", "waiting", "running", "exited"
  run,        \* the task each worker runs, or 0
  notifying,  \* callers of enqueue between the push and notify_one
  dtor,       \* the destructor: "alive", "notify", "joining", "gone"
  pushed,     \* number of tasks pushed so far
  finished    \* the tasks that have returned

vars == <<tasks, stop, w, run, notifying, dtor, pushed, finished>>

Init ==
  /\ tasks = <<>>
  /\ stop = FALSE
  /\ w = [x \in Worker |-> "check"]
  /\ run = [x \in Worker |-> 0]
  /\ notifying = {}
  /\ dtor = "alive"
  /\ pushed = 0
  /\ finished = {}

\* Mutant: the worker goes round again instead of returning.
CheckSpins(x) ==
  /\ w[x] = "check"
  /\ CASE tasks = <<>> /\ stop -> UNCHANGED <<w, tasks, run>>
       [] tasks = <<>> /\ ~stop ->
            /\ w' = [w EXCEPT ![x] = "waiting"]
            /\ UNCHANGED <<tasks, run>>
       [] tasks # <<>> ->
            /\ w' = [w EXCEPT ![x] = "running"]
            /\ run' = [run EXCEPT ![x] = Head(tasks)]
            /\ tasks' = Tail(tasks)
  /\ UNCHANGED <<stop, notifying, dtor, pushed, finished>>

\* Mutant: front() without pop() while another task is queued.
CheckKeepsTask(x) ==
  /\ w[x] = "check"
  /\ CASE tasks = <<>> /\ stop ->
            /\ w' = [w EXCEPT ![x] = "exited"]
            /\ UNCHANGED <<tasks, run>>
       [] tasks = <<>> /\ ~stop ->
            /\ w' = [w EXCEPT ![x] = "waiting"]
            /\ UNCHANGED <<tasks, run>>
       [] tasks # <<>> ->
            /\ w' = [w EXCEPT ![x] = "running"]
            /\ run' = [run EXCEPT ![x] = Head(tasks)]
            /\ tasks' = IF Len(tasks) > 1 THEN tasks ELSE Tail(tasks)
  /\ UNCHANGED <<stop, notifying, dtor, pushed, finished>>

\* One pass of a worker under queue_mutex_: wait, return, or take a task.
Check(x) ==
  /\ w[x] = "check"
  /\ CASE tasks = <<>> /\ stop ->
            /\ w' = [w EXCEPT ![x] = "exited"]
            /\ UNCHANGED <<tasks, run>>
       [] tasks = <<>> /\ ~stop ->
            /\ w' = [w EXCEPT ![x] = "waiting"]
            /\ UNCHANGED <<tasks, run>>
       [] tasks # <<>> ->
            /\ w' = [w EXCEPT ![x] = "running"]
            /\ run' = [run EXCEPT ![x] = Head(tasks)]
            /\ tasks' = Tail(tasks)
  /\ UNCHANGED <<stop, notifying, dtor, pushed, finished>>

\* A condition variable may wake up on its own.
SpuriousWakeup(x) ==
  /\ w[x] = "waiting"
  /\ w' = [w EXCEPT ![x] = "check"]
  /\ UNCHANGED <<tasks, stop, run, notifying, dtor, pushed, finished>>

\* task() returns.
FinishTask(x) ==
  /\ w[x] = "running"
  /\ x \notin notifying
  /\ w' = [w EXCEPT ![x] = "check"]
  /\ run' = [run EXCEPT ![x] = 0]
  /\ finished' = finished \cup {run[x]}
  /\ UNCHANGED <<tasks, stop, notifying, dtor, pushed>>

\* Who may call enqueue: a client while the pool lives, a running task.
CanCall(c) ==
  /\ c \notin notifying
  /\ \/ c \in Client /\ dtor = "alive"
     \/ c \in Worker /\ w[c] = "running"

\* enqueue under queue_mutex_; when stop_ is set it throws and changes nothing.
Enqueue(c) ==
  /\ CanCall(c)
  /\ ~stop
  /\ pushed < MaxTasks
  /\ pushed' = pushed + 1
  /\ tasks' = Append(tasks, pushed + 1)
  /\ notifying' = notifying \cup {c}
  /\ UNCHANGED <<stop, w, run, dtor, finished>>

\* Mutant: enqueue returns without notify_one.
NotifyNobody(c) ==
  /\ c \in notifying
  /\ notifying' = notifying \ {c}
  /\ UNCHANGED <<tasks, stop, w, run, dtor, pushed, finished>>

\* Mutant: workers run tasks with queue_mutex_ held, so that a task that
\* enqueues another never gets to notify_one.
NotifyOneHeld(c) ==
  /\ c \in notifying \ Worker
  /\ notifying' = notifying \ {c}
  /\ \/ \E x \in Worker : w[x] = "waiting" /\ w' = [w EXCEPT ![x] = "check"]
     \/ (\A x \in Worker : w[x] # "waiting") /\ UNCHANGED w
  /\ UNCHANGED <<tasks, stop, run, dtor, pushed, finished>>

\* notify_one: one of the waiting workers, if there is one.
NotifyOne(c) ==
  /\ c \in notifying
  /\ notifying' = notifying \ {c}
  /\ \/ \E x \in Worker : w[x] = "waiting" /\ w' = [w EXCEPT ![x] = "check"]
     \/ (\A x \in Worker : w[x] # "waiting") /\ UNCHANGED w
  /\ UNCHANGED <<tasks, stop, run, dtor, pushed, finished>>

-----------------------------------------------------------------------------
\* The destructor sets stop_, when no client is in a call.
Stop ==
  /\ dtor = "alive"
  /\ notifying \cap Client = {}
  /\ stop' = TRUE
  /\ dtor' = "notify"
  /\ UNCHANGED <<tasks, w, run, notifying, pushed, finished>>

NotifyAll ==
  /\ dtor = "notify"
  /\ dtor' = "joining"
  /\ w' = [x \in Worker |-> IF w[x] = "waiting" THEN "check" ELSE w[x]]
  /\ UNCHANGED <<tasks, stop, run, notifying, pushed, finished>>

\* Every worker has been joined.
Join ==
  /\ dtor = "joining"
  /\ \A x \in Worker : w[x] = "exited"
  /\ dtor' = "gone"
  /\ UNCHANGED <<tasks, stop, w, run, notifying, pushed, finished>>

WorkerStep(x) == Check(x) \/ FinishTask(x)
CallStep(c) == Enqueue(c) \/ NotifyOne(c)
OwnerStep == NotifyAll \/ Join

Next ==
  \/ \E x \in Worker : WorkerStep(x) \/ SpuriousWakeup(x)
  \/ \E c \in Client \cup Worker : CallStep(c)
  \/ Stop
  \/ OwnerStep

Spec == Init /\ [][Next]_vars

\* Threads inside the pool keep running, tasks return, and a thread waiting for
\* queue_mutex_ gets it.  Nobody has to call enqueue or the destructor.
FairSpec ==
  /\ Spec
  /\ \A x \in Worker : WF_vars(WorkerStep(x))
  /\ \A c \in Client \cup Worker : WF_vars(NotifyOne(c))
  /\ WF_vars(OwnerStep)

-----------------------------------------------------------------------------
(* Properties.                                                             *)

\* The type invariant; a worker holds a task exactly while it runs it.
TypeOK ==
  /\ tasks \in Seq(Nat)
  /\ stop \in BOOLEAN
  /\ w \in [Worker -> {"check", "waiting", "running", "exited"}]
  /\ run \in [Worker -> Nat]
  /\ \A x \in Worker : run[x] # 0 <=> w[x] = "running"
  /\ notifying \subseteq Client \cup Worker
  /\ dtor \in {"alive", "notify", "joining", "gone"}
  /\ pushed \in Nat
  /\ finished \subseteq Nat

\* No wakeup is lost: although both notifications are sent after queue_mutex_
\* is released, tasks never lie in the queue with every worker asleep or gone,
\* and no worker sleeps through stop_, unless a notification is still to come.
NoLostWakeup ==
  /\ tasks # <<>> /\ (\A x \in Worker : w[x] \in {"waiting", "exited"}) =>
       notifying # {} \/ dtor = "notify"
  /\ stop /\ (\E x \in Worker : w[x] = "waiting") => dtor = "notify"

\* Workers, callers and the destructor together do what TaskService promises:
\* tasks start in the order enqueue accepted them, once each, and the
\* destructor returns after the last of them has finished.
Service == INSTANCE TaskService WITH
             accepted <- pushed, started <- pushed - Len(tasks),
             gone <- (dtor = "gone")
ImplementsService == Service!Spec

\* Every accepted task is run, also when the destructor starts meanwhile.
TasksFinish == \A t \in 1..MaxTasks : pushed >= t ~> t \in finished

\* The destructor returns: every worker wakes up and leaves its loop.
DestructorReturns == dtor = "notify" ~> dtor = "gone"
=============================================================================
