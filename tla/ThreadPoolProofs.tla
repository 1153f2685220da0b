-------------------------- MODULE ThreadPoolProofs --------------------------
(***************************************************************************)
(* The thread pool loses no wakeup and implements TaskService, for every   *)
(* number of workers, clients and tasks.                                   *)
(***************************************************************************)
EXTENDS ThreadPool, TLAPS

\* What Append does to the queue: enqueue's emplace at the back.
LEMMA AppendFacts ==
  ASSUME NEW s \in Seq(Nat), NEW e \in Nat
  PROVE  /\ Append(s, e) \in Seq(Nat)
         /\ Len(Append(s, e)) = Len(s) + 1
         /\ \A i \in 1..Len(s) : Append(s, e)[i] = s[i]
         /\ Append(s, e)[Len(s) + 1] = e
OBVIOUS

\* What Head and Tail do to it: a worker's front and pop.
LEMMA TailFacts ==
  ASSUME NEW s \in Seq(Nat), s # <<>>
  PROVE  /\ Tail(s) \in Seq(Nat)
         /\ Head(s) = s[1] /\ Head(s) \in Nat
         /\ Len(s) \in Nat \ {0}
         /\ Len(Tail(s)) = Len(s) - 1
         /\ \A i \in 1..Len(s) - 1 : Tail(s)[i] = s[i + 1]
OBVIOUS

\* The queue of the constructor.
LEMMA EmptyFacts == <<>> \in Seq(Nat) /\ Len(<<>>) = 0
OBVIOUS

-----------------------------------------------------------------------------
\* Tasks in the queue are numbered consecutively up to the last one pushed.
Numbered ==
  /\ Len(tasks) <= pushed
  /\ \A i \in 1..Len(tasks) : tasks[i] = (pushed - Len(tasks)) + i

\* The workers leave when the queue is empty and stop_ is set, after which
\* nothing is pushed.
Leaving ==
  /\ stop <=> dtor # "alive"
  /\ (\E x \in Worker : w[x] = "exited") => stop /\ tasks = <<>>
  /\ dtor = "gone" => \A x \in Worker : w[x] = "exited"

\* A started task has finished or is run by exactly one worker.
Accounted ==
  /\ \A x \in Worker : w[x] = "running" =>
       run[x] \in 1..(pushed - Len(tasks)) \ finished
  /\ \A x, y \in Worker : w[x] = "running" /\ w[y] = "running" /\ x # y =>
       run[x] # run[y]
  /\ finished \subseteq 1..(pushed - Len(tasks))
  /\ \A t \in 1..(pushed - Len(tasks)) \ finished :
       \E x \in Worker : w[x] = "running" /\ run[x] = t

IInv == TypeOK /\ Numbered /\ Leaving /\ Accounted

\* A step keeps the type invariant.  A task's number is never 0, because the
\* queue is numbered from pushed - Len(tasks) + 1.
LEMMA TypeStep ==
  ASSUME TypeOK, Numbered, [Next]_vars
  PROVE  TypeOK'
<1> USE DEF TypeOK
<1>1. ASSUME NEW x \in Worker, Check(x) PROVE TypeOK'
  <2>1. CASE tasks = <<>> BY <1>1, <2>1, Zenon DEF Check
  <2>2. CASE tasks # <<>>
    <3>1. Head(tasks) \in Nat \ {0} /\ Tail(tasks) \in Seq(Nat)
      BY <2>2, TailFacts DEF Numbered
    <3> QED BY <1>1, <2>2, <3>1, Zenon DEF Check
  <2> QED BY <2>1, <2>2
<1>2. ASSUME NEW x \in Worker, FinishTask(x) PROVE TypeOK'
  BY <1>2, Zenon DEF FinishTask
<1>3. ASSUME NEW x \in Worker, SpuriousWakeup(x) PROVE TypeOK'
  BY <1>3 DEF SpuriousWakeup
<1>4. ASSUME NEW c \in Client \cup Worker, Enqueue(c) PROVE TypeOK'
  BY <1>4, AppendFacts DEF Enqueue
<1>5. ASSUME NEW c \in Client \cup Worker, NotifyOne(c) PROVE TypeOK'
  BY <1>5 DEF NotifyOne
<1>6. CASE Stop BY <1>6 DEF Stop
<1>7. CASE NotifyAll BY <1>7 DEF NotifyAll
<1>8. CASE Join BY <1>8 DEF Join
<1>9. CASE UNCHANGED vars BY <1>9 DEF vars
<1> QED BY <1>1, <1>2, <1>3, <1>4, <1>5, <1>6, <1>7, <1>8, <1>9
        DEF Next, WorkerStep, CallStep, OwnerStep

\* A step keeps the numbering of the queue.
LEMMA NumberedStep ==
  ASSUME TypeOK, Numbered, [Next]_vars
  PROVE  Numbered'
<1> USE DEF TypeOK, Numbered
<1>1. ASSUME NEW x \in Worker, Check(x) PROVE Numbered'
  <2>1. CASE tasks = <<>> BY <1>1, <2>1, Zenon DEF Check
  <2>2. CASE tasks # <<>>
    <3>1. tasks' = Tail(tasks) /\ pushed' = pushed BY <1>1, <2>2 DEF Check
    <3>2. Len(tasks') = Len(tasks) - 1 /\ Len(tasks) \in Nat
      BY <2>2, <3>1, TailFacts
    <3>3. \A i \in 1..Len(tasks') : tasks'[i] = tasks[i + 1]
      BY <2>2, <3>1, <3>2, TailFacts
    <3>4. ASSUME NEW i \in 1..Len(tasks')
          PROVE  tasks'[i] = (pushed' - Len(tasks')) + i
      <4>1. i + 1 \in 1..Len(tasks) BY <3>2
      <4>2. tasks[i + 1] = (pushed - Len(tasks)) + (i + 1) BY <4>1
      <4>3. tasks'[i] = tasks[i + 1] BY <3>3
      <4>4. pushed' - Len(tasks') = (pushed - Len(tasks)) + 1
        <5> DEFINE m == Len(tasks)
        <5>1. m \in Nat /\ pushed \in Nat BY <3>2
        <5>2. pushed' = pushed /\ Len(tasks') = m - 1 BY <3>1, <3>2
        <5> HIDE DEF m, TypeOK, Numbered
        <5>3. pushed' - Len(tasks') = (pushed - m) + 1 BY <5>1, <5>2
        <5> QED BY <5>3 DEF m
      <4>5. pushed - Len(tasks) \in Int /\ i \in Int BY <3>2
      <4> HIDE DEF TypeOK, Numbered
      <4> QED BY <4>2, <4>3, <4>4, <4>5
    <3>5. Len(tasks') <= pushed' BY <3>1, <3>2
    <3> QED BY <3>4, <3>5
  <2> QED BY <2>1, <2>2
<1>2. ASSUME NEW c \in Client \cup Worker, Enqueue(c) PROVE Numbered'
  <2>1. tasks' = Append(tasks, pushed + 1) /\ pushed' = pushed + 1
    BY <1>2 DEF Enqueue
  <2>2. Len(tasks') = Len(tasks) + 1 /\ Len(tasks) \in Nat
    BY <2>1, AppendFacts
  <2>3. \A i \in 1..Len(tasks') :
          tasks'[i] = IF i = Len(tasks) + 1 THEN pushed + 1 ELSE tasks[i]
    BY <2>1, <2>2, AppendFacts
  <2> QED BY <2>1, <2>2, <2>3
<1>3. CASE UNCHANGED <<tasks, pushed>> BY <1>3
<1> QED BY <1>1, <1>2, <1>3
        DEF Next, WorkerStep, CallStep, OwnerStep, FinishTask, SpuriousWakeup,
            NotifyOne, Stop, NotifyAll, Join, vars

\* A step keeps the conditions under which workers leave.
LEMMA LeavingStep ==
  ASSUME TypeOK, Leaving, [Next]_vars
  PROVE  Leaving'
<1> USE DEF TypeOK, Leaving
<1>1. ASSUME NEW x \in Worker, Check(x) PROVE Leaving'
  BY <1>1, Zenon DEF Check
<1>2. ASSUME NEW x \in Worker, FinishTask(x) PROVE Leaving'
  BY <1>2 DEF FinishTask
<1>3. ASSUME NEW x \in Worker, SpuriousWakeup(x) PROVE Leaving'
  BY <1>3 DEF SpuriousWakeup
<1>4. ASSUME NEW c \in Client \cup Worker, Enqueue(c) PROVE Leaving'
  BY <1>4, PoolAssumption DEF Enqueue
<1>5. ASSUME NEW c \in Client \cup Worker, NotifyOne(c) PROVE Leaving'
  BY <1>5 DEF NotifyOne
<1>6. CASE Stop BY <1>6 DEF Stop
<1>7. CASE NotifyAll BY <1>7 DEF NotifyAll
<1>8. CASE Join BY <1>8 DEF Join
<1>9. CASE UNCHANGED vars BY <1>9 DEF vars
<1> QED BY <1>1, <1>2, <1>3, <1>4, <1>5, <1>6, <1>7, <1>8, <1>9
        DEF Next, WorkerStep, CallStep, OwnerStep

\* A step keeps every started task finished or with one worker.
LEMMA AccountedStep ==
  ASSUME IInv, [Next]_vars
  PROVE  Accounted'
<1> USE DEF IInv, TypeOK, Accounted
<1>0. ASSUME UNCHANGED <<tasks, run, pushed, finished>>,
             \A y \in Worker : w'[y] = "running" <=> w[y] = "running"
      PROVE  Accounted'
  BY <1>0
<1>1. ASSUME NEW x \in Worker, Check(x) PROVE Accounted'
  <2>1. CASE tasks = <<>>
    <3>1. UNCHANGED <<tasks, run, pushed, finished>> BY <1>1, <2>1, Zenon DEF Check
    <3>2. w[x] = "check" /\ (\/ w' = [w EXCEPT ![x] = "exited"]
                            \/ w' = [w EXCEPT ![x] = "waiting"])
      BY <1>1, <2>1, Zenon DEF Check
    <3> HIDE DEF Accounted
    <3>3. \A y \in Worker : w'[y] = "running" <=> w[y] = "running"
      BY <3>2
    <3> QED BY <1>0, <3>1, <3>3
  <2>2. CASE tasks # <<>>
    <3> DEFINE n == pushed - Len(tasks)
    <3>1. /\ w' = [w EXCEPT ![x] = "running"]
          /\ run' = [run EXCEPT ![x] = Head(tasks)]
          /\ tasks' = Tail(tasks)
          /\ UNCHANGED <<pushed, finished>>
      BY <1>1, <2>2 DEF Check
    <3>2. n \in Nat /\ pushed' - Len(tasks') = n + 1 /\ Head(tasks) = n + 1
      BY <2>2, <3>1, TailFacts DEF Numbered
    <3> HIDE DEF n
    <3>3. w[x] # "running" BY <1>1 DEF Check
    <3>4. \A y \in Worker : y # x => w'[y] = w[y] /\ run'[y] = run[y]
      BY <3>1
    <3>5. w'[x] = "running" /\ run'[x] = n + 1 BY <3>1, <3>2
    <3>6. /\ \A y \in Worker : w[y] = "running" => run[y] \in 1..n \ finished
          /\ finished \subseteq 1..n
          /\ \A t \in 1..n \ finished :
               \E y \in Worker : w[y] = "running" /\ run[y] = t
      BY DEF n
    <3>7. 1..(n + 1) = 1..n \cup {n + 1} /\ n + 1 \notin 1..n BY <3>2
    <3>8. \A t \in 1..(n + 1) \ finished :
            \E y \in Worker : w'[y] = "running" /\ run'[y] = t
      <4> HIDE DEF IInv, TypeOK, Accounted
      <4> TAKE t \in 1..(n + 1) \ finished
      <4>1. CASE t = n + 1 BY <3>5, <4>1
      <4>2. CASE t \in 1..n
        <5>1. PICK y \in Worker : w[y] = "running" /\ run[y] = t BY <3>6, <4>2
        <5> QED BY <3>3, <3>4, <5>1
      <4> QED BY <3>7, <4>1, <4>2
    <3>9. \A y \in Worker : w'[y] = "running" =>
            run'[y] \in 1..(n + 1) \ finished
      BY <3>4, <3>5, <3>6, <3>7
    <3>10. \A y, z \in Worker : w'[y] = "running" /\ w'[z] = "running" /\ y # z =>
             run'[y] # run'[z]
      BY <3>4, <3>5, <3>6, <3>7
    <3> QED BY <3>1, <3>2, <3>6, <3>7, <3>8, <3>9, <3>10
  <2> QED BY <2>1, <2>2
<1>2. ASSUME NEW x \in Worker, FinishTask(x) PROVE Accounted'
  <2>1. /\ w[x] = "running"
        /\ w' = [w EXCEPT ![x] = "check"]
        /\ run' = [run EXCEPT ![x] = 0]
        /\ finished' = finished \cup {run[x]}
        /\ UNCHANGED <<tasks, pushed>>
    BY <1>2 DEF FinishTask
  <2>2. \A y \in Worker : y # x => w'[y] = w[y] /\ run'[y] = run[y] BY <2>1
  <2>3. w'[x] = "check" BY <2>1
  <2>4. run[x] \in 1..(pushed - Len(tasks)) \ finished BY <2>1
  <2>5. \A y \in Worker : w'[y] = "running" => y # x /\ w[y] = "running"
    BY <2>2, <2>3
  <2>6. \A y \in Worker : w'[y] = "running" => run'[y] # run[x]
    BY <2>1, <2>2, <2>5
  <2>7. \A y \in Worker : w'[y] = "running" =>
          run'[y] \in 1..(pushed - Len(tasks)) \ finished'
    BY <2>1, <2>2, <2>5, <2>6
  <2>8. \A y, z \in Worker : w'[y] = "running" /\ w'[z] = "running" /\ y # z =>
          run'[y] # run'[z]
    BY <2>2, <2>5
  <2>9. \A t \in 1..(pushed - Len(tasks)) \ finished' :
          \E y \in Worker : w'[y] = "running" /\ run'[y] = t
    <3> TAKE t \in 1..(pushed - Len(tasks)) \ finished'
    <3>1. t # run[x] /\ t \notin finished BY <2>1
    <3>2. PICK y \in Worker : w[y] = "running" /\ run[y] = t BY <3>1
    <3> QED BY <2>2, <3>1, <3>2
  <2> QED BY <2>1, <2>4, <2>7, <2>8, <2>9, Zenon
<1>3. ASSUME NEW c \in Client \cup Worker, Enqueue(c) PROVE Accounted'
  <2>1. /\ tasks' = Append(tasks, pushed + 1)
        /\ pushed' = pushed + 1
        /\ UNCHANGED <<w, run, finished>>
    BY <1>3 DEF Enqueue
  <2>2. pushed' - Len(tasks') = pushed - Len(tasks) BY <2>1, AppendFacts
  <2> QED BY <2>1, <2>2, Zenon
<1>5. ASSUME NEW x \in Worker, SpuriousWakeup(x) PROVE Accounted'
  BY <1>0, <1>5 DEF SpuriousWakeup
<1>6. ASSUME NEW c \in Client \cup Worker, NotifyOne(c) PROVE Accounted'
  BY <1>0, <1>6 DEF NotifyOne
<1>7. CASE Stop BY <1>0, <1>7 DEF Stop
<1>8. CASE NotifyAll BY <1>0, <1>8 DEF NotifyAll
<1>9. CASE Join BY <1>0, <1>9 DEF Join
<1>10. CASE UNCHANGED vars BY <1>0, <1>10 DEF vars
<1> QED BY <1>1, <1>2, <1>3, <1>5, <1>6, <1>7, <1>8, <1>9, <1>10
        DEF Next, WorkerStep, CallStep, OwnerStep

\* The inductive invariant holds.
LEMMA Invariant == Spec => []IInv
<1>1. ASSUME Init PROVE IInv
  <2>1. /\ tasks = <<>> /\ stop = FALSE /\ dtor = "alive"
        /\ w = [x \in Worker |-> "check"] /\ pushed = 0 /\ finished = {}
    BY <1>1 DEF Init
  <2>2. tasks \in Seq(Nat) /\ Len(tasks) = 0 BY <2>1, EmptyFacts, Zenon
  <2>3. pushed - Len(tasks) = 0
    <3>1. pushed = 0 BY <2>1
    <3> QED BY <2>2, <3>1
  <2>4. TypeOK BY <1>1, <2>2, Zenon DEF Init, TypeOK
  <2>5. Numbered
    <3>1. pushed = 0 BY <2>1
    <3>2. 1..Len(tasks) = {} /\ Len(tasks) <= pushed BY <2>2, <3>1
    <3> QED BY <3>2 DEF Numbered
  <2>6. Leaving BY <2>1 DEF Leaving
  <2>7. Accounted
    <3>1. 1..(pushed - Len(tasks)) = {} BY <2>3
    <3> QED BY <2>1, <3>1, Zenon DEF Accounted
  <2> QED BY <2>4, <2>5, <2>6, <2>7 DEF IInv
<1>2. IInv /\ [Next]_vars => IInv'
  BY TypeStep, NumberedStep, LeavingStep, AccountedStep DEF IInv
<1> QED BY <1>1, <1>2, PTL DEF Spec

-----------------------------------------------------------------------------
\* The pool's state has its type, and a worker has a task exactly while it
\* runs it.
THEOREM TypeCorrect == Spec => []TypeOK
<1>1. IInv => TypeOK BY DEF IInv
<1> QED BY <1>1, Invariant, PTL

\* The predicate of condition_.wait and the two notifications fit together: no
\* task lies in the queue, and no stop_ is set, with all workers asleep and
\* nobody about to wake them.
THEOREM WakeupCorrect == Spec => []NoLostWakeup
<1>1. Init => NoLostWakeup BY PoolAssumption DEF Init, NoLostWakeup
<1>2. ASSUME IInv, NoLostWakeup, [Next]_vars PROVE NoLostWakeup'
  <2> USE DEF NoLostWakeup, IInv, TypeOK
  <2>1. ASSUME NEW x \in Worker, Check(x) PROVE NoLostWakeup'
    BY <1>2, <2>1, Zenon DEF Check
  <2>2. ASSUME NEW x \in Worker, FinishTask(x) PROVE NoLostWakeup'
    BY <1>2, <2>2 DEF FinishTask
  <2>3. ASSUME NEW x \in Worker, SpuriousWakeup(x) PROVE NoLostWakeup'
    BY <1>2, <2>3 DEF SpuriousWakeup
  <2>4. ASSUME NEW c \in Client \cup Worker, Enqueue(c) PROVE NoLostWakeup'
    BY <1>2, <2>4 DEF Enqueue
  <2>5. ASSUME NEW c \in Client \cup Worker, NotifyOne(c) PROVE NoLostWakeup'
    <3>1. CASE \E x \in Worker : w[x] = "waiting" /\ w' = [w EXCEPT ![x] = "check"]
      BY <1>2, <2>5, <3>1 DEF NotifyOne
    <3>2. CASE (\A x \in Worker : w[x] # "waiting") /\ UNCHANGED w
      BY <1>2, <2>5, <3>2, PoolAssumption DEF NotifyOne, Leaving
    <3> QED BY <2>5, <3>1, <3>2 DEF NotifyOne
  <2>6. CASE Stop BY <1>2, <2>6 DEF Stop
  <2>7. CASE NotifyAll
    <3>1. \A x \in Worker : w'[x] # "waiting" BY <2>7 DEF NotifyAll
    <3>2. \A x \in Worker : w'[x] = "exited" => w[x] = "exited"
      BY <2>7 DEF NotifyAll
    <3>3. tasks' = tasks BY <2>7 DEF NotifyAll
    <3> QED BY <1>2, <3>1, <3>2, <3>3, PoolAssumption DEF Leaving
  <2>8. CASE Join BY <1>2, <2>8 DEF Join, Leaving
  <2>9. CASE UNCHANGED vars BY <1>2, <2>9 DEF vars
  <2> QED BY <1>2, <2>1, <2>2, <2>3, <2>4, <2>5, <2>6, <2>7, <2>8, <2>9
          DEF Next, WorkerStep, CallStep, OwnerStep
<1> QED BY <1>1, <1>2, Invariant, PTL DEF Spec

\* Workers, callers and destructor implement the first-in first-out service of
\* TaskService: each step of theirs is a step of it, or leaves it alone.
THEOREM PoolImplementsService == Spec => ImplementsService
<1>1. ASSUME Init PROVE Service!Init
  <2>1. pushed = 0 /\ finished = {} /\ dtor = "alive" BY <1>1 DEF Init
  <2>2. pushed - Len(tasks) = 0
    <3>1. Len(tasks) = 0 BY <1>1, EmptyFacts, Zenon DEF Init
    <3> QED BY <2>1, <3>1
  <2>3. (dtor = "gone") = FALSE BY <2>1
  <2> QED BY <2>1, <2>2, <2>3, Zenon DEF Service!Init
<1>2. ASSUME IInv, [Next]_vars PROVE [Service!Next]_(Service!vars)
  <2> USE DEF IInv, TypeOK
  <2>1. ASSUME NEW x \in Worker, Check(x) PROVE [Service!Next]_(Service!vars)
    <3>1. CASE tasks = <<>>
      BY <2>1, <3>1, Zenon DEF Check, Service!vars
    <3>2. CASE tasks # <<>>
      <4>1. tasks' = Tail(tasks) /\ UNCHANGED <<pushed, finished, dtor>>
        BY <2>1, <3>2 DEF Check
      <4>2. /\ pushed - Len(tasks) < pushed
            /\ pushed' - Len(tasks') = (pushed - Len(tasks)) + 1
        BY <1>2, <3>2, <4>1, TailFacts
      <4> QED BY <4>1, <4>2 DEF Service!Next, Service!Start
    <3> QED BY <3>1, <3>2
  <2>2. ASSUME NEW x \in Worker, FinishTask(x)
        PROVE  [Service!Next]_(Service!vars)
    <3>1. run[x] \in 1..(pushed - Len(tasks)) \ finished
      BY <1>2, <2>2 DEF FinishTask, Accounted
    <3>2. Service!Finish(run[x])
      BY <2>2, <3>1 DEF FinishTask, Service!Finish
    <3> QED BY <3>1, <3>2 DEF Service!Next
  <2>3. ASSUME NEW x \in Worker, SpuriousWakeup(x)
        PROVE  [Service!Next]_(Service!vars)
    BY <2>3 DEF SpuriousWakeup, Service!vars
  <2>4. ASSUME NEW c \in Client \cup Worker, Enqueue(c)
        PROVE  [Service!Next]_(Service!vars)
    <3>1. /\ tasks' = Append(tasks, pushed + 1)
          /\ pushed' = pushed + 1
          /\ ~stop
          /\ UNCHANGED <<finished, dtor>>
      BY <2>4 DEF Enqueue
    <3>2. pushed' - Len(tasks') = pushed - Len(tasks)
      BY <1>2, <3>1, AppendFacts
    <3>3. dtor # "gone" BY <1>2, <3>1 DEF Leaving
    <3> QED BY <3>1, <3>2, <3>3 DEF Service!Next, Service!Accept
  <2>5. ASSUME NEW c \in Client \cup Worker, NotifyOne(c)
        PROVE  [Service!Next]_(Service!vars)
    BY <2>5 DEF NotifyOne, Service!vars
  <2>6. CASE Stop BY <2>6 DEF Stop, Service!vars
  <2>7. CASE NotifyAll BY <2>7 DEF NotifyAll, Service!vars
  <2>8. CASE Join
    <3>1. tasks = <<>> BY <1>2, <2>8, PoolAssumption DEF Join, Leaving
    <3>2. finished = 1..(pushed - Len(tasks))
      BY <1>2, <2>8, Zenon DEF Join, Accounted
    <3>3. finished = 1..pushed BY <1>2, <3>1, <3>2
    <3> QED BY <2>8, <3>3 DEF Join, Service!Next, Service!Close
  <2>9. CASE UNCHANGED vars BY <2>9 DEF vars, Service!vars
  <2> QED BY <1>2, <2>1, <2>2, <2>3, <2>4, <2>5, <2>6, <2>7, <2>8, <2>9
          DEF Next, WorkerStep, CallStep, OwnerStep
<1> QED BY <1>1, <1>2, Invariant, PTL DEF Spec, ImplementsService, Service!Spec
=============================================================================
