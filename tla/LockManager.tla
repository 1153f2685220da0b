---------------------------- MODULE LockManager ----------------------------
(***************************************************************************)
(* The lock manager, transaction/lock_manager.{h,cpp}.                     *)
(*                                                                         *)
(* One thread per transaction calls acquireLock, releaseLock and           *)
(* upgradeLock; releaseAllLocks(t) may be called by any thread, also while *)
(* t's own thread sleeps inside acquireLock.  Every handler runs under     *)
(* mutex_, so it is one step, except acquireLock, which gives the mutex up *)
(* to sleep between two iterations of its loop.                            *)
(*                                                                         *)
(* A std::vector or std::queue is the set of its elements, each with its   *)
(* index `at`: what erase and pop do is then a set expression, which the   *)
(* prover can reason about (removal from a TLA+ sequence is recursive).    *)
(***************************************************************************)
EXTENDS Integers, FiniteSets

CONSTANTS Tx,              \* transaction identifiers
          Resource,        \* resource names
          RequestModes,    \* the lock modes the clients ask for
          None,            \* no transaction / no resource / no mode
          RelockOutcomes,  \* what locking a std::mutex the thread already
                           \* owns does: "blocks" (glibc) or "throws" (MSVC)
          MaxEntries,      \* bound: entries in one resource's vector
          MaxQueue,        \* bound: entries in one resource's wait queue
          MaxPolls         \* bound: timeout_ms / 10, the sleeps of one wait

LockModes == {"SHARED", "EXCLUSIVE", "INTENT_SHARED", "INTENT_EXCLUSIVE",
              "SHARED_INTENT_EXCLUSIVE"}

ASSUME ModesAssumption == RequestModes \subseteq LockModes
ASSUME NoneAssumption == None \notin Tx \cup Resource \cup LockModes
ASSUME RelockAssumption == RelockOutcomes \subseteq {"blocks", "throws"}
ASSUME BoundsAssumption == {MaxEntries, MaxQueue, MaxPolls} \subseteq Nat

VARIABLES
  granted,     \* granted_locks_: resource (only those in the map) -> vector
  queue,       \* wait_queues_: resource -> queue (absent and empty agree)
  waitingFor,  \* waiting_for_: transaction -> resources (absent is empty)
  mutex,       \* the thread that owns mutex_ for ever, or None
  st,          \* where the transaction's thread is: "idle" is outside
  req, want,   \* the arguments of that call
  ref,         \* whether `current_locks` still refers to a map entry
  polls,       \* how often it has slept in the wait loop
  held,        \* history: locks the clients were told they own
  lost         \* history: those whose entry went to freed memory

vars == <<granted, queue, waitingFor, mutex, st, req, want, ref, polls,
          held, lost>>
callVars == <<st, req, want, ref, polls>>

-----------------------------------------------------------------------------
(* Vectors.                                                                *)

\* emplace_back: the new element's index is the old size.
PushBack(V, e) == V \cup {[who |-> e.who, mode |-> e.mode, at |-> Cardinality(V)]}

\* erase(remove_if(...)): the elements that stay keep their order.
Erase(V, gone) ==
  LET rest == V \ gone
  IN  {[e EXCEPT !.at = Cardinality({f \in rest : f.at < e.at})] : e \in rest}

OfTx(V, t) == {e \in V : e.who = t}

Elem(t, m) == [who |-> t, mode |-> m]

-----------------------------------------------------------------------------
(* Pure helpers of the class.                                              *)

areCompatible(existing, requested) ==
  CASE existing = "EXCLUSIVE" \/ requested = "EXCLUSIVE" -> FALSE
    [] existing = "SHARED_INTENT_EXCLUSIVE" ->
         requested \in {"SHARED", "INTENT_SHARED"}
    [] requested = "SHARED_INTENT_EXCLUSIVE" ->
         existing \in {"SHARED", "INTENT_SHARED"}
    [] existing = "INTENT_EXCLUSIVE" -> requested = "INTENT_SHARED"
    [] requested = "INTENT_EXCLUSIVE" -> existing = "INTENT_SHARED"
    [] OTHER -> TRUE

canGrant(V, requested) == \A e \in V : areCompatible(e.mode, requested)

\* granted_locks_[resource] as a value: operator[] makes an absent entry empty.
LocksOf(r) == IF r \in DOMAIN granted THEN granted[r] ELSE {}

\* granted_locks_[resource] = V.
Put(r, V) == [x \in DOMAIN granted \cup {r} |-> IF x = r THEN V ELSE granted[x]]

hasLock(t, r, m) == \E e \in LocksOf(r) : e.who = t /\ e.mode = m

getLockMode(r) ==
  LET present(m) == \E e \in LocksOf(r) : e.mode = m
  IN  CASE present("EXCLUSIVE") -> "EXCLUSIVE"
        [] present("SHARED_INTENT_EXCLUSIVE") -> "SHARED_INTENT_EXCLUSIVE"
        [] present("INTENT_EXCLUSIVE") -> "INTENT_EXCLUSIVE"
        [] present("INTENT_SHARED") -> "INTENT_SHARED"
        [] OTHER -> "SHARED"

-----------------------------------------------------------------------------
Init ==
  /\ granted = [r \in {} |-> {}]
  /\ queue = [r \in Resource |-> {}]
  /\ waitingFor = [t \in Tx |-> {}]
  /\ mutex = None
  /\ st = [t \in Tx |-> "idle"]
  /\ req = [t \in Tx |-> None]
  /\ want = [t \in Tx |-> None]
  /\ ref = [t \in Tx |-> "live"]
  /\ polls = [t \in Tx |-> 0]
  /\ held = {}
  /\ lost = {}

\* acquireLock finds the mode compatible at once.
AcquireGranted(t, r, m) ==
  /\ mutex = None
  /\ st[t] = "idle"
  /\ canGrant(LocksOf(r), m)
  /\ Cardinality(LocksOf(r)) < MaxEntries
  /\ granted' = Put(r, PushBack(LocksOf(r), Elem(t, m)))
  /\ held' = held \cup {<<t, r, m>>}
  /\ lost' = lost \ {<<t, r, m>>}
  /\ UNCHANGED <<queue, waitingFor, mutex, callVars>>

-----------------------------------------------------------------------------
(* The iterations of the wait loop.  From lock.lock() to lock.unlock() or a *)
(* return the thread owns mutex_, so an iteration is one step.  q and w are *)
(* the wait queues and wait edges it starts from: the first iteration runs  *)
(* on in the same critical section as the enqueueing.                       *)

\* The thread leaves acquireLock; its locals are gone.
Return(t) ==
  /\ st' = [st EXCEPT ![t] = "idle"]
  /\ req' = [req EXCEPT ![t] = None]
  /\ want' = [want EXCEPT ![t] = None]
  /\ ref' = [ref EXCEPT ![t] = "live"]
  /\ polls' = [polls EXCEPT ![t] = 0]

\* Mutant: the wait edge is not removed.
removeFromWaitQueueOnly(t, r, q, w) ==
  /\ queue' = [q EXCEPT ![r] = Erase(@, OfTx(@, t))]
  /\ waitingFor' = w

removeFromWaitQueue(t, r, q, w) ==
  /\ queue' = [q EXCEPT ![r] = Erase(@, OfTx(@, t))]
  /\ waitingFor' = [w EXCEPT ![t] = @ \ {r}]

\* elapsed > timeout_ms.
TimedOut(t, r, q, w) ==
  /\ removeFromWaitQueue(t, r, q, w)
  /\ Return(t)
  /\ UNCHANGED mutex

\* elapsed % 100 = 0 (so nearly always in the first iteration): hasDeadlock ->
\* checkDeadlock -> getWaitingTransactions locks mutex_, which this thread
\* owns.  Where that blocks, it is for ever ...
RelockBlocks(t, r, m, q, w) ==
  /\ "blocks" \in RelockOutcomes
  /\ queue' = q
  /\ waitingFor' = w
  /\ mutex' = t
  /\ st' = [st EXCEPT ![t] = "hung"]
  /\ req' = [req EXCEPT ![t] = r]
  /\ want' = [want EXCEPT ![t] = m]
  /\ UNCHANGED <<ref, polls>>

\* ... where it throws, the exception leaves acquireLock and undoes the mutex
\* only.
RelockThrows(t, q, w) ==
  /\ "throws" \in RelockOutcomes
  /\ queue' = q
  /\ waitingFor' = w
  /\ Return(t)
  /\ UNCHANGED mutex

\* Not grantable: unlock and sleep for the n-th time.
Sleep(t, r, m, q, w, n) ==
  /\ queue' = q
  /\ waitingFor' = w
  /\ st' = [st EXCEPT ![t] = "sleeping"]
  /\ req' = [req EXCEPT ![t] = r]
  /\ want' = [want EXCEPT ![t] = m]
  /\ polls' = [polls EXCEPT ![t] = n]
  /\ UNCHANGED <<mutex, ref>>

\* acquireLock queues the request and runs the loop's first iteration.
AcquireQueued(t, r, m) ==
  LET q == [queue EXCEPT ![r] = PushBack(@, Elem(t, m))]
      w == [waitingFor EXCEPT ![t] = @ \cup {r}]
  IN  /\ mutex = None
      /\ st[t] = "idle"
      /\ ~canGrant(LocksOf(r), m)
      /\ Cardinality(queue[r]) < MaxQueue
      /\ \/ TimedOut(t, r, q, w)
         \/ RelockBlocks(t, r, m, q, w)
         \/ RelockThrows(t, q, w)
         \/ Sleep(t, r, m, q, w, 1)
      /\ UNCHANGED <<granted, held, lost>>

\* wait_queue.pop() takes the front entry, whoever queued it.  Popping an
\* empty queue is undefined; here it stays empty.
PopFront(t) ==
  /\ queue' = [queue EXCEPT ![req[t]] = Erase(@, {e \in @ : e.at = 0})]
  /\ waitingFor' = [waitingFor EXCEPT ![t] = @ \ {req[t]}]

\* The second canGrant succeeds and `current_locks` is a map entry.
PollGranted(t) ==
  /\ ref[t] = "live"
  /\ canGrant(LocksOf(req[t]), want[t])
  /\ Cardinality(LocksOf(req[t])) < MaxEntries
  /\ PopFront(t)
  /\ granted' = Put(req[t], PushBack(LocksOf(req[t]), Elem(t, want[t])))
  /\ held' = held \cup {<<t, req[t], want[t]>>}
  /\ lost' = lost \ {<<t, req[t], want[t]>>}
  /\ Return(t)
  /\ UNCHANGED mutex

\* `current_locks` refers to an erased map node.  The freed vector still reads
\* as empty, so the request is granted, into freed memory ...
PollGrantedFreed(t) ==
  /\ ref[t] = "dangling"
  /\ PopFront(t)
  /\ held' = held \cup {<<t, req[t], want[t]>>}
  /\ lost' = lost \cup {<<t, req[t], want[t]>>}
  /\ Return(t)
  /\ UNCHANGED <<granted, mutex>>

\* ... or the allocator gave the node's memory to the entry of resource r.
PollGrantedAliased(t, r) ==
  /\ ref[t] = "dangling"
  /\ r \in DOMAIN granted
  /\ canGrant(granted[r], want[t])
  /\ Cardinality(granted[r]) < MaxEntries
  /\ PopFront(t)
  /\ granted' = Put(r, PushBack(granted[r], Elem(t, want[t])))
  /\ held' = held \cup {<<t, req[t], want[t]>>}
  /\ lost' = IF r = req[t] THEN lost \ {<<t, req[t], want[t]>>}
                           ELSE lost \cup {<<t, req[t], want[t]>>}
  /\ Return(t)
  /\ UNCHANGED mutex

\* A later iteration, after the sleep.  The timeout is certain once MaxPolls
\* sleeps are over and possible before (the thread may have been off the
\* processor for any time).  A dangling reference may read as not grantable.
Poll(t) ==
  /\ mutex = None
  /\ st[t] = "sleeping"
  /\ \/ /\ TimedOut(t, req[t], queue, waitingFor)
        /\ UNCHANGED <<granted, held, lost>>
     \/ /\ polls[t] <= MaxPolls
        /\ \/ RelockBlocks(t, req[t], want[t], queue, waitingFor)
           \/ RelockThrows(t, queue, waitingFor)
           \/ /\ ref[t] = "live" => ~canGrant(LocksOf(req[t]), want[t])
              /\ Sleep(t, req[t], want[t], queue, waitingFor, polls[t] + 1)
        /\ UNCHANGED <<granted, held, lost>>
     \/ /\ polls[t] <= MaxPolls
        /\ \/ PollGranted(t)
           \/ PollGrantedFreed(t)
           \/ \E r \in Resource : PollGrantedAliased(t, r)

-----------------------------------------------------------------------------
\* Map nodes in gone are erased: every sleeping waiter's reference dangles.
Dangle(gone) ==
  ref' = [t \in Tx |-> IF st[t] = "sleeping" /\ req[t] \in gone
                       THEN "dangling" ELSE ref[t]]

\* Mutant: the map entry stays when its vector is empty.
ReleaseLockKeepsEntry(t, r) ==
  /\ mutex = None
  /\ st[t] = "idle"
  /\ r \in DOMAIN granted
  /\ granted' = Put(r, Erase(LocksOf(r), OfTx(LocksOf(r), t)))
  /\ held' = {h \in held : ~(h[1] = t /\ h[2] = r)}
  /\ lost' = {h \in lost : ~(h[1] = t /\ h[2] = r)}
  /\ UNCHANGED <<queue, waitingFor, mutex, callVars>>

\* releaseLock(t, r); without a map entry for r it returns false.
ReleaseLock(t, r) ==
  LET rest == Erase(LocksOf(r), OfTx(LocksOf(r), t))
      gone == IF rest = {} THEN {r} ELSE {}
  IN  /\ mutex = None
      /\ st[t] = "idle"
      /\ r \in DOMAIN granted
      /\ granted' = [x \in DOMAIN granted \ gone |->
                       IF x = r THEN rest ELSE granted[x]]
      /\ Dangle(gone)
      /\ held' = {h \in held : ~(h[1] = t /\ h[2] = r)}
      /\ lost' = {h \in lost : ~(h[1] = t /\ h[2] = r)}
      /\ UNCHANGED <<queue, waitingFor, mutex, st, req, want, polls>>

ReleaseNothing(t, r) ==
  /\ mutex = None
  /\ st[t] = "idle"
  /\ r \notin DOMAIN granted
  /\ held' = {h \in held : ~(h[1] = t /\ h[2] = r)}
  /\ lost' = {h \in lost : ~(h[1] = t /\ h[2] = r)}
  /\ UNCHANGED <<granted, queue, waitingFor, mutex, callVars>>

\* releaseAllLocks(t), by t's thread or another one.
ReleaseAllLocks(t) ==
  LET rest == [r \in DOMAIN granted |-> Erase(granted[r], OfTx(granted[r], t))]
      gone == {r \in DOMAIN granted : rest[r] = {}}
  IN  /\ mutex = None
      /\ granted' = [r \in DOMAIN granted \ gone |-> rest[r]]
      /\ Dangle(gone)
      /\ queue' = [r \in Resource |-> Erase(queue[r], OfTx(queue[r], t))]
      /\ waitingFor' = [waitingFor EXCEPT ![t] = {}]
      /\ held' = {h \in held : h[1] # t}
      /\ lost' = {h \in lost : h[1] # t}
      /\ UNCHANGED <<mutex, st, req, want, polls>>

\* The first entry of t in the vector V, what find_if returns.
FirstOf(V, t, e) == e \in OfTx(V, t) /\ \A f \in OfTx(V, t) : e.at <= f.at

\* upgradeLock(t, r, m) finds no entry; operator[] has created an empty one.
UpgradeNothing(t, r) ==
  /\ mutex = None
  /\ st[t] = "idle"
  /\ OfTx(LocksOf(r), t) = {}
  /\ granted' = Put(r, LocksOf(r))
  /\ UNCHANGED <<queue, waitingFor, mutex, callVars, held, lost>>

\* Mutant: the new mode is not checked against the other entries.
UpgradeLockUnchecked(t, r, m, e) ==
  /\ mutex = None
  /\ st[t] = "idle"
  /\ FirstOf(LocksOf(r), t, e)
  /\ granted' = Put(r, PushBack(Erase(LocksOf(r), {e}), Elem(t, m)))
  /\ held' = (held \ {<<t, r, e.mode>>}) \cup {<<t, r, m>>}
  /\ lost' = lost \ {<<t, r, e.mode>>, <<t, r, m>>}
  /\ UNCHANGED <<queue, waitingFor, mutex, callVars>>

\* Mutant: a refused upgrade does not restore the old entry.
UpgradeLockNoRestore(t, r, m, e) ==
  LET others == Erase(LocksOf(r), {e})
  IN  /\ mutex = None
      /\ st[t] = "idle"
      /\ FirstOf(LocksOf(r), t, e)
      /\ \/ /\ canGrant(others, m)
            /\ granted' = Put(r, PushBack(others, Elem(t, m)))
            /\ held' = (held \ {<<t, r, e.mode>>}) \cup {<<t, r, m>>}
            /\ lost' = lost \ {<<t, r, e.mode>>, <<t, r, m>>}
         \/ /\ ~canGrant(others, m)
            /\ granted' = Put(r, others)
            /\ UNCHANGED <<held, lost>>
      /\ UNCHANGED <<queue, waitingFor, mutex, callVars>>

\* The old entry goes, then the new mode or, failing that, the old one is
\* appended.
UpgradeLock(t, r, m, e) ==
  LET others == Erase(LocksOf(r), {e})
  IN  /\ mutex = None
      /\ st[t] = "idle"
      /\ FirstOf(LocksOf(r), t, e)
      /\ \/ /\ canGrant(others, m)
            /\ granted' = Put(r, PushBack(others, Elem(t, m)))
            /\ held' = (held \ {<<t, r, e.mode>>}) \cup {<<t, r, m>>}
            /\ lost' = lost \ {<<t, r, e.mode>>, <<t, r, m>>}
         \/ /\ ~canGrant(others, m)
            /\ granted' = Put(r, PushBack(others, Elem(t, e.mode)))
            /\ UNCHANGED <<held, lost>>
      /\ UNCHANGED <<queue, waitingFor, mutex, callVars>>

Call(t) ==
  \E r \in Resource :
    \/ \E m \in RequestModes : \/ AcquireGranted(t, r, m)
                               \/ AcquireQueued(t, r, m)
                               \/ \E e \in LocksOf(r) : UpgradeLock(t, r, m, e)
    \/ UpgradeNothing(t, r)
    \/ ReleaseLock(t, r)
    \/ ReleaseNothing(t, r)

Next == \E t \in Tx : Call(t) \/ Poll(t) \/ ReleaseAllLocks(t)

Spec == Init /\ [][Next]_vars

\* A thread asleep inside acquireLock wakes up, and is not starved at mutex_
\* for ever.  The clients need not call anything.
FairSpec == Spec /\ \A t \in Tx : WF_vars(Poll(t))

-----------------------------------------------------------------------------
(* Properties.                                                             *)

Entry == [who : Tx, mode : LockModes, at : Nat]

\* The type invariant.
TypeOK ==
  /\ DOMAIN granted \subseteq Resource
  /\ granted \in [DOMAIN granted -> SUBSET Entry]
  /\ \A r \in DOMAIN granted : IsFiniteSet(granted[r])
  /\ queue \in [Resource -> SUBSET Entry]
  /\ \A r \in Resource : IsFiniteSet(queue[r])
  /\ waitingFor \in [Tx -> SUBSET Resource]
  /\ mutex \in Tx \cup {None}
  /\ st \in [Tx -> {"idle", "sleeping", "hung"}]
  /\ req \in [Tx -> Resource \cup {None}]
  /\ want \in [Tx -> LockModes \cup {None}]
  /\ \A t \in Tx : st[t] # "idle" => req[t] \in Resource /\ want[t] \in LockModes
  /\ ref \in [Tx -> {"live", "dangling"}]
  /\ polls \in [Tx -> Nat]
  /\ held \subseteq Tx \X Resource \X LockModes
  /\ lost \subseteq Tx \X Resource \X LockModes

\* Any two entries of one resource's vector are compatible, whatever acquire,
\* upgrade and release calls produced them, and also when a waiter writes
\* through a reference to a node the allocator has handed out again.
GrantedCompatible ==
  \A r \in DOMAIN granted : \A e, f \in granted[r] :
    e # f => areCompatible(e.mode, f.mode)

\* A lock a client was told it owns (acquireLock or upgradeLock answered
\* GRANTED) has its entry in the table until the client releases it, unless the
\* answer was written to freed memory: upgradeLock, which takes the entry out
\* before it knows whether it can put a new one in, never loses it.
BackedGrants ==
  \A h \in held : hasLock(h[1], h[2], h[3]) \/ h \in lost

\* An edge of the wait-for graph belongs to a thread that is inside acquireLock
\* for that resource: every exit of the loop removes it.
WaitEdgesLive ==
  \A t \in Tx : \A r \in waitingFor[t] : st[t] # "idle" /\ req[t] = r

\* No waiter is forgotten: a thread asleep in acquireLock whose reference is
\* good has an owner to wait for.  Releasing the last lock of a resource erases
\* its map node, so a waiter never sleeps on a resource nobody owns -- except
\* through the reference that the erasure left dangling.
LiveReferenceHasOwner ==
  \A t \in Tx : st[t] = "sleeping" /\ ref[t] = "live" =>
                  req[t] \in DOMAIN granted /\ granted[req[t]] # {}

\* What the 2PL of the class comment needs: two transactions are never told
\* that they own incompatible locks on one resource.
ExclusiveAnswers ==
  \A h, k \in held : h[1] # k[1] /\ h[2] = k[2] => areCompatible(h[3], k[3])

\* "Remover da fila de espera": a transaction outside acquireLock has no entry
\* in a wait queue.
IdleNotQueued ==
  \A t \in Tx : st[t] = "idle" => \A r \in Resource : OfTx(queue[r], t) = {}

\* "Retornar modo mais restritivo": getLockMode admits no request that one of
\* the entries refuses.
ModeMostRestrictive ==
  \A r \in DOMAIN granted : \A e \in granted[r] : \A m \in LockModes :
    areCompatible(getLockMode(r), m) => areCompatible(e.mode, m)

\* "Esperar pelo lock com timeout": acquireLock returns.
AcquireReturns == \A t \in Tx : st[t] # "idle" ~> st[t] = "idle"
=============================================================================
