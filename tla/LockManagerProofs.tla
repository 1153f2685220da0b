------------------------- MODULE LockManagerProofs -------------------------
(***************************************************************************)
(* Proofs about the lock manager, for any sets of transactions, resources  *)
(* and modes and any bounds.                                               *)
(***************************************************************************)
EXTENDS LockManager, FiniteSetTheorems, TLAPS

-----------------------------------------------------------------------------
(* Vectors.                                                                *)

\* emplace_back keeps the vector's old elements and adds one, the element the
\* caller gave; the result is again a finite vector of lock entries.
LEMMA PushBackFacts ==
  ASSUME NEW V \in SUBSET Entry, IsFiniteSet(V), NEW t \in Tx, NEW m \in LockModes
  PROVE  /\ PushBack(V, Elem(t, m)) \in SUBSET Entry
         /\ IsFiniteSet(PushBack(V, Elem(t, m)))
         /\ V \subseteq PushBack(V, Elem(t, m))
         /\ \E x \in PushBack(V, Elem(t, m)) : x.who = t /\ x.mode = m
         /\ \A x \in PushBack(V, Elem(t, m)) : x \in V \/ (x.who = t /\ x.mode = m)
<1> DEFINE new == [who |-> t, mode |-> m, at |-> Cardinality(V)]
<1>1. Cardinality(V) \in Nat
  BY FS_CardinalityType
<1>2. PushBack(V, Elem(t, m)) = V \cup {new}
  BY DEF PushBack, Elem
<1>3. IsFiniteSet(V \cup {new})
  BY FS_AddElement
<1>4. new \in Entry /\ new.who = t /\ new.mode = m
  BY <1>1 DEF Entry
<1> QED BY <1>2, <1>3, <1>4

\* remove_if and erase drop the elements of gone and keep every other one, with
\* its holder and its mode; only the indices change.
LEMMA EraseFacts ==
  ASSUME NEW V \in SUBSET Entry, IsFiniteSet(V), NEW gone
  PROVE  /\ Erase(V, gone) \in SUBSET Entry
         /\ IsFiniteSet(Erase(V, gone))
         /\ \A x \in Erase(V, gone) : \E e \in V \ gone :
              x.who = e.who /\ x.mode = e.mode
         /\ \A e \in V \ gone : \E x \in Erase(V, gone) :
              x.who = e.who /\ x.mode = e.mode
         /\ \A x, y \in Erase(V, gone) : x # y =>
              \E e, f \in V \ gone : e # f /\ x.mode = e.mode /\ y.mode = f.mode
<1> DEFINE rest == V \ gone
           idx(e) == Cardinality({f \in rest : f.at < e.at})
           move == [e \in rest |-> [e EXCEPT !.at = idx(e)]]
<1>1. rest \in SUBSET Entry /\ IsFiniteSet(rest)
  BY FS_Subset
<1>2. \A e \in rest : idx(e) \in Nat
  <2> TAKE e \in rest
  <2>1. IsFiniteSet({f \in rest : f.at < e.at})
    BY <1>1, FS_Subset
  <2> QED BY <2>1, FS_CardinalityType
<1>3. \A e \in rest : /\ move[e] \in Entry
                      /\ move[e].who = e.who
                      /\ move[e].mode = e.mode
  <2> HIDE DEF idx
  <2> TAKE e \in rest
  <2>1. e \in Entry /\ idx(e) \in Nat
    BY <1>1, <1>2
  <2> QED BY <2>1 DEF Entry
<1>4. Erase(V, gone) = {move[e] : e \in rest}
  BY DEF Erase
<1> HIDE DEF rest, move
<1>5. IsFiniteSet({move[e] : e \in rest})
  <2>1. move \in Surjection(rest, {move[e] : e \in rest})
    BY Zenon DEF Surjection, move
  <2> QED BY <2>1, <1>1, FS_Surjection
<1>6. \A x, y \in Erase(V, gone) : x # y =>
        \E e, f \in rest : e # f /\ x.mode = e.mode /\ y.mode = f.mode
  <2> SUFFICES ASSUME NEW x \in {move[e] : e \in rest},
                      NEW y \in {move[e] : e \in rest}, x # y
               PROVE  \E e, f \in rest : e # f /\ x.mode = e.mode /\ y.mode = f.mode
    BY <1>4
  <2>1. PICK e \in rest : x = move[e]
    OBVIOUS
  <2>2. PICK f \in rest : y = move[f]
    OBVIOUS
  <2> QED BY <2>1, <2>2, <1>3
<1>7. \A x \in Erase(V, gone) : \E e \in rest : x.who = e.who /\ x.mode = e.mode
  BY <1>3, <1>4
<1>8. \A e \in rest : \E x \in Erase(V, gone) : x.who = e.who /\ x.mode = e.mode
  BY <1>3, <1>4
<1>9. Erase(V, gone) \in SUBSET Entry
  BY <1>3, <1>4
<1> QED BY <1>4, <1>5, <1>6, <1>7, <1>8, <1>9 DEF rest

\* areCompatible is symmetric: the order in which two transactions got their
\* locks does not matter.
LEMMA CompatibleSymmetric ==
  ASSUME NEW a \in LockModes, NEW b \in LockModes
  PROVE  areCompatible(a, b) <=> areCompatible(b, a)
BY DEF areCompatible, LockModes

-----------------------------------------------------------------------------
(* The type invariant.                                                     *)

\* The conjuncts of TypeOK about granted_locks_ and about wait_queues_.
TableType ==
  /\ DOMAIN granted \subseteq Resource
  /\ granted \in [DOMAIN granted -> SUBSET Entry]
  /\ \A r \in DOMAIN granted : IsFiniteSet(granted[r])

QueueType(q) ==
  /\ q \in [Resource -> SUBSET Entry]
  /\ \A r \in Resource : IsFiniteSet(q[r])

\* granted_locks_[resource] is a finite vector of lock entries, whether or not
\* the resource was in the map.
LEMMA LocksOfType ==
  ASSUME TableType, NEW r \in Resource
  PROVE  LocksOf(r) \in SUBSET Entry /\ IsFiniteSet(LocksOf(r))
BY FS_EmptySet DEF TableType, LocksOf

\* Assigning a vector to granted_locks_[resource] keeps the table well typed.
LEMMA PutType ==
  ASSUME TableType, NEW r \in Resource, NEW V \in SUBSET Entry, IsFiniteSet(V),
         granted' = Put(r, V)
  PROVE  TableType'
BY DEF TableType, Put

\* Erasing from any of the vectors keeps the table well typed.
LEMMA RestType ==
  ASSUME TableType, NEW D \in SUBSET DOMAIN granted, NEW gone,
         \/ \E r \in Resource : granted' =
              [x \in D |-> IF x = r THEN Erase(LocksOf(r), gone) ELSE granted[x]]
         \/ \E t \in Tx : granted' =
              [x \in D |-> Erase(granted[x], OfTx(granted[x], t))]
  PROVE  TableType'
<1>1. CASE \E r \in Resource : granted' =
             [x \in D |-> IF x = r THEN Erase(LocksOf(r), gone) ELSE granted[x]]
  <2>1. PICK r \in Resource : granted' =
             [x \in D |-> IF x = r THEN Erase(LocksOf(r), gone) ELSE granted[x]]
    BY <1>1
  <2>2. Erase(LocksOf(r), gone) \in SUBSET Entry /\ IsFiniteSet(Erase(LocksOf(r), gone))
    BY LocksOfType, EraseFacts
  <2> QED BY <2>1, <2>2 DEF TableType
<1>2. CASE \E t \in Tx : granted' =
             [x \in D |-> Erase(granted[x], OfTx(granted[x], t))]
  <2>1. PICK t \in Tx : granted' =
             [x \in D |-> Erase(granted[x], OfTx(granted[x], t))]
    BY <1>2
  <2>2. \A x \in D : /\ Erase(granted[x], OfTx(granted[x], t)) \in SUBSET Entry
                     /\ IsFiniteSet(Erase(granted[x], OfTx(granted[x], t)))
    BY EraseFacts DEF TableType
  <2> QED BY <2>1, <2>2 DEF TableType
<1> QED BY <1>1, <1>2

\* Pushing to or erasing from one wait queue keeps the queues well typed.
LEMMA QueueChangeType ==
  ASSUME NEW q, QueueType(q), NEW r \in Resource, NEW t \in Tx, NEW m \in LockModes,
         NEW gone
  PROVE  /\ QueueType([q EXCEPT ![r] = PushBack(@, Elem(t, m))])
         /\ QueueType([q EXCEPT ![r] = Erase(@, gone)])
<1>1. /\ PushBack(q[r], Elem(t, m)) \in SUBSET Entry
      /\ IsFiniteSet(PushBack(q[r], Elem(t, m)))
  BY PushBackFacts DEF QueueType
<1>2. Erase(q[r], gone) \in SUBSET Entry /\ IsFiniteSet(Erase(q[r], gone))
  BY EraseFacts DEF QueueType
<1> QED BY <1>1, <1>2 DEF QueueType

\* One iteration of the wait loop that grants nothing.
Iterates(t, r, m, q, w, n) ==
  \/ TimedOut(t, r, q, w)
  \/ RelockBlocks(t, r, m, q, w)
  \/ RelockThrows(t, q, w)
  \/ Sleep(t, r, m, q, w, n)

\* Such an iteration preserves the type invariant.
LEMMA IterationType ==
  ASSUME TypeOK, NEW t \in Tx, NEW r \in Resource, NEW m \in LockModes, NEW n \in Nat,
         NEW q, QueueType(q), NEW w \in [Tx -> SUBSET Resource],
         Iterates(t, r, m, q, w, n), UNCHANGED <<granted, held, lost>>
  PROVE  TypeOK'
<1>1. CASE TimedOut(t, r, q, w)
  <2>1. QueueType([q EXCEPT ![r] = Erase(@, OfTx(@, t))])
    BY QueueChangeType, Zenon
  <2> QED
    BY <1>1, <2>1 DEF TypeOK, TimedOut, removeFromWaitQueue, Return, QueueType
<1>2. CASE RelockBlocks(t, r, m, q, w)
  BY <1>2 DEF TypeOK, RelockBlocks, QueueType
<1>3. CASE RelockThrows(t, q, w)
  BY <1>3 DEF TypeOK, RelockThrows, Return, QueueType
<1>4. CASE Sleep(t, r, m, q, w, n)
  BY <1>4 DEF TypeOK, Sleep, QueueType
<1> QED BY <1>1, <1>2, <1>3, <1>4 DEF Iterates

\* A poll that grants preserves the type invariant.
LEMMA PollGrantType ==
  ASSUME TypeOK, NEW t \in Tx, st[t] = "sleeping", NEW r \in Resource,
         PollGranted(t) \/ PollGrantedFreed(t) \/ PollGrantedAliased(t, r)
  PROVE  TypeOK'
<1>1. req[t] \in Resource /\ want[t] \in LockModes
  BY DEF TypeOK
<1>2. TableType /\ QueueType(queue)
  BY DEF TypeOK, TableType, QueueType
<1>3. QueueType([queue EXCEPT ![req[t]] = Erase(@, {e \in @ : e.at = 0})])
  BY <1>1, <1>2, QueueChangeType, Zenon
<1>4. \A x \in Resource :
        /\ PushBack(LocksOf(x), Elem(t, want[t])) \in SUBSET Entry
        /\ IsFiniteSet(PushBack(LocksOf(x), Elem(t, want[t])))
  BY <1>1, <1>2, LocksOfType, PushBackFacts
<1>5. TableType'
  <2>1. CASE PollGranted(t)
    BY <2>1, <1>1, <1>2, <1>4, PutType DEF PollGranted
  <2>2. CASE PollGrantedFreed(t)
    BY <2>2, <1>2 DEF PollGrantedFreed, TableType
  <2>3. CASE PollGrantedAliased(t, r)
    <3>1. granted[r] = LocksOf(r)
      BY <2>3 DEF PollGrantedAliased, LocksOf
    <3> QED BY <2>3, <3>1, <1>2, <1>4, PutType DEF PollGrantedAliased
  <2> QED BY <2>1, <2>2, <2>3
<1>6. PopFront(t) /\ Return(t) /\ UNCHANGED mutex
  BY DEF PollGranted, PollGrantedFreed, PollGrantedAliased
<1>7. QueueType(queue)' /\ waitingFor' \in [Tx -> SUBSET Resource]
  BY <1>1, <1>3, <1>6 DEF PopFront, TypeOK, QueueType
<1>8. /\ held' \subseteq Tx \X Resource \X LockModes
      /\ lost' \subseteq Tx \X Resource \X LockModes
  BY <1>1 DEF PollGranted, PollGrantedFreed, PollGrantedAliased, TypeOK
<1> QED
  BY <1>5, <1>6, <1>7, <1>8, Zenon DEF TypeOK, TableType, QueueType, Return

\* Every step preserves the type invariant.
LEMMA TypeStep ==
  ASSUME TypeOK, [Next]_vars
  PROVE  TypeOK'
<1> USE ModesAssumption
<1>1. TableType /\ QueueType(queue) /\ waitingFor \in [Tx -> SUBSET Resource]
  BY DEF TypeOK, TableType, QueueType
<1>2. ASSUME NEW t \in Tx, NEW r \in Resource, NEW m \in RequestModes,
             AcquireGranted(t, r, m)
      PROVE  TypeOK'
  <2>1. TableType'
    BY <1>1, <1>2, LocksOfType, PushBackFacts, PutType DEF AcquireGranted
  <2> QED BY <1>2, <2>1 DEF TypeOK, TableType, AcquireGranted, callVars
<1>3. ASSUME NEW t \in Tx, NEW r \in Resource, NEW m \in RequestModes,
             AcquireQueued(t, r, m)
      PROVE  TypeOK'
  <2> DEFINE q == [queue EXCEPT ![r] = PushBack(@, Elem(t, m))]
             w == [waitingFor EXCEPT ![t] = @ \cup {r}]
  <2>1. QueueType(q) /\ w \in [Tx -> SUBSET Resource] /\ m \in LockModes
    BY <1>1, QueueChangeType, Zenon
  <2>2. Iterates(t, r, m, q, w, 1) /\ UNCHANGED <<granted, held, lost>>
    BY <1>3 DEF AcquireQueued, Iterates
  <2> HIDE DEF q, w
  <2> QED BY <2>1, <2>2, IterationType
<1>4. ASSUME NEW t \in Tx, Poll(t)
      PROVE  TypeOK'
  <2>1. st[t] = "sleeping" /\ req[t] \in Resource /\ want[t] \in LockModes
    BY <1>4 DEF Poll, TypeOK
  <2>2. polls[t] + 1 \in Nat
    BY DEF TypeOK
  <2>3. \/ /\ Iterates(t, req[t], want[t], queue, waitingFor, polls[t] + 1)
           /\ UNCHANGED <<granted, held, lost>>
        \/ \E r \in Resource :
             PollGranted(t) \/ PollGrantedFreed(t) \/ PollGrantedAliased(t, r)
    BY <1>4, <2>1 DEF Poll, Iterates
  <2> QED BY <1>1, <2>1, <2>2, <2>3, IterationType, PollGrantType
<1>5. ASSUME NEW t \in Tx, NEW r \in Resource, ReleaseLock(t, r)
      PROVE  TypeOK'
  <2>1. TableType'
    <3> DEFINE rest == Erase(LocksOf(r), OfTx(LocksOf(r), t))
               gone == IF rest = {} THEN {r} ELSE {}
               D == DOMAIN granted \ gone
    <3>1. granted' = [x \in D |-> IF x = r THEN rest ELSE granted[x]]
      BY <1>5 DEF ReleaseLock
    <3> QED BY <1>1, <3>1, RestType
  <2> QED BY <1>5, <2>1, Zenon DEF TypeOK, TableType, ReleaseLock, Dangle
<1>6. ASSUME NEW t \in Tx, ReleaseAllLocks(t)
      PROVE  TypeOK'
  <2>1. TableType'
    <3> DEFINE rest == [x \in DOMAIN granted |-> Erase(granted[x], OfTx(granted[x], t))]
               gone == {x \in DOMAIN granted : rest[x] = {}}
               D == DOMAIN granted \ gone
    <3>1. granted' = [x \in D |-> Erase(granted[x], OfTx(granted[x], t))]
      BY <1>6 DEF ReleaseAllLocks
    <3> QED BY <1>1, <3>1, RestType, Zenon
  <2>2. QueueType(queue)'
    <3>1. \A x \in Resource :
            /\ Erase(queue[x], OfTx(queue[x], t)) \in SUBSET Entry
            /\ IsFiniteSet(Erase(queue[x], OfTx(queue[x], t)))
      BY <1>1, EraseFacts DEF QueueType
    <3> QED BY <1>6, <3>1 DEF ReleaseAllLocks, QueueType
  <2> QED BY <1>6, <2>1, <2>2, Zenon DEF TypeOK, TableType, QueueType, ReleaseAllLocks, Dangle
<1>7. ASSUME NEW t \in Tx, NEW r \in Resource, UpgradeNothing(t, r)
      PROVE  TypeOK'
  <2>1. TableType'
    BY <1>1, <1>7, LocksOfType, PutType DEF UpgradeNothing
  <2> QED BY <1>7, <2>1 DEF TypeOK, TableType, UpgradeNothing, callVars
<1>8. ASSUME NEW t \in Tx, NEW r \in Resource, NEW m \in RequestModes,
             NEW e \in LocksOf(r), UpgradeLock(t, r, m, e)
      PROVE  TypeOK'
  <2> DEFINE others == Erase(LocksOf(r), {e})
  <2>1. others \in SUBSET Entry /\ IsFiniteSet(others)
    BY <1>1, LocksOfType, EraseFacts
  <2>2. e.mode \in LockModes
    BY <1>1, LocksOfType DEF Entry
  <2>3. \A k \in LockModes : /\ PushBack(others, Elem(t, k)) \in SUBSET Entry
                             /\ IsFiniteSet(PushBack(others, Elem(t, k)))
    BY <2>1, PushBackFacts
  <2>4. TableType'
    BY <1>1, <1>8, <2>2, <2>3, PutType DEF UpgradeLock
  <2>5. /\ held' \subseteq Tx \X Resource \X LockModes
        /\ lost' \subseteq Tx \X Resource \X LockModes
    BY <1>8 DEF UpgradeLock, TypeOK
  <2> QED BY <1>8, <2>4, <2>5 DEF TypeOK, TableType, UpgradeLock, callVars
<1>9. ASSUME NEW t \in Tx, NEW r \in Resource, ReleaseNothing(t, r)
      PROVE  TypeOK'
  BY <1>9 DEF TypeOK, ReleaseNothing, callVars
<1>10. CASE UNCHANGED vars
  BY <1>10 DEF TypeOK, vars
<1> QED
  BY <1>2, <1>3, <1>4, <1>5, <1>6, <1>7, <1>8, <1>9, <1>10 DEF Next, Call

\* The lock table, the queues, the wait edges and every caller's local state
\* always have their types; in particular a thread inside acquireLock has a
\* resource and a mode.
THEOREM TypeCorrect == Spec => []TypeOK
<1>1. Init => TypeOK
  BY FS_EmptySet DEF Init, TypeOK
<1>2. TypeOK /\ [Next]_vars => TypeOK'
  BY TypeStep
<1> QED BY <1>1, <1>2, PTL DEF Spec

-----------------------------------------------------------------------------
(* Compatible locks.                                                       *)

Pairwise(V) == \A e, f \in V : e # f => areCompatible(e.mode, f.mode)

\* Appending an entry that canGrant admits keeps the vector compatible.
LEMMA PairwisePush ==
  ASSUME NEW V \in SUBSET Entry, IsFiniteSet(V), Pairwise(V), NEW t \in Tx,
         NEW m \in LockModes, canGrant(V, m)
  PROVE  Pairwise(PushBack(V, Elem(t, m)))
<1> SUFFICES ASSUME NEW e \in PushBack(V, Elem(t, m)),
                    NEW f \in PushBack(V, Elem(t, m)), e # f
             PROVE  areCompatible(e.mode, f.mode)
  BY DEF Pairwise
<1> DEFINE new == [who |-> t, mode |-> m, at |-> Cardinality(V)]
<1>1. e \in V \cup {new} /\ f \in V \cup {new}
  BY DEF PushBack, Elem
<1>2. CASE e \in V /\ f \in V
  BY <1>2 DEF Pairwise
<1>3. CASE e \in V /\ f = new
  BY <1>3 DEF canGrant
<1>4. CASE e = new /\ f \in V
  <2>1. areCompatible(f.mode, m) /\ f.mode \in LockModes
    BY <1>4 DEF canGrant, Entry
  <2> QED BY <1>4, <2>1, CompatibleSymmetric
<1> QED BY <1>1, <1>2, <1>3, <1>4

\* Erasing entries keeps the vector compatible.
LEMMA PairwiseErase ==
  ASSUME NEW V \in SUBSET Entry, IsFiniteSet(V), Pairwise(V), NEW gone
  PROVE  Pairwise(Erase(V, gone))
<1> SUFFICES ASSUME NEW x \in Erase(V, gone), NEW y \in Erase(V, gone), x # y
             PROVE  areCompatible(x.mode, y.mode)
  BY DEF Pairwise
<1>1. PICK e \in V, f \in V : e # f /\ x.mode = e.mode /\ y.mode = f.mode
  BY EraseFacts
<1> QED BY <1>1 DEF Pairwise

\* An entry that is taken out of a compatible vector can be put back.
LEMMA RestoreGrantable ==
  ASSUME NEW V \in SUBSET Entry, IsFiniteSet(V), Pairwise(V), NEW e \in V
  PROVE  canGrant(Erase(V, {e}), e.mode)
<1> SUFFICES ASSUME NEW x \in Erase(V, {e})
             PROVE  areCompatible(x.mode, e.mode)
  BY DEF canGrant
<1>1. PICK f \in V \ {e} : x.mode = f.mode
  BY EraseFacts
<1> QED BY <1>1 DEF Pairwise

\* granted_locks_[resource] = V keeps all vectors compatible if V is.
LEMMA PairwisePut ==
  ASSUME GrantedCompatible, NEW r \in Resource, NEW V, Pairwise(V),
         granted' = Put(r, V)
  PROVE  GrantedCompatible'
BY DEF GrantedCompatible, Put, Pairwise

\* No step makes two entries of one vector incompatible.
LEMMA CompatibleStep ==
  ASSUME TypeOK, GrantedCompatible, [Next]_vars
  PROVE  GrantedCompatible'
<1> USE ModesAssumption
<1>1. TableType
  BY DEF TypeOK, TableType
<1>2. \A r \in Resource : Pairwise(LocksOf(r))
  BY DEF GrantedCompatible, LocksOf, Pairwise
<1>3. \A r \in Resource : LocksOf(r) \in SUBSET Entry /\ IsFiniteSet(LocksOf(r))
  BY <1>1, LocksOfType
<1>4. ASSUME NEW t \in Tx, NEW r \in Resource, NEW m \in RequestModes,
             AcquireGranted(t, r, m)
      PROVE  GrantedCompatible'
  BY <1>2, <1>3, <1>4, PairwisePush, PairwisePut DEF AcquireGranted
<1>5. ASSUME NEW t \in Tx, Poll(t)
      PROVE  GrantedCompatible'
  <2>1. req[t] \in Resource /\ want[t] \in LockModes
    BY <1>5 DEF Poll, TypeOK
  <2>2. CASE PollGranted(t)
    BY <1>2, <1>3, <2>1, <2>2, PairwisePush, PairwisePut DEF PollGranted
  <2>3. ASSUME NEW r \in Resource, PollGrantedAliased(t, r)
        PROVE  GrantedCompatible'
    <3>1. granted[r] = LocksOf(r)
      BY <2>3 DEF PollGrantedAliased, LocksOf
    <3> QED
      BY <1>2, <1>3, <2>1, <2>3, <3>1, PairwisePush, PairwisePut DEF PollGrantedAliased
  <2>4. CASE UNCHANGED granted
    BY <2>4 DEF GrantedCompatible
  <2> QED BY <1>5, <2>2, <2>3, <2>4 DEF Poll, PollGrantedFreed
<1>6. ASSUME NEW t \in Tx, NEW r \in Resource, ReleaseLock(t, r)
      PROVE  GrantedCompatible'
  <2>1. Pairwise(Erase(LocksOf(r), OfTx(LocksOf(r), t)))
    BY <1>2, <1>3, PairwiseErase
  <2> QED BY <1>6, <2>1 DEF ReleaseLock, GrantedCompatible, Pairwise
<1>7. ASSUME NEW t \in Tx, ReleaseAllLocks(t)
      PROVE  GrantedCompatible'
  <2>1. \A r \in DOMAIN granted : Pairwise(Erase(granted[r], OfTx(granted[r], t)))
    BY <1>1, PairwiseErase DEF TableType, GrantedCompatible, Pairwise
  <2> QED BY <1>7, <2>1 DEF ReleaseAllLocks, GrantedCompatible, Pairwise
<1>8. ASSUME NEW t \in Tx, NEW r \in Resource, UpgradeNothing(t, r)
      PROVE  GrantedCompatible'
  BY <1>2, <1>8, PairwisePut DEF UpgradeNothing
<1>9. ASSUME NEW t \in Tx, NEW r \in Resource, NEW m \in RequestModes,
             NEW e \in LocksOf(r), UpgradeLock(t, r, m, e)
      PROVE  GrantedCompatible'
  <2> DEFINE others == Erase(LocksOf(r), {e})
  <2>1. others \in SUBSET Entry /\ IsFiniteSet(others) /\ Pairwise(others)
    BY <1>2, <1>3, EraseFacts, PairwiseErase
  <2>2. canGrant(others, e.mode) /\ e.mode \in LockModes
    BY <1>2, <1>3, RestoreGrantable DEF Entry
  <2>3. \E k \in LockModes : /\ canGrant(others, k)
                             /\ granted' = Put(r, PushBack(others, Elem(t, k)))
    BY <1>9, <2>2 DEF UpgradeLock
  <2> HIDE DEF others
  <2> QED BY <2>1, <2>3, PairwisePush, PairwisePut
<1>10. CASE UNCHANGED granted
  BY <1>10 DEF GrantedCompatible
<1>11. ASSUME NEW t \in Tx, NEW r \in Resource, NEW m \in RequestModes,
              AcquireQueued(t, r, m)
       PROVE  GrantedCompatible'
  BY <1>10, <1>11 DEF AcquireQueued
<1>12. ASSUME NEW t \in Tx, NEW r \in Resource, ReleaseNothing(t, r)
       PROVE  GrantedCompatible'
  BY <1>10, <1>12 DEF ReleaseNothing
<1>13. CASE UNCHANGED vars
  BY <1>10, <1>13 DEF vars
<1> QED
  BY <1>4, <1>5, <1>6, <1>7, <1>8, <1>9, <1>11, <1>12, <1>13 DEF Next, Call

\* Any two entries of a resource's vector are compatible in every reachable
\* state, for any transactions, resources and modes: acquireLock appends what
\* canGrant admits, upgradeLock too, and what a refused upgradeLock restores fits
\* because it was there before.
THEOREM CompatibleCorrect == Spec => []GrantedCompatible
<1>1. Init => GrantedCompatible
  BY DEF Init, GrantedCompatible
<1>2. TypeOK /\ GrantedCompatible /\ [Next]_vars => GrantedCompatible'
  BY CompatibleStep
<1> QED BY <1>1, <1>2, TypeCorrect, PTL DEF Spec

-----------------------------------------------------------------------------
(* Locks the clients were told they own.                                   *)

\* The vector V holds an entry of transaction t with mode m.
Has(V, t, m) == \E e \in V : e.who = t /\ e.mode = m

\* Appending loses no entry; erasing loses none but those of gone.
LEMMA HasKept ==
  ASSUME NEW V \in SUBSET Entry, IsFiniteSet(V), NEW t \in Tx, NEW m \in LockModes,
         NEW u, NEW k, NEW gone
  PROVE  /\ Has(V, u, k) => Has(PushBack(V, Elem(t, m)), u, k)
         /\ Has(PushBack(V, Elem(t, m)), t, m)
         /\ (\E e \in V \ gone : e.who = u /\ e.mode = k) => Has(Erase(V, gone), u, k)
<1>1. /\ Has(V, u, k) => Has(PushBack(V, Elem(t, m)), u, k)
      /\ Has(PushBack(V, Elem(t, m)), t, m)
  BY PushBackFacts DEF Has
<1>2. (\E e \in V \ gone : e.who = u /\ e.mode = k) => Has(Erase(V, gone), u, k)
  BY EraseFacts DEF Has
<1> QED BY <1>1, <1>2

\* A grant: the vector of resource x gains an entry of t, and t is told it owns
\* r.  x and r differ only where the entry went through a dangling reference.
LEMMA BackedPut ==
  ASSUME TypeOK, BackedGrants, NEW t \in Tx, NEW r \in Resource, NEW m \in LockModes,
         NEW x \in Resource,
         granted' = Put(x, PushBack(LocksOf(x), Elem(t, m))),
         held' = held \cup {<<t, r, m>>},
         \/ x = r /\ lost' = lost \ {<<t, r, m>>}
         \/ lost' = lost \cup {<<t, r, m>>}
  PROVE  BackedGrants'
<1> SUFFICES ASSUME NEW h \in held'
             PROVE  Has(LocksOf(h[2])', h[1], h[3]) \/ h \in lost'
  BY DEF BackedGrants, hasLock, Has
<1>1. /\ LocksOf(x)' = PushBack(LocksOf(x), Elem(t, m))
      /\ \A y \in Resource : y # x => LocksOf(y)' = LocksOf(y)
  BY DEF LocksOf, Put
<1> LocksOf(x) \in SUBSET Entry /\ IsFiniteSet(LocksOf(x))
  BY LocksOfType DEF TypeOK, TableType
<1>2. Has(LocksOf(x)', t, m)
  BY <1>1, HasKept
<1>3. \A y \in Resource : \A u, k : Has(LocksOf(y), u, k) => Has(LocksOf(y)', u, k)
  BY <1>1, HasKept
<1>4. CASE h = <<t, r, m>>
  BY <1>2, <1>4
<1>5. CASE h # <<t, r, m>>
  <2>1. h \in held /\ h[2] \in Resource
    BY <1>5, Zenon DEF TypeOK
  <2>2. Has(LocksOf(h[2]), h[1], h[3]) \/ h \in lost
    BY <2>1 DEF BackedGrants, hasLock, Has
  <2> QED BY <1>3, <1>5, <2>1, <2>2
<1> QED BY <1>4, <1>5

\* No step takes a client's entry away while the client believes it owns it.
LEMMA BackedStep ==
  ASSUME TypeOK, BackedGrants, [Next]_vars
  PROVE  BackedGrants'
<1> USE ModesAssumption
<1>1. \A r \in Resource : LocksOf(r) \in SUBSET Entry /\ IsFiniteSet(LocksOf(r))
  BY LocksOfType DEF TypeOK, TableType
<1>2. \A h \in held : /\ h[1] \in Tx /\ h[2] \in Resource /\ h[3] \in LockModes
                      /\ h = <<h[1], h[2], h[3]>>
                      /\ Has(LocksOf(h[2]), h[1], h[3]) \/ h \in lost
  BY DEF BackedGrants, hasLock, Has, TypeOK
<1>3. CASE UNCHANGED <<granted, held, lost>>
  BY <1>3 DEF BackedGrants, hasLock, LocksOf
<1>4. ASSUME NEW t \in Tx, NEW r \in Resource, NEW m \in RequestModes,
             AcquireGranted(t, r, m)
      PROVE  BackedGrants'
  BY <1>4, BackedPut DEF AcquireGranted
<1>5. ASSUME NEW t \in Tx, Poll(t)
      PROVE  BackedGrants'
  <2>1. req[t] \in Resource /\ want[t] \in LockModes
    BY <1>5 DEF Poll, TypeOK
  <2>2. CASE PollGranted(t)
    BY <2>1, <2>2, BackedPut DEF PollGranted
  <2>3. CASE PollGrantedFreed(t)
    BY <2>3 DEF PollGrantedFreed, BackedGrants, hasLock, LocksOf
  <2>4. ASSUME NEW r \in Resource, PollGrantedAliased(t, r)
        PROVE  BackedGrants'
    <3>1. granted[r] = LocksOf(r)
      BY <2>4 DEF PollGrantedAliased, LocksOf
    <3> QED BY <2>1, <2>4, <3>1, BackedPut DEF PollGrantedAliased
  <2> QED BY <1>3, <1>5, <2>2, <2>3, <2>4 DEF Poll
<1>6. ASSUME NEW t \in Tx, NEW r \in Resource, ReleaseLock(t, r)
      PROVE  BackedGrants'
  <2> DEFINE V == LocksOf(r)
             rest == Erase(V, OfTx(V, t))
  <2>1. LocksOf(r)' = rest
    BY <1>6, Zenon DEF ReleaseLock, LocksOf
  <2>2. \A y \in Resource : y # r => LocksOf(y)' = LocksOf(y)
    BY <1>6 DEF ReleaseLock, LocksOf
  <2>3. \A u, k : u # t /\ Has(V, u, k) => Has(rest, u, k)
    <3> TAKE u, k
    <3> HAVE u # t /\ Has(V, u, k)
    <3>1. \E e \in V \ OfTx(V, t) : e.who = u /\ e.mode = k
      BY DEF Has, OfTx
    <3>2. t \in Tx /\ "SHARED" \in LockModes
      BY DEF LockModes
    <3> QED BY <1>1, <3>1, <3>2, HasKept
  <2>4. \A h \in held' : h \in held /\ ~(h[1] = t /\ h[2] = r)
    BY <1>6 DEF ReleaseLock
  <2>5. \A h \in held' : h \in lost => h \in lost'
    BY <1>6, <2>4 DEF ReleaseLock
  <2>6. \A h \in held' : Has(LocksOf(h[2])', h[1], h[3]) \/ h \in lost'
    BY <1>2, <2>1, <2>2, <2>3, <2>4, <2>5
  <2> QED BY <2>6, Zenon DEF BackedGrants, hasLock, Has
<1>7. ASSUME NEW t \in Tx, NEW r \in Resource, ReleaseNothing(t, r)
      PROVE  BackedGrants'
  BY <1>7 DEF ReleaseNothing, BackedGrants, hasLock, LocksOf
<1>8. ASSUME NEW t \in Tx, ReleaseAllLocks(t)
      PROVE  BackedGrants'
  <2>1. \A y \in Resource : LocksOf(y)' = Erase(LocksOf(y), OfTx(LocksOf(y), t))
    <3>1. Erase({}, OfTx({}, t)) = {}
      BY DEF Erase
    <3> QED BY <1>8, <3>1, Zenon DEF ReleaseAllLocks, LocksOf
  <2>2. \A y \in Resource : \A u, k :
          u # t /\ Has(LocksOf(y), u, k) => Has(LocksOf(y)', u, k)
    <3> TAKE y \in Resource
    <3> TAKE u, k
    <3> HAVE u # t /\ Has(LocksOf(y), u, k)
    <3>1. \E e \in LocksOf(y) \ OfTx(LocksOf(y), t) : e.who = u /\ e.mode = k
      BY DEF Has, OfTx
    <3>2. t \in Tx /\ "SHARED" \in LockModes
      BY DEF LockModes
    <3> QED BY <1>1, <2>1, <3>1, <3>2, HasKept
  <2>3. \A h \in held' : h \in held /\ h[1] # t /\ (h \in lost => h \in lost')
    BY <1>8 DEF ReleaseAllLocks
  <2>4. \A h \in held' : Has(LocksOf(h[2])', h[1], h[3]) \/ h \in lost'
    BY <1>2, <2>2, <2>3
  <2> QED BY <2>4 DEF BackedGrants, hasLock, Has
<1>9. ASSUME NEW t \in Tx, NEW r \in Resource, UpgradeNothing(t, r)
      PROVE  BackedGrants'
  BY <1>9 DEF UpgradeNothing, BackedGrants, hasLock, LocksOf, Put
<1>10. ASSUME NEW t \in Tx, NEW r \in Resource, NEW m \in RequestModes,
              NEW e \in LocksOf(r), UpgradeLock(t, r, m, e)
       PROVE  BackedGrants'
  <2> DEFINE others == Erase(LocksOf(r), {e})
  <2>1. /\ others \in SUBSET Entry /\ IsFiniteSet(others)
        /\ e.who = t /\ e.mode \in LockModes
    <3>1. LocksOf(r) \in SUBSET Entry /\ IsFiniteSet(LocksOf(r))
      BY <1>1
    <3>2. others \in SUBSET Entry /\ IsFiniteSet(others)
      BY <3>1, EraseFacts
    <3>3. FirstOf(LocksOf(r), t, e)
      BY <1>10 DEF UpgradeLock
    <3>4. e.who = t
      BY <3>3 DEF FirstOf, OfTx
    <3>5. e.mode \in LockModes
      BY <3>1 DEF Entry
    <3> QED BY <3>2, <3>4, <3>5
  <2>2. PICK k \in LockModes :
          /\ granted' = Put(r, PushBack(others, Elem(t, k)))
          /\ \/ /\ held' = (held \ {<<t, r, e.mode>>}) \cup {<<t, r, k>>}
                /\ lost' = lost \ {<<t, r, e.mode>>, <<t, r, k>>}
             \/ k = e.mode /\ UNCHANGED <<held, lost>>
    <3>1. \/ /\ granted' = Put(r, PushBack(others, Elem(t, m)))
             /\ held' = (held \ {<<t, r, e.mode>>}) \cup {<<t, r, m>>}
             /\ lost' = lost \ {<<t, r, e.mode>>, <<t, r, m>>}
          \/ /\ granted' = Put(r, PushBack(others, Elem(t, e.mode)))
             /\ UNCHANGED <<held, lost>>
      BY <1>10, Zenon DEF UpgradeLock
    <3>2. m \in LockModes
      BY DEF ModesAssumption
    <3> HIDE DEF others
    <3> QED BY <2>1, <3>1, <3>2, Zenon
  <2>3. /\ LocksOf(r)' = PushBack(others, Elem(t, k))
        /\ \A y \in Resource : y # r => LocksOf(y)' = LocksOf(y)
    BY <2>2 DEF LocksOf, Put
  <2>4. Has(LocksOf(r)', t, k)
    BY <2>1, <2>3, HasKept, Zenon
  <2>5. \A u, j : Has(LocksOf(r), u, j) /\ <<u, j>> # <<t, e.mode>>
                    => Has(LocksOf(r)', u, j)
    <3> TAKE u, j
    <3> HAVE Has(LocksOf(r), u, j) /\ <<u, j>> # <<t, e.mode>>
    <3>1. \E f \in LocksOf(r) \ {e} : f.who = u /\ f.mode = j
      BY <2>1 DEF Has
    <3>2. Has(others, u, j)
      BY <1>1, <3>1, HasKept
    <3> HIDE DEF others
    <3> QED BY <2>1, <2>3, <3>2, HasKept
  <2> HIDE DEF others
  <2>6. \A h \in held' : Has(LocksOf(h[2])', h[1], h[3]) \/ h \in lost'
    <3> TAKE h \in held'
    <3>1. CASE h = <<t, r, k>>
      BY <2>4, <3>1
    <3>2. CASE h # <<t, r, k>>
      <4>1. h \in held /\ h # <<t, r, e.mode>> /\ (h \in lost => h \in lost')
        BY <2>2, <3>2
      <4>2. h[2] = r => <<h[1], h[3]>> # <<t, e.mode>>
        BY <1>2, <4>1
      <4> QED BY <1>2, <2>3, <2>5, <4>1, <4>2
    <3> QED BY <3>1, <3>2
  <2> QED BY <2>6 DEF BackedGrants, hasLock, Has
<1>11. ASSUME NEW t \in Tx, NEW r \in Resource, NEW m \in RequestModes,
              AcquireQueued(t, r, m)
       PROVE  BackedGrants'
  BY <1>3, <1>11 DEF AcquireQueued
<1>12. CASE UNCHANGED vars
  BY <1>3, <1>12 DEF vars
<1> QED
  BY <1>4, <1>5, <1>6, <1>7, <1>8, <1>9, <1>10, <1>11, <1>12 DEF Next, Call

\* A lock a client was told it owns keeps its entry in granted_locks_ until the
\* client gives it up, except where the entry went to freed memory.
THEOREM BackedCorrect == Spec => []BackedGrants
<1>1. Init => BackedGrants
  BY DEF Init, BackedGrants
<1>2. TypeOK /\ BackedGrants /\ [Next]_vars => BackedGrants'
  BY BackedStep
<1> QED BY <1>1, <1>2, TypeCorrect, PTL DEF Spec

-----------------------------------------------------------------------------
(* Waiters.                                                                *)

\* No step leaves a wait edge behind, where locking an owned mutex does not
\* throw: only RelockThrows leaves acquireLock without removing the edge.
LEMMA WaitEdgesStep ==
  ASSUME "throws" \notin RelockOutcomes, TypeOK, WaitEdgesLive, [Next]_vars
  PROVE  WaitEdgesLive'
<1>1. CASE UNCHANGED <<waitingFor, st, req>>
  BY <1>1 DEF WaitEdgesLive
<1>2. ASSUME NEW t \in Tx, NEW r \in Resource, NEW m \in RequestModes,
             AcquireQueued(t, r, m)
      PROVE  WaitEdgesLive'
  <2> DEFINE q == [queue EXCEPT ![r] = PushBack(@, Elem(t, m))]
             w == [waitingFor EXCEPT ![t] = @ \cup {r}]
  <2>1. waitingFor[t] = {}
    BY <1>2 DEF AcquireQueued, WaitEdgesLive, TypeOK
  <2>2. CASE TimedOut(t, r, q, w)
    BY <2>1, <2>2, Zenon DEF TimedOut, removeFromWaitQueue, Return, WaitEdgesLive, TypeOK
  <2>3. CASE RelockBlocks(t, r, m, q, w) \/ Sleep(t, r, m, q, w, 1)
    BY <2>1, <2>3 DEF RelockBlocks, Sleep, WaitEdgesLive, TypeOK
  <2> QED BY <1>2, <2>2, <2>3 DEF AcquireQueued, RelockThrows
<1>3. ASSUME NEW t \in Tx, Poll(t)
      PROVE  WaitEdgesLive'
  <2>1. st[t] = "sleeping" /\ waitingFor[t] \subseteq {req[t]}
    BY <1>3 DEF Poll, WaitEdgesLive, TypeOK
  <2>2. CASE TimedOut(t, req[t], queue, waitingFor)
    BY <2>1, <2>2 DEF TimedOut, removeFromWaitQueue, Return, WaitEdgesLive, TypeOK
  <2>3. CASE RelockBlocks(t, req[t], want[t], queue, waitingFor)
    BY <2>1, <2>3 DEF RelockBlocks, WaitEdgesLive, TypeOK
  <2>4. CASE Sleep(t, req[t], want[t], queue, waitingFor, polls[t] + 1)
    BY <2>1, <2>4 DEF Sleep, WaitEdgesLive, TypeOK
  <2>5. CASE PopFront(t) /\ Return(t)
    BY <2>1, <2>5 DEF PopFront, Return, WaitEdgesLive, TypeOK
  <2> QED
    BY <1>3, <2>2, <2>3, <2>4, <2>5, Zenon
    DEF Poll, RelockThrows, PollGranted, PollGrantedFreed, PollGrantedAliased
<1>4. ASSUME NEW t \in Tx, ReleaseAllLocks(t)
      PROVE  WaitEdgesLive'
  BY <1>4 DEF ReleaseAllLocks, WaitEdgesLive, TypeOK
<1>5. ASSUME NEW t \in Tx, NEW r \in Resource,
             \/ ReleaseLock(t, r) \/ ReleaseNothing(t, r) \/ UpgradeNothing(t, r)
             \/ \E m \in RequestModes :
                  AcquireGranted(t, r, m) \/ \E e \in LocksOf(r) : UpgradeLock(t, r, m, e)
      PROVE  WaitEdgesLive'
  BY <1>1, <1>5, Zenon
  DEF ReleaseLock, ReleaseNothing, UpgradeNothing, AcquireGranted, UpgradeLock, callVars
<1>6. CASE UNCHANGED vars
  BY <1>1, <1>6 DEF vars
<1> QED BY <1>2, <1>3, <1>4, <1>5, <1>6 DEF Next, Call

\* Where locking an owned mutex blocks, the wait-for graph never holds an edge
\* of a transaction that is not inside acquireLock for that very resource.
THEOREM WaitEdgesCorrect ==
  ASSUME "throws" \notin RelockOutcomes
  PROVE  Spec => []WaitEdgesLive
<1>1. Init => WaitEdgesLive
  BY DEF Init, WaitEdgesLive
<1>2. TypeOK /\ WaitEdgesLive /\ [Next]_vars => WaitEdgesLive'
  BY WaitEdgesStep
<1> QED BY <1>1, <1>2, TypeCorrect, PTL DEF Spec

\* No step leaves a waiter with a good reference and nobody to wait for.
LEMMA OwnerStep ==
  ASSUME TypeOK, LiveReferenceHasOwner, [Next]_vars
  PROVE  LiveReferenceHasOwner'
<1> USE ModesAssumption
<1> DEFINE Owned(g, r) == r \in DOMAIN g /\ g[r] # {}
<1>1. ASSUME \A r \in Resource : Owned(granted, r) => Owned(granted', r),
             \A t \in Tx : st'[t] = "sleeping" /\ ref'[t] = "live" =>
               /\ st[t] = "sleeping" /\ ref[t] = "live" /\ req'[t] = req[t]
      PROVE  LiveReferenceHasOwner'
  BY <1>1 DEF LiveReferenceHasOwner, TypeOK
<1>2. \A r \in Resource : LocksOf(r) \in SUBSET Entry /\ IsFiniteSet(LocksOf(r))
  BY LocksOfType DEF TypeOK, TableType
<1>3. ASSUME NEW t \in Tx, NEW r \in Resource, NEW m \in LockModes,
             NEW V \in SUBSET Entry, IsFiniteSet(V),
             granted' = Put(r, PushBack(V, Elem(t, m)))
      PROVE  \A x \in Resource : Owned(granted, x) => Owned(granted', x)
  <2>1. PushBack(V, Elem(t, m)) # {}
    BY <1>3, PushBackFacts, Zenon
  <2> QED BY <1>3, <2>1 DEF Put
<1>4. ASSUME NEW t \in Tx, NEW r \in Resource, NEW m \in RequestModes,
             AcquireGranted(t, r, m)
      PROVE  LiveReferenceHasOwner'
  BY <1>1, <1>2, <1>3, <1>4 DEF AcquireGranted, callVars
<1>5. ASSUME NEW t \in Tx, NEW r \in Resource, NEW m \in RequestModes,
             AcquireQueued(t, r, m)
      PROVE  LiveReferenceHasOwner'
  <2>1. Owned(granted, r) /\ UNCHANGED granted
    BY <1>5 DEF AcquireQueued, canGrant, LocksOf
  <2> DEFINE q == [queue EXCEPT ![r] = PushBack(@, Elem(t, m))]
             w == [waitingFor EXCEPT ![t] = @ \cup {r}]
  <2>2. CASE TimedOut(t, r, q, w) \/ RelockThrows(t, q, w)
    BY <1>1, <2>1, <2>2 DEF TimedOut, RelockThrows, Return, TypeOK
  <2>3. CASE RelockBlocks(t, r, m, q, w)
    BY <1>1, <2>1, <2>3 DEF RelockBlocks, TypeOK
  <2>4. CASE Sleep(t, r, m, q, w, 1)
    BY <2>1, <2>4 DEF Sleep, LiveReferenceHasOwner, TypeOK
  <2> QED BY <1>5, <2>2, <2>3, <2>4, Zenon DEF AcquireQueued
<1>6. ASSUME NEW t \in Tx, Poll(t)
      PROVE  LiveReferenceHasOwner'
  <2>1. st[t] = "sleeping" /\ req[t] \in Resource /\ want[t] \in LockModes
    BY <1>6 DEF Poll, TypeOK
  <2>2. CASE /\ \/ TimedOut(t, req[t], queue, waitingFor)
                \/ RelockBlocks(t, req[t], want[t], queue, waitingFor)
                \/ RelockThrows(t, queue, waitingFor)
                \/ Sleep(t, req[t], want[t], queue, waitingFor, polls[t] + 1)
             /\ UNCHANGED granted
    BY <1>1, <2>1, <2>2 DEF TimedOut, RelockBlocks, RelockThrows, Sleep, Return, TypeOK
  <2>3. ASSUME Return(t), \A r \in Resource : Owned(granted, r) => Owned(granted', r)
        PROVE  LiveReferenceHasOwner'
    BY <1>1, <2>3 DEF Return, TypeOK
  <2>4. CASE PollGranted(t)
    BY <1>2, <1>3, <2>1, <2>3, <2>4 DEF PollGranted
  <2>5. CASE PollGrantedFreed(t)
    BY <2>3, <2>5 DEF PollGrantedFreed
  <2>6. ASSUME NEW r \in Resource, PollGrantedAliased(t, r)
        PROVE  LiveReferenceHasOwner'
    <3>1. granted[r] = LocksOf(r)
      BY <2>6 DEF PollGrantedAliased, LocksOf
    <3> QED BY <1>2, <1>3, <2>1, <2>3, <2>6, <3>1, Zenon DEF PollGrantedAliased
  <2> QED BY <1>6, <2>2, <2>4, <2>5, <2>6, Zenon DEF Poll
<1>7. ASSUME NEW t \in Tx, NEW r \in Resource, ReleaseLock(t, r)
      PROVE  LiveReferenceHasOwner'
  BY <1>7 DEF ReleaseLock, Dangle, LiveReferenceHasOwner, LocksOf, TypeOK
<1>8. ASSUME NEW t \in Tx, ReleaseAllLocks(t)
      PROVE  LiveReferenceHasOwner'
  BY <1>8, Zenon DEF ReleaseAllLocks, Dangle, LiveReferenceHasOwner, TypeOK
<1>9. ASSUME NEW t \in Tx, NEW r \in Resource, UpgradeNothing(t, r)
      PROVE  LiveReferenceHasOwner'
  BY <1>9 DEF UpgradeNothing, Put, LocksOf, LiveReferenceHasOwner, callVars
<1>10. ASSUME NEW t \in Tx, NEW r \in Resource, NEW m \in RequestModes,
              NEW e \in LocksOf(r), UpgradeLock(t, r, m, e)
       PROVE  LiveReferenceHasOwner'
  <2> DEFINE others == Erase(LocksOf(r), {e})
  <2>1. others \in SUBSET Entry /\ IsFiniteSet(others) /\ e.mode \in LockModes
    BY <1>2, EraseFacts DEF Entry
  <2>2. \E k \in LockModes : granted' = Put(r, PushBack(others, Elem(t, k)))
    BY <1>10, <2>1 DEF UpgradeLock
  <2> HIDE DEF others
  <2>3. UNCHANGED callVars
    BY <1>10 DEF UpgradeLock
  <2> QED BY <1>1, <1>3, <2>1, <2>2, <2>3, Zenon DEF callVars
<1>11. ASSUME NEW t \in Tx, NEW r \in Resource, ReleaseNothing(t, r)
       PROVE  LiveReferenceHasOwner'
  BY <1>1, <1>11 DEF ReleaseNothing, callVars
<1>12. CASE UNCHANGED vars
  BY <1>1, <1>12 DEF vars
<1> QED
  BY <1>4, <1>5, <1>6, <1>7, <1>8, <1>9, <1>10, <1>11, <1>12 DEF Next, Call

\* A waiter whose reference to the lock vector is good waits for somebody: the
\* vector is a map entry and not empty.
THEOREM OwnerCorrect == Spec => []LiveReferenceHasOwner
<1>1. Init => LiveReferenceHasOwner
  BY DEF Init, LiveReferenceHasOwner
<1>2. TypeOK /\ LiveReferenceHasOwner /\ [Next]_vars => LiveReferenceHasOwner'
  BY OwnerStep
<1> QED BY <1>1, <1>2, TypeCorrect, PTL DEF Spec
=============================================================================
