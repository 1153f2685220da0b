---------------------------- MODULE EngineProofs ----------------------------
(***************************************************************************)
(* The executor uses the heap as HeapSpec says, so what holds of every use *)
(* of the heap holds of the engine, for any statements, users and limits.  *)
(*                                                                         *)
(* The one fact about the executor this needs is that executeInsert only   *)
(* ever handles the first row of a statement: no row is stored.            *)
(***************************************************************************)
EXTENDS Engine, HeapProofs

Fields == {"stmt", "at", "status", "plan", "iter", "sorted", "done"}

\* A call of execute, at its start or about to insert: no row is done.
Call(r) ==
  /\ Fields \subseteq DOMAIN r
  /\ r.stmt \in Statements \cup {Blank}
  /\ r.at \in {"begun", "table"} => r.done = 0

RunInv == DOMAIN run = User /\ \A u \in User : Call(run[u])

EngineInv == RunInv /\ HeapInv

LEMMA CallReplaced ==
  ASSUME RunInv, NEW u \in User, NEW r, Call(r), run' = [run EXCEPT ![u] = r]
  PROVE  RunInv'
<1>1. DOMAIN run' = User /\ \A v \in User : run'[v] = IF v = u THEN r ELSE run[v]
  BY DEF RunInv
<1> QED
  BY <1>1 DEF RunInv

LEMMA IdleCall == Call(Idle)
BY DEF Call, Idle, Fields

\* The thread goes on at a point that is not the start of a statement.
LEMMA CallMoves ==
  ASSUME RunInv, NEW u \in User, NEW where, Goto(u, where),
         where # "begun" /\ (where = "table" => run[u].at = "begun")
  PROVE  RunInv'
<1> DEFINE r == [run[u] EXCEPT !.at = where]
<1>1. Call(run[u])
  BY DEF RunInv
<1>2. Call(r)
  BY <1>1 DEF Call, Fields
<1>3. run' = [run EXCEPT ![u] = r]
  BY DEF Goto
<1> HIDE DEF r
<1> QED
  BY Zenon, <1>2, <1>3, CallReplaced

LEMMA CallAnswers ==
  ASSUME RunInv, NEW u \in User, NEW status, Answer(u, status)
  PROVE  RunInv'
<1> DEFINE r == [run[u] EXCEPT !.at = "finish", !.status = status]
<1>1. Call(run[u])
  BY DEF RunInv
<1>2. Call(r)
  BY <1>1 DEF Call, Fields
<1>3. run' = [run EXCEPT ![u] = r]
  BY Zenon DEF Answer
<1> HIDE DEF r
<1> QED
  BY Zenon, <1>2, <1>3, CallReplaced

LEMMA CallEnds ==
  ASSUME RunInv, NEW u \in User, run' = [run EXCEPT ![u] = Idle]
  PROVE  RunInv'
BY Zenon, IdleCall, CallReplaced

LEMMA CallStays ==
  ASSUME RunInv, UNCHANGED run
  PROVE  RunInv'
BY DEF RunInv

\* A turn of a loop over rows.
LEMMA CallCounts ==
  ASSUME RunInv, NEW u \in User, NEW r, run' = [run EXCEPT ![u] = r],
         DOMAIN r = DOMAIN run[u], r.stmt = run[u].stmt,
         r.at \in {"sorting", "fetching", "planned", "finish"}
  PROVE  RunInv'
<1>1. Call(r)
  BY DEF RunInv, Call
<1> QED
  BY Zenon, <1>1, CallReplaced

\* executeInsert: the row is refused, or the first one and not stored.
LEMMA InsertStep ==
  ASSUME EngineInv, NEW u \in User, executeInsert(u)
  PROVE  RunInv' /\ [HeapNext]_heapVars
<1> DEFINE row == run[u].stmt.rows[run[u].done + 1]
<1>1. Opened(u) /\ run[u].at = "table" /\ run[u].stmt.op = "INSERT"
  BY DEF executeInsert, At, Op
<1>2. row = run[u].stmt.rows[1] /\ run[u].stmt \in Statements
  <2>1. run[u].done = 0 /\ run[u].stmt \in Statements \cup {Blank}
    BY <1>1 DEF EngineInv, RunInv, Call
  <2>2. Blank.op # "INSERT"
    BY DEF Blank
  <2> QED
    BY <1>1, <2>1, <2>2
<1>3. row = InvalidRow \/ row \in Nat
  BY <1>1, <1>2, StatementsAssumption
<1>4. CASE row = InvalidRow
  <2>1. Answer(u, "ERROR") /\ UNCHANGED heapVars
    BY <1>4 DEF executeInsert
  <2> QED
    BY <2>1, CallAnswers DEF EngineInv
<1>5. CASE row # InvalidRow
  <2>1. row \in Nat /\ insertRow(u, row)
    BY <1>3, <1>5 DEF executeInsert
  <2>2. ~Stored(u, row)
    BY <1>1, <2>1, InsertAppends DEF EngineInv
  <2>3. Answer(u, "ERROR")
    BY SMTT(30), <1>5, <2>2 DEF executeInsert
  <2> QED
    BY SMTT(30), <2>1, <2>3, CallAnswers DEF EngineInv, HeapNext
<1> QED
  BY <1>4, <1>5

LEMMA StatementStep ==
  ASSUME EngineInv, NEW u \in User, Step(u)
  PROVE  RunInv' /\ [HeapNext]_heapVars
<1> USE DEF EngineInv
<1>1. CASE finish(u)
  <2>1. CASE cur[u] = None
    BY <1>1, <2>1, CallEnds DEF finish, Ended, HeapNext
  <2>2. CASE cur[u] # None
    BY <1>1, <2>2, CallMoves DEF finish
  <2> QED
    BY <2>1, <2>2
<1>2. CASE commit(u)
  BY <1>2, CallStays DEF commit
<1>3. CASE committed(u)
  BY Zenon, <1>3, CallEnds DEF committed, Ended, HeapNext
<1>4. CASE abort(u)
  <2>1. CASE pc'[u] = "idle"
    BY SMTT(30), <1>4, <2>1, CallEnds DEF abort, Ended, HeapNext
  <2>2. CASE pc'[u] # "idle"
    BY <1>4, <2>2, CallMoves DEF abort
  <2> QED
    BY <2>1, <2>2
<1>5. CASE optimize(u)
  <2> DEFINE r == [run[u] EXCEPT !.plan = logicalOptimization(run[u].stmt), !.at = "planned"]
  <2>1. run' = [run EXCEPT ![u] = r] /\ UNCHANGED heapVars
    BY Zenon, <1>5 DEF optimize
  <2>2. DOMAIN r = DOMAIN run[u] /\ r.stmt = run[u].stmt /\ r.at = "planned"
    BY DEF RunInv, Call, Fields
  <2> HIDE DEF r
  <2> QED
    BY Zenon, <2>1, <2>2, CallCounts
<1>6. CASE open(u)
  <2>1. UNCHANGED heapVars
    BY <1>6 DEF open
  <2>2. CASE Answer(u, "NOT_FOUND")
    BY <2>1, <2>2, CallAnswers
  <2>3. CASE Crash
    BY <2>1, <2>3, CallStays DEF Crash
  <2>4. CASE Goto(u, IF run[u].plan.sort THEN "sorting" ELSE "fetching")
    BY <2>1, <2>4, CallMoves
  <2> QED
    BY <1>6, <2>2, <2>3, <2>4 DEF open
<1>7. CASE sort(u)
  <2>1. UNCHANGED heapVars
    BY <1>7 DEF sort
  <2> DEFINE r == [run[u] EXCEPT !.sorted = Counted(@), !.iter = Incremented(@)]
  <2>2. CASE run' = [run EXCEPT ![u].sorted = Counted(@), ![u].iter = Incremented(@)]
    <3>1. run' = [run EXCEPT ![u] = r]
      BY Zenon, <2>2
    <3>2. DOMAIN r = DOMAIN run[u] /\ r.stmt = run[u].stmt /\ r.at = "sorting"
      BY <1>7 DEF RunInv, Call, Fields, sort, At
    <3> HIDE DEF r
    <3> QED
      BY Zenon, <2>1, <3>1, <3>2, CallCounts
  <2>3. CASE Goto(u, "fetching")
    BY SMTT(30), <2>1, <2>3, CallMoves
  <2>4. CASE Crash
    BY <2>1, <2>4, CallStays DEF Crash
  <2> QED
    BY <1>7, <2>2, <2>3, <2>4 DEF sort
<1>8. CASE fetch(u)
  <2>1. UNCHANGED heapVars /\ run[u].at = "fetching"
    BY <1>8 DEF fetch, At
  <2> DEFINE r == [run[u] EXCEPT !.done = Counted(@), !.iter = Incremented(@),
                                 !.at = IF Overdue(u) THEN "finish" ELSE @,
                                 !.status = IF Overdue(u) THEN "OK" ELSE @]
  <2>2. CASE run' = [run EXCEPT ![u].done = Counted(@), ![u].iter = Incremented(@),
                                ![u].at = IF Overdue(u) THEN "finish" ELSE @,
                                ![u].status = IF Overdue(u) THEN "OK" ELSE @]
    <3>1. run' = [run EXCEPT ![u] = r]
      BY Zenon, <2>2
    <3>2. /\ DOMAIN r = DOMAIN run[u] /\ r.stmt = run[u].stmt
          /\ r.at \in {"fetching", "finish"}
      BY <2>1 DEF RunInv, Call, Fields
    <3> HIDE DEF r
    <3> QED
      BY Zenon, <2>1, <3>1, <3>2, CallCounts
  <2>3. CASE Answer(u, "OK")
    BY <2>1, <2>3, CallAnswers
  <2>4. CASE Crash
    BY <2>1, <2>4, CallStays DEF Crash
  <2> QED
    BY <1>8, <2>2, <2>3, <2>4 DEF fetch
<1>9. CASE getTable(u)
  <2>1. CASE Name(u) \in DOMAIN tables
    <3>1. Goto(u, "table") /\ run[u].at = "begun"
      BY <1>9, <2>1 DEF getTable, At
    <3>2. RunInv'
      BY <3>1, CallMoves
    <3>3. PICK found \in BOOLEAN : openTable(u, found)
      <4>1. ZeroFound(tables[Name(u)].id) \in BOOLEAN
        BY Zenon DEF ZeroFound
      <4> QED
        BY <1>9, <2>1, <4>1 DEF getTable
    <3> QED
      BY <3>2, <3>3 DEF HeapNext
  <2>2. CASE Name(u) \notin DOMAIN tables
    BY <1>9, <2>2, CallAnswers DEF getTable
  <2> QED
    BY <2>1, <2>2
<1>10. CASE executeInsert(u)
  BY <1>10, InsertStep
<1>11. CASE executeScan(u)
  BY <1>11, CallAnswers DEF executeScan
<1>12. CASE drawTableId(u)
  BY <1>12, CallMoves DEF drawTableId
<1>13. CASE executeCreateTable(u)
  <2>1. UNCHANGED heapVars
    BY <1>13 DEF executeCreateTable
  <2>2. CASE Goto(u, "indexing")
    BY <2>1, <2>2, CallMoves
  <2>3. CASE Answer(u, "OK")
    BY <2>1, <2>3, CallAnswers
  <2>4. CASE Throw(u)
    BY Zenon, <2>1, <2>4, CallEnds DEF Throw, Ended
  <2> QED
    BY <1>13, <2>2, <2>3, <2>4 DEF executeCreateTable
<1>14. CASE findTable(u)
  <2>1. UNCHANGED heapVars /\ (Goto(u, "indexing") \/ Answer(u, "NOT_FOUND"))
    BY <1>14 DEF findTable
  <2> QED
    BY <2>1, CallMoves, CallAnswers
<1>15. CASE createIndex(u)
  <2>1. UNCHANGED heapVars /\ (Goto(u, "indexed") \/ Answer(u, "OK"))
    BY SMTT(30), <1>15 DEF createIndex
  <2> QED
    BY <2>1, CallMoves, CallAnswers
<1>16. CASE getIndexedTable(u)
  <2>1. CASE Name(u) \in DOMAIN tables
    <3>1. Goto(u, "building")
      BY <1>16, <2>1 DEF getIndexedTable
    <3>2. RunInv'
      BY <3>1, CallMoves
    <3>3. PICK found \in BOOLEAN : openTable(u, found)
      <4>1. ZeroFound(tables[Name(u)].id) \in BOOLEAN
        BY Zenon DEF ZeroFound
      <4> QED
        BY <1>16, <2>1, <4>1 DEF getIndexedTable
    <3> QED
      BY <3>2, <3>3 DEF HeapNext
  <2>2. CASE Name(u) \notin DOMAIN tables
    BY <1>16, <2>2, CallStays DEF getIndexedTable, Crash
  <2> QED
    BY <2>1, <2>2
<1>17. CASE buildIndex(u)
  <2>1. RunInv'
    BY <1>17, CallAnswers DEF buildIndex
  <2>2. PICK found \in BOOLEAN : openIndex(found)
    <3>1. ZeroFound(IndexOf(Name(u))) \in BOOLEAN
      BY Zenon DEF ZeroFound
    <3> QED
      BY <1>17, <3>1 DEF buildIndex
  <2> QED
    BY <2>1, <2>2 DEF HeapNext
<1>18. CASE executeDropTable(u)
  <2>1. UNCHANGED heapVars
    BY <1>18 DEF executeDropTable
  <2>2. CASE Goto(u, "hung")
    BY SMTT(30), <2>1, <2>2, CallMoves
  <2>3. CASE Answer(u, "OK")
    BY <2>1, <2>3, CallAnswers
  <2>4. CASE Throw(u)
    BY Zenon, <2>1, <2>4, CallEnds DEF Throw, Ended
  <2> QED
    BY <1>18, <2>2, <2>3, <2>4 DEF executeDropTable
<1>19. CASE executeOther(u)
  BY <1>19, CallAnswers DEF executeOther
<1> QED
  BY SMTT(30), <1>1, <1>2, <1>3, <1>4, <1>5, <1>6, <1>7, <1>8, <1>9, <1>10, <1>11, <1>12,
     <1>13, <1>14, <1>15, <1>16, <1>17, <1>18, <1>19 DEF Step

LEMMA EngineInitially == Init => EngineInv
<1>1. Init => RunInv
  BY IdleCall DEF Init, RunInv
<1> QED
  BY SMTT(30), <1>1, HeapInitially DEF Init, EngineInv

\* The executor's steps are steps of the heap, or leave it alone.
LEMMA EngineStep == EngineInv /\ [Next]_vars => RunInv' /\ [HeapNext]_heapVars
<1> SUFFICES ASSUME EngineInv, [Next]_vars PROVE RunInv' /\ [HeapNext]_heapVars
  OBVIOUS
<1> USE DEF EngineInv
<1>1. ASSUME NEW u \in User, NEW statement \in Statements, execute(u, statement)
      PROVE  RunInv' /\ [HeapNext]_heapVars
  <2> DEFINE r == [Idle EXCEPT !.stmt = statement, !.at = "begun"]
  <2>1. Call(r)
    BY DEF Call, Idle, Fields
  <2>2. run' = [run EXCEPT ![u] = r] /\ UNCHANGED heapVars
    BY <1>1 DEF execute
  <2> HIDE DEF r
  <2> QED
    BY Zenon, <2>1, <2>2, CallReplaced
<1>2. ASSUME NEW u \in User, Step(u) PROVE RunInv' /\ [HeapNext]_heapVars
  BY <1>2, StatementStep
<1>3. ASSUME NEW u \in User, outOfMemory(u) PROVE RunInv' /\ [HeapNext]_heapVars
  BY Zenon, <1>3, CallEnds DEF outOfMemory, Throw, Ended, HeapNext
<1>4. ASSUME NEW u \in User, TimeOut(u) PROVE RunInv' /\ [HeapNext]_heapVars
  BY <1>4, CallStays DEF TimeOut
<1>5. ASSUME NEW t \in Ids, Expire(t) PROVE RunInv' /\ [HeapNext]_heapVars
  BY <1>5, CallStays DEF Expire
<1>6. CASE detect
  BY <1>6, CallStays DEF detect
<1>7. CASE UNCHANGED vars
  BY <1>7, CallStays DEF vars
<1> QED
  BY SMTT(30), <1>1, <1>2, <1>3, <1>4, <1>5, <1>6, <1>7 DEF Next

\* The executor implements the specification of the heap's users (getTable,
\* insertRecord, BTree::BTree and the end of a statement).
THEOREM UsesHeap == Spec => HeapSpec
<1>1. Init => HeapInit
  BY DEF Init
<1>2. EngineInv /\ [Next]_vars => EngineInv' /\ [HeapNext]_heapVars
  BY EngineStep, HeapStep DEF EngineInv
<1> QED
  BY EngineInitially, <1>1, <1>2, PTL DEF Spec, HeapSpec

\* In the whole engine, whatever statements the users send and however failures
\* and threads interleave, no INSERT ever stores a record and the lists of
\* pages stay apart (Page::hasSpaceFor, Table::appendNewPage).
THEOREM NothingStoredByEngine == Spec => [](NothingStored /\ ListsApart)
BY UsesHeap, HeapCorrect, PTL
=============================================================================
