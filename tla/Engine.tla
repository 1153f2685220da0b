------------------------------- MODULE Engine -------------------------------
(***************************************************************************)
(* engine/query_executor.cpp and engine/optimizer.cpp: statements, from    *)
(* execute() to its answer, composed with the TransactionManager, the      *)
(* Catalog and the Heap.                                                   *)
(*                                                                         *)
(* Users are threads that call execute(sql) with statements that parse.    *)
(* Each statement runs in a transaction of its own.  An exception passes   *)
(* both commit and abort and becomes the answer ERROR.  A null pointer     *)
(* that is followed ends the process (a join has no right child; a table   *)
(* can be gone when CREATE INDEX asks for it again).  index_ of an index   *)
(* scan is null too, but end() may do without it: the scan is empty, or    *)
(* the process ends.                                                       *)
(*                                                                         *)
(* Left out: EXPLAIN, whose mode nothing sets; the schema pointer that     *)
(* getTable returns and another thread may free; the loops over records    *)
(* of UPDATE, DELETE and CREATE INDEX, which have none (NothingStored);    *)
(* expressions, of which only conditions and their selectivity matter.     *)
(***************************************************************************)
EXTENDS Heap, FiniteSets

CONSTANTS Detector, Main, None, RelockOutcomes,  \* as in TransactionManager
          MaxId, MaxLog,
          TableNames, Column, MaxTableId, MaxIndexId, Absent, Torn, \* Catalog
          Limits,         \* what setMaxTransactions may have been given
          FirstTables,    \* the tables that catalog.json holds at the start
          Statements,     \* the statements users send
          InvalidRow,     \* a row that validateRecord refuses
          MaxRows,        \* bound: rows counted, more look the same
          MaxStatements   \* bound: calls of execute

ASSUME StatementsAssumption ==
  \A s \in Statements :
    /\ \A i \in DOMAIN s.rows : s.rows[i] = InvalidRow \/ s.rows[i] \in Nat
    /\ s.op = "INSERT" => 1 \in DOMAIN s.rows

VARIABLES active, completed, state, nextId, log, mutex, pc, cur, phase  \* transactions
VARIABLES tables, tableIdMap, indexes, indexIdMap, tableIndexes, nextTableId,
          nextIndexId, drawn, stuck                          \* the catalog
VARIABLES run,       \* the statement of each user and how far it is
          late,      \* transactions older than deadlock_timeout_ms_
          timedOut,  \* users whose statement is older than its timeout
          outcome,   \* the answer of each transaction's statement (history)
          maxTransactions,  \* max_transactions_
          started    \* calls of execute

transactionVars == <<active, completed, state, nextId, log, mutex, pc, cur, phase>>
catalogVars == <<tables, tableIdMap, indexes, indexIdMap, tableIndexes,
                 nextTableId, nextIndexId, drawn, stuck>>
clockVars == <<late, timedOut>>
callVars == <<maxTransactions, started>>
vars == <<transactionVars, catalogVars, heapVars, clockVars, run, outcome, callVars>>

Ids == 1..MaxId
Empty == [x \in {} |-> 0]

TM == INSTANCE TransactionManager WITH
  Client <- User, SpNames <- {}, Expiry <- TRUE, MaxCompleted <- MaxId,
  MaxTransactions <- MaxId,  \* a limit is in execute
  MaxSavepoints <- 0, savepoints <- [t \in Ids |-> <<>>],
  statActive <- Cardinality(active),
  listed <- {}  \* the checkpoint thread is left out

Cat == INSTANCE Catalog WITH
  IndexNames <- TableNames, ColumnNames <- {Column}, ConstraintNames <- {},
  ViewNames <- {}, SequenceNames <- {}, SequenceInfos <- {}, Clients <- User,
  RelockOutcomes <- {IF r = "throws" THEN "throw" ELSE "block" : r \in RelockOutcomes},
  MaxInt <- 0, MaxListed <- 0,
  \* No statement reaches these, nor the catalog's file.
  constraints <- [x \in {} |-> 0], tableConstraints <- [x \in {} |-> 0],
  sequences <- [x \in {} |-> 0], views <- [x \in {} |-> 0],
  directories <- {}, file <- {}, saving <- ~TRUE

-----------------------------------------------------------------------------
(* execute() *)

NoWhere == [op |-> "none", left |-> "none", right |-> "none"]

\* A statement has every field; those its kind lacks keep these values.
Blank == [op |-> "NONE", table |-> "", rows |-> <<>>, key |-> FALSE,
          where |-> NoWhere, join |-> FALSE, order |-> FALSE, limit |-> 0]

\* The iterator that SeqScanOperator::open makes.
Placeholder == [page |-> 0, slot |-> 0]

NoPlan == [source |-> "none", join |-> FALSE, sort |-> FALSE, limit |-> 0]

Idle == [stmt |-> Blank, at |-> "idle", status |-> "none", plan |-> NoPlan,
         iter |-> Placeholder, sorted |-> 0, done |-> 0]

Init ==
  /\ HeapInit
  /\ active = {} /\ completed = {} /\ state = [t \in Ids |-> "none"] /\ nextId = 1 /\ log = <<>>
  /\ mutex = None /\ phase = "up"
  /\ pc = [u \in User |-> "idle"] /\ cur = [u \in User |-> None]
  /\ tables = [n \in DOMAIN FirstTables |-> [id |-> FirstTables[n], indexes |-> Empty]]
  /\ tableIdMap = [i \in {FirstTables[n] : n \in DOMAIN FirstTables} |->
                     CHOOSE n \in DOMAIN FirstTables : FirstTables[n] = i]
  /\ indexes = Empty /\ indexIdMap = Empty /\ tableIndexes = Empty
  /\ nextTableId = 1 + Cardinality(DOMAIN FirstTables) /\ nextIndexId = 1
  /\ drawn = [u \in User |-> 0] /\ stuck = FALSE
  /\ run = [u \in User |-> Idle]
  /\ late = {} /\ timedOut = {}
  /\ outcome = [t \in Ids |-> "none"]
  /\ maxTransactions \in Limits /\ started = 0

\* begin() returns null at max_transactions_, and the statement runs without.
execute(u, statement) ==
  /\ run[u].at = "idle" /\ started < MaxStatements
  /\ IF Cardinality(active) < maxTransactions THEN TM!Begin(u)
     ELSE TM!Free /\ UNCHANGED transactionVars
  /\ run' = [run EXCEPT ![u] = [Idle EXCEPT !.stmt = statement, !.at = "begun"]]
  /\ started' = started + 1
  /\ UNCHANGED <<catalogVars, heapVars, clockVars, outcome, maxTransactions>>

At(u, where) == phase = "up" /\ run[u].at = where
Op(u) == run[u].stmt.op
Name(u) == run[u].stmt.table

\* The thread goes on at `where`; its status is known; it waits for itself.
Goto(u, where) == run' = [run EXCEPT ![u].at = where]
Answer(u, status) == run' = [run EXCEPT ![u].at = "finish", ![u].status = status]
Lasting == UNCHANGED <<transactionVars, clockVars, outcome>>

\* execute() returns.
Ended(u, how) ==
  /\ run' = [run EXCEPT ![u] = Idle]
  /\ timedOut' = timedOut \ {u}
  /\ outcome' = IF cur[u] = None THEN outcome ELSE [outcome EXCEPT ![cur[u]] = how]
  /\ UNCHANGED late

\* An exception: the transaction is neither committed nor aborted.
Throw(u) ==
  /\ Ended(u, "ERROR")
  /\ pc' = [pc EXCEPT ![u] = "idle"] /\ cur' = [cur EXCEPT ![u] = None]
  /\ UNCHANGED <<active, completed, state, nextId, log, mutex, phase>>

Crash ==
  /\ phase' = "terminated"
  /\ UNCHANGED <<active, completed, state, nextId, log, mutex, pc, cur, clockVars, outcome, run>>

\* Mutant: every statement is committed.
FinalCallCommit(status) == "committing"

\* commit if the status is OK, abort if not.
FinalCall(status) == IF status = "OK" THEN "committing" ELSE "aborting"

finish(u) ==
  /\ At(u, "finish")
  /\ IF cur[u] = None
     THEN Ended(u, run[u].status) /\ forget(u) /\ UNCHANGED transactionVars
     ELSE /\ TM!Enter(u, FinalCall(run[u].status)) /\ Goto(u, "ending")
          /\ UNCHANGED <<heapVars, clockVars, outcome>>
  /\ UNCHANGED <<catalogVars, callVars>>

commit(u) ==
  /\ At(u, "ending") /\ TM!Commit(u)
  /\ UNCHANGED <<catalogVars, heapVars, clockVars, run, outcome, callVars>>

committed(u) ==
  /\ At(u, "ending") /\ TM!CommitReturn(u) /\ pc'[u] = "idle"
  /\ Ended(u, run[u].status) /\ forget(u)
  /\ UNCHANGED <<catalogVars, callVars>>

\* abort throws, or its thread keeps mutex_ for ever.
abort(u) ==
  /\ At(u, "ending") /\ TM!Abort(u)
  /\ IF pc'[u] = "idle" THEN Ended(u, "ERROR") /\ forget(u)
     ELSE Goto(u, "hung") /\ UNCHANGED <<heapVars, clockVars, outcome>>
  /\ UNCHANGED <<catalogVars, callVars>>

-----------------------------------------------------------------------------
(* SELECT *)

\* The statistics of every column.
DistinctValues == 100

\* estimateSelectivity of a comparison of the column, in thousandths.
Selectivity(op) ==
  CASE op = "EQ" -> 1000 \div DistinctValues
    [] op = "LIKE" -> 50
    [] op \in {"LT", "LE", "GT", "GE"} -> 300
    [] OTHER -> 500

\* Of a condition, in millionths.
estimateSelectivity(where) ==
  LET l == Selectivity(where.left)
      r == Selectivity(where.right)
  IN  CASE where.op = "AND" -> l * r
        [] where.op = "OR" -> 1000 * (l + r) - l * r
        [] OTHER -> 1000 * Selectivity(where.op)

Comparisons == {"EQ", "NE", "LIKE", "LT", "LE", "GT", "GE"}

\* The index on the column exists and the condition mentions the column.
findUsableIndexes(name, where) ==
  IF name \notin DOMAIN tables THEN {}
  ELSE {c \in DOMAIN tables[name].indexes :
          {where.op, where.left, where.right} \cap Comparisons # {}}

\* INDEX_SELECTIVITY_THRESHOLD is 0.2.
shouldUseIndex(where) == estimateSelectivity(where) < 200000

\* LIMIT over SORT over PROJECT over JOIN over the scan of the first table.
logicalOptimization(s) ==
  [source |-> IF s.where # NoWhere /\ findUsableIndexes(s.table, s.where) # {}
                 /\ shouldUseIndex(s.where)
              THEN "INDEX_SCAN" ELSE "SEQ_SCAN",
   join |-> s.join, sort |-> s.order, limit |-> s.limit]

\* The rules and the search for alternatives find no other plan.

optimize(u) ==
  /\ At(u, "begun") /\ Op(u) = "SELECT" /\ ~stuck
  /\ run' = [run EXCEPT ![u].plan = logicalOptimization(run[u].stmt),
                        ![u].at = "planned"]
  /\ UNCHANGED <<catalogVars, heapVars, callVars>> /\ Lasting

\* open() of either scan.
ScanOpens(u) == Name(u) \in DOMAIN tables

\* JoinOperator::open, after its left child: the right one is null.
JoinOpens(u) == ~run[u].plan.join

\* root->open(), down to the scan and up again.
open(u) ==
  /\ At(u, "planned") /\ ~stuck
  /\ \/ ~ScanOpens(u) /\ Answer(u, "NOT_FOUND") /\ Lasting
     \/ ScanOpens(u) /\ ~JoinOpens(u) /\ Crash
     \/ /\ ScanOpens(u) /\ JoinOpens(u) /\ Lasting
        /\ Goto(u, IF run[u].plan.sort THEN "sorting" ELSE "fetching")
  /\ UNCHANGED <<catalogVars, heapVars, callVars>>

\* Mutant: operator== compares the pages only.
AtEndPage(iter) == iter.page = NoPage

\* iterator_ == TableIterator(nullptr, INVALID_PAGE_ID, 0).
AtEnd(iter) == iter = [page |-> NoPage, slot |-> 0]

\* operator++ of an iterator without a page.
Incremented(iter) ==
  IF iter.page = NoPage THEN iter ELSE [page |-> NoPage, slot |-> iter.slot + 1]

\* next() of the scans.
SeqScanNext(iter) == IF AtEnd(iter) THEN {"end"} ELSE {"row"}
IndexScanNext == {"end", "crash"}
ScanNext(u) ==
  IF run[u].plan.source = "SEQ_SCAN" THEN SeqScanNext(run[u].iter) ELSE IndexScanNext

Counted(n) == IF n < MaxRows THEN n + 1 ELSE n

\* SortOperator::open takes all rows of its child.
sort(u) ==
  /\ At(u, "sorting")
  /\ \/ /\ "row" \in ScanNext(u)
        /\ run' = [run EXCEPT ![u].sorted = Counted(@), ![u].iter = Incremented(@)]
        /\ Lasting
     \/ "end" \in ScanNext(u) /\ Goto(u, "fetching") /\ Lasting
     \/ "crash" \in ScanNext(u) /\ Crash
  /\ UNCHANGED <<catalogVars, heapVars, callVars>>

SortNext(u) == IF run[u].done < run[u].sorted THEN {"row"} ELSE {"end"}

\* next() of the root, under LimitOperator::next if there is a limit.
RootNext(u) ==
  IF run[u].plan.limit > 0 /\ run[u].done >= run[u].plan.limit THEN {"end"}
  ELSE IF run[u].plan.sort THEN SortNext(u) ELSE ScanNext(u)

\* Mutant: the timeout is not looked at.
OverdueNever(u) == FALSE

\* checkTimeout().
Overdue(u) == u \in timedOut

\* A turn of the loop of executeSelect, which answers OK however it ends.
fetch(u) ==
  /\ At(u, "fetching")
  /\ \/ /\ "row" \in RootNext(u)
        /\ run' = [run EXCEPT ![u].done = Counted(@), ![u].iter = Incremented(@),
                              ![u].at = IF Overdue(u) THEN "finish" ELSE @,
                              ![u].status = IF Overdue(u) THEN "OK" ELSE @]
        /\ Lasting
     \/ "end" \in RootNext(u) /\ Answer(u, "OK") /\ Lasting
     \/ "crash" \in RootNext(u) /\ Crash
  /\ UNCHANGED <<catalogVars, heapVars, callVars>>

\* std::bad_alloc in either loop.
outOfMemory(u) ==
  /\ At(u, "sorting") \/ At(u, "fetching")
  /\ run[u].sorted = MaxRows \/ run[u].done = MaxRows
  /\ Throw(u) /\ forget(u)
  /\ UNCHANGED <<catalogVars, callVars>>

-----------------------------------------------------------------------------
(* INSERT, UPDATE, DELETE *)

\* getTable: a new Table object for each statement.
getTable(u) ==
  /\ At(u, "begun") /\ Op(u) \in {"INSERT", "UPDATE", "DELETE"} /\ ~stuck
  /\ IF Name(u) \in DOMAIN tables
     THEN openTable(u, ZeroFound(tables[Name(u)].id)) /\ Goto(u, "table")
     ELSE Answer(u, "NOT_FOUND") /\ UNCHANGED heapVars
  /\ UNCHANGED <<catalogVars, callVars>> /\ Lasting

\* A row of executeInsert, which stops at the first that is not stored.
executeInsert(u) ==
  LET row == run[u].stmt.rows[run[u].done + 1]
      last == run[u].done + 1 = Len(run[u].stmt.rows)
  IN  /\ At(u, "table") /\ Op(u) = "INSERT" /\ Opened(u)
      /\ IF row = InvalidRow THEN Answer(u, "ERROR") /\ UNCHANGED heapVars
         ELSE /\ insertRow(u, row)
              /\ IF ~Stored(u, row) THEN Answer(u, "ERROR")
                 ELSE IF last THEN Answer(u, "OK")
                 ELSE run' = [run EXCEPT ![u].done = @ + 1]
      /\ UNCHANGED <<catalogVars, callVars>> /\ Lasting

executeScan(u) ==
  /\ At(u, "table") /\ Op(u) \in {"UPDATE", "DELETE"} /\ Opened(u) /\ ScanEnds(u)
  /\ Answer(u, "OK")
  /\ UNCHANGED <<catalogVars, heapVars, callVars>> /\ Lasting

-----------------------------------------------------------------------------
(* CREATE TABLE, CREATE INDEX, DROP TABLE *)

drawTableId(u) ==
  /\ At(u, "begun") /\ Op(u) = "CREATE_TABLE"
  /\ Cat!getNextTableId(u) /\ Goto(u, "drawn")
  /\ UNCHANGED <<heapVars, callVars>> /\ Lasting

\* The catalog's status is ignored; creating the directory may throw.
executeCreateTable(u) ==
  /\ At(u, "drawn") /\ ~stuck
  /\ IF Name(u) \in DOMAIN tables
     THEN /\ drawn' = [drawn EXCEPT ![u] = 0]
          /\ UNCHANGED <<tables, tableIdMap, indexes, indexIdMap, tableIndexes,
                         nextTableId, nextIndexId, stuck>>
     ELSE Cat!createTable(u, Name(u))
  /\ \/ run[u].stmt.key /\ Goto(u, "indexing") /\ Lasting
     \/ ~run[u].stmt.key /\ Answer(u, "OK") /\ Lasting
     \/ Name(u) \notin DOMAIN tables /\ Throw(u)
  /\ UNCHANGED <<heapVars, callVars>>

findTable(u) ==
  /\ At(u, "begun") /\ Op(u) = "CREATE_INDEX" /\ ~stuck
  /\ IF Name(u) \in DOMAIN tables THEN Goto(u, "indexing") ELSE Answer(u, "NOT_FOUND")
  /\ UNCHANGED <<catalogVars, heapVars, callVars>> /\ Lasting

\* catalog_->createIndex(table, column): the index has the table's name.  The
\* status is ignored.
createIndex(u) ==
  /\ At(u, "indexing") /\ ~stuck
  /\ IF Name(u) \in DOMAIN indexes \/ Name(u) \notin DOMAIN tables
     THEN UNCHANGED catalogVars
     ELSE Cat!createIndex(Name(u), Name(u), {Column})
  /\ IF Op(u) = "CREATE_TABLE" THEN Answer(u, "OK") ELSE Goto(u, "indexed")
  /\ UNCHANGED <<heapVars, callVars>> /\ Lasting

\* getTable again: null when the table has gone.
getIndexedTable(u) ==
  /\ At(u, "indexed") /\ ~stuck
  /\ IF Name(u) \in DOMAIN tables
     THEN openTable(u, ZeroFound(tables[Name(u)].id)) /\ Goto(u, "building") /\ Lasting
     ELSE Crash /\ UNCHANGED heapVars
  /\ UNCHANGED <<catalogVars, callVars>>

\* getIndex, the BTree, and the loop over the table's records.
IndexOf(name) ==
  IF name \in DOMAIN tables /\ Column \in DOMAIN tables[name].indexes
  THEN tables[name].indexes[Column] ELSE 0

buildIndex(u) ==
  /\ At(u, "building") /\ Opened(u) /\ ScanEnds(u) /\ ~stuck
  /\ openIndex(ZeroFound(IndexOf(Name(u))))
  /\ Answer(u, "OK")
  /\ UNCHANGED <<catalogVars, callVars>> /\ Lasting

\* The status is ignored; removing the directory may throw, and so may the
\* second locking of the catalog's mutex.
executeDropTable(u) ==
  /\ At(u, "begun") /\ Op(u) = "DROP_TABLE" /\ ~stuck
  /\ \/ /\ Name(u) \notin DOMAIN tables
        /\ UNCHANGED catalogVars /\ Answer(u, "OK") /\ Lasting
     \/ Cat!dropTable(Name(u)) /\ Answer(u, "OK") /\ Lasting
     \/ Cat!dropTable(Name(u)) /\ Throw(u)
     \/ Cat!dropTableRelocks(Name(u)) /\ ~stuck' /\ Throw(u)
     \/ Cat!dropTableRelocks(Name(u)) /\ stuck' /\ Goto(u, "hung") /\ Lasting
  /\ UNCHANGED <<heapVars, callVars>>

-----------------------------------------------------------------------------
(* The other statements, the clock and the detector *)

\* executeBegin, executeCommit and executeRollback do nothing; a kind of
\* statement that execute does not know is an ERROR.
OtherStatus(op) == IF op \in {"BEGIN", "COMMIT", "ROLLBACK"} THEN "OK" ELSE "ERROR"

executeOther(u) ==
  /\ At(u, "begun") /\ Op(u) \in {"BEGIN", "COMMIT", "ROLLBACK", "OTHER"}
  /\ Answer(u, OtherStatus(Op(u)))
  /\ UNCHANGED <<catalogVars, heapVars, callVars>> /\ Lasting

\* What may take seconds: a scan, a wait for the catalog's mutex that its owner
\* waits for, a constructor that does not return.
Slow(u) == run[u].at \in {"sorting", "fetching"} \/ stuck \/ handle[u] = Spinning

\* Five seconds after a transaction's begin, its statement being slow or over.
Expire(t) ==
  /\ phase = "up" /\ t \in active \ late
  /\ \A u \in User : cur[u] = t => Slow(u)
  /\ late' = late \cup {t}
  /\ UNCHANGED <<transactionVars, catalogVars, heapVars, timedOut, run, outcome, callVars>>

\* Thirty seconds after a statement's begin.
TimeOut(u) ==
  /\ phase = "up" /\ run[u].at \in {"sorting", "fetching"} /\ u \notin timedOut
  /\ cur[u] \in late \cup {None}
  /\ timedOut' = timedOut \cup {u}
  /\ UNCHANGED <<transactionVars, catalogVars, heapVars, late, run, outcome, callVars>>

\* Mutant: the detector looks at the transactions of running statements only.
ExpiredRunning == active \cap late \cap {cur[u] : u \in User}

\* isExpired, of the transactions cleanupExpiredTransactions goes through.
Expired == active \cap late

detect ==
  /\ Expired # {} /\ TM!DetectExpired
  /\ UNCHANGED <<catalogVars, heapVars, clockVars, run, outcome, callVars>>

-----------------------------------------------------------------------------
Step(u) ==
  \/ finish(u) \/ commit(u) \/ committed(u) \/ abort(u)
  \/ optimize(u) \/ open(u) \/ sort(u) \/ fetch(u)
  \/ getTable(u) \/ executeInsert(u) \/ executeScan(u)
  \/ drawTableId(u) \/ executeCreateTable(u)
  \/ findTable(u) \/ createIndex(u) \/ getIndexedTable(u) \/ buildIndex(u)
  \/ executeDropTable(u) \/ executeOther(u)

Next ==
  \/ \E u \in User, statement \in Statements : execute(u, statement)
  \/ \E u \in User : Step(u) \/ outOfMemory(u) \/ TimeOut(u)
  \/ \E t \in Ids : Expire(t)
  \/ detect

Spec == Init /\ [][Next]_vars

\* Threads run, time passes, and the detector wakes up every second.
Fairness ==
  /\ \A u \in User : WF_vars(Step(u))
  /\ WF_vars((\E u \in User : TimeOut(u)) \/ \E t \in Ids : Expire(t))
  /\ WF_vars(detect)

FairSpec == Spec /\ Fairness

-----------------------------------------------------------------------------
(* Properties *)

Points == {"idle", "begun", "planned", "sorting", "fetching", "table", "drawn",
           "indexing", "indexed", "building", "finish", "ending", "hung"}

\* The type invariant; a statement that is over has a status.
TypeOK ==
  /\ active \subseteq Ids /\ late \subseteq Ids /\ timedOut \subseteq User
  /\ phase \in {"up", "terminated"} /\ mutex \in User \cup {Detector, None}
  /\ outcome \in [Ids -> {"none", "OK", "ERROR", "NOT_FOUND"}]
  /\ DOMAIN tables \subseteq TableNames /\ DOMAIN indexes \subseteq TableNames
  /\ \A u \in User :
       /\ run[u].at \in Points
       /\ run[u].status \in {"none", "OK", "ERROR", "NOT_FOUND"}
       /\ run[u].at \in {"finish", "ending"} <=> run[u].status # "none" /\ run[u].at # "hung"
       /\ run[u].sorted \in 0..MaxRows /\ run[u].done \in 0..MaxRows

\* What a statement answers and what becomes of its transaction agree, with two
\* users, the detector and every kind of failure: OK exactly when it is
\* committed, and a statement that fails leaves it active for ever.
AnswersLogged ==
  /\ TypeOK
  /\ \A t \in Ids : outcome[t] = "OK" =>
       state[t] = "COMMITTED" /\ TM!Rec("COMMIT", t) \in {log[i] : i \in DOMAIN log}
  /\ \A t \in Ids : outcome[t] \in {"ERROR", "NOT_FOUND"} => t \in active
  /\ \A t \in active : outcome[t] = "ERROR" \/ \E u \in User : cur[u] = t

\* A SELECT over a sequential scan that answers OK has no ORDER BY, and has the
\* LIMIT's number of rows or has used up its time: nothing else ends the scan.
EndsByLimitOrTimeout ==
  \A u \in User :
    run[u].at = "finish" /\ run[u].plan.source = "SEQ_SCAN" /\ run[u].status = "OK" =>
      /\ ~run[u].plan.sort
      /\ u \in timedOut \/ (run[u].plan.limit > 0 /\ run[u].done = run[u].plan.limit)

\* A statement returns, or the engine stops: the detector meets the transaction
\* of one that does not, and locks mutex_ twice.  Only a statement that began at
\* max_transactions_, and so has no transaction, may stay for ever: when it
\* sorts, waits for a mutex of the catalog that is lost, or follows page 0 to
\* itself.
StatementsReturn ==
  \A u \in User :
    run[u].at # "idle" ~>
      \/ run[u].at = "idle" \/ ~TM!Free
      \/ cur[u] = None /\ (run[u].plan.sort \/ stuck \/ handle[u] = Spinning)

\* One failed statement stops the engine: the transaction it leaves behind
\* expires, and the detector that aborts it locks mutex_ twice.
FailureStops == (\E t \in Ids : outcome[t] = "ERROR") ~> ~TM!Free

\* "Finalizar transação se foi criada aqui": the transaction of a statement that
\* has returned is over.
TransactionsFinalised ==
  \A t \in active : \E u \in User : cur[u] = t /\ run[u].at # "idle"
=============================================================================
