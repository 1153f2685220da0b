------------------------- MODULE TransactionManager -------------------------
(***************************************************************************)
(* transaction/transaction_manager.{h,cpp} and the checkpoint writer of    *)
(* transaction/checkpoint.cpp.                                             *)
(*                                                                         *)
(* Client threads begin, commit, abort and set savepoints, one transaction *)
(* each at a time; the detector thread started by the constructor wakes up *)
(* once a second; the checkpoint thread lists the active transactions and  *)
(* then writes its record.  What runs under mutex_ is one step.  abort and *)
(* the detector lock mutex_ again while they hold it.                      *)
(*                                                                         *)
(* lock_manager_ is private and nothing in the class acquires a lock, so   *)
(* its wait-for graph is empty and the detector's only victims are expired *)
(* transactions.  The log is the sequence of the appended records; a       *)
(* record's LSN is its index.                                              *)
(***************************************************************************)
EXTENDS Integers, Sequences, FiniteSets

CONSTANTS Client,          \* client threads
          Detector,        \* the deadlock detector's thread
          Main,            \* the thread that runs the destructor
          None,
          SpNames,         \* savepoint names
          RelockOutcomes,  \* locking an owned mutex "blocks" or "throws"
          Expiry,          \* TRUE: transactions may outlive the 5 s timeout
          MaxTransactions, \* max_transactions_ (1000)
          MaxCompleted,    \* MAX_COMPLETED (10000)
          MaxId,           \* bound: transactions begun
          MaxLog,          \* bound: log records
          MaxSavepoints    \* bound: savepoints of one transaction

ASSUME ThreadAssumption ==
  /\ Cardinality({Detector, Main, None} \cup Client) = Cardinality(Client) + 3
  /\ RelockOutcomes \subseteq {"blocks", "throws"}
  /\ Expiry \in BOOLEAN
ASSUME BoundsAssumption ==
  {MaxTransactions, MaxCompleted, MaxId, MaxLog, MaxSavepoints} \subseteq Nat

Ids == 1..MaxId

VARIABLES
  active,      \* ids in active_transactions_
  completed,   \* ids in completed_transactions_
  state,       \* state_ of every Transaction object made so far
  savepoints,  \* savepoints_: id -> sequence of names
  nextId,      \* next_tx_id_
  log,         \* records appended to the log
  statActive,  \* stats_.active_transactions
  mutex,       \* the thread that owns mutex_ for ever, or None
  pc, cur,     \* where each client is, and its Transaction*
  listed,      \* the checkpoint thread's active_txs, None when it has none
  phase        \* "up", "down" (destroyed), "terminated" (uncaught exception)

vars == <<active, completed, state, savepoints, nextId, log, statActive, mutex,
          pc, cur, listed, phase>>

Rec(type, t) == [type |-> type, tx |-> t, txs |-> {}]

\* appendLogRecord.  The bound leaves room for the COMMITs to come.
Append1(r) == Len(log) < MaxLog /\ log' = Append(log, r)

\* mutex_ can be taken, and the process lives.
Free == mutex = None /\ phase = "up"

Init ==
  /\ active = {} /\ completed = {}
  /\ state = [i \in Ids |-> "none"]
  /\ savepoints = [i \in Ids |-> <<>>]
  /\ nextId = 1
  /\ log = <<>>
  /\ statActive = 0
  /\ mutex = None
  /\ pc = [c \in Client |-> "idle"]
  /\ cur = [c \in Client |-> None]
  /\ listed = None
  /\ phase = "up"

-----------------------------------------------------------------------------
(* Client operations.                                                      *)

\* The client has no Transaction*, or one that is over.
CanBegin(c) == pc[c] = "idle" \/ (pc[c] = "open" /\ state[cur[c]] # "ACTIVE")

\* begin(); at max_transactions_ it returns nullptr and changes nothing.
Begin(c) ==
  /\ Free
  /\ CanBegin(c)
  /\ Cardinality(active) < MaxTransactions
  /\ nextId <= MaxId
  /\ Append1(Rec("BEGIN", nextId))
  /\ active' = active \cup {nextId}
  /\ state' = [state EXCEPT ![nextId] = "ACTIVE"]
  /\ nextId' = nextId + 1
  /\ statActive' = statActive + 1
  /\ pc' = [pc EXCEPT ![c] = "open"]
  /\ cur' = [cur EXCEPT ![c] = nextId]
  /\ UNCHANGED <<completed, savepoints, mutex, listed, phase>>

\* The state check of commit and abort, made before mutex_ is taken.
Enter(c, where) ==
  /\ phase = "up"
  /\ pc[c] = "open"
  /\ state[cur[c]] = "ACTIVE"
  /\ pc' = [pc EXCEPT ![c] = where]
  /\ UNCHANGED <<active, completed, state, savepoints, nextId, log, statActive,
                 mutex, cur, listed, phase>>

\* archiveCompletedTransaction: past the limit the one that started first goes,
\* and with it the Transaction object.  Ids are given in start order.
archiveCompletedTransaction(t) ==
  LET all == completed \cup {t}
      oldest == CHOOSE i \in all : \A j \in all : i <= j
  IN  completed' = IF Cardinality(all) > MaxCompleted THEN all \ {oldest} ELSE all

\* Mutant: the transaction stays in active_transactions_.
CommitKeepsActive(c) ==
  /\ Free
  /\ pc[c] = "committing"
  /\ log' = Append(log, Rec("COMMIT", cur[c]))
  /\ state' = [state EXCEPT ![cur[c]] = "COMMITTED"]
  /\ archiveCompletedTransaction(cur[c])
  /\ statActive' = statActive - 1
  /\ pc' = [pc EXCEPT ![c] = "timing"]
  /\ UNCHANGED <<active, savepoints, nextId, mutex, cur, listed, phase>>

\* The critical section of commit.
Commit(c) ==
  /\ Free
  /\ pc[c] = "committing"
  /\ log' = Append(log, Rec("COMMIT", cur[c]))
  /\ state' = [state EXCEPT ![cur[c]] = "COMMITTED"]
  /\ IF cur[c] \in active
       THEN archiveCompletedTransaction(cur[c]) /\ active' = active \ {cur[c]}
       ELSE UNCHANGED <<active, completed>>
  /\ statActive' = statActive - 1
  /\ pc' = [pc EXCEPT ![c] = "timing"]
  /\ UNCHANGED <<savepoints, nextId, mutex, cur, listed, phase>>

\* commit reads tx->getStartTime() for the statistics, and returns.  The client
\* forgets the pointer, or keeps it while the object lives.
CommitReturn(c) ==
  /\ phase = "up"
  /\ pc[c] = "timing"
  /\ \/ pc' = [pc EXCEPT ![c] = "idle"] /\ cur' = [cur EXCEPT ![c] = None]
     \/ pc' = [pc EXCEPT ![c] = "open"] /\ cur[c] \in completed /\ UNCHANGED cur
  /\ UNCHANGED <<active, completed, state, savepoints, nextId, log, statActive,
                 mutex, listed, phase>>

\* The critical section of abort: undoTransaction -> getTransaction locks
\* mutex_, so nothing after it is reached.
Abort(c) ==
  /\ Free
  /\ pc[c] = "aborting"
  /\ \/ /\ "blocks" \in RelockOutcomes
        /\ mutex' = c
        /\ pc' = [pc EXCEPT ![c] = "hung"]
        /\ UNCHANGED cur
     \/ /\ "throws" \in RelockOutcomes
        /\ pc' = [pc EXCEPT ![c] = "idle"]
        /\ cur' = [cur EXCEPT ![c] = None]
        /\ UNCHANGED mutex
  /\ UNCHANGED <<active, completed, state, savepoints, nextId, log, statActive,
                 listed, phase>>

\* Mutant: savepoint() takes a transaction that is over.
SavepointUnchecked(c, n) ==
  /\ phase = "up"
  /\ pc[c] = "open"
  /\ Len(savepoints[cur[c]]) < MaxSavepoints
  /\ savepoints' = [savepoints EXCEPT ![cur[c]] = Append(@, n)]
  /\ Append1(Rec("SAVEPOINT", cur[c]))
  /\ UNCHANGED <<active, completed, state, nextId, statActive, mutex, pc, cur,
                 listed, phase>>

\* savepoint(): no mutex.
Savepoint(c, n) ==
  /\ phase = "up"
  /\ pc[c] = "open"
  /\ state[cur[c]] = "ACTIVE"
  /\ Len(savepoints[cur[c]]) < MaxSavepoints
  /\ savepoints' = [savepoints EXCEPT ![cur[c]] = Append(@, n)]
  /\ Append1(Rec("SAVEPOINT", cur[c]))
  /\ UNCHANGED <<active, completed, state, nextId, statActive, mutex, pc, cur,
                 listed, phase>>

\* The index of the first savepoint called n in s (find_if), or 0.
IndexOf(s, n) ==
  IF \E i \in DOMAIN s : s[i] = n
  THEN CHOOSE i \in DOMAIN s : s[i] = n /\ \A j \in 1..i-1 : s[j] # n
  ELSE 0

\* erase(it + 1, end()) and then pop_back().
rollbackTo(s, n) ==
  LET i == IndexOf(s, n) IN IF i = 0 THEN s ELSE SubSeq(s, 1, i - 1)

RollbackToSavepoint(c, n) ==
  /\ phase = "up"
  /\ pc[c] = "open"
  /\ state[cur[c]] = "ACTIVE"
  /\ savepoints' = [savepoints EXCEPT ![cur[c]] = rollbackTo(@, n)]
  /\ Append1(Rec("ROLLBACK_SAVEPOINT", cur[c]))
  /\ UNCHANGED <<active, completed, state, nextId, statActive, mutex, pc, cur,
                 listed, phase>>

ReleaseSavepoint(c, n) ==
  LET s == savepoints[cur[c]]
      i == IndexOf(s, n)
  IN  /\ phase = "up"
      /\ pc[c] = "open"
      /\ state[cur[c]] = "ACTIVE"
      /\ i # 0
      /\ savepoints' = [savepoints EXCEPT ![cur[c]] =
                          SubSeq(s, 1, i - 1) \o SubSeq(s, i + 1, Len(s))]
      /\ UNCHANGED <<active, completed, state, nextId, log, statActive, mutex, pc,
                     cur, listed, phase>>

\* Mutant: the list loses its first transaction.
CheckpointDropsFirst(c) ==
  /\ Free
  /\ pc[c] \in {"idle", "open"}
  /\ Append1([type |-> "CHECKPOINT", tx |-> 0,
              txs |-> {i \in active : \E j \in active : j < i}])
  /\ UNCHANGED <<active, completed, state, savepoints, nextId, statActive, mutex,
                 pc, cur, listed, phase>>

\* TransactionManager::checkpoint, all of it under mutex_.
Checkpoint(c) ==
  /\ Free
  /\ pc[c] \in {"idle", "open"}
  /\ Append1([type |-> "CHECKPOINT", tx |-> 0, txs |-> active])
  /\ UNCHANGED <<active, completed, state, savepoints, nextId, statActive, mutex,
                 pc, cur, listed, phase>>

-----------------------------------------------------------------------------
(* The other threads.                                                      *)

\* CheckpointManager::createCheckpoint asks for the active transactions ...
ListActive ==
  /\ Free
  /\ listed = None
  /\ listed' = active
  /\ UNCHANGED <<active, completed, state, savepoints, nextId, log, statActive,
                 mutex, pc, cur, phase>>

\* ... flushes the pages, and writes the list to the log, without mutex_.
WriteCheckpointRecord ==
  /\ phase = "up"
  /\ listed # None
  /\ Append1([type |-> "CM_CHECKPOINT", tx |-> 0, txs |-> listed])
  /\ listed' = None
  /\ UNCHANGED <<active, completed, state, savepoints, nextId, statActive, mutex,
                 pc, cur, phase>>

\* detectDeadlocks wakes up and finds an expired transaction: abort, called
\* with mutex_ held, locks it.  An exception leaves the thread's function.
DetectExpired ==
  /\ Free
  /\ Expiry
  /\ active # {}
  /\ \/ "blocks" \in RelockOutcomes /\ mutex' = Detector /\ UNCHANGED phase
     \/ "throws" \in RelockOutcomes /\ phase' = "terminated" /\ UNCHANGED mutex
  /\ UNCHANGED <<active, completed, state, savepoints, nextId, log, statActive,
                 pc, cur, listed>>

\* The destructor, when no client is in a call: it joins the detector, then
\* aborts what is active.  An exception in a destructor ends the process.
Destroy ==
  /\ Free
  /\ \A c \in Client : pc[c] \in {"idle", "open"}
  /\ \/ active = {} /\ phase' = "down" /\ UNCHANGED mutex
     \/ /\ active # {}
        /\ \/ "blocks" \in RelockOutcomes /\ mutex' = Main /\ UNCHANGED phase
           \/ "throws" \in RelockOutcomes /\ phase' = "terminated" /\ UNCHANGED mutex
  /\ UNCHANGED <<active, completed, state, savepoints, nextId, log, statActive,
                 pc, cur, listed>>

-----------------------------------------------------------------------------
Running(c) == Commit(c) \/ CommitReturn(c) \/ Abort(c)

Next ==
  \/ \E c \in Client :
       \/ Begin(c)
       \/ \E where \in {"committing", "aborting"} : Enter(c, where)
       \/ Running(c)
       \/ \E n \in SpNames : \/ Savepoint(c, n)
                             \/ RollbackToSavepoint(c, n)
                             \/ ReleaseSavepoint(c, n)
       \/ Checkpoint(c)
  \/ ListActive
  \/ WriteCheckpointRecord
  \/ DetectExpired
  \/ Destroy

Spec == Init /\ [][Next]_vars

\* A client inside commit or abort keeps running and is not starved at mutex_.
FairSpec == Spec /\ \A c \in Client : WF_vars(Running(c))

-----------------------------------------------------------------------------
(* Properties.                                                             *)

Records == [type : {"BEGIN", "COMMIT", "SAVEPOINT", "ROLLBACK_SAVEPOINT",
                    "CHECKPOINT", "CM_CHECKPOINT"},
            tx : Nat, txs : SUBSET Ids]

\* The type invariant; no transaction ever gets to ABORTED.
TypeOK ==
  /\ active \subseteq Ids /\ completed \subseteq Ids
  /\ state \in [Ids -> {"none", "ACTIVE", "COMMITTED"}]
  /\ savepoints \in [Ids -> Seq(SpNames)]
  /\ nextId \in 1..MaxId + 1
  /\ log \in Seq(Records)
  /\ statActive \in Nat
  /\ mutex \in Client \cup {Detector, Main, None}
  /\ pc \in [Client -> {"idle", "open", "committing", "aborting", "timing", "hung"}]
  /\ cur \in [Client -> Ids \cup {None}]
  /\ listed \in SUBSET Ids \cup {None}
  /\ phase \in {"up", "down", "terminated"}

\* The transactions a reader of the log finds active before record i.
ActiveBefore(i) ==
  {t \in Ids : /\ \E k \in 1..i-1 : log[k].type = "BEGIN" /\ log[k].tx = t
               /\ ~\E k \in 1..i-1 : log[k].type = "COMMIT" /\ log[k].tx = t}

\* active_transactions_, the objects' states, the counter in stats_ and the log
\* tell the same story, whatever the threads do: the log's BEGINs without COMMIT
\* are the active transactions.
ActiveAgrees ==
  /\ TypeOK
  /\ active = {i \in Ids : state[i] = "ACTIVE"}
  /\ active = ActiveBefore(Len(log) + 1)
  /\ statActive = Cardinality(active)

\* A transaction has one BEGIN and at most one COMMIT, and no record of it
\* precedes the one or follows the other, although savepoint() and the state
\* checks run without mutex_.
LogPerTransaction ==
  \A i, j \in DOMAIN log : log[i].tx # 0 /\ log[i].tx = log[j].tx /\ i < j =>
    log[j].type # "BEGIN" /\ log[i].type # "COMMIT"

\* The record of TransactionManager::checkpoint lists exactly the transactions
\* that are active at its place in the log.
CheckpointExact ==
  \A i \in DOMAIN log : log[i].type = "CHECKPOINT" => log[i].txs = ActiveBefore(i)

\* "Adicionar lista de transações ativas": the same of CheckpointManager.
ManagerCheckpointExact ==
  \A i \in DOMAIN log : log[i].type = "CM_CHECKPOINT" => log[i].txs = ActiveBefore(i)

\* "Manter apenas últimas N transações completadas": the transaction that has
\* just completed is kept, and so is the object its commit goes on to read.
JustCompletedKept ==
  [][\A c \in Client : Commit(c) /\ cur[c] \in active => cur[c] \in completed']_vars

\* "Remover savepoints posteriores": after a rollback to the last savepoint
\* nothing is later than it, so nothing is removed.
RollbackKeepsSavepoint ==
  [][\A c \in Client : \A n \in SpNames :
       RollbackToSavepoint(c, n) =>
         LET s == savepoints[cur[c]] IN
         IndexOf(s, n) = Len(s) => savepoints'[cur[c]] = s]_vars

\* commit returns, where the failed aborts of other threads give mutex_ back and
\* no transaction outlives the timeout.
CommitReturns ==
  \A c \in Client : pc[c] = "committing" ~> pc[c] \in {"idle", "open"}

\* "Fazer rollback das alterações": abort comes back.
AbortReturns == \A c \in Client : pc[c] = "aborting" ~> pc[c] = "idle"
=============================================================================
