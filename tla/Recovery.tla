------------------------------ MODULE Recovery ------------------------------
(***************************************************************************)
(* What recovery makes of a log: TransactionManager::recover (analysis,    *)
(* redo, undo) and CheckpointManager::recoverFromCheckpoint.               *)
(*                                                                         *)
(* First transactions write the log, with checkpoints and truncation; a    *)
(* crash keeps what was flushed and some of the rest.  Both recoveries     *)
(* then read log_buffer_, an unordered_map: they visit its records in      *)
(* whatever order it iterates in, the same in every pass.  Re-applying     *)
(* and undoing an operation are TODOs in the code; redone and losers say   *)
(* for what they are called.                                               *)
(***************************************************************************)
EXTENDS Integers, Sequences, FiniteSets

CONSTANTS Tx,             \* transaction ids, positive
          Pages,          \* pages that records are about
          None,           \* INVALID_PAGE_ID
          RelockOutcomes, \* what locking an owned std::mutex does
          MaxLog          \* bound: records in the log

ASSUME RecoveryAssumption ==
  /\ Tx \subseteq Nat \ {0}
  /\ None \notin Pages
  /\ RelockOutcomes \subseteq {"blocks", "throws"}
  /\ MaxLog \in Nat

VARIABLES
  log,      \* the records by LSN
  first,    \* the least LSN that truncate has left
  flushed,  \* the greatest LSN in the file
  order,    \* how log_buffer_ iterates after the restart, the LSNs it holds
  pc,       \* where TransactionManager::recover is
  txStates, \* tx_states, "none" for no entry
  redone,   \* the LSNs redoTransaction has re-applied
  losers,   \* active_txs
  ckpt,     \* the LSN findLastCheckpoint gives, 0 for none, -1 before
  ckRedone  \* the LSNs redoFromCheckpoint re-applies

vars == <<log, first, flushed, order, pc, txStates, redone, losers, ckpt, ckRedone>>

Rec(type, t, p) == [type |-> type, tx |-> t, page |-> p]
DataTypes == {"OPERATION"}  \* INSERT, UPDATE and DELETE, which no code here tells apart
EndTypes == {"COMMIT", "ABORT"}

Init ==
  /\ log = <<>> /\ first = 1 /\ flushed = 0
  /\ order = <<>>
  /\ pc = "running"
  /\ txStates = [t \in Tx |-> "none"]
  /\ redone = {} /\ losers = <<>>
  /\ ckpt = -1 /\ ckRedone = {}

-----------------------------------------------------------------------------
(* The log is written.                                                     *)

Has(t, types) == \E i \in DOMAIN log : log[i].tx = t /\ log[i].type \in types
Active(t) == Has(t, {"BEGIN"}) /\ ~Has(t, EndTypes)
recovering == <<order, pc, txStates, redone, losers, ckpt, ckRedone>>

Begin(t) ==
  /\ pc = "running" /\ Len(log) < MaxLog
  /\ ~Has(t, {"BEGIN"})
  /\ log' = Append(log, Rec("BEGIN", t, None))
  /\ UNCHANGED <<first, flushed, recovering>>

\* WALManager::logInsert, logUpdate, logDelete.
Log(t, type, p) ==
  /\ pc = "running" /\ Len(log) < MaxLog
  /\ Active(t)
  /\ log' = Append(log, Rec(type, t, p))
  /\ UNCHANGED <<first, flushed, recovering>>

\* commit; abort never comes to log its ABORT (see TransactionManager).
Commit(t) ==
  /\ pc = "running" /\ Len(log) < MaxLog
  /\ Active(t)
  /\ log' = Append(log, Rec("COMMIT", t, None))
  /\ UNCHANGED <<first, flushed, recovering>>

\* TransactionManager::checkpoint flushes the log.
Checkpoint ==
  /\ pc = "running" /\ Len(log) < MaxLog
  /\ log' = Append(log, Rec("CHECKPOINT", 0, None))
  /\ flushed' = Len(log')
  /\ UNCHANGED <<first, recovering>>

\* CheckpointManager::createCheckpoint truncates it, in memory.
CreateCheckpoint ==
  /\ pc = "running" /\ Len(log) < MaxLog
  /\ log' = Append(log, Rec("CHECKPOINT", 0, None))
  /\ first' = Len(log')
  /\ UNCHANGED <<flushed, recovering>>

\* The sequences in which log_buffer_ may iterate over a set of LSNs.
Orders(S) ==
  {o \in [1..Cardinality(S) -> S] : \A i, j \in DOMAIN o : i # j => o[i] # o[j]}

\* The LSNs log_buffer_ holds when the log starts at from and has n records.
Survives(from, n) == from..n

\* A crash: records after the flushed ones may be lost, and the file still has
\* the truncated ones.  Or recover() is called in the process that wrote them.
Crash ==
  /\ pc = "running"
  /\ pc' = "analysis"
  /\ \E n \in flushed..Len(log), from \in {1, first} :
       /\ log' = SubSeq(log, 1, n)
       /\ order' \in Orders(Survives(from, n))
  /\ UNCHANGED <<first, flushed, txStates, redone, losers, ckpt, ckRedone>>

-----------------------------------------------------------------------------
(* TransactionManager::recover.                                            *)

Greatest(S) == CHOOSE x \in S : \A y \in S : y <= x
Held == {order[i] : i \in DOMAIN order}
Checkpoints == {l \in Held : log[l].type = "CHECKPOINT"}

\* Mutant: the analysis starts at the beginning of the log.
checkpointIgnored == 0

\* checkpoint_lsn.
checkpointLsn == IF Checkpoints = {} THEN 0 ELSE Greatest(Checkpoints)

\* The positions in order of the records from the checkpoint on that P selects.
Visited(P(_)) ==
  {i \in DOMAIN order : order[i] >= checkpointLsn /\ P(log[order[i]])}

\* tx_states after the analysis: set by the last record visited.  "BEGIN"
\* stands for ACTIVE.
StateOf(t) ==
  LET v == Visited(LAMBDA r : r.tx = t /\ r.type \in {"BEGIN"} \cup EndTypes)
  IN  IF v = {} THEN "none" ELSE log[order[Greatest(v)]].type

\* tx_last_lsn and page_lsns, 0 for no entry.
lastLsn(t) ==
  LET v == Visited(LAMBDA r : r.tx = t /\ r.type \in {"BEGIN"} \cup DataTypes)
  IN  IF v = {} THEN 0 ELSE order[Greatest(v)]
pageLsn(p) ==
  LET v == Visited(LAMBDA r : r.page = p /\ r.page # None /\ r.type \in DataTypes)
  IN  IF v = {} THEN 0 ELSE order[Greatest(v)]

Analysis ==
  /\ pc = "analysis"
  /\ pc' = "redo"
  /\ txStates' = [t \in Tx |-> StateOf(t)]
  /\ UNCHANGED <<log, first, flushed, order, redone, losers, ckpt, ckRedone>>

\* Mutant: the state of the transaction is not looked at.
RedoesKnown(l) ==
  /\ log[l].type \in DataTypes
  /\ txStates[log[l].tx] # "none"
  /\ pageLsn(log[l].page) < l

\* The redo pass re-applies record l.
Redoes(l) ==
  /\ log[l].type \in DataTypes
  /\ txStates[log[l].tx] = "COMMIT"
  /\ pageLsn(log[l].page) < l

Redo ==
  /\ pc = "redo"
  /\ pc' = "undo"
  /\ redone' = {l \in Held : l >= checkpointLsn /\ Redoes(l)}
  /\ UNCHANGED <<log, first, flushed, order, txStates, losers, ckpt, ckRedone>>

Undoes(t) == txStates[t] = "BEGIN"

\* Mutant: the oldest first.
BeforeOldest(t, u) == lastLsn(t) < lastLsn(u)

\* The order the losers are sorted in.
Before(t, u) == lastLsn(t) > lastLsn(u)

\* undoTransaction calls getTransaction, which locks the mutex_ recover owns:
\* the first loser is the last.
Undo ==
  /\ pc = "undo"
  /\ LET S == {t \in Tx : Undoes(t)}
     IN  /\ losers' \in {o \in [1..Cardinality(S) -> S] :
                           \A i, j \in DOMAIN o : i < j => Before(o[i], o[j])}
         /\ IF S = {} THEN pc' = "returned" ELSE pc' \in RelockOutcomes
  /\ UNCHANGED <<log, first, flushed, order, txStates, redone, ckpt, ckRedone>>

-----------------------------------------------------------------------------
(* CheckpointManager::recoverFromCheckpoint.                               *)

\* findLastCheckpoint: the first met going backwards.
findLastCheckpoint ==
  LET v == {i \in DOMAIN order : log[order[i]].type = "CHECKPOINT"}
  IN  IF v = {} THEN 0 ELSE order[Greatest(v)]

\* redoFromCheckpoint.
RedoneFrom(c) ==
  LET since == {l \in Held : l > c}
      committed == {log[l].tx : l \in {l \in since : log[l].type = "COMMIT"}}
  IN  {l \in since : log[l].type \in DataTypes /\ log[l].tx \in committed}

\* Run after recover(); neither changes what the other reads.
RecoverFromCheckpoint ==
  /\ pc \in {"returned", "blocks", "throws"} /\ ckpt = -1
  /\ ckpt' = findLastCheckpoint
  /\ ckRedone' = IF ckpt' = 0 THEN {} ELSE RedoneFrom(ckpt')
  /\ UNCHANGED <<log, first, flushed, order, pc, txStates, redone, losers>>

Next ==
  \/ \E t \in Tx : Begin(t)
  \/ \E t \in Tx, type \in DataTypes, p \in Pages : Log(t, type, p)
  \/ \E t \in Tx : Commit(t)
  \/ Checkpoint
  \/ CreateCheckpoint
  \/ Crash
  \/ Analysis
  \/ Redo
  \/ Undo
  \/ RecoverFromCheckpoint

Spec == Init /\ [][Next]_vars

\* Once it has been called, recover() runs on unless it blocks.
FairSpec == Spec /\ WF_vars(Analysis \/ Redo \/ Undo)

-----------------------------------------------------------------------------
(* Properties.                                                             *)

\* The type invariant: recovery visits records of the log, each once.
TypeOK ==
  /\ \A i \in DOMAIN log :
       log[i] \in [type : DataTypes \cup EndTypes \cup {"BEGIN", "CHECKPOINT"},
                   tx : Tx \cup {0}, page : Pages \cup {None}]
  /\ first \in 1..Len(log)+1 \/ pc # "running"
  /\ Held \subseteq DOMAIN log /\ Cardinality(Held) = Len(order)
  /\ txStates \in [Tx -> {"none", "BEGIN", "COMMIT", "ABORT"}]
  /\ redone \subseteq Held /\ ckRedone \subseteq Held
  /\ {losers[i] : i \in DOMAIN losers} \subseteq Tx
  /\ pc \in {"running", "analysis", "redo", "undo", "returned", "blocks", "throws"}
  /\ ckpt \in {-1} \cup 0..Len(log)

CommittedFrom(c) == {log[l].tx : l \in {l \in Held : l >= c /\ log[l].type = "COMMIT"}}

\* Whatever the order of the records in log_buffer_, recover() re-applies only
\* operations of transactions whose COMMIT is in the log.
RedoneCommitted ==
  /\ TypeOK
  /\ \A l \in redone : log[l].tx \in CommittedFrom(checkpointLsn)

\* log_buffer_ happens to iterate by LSN.
InOrder == \A i, j \in DOMAIN order : i < j => order[i] < order[j]

\* The two recoveries agree in one direction: what recover() re-applies,
\* recoverFromCheckpoint re-applies too, although the checkpoint it starts
\* from is not always the last one.
RedoneByBoth == ckpt > 0 => redone \subseteq ckRedone

\* "3. Undo: desfazer operações de transações não commitadas": no transaction
\* with a COMMIT in the log is undone.
LosersUncommitted ==
  \A i \in DOMAIN losers : losers[i] \notin CommittedFrom(0)

\* When log_buffer_ iterates by LSN, the analysis keeps that promise, and the
\* transaction with the later last operation is undone first ("Ordenar por LSN
\* (do mais recente para o mais antigo)").
UndoNewestFirst ==
  InOrder =>
    /\ LosersUncommitted
    /\ \A i, j \in DOMAIN losers : i < j =>
         \E l \in Held : /\ log[l].tx = losers[i] /\ log[l].type \in DataTypes \cup {"BEGIN"}
                         /\ \A m \in Held : log[m].tx = losers[j] => m < l

\* "2. Redo: refazer operações de transações commitadas": recover() re-applies
\* the operations after the checkpoint of every transaction that committed, at
\* least when log_buffer_ iterates by LSN.
WinnersRedone ==
  InOrder /\ pc \in {"returned", "blocks", "throws"} =>
    \A l \in Held : (/\ l > checkpointLsn /\ log[l].type \in DataTypes
                     /\ log[l].tx \in CommittedFrom(checkpointLsn)) => l \in redone

\* "1. Analysis: determinar transações ativas no momento do crash": every
\* transaction that has operations in the log and neither committed nor aborted
\* is found.
ActiveFound ==
  pc \in {"returned", "blocks", "throws"} =>
    \A l \in Held : (log[l].type \in DataTypes /\ Active(log[l].tx)) =>
      \E i \in DOMAIN losers : losers[i] = log[l].tx

\* "Procurar registro de checkpoint mais recente".
LatestCheckpoint == ckpt > 0 => ckpt = Greatest(Checkpoints)

\* recover() returns to its caller.
RecoverReturns == (pc = "analysis") ~> (pc \in {"returned", "throws"})
=============================================================================
