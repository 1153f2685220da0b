----------------------------- MODULE LogManager -----------------------------
(***************************************************************************)
(* transaction/log_manager.{h,cpp}: LSNs, the records in memory, the write *)
(* buffer, the log file, and what init() reads back from it.               *)
(*                                                                         *)
(* The file is its size and, by byte offset, the records that lie in it    *)
(* whole.  A record takes RecordBytes + its data when it is written, but   *)
(* init() steps over the file with sizeof(LogRecord); where no record      *)
(* starts it decodes whatever bytes are there, any of the values in        *)
(* Garbage.  mode_ is NORMAL: no sync thread.  Every operation holds       *)
(* mutex_ and is one step.                                                 *)
(***************************************************************************)
EXTENDS Integers, Sequences, FiniteSets

CONSTANTS Tx,          \* transaction ids (0: checkpoints)
          Lengths,     \* data lengths of records
          BufferSize,  \* WRITE_BUFFER_SIZE (1 MB)
          Garbage,     \* [lsn, len] read where no record starts
          Absent,      \* no log file
          MaxAppends,  \* bound: records appended by one process
          MaxRestarts  \* bound: restarts

RecordBytes == 50  \* what serializeRecord writes without the data
StructBytes == 64  \* sizeof(LogRecord)
HeaderBytes == 48  \* sizeof(LogFileHeader)

ASSUME LogAssumption ==
  /\ Lengths \subseteq Nat
  /\ BufferSize \in Nat
  /\ \A n \in Lengths : StructBytes + n <= BufferSize
  /\ Garbage \subseteq [lsn : Nat, len : Nat]
  /\ MaxAppends \in Nat /\ MaxRestarts \in Nat

VARIABLES
  up,          \* the LogManager exists and init() has returned
  currentLsn,  \* current_lsn_
  logBuffer,   \* log_buffer_, the set of its records
  lastTxLsn,   \* last_tx_lsn_, 0 for none
  pending,     \* the records in write_buffer_
  bufferPos,   \* buffer_pos_
  file,        \* [size, recs : offset -> record], or Absent
  pos,         \* the position of log_file_
  appended,    \* the records this process has appended
  restarts

vars == <<up, currentLsn, logBuffer, lastTxLsn, pending, bufferPos, file, pos,
          appended, restarts>>

Init ==
  /\ up = FALSE
  /\ currentLsn = 1
  /\ logBuffer = {}
  /\ lastTxLsn = [t \in Tx |-> 0]
  /\ pending = <<>> /\ bufferPos = 0
  /\ file = Absent /\ pos = 0
  /\ appended = <<>>
  /\ restarts = 0

-----------------------------------------------------------------------------
Size(r) == RecordBytes + r.len

\* The offset at which record i of s lies when s is written at p.
OffsetOf(s, p, i) ==
  LET at[k \in 1..i] == IF k = 1 THEN p ELSE at[k - 1] + Size(s[k - 1])
  IN  at[i]

\* The records of s are written at p, over what is there, n bytes.
Written(f, s, p, n) ==
  LET kept == {o \in DOMAIN f.recs : o + Size(f.recs[o]) <= p \/ o >= p + n}
      new == {OffsetOf(s, p, i) : i \in DOMAIN s}
      At(o) == CHOOSE i \in DOMAIN s : OffsetOf(s, p, i) = o
  IN  [size |-> IF p + n > f.size THEN p + n ELSE f.size,
       recs |-> [o \in kept \cup new |-> IF o \in new THEN s[At(o)] ELSE f.recs[o]]]

\* Mutant: every flush writes at the start of the file.
flushBufferAtStart ==
  IF bufferPos > 0
  THEN file' = Written(file, pending, 0, bufferPos) /\ pos' = bufferPos
  ELSE UNCHANGED <<file, pos>>

\* flushBuffer: to the file's position, which moves on.
flushBuffer ==
  IF bufferPos > 0
  THEN file' = Written(file, pending, pos, bufferPos) /\ pos' = pos + bufferPos
  ELSE UNCHANGED <<file, pos>>

\* What init() decodes at offset p.
ReadAt(f, p) ==
  IF p \in DOMAIN f.recs THEN {f.recs[p]}
  ELSE {[lsn |-> g.lsn, tx |-> 0, len |-> g.len, prev |-> 0] : g \in Garbage}

\* The sequences of records init() may read from offset p on, with offsets.
Scan(f) ==
  LET from[p \in Nat] ==
        IF p + StructBytes > f.size THEN {<<>>}
        ELSE UNION {{<<[at |-> p, rec |-> r]>> \o q : q \in from[p + StructBytes + r.len]} :
                      r \in ReadAt(f, p)}
  IN  from[HeaderBytes]

\* The records of a scan that init() keeps (lsn > 0), the later of two with one
\* LSN, and the LSN it goes on from.
Kept(q) == {i \in DOMAIN q : q[i].rec.lsn > 0}
ReadBack(q) == {q[i].rec : i \in {i \in Kept(q) :
                  \A j \in Kept(q) : j > i => q[j].rec.lsn # q[i].rec.lsn}}
NextLsn(q) ==
  IF Kept(q) = {} THEN 1
  ELSE q[CHOOSE i \in Kept(q) : \A j \in Kept(q) : j <= i].rec.lsn + 1

-----------------------------------------------------------------------------
\* init(), after which the position is 0 in a new file, behind the last bytes
\* read in one that was scanned, and else at the end.
Open ==
  /\ ~up
  /\ up' = TRUE
  /\ \/ /\ file = Absent
        /\ file' = [size |-> HeaderBytes, recs |-> <<>>]
        /\ pos' = 0 /\ currentLsn' = 1 /\ logBuffer' = {}
     \/ /\ file # Absent
        /\ \E q \in IF file.size > HeaderBytes THEN Scan(file) ELSE {<<>>} :
             /\ currentLsn' = NextLsn(q)
             /\ logBuffer' = ReadBack(q)
             /\ pos' = IF q = <<>> THEN file.size ELSE q[Len(q)].at + StructBytes
        /\ UNCHANGED file
  /\ lastTxLsn' = [t \in Tx |-> 0]
  /\ pending' = <<>> /\ bufferPos' = 0 /\ appended' = <<>>
  /\ UNCHANGED restarts

\* Mutant: prev_lsn is the last LSN of any transaction.
NewRecordAnyPrev(t, n) ==
  [lsn |-> currentLsn, tx |-> t, len |-> n, prev |-> currentLsn - 1]

\* The record appendLogRecord makes.
NewRecord(t, n) ==
  [lsn |-> currentLsn, tx |-> t, len |-> n, prev |-> lastTxLsn[t]]

\* Mutant: the room needed is computed without the data.
NoRoomFixed(n) == bufferPos + RecordBytes > BufferSize

\* buffer_pos_ + record_size > WRITE_BUFFER_SIZE
NoRoom(n) == bufferPos + StructBytes + n > BufferSize

\* appendLogRecord.
AppendLogRecord(t, n) ==
  /\ up
  /\ Len(appended) < MaxAppends
  /\ LET r == NewRecord(t, n)
     IN  /\ logBuffer' = {x \in logBuffer : x.lsn # r.lsn} \cup {r}
         /\ appended' = Append(appended, r)
         /\ IF NoRoom(n)
            THEN flushBuffer /\ pending' = <<r>> /\ bufferPos' = Size(r)
            ELSE /\ pending' = Append(pending, r)
                 /\ bufferPos' = bufferPos + Size(r)
                 /\ UNCHANGED <<file, pos>>
  /\ currentLsn' = currentLsn + 1
  /\ lastTxLsn' = [lastTxLsn EXCEPT ![t] = currentLsn]
  /\ UNCHANGED <<up, restarts>>

\* flush and flushAll.
Flush ==
  /\ up
  /\ flushBuffer
  /\ pending' = <<>> /\ bufferPos' = 0
  /\ UNCHANGED <<up, currentLsn, logBuffer, lastTxLsn, appended, restarts>>

\* truncate: only the records in memory.
Truncate(n) ==
  /\ up
  /\ logBuffer' = {r \in logBuffer : r.lsn >= n}
  /\ UNCHANGED <<up, currentLsn, lastTxLsn, pending, bufferPos, file, pos,
                 appended, restarts>>

\* shutdown() flushes and closes; a crash loses the write buffer.
Stop(flush) ==
  /\ up
  /\ restarts < MaxRestarts
  /\ restarts' = restarts + 1
  /\ up' = FALSE
  /\ IF flush THEN flushBuffer ELSE UNCHANGED <<file, pos>>
  /\ pending' = <<>> /\ bufferPos' = 0
  /\ currentLsn' = 1 /\ logBuffer' = {} /\ appended' = <<>>
  /\ lastTxLsn' = [t \in Tx |-> 0]

Next ==
  \/ Open
  \/ \E t \in Tx, n \in Lengths : AppendLogRecord(t, n)
  \/ Flush
  \/ \E n \in 1..MaxAppends + 1 : Truncate(n)
  \/ \E f \in BOOLEAN : Stop(f)

Spec == Init /\ [][Next]_vars

-----------------------------------------------------------------------------
(* Properties.                                                             *)

Records == [lsn : Nat, tx : Tx \cup {0}, len : Nat, prev : Nat]

\* The type invariant.
TypeOK ==
  /\ up \in BOOLEAN
  /\ currentLsn \in Nat
  /\ logBuffer \subseteq Records
  /\ lastTxLsn \in [Tx -> Nat]
  /\ pending \in Seq(Records)
  /\ bufferPos \in Nat
  /\ pos \in Nat
  /\ appended \in Seq(Records)
  /\ restarts \in 0..MaxRestarts

\* write_buffer_ never holds more than WRITE_BUFFER_SIZE bytes, although the
\* test counts sizeof(LogRecord) and serializeRecord writes something else.
BufferInBounds == bufferPos <= BufferSize

\* LSNs are given out consecutively, and prev_lsn leads from a record to the
\* latest earlier record of its transaction in this process, however the
\* transactions' records interleave and whatever truncate has removed.
PrevChain ==
  /\ TypeOK
  /\ \A i \in DOMAIN appended :
       LET earlier == {j \in 1..i-1 : appended[j].tx = appended[i].tx}
       IN  /\ appended[i].lsn = appended[1].lsn + i - 1
           /\ appended[i].prev = IF earlier = {} THEN 0
                ELSE appended[CHOOSE j \in earlier : \A k \in earlier : k <= j].lsn

\* What this process has appended is on its way to the file in order: the write
\* buffer holds the last records, and the earlier ones lie whole and one behind
\* the other in the file, ending at its position.
FlushedInOrder ==
  up => LET n == Len(appended) - Len(pending)
            start == pos - OffsetOf(appended, 0, n + 1)
        IN  /\ n >= 0
            /\ pending = SubSeq(appended, n + 1, Len(appended))
            /\ \A i \in 1..n :
                 LET o == OffsetOf(appended, start, i)
                 IN  o \in DOMAIN file.recs /\ file.recs[o] = appended[i]

\* "Ler último LSN" (log_manager.cpp): a process that opens the log goes on
\* after the greatest LSN in the file.
LsnContinues ==
  up => \A o \in DOMAIN file.recs : file.recs[o].lsn < currentLsn
=============================================================================
