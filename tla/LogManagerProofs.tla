-------------------------- MODULE LogManagerProofs --------------------------
(***************************************************************************)
(* For every set of record lengths that fit, the write buffer of the log   *)
(* manager is never overrun.                                               *)
(***************************************************************************)
EXTENDS LogManager, TLAPS

\* The inductive invariant: BufferInBounds says nothing of the type.
BufferInv == bufferPos \in Nat /\ BufferInBounds

\* A step of the log manager keeps the buffer in bounds.
LEMMA BufferStep ==
  ASSUME BufferInv, [Next]_vars
  PROVE  BufferInv'
<1> USE LogAssumption DEF BufferInv, BufferInBounds
<1>1. CASE Open
  BY <1>1 DEF Open
<1>2. ASSUME NEW t \in Tx, NEW n \in Lengths, AppendLogRecord(t, n)
      PROVE  BufferInv'
  <2>1. Size(NewRecord(t, n)) = RecordBytes + n
    BY DEF Size, NewRecord
  <2>2. n \in Nat /\ StructBytes + n <= BufferSize /\ BufferSize \in Nat
    OBVIOUS
  <2>3. CASE NoRoom(n)
    <3>1. bufferPos' = RecordBytes + n
      BY <1>2, <2>1, <2>3 DEF AppendLogRecord
    <3> QED BY <2>2, <3>1 DEF RecordBytes, StructBytes
  <2>4. CASE ~NoRoom(n)
    <3>1. bufferPos' = bufferPos + (RecordBytes + n)
      BY <1>2, <2>1, <2>4 DEF AppendLogRecord
    <3> QED BY <2>2, <2>4, <3>1 DEF NoRoom, RecordBytes, StructBytes
  <2> QED BY <2>3, <2>4
<1>3. CASE Flush
  BY <1>3 DEF Flush
<1>4. ASSUME NEW n \in 1..MaxAppends + 1, Truncate(n)
      PROVE  BufferInv'
  BY <1>4 DEF Truncate
<1>5. ASSUME NEW f \in BOOLEAN, Stop(f)
      PROVE  BufferInv'
  BY <1>5 DEF Stop
<1>6. CASE UNCHANGED vars
  BY <1>6 DEF vars
<1> QED BY <1>1, <1>2, <1>3, <1>4, <1>5, <1>6 DEF Next

\* write_buffer_ is never overrun, whatever the lengths of the records.
THEOREM BufferCorrect == Spec => []BufferInBounds
<1>1. Init => BufferInv
  BY LogAssumption DEF Init, BufferInv, BufferInBounds
<1>2. BufferInv /\ [Next]_vars => BufferInv'
  BY BufferStep
<1>3. BufferInv => BufferInBounds
  BY DEF BufferInv
<1> QED BY <1>1, <1>2, <1>3, PTL DEF Spec
=============================================================================
