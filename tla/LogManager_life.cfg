SPECIFICATION Spec
CONSTANTS
  Tx = {1, 2}
  Lengths = {0, 36}
  BufferSize = 164
  Garbage <- AnyBytes
  Absent = absent
  MaxAppends = 3
  MaxRestarts = 1
INVARIANTS BufferInBounds PrevChain FlushedInOrder
CHECK_DEADLOCK FALSE
