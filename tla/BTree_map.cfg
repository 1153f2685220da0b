SPECIFICATION Spec
CHECK_DEADLOCK FALSE
CONSTANTS
  Order = 4
  Keys = {1, 2, 3, 4, 5}
  Values = {a, b}
  Uniques = {TRUE, FALSE}
  MaxPages = 5
  Invalid = Invalid
  None = None
SYMMETRY Symmetry
INVARIANTS LookupExact  
PROPERTY UniqueKeeps
