\* Names "a" and "ab", two ids, three writes: enough for a correct record,
\* a record with another service's name and a malformed one side by side.
CONSTANTS
  Names <- MCNames
  Ids = {i1, i2}
  Bad = Bad
  Absent = Absent
  NotCalled = NotCalled
  ErrStore = ErrStore
  ErrDecode = ErrDecode
  MaxWrites = 3
SPECIFICATION Spec
INVARIANT TypeOK
INVARIANT GetServiceComplete
