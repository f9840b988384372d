\* Two successful Register calls on one Registry, no faults.
CONSTANTS
  MaxRetry = 2
  MaxRegisterCalls = 2
  MaxFaults = 0
  LatePuts = FALSE
  Cancellable = FALSE
SPECIFICATION Spec
INVARIANT AtMostOneKeptAliveLease
