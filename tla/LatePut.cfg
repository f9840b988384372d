\* A put abandoned by the 3-second timeout lands after the next attempt's put.
CONSTANTS
  MaxRetry = 2
  MaxRegisterCalls = 1
  MaxFaults = 2
  LatePuts = TRUE
  Cancellable = FALSE
SPECIFICATION Spec
INVARIANT KeyOnKeptAliveLease
