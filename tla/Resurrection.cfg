\* Register once, Deregister, then one lease loss or a recovery in progress.
CONSTANTS
  MaxRetry = 2
  MaxRegisterCalls = 1
  MaxFaults = 1
  LatePuts = FALSE
  Cancellable = FALSE
SPECIFICATION Spec
INVARIANT KeyGoneAfterDeregister
