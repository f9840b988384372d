\* The re-registered lease is lost before its first keep-alive response.
CONSTANTS
  MaxRetry = 3
  MaxRegisterCalls = 1
  MaxFaults = 2
  LatePuts = FALSE
  Cancellable = FALSE
SPECIFICATION Spec
INVARIANT GiveUpOnlyWhenExhausted
