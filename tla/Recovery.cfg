\* One Register, as App.Run makes it; faults enough for two lease losses and
\* an outage; puts abandoned by a timeout may land later, and the governing
\* context may be cancelled.
CONSTANTS
  MaxRetry = 2
  MaxRegisterCalls = 1
  MaxFaults = 3
  LatePuts = TRUE
  Cancellable = TRUE
SPECIFICATION Spec
INVARIANT TypeOK
INVARIANT KeyOnKeptAliveLeaseBarLatePut
PROPERTY RecoveryTerminates
PROPERTY SupervisorRefined
