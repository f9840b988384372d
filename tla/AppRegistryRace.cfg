\* One server, the etcd Registry as registrar (MCAppOptions), no failing
\* calls, a healthy cluster (no faults), Stop by another goroutine or a
\* signal.
CONSTANTS
  s1 = s1
  Options <- MCAppOptions
  CallsMayFail = FALSE
  MaxRetry = 1
  MaxRegisterCalls = 1
  MaxFaults = 0
  LatePuts = FALSE
  Cancellable = FALSE
SPECIFICATION Spec
INVARIANT NoRegistrationAfterStop
\* Run returns and the program may end: a state with no step is one where
\* Run and every Stop call have returned.
CHECK_DEADLOCK FALSE
