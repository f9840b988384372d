\* Two servers, endpoints configured (so buildInstance listens), a
\* registrar and one hook of each kind (MCAppOptions); hooks, listens,
\* Extracts and registrar calls may fail; Stop may be called by another
\* goroutine and by the signal goroutine, each at most once.
CONSTANTS
  s1 = s1
  s2 = s2
  Options <- MCAppOptions
  CallsMayFail = TRUE

SPECIFICATION Spec
INVARIANT AdvertisedIsServed
PROPERTY RunReturnsAfterStop
PROPERTY SignalEndsRun
\* Run returns and the program may end: a state with no step is one where
\* Run and every Stop call have returned.
CHECK_DEADLOCK FALSE
