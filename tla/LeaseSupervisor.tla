--------------------------- MODULE LeaseSupervisor ---------------------------
(***************************************************************************)
(* What the lease supervisor of spec section 4.2 promises, one state        *)
(* machine per registration s:                                             *)
(*                                                                         *)
(*   UNLEASED -> LEASED -> (OK <-> RECOVERING) -> CLOSED                   *)
(*                                                                         *)
(* A recovery episode counts its failed attempts, at most MaxRetry of      *)
(* them; every episode starts counting again from zero.  The              *)
(* supervisor leaves OK for RECOVERING only while the governing context is *)
(* live, and it closes only when the context is done or the episode has    *)
(* run out of attempts.                                                    *)
(*                                                                         *)
(* Two departures of the code from section 4.2 are part of this abstract   *)
(* specification, so that the detailed one can be checked against the     *)
(* rest of it; each has its own run that shows the departure:              *)
(*  - every failed attempt, a timed-out one included, is retried           *)
(*    (section 4.2 aborts the episode on a timeout);                        *)
(*  - a lease that an attempt acquired and that is lost before its first   *)
(*    acknowledgment ends the supervisor (acquired, then GiveUp), which    *)
(*    section 4.2 step 5 allows only once the attempts are exhausted       *)
(*    (run early_give_up).                                                 *)
(***************************************************************************)
EXTENDS Naturals

CONSTANTS
  Sup,        \* the registrations, one supervisor each
  MaxRetry    \* attempts per recovery episode

VARIABLES
  st,         \* Sup -> supervisor state
  attempts,   \* Sup -> failed attempts of the latest recovery episode
  acquired,   \* Sup -> the current attempt acquired a lease, not yet confirmed
  cancelled   \* the governing context is done

vars == <<st, attempts, acquired, cancelled>>

States == {"UNLEASED", "LEASED", "OK", "RECOVERING", "CLOSED"}

TypeOK ==
  /\ st \in [Sup -> States]
  /\ attempts \in [Sup -> 0 .. MaxRetry]
  /\ acquired \in [Sup -> BOOLEAN]
  /\ cancelled \in BOOLEAN

Init ==
  /\ st = [s \in Sup |-> "UNLEASED"]
  /\ attempts = [s \in Sup |-> 0]
  /\ acquired = [s \in Sup |-> FALSE]
  /\ cancelled = FALSE

Goto(s, q) == st' = [st EXCEPT ![s] = q]

\* Grant-and-put succeeded; the supervisor owns the lease.
Start(s) == st[s] = "UNLEASED" /\ Goto(s, "LEASED")
            /\ UNCHANGED <<attempts, acquired, cancelled>>

\* The keep-alive stream is open.
Up(s) == st[s] = "LEASED" /\ Goto(s, "OK")
         /\ UNCHANGED <<attempts, acquired, cancelled>>

\* The stream could not be opened, or it closed while the context is live:
\* a new recovery episode.
Lost(s) ==
  /\ st[s] = "LEASED" \/ (st[s] = "OK" /\ ~cancelled)
  /\ Goto(s, "RECOVERING")
  /\ attempts' = [attempts EXCEPT ![s] = 0]
  /\ UNCHANGED <<acquired, cancelled>>

\* An attempt failed: counted, and any lease it acquired is abandoned.
AttemptFailed(s) ==
  /\ st[s] = "RECOVERING" /\ attempts[s] < MaxRetry
  /\ attempts' = [attempts EXCEPT ![s] = @ + 1]
  /\ acquired' = [acquired EXCEPT ![s] = FALSE]
  /\ UNCHANGED <<st, cancelled>>

\* An attempt's grant-and-put succeeded.
Acquire(s) ==
  /\ st[s] = "RECOVERING" /\ ~acquired[s] /\ attempts[s] < MaxRetry
  /\ acquired' = [acquired EXCEPT ![s] = TRUE]
  /\ UNCHANGED <<st, attempts, cancelled>>

\* The new lease is acknowledged: back to OK, the episode over.
Recovered(s) ==
  /\ st[s] = "RECOVERING" /\ acquired[s] /\ Goto(s, "OK")
  /\ acquired' = [acquired EXCEPT ![s] = FALSE]
  /\ UNCHANGED <<attempts, cancelled>>

\* The episode ends without a lease.
GiveUp(s) ==
  /\ st[s] = "RECOVERING" /\ (attempts[s] = MaxRetry \/ acquired[s])
  /\ Goto(s, "CLOSED")
  /\ acquired' = [acquired EXCEPT ![s] = FALSE]
  /\ UNCHANGED <<attempts, cancelled>>

\* The context is done: the supervisor exits wherever it is.
Cancel(s) ==
  /\ cancelled /\ st[s] \notin {"UNLEASED", "CLOSED"}
  /\ Goto(s, "CLOSED")
  /\ acquired' = [acquired EXCEPT ![s] = FALSE]
  /\ UNCHANGED <<attempts, cancelled>>

CancelCtx == ~cancelled /\ cancelled' = TRUE /\ UNCHANGED <<st, attempts, acquired>>

\* The steps the supervisor takes by itself, as opposed to the caller's
\* Start and the environment's Lost and CancelCtx.
Step(s) == Up(s) \/ AttemptFailed(s) \/ Acquire(s) \/ Recovered(s)
           \/ GiveUp(s) \/ Cancel(s)

Next == CancelCtx \/ \E s \in Sup : Start(s) \/ Lost(s) \/ Step(s)

Spec == Init /\ [][Next]_vars /\ \A s \in Sup : WF_vars(Step(s))

=============================================================================
