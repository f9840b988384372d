---------------------------- MODULE EtcdRegistry ----------------------------
(***************************************************************************)
(* The etcd-backed Registry of src/endpoint/etcd/etcd.go: Register,        *)
(* Deregister and the heartBeat goroutine that keeps the registration's    *)
(* lease alive and re-registers the key when the keep-alive stream closes. *)
(*                                                                         *)
(* One instance, hence one key "{namespace}/{name}/{id}", is registered.   *)
(* The key and its serialized value are fixed, so the store keeps only the *)
(* lease the key is attached to (0 when the key is absent, as the code     *)
(* uses 0 for "no lease").  The etcd cluster is the environment: it       *)
(* grants leases, applies puts and deletes, goes down and comes back,      *)
(* loses leases, and closes keep-alive streams.                            *)
(*                                                                         *)
(* Keep-alive streams come from r.client.KeepAlive, i.e. from the client's *)
(* built-in lessor; r.lease (closed by Register and Deregister) is only    *)
(* used for Grant, and clientv3's lessor Close neither revokes leases nor  *)
(* touches another lessor's streams, so that Close has no effect on the    *)
(* store state modelled here.                                              *)
(***************************************************************************)
EXTENDS Naturals, FiniteSets

CONSTANTS
  MaxRetry,          \* opts.maxRetry
  MaxRegisterCalls,  \* bound on the caller's Register calls
  MaxFaults,         \* bound on environment faults (outages, lease losses, timeouts)
  LatePuts,          \* may a put abandoned by a timeout still reach the store later?
  Cancellable        \* can opts.ctx, the heartBeat's governing context, be cancelled?

ASSUME MaxRetry \in Nat \ {0}
ASSUME MaxRegisterCalls \in Nat \ {0}
ASSUME MaxFaults \in Nat
ASSUME LatePuts \in BOOLEAN /\ Cancellable \in BOOLEAN

\* heartBeat goroutines: the h-th is started by the h-th successful Register.
Hb == 1 .. MaxRegisterCalls

\* Every grant needs an up store; Register grants at most once per call and a
\* recovery episode, which needs a fault to start, grants at most MaxRetry times.
MaxLeases == MaxRegisterCalls + MaxRetry * MaxFaults
Leases == 1 .. MaxLeases
NoLease == 0

VARIABLES
  \* the etcd cluster
  alive,        \* leases granted and not yet expired
  keyLease,     \* lease the instance's key is attached to, NoLease if absent
  nextLease,    \* number of leases granted so far
  inflight,     \* leases of puts sent by timed-out attempts, not yet applied
  down,         \* the cluster is unreachable
  faults,       \* environment faults so far
  cancelled,    \* r.opts.ctx is done
  stray,        \* history: an abandoned put landed after the last put that
                \* registerWithKV reported
  \* the caller of Register / Deregister
  cpc,          \* "ready", or inside Register before the grant or the put
  cLease,       \* lease granted by the Register in progress
  calls,        \* Register calls made
  deregistered, \* a Deregister returned nil after the last successful Register
  hbCount,      \* heartBeat goroutines started
  \* the heartBeat goroutines
  hpc,          \* program counter
  leaseID,      \* the leaseID parameter
  cur,          \* curLeaseID
  kac,          \* the keep-alive channel: the lease it renews, and whether open
  retryCnt,     \* retryCnt of the re-registration loop
  att,          \* state of the registerWithKV goroutine of the current attempt
  attLease      \* lease granted by that goroutine

store  == <<alive, keyLease, nextLease, inflight, down, faults, cancelled, stray>>
caller == <<cpc, cLease, calls, deregistered, hbCount>>
hbvars == <<hpc, leaseID, cur, kac, retryCnt, att, attLease>>
vars   == <<store, caller, hbvars>>

HbPc  == {"none", "start", "watch", "retry", "attempt", "keepalive", "final", "exited"}
AttPc == {"idle", "granting", "putting", "ok", "err"}
Stream == [lease : Leases \cup {NoLease}, open : BOOLEAN]

TypeOK ==
  /\ alive \subseteq Leases
  /\ keyLease \in Leases \cup {NoLease}
  /\ nextLease \in 0 .. MaxLeases
  /\ inflight \subseteq Leases
  /\ down \in BOOLEAN /\ cancelled \in BOOLEAN /\ stray \in BOOLEAN
  /\ faults \in 0 .. MaxFaults
  /\ cpc \in {"ready", "grant", "put"}
  /\ cLease \in Leases \cup {NoLease}
  /\ calls \in 0 .. MaxRegisterCalls
  /\ deregistered \in BOOLEAN
  /\ hbCount \in 0 .. MaxRegisterCalls
  /\ hpc \in [Hb -> HbPc]
  /\ leaseID \in [Hb -> Leases \cup {NoLease}]
  /\ cur \in [Hb -> Leases \cup {NoLease}]
  /\ kac \in [Hb -> Stream]
  /\ retryCnt \in [Hb -> 0 .. MaxRetry]
  /\ att \in [Hb -> AttPc]
  /\ attLease \in [Hb -> Leases \cup {NoLease}]

Running(h) == hpc[h] \notin {"none", "exited"}

\* Leases whose keep-alive stream is open: the client renews them.
KeptAlive == {kac[h].lease : h \in {g \in Hb : kac[g].open}}

\* Leases some goroutine still refers to; losing one of them is a fault.
Held == ({cLease} \cup {cur[h] : h \in {g \in Hb : Running(g)}}
                  \cup {attLease[h] : h \in Hb}) \ {NoLease}

Fault == faults < MaxFaults /\ faults' = faults + 1

\* Lease.Grant: a fresh lease id, or an error when the cluster is down or the
\* calling context is done.
GrantOk(l) == ~down /\ nextLease < MaxLeases /\ l = nextLease + 1
              /\ nextLease' = l /\ alive' = alive \cup {l}

\* A put attaches the key to l; it fails when the cluster is down or l has
\* expired ("requested lease not found").
PutOk(l) == ~down /\ l \in alive /\ keyLease' = l

\* clientv3 KeepAlive returns a channel that is closed at once when the lease
\* is gone or the context is done.
OpenStream(l) == [lease |-> l, open |-> l \in alive /\ ~cancelled]
ClosedStream(l) == [lease |-> l, open |-> FALSE]

-----------------------------------------------------------------------------
(* The caller: Register and Deregister.                                    *)

\* Register up to registerWithKV's Grant: the previous r.lease is closed, a
\* new lessor is made and a lease granted under the caller's context.
RegisterGrant ==
  /\ cpc = "ready" /\ calls < MaxRegisterCalls
  /\ calls' = calls + 1
  /\ \/ \E l \in Leases : GrantOk(l) /\ cLease' = l /\ cpc' = "put"
     \/ down /\ cpc' = "ready" /\ UNCHANGED <<cLease, nextLease, alive>>
  /\ UNCHANGED <<stray, keyLease, inflight, down, faults, cancelled, deregistered,
                 hbCount, hbvars>>

\* registerWithKV's Put; on success Register starts heartBeat(r.opts.ctx,
\* leaseID, key, value) and returns nil, otherwise it returns the error.
RegisterPut ==
  /\ cpc = "put"
  /\ \/ /\ PutOk(cLease)
        /\ LET h == hbCount + 1 IN
             /\ hbCount' = h
             /\ hpc' = [hpc EXCEPT ![h] = "start"]
             /\ leaseID' = [leaseID EXCEPT ![h] = cLease]
             /\ cur' = [cur EXCEPT ![h] = cLease]
        /\ deregistered' = FALSE
        /\ stray' = FALSE
     \/ /\ down \/ cLease \notin alive
        /\ UNCHANGED <<keyLease, stray, hbCount, hpc, leaseID, cur, deregistered>>
  /\ cpc' = "ready" /\ cLease' = NoLease
  /\ UNCHANGED <<alive, nextLease, inflight, down, faults, cancelled, calls,
                 kac, retryCnt, att, attLease>>

\* Deregister deletes the key, then (deferred) closes r.lease.  Nothing in
\* Registry orders it with a Register in progress on another goroutine.
DeregisterCall ==
  /\ \/ ~down /\ keyLease' = NoLease /\ deregistered' = TRUE
     \/ down /\ UNCHANGED <<keyLease, deregistered>>
  /\ UNCHANGED <<stray, alive, nextLease, inflight, down, faults, cancelled, cpc,
                 cLease, calls, hbCount, hbvars>>

\* The caller of this module makes its calls one after the other.
Deregister == cpc = "ready" /\ DeregisterCall

-----------------------------------------------------------------------------
(* The heartBeat goroutine h and its per-attempt registerWithKV goroutine. *)

\* Entering the re-registration loop with curLeaseID = 0 and retryCnt = 0.
StartRetry(h) ==
  /\ cur' = [cur EXCEPT ![h] = NoLease]
  /\ retryCnt' = [retryCnt EXCEPT ![h] = 0]
  /\ hpc' = [hpc EXCEPT ![h] = "retry"]

\* `continue` of the retry loop: retryCnt++ and back to the loop test.
NextRetry(h) ==
  /\ retryCnt' = [retryCnt EXCEPT ![h] = @ + 1]
  /\ hpc' = [hpc EXCEPT ![h] = "retry"]

\* kac, err := r.client.KeepAlive(ctx, leaseID); on error curLeaseID = 0, so
\* the loop starts with a re-registration, otherwise with the select.
HeartBeatStart(h) ==
  /\ hpc[h] = "start"
  /\ \/ /\ kac' = [kac EXCEPT ![h] = OpenStream(leaseID[h])]
        /\ hpc' = [hpc EXCEPT ![h] = "watch"]
        /\ UNCHANGED <<faults, cur, retryCnt>>
     \/ /\ Fault
        /\ kac' = [kac EXCEPT ![h] = ClosedStream(leaseID[h])]
        /\ StartRetry(h)
  /\ UNCHANGED <<stray, alive, keyLease, nextLease, inflight, down, cancelled, caller,
                 leaseID, att, attLease>>

\* Mutant: `if ctx.Err() != nil { return }` left out of the closed-channel
\* case, so a channel closed by cancellation starts a re-registration.
HeartBeatSelectNoCtxCheck(h) ==
  /\ hpc[h] = "watch"
  /\ \/ cancelled /\ hpc' = [hpc EXCEPT ![h] = "exited"] /\ UNCHANGED <<cur, retryCnt>>
     \/ ~kac[h].open /\ StartRetry(h)
  /\ UNCHANGED <<store, caller, leaseID, kac, att, attLease>>

\* The select at the bottom of the loop: the channel closed while ctx is
\* live means the lease is lost and the key must be registered again;
\* a done ctx (closed channel or ctx.Done) ends the goroutine.
HeartBeatSelect(h) ==
  /\ hpc[h] = "watch"
  /\ \/ cancelled /\ hpc' = [hpc EXCEPT ![h] = "exited"] /\ UNCHANGED <<cur, retryCnt>>
     \/ ~kac[h].open /\ ~cancelled /\ StartRetry(h)
  /\ UNCHANGED <<store, caller, leaseID, kac, att, attLease>>

\* Mutant: the loop test written retryCnt <= r.opts.maxRetry.
RetryLoopOffByOne(h) ==
  /\ hpc[h] = "retry"
  /\ \/ retryCnt[h] > MaxRetry /\ hpc' = [hpc EXCEPT ![h] = "final"]
        /\ UNCHANGED att
     \/ retryCnt[h] <= MaxRetry /\ cancelled /\ hpc' = [hpc EXCEPT ![h] = "exited"]
        /\ UNCHANGED att
     \/ retryCnt[h] <= MaxRetry /\ ~cancelled
        /\ hpc' = [hpc EXCEPT ![h] = "attempt"]
        /\ att' = [att EXCEPT ![h] = "granting"]
  /\ UNCHANGED <<store, caller, leaseID, cur, kac, retryCnt, attLease>>

\* Head of `for retryCnt := 0; retryCnt < r.opts.maxRetry; retryCnt++`:
\* leave the loop, return on a done ctx, or start registerWithKV in a
\* goroutine under cancelCtx.
RetryLoop(h) ==
  /\ hpc[h] = "retry"
  /\ \/ retryCnt[h] >= MaxRetry /\ hpc' = [hpc EXCEPT ![h] = "final"]
        /\ UNCHANGED att
     \/ retryCnt[h] < MaxRetry /\ cancelled /\ hpc' = [hpc EXCEPT ![h] = "exited"]
        /\ UNCHANGED att
     \/ retryCnt[h] < MaxRetry /\ ~cancelled
        /\ hpc' = [hpc EXCEPT ![h] = "attempt"]
        /\ att' = [att EXCEPT ![h] = "granting"]
  /\ UNCHANGED <<store, caller, leaseID, cur, kac, retryCnt, attLease>>

\* registerWithKV's Grant under cancelCtx, which is done once ctx is.
AttemptGrant(h) ==
  /\ att[h] = "granting"
  /\ \/ ~cancelled /\ \E l \in Leases : GrantOk(l)
        /\ attLease' = [attLease EXCEPT ![h] = l]
        /\ att' = [att EXCEPT ![h] = "putting"]
     \/ (down \/ cancelled) /\ att' = [att EXCEPT ![h] = "err"]
        /\ UNCHANGED <<alive, nextLease, attLease>>
  /\ UNCHANGED <<stray, keyLease, inflight, down, faults, cancelled, caller,
                 hpc, leaseID, cur, kac, retryCnt>>

\* registerWithKV's Put with the granted lease; the goroutine then sends the
\* id on idChan or the error on errChan.
AttemptPut(h) ==
  /\ att[h] = "putting"
  /\ \/ ~cancelled /\ PutOk(attLease[h]) /\ att' = [att EXCEPT ![h] = "ok"]
        /\ stray' = FALSE
     \/ (down \/ cancelled \/ attLease[h] \notin alive)
        /\ att' = [att EXCEPT ![h] = "err"] /\ UNCHANGED <<keyLease, stray>>
  /\ UNCHANGED <<alive, nextLease, inflight, down, faults, cancelled, caller,
                 hpc, leaseID, cur, kac, retryCnt, attLease>>

\* The select on the 3-second timer, errChan and idChan.  The timer firing
\* is a slow store, hence a fault; cancel() makes the abandoned goroutine's
\* remaining calls fail, but a Put it had already sent may still arrive.
SelectTimeout(h) ==
  /\ hpc[h] = "attempt" /\ att[h] # "idle"
  /\ Fault
  /\ \/ LatePuts /\ att[h] = "putting" /\ inflight' = inflight \cup {attLease[h]}
     \/ UNCHANGED inflight
  /\ att' = [att EXCEPT ![h] = "idle"]
  /\ attLease' = [attLease EXCEPT ![h] = NoLease]
  /\ NextRetry(h)
  /\ UNCHANGED <<stray, alive, keyLease, nextLease, down, cancelled, caller,
                 leaseID, cur, kac>>

\* Mutant: the loop written with the increment at the end of its body, so
\* that `continue` on errChan skips it.
SelectErrNoIncrement(h) ==
  /\ hpc[h] = "attempt" /\ att[h] = "err"
  /\ att' = [att EXCEPT ![h] = "idle"]
  /\ attLease' = [attLease EXCEPT ![h] = NoLease]
  /\ hpc' = [hpc EXCEPT ![h] = "retry"]
  /\ UNCHANGED <<store, caller, leaseID, cur, kac, retryCnt>>

\* case <-errChan: continue
SelectErr(h) ==
  /\ hpc[h] = "attempt" /\ att[h] = "err"
  /\ att' = [att EXCEPT ![h] = "idle"]
  /\ attLease' = [attLease EXCEPT ![h] = NoLease]
  /\ NextRetry(h)
  /\ UNCHANGED <<store, caller, leaseID, cur, kac>>

\* case curLeaseID = <-idChan
SelectId(h) ==
  /\ hpc[h] = "attempt" /\ att[h] = "ok"
  /\ cur' = [cur EXCEPT ![h] = attLease[h]]
  /\ att' = [att EXCEPT ![h] = "idle"]
  /\ attLease' = [attLease EXCEPT ![h] = NoLease]
  /\ hpc' = [hpc EXCEPT ![h] = "keepalive"]
  /\ UNCHANGED <<store, caller, leaseID, kac, retryCnt>>

\* Mutant: the keep-alive reopened on heartBeat's leaseID parameter.
RetryKeepAliveOrigLease(h) ==
  /\ hpc[h] = "keepalive"
  /\ \/ /\ kac' = [kac EXCEPT ![h] = OpenStream(leaseID[h])]
        /\ hpc' = [hpc EXCEPT ![h] = "final"]
        /\ UNCHANGED <<faults, retryCnt>>
     \/ /\ Fault
        /\ kac' = [kac EXCEPT ![h] = ClosedStream(leaseID[h])]
        /\ NextRetry(h)
  /\ UNCHANGED <<stray, alive, keyLease, nextLease, inflight, down, cancelled, caller,
                 leaseID, cur, att, attLease>>

\* kac, err = r.client.KeepAlive(ctx, curLeaseID): success breaks out of the
\* loop; an error appends 1<<retryCnt to retreat, sleeps a duration drawn
\* from retreat (time is not modelled) and continues.
RetryKeepAlive(h) ==
  /\ hpc[h] = "keepalive"
  /\ \/ /\ kac' = [kac EXCEPT ![h] = OpenStream(cur[h])]
        /\ hpc' = [hpc EXCEPT ![h] = "final"]
        /\ UNCHANGED <<faults, retryCnt>>
     \/ /\ Fault
        /\ kac' = [kac EXCEPT ![h] = ClosedStream(cur[h])]
        /\ NextRetry(h)
  /\ UNCHANGED <<stray, alive, keyLease, nextLease, inflight, down, cancelled, caller,
                 leaseID, cur, att, attLease>>

\* After the loop, `if _, ok := <-kac; !ok { return }`: wait for the first
\* keep-alive response; a closed channel is taken as "retry failed".
FinalRecv(h) ==
  /\ hpc[h] = "final"
  /\ hpc' = [hpc EXCEPT ![h] = IF kac[h].open THEN "watch" ELSE "exited"]
  /\ UNCHANGED <<store, caller, leaseID, cur, kac, retryCnt, att, attLease>>

-----------------------------------------------------------------------------
(* The etcd cluster and the governing context.                             *)

StoreDown == ~down /\ Fault /\ down' = TRUE
             /\ UNCHANGED <<stray, alive, keyLease, nextLease, inflight, cancelled, caller, hbvars>>

StoreUp == down /\ down' = FALSE
           /\ UNCHANGED <<stray, alive, keyLease, nextLease, inflight, faults, cancelled, caller, hbvars>>

\* Lease l expires: its key goes and the keep-alive channels on it close.
\* A lease no goroutine uses expires at its TTL; losing one in use is a fault.
Expire(l) ==
  /\ l \in alive
  /\ IF l \in Held \cup KeptAlive THEN Fault ELSE UNCHANGED faults
  /\ alive' = alive \ {l}
  /\ keyLease' = IF keyLease = l THEN NoLease ELSE keyLease
  /\ kac' = [h \in Hb |-> IF kac[h].lease = l THEN ClosedStream(l) ELSE kac[h]]
  /\ UNCHANGED <<stray, nextLease, inflight, down, cancelled, caller,
                 hpc, leaseID, cur, retryCnt, att, attLease>>

\* A put abandoned by a timeout reaches the store; one that is lost is a
\* behaviour in which this step never happens.
LandPut(l) ==
  /\ l \in inflight
  /\ inflight' = inflight \ {l}
  /\ keyLease' = IF ~down /\ l \in alive THEN l ELSE keyLease
  /\ stray' = (stray \/ (~down /\ l \in alive))
  /\ UNCHANGED <<alive, nextLease, down, faults, cancelled, caller, hbvars>>

\* r.opts.ctx is cancelled; KeepAlive channels opened under it close.
CancelCtx ==
  /\ Cancellable /\ ~cancelled
  /\ cancelled' = TRUE
  /\ kac' = [h \in Hb |-> ClosedStream(kac[h].lease)]
  /\ UNCHANGED <<stray, alive, keyLease, nextLease, inflight, down, faults, caller,
                 hpc, leaseID, cur, retryCnt, att, attLease>>

-----------------------------------------------------------------------------
Init ==
  /\ alive = {} /\ keyLease = NoLease /\ nextLease = 0 /\ inflight = {}
  /\ down = FALSE /\ faults = 0 /\ cancelled = FALSE /\ stray = FALSE
  /\ cpc = "ready" /\ cLease = NoLease /\ calls = 0
  /\ deregistered = FALSE /\ hbCount = 0
  /\ hpc = [h \in Hb |-> "none"]
  /\ leaseID = [h \in Hb |-> NoLease]
  /\ cur = [h \in Hb |-> NoLease]
  /\ kac = [h \in Hb |-> ClosedStream(NoLease)]
  /\ retryCnt = [h \in Hb |-> 0]
  /\ att = [h \in Hb |-> "idle"]
  /\ attLease = [h \in Hb |-> NoLease]

HeartBeat(h) ==
  \/ HeartBeatStart(h) \/ HeartBeatSelect(h) \/ RetryLoop(h)
  \/ SelectTimeout(h) \/ SelectErr(h) \/ SelectId(h)
  \/ RetryKeepAlive(h) \/ FinalRecv(h)

Environment ==
  \/ StoreDown \/ StoreUp \/ CancelCtx
  \/ \E l \in Leases : Expire(l) \/ LandPut(l)

Next ==
  \/ RegisterGrant \/ RegisterPut \/ Deregister
  \/ \E h \in Hb : HeartBeat(h) \/ AttemptGrant(h) \/ AttemptPut(h)
  \/ Environment

\* Goroutines that can run are scheduled, and the store answers every
\* request; the caller, the faults and the context are not obliged to act.
Fairness ==
  /\ WF_vars(RegisterPut)
  /\ \A h \in Hb : /\ WF_vars(HeartBeatStart(h)) /\ WF_vars(HeartBeatSelect(h))
                   /\ WF_vars(RetryLoop(h)) /\ WF_vars(SelectErr(h))
                   /\ WF_vars(SelectId(h)) /\ WF_vars(RetryKeepAlive(h))
                   /\ WF_vars(FinalRecv(h))
                   /\ WF_vars(AttemptGrant(h)) /\ WF_vars(AttemptPut(h))

Spec == Init /\ [][Next]_vars /\ Fairness

-----------------------------------------------------------------------------
(* Properties.                                                             *)

Recovering(h) == hpc[h] \in {"retry", "attempt", "keepalive", "final"}

\* While the goroutine started by the latest successful Register sits in its
\* select with an open keep-alive channel, and no Deregister has returned,
\* the key is attached to exactly the lease that channel renews: heartBeat's
\* re-registration never leaves the instance on a lease nobody renews while
\* believing it healthy.
KeyOnKeptAliveLease ==
  \A h \in Hb :
    (h = hbCount /\ ~deregistered /\ hpc[h] = "watch" /\ kac[h].open)
      => keyLease = kac[h].lease

\* KeyOnKeptAliveLease holds as long as no put abandoned by the 3-second
\* timeout has landed since the last put registerWithKV reported: the late
\* put is the only way the heartBeat loses track of the key's lease.
KeyOnKeptAliveLeaseBarLatePut == ~stray => KeyOnKeptAliveLease

\* Every re-registration episode of heartBeat ends, with the goroutine back
\* in its select or returned, however long the store stays unreachable:
\* the retry loop is bounded by opts.maxRetry.
RecoveryTerminates ==
  \A h \in Hb : Recovering(h) ~> hpc[h] \in {"watch", "exited"}

\* Once Deregister has returned nil, the key stays deleted until the next
\* successful Register (spec section 8: "after Deregister, GetService
\* returns an empty sequence").
KeyGoneAfterDeregister == deregistered => keyLease = NoLease

\* The Registry keeps at most one lease alive at a time (spec section 8:
\* "after N sequential Register calls exactly one lease is held").
AtMostOneKeptAliveLease == Cardinality(KeptAlive) <= 1

\* heartBeat gives up (returns with ctx live) only after opts.maxRetry failed
\* attempts of the episode (spec section 4.2, step 5).
GiveUpOnlyWhenExhausted ==
  \A h \in Hb : hpc[h] = "exited" => cancelled \/ retryCnt[h] = MaxRetry

-----------------------------------------------------------------------------
(* Refinement: each heartBeat goroutine implements the lease supervisor of *)
(* LeaseSupervisor.                                                        *)

\* The supervisor state of each goroutine program counter.
PcState == [none |-> "UNLEASED", start |-> "LEASED", watch |-> "OK",
            retry |-> "RECOVERING", attempt |-> "RECOVERING",
            keepalive |-> "RECOVERING", final |-> "RECOVERING",
            exited |-> "CLOSED"]

\* An attempt's lease has been received on idChan and its keep-alive not
\* yet acknowledged (retryCnt = maxRetry at "final" means the loop ran out).
Acquired(h) == hpc[h] \in {"keepalive", "final"} /\ retryCnt[h] < MaxRetry

Supervisor == INSTANCE LeaseSupervisor
                WITH Sup <- Hb, st <- [h \in Hb |-> PcState[hpc[h]]],
                     attempts <- retryCnt,
                     acquired <- [h \in Hb |-> Acquired(h)],
                     cancelled <- cancelled

\* Every behaviour of Register, Deregister and the heartBeat goroutines is a
\* behaviour of the section 4.2 supervisor (with the two departures that
\* LeaseSupervisor documents): the goroutine leaves its select for a
\* re-registration only on a stream closed with ctx live, counts every
\* failed attempt, stops at maxRetry, and, since the supervisor's own steps
\* are fair, never stays in an episode forever.
SupervisorRefined == Supervisor!Spec

=============================================================================
