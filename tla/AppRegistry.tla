----------------------------- MODULE AppRegistry -----------------------------
(***************************************************************************)
(* App (src/app/app.go) with the etcd Registry (src/endpoint/etcd) as its  *)
(* registrar.  Run's Register call is the Registry's Register: its Grant   *)
(* under the errgroup's context, then its Put, after which the heartBeat   *)
(* goroutine runs.  Stop's Deregister is the Registry's Delete, made from  *)
(* whichever goroutine calls Stop, so it may run while Run is inside      *)
(* Register.  "The instance is registered" is the store holding its key.   *)
(***************************************************************************)
EXTENDS Naturals

CONSTANTS Options, CallsMayFail,
          MaxRetry, MaxRegisterCalls, MaxFaults, LatePuts, Cancellable

VARIABLES
  rpc, runErr, instance, appCancelled, egErr, srv, startG, stopG, sigG,
  signalled, spc, sres, lsn, adv, rpcOpen,
  alive, keyLease, nextLease, inflight, down, faults, cancelled, stray,
  cpc, cLease, calls, deregistered, hbCount,
  hpc, leaseID, cur, kac, retryCnt, att, attLease

R == INSTANCE EtcdRegistry
A == INSTANCE App WITH registered <- keyLease # R!NoLease

appVars == <<rpc, runErr, instance, appCancelled, egErr, srv, startG, stopG,
             sigG, signalled, spc, sres, lsn, adv, rpcOpen>>
regStore == <<alive, keyLease, nextLease, inflight, down, faults, cancelled, stray>>
regHb == <<hpc, leaseID, cur, kac, retryCnt, att, attLease>>
regVars == <<regStore, cpc, cLease, calls, deregistered, hbCount, regHb>>
vars == <<appVars, regVars>>

Init == R!Init /\ A!Init

\* The App's Run and Stop steps that do not call the registrar.
AppOnly ==
  /\ UNCHANGED regVars
  /\ \/ A!RunBuild \/ A!RunBeforeStart \/ A!RunSpawn \/ A!RunAfterStart
     \/ A!RunWait
     \/ \E s \in A!Servers : \/ A!ServerStart(s) \/ A!ServeReturns(s) \/ A!ServerStop(s)
                            \/ A!GracefulStopDone(s) \/ A!OpenRPC(s) \/ A!EndRPC(s)
     \/ A!SigCtxDone \/ A!Signal \/ A!ExtStop
     \/ \E c \in A!Callers : A!StopBeforeStop(c) \/ A!StopCancel(c)

\* The Registry's own goroutines and the etcd cluster.
RegistryOnly ==
  /\ \/ \E h \in R!Hb : R!HeartBeat(h) \/ R!AttemptGrant(h) \/ R!AttemptPut(h)
     \/ R!Environment
  /\ UNCHANGED appVars

\* Run calls Register(registrarContext, instance): a done context fails the
\* Grant; otherwise Register closes r.lease and grants a lease, and an error
\* of the Grant is Run's result.
RunRegisterC ==
  /\ rpc = "register"
  /\ \/ A!EgCtxDone /\ A!RunReturn(TRUE) /\ UNCHANGED regVars
     \/ /\ ~A!EgCtxDone /\ R!RegisterGrant
        /\ IF cpc' = "put" THEN rpc' = "registering" /\ UNCHANGED runErr
                           ELSE A!RunReturn(TRUE)
  /\ UNCHANGED <<instance, appCancelled, egErr, srv, startG, stopG, sigG,
                 signalled, spc, sres, lsn, adv, rpcOpen>>

\* registerWithKV's Put under the same context: on success Register starts
\* heartBeat and returns nil, and Run goes on to the afterStart hooks; a
\* Put that fails, or that finds the context done, is Run's error.
RegisterReplyC ==
  /\ rpc = "registering"
  /\ \/ /\ ~A!EgCtxDone /\ R!RegisterPut
        /\ IF hbCount' > hbCount THEN rpc' = "afterStart" /\ UNCHANGED runErr
                                 ELSE A!RunReturn(TRUE)
     \/ /\ A!EgCtxDone /\ cpc = "put"
        /\ cpc' = "ready" /\ cLease' = R!NoLease /\ A!RunReturn(TRUE)
        /\ UNCHANGED <<regStore, calls, deregistered, hbCount, regHb>>
  /\ UNCHANGED <<instance, appCancelled, egErr, srv, startG, stopG, sigG,
                 signalled, spc, sres, lsn, adv, rpcOpen>>

\* Stop, with an instance set, calls Deregister: the Delete of the key, at
\* once, whatever Register is doing; its error ends Stop before a.cancel().
StopDeregisterC(c) ==
  /\ spc[c] = "deregister"
  /\ \/ /\ A!HasRegistrar /\ instance /\ ~down /\ R!DeregisterCall
        /\ spc' = [spc EXCEPT ![c] = "cancel"] /\ UNCHANGED <<sres, sigG, egErr>>
     \/ /\ A!HasRegistrar /\ instance /\ down /\ R!DeregisterCall
        /\ A!StopReturn(c, "err")
     \/ /\ ~(A!HasRegistrar /\ instance)
        /\ spc' = [spc EXCEPT ![c] = "cancel"]
        /\ UNCHANGED <<sres, sigG, egErr, regVars>>
  /\ UNCHANGED <<rpc, runErr, instance, appCancelled, srv, startG, stopG,
                 signalled, lsn, adv, rpcOpen>>

Next ==
  \/ AppOnly \/ RegistryOnly
  \/ RunRegisterC \/ RegisterReplyC
  \/ \E c \in A!Callers : StopDeregisterC(c)

Spec == Init /\ [][Next]_vars

-----------------------------------------------------------------------------
\* When a Stop call has returned nil and Run has returned, the etcd store
\* no longer holds the instance's key: Stop's Deregister must come after
\* any Put of Run's Register.
NoRegistrationAfterStop == A!NoRegistrationAfterStop

=============================================================================
