-------------------------------- MODULE App ---------------------------------
(***************************************************************************)
(* App.Run and App.Stop of src/app/app.go.  Run builds the instance, runs  *)
(* the beforeStart hooks, starts two errgroup goroutines per server (one   *)
(* runs srv.Start, one waits for the group's context and runs srv.Stop),   *)
(* registers the instance, runs the afterStart hooks, starts the signal    *)
(* goroutine and waits for the group.  Stop, called by another goroutine   *)
(* ("ext") or by the signal goroutine ("sig"), runs the beforeStop hooks,  *)
(* deregisters the instance it reads under a.mu, and cancels a.ctx.        *)
(*                                                                         *)
(* The registrar is the endpoint.Registrar interface the App sees:         *)
(* Register sends its write while the context is live and its reply comes  *)
(* back later; a Register that fails writes nothing.  Servers behave as    *)
(* transport/grpc's: Endpoint() and Start share listenAndEndpoint's        *)
(* listener, Start serves until Stop, and a Start after Stop returns an    *)
(* error.                                                                  *)
(***************************************************************************)
EXTENDS Naturals, FiniteSets

LOCAL Seqs == INSTANCE SequencesExt

CONSTANTS
  Options,        \* the options passed to New, in order: records whose kind
                  \* is "endpoints" (n URLs), "server" (srvs), "registrar",
                  \* a hook, or "other" (WithID, WithName, WithVersion,
                  \* WithMetadata, WithContext, WithLogger, the timeouts)
  CallsMayFail    \* may a hook, a listen, an Extract or a registrar call fail?

Hooks == {"beforeStart", "afterStart", "beforeStop", "afterStop"}

\* The options struct as New fills it before the options run: no endpoint,
\* no registrar, no server and no hook.
DefaultOptions ==
  [endpoints |-> 0, registrar |-> FALSE, servers |-> {},
   beforeStart |-> 0, afterStart |-> 0, beforeStop |-> 0, afterStop |-> 0]

\* One Option applied to o: WithEndpoints and WithServer replace their
\* lists, WithRegistrar sets the registrar, and the hook options append.
ApplyOption(o, op) ==
  CASE op.kind = "endpoints" -> [o EXCEPT !.endpoints = op.n]
    [] op.kind = "server"    -> [o EXCEPT !.servers = op.srvs]
    [] op.kind = "registrar" -> [o EXCEPT !.registrar = TRUE]
    [] op.kind \in Hooks     -> [o EXCEPT ![op.kind] = @ + 1]
    [] OTHER                 -> o

\* New: `for _, opt := range opts { opt(&o) }`.
NewOptions(opts) == Seqs!FoldLeft(ApplyOption, DefaultOptions, opts)

opts == NewOptions(Options)

Servers == opts.servers             \* a.opts.servers
HasRegistrar == opts.registrar      \* a.opts.registrar != nil
HasEndpoints == opts.endpoints > 0  \* len(a.opts.endpoints) > 0

Callers == {"ext", "sig"}

VARIABLES
  rpc,           \* Run's program counter
  runErr,        \* Run returned an error
  instance,      \* a.instance has been set
  appCancelled,  \* a.cancel has been called
  egErr,         \* an errgroup goroutine returned an error
  srv,           \* server state
  startG,        \* the goroutine running srv.Start
  stopG,         \* the goroutine waiting to run srv.Stop
  sigG,          \* the signal goroutine
  signalled,     \* a signal has been delivered
  spc,           \* program counter of Stop, per caller
  sres,          \* Stop's result, per caller
  registered,    \* the registrar holds the instance
  lsn,           \* per server: its listener, endpoint and s.err
  adv,           \* per server: the port of its endpoint in a.instance, 0 if none
  rpcOpen        \* per server: a client RPC (a stream, such as health Watch) is open

vars == <<rpc, runErr, instance, appCancelled, egErr, srv, startG, stopG,
          sigG, signalled, spc, sres, registered, lsn, adv, rpcOpen>>

lsvars == <<lsn, adv, rpcOpen>>

\* The context of the errgroup (and of Register) is done.
EgCtxDone == appCancelled \/ egErr

\* A listen, an Extract or a registrar call returns an error.
Fails == CallsMayFail

\* beforeStart, afterStart, beforeStop, afterStop: the loop over the hooks
\* returns the first error, so it can fail only when there is a hook.
HookFails(h) == CallsMayFail /\ opts[h] > 0

\* Run returns, with or without an error.
RunReturn(err) == rpc' = "done" /\ runErr' = err

\* A server's listener state: the port of its listener (0: none; a listen
\* on ":0" takes a fresh port, the k-th listen port k), the port its endpoint
\* was extracted from (0: none), and whether s.err is set.
NoListener == [lis |-> 0, ep |-> 0, err |-> FALSE]

\* WithServerListener(lis) gives the server the listener of port 1 before
\* Start; its endpoint is still extracted by listenAndEndpoint.
GivenListener == [NoListener EXCEPT !.lis = 1]

\* Mutant: the `s.listener == nil` test left out, so every call listens.
ListenAndEndpointRelisten(r) ==
  LET l == r.lis + 1
      listenFails == IF Fails THEN {[r EXCEPT !.err = TRUE]} ELSE {}
      extracted == IF r.ep # 0 THEN {[r EXCEPT !.lis = l]}
                   ELSE {[r EXCEPT !.lis = l, !.ep = l]}
                        \cup (IF Fails THEN {[r EXCEPT !.lis = l, !.err = TRUE]} ELSE {})
  IN listenFails \cup extracted

\* Server.listenAndEndpoint: Listen when there is no listener, Extract the
\* endpoint from the listener when there is none; a failure of either is
\* stored in s.err and returned, otherwise s.err, which nothing resets, is
\* returned.  The states the call may leave; it fails iff err is set.
ListenAndEndpoint(r) ==
  LET l == IF r.lis = 0 THEN r.lis + 1 ELSE r.lis
      listenFails == IF r.lis = 0 /\ Fails THEN {[r EXCEPT !.err = TRUE]} ELSE {}
      extracted == IF r.ep # 0 THEN {[r EXCEPT !.lis = l]}
                   ELSE {[r EXCEPT !.lis = l, !.ep = l]}
                        \cup (IF Fails THEN {[r EXCEPT !.lis = l, !.err = TRUE]} ELSE {})
  IN listenFails \cup extracted

Init ==
  /\ rpc = "build" /\ runErr = FALSE /\ instance = FALSE
  /\ appCancelled = FALSE /\ egErr = FALSE
  /\ srv = [s \in Servers |-> "idle"]
  /\ startG = [s \in Servers |-> "none"]
  /\ stopG = [s \in Servers |-> "none"]
  /\ sigG = "none" /\ signalled = FALSE
  /\ spc = [c \in Callers |-> "idle"]
  /\ sres = [c \in Callers |-> "none"]
  /\ registered = FALSE
  /\ lsn \in [Servers -> {NoListener, GivenListener}]
  /\ adv = [s \in Servers |-> 0]
  /\ rpcOpen = [s \in Servers |-> FALSE]

-----------------------------------------------------------------------------
(* Run                                                                     *)

\* The listener states buildInstance may leave server s in: with endpoints
\* configured it calls s.Endpoint(), i.e. listenAndEndpoint; otherwise it
\* calls nothing and the instance gets no server endpoint.
BuildCalls(s) == IF HasEndpoints THEN ListenAndEndpoint(lsn[s]) ELSE {lsn[s]}

\* buildInstance, then setInstance under a.mu: each server's endpoint goes
\* into the instance, and an Endpoint() error is Run's.  Servers after a
\* failing one are not called, but Run then returns and never starts them,
\* so the model lets every server be called.
RunBuild ==
  /\ rpc = "build"
  /\ \E r \in [Servers -> UNION {BuildCalls(s) : s \in Servers}] :
       /\ \A s \in Servers : r[s] \in BuildCalls(s)
       /\ lsn' = r
       /\ IF \E s \in Servers : r[s].err
            THEN RunReturn(TRUE) /\ UNCHANGED <<instance, adv>>
            ELSE /\ instance' = TRUE /\ rpc' = "beforeStart"
                 /\ adv' = [s \in Servers |-> r[s].ep] /\ UNCHANGED runErr
  /\ UNCHANGED <<appCancelled, egErr, srv, startG, stopG, sigG, signalled,
                 spc, sres, registered, rpcOpen>>

RunBeforeStart ==
  /\ rpc = "beforeStart"
  /\ \/ rpc' = "spawn" /\ UNCHANGED runErr
     \/ HookFails("beforeStart") /\ RunReturn(TRUE)
  /\ UNCHANGED <<lsvars, instance, appCancelled, egErr, srv, startG, stopG, sigG,
                 signalled, spc, sres, registered>>

\* The eg.Go calls of lines 166-177.
RunSpawn ==
  /\ rpc = "spawn"
  /\ startG' = [s \in Servers |-> "run"]
  /\ stopG' = [s \in Servers |-> "run"]
  /\ rpc' = IF HasRegistrar THEN "register" ELSE "afterStart"
  /\ UNCHANGED <<lsvars, runErr, instance, appCancelled, egErr, srv, sigG, signalled,
                 spc, sres, registered>>

\* Register(registrarContext, instance): a done context fails the call at
\* once; otherwise the write is sent.
RunRegister ==
  /\ rpc = "register"
  /\ \/ ~EgCtxDone /\ rpc' = "registering" /\ UNCHANGED runErr
     \/ EgCtxDone /\ RunReturn(TRUE)
  /\ UNCHANGED <<lsvars, instance, appCancelled, egErr, srv, startG, stopG, sigG,
                 signalled, spc, sres, registered>>

\* Register's reply.
RegisterReply ==
  /\ rpc = "registering"
  /\ \/ registered' = TRUE /\ rpc' = "afterStart" /\ UNCHANGED runErr
     \/ Fails /\ RunReturn(TRUE) /\ UNCHANGED registered
  /\ UNCHANGED <<lsvars, instance, appCancelled, egErr, srv, startG, stopG, sigG,
                 signalled, spc, sres>>

\* The afterStart hooks, then the signal goroutine of lines 189-198.
RunAfterStart ==
  /\ rpc = "afterStart"
  /\ \/ rpc' = "wait" /\ sigG' = "select" /\ UNCHANGED runErr
     \/ HookFails("afterStart") /\ RunReturn(TRUE) /\ UNCHANGED sigG
  /\ UNCHANGED <<lsvars, instance, appCancelled, egErr, srv, startG, stopG,
                 signalled, spc, sres, registered>>

\* eg.Wait returns when every goroutine of the group has returned; an error
\* other than context.Canceled is Run's result, else afterStop's is.
RunWait ==
  /\ rpc = "wait"
  /\ \A s \in Servers : startG[s] = "done" /\ stopG[s] = "done"
  /\ sigG = "done"
  /\ \/ egErr /\ RunReturn(TRUE)
     \/ ~egErr /\ RunReturn(FALSE)
     \/ ~egErr /\ HookFails("afterStop") /\ RunReturn(TRUE)
  /\ UNCHANGED <<lsvars, instance, appCancelled, egErr, srv, startG, stopG, sigG,
                 signalled, spc, sres, registered>>

-----------------------------------------------------------------------------
(* Servers and the signal goroutine                                        *)

\* srv.Start: listenAndEndpoint, whose error is returned to the group,
\* then Serve on s.listener, which returns grpc.ErrServerStopped once
\* GracefulStop has begun.
ServerStart(s) ==
  /\ startG[s] = "run"
  /\ \E r \in ListenAndEndpoint(lsn[s]) :
       /\ lsn' = [lsn EXCEPT ![s] = r]
       /\ \/ ~r.err /\ srv[s] = "idle" /\ srv' = [srv EXCEPT ![s] = "serving"]
             /\ startG' = [startG EXCEPT ![s] = "serve"] /\ UNCHANGED egErr
          \/ (r.err \/ srv[s] \in {"stopping", "stopped"})
             /\ startG' = [startG EXCEPT ![s] = "done"] /\ egErr' = TRUE
             /\ UNCHANGED srv
  /\ UNCHANGED <<rpc, runErr, instance, appCancelled, stopG, sigG, signalled,
                 spc, sres, registered, adv, rpcOpen>>

\* Serve returns nil once GracefulStop has returned (grpc-go's Serve waits
\* for the server's done event after quit).
ServeReturns(s) ==
  /\ startG[s] = "serve" /\ srv[s] = "stopped"
  /\ startG' = [startG EXCEPT ![s] = "done"]
  /\ UNCHANGED <<lsvars, rpc, runErr, instance, appCancelled, egErr, srv, stopG,
                 sigG, signalled, spc, sres, registered>>

\* <-ctx.Done(), then srv.Stop: health.Shutdown and GracefulStop, which
\* closes the listener and refuses new RPCs.  Stop is passed a context
\* with a.opts.stopTimeout but never reads it.
ServerStop(s) ==
  /\ stopG[s] = "run" /\ EgCtxDone
  /\ srv' = [srv EXCEPT ![s] = "stopping"]
  /\ stopG' = [stopG EXCEPT ![s] = "drain"]
  /\ UNCHANGED <<lsvars, rpc, runErr, instance, appCancelled, egErr, startG, sigG,
                 signalled, spc, sres, registered>>

\* GracefulStop returns once every RPC in flight has ended; srv.Stop then
\* returns nil to the group.
GracefulStopDone(s) ==
  /\ stopG[s] = "drain" /\ ~rpcOpen[s]
  /\ srv' = [srv EXCEPT ![s] = "stopped"]
  /\ stopG' = [stopG EXCEPT ![s] = "done"]
  /\ UNCHANGED <<lsvars, rpc, runErr, instance, appCancelled, egErr, startG, sigG,
                 signalled, spc, sres, registered>>

\* A client opens an RPC on a serving server, or ends the one it has open.
\* Clients are outside the program: neither step is bound to happen.
OpenRPC(s) ==
  /\ srv[s] = "serving" /\ ~rpcOpen[s]
  /\ rpcOpen' = [rpcOpen EXCEPT ![s] = TRUE]
  /\ UNCHANGED <<lsn, adv, rpc, runErr, instance, appCancelled, egErr, srv,
                 startG, stopG, sigG, signalled, spc, sres, registered>>

EndRPC(s) ==
  /\ rpcOpen[s]
  /\ rpcOpen' = [rpcOpen EXCEPT ![s] = FALSE]
  /\ UNCHANGED <<lsn, adv, rpc, runErr, instance, appCancelled, egErr, srv,
                 startG, stopG, sigG, signalled, spc, sres, registered>>

\* The signal goroutine's select: the group's context is done.
SigCtxDone ==
  /\ sigG = "select" /\ EgCtxDone
  /\ sigG' = "done"
  /\ UNCHANGED <<lsvars, rpc, runErr, instance, appCancelled, egErr, srv, startG,
                 stopG, signalled, spc, sres, registered>>

\* A signal arrives; the goroutine calls a.Stop().
Signal ==
  /\ sigG = "select" /\ ~signalled
  /\ signalled' = TRUE /\ sigG' = "stop"
  /\ spc' = [spc EXCEPT !["sig"] = "beforeStop"]
  /\ UNCHANGED <<lsvars, rpc, runErr, instance, appCancelled, egErr, srv, startG,
                 stopG, sres, registered>>

-----------------------------------------------------------------------------
(* Stop                                                                    *)

\* Mutant: the signal goroutine calls a.Stop() and returns nil.
StopReturnSwallowed(c, r) ==
  /\ spc' = [spc EXCEPT ![c] = "done"]
  /\ sres' = [sres EXCEPT ![c] = r]
  /\ sigG' = IF c = "sig" THEN "done" ELSE sigG
  /\ egErr' = egErr

\* Stop returns r to caller c; the signal goroutine returns it to the group.
StopReturn(c, r) ==
  /\ spc' = [spc EXCEPT ![c] = "done"]
  /\ sres' = [sres EXCEPT ![c] = r]
  /\ sigG' = IF c = "sig" THEN "done" ELSE sigG
  /\ egErr' = (egErr \/ (c = "sig" /\ r = "err"))

\* Another goroutine calls a.Stop().
ExtStop ==
  /\ spc["ext"] = "idle"
  /\ spc' = [spc EXCEPT !["ext"] = "beforeStop"]
  /\ UNCHANGED <<lsvars, rpc, runErr, instance, appCancelled, egErr, srv, startG,
                 stopG, sigG, signalled, sres, registered>>

StopBeforeStop(c) ==
  /\ spc[c] = "beforeStop"
  /\ \/ spc' = [spc EXCEPT ![c] = "deregister"] /\ UNCHANGED <<sres, sigG, egErr>>
     \/ HookFails("beforeStop") /\ StopReturn(c, "err")
  /\ UNCHANGED <<lsvars, rpc, runErr, instance, appCancelled, srv, startG, stopG,
                 signalled, registered>>

\* getInstance under a.mu, then Deregister when there is a registrar and an
\* instance.
StopDeregister(c) ==
  /\ spc[c] = "deregister"
  /\ \/ /\ HasRegistrar /\ instance
        /\ registered' = FALSE
        /\ spc' = [spc EXCEPT ![c] = "cancel"] /\ UNCHANGED <<sres, sigG, egErr>>
     \/ /\ HasRegistrar /\ instance /\ Fails
        /\ StopReturn(c, "err") /\ UNCHANGED registered
     \/ /\ ~(HasRegistrar /\ instance)
        /\ spc' = [spc EXCEPT ![c] = "cancel"]
        /\ UNCHANGED <<sres, sigG, egErr, registered>>
  /\ UNCHANGED <<lsvars, rpc, runErr, instance, appCancelled, srv, startG, stopG,
                 signalled>>

\* Mutant: a.cancel() left out of Stop.
StopNoCancel(c) ==
  /\ spc[c] = "cancel"
  /\ StopReturn(c, "ok")
  /\ UNCHANGED <<lsvars, rpc, runErr, instance, appCancelled, srv, startG, stopG,
                 signalled, registered>>

\* a.cancel(); Stop returns nil.
StopCancel(c) ==
  /\ spc[c] = "cancel"
  /\ appCancelled' = TRUE
  /\ StopReturn(c, "ok")
  /\ UNCHANGED <<lsvars, rpc, runErr, instance, srv, startG, stopG, signalled,
                 registered>>

-----------------------------------------------------------------------------
Run == RunBuild \/ RunBeforeStart \/ RunSpawn \/ RunRegister \/ RegisterReply
       \/ RunAfterStart \/ RunWait

Stop(c) == StopBeforeStop(c) \/ StopDeregister(c) \/ StopCancel(c)

Next ==
  \/ Run
  \/ \E s \in Servers : \/ ServerStart(s) \/ ServeReturns(s) \/ ServerStop(s)
                        \/ GracefulStopDone(s) \/ OpenRPC(s) \/ EndRPC(s)
  \/ SigCtxDone \/ Signal \/ ExtStop
  \/ \E c \in Callers : Stop(c)

\* Every goroutine that can take a step is scheduled and the registrar
\* replies; nobody is obliged to call Stop or send a signal, and no client
\* is obliged to open or end an RPC.
Fairness ==
  /\ WF_vars(Run)
  /\ \A s \in Servers : WF_vars(ServerStart(s)) /\ WF_vars(ServeReturns(s))
                        /\ WF_vars(ServerStop(s)) /\ WF_vars(GracefulStopDone(s))
  /\ WF_vars(SigCtxDone)
  /\ \A c \in Callers : WF_vars(Stop(c))

Spec == Init /\ [][Next]_vars /\ Fairness

-----------------------------------------------------------------------------
\* Every RPC a client opens on the servers is eventually ended by it.
\* GracefulStop waits for that, and nothing in the program bounds the wait.
RPCsEnd == <>[](\A s \in Servers : ~rpcOpen[s])

\* Once a Stop call has returned nil, Run returns, provided the clients end
\* their RPCs: the cancel reaches every server's stop goroutine and the
\* signal goroutine, GracefulStop drains, and eg.Wait returns.
RunReturnsAfterStop ==
  RPCsEnd => ((\E c \in Callers : sres[c] = "ok") ~> rpc = "done")

\* A signal ends Run even when the Stop it triggers fails (a beforeStop
\* hook or Deregister returns an error, so a.cancel() is never reached):
\* the signal goroutine returns Stop's error to the errgroup, whose
\* context is then done, so every server is stopped and eg.Wait returns,
\* again provided the clients end their RPCs.
SignalEndsRun == RPCsEnd => (signalled ~> rpc = "done")

\* Every server that serves does so on the address the instance advertises
\* for it: Endpoint(), called by buildInstance, and Start share one listener
\* and one endpoint, so the registered instance is reachable.
AdvertisedIsServed ==
  \A s \in Servers : srv[s] = "serving" /\ adv[s] # 0 => adv[s] = lsn[s].lis

\* When a Stop call has returned nil and Run has returned, the instance is
\* no longer registered (spec section 6: Deregister before the servers stop).
NoRegistrationAfterStop ==
  (\E c \in Callers : sres[c] = "ok") /\ rpc = "done" => ~registered

=============================================================================
