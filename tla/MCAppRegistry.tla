---------------------------- MODULE MCAppRegistry ----------------------------
(* Model-checking instance of AppRegistry; the .cfg file gives the bounds.  *)
EXTENDS AppRegistry

CONSTANT s1

\* New(WithServer(s1), WithEndpoints(u), WithRegistrar(etcd.New(...))).
MCAppOptions ==
  << [kind |-> "server", srvs |-> {s1}], [kind |-> "endpoints", n |-> 1],
     [kind |-> "registrar"] >>
=============================================================================
