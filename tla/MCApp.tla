-------------------------------- MODULE MCApp -------------------------------
(* Model-checking instance of App; the .cfg files give the bounds.        *)
EXTENDS App

CONSTANTS s1, s2

\* New(WithServer(s1, s2), WithEndpoints(u), WithRegistrar(r), one hook of
\* each kind, WithName(n)).
MCAppOptions ==
  << [kind |-> "server", srvs |-> {s1, s2}], [kind |-> "endpoints", n |-> 1],
     [kind |-> "registrar"], [kind |-> "beforeStart"], [kind |-> "afterStart"],
     [kind |-> "beforeStop"], [kind |-> "afterStop"], [kind |-> "other"] >>
=============================================================================
