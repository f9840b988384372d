----------------------------- MODULE MCGrpcServer -----------------------------
(* Model-checking instance of GrpcServer; the .cfg files give the bounds.  *)
EXTENDS GrpcServer

\* Operation "1" is a skipped URL.
MCSkip == {<<1>>}

\* One token of each kind ParseToken tells apart: one without exp, and
\* unsigned (Claims.Valid runs first and panics); a bad signature; an
\* expired one; one whose ExpiresAt equals IssuedAt long ago; a fresh one.
MCTokens ==
  {[signed |-> FALSE, dated |-> FALSE, zeroLife |-> FALSE, expired |-> FALSE],
   [signed |-> FALSE, dated |-> TRUE,  zeroLife |-> FALSE, expired |-> FALSE],
   [signed |-> TRUE,  dated |-> TRUE,  zeroLife |-> FALSE, expired |-> TRUE],
   [signed |-> TRUE,  dated |-> TRUE,  zeroLife |-> TRUE,  expired |-> TRUE],
   [signed |-> TRUE,  dated |-> TRUE,  zeroLife |-> FALSE, expired |-> FALSE]}

\* The interceptor lists a service passes to NewServer: request logging,
\* language and authorization for unary calls and for streams.
MCUnaryInts == <<"reqlog", "lang", "auth">>
MCStreamInts == <<"reqlog", "lang", "auth">>

\* Authorization alone, for unary calls.
MCAuthOnly == <<"auth">>
MCNoInts == <<>>

=============================================================================
