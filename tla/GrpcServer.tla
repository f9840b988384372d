----------------------------- MODULE GrpcServer ------------------------------
(***************************************************************************)
(* A request to the gRPC Server of src/transport/grpc, composed from the   *)
(* middleware matcher (Matcher), middleware.Chain, the Recovery            *)
(* middleware and the interceptors of the package: authorization,         *)
(* language and request logging.                                          *)
(*                                                                         *)
(* NewServer chains the server's own interceptor first and those of        *)
(* WithServerUnaryInterceptor / WithServerStreamInterceptor after it, so   *)
(* the own one is outermost.  The own unary interceptor asks Matcher for   *)
(* the operation's middlewares and nests them with Chain around the rest   *)
(* of the chain; the own stream interceptor applies no middleware.  A      *)
(* request is its operation, its "authorization" metadata with the token   *)
(* it carries, and whether it carries the language and X-Request-ID        *)
(* headers.                                                                *)
(***************************************************************************)
EXTENDS Matcher

CONSTANTS
  Rec,        \* the middleware list holding recovery.Recovery()
  Skip,       \* the skipURLs of AuthorizationUnaryInterceptor
  UnaryInts,  \* WithServerUnaryInterceptor's list: "auth", "lang", "reqlog"
  StreamInts, \* WithServerStreamInterceptor's list, of the stream versions
  Tokens      \* the tokens requests carry

\* A token is what ParseToken looks at: whether its signature verifies,
\* whether it carries both the exp and iat claims, whether ExpiresAt equals
\* IssuedAt, and whether ExpiresAt has passed.
Token == [signed : BOOLEAN, dated : BOOLEAN, zeroLife : BOOLEAN, expired : BOOLEAN]

Interceptors == {"auth", "lang", "reqlog"}

ASSUME Rec \in MW /\ Skip \subseteq Str /\ Tokens \subseteq Token
ASSUME UnaryInts \in Seq(Interceptors) /\ StreamInts \in Seq(Interceptors)

\* The "authorization" metadata: absent, an empty value, a value without a
\* space, a non-bearer scheme, or "bearer <token>" in any letter case.
Creds == {"absent", "blank", "oneword", "basic", "bearer"}

\* The X-Device-Accept-Language metadata: absent, empty, or a language.
Langs == {"absent", "blank", "set"}

VARIABLE served   \* the request being answered and how it ended, or NoServe

serverVars == <<vars, served>>

NoServe == [kind |-> "none", rec |-> FALSE, skipped |-> FALSE,
            cred |-> "absent", tokOk |-> FALSE, rid |-> FALSE,
            panicked |-> FALSE, result |-> "none", reached |-> FALSE]

-----------------------------------------------------------------------------
\* Claims.Valid: ExpiresAt.Unix() and IssuedAt.Unix() on a nil *NumericDate
\* (a claim the token lacks) panic; a token whose ExpiresAt equals its
\* IssuedAt is valid; otherwise it is valid until ExpiresAt.
ClaimsValid(t) ==
  CASE ~t.dated                  -> "panic"
    [] t.zeroLife \/ ~t.expired  -> "ok"
    [] OTHER                     -> "invalid"

\* ParseToken: jwt.ParseWithClaims decodes the token, runs Claims.Valid, and
\* only then verifies the signature with the public key; the subject then
\* unmarshals into a UserToken.
ParseToken(t) ==
  IF ClaimsValid(t) # "ok" THEN ClaimsValid(t)
  ELSE IF t.signed THEN "ok" ELSE "invalid"

\* What an interceptor does with the bearer token: ParseToken's panic
\* propagates, its error is returned, a token it accepts goes on.
Bearer(tok) ==
  CASE ParseToken(tok) = "panic" -> "panic"
    [] ParseToken(tok) = "ok"    -> "next"
    [] OTHER                     -> "denied"

\* Mutant: the strings.EqualFold(splits[0], "bearer") test left out.
AuthorizeNoScheme(op, cred, tok) ==
  CASE op \in Skip                -> "next"
    [] cred = "absent"            -> "panic"
    [] cred \in {"blank", "oneword"} -> "unauth"
    [] OTHER                      -> Bearer(tok)

\* AuthorizationUnaryInterceptor: a skipped method goes on at once; val[0]
\* of the metadata's values (a nil slice when the key is absent, hence an
\* index-out-of-range panic); an empty value, a value with no space or a
\* scheme other than bearer is Unauthenticated; a token ParseToken rejects
\* is its error, and its panic propagates; otherwise the handler runs.
Authorize(op, cred, tok) ==
  CASE op \in Skip                -> "next"
    [] cred = "absent"            -> "panic"
    [] cred \in {"blank", "oneword", "basic"} -> "unauth"
    [] OTHER                      -> Bearer(tok)

\* AuthorizationStreamInterceptor: the same checks, without a skip list.
AuthorizeStream(cred, tok) ==
  CASE cred = "absent"            -> "panic"
    [] cred \in {"blank", "oneword", "basic"} -> "unauth"
    [] OTHER                      -> Bearer(tok)

\* LanguageUnaryInterceptor and LanguageStreamInterceptor: with no value,
\* or an empty one, the handler runs as it is; otherwise it runs with the
\* language in its context.  Either way the call goes on.
Language(lang) == "next"

\* RequestLogUnaryInterceptor calls the handler and logs afterwards; the
\* stream version reads X-Request-ID's values with [0] before it calls the
\* handler, which panics when the header is absent.
RequestLog(kind, rid) == IF kind = "stream" /\ ~rid THEN "panic" ELSE "next"

\* The chain below the server's own interceptor: the user interceptors in
\* the order the option gave them, then the service.
Inner(kind) ==
  (IF kind = "unary" THEN UnaryInts ELSE StreamInts) \o <<"service">>

\* What layer j of h does for request q: an interceptor what its code
\* decides, a middleware or the service panics when it is layer p (p = 0:
\* no panic), otherwise the middleware calls on and the service replies.
Act(h, q, p, j) ==
  CASE h[j] = "auth"     -> q.auth
    [] h[j] = "lang"     -> Language(q.lang)
    [] h[j] = "reqlog"   -> RequestLog(q.kind, q.rid)
    [] j = p             -> "panic"
    [] h[j] = "service"  -> "ok"
    [] OTHER             -> "next"

\* The first layer that does not call on ends the request: a panic is
\* turned into op.handler's error by the deferred recover of a Recovery
\* layer outside it, and crashes the server when there is none; an
\* interceptor's error or the service's reply is returned through the
\* outer layers.
Run(h, q, p) ==
  LET f == Min({j \in 1 .. Len(h) : Act(h, q, p, j) # "next"})
      a == Act(h, q, p, f)
  IN [result  |-> IF a = "panic"
                    THEN IF \E i \in 1 .. f - 1 : h[i] = Rec THEN "err"
                         ELSE "crash"
                    ELSE a,
      reached |-> h[f] = "service"]

\* Request q runs through layers h; one of its middlewares other than
\* Recovery, or its service, may panic.
Serve(h, q, op, cred, tok, rid) ==
  \E p \in {0} \cup {j \in 1 .. Len(h) : h[j] \in (MW \ {Rec}) \cup {"service"}} :
    LET r == Run(h, q, p) IN
    served' = [kind |-> q.kind, rec |-> defaults = Rec, skipped |-> op \in Skip,
               cred |-> cred, tokOk |-> ParseToken(tok) = "ok", rid |-> rid,
               panicked |-> p # 0, result |-> r.result, reached |-> r.reached]

\* unaryServerInterceptor: h is the rest of the chain, wrapped by
\* Chain(next...) when Matcher(op) is not empty; then h runs.  Requests are
\* served one at a time: they share nothing but the matcher, which they
\* only read.
Handle(op, cred, tok, lang, rid) ==
  /\ served = NoServe
  /\ LET next == MatcherOf(op)
         h == IF Len(next) > 0 THEN Chain(next, Inner("unary"))
              ELSE Inner("unary")
         q == [kind |-> "unary", auth |-> Authorize(op, cred, tok),
               lang |-> lang, rid |-> rid]
     IN Serve(h, q, op, cred, tok, rid)
  /\ UNCHANGED vars

\* streamServerInterceptor: the transport context, then the rest of the
\* chain; no middleware, so no Recovery.
HandleStream(op, cred, tok, lang, rid) ==
  /\ served = NoServe
  /\ LET q == [kind |-> "stream", auth |-> AuthorizeStream(cred, tok),
               lang |-> lang, rid |-> rid]
     IN Serve(Inner("stream"), q, op, cred, tok, rid)
  /\ UNCHANGED vars

\* The result goes back to the client (or the process is gone).
Reply == served # NoServe /\ served' = NoServe /\ UNCHANGED vars

ServerInit == Init /\ served = NoServe

\* Use and Add (WithServerMiddleware calls Use) leave requests alone.
Configure == Next /\ UNCHANGED served

ServerNext ==
  \/ Configure
  \/ \E op \in Str, cred \in Creds, tok \in Tokens, lang \in Langs,
        rid \in BOOLEAN :
       Handle(op, cred, tok, lang, rid) \/ HandleStream(op, cred, tok, lang, rid)
  \/ Reply

ServerSpec == ServerInit /\ [][ServerNext]_serverVars

-----------------------------------------------------------------------------
(* Properties.                                                             *)

\* With Recovery installed by Use, no panic of a unary call's selected
\* middleware, interceptor or service crashes the server: the defaults
\* must wrap the selected middlewares, and those the rest of the
\* interceptor chain.
RecoveredUnderDefaults ==
  served.kind = "unary" /\ served.rec => served.result # "crash"

\* With the authorization interceptor in both lists, the service handler
\* runs only for a unary call of a skipped method or for a call that
\* carries a bearer token ParseToken accepts.
AuthBeforeHandler ==
  served # NoServe /\ served.reached =>
    \/ served.kind = "unary" /\ served.skipped
    \/ served.cred = "bearer" /\ served.tokOk

\* A request for a method that is not skipped and that carries no
\* credentials is answered Unauthenticated, as the interceptor's
\* `val[0] == ""` test means it to be.
MissingCredentialsRejected ==
  served # NoServe /\ ~served.skipped /\ served.cred \in {"absent", "blank"}
    => served.result = "unauth"

=============================================================================
