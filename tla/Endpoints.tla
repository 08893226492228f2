----------------------------- MODULE Endpoints -----------------------------
(***************************************************************************)
(* Who may do what at the gateway: credentials and tokens (core/auth.py),  *)
(* the scope each route asks for and the status it answers with            *)
(* (core/gateway.py), and the handshake of the WebSocket.                  *)
(*                                                                         *)
(* A token is NoToken, or [signed, expired, scopes], signed telling        *)
(* whether the secret in use signed it.  Credentials are [key, bearer,     *)
(* query]: an API key, the token of the Authorization header, the token of *)
(* the query.  The settings used are [enabled, key, secret].  A key,       *)
(* presented or configured, is "odd" when it is not all ASCII.  A request  *)
(* is one whose body the web framework accepts.                            *)
(***************************************************************************)
EXTENDS ModuleRegistry

CONSTANT NoToken

Keys == {"none", "right", "wrong", "odd"}
AllTokens(scopes) == [signed : BOOLEAN, expired : BOOLEAN, scopes : SUBSET scopes]
Credentials(scopes) ==
    [key : Keys, bearer : AllTokens(scopes) \cup {NoToken},
     query : AllTokens(scopes) \cup {NoToken}]
GatewaySettings == [enabled : BOOLEAN, key : {"none", "plain", "odd"}, secret : BOOLEAN]

\* The scopes that the code names; a token may have others.
ScopesUsed == {"*", "read", "invoke", "ingest", "model:admin", "agent:run"}

\* What authentication comes to: a principal, an HTTPException, or an error
\* that nobody expects.
Principal(scopes) == [outcome |-> "principal", scopes |-> scopes]
Refusal == [outcome |-> "refused", scopes |-> {}]
Failure == [outcome |-> "failed", scopes |-> {}]

HasScope(principal, scope) == {"*", scope} \cap principal.scopes # {}

\* _api_key_ok; compare_digest raises for texts that are not ASCII.
ApiKey(settings, key) ==
    IF "none" \in {settings.key, key} THEN "no"
    ELSE IF "odd" \in {settings.key, key} THEN "raises"
    ELSE IF key = "right" THEN "yes" ELSE "no"

\* decode_access_token succeeds.
Decodes(settings, token) ==
    token # NoToken /\ settings.secret /\ token.signed /\ ~token.expired

\* create_access_token, with the scopes issue_token falls back on; a lifetime
\* of no minutes or less has passed at once.
Mint(scopes, minutes) ==
    [signed |-> TRUE, expired |-> minutes <= 0,
     scopes |-> IF scopes = {} THEN {"read", "invoke"} ELSE scopes]

\* What a token makes of its bearer.
FromToken(settings, bearer) ==
    IF Decodes(settings, bearer) THEN Principal(bearer.scopes) ELSE Refusal

\* Mutant of Authenticate: a wrong API key is refused before the token is seen.
AuthenticateKeyFirst(settings, key, bearer) ==
    IF ~settings.enabled THEN Principal({"*"})
    ELSE CASE ApiKey(settings, key) = "yes"    -> Principal({"*"})
           [] ApiKey(settings, key) = "raises" -> Failure
           [] OTHER -> IF key = "none" THEN FromToken(settings, bearer) ELSE Refusal

\* authenticate: the API key, then the token.
Authenticate(settings, key, bearer) ==
    IF ~settings.enabled THEN Principal({"*"})
    ELSE CASE ApiKey(settings, key) = "yes"    -> Principal({"*"})
           [] ApiKey(settings, key) = "raises" -> Failure
           [] OTHER -> FromToken(settings, bearer)

\* Mutant of AuthenticateWs: the query is read when there is no header.
AuthenticateWsHeaderFirst(settings, cred) ==
    Authenticate(settings, cred.key, IF cred.bearer # NoToken THEN cred.bearer ELSE cred.query)

\* authenticate_ws: a token in the query replaces the header.  Only an
\* HTTPException is caught.
AuthenticateWs(settings, cred) ==
    Authenticate(settings, cred.key, IF cred.query # NoToken THEN cred.query ELSE cred.bearer)

-----------------------------------------------------------------------------
(* The routes. *)

Views == {"GET /capabilities", "GET /capabilities/c", "GET /modules/m",
          "GET /storage/connectors", "GET /mcp/servers", "GET /tools",
          "GET /model/status", "GET /model/files", "GET /model/params"}
AdminRoutes == {"POST /model/load", "POST /model/switch", "POST /model/unload",
                "POST /model/params"}
Routes == Views \cup AdminRoutes
            \cup {"GET /health", "POST /auth/token", "POST /capabilities/c/invoke",
                  "POST /chat", "POST /ingest"}

\* What a route depends on: nothing, any principal, the API key, or a scope.
Need(route) ==
    CASE route = "GET /health"      -> "nothing"
      [] route = "POST /auth/token" -> "key"
      [] route \in Views            -> "principal"
      [] route \in AdminRoutes      -> "model:admin"
      [] route = "POST /ingest"     -> "ingest"
      [] OTHER                      -> "invoke"

\* What a principal is asked for.
Admitted(principal, need) ==
    CASE principal.outcome = "failed"  -> 500
      [] principal.outcome = "refused" -> 401
      [] OTHER -> IF need = "principal" \/ HasScope(principal, need) THEN 200 ELSE 403

\* The dependency of a route: 200 when the handler is reached.
Admission(settings, cred, route) ==
    CASE Need(route) = "nothing" -> 200
      [] Need(route) = "key"     ->
           Admitted(Authenticate(settings, cred.key, NoToken), "principal")
      [] OTHER -> Admitted(Authenticate(settings, cred.key, cred.bearer), Need(route))

\* The application when a request arrives, after the startup: [reg, health,
\* engine, store], the health of the modules beside those of the model stack,
\* and the state of the engine, "absent" without a model stack.
Engines == {"absent", "unloaded", "loading", "ready", "stopping", "error"}
StackModules == {"model-manager", "llm-serving"}
IsApp(app) ==
    /\ IsRegistration(app.reg) /\ RegisteredOnce(app.reg)
    /\ app.health \in [Names(app.reg) \ StackModules -> {"ok", "degraded", "down", "absent"}]
    /\ app.engine \in Engines /\ app.store \in BOOLEAN
    /\ Providers(app.reg, "chat") = IF app.engine = "absent" THEN {} ELSE {"llm-serving"}
    /\ IF app.engine = "absent" THEN Names(app.reg) \cap StackModules = {}
       ELSE /\ StackModules \subseteq Names(app.reg)
            /\ app.reg.deps["llm-serving"] = <<"model-manager">>
            /\ app.reg.deps["model-manager"] = <<>>

\* is_serving.
IsServing(app) == app.engine = "ready"

\* Mutant of Health: the serving module is well as soon as it has started.
HealthOnceStarted(app, name) ==
    CASE name = "model-manager" -> IF app.engine = "error" THEN "degraded" ELSE "ok"
      [] name = "llm-serving"   -> "ok"
      [] OTHER                  -> app.health[name]

\* Mutant of Health: an engine that failed takes its manager down.
HealthDownOnError(app, name) ==
    CASE name = "model-manager" -> IF app.engine = "error" THEN "down" ELSE "ok"
      [] name = "llm-serving"   -> IF IsServing(app) THEN "ok" ELSE "absent"
      [] OTHER                  -> app.health[name]

\* health of each module; the two of the model stack have started.
Health(app, name) ==
    CASE name = "model-manager" -> IF app.engine = "error" THEN "degraded" ELSE "ok"
      [] name = "llm-serving"   -> IF IsServing(app) THEN "ok" ELSE "absent"
      [] OTHER                  -> app.health[name]

HealthyModules(app) == {name \in Names(app.reg) : Health(app, name) \in {"ok", "degraded"}}

\* What a request asks: the capability or module it is about, whether it names a
\* model or attachments, whether that, or the upload, is good, and whether the
\* engine fails.
AllRequests == [target : STRING, names : BOOLEAN, file : BOOLEAN, fails : BOOLEAN]

\* The handlers; 413 stands for every refusal of an upload.
Handled(settings, route, app, request) ==
    CASE route = "POST /auth/token" -> IF settings.secret THEN 200 ELSE 503
      [] route = "GET /health" ->
           HealthCode({Health(app, m) : m \in Names(app.reg)})
      [] route = "GET /modules/m" -> IF request.target \in Names(app.reg) THEN 200 ELSE 404
      [] route = "POST /capabilities/c/invoke" ->
           InvokeStatus(app.reg, HealthyModules(app), request.target)
      [] route \in {"GET /model/status", "GET /model/files", "GET /model/params"} ->
           IF app.engine = "absent" THEN 503 ELSE 200
      [] route = "POST /model/unload" -> IF app.engine = "absent" THEN 503 ELSE 200
      [] route = "POST /model/load" ->
           IF app.engine = "absent" THEN 503
           ELSE IF ~request.file THEN 400
           ELSE IF app.engine \in {"loading", "ready"} THEN 200 ELSE 202
      [] route = "POST /model/switch" ->
           IF app.engine = "absent" THEN 503
           ELSE IF ~request.names \/ ~request.file THEN 400
           ELSE IF app.engine = "loading" THEN 409 ELSE 202
      [] route = "POST /model/params" ->
           IF app.engine = "absent" THEN 503 ELSE IF IsServing(app) THEN 200 ELSE 409
      [] route = "POST /chat" ->
           IF ~IsServing(app) \/ (request.names /\ ~app.store) THEN 503
           ELSE IF request.names /\ ~request.file THEN 400
           ELSE IF request.fails THEN 502 ELSE 200
      [] route = "POST /ingest" ->
           IF ~app.store THEN 503 ELSE IF request.file THEN 200 ELSE 413
      [] OTHER -> 200

Reply(settings, cred, route, app, request) ==
    IF Admission(settings, cred, route) # 200 THEN Admission(settings, cred, route)
    ELSE Handled(settings, route, app, request)

\* The WebSocket: the handshake fails, or the socket is closed with 1008, or
\* it stays open; a task on it needs its own scope.
Handshake(settings, cred) ==
    LET outcome == AuthenticateWs(settings, cred).outcome IN
    IF outcome = "failed" THEN "failed" ELSE IF outcome = "refused" THEN "closed" ELSE "open"
WsRuns(settings, cred) == HasScope(AuthenticateWs(settings, cred), "agent:run")

-----------------------------------------------------------------------------
(* Properties. *)

\* The two credentials and the two transports agree: a request passes exactly
\* when its key or its token alone passes, except that a key that cannot be
\* compared, itself or the configured one not being ASCII, fails the request
\* whatever the token says; on the socket a token in the query counts as the
\* one of the header would on a REST route, for passing, refusing and failing;
\* a token that was minted opens what its scopes name until it expires, and
\* never the minting of another; with neither secret configured everything
\* protected is refused (auth.py:74-146, gateway.py:157-166 and 406-421).
CredentialsAgree(settings, cred, route, minutes) ==
    LET status(c) == Admission(settings, c, route)
        only(key, bearer) == [key |-> key, bearer |-> bearer, query |-> NoToken]
        byKey == status(only(cred.key, NoToken))
        byToken == status(only("none", cred.bearer))
        minted == Mint(IF Need(route) \in {"key", "principal"} THEN {} ELSE {Need(route)}, minutes)
        socket == [cred EXCEPT !.bearer = IF cred.query = NoToken THEN @ ELSE cred.query,
                               !.query = NoToken]
        guarded == settings.enabled /\ Need(route) # "nothing"
    IN  /\ status(cred) = 200 <=> byKey = 200 \/ (byToken = 200 /\ byKey # 500)
        /\ status(cred) = 500 <=> byKey = 500
        /\ byKey = 500 => guarded /\ "odd" \in {settings.key, cred.key}
        /\ <<Handshake(settings, cred), Admission(settings, socket, "GET /tools")>>
             \in {<<"open", 200>>, <<"closed", 401>>, <<"failed", 500>>}
        /\ WsRuns(settings, cred) => Handshake(settings, cred) = "open"
        /\ guarded /\ settings.secret =>
             (status(only("none", minted)) = 200 <=> minutes > 0 /\ Need(route) # "key")
        /\ guarded /\ settings.key = "none" /\ ~settings.secret =>
             status(cred) = 401 /\ Handshake(settings, cred) = "closed"

\* Whoever may use a route is answered `code` exactly when `condition` holds.
AnswersWhen(settings, cred, app, route, request, code, condition) ==
    Admission(settings, cred, route) = 200 =>
      (Reply(settings, cred, route, app, request) = code <=> condition)

\* What discovery offers is what the routes do, in every state of the engine and
\* the modules: whoever may chat is answered 503 exactly when `chat` is not
\* offered, and so for setting parameters and for invoking the capability; no
\* module that rests on the serving one, at any distance, is offered without
\* it; and the engine, failed or not, never makes the platform unhealthy
\* (gateway.py:169-182, 238-247 and 321-338; model_manager/module.py:55-62,
\* llm_serving.py:189-195, registry.py:121-156).
OffersAreServed(settings, cred, app, request) ==
    LET offered == AvailableCapabilities(app.reg, HealthyModules(app)) IN
    /\ AnswersWhen(settings, cred, app, "POST /chat", [request EXCEPT !.names = FALSE],
                   503, "chat" \notin offered)
    /\ AnswersWhen(settings, cred, app, "POST /model/params", request, 200, "chat" \in offered)
    /\ AnswersWhen(settings, cred, app, "POST /capabilities/c/invoke",
                   [request EXCEPT !.target = "chat"], 200, "chat" \in offered)
    /\ AnswersWhen(settings, cred, app, "GET /health", request, 503,
                   \E m \in Names(app.reg) \ StackModules : app.health[m] = "down")
    /\ \A m \in Names(app.reg) :
         "llm-serving" \in Needs(app.reg, m) /\ "chat" \notin offered =>
           ~IsAvailable(app.reg, HealthyModules(app), m)
=============================================================================
