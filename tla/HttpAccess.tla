------------------------------ MODULE HttpAccess ------------------------------
(* The way of a request to its handler: CORS around the routes, then, but for *)
(* the health check, the token and its role.  All of it is a function of the  *)
(* request and the configuration.                                             *)
EXTENDS Sequences, Integers

\* The permission a route requires, by the handler it leads to.
Required ==
    [requestDocument |-> "create", queryDocument  |-> "read",
     getDocument     |-> "read",   removeDocument |-> "delete",
     refreshDocument |-> "refresh", getPage       |-> "read"]

Handlers == DOMAIN Required

HasPermission(role, permission) == role.admin \/ permission \in role.permissions

\* matchCORSOrigin: the first entry that matches, as the header will show it.
MatchOrigin(allowed, origin) ==
    LET matching == {n \in DOMAIN allowed : allowed[n] \in {"*", origin}}
    IN  IF matching = {} THEN ""
        ELSE allowed[CHOOSE n \in matching : \A k \in matching : n <= k]

\* processCORS: Access-Control-Allow-Origin, "" if the header is not set.
CorsHeader(config, request) ==
    IF request.origin = "" \/ config.allow = << >> THEN ""
    ELSE MatchOrigin(config.allow, request.origin)

\* An Authorization header that begins with "Bearer " is used even if the token is
\* wrong or empty; without it the query string must have a token, not an empty one.
Token(request) ==
    IF request.bearer # "absent" THEN request.bearer
    ELSE IF request.query # "" THEN request.query ELSE "absent"

\* processAuth; no token is like an unknown one.
Authorize(config, request) ==
    LET token == Token(request)
    IN  IF DOMAIN config.roles = {} THEN "handler"
        ELSE IF token \notin DOMAIN config.roles THEN "401"
        ELSE IF HasPermission(config.roles[token], Required[request.handler])
        THEN "handler" ELSE "403"

\* ServeMux, then the chain: no route has the method OPTIONS.
Route(config, request) ==
    IF request.method = "OPTIONS" THEN "405"
    ELSE IF request.handler = "health" THEN "handler"
    ELSE Authorize(config, request)

ServeAuthFirst(config, request) ==  \* mutant: CORS within the chain, behind processAuth
    LET answer == Route(config, request)
        cors   == CorsHeader(config, request)
    IN  IF answer = "handler" THEN [answer |-> answer, cors |-> cors]
        ELSE [answer |-> answer, cors |-> ""]

\* corsHandler around all of it answers a preflight itself.
Serve(config, request) ==
    LET cors == CorsHeader(config, request)
    IN  [answer |-> IF cors # "" /\ request.method = "OPTIONS" THEN "204"
                    ELSE Route(config, request),
         cors   |-> cors]
===============================================================================
