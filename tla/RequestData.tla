------------------------------- MODULE RequestData -------------------------------
(***************************************************************************)
(* What the integrations read of the request they are in, when reading may *)
(* fail: the body, the user, the address and the host. An accessor is "ok",*)
(* "absent" (no such attribute, an empty value) or "raises".               *)
(***************************************************************************)
EXTENDS PyValues

Accessor == {"ok", "absent", "raises"}
NoBody == "<unavailable>"

(* A plausible slip: the parsed form first. *)
DjangoFormFirst(method, body, raw, post) ==
    IF post = "ok" THEN "POST" ELSE IF body = "ok" THEN "body" ELSE NoBody

(* Django: GET and HEAD have no body; then request.body, the older         *)
(* raw_post_data, the parsed form.                                         *)
DjangoBody(method, body, raw, post) ==
    IF method \in {"GET", "HEAD"} THEN "none"
    ELSE IF body = "ok" THEN "body"
    ELSE IF raw = "ok" THEN "raw_post_data"
    ELSE IF post = "ok" THEN "POST" ELSE NoBody

(* DjangoRestFrameworkCompatMiddleware reads the body of a request that is *)
(* neither a form nor a file, so that it is there after REST framework has *)
(* read the stream; then the body of any other raises.                     *)
CachesBody(contentType) == contentType \notin {"form", "multipart", "octet-stream"}
BodyAfterRead(contentType) == IF CachesBody(contentType) THEN "ok" ELSE "raises"

(* Sentry404CatchMiddleware: the response that goes on, and whether the    *)
(* page is reported. None is what a capture without an event leaves.       *)
Catch404(response, captured) ==
    IF response.status # 404 \/ response.ignorable \/ ~ response.enabled
    THEN [response |-> "response", reported |-> FALSE]
    ELSE [response |-> IF captured THEN "response" ELSE None, reported |-> captured]

(* Flask, Sanic and Bottle ask for the JSON or the form, as the content     *)
(* type says; what cannot be read is an empty body. ("raises" is for Flask  *)
(* the error of werkzeug that the client has gone; any other leaves the     *)
(* event without its request.)                                              *)
RetrievedBody(isJson, json, form) ==
    CASE isJson /\ json = "ok" -> "json"
      [] ~ isJson /\ form = "ok" -> "form"
      [] OTHER -> "empty"

-----------------------------------------------------------------------------

(* Django's get_user_info(): what has been read before an error is kept.   *)
DjangoUserInfo(user) ==
    LET read == {"ip_address"}
        rest == (IF user.email = "ok" THEN {"email"} ELSE {}) \cup
                (IF user.email # "raises" /\ user.username = "ok" THEN {"username"} ELSE {})
    IN  IF user.authenticated # "ok" THEN read      \* no user, not logged in, or an error
        ELSE IF user.pk # "ok" THEN read
        ELSE read \cup {"id"} \cup rest

(* Flask: the address, then Flask-Login's user; an error is left to        *)
(* before_request(), which logs it and has no user context at all.         *)
FlaskUserInfo(user) ==
    LET read == IF user.address = "ok" THEN {"ip_address"} ELSE {}
    IN  IF user.authenticated = "absent" THEN read
        ELSE IF "raises" \in {user.authenticated, user.pk, user.username} THEN {}
        ELSE read \cup {"id"} \cup (IF user.username = "ok" THEN {"username"} ELSE {})

(* Tornado's mixin: an error is no user. *)
TornadoUserInfo(current) ==
    IF current = "raises" THEN {} ELSE {"is_authenticated"}

(* The AWS event: identity is looked up with [], in a requestContext that  *)
(* may be of another kind of event.                                        *)
LambdaUserInfo(requestContext, identity) ==
    IF requestContext # "ok" THEN {}
    ELSE IF identity = "absent" THEN {"KeyError"}
    ELSE IF identity = "empty" THEN {}
    ELSE {"id", "username", "ip_address", "user_agent"}

LambdaHttp(path, method) == path = "ok" /\ method = "ok"

-----------------------------------------------------------------------------
(* Django's routes *)

(* The key of RouteResolver._cache: the pattern, not what includes it. *)
CacheKey(route) == route.pattern

(* RouteResolver.resolve(): the routes are the chains of includes that end *)
(* in a pattern, in their order; the first one that matches gives the path *)
(* a name, which is kept; a path that none matches is its own name.        *)
Resolve(resolver, matching) ==
    LET hits == {i \in DOMAIN resolver.routes : resolver.routes[i] \in matching}
        first == resolver.routes[Min(hits)]
        key == CacheKey(first)
    IN  IF hits = {} THEN [resolver EXCEPT !.name = "path"]
        ELSE IF key \in DOMAIN resolver.cache THEN [resolver EXCEPT !.name = resolver.cache[key]]
        ELSE [resolver EXCEPT !.name = first, !.cache = Put(@, key, first)]

-----------------------------------------------------------------------------
(* raven.utils.wsgi *)

(* The names of the headers: of HTTP_X the X, except for the two that CGI  *)
(* names without HTTP_.                                                    *)
GetHeaders(environ) ==
    {h.name : h \in {e \in environ :
        IF e.name \in {"Content-Type", "Content-Length"} THEN ~ e.http ELSE e.http}}

GetEnviron(names) == names \cap {"REMOTE_ADDR", "SERVER_NAME", "SERVER_PORT"}

GetClientIp(forwarded, remote) ==
    IF forwarded # <<>> THEN Head(forwarded) ELSE remote

DefaultPort(scheme) == IF scheme = "https" THEN 443 ELSE 80

(* The host that the proxy, the client or the server names; the port is    *)
(* left away where it is the scheme's.                                     *)
GetHost(environ) ==
    LET named == IF environ.forwarded # <<>> THEN environ.forwarded
                 ELSE IF environ.host # <<>> THEN environ.host
                 ELSE <<"server", environ.port>>
        default == Len(named) = 2 /\ named[2] = DefaultPort(environ.scheme)
    IN  IF default THEN <<named[1]>> ELSE named

=============================================================================
