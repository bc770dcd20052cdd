-------------------------------- MODULE Settings --------------------------------
(***************************************************************************)
(* raven.conf, raven.utils.conf, the registry of transports, and what      *)
(* Client.__init__() and set_dsn() make of them.                           *)
(***************************************************************************)
EXTENDS PyValues

-----------------------------------------------------------------------------
(* TransportRegistry: the class of each scheme.                            *)

(* A plausible slip: the last one to register has the scheme. *)
RegisterAnyScheme(registry, scheme, class) ==
    [registry EXCEPT !.schemes = Put(@, scheme, class)]

(* register_transport() registers scheme after scheme, and raises          *)
(* DuplicateScheme at the first that is taken.                             *)
RegisterScheme(registry, scheme, class) ==
    IF registry.raised \/ scheme \in DOMAIN registry.schemes
    THEN [registry EXCEPT !.raised = TRUE]
    ELSE [registry EXCEPT !.schemes = Put(@, scheme, class)]

-----------------------------------------------------------------------------
(* A DSN has a scheme and is complete or lacks its host, project or key.   *)

(* RemoteConfig.from_string(); None is InvalidDsn. *)
FromString(dsn, transport, schemes) ==
    IF transport = None /\ dsn.scheme \notin DOMAIN schemes THEN None
    ELSE IF ~ dsn.complete THEN None
    ELSE [dsn |-> dsn, active |-> TRUE,
          transport |-> IF transport = None THEN schemes[dsn.scheme] ELSE transport]

(* RemoteConfig() of no DSN: not active, it never makes its transport. *)
NoRemote(transport, default) ==
    [dsn |-> None, active |-> FALSE, transport |-> IF transport = None THEN default ELSE transport]

(* set_dsn(): the remote of each DSN is kept, with the worker its transport *)
(* has; one that is not valid raises and leaves everything as it was.      *)
Remember(cache, dsn, remote) == Put(cache, dsn, remote)

SetDsn(client, dsn, transport, environment, schemes, default) ==
    LET chosen == IF dsn = None THEN environment ELSE dsn
        remote == IF chosen = None THEN NoRemote(transport, default)
                  ELSE FromString(chosen, transport, schemes)
    IN  IF chosen \in DOMAIN client.cache
        THEN [client EXCEPT !.remote = client.cache[chosen], !.raised = FALSE]
        ELSE IF remote = None THEN [client EXCEPT !.raised = TRUE]
        ELSE LET new == Put(remote, "number", client.made + 1)
             IN  [cache |-> Remember(client.cache, chosen, new), remote |-> new,
                  made |-> client.made + 1, raised |-> FALSE]

NewClient == [cache |-> <<>>, remote |-> None, made |-> 0, raised |-> FALSE]

(* discover_default_transport(): no threads on App Engine and AWS Lambda. *)
DefaultTransport(platform) ==
    IF platform \in {"appengine", "lambda"} THEN "HTTPTransport" ELSE "ThreadedHTTPTransport"

-----------------------------------------------------------------------------
(* An option that may be given in SENTRY_CONFIG (or RAVEN_CONFIG), as      *)
(* SENTRY_X, by the integration's defaults or by the environment. "unset"  *)
(* sources do not name it; None is a value, and "falsy" stands for 0, ""   *)
(* and empty containers.                                                   *)

GetOpt(option) ==
    IF option.setting # "unset" THEN option.setting
    ELSE IF option.default # "unset" THEN option.default ELSE None

(* convert_options(): the first that names the option decides; of the       *)
(* transport, SENTRY_TRANSPORT unless it is falsy.                          *)
Convert(kind, option) ==
    IF kind = "transport"
    THEN IF GetOpt(option) \in {None, "falsy"} /\ option.config # "unset"
         THEN option.config ELSE GetOpt(option)
    ELSE IF option.config # "unset" THEN option.config ELSE GetOpt(option)

(* Client.__init__(): "or" options (name, release, environment, the         *)
(* lengths) and the transport take a falsy value for none; "none" options   *)
(* (sample_rate, processors, context) only None.                            *)
Effective(kind, option, environment, builtin) ==
    LET given == Convert(kind, option)
        lacks == given = None \/ (kind # "none" /\ given = "falsy")
    IN  IF ~ lacks THEN given
        ELSE IF kind = "or" /\ environment # "unset" THEN environment ELSE builtin

-----------------------------------------------------------------------------
(* The extensions of Flask and Sanic, which several applications may share. *)

(* What is given replaces what the extension has, for the applications to  *)
(* come; the first application decides the client, and, unless that was    *)
(* given, whether they are wrapped: not if it is in debug mode. The root   *)
(* logger has one handler (setup_logging()), an application whose records  *)
(* do not get there its own.                                               *)
InitApp(s, app) ==
    LET dsn == Or(app.dsn, s.dsn)
        wrap == Or(app.wrapWsgi, Or(s.wrapWsgi, ~ app.debug))
        signal == Or(app.registerSignal, s.registerSignal)
        logging == Or(app.logging, s.logging)
        client == Or(s.client, [dsn |-> Convert("dsn", [config |-> "unset", default |-> dsn,
                                                        setting |-> app.configured])])
    IN  [dsn |-> dsn, wrapWsgi |-> wrap, registerSignal |-> signal, logging |-> logging,
         client |-> client, root |-> s.root \/ logging,
         apps |-> Append(s.apps, [client |-> client, wrapped |-> wrap, signal |-> signal,
                                  handler |-> logging /\ ~ app.propagate])]

(* Sanic: the errors of each application are handled, by this client; its  *)
(* records reach the root logger.                                          *)
InitSanic(s, app) ==
    InitApp(s, [app EXCEPT !.wrapWsgi = FALSE, !.registerSignal = TRUE, !.propagate = TRUE])

(* install_middleware(): in front, unless one of its names is there. *)
InstallMiddleware(middleware, name, names) ==
    IF ToSet(middleware) \cap names # {} THEN middleware ELSE <<name>> \o middleware

(* initialize() of Django: the steps up to the one that fails have been    *)
(* taken, and the next call takes them again.                              *)
Initialize(s, attempt) ==
    LET sentry == InstallMiddleware(s.middleware, "Sentry", {"Sentry", "SentryLog"})
        both == InstallMiddleware(sentry, "RestFramework", {"RestFramework"})
    IN  IF s.initialized \/ attempt.fails = "serializers" THEN s
        ELSE IF attempt.fails = "middleware" THEN [s EXCEPT !.middleware = sentry]
        ELSE [middleware |-> both,
              handlers |-> s.handlers + (IF attempt.instrument THEN 1 ELSE 0),
              initialized |-> attempt.fails # "client"]

=============================================================================
