------------------------------- MODULE EventCalls -------------------------------
(***************************************************************************)
(* The calls that an event is put together by, one behaviour for each: an  *)
(* input of the code's own domain is there in Init, and steps compute the  *)
(* result. A function takes one step; of what loops over calls (log        *)
(* handlers, registrations, applications) each call takes a step, so that  *)
(* result is what has come of the calls so far. Inputs have no bounds here; *)
(* EventChecks gives TLC a finite part of them. The recursive functions are *)
(* in ValueChecks.                                                         *)
(***************************************************************************)
EXTENDS Stacks, Building, RequestData, LogRecords, CrumbSources, Settings

CONSTANTS
    ContextLines,   \* context_lines of get_lines_from_file()
    MaxVarSize      \* max_var_size of get_frame_locals()

ASSUME LimitsAssumption == ContextLines \in Nat /\ MaxVarSize \in Nat \ {0}

(* Python's None is no number, truth value, text, set of keys or client. *)
ASSUME NoneAssumption ==
    /\ None \notin Nat /\ None \notin BOOLEAN /\ None \notin STRING /\ None # {}
    /\ None \notin {"response", "absent", "200", "500", "unset", "falsy", "builtin"}
    /\ None \notin [dsn : STRING \cup {None}]

VARIABLES
    input,      \* what is computed, and of what
    result      \* None until it is

vars == <<input, result>>

Asked(what) == input.do = what /\ result = None
Answered(what) == input.do = what /\ result # None
Answer(value) == result' = value /\ UNCHANGED input

-----------------------------------------------------------------------------
(* The domains of the inputs. *)

IsList(s) == Len(s) \in Nat /\ DOMAIN s = 1..Len(s)
Nones(S) == S \cup {None}

Frame == [hide : BOOLEAN, locals : Seq(Nat) \cup {None}, lineno : Nat \cup {None},
          path : BOOLEAN, loader : {"none", "error", "unknown", "source"},
          source : Nat, cached : Nat]

(* Finitely many exceptions, each with a cause and a context. *)
ExceptionsOf(chain) == DOMAIN chain.cause
IsChain(chain) ==
    LET E == ExceptionsOf(chain)
    IN  /\ IsFiniteSet(E)
        /\ chain.cause \in [E -> E \cup {None}]
        /\ chain.context \in [E -> E \cup {None}]

StackInput ==
    /\ input.do = "slim" => input.apps \in Seq(BOOLEAN) /\ input.allowance \in Nat
    /\ input.do = "trace" => input.frames \in Seq(Frame) /\ input.allowance \in Nat
    /\ input.do = "template" =>
          /\ input.breaks \in Seq(Nat) /\ input.start \in Nat /\ input.end \in Nat
          /\ \A i \in 2..Len(input.breaks) : input.breaks[i - 1] < input.breaks[i]
    /\ input.do = "chain" => IsChain(input.chain) /\ input.exc \in ExceptionsOf(input.chain)
    /\ input.do = "target" => input.stack \in Seq({"logging", "other"})

UserRead == [authenticated : Accessor, pk : Accessor, email : Accessor, username : Accessor,
             address : {"ok", "absent"}]
ReadInputs ==
    [do : {"read"}, method : {"GET", "HEAD", "POST"}, body : Accessor, raw : Accessor,
     post : Accessor, json : BOOLEAN, user : UserRead]
RestInputs ==
    [do : {"rest"}, method : {"POST"}, contentType : {"json", "form", "multipart", "octet-stream"},
     post : Accessor]
LambdaInputs ==
    [do : {"lambda"}, requestContext : {"ok", "absent"},
     identity : {"ok", "empty", "absent"}, path : {"ok", "absent"}, method : {"ok", "absent"}]
HeaderName == [name : STRING, http : BOOLEAN]

(* A host may come with a port. *)
IsHost(host) ==
    IsList(host) /\ Len(host) <= 2 /\ (Len(host) = 2 => host[2] \in Nat)

RequestInput ==
    /\ input.do = "read" => input \in ReadInputs
    /\ input.do = "rest" => input \in RestInputs
    /\ input.do = "404" =>
          /\ input.response.status \in Nat /\ input.captured \in BOOLEAN
          /\ input.response.ignorable \in BOOLEAN /\ input.response.enabled \in BOOLEAN
    /\ input.do = "lambda" => input \in LambdaInputs
    /\ input.do = "environ" =>
          /\ input.headers \subseteq HeaderName /\ input.names \subseteq STRING
          /\ input.forwarded \in Seq(STRING)
    /\ input.do = "resolve" => IsList(input.routes) /\ IsList(input.paths)
    /\ input.do = "host" =>
          /\ IsHost(input.forwarded) /\ IsHost(input.host)
          /\ input.scheme \in {"http", "https"} /\ input.port \in Nat

BuildInput ==
    input.do = "build" =>
        /\ input.event \in {"Exception", "Message", "Query"} /\ input.template \in BOOLEAN
        /\ input.web \in {"none", "django", "lambda", "tornado"}
        /\ input.client.tags # None /\ input.client.extra # None
        /\ input.client.autoLogStacks \in BOOLEAN

Outcomes == {"sent", "failed", "backing off"}
LoggingClient == [enabled : BOOLEAN, capture : Outcomes \cup {"raises"},
                  unserializable : BOOLEAN, raiseSendErrors : BOOLEAN, exclusions : SUBSET STRING]
Attribute == [name : STRING, kind : {"reserved", "private", "dotted", "contextual", "other"}]
LogHandler == [class : {"SentryHandler", "other"}, filter : BOOLEAN]

LogInput ==
    /\ input.do = "log" =>
          /\ input.handler \in Handlers /\ input.client \in LoggingClient
          /\ input.record \in [name : LoggerNames, exc : {None, "raised", "seen"}]
          /\ input.setups \in Nat \ {0}
    /\ input.do = "extract" =>
          /\ input.attributes \subseteq Attribute /\ input.data \in {"dict", "value", None}
          /\ \A a, b \in input.attributes : a.name = b.name => a = b
          /\ \A a \in input.attributes :    \* the names that data gets itself
                a.kind \in {"dotted", "contextual"} => a.name \notin {"data", "data's keys"}
    /\ input.do = "celery" =>
          /\ input.handlers \in Seq(LogHandler) /\ input.setups \in Nat \ {0}
          /\ input.record \in [data : Nones(BOOLEAN), function : STRING]

HttpOp == [do : {"put"}, url : STRING] \cup [do : {"response"}, answer : {"200", "500", "fails"}]
          \cup [do : {"session"}, url : STRING, answer : {"200", "500", "fails"}]
          \cup [do : {"event"}]
LogCall == [formats : BOOLEAN, args : {"none", "mapping", "other"},
            kwargs : SUBSET {"key", "exc_info"}, extra : Nones(SUBSET {"key", "exc_info"}),
            raised : {FALSE}, crumb : {None}]

CrumbInput ==
    /\ input.do = "http" => input.ops \in Seq(HttpOp)
    /\ input.do = "record" => input.call \in LogCall
    /\ input.do = "hook" =>
          /\ input.libraries \in [1..2 -> Seq(STRING)] /\ input.level \in Nat
          /\ input.ignore \in {"never", "first", "between", "last"}
          /\ input.handlers \in Seq(BOOLEAN)
    /\ input.do = "query" =>
          /\ input.many \in BOOLEAN /\ input.iterator \in BOOLEAN
          /\ IsList(input.holes) /\ IsList(input.params) /\ Len(input.params) >= 1
          /\ input.percent \in Nones([at : 0..Len(input.holes), end : BOOLEAN, doubled : BOOLEAN])
          /\ \A i \in DOMAIN input.params :
                input.params[i].kind = "sequence" => IsList(input.params[i].of)

Transport == [class : STRING, schemes : Seq(STRING)]
Dsn == [scheme : STRING, complete : BOOLEAN, key : STRING]
DsnCall == [dsn : Nones(Dsn), transport : Nones(STRING)]
App == [dsn : Nones(STRING), wrapWsgi : Nones(BOOLEAN), registerSignal : Nones(BOOLEAN),
        logging : Nones(BOOLEAN), debug : BOOLEAN, propagate : BOOLEAN, configured : STRING]
Attempt == [fails : {"nowhere", "serializers", "middleware", "client"}, instrument : BOOLEAN]

SettingInput ==
    /\ input.do = "register" => input.transports \in Seq(Transport)
    /\ input.do = "dsn" => input.environment \in Nones(Dsn) /\ input.calls \in Seq(DsnCall)
    /\ input.do = "apps" => input.sanic \in BOOLEAN /\ input.apps \in Seq(App)
    /\ input.do = "initialize" =>
          input.attempts \in Seq(Attempt) /\ input.middleware \in Seq(STRING)
    /\ input.do = "option" =>
          /\ input.kind \in {"or", "none", "transport"}
          /\ input.option \in [config : Nones(STRING), setting : Nones(STRING),
                               default : Nones(STRING)]
          /\ input.environment \in STRING \ {"falsy"}     \* nor is a variable that is empty set

Init ==
    /\ StackInput /\ RequestInput /\ BuildInput /\ LogInput /\ CrumbInput /\ SettingInput
    /\ result = None

-----------------------------------------------------------------------------
(* Functions. *)

Slim == Asked("slim") /\ Answer(SlimFrameData(input.apps, input.allowance))
Trace == Asked("trace") /\ Answer(GetStackInfo(input.frames, ContextLines, MaxVarSize,
                                               input.allowance))
Chain == Asked("chain") /\ Answer(ExceptionValues(input.exc, input.chain))
PlaceModule ==
    Asked("in_app")
    /\ Answer(<<InApp(input.set, input.module, input.includes, input.excludes),
                DjangoInApp(input.set, input.module, input.includes, input.excludes)>>)
Target == Asked("target") /\ Answer(TargettedStack(input.stack))
ReadTemplate ==
    Asked("template") /\ Answer(TemplateContext(Len(input.breaks),
                                    TemplateLine(input.breaks, input.start, input.end)))

BuildEvent ==
    /\ Asked("build")
    /\ Answer(CASE input.web = "none" ->
                      BuildMsg(input.client, input.context, input.event, input.data, input.call)
                [] input.web = "django" ->
                      DjangoCapture(input.client, input.context, input.event, input.data,
                                    input.call, TRUE, input.template, "Site")
                [] input.web = "lambda" ->
                      LambdaCapture(input.client, input.context, input.event, input.data,
                                    input.call, TRUE, TRUE, FALSE)
                [] input.web = "tornado" ->
                      BuildMsg(input.client, input.context, input.event, TornadoData(input.data),
                               input.call))

Read ==
    /\ Asked("read")
    /\ Answer([django |-> DjangoBody(input.method, input.body, input.raw, input.post),
               retrieved |-> RetrievedBody(input.json, input.body, input.post),
               tornadoUser |-> TornadoUserInfo(input.user.authenticated),
               djangoUser |-> DjangoUserInfo(input.user),
               flaskUser |-> FlaskUserInfo(input.user)])
ReadRest ==
    Asked("rest") /\ Answer(DjangoBody(input.method, BodyAfterRead(input.contentType), "absent",
                                       input.post))
NotFound == Asked("404") /\ Answer(Catch404(input.response, input.captured))
ReadLambda ==
    Asked("lambda") /\ Answer([user |-> LambdaUserInfo(input.requestContext, input.identity),
                               http |-> LambdaHttp(input.path, input.method)])
ReadEnviron ==
    Asked("environ") /\ Answer([headers |-> GetHeaders(input.headers), env |-> GetEnviron(input.names),
                                ip |-> GetClientIp(input.forwarded, input.remote)])
ReadHost == Asked("host") /\ Answer(GetHost(input))

Extract == Asked("extract") /\ Answer(ExtractExtra(input.attributes, input.data))
ProcessLog ==
    /\ Asked("record")
    /\ LET first == ProcessRecord(input.call)
       IN  Answer(IF first.raised THEN <<first, ProcessRecord(first)>> ELSE <<first>>)
RunQuery == Asked("query") /\ Answer(RecordSql(input))
ConfigureOption ==
    Asked("option") /\ Answer(Effective(input.kind, input.option, input.environment, "builtin"))

-----------------------------------------------------------------------------
(* Calls that remember, one a step. *)

Going(what) == input.do = what /\ result # None

(* Paths that one resolver is asked for; result has it after each. *)
ResolveFirst ==
    Asked("resolve") /\ Answer(<<[routes |-> input.routes, cache |-> <<>>, name |-> None]>>)
ResolveNext ==
    /\ Going("resolve") /\ Len(result) <= Len(input.paths)
    /\ Answer(Append(result, Resolve(Last(result), input.paths[Len(result)])))

(* A record of the application, when setup_logging() has been called as    *)
(* often as setups says. calls are the calls of callHandlers() under way,  *)
(* the innermost first: each with its record and the handler that is next. *)
(* An exception goes up through all of them.                               *)
Logging(record) == [record |-> record, next |-> 1]

LogFirst ==
    Asked("log") /\ Answer([handlers |-> <<>>, setups |-> 0, begun |-> FALSE, calls |-> <<>>,
                            events |-> 0, raised |-> FALSE])
LogSetup ==
    /\ Going("log") /\ result.setups < input.setups
    /\ Answer([result EXCEPT !.handlers = SetupLogging(@, input.handler), !.setups = @ + 1])
LogCalled ==
    /\ Going("log") /\ result.setups = input.setups /\ ~ result.begun
    /\ Answer([result EXCEPT !.begun = TRUE, !.calls = <<Logging(input.record)>>])
LogEmit ==
    /\ Going("log") /\ result.calls # <<>> /\ ~ result.raised
    /\ LET call == Head(result.calls)
           emit == Emit(result.handlers[call.next], input.client, call.record)
       IN  /\ call.next <= Len(result.handlers)
           /\ Answer([result EXCEPT
                         !.calls = [i \in DOMAIN emit.logs |-> Logging(emit.logs[i])]
                                   \o <<[call EXCEPT !.next = @ + 1]>> \o Tail(@),
                         !.events = @ + emit.events, !.raised = emit.raised])
LogReturn ==
    /\ Going("log") /\ result.calls # <<>> /\ ~ result.raised
    /\ Head(result.calls).next > Len(result.handlers)
    /\ Answer([result EXCEPT !.calls = Tail(@)])

(* A record of Celery, when its signal has been sent as often. *)
CeleryFirst ==
    Asked("celery") /\ Answer([handlers |-> input.handlers, setups |-> 0, reports |-> {}])
CelerySetup ==
    /\ Going("celery") /\ result.setups < input.setups
    /\ LET handlers == ProcessLoggerEvent(result.handlers)
       IN  Answer([handlers |-> handlers, setups |-> result.setups + 1,
                   reports |-> CeleryReports(handlers, input.record)])

(* Requests over HTTP, and events. *)
HttpFirst == Asked("http") /\ Answer([s |-> NewConnection, done |-> 0])
HttpNext ==
    /\ Going("http") /\ result.done < Len(input.ops)
    /\ Answer([s |-> Http(result.s, input.ops[result.done + 1]), done |-> result.done + 1])

(* hook_libraries() twice, with ignore_logger() before, between or after,  *)
(* and then a record of urllib3's logger: crumb says whether it is one.    *)
Ignoring(s, when) ==
    IF input.ignore = when THEN [s EXCEPT !.ignored = IgnoreLogger(@, "urllib3", None)] ELSE s

HookFirst ==
    Asked("hook") /\ Answer([s |-> Ignoring(HookNothing, "first"), call |-> 1, done |-> 0,
                             raised |-> <<>>, crumb |-> None])
HookNext ==
    /\ Going("hook") /\ result.call <= 2 /\ result.done < Len(input.libraries[result.call])
    /\ Answer([result EXCEPT !.s = HookLibrary(@, input.libraries[result.call][result.done + 1]),
                             !.done = @ + 1])
HookReturn ==
    /\ Going("hook") /\ result.call <= 2 /\ result.done = Len(input.libraries[result.call])
    /\ LET s == Ignoring([result.s EXCEPT !.raised = FALSE],
                         IF result.call = 1 THEN "between" ELSE "last")
       IN  Answer([s |-> s, call |-> result.call + 1, done |-> 0,
                   raised |-> Append(result.raised, result.s.raised),
                   crumb |-> IF result.call = 1 THEN None
                             ELSE RecordLog(input.handlers, s.ignored, "urllib3", input.level)])

(* Applications that share an extension of Flask, or of Sanic. *)
Extension == [dsn |-> None, wrapWsgi |-> None, registerSignal |-> TRUE, logging |-> FALSE,
              client |-> None, root |-> FALSE, apps |-> <<>>]
AppsFirst == Asked("apps") /\ Answer(Extension)
AppsNext ==
    /\ Going("apps") /\ Len(result.apps) < Len(input.apps)
    /\ LET app == input.apps[Len(result.apps) + 1]
       IN  Answer(IF input.sanic THEN InitSanic(result, app) ELSE InitApp(result, app))

InitializeFirst ==
    Asked("initialize")
    /\ Answer([s |-> [middleware |-> input.middleware, handlers |-> 0, initialized |-> FALSE],
               done |-> 0])
InitializeNext ==
    /\ Going("initialize") /\ result.done < Len(input.attempts)
    /\ Answer([s |-> Initialize(result.s, input.attempts[result.done + 1]),
               done |-> result.done + 1])

(* register_transport() of each transport, a scheme a step; result has the *)
(* schemes before the first and after each, and of each whether it raised. *)
RegisterFirst ==
    Asked("register") /\ Answer([schemes |-> <<>>, raised |-> FALSE, done |-> 0,
                                 seen |-> <<[schemes |-> <<>>, raised |-> FALSE]>>])
RegisterNext ==
    /\ Going("register") /\ Len(result.seen) <= Len(input.transports)
    /\ LET transport == input.transports[Len(result.seen)]
       IN  /\ result.done < Len(transport.schemes)
           /\ Answer([RegisterScheme(result, transport.schemes[result.done + 1], transport.class)
                         EXCEPT !.done = @ + 1])
RegisterReturn ==
    /\ Going("register") /\ Len(result.seen) <= Len(input.transports)
    /\ result.done = Len(input.transports[Len(result.seen)].schemes)
    /\ Answer([result EXCEPT !.raised = FALSE, !.done = 0,
                  !.seen = Append(@, [schemes |-> result.schemes, raised |-> result.raised])])

(* set_dsn() on one client; result has it after each. *)
Schemes == Put(<<>>, "http", "ThreadedHTTPTransport")
DsnFirst == Asked("dsn") /\ Answer(<<NewClient>>)
DsnNext ==
    /\ Going("dsn") /\ Len(result) <= Len(input.calls)
    /\ LET call == input.calls[Len(result)]
       IN  Answer(Append(result, SetDsn(Last(result), call.dsn, call.transport, input.environment,
                                        Schemes, DefaultTransport("server"))))

-----------------------------------------------------------------------------

Next ==
    \/ Slim \/ Trace \/ Chain \/ PlaceModule \/ Target \/ ReadTemplate \/ BuildEvent
    \/ Read \/ ReadRest \/ NotFound \/ ReadLambda \/ ReadEnviron \/ ReadHost
    \/ ResolveFirst \/ ResolveNext
    \/ LogFirst \/ LogSetup \/ LogCalled \/ LogEmit \/ LogReturn \/ Extract
    \/ CeleryFirst \/ CelerySetup
    \/ HttpFirst \/ HttpNext \/ ProcessLog \/ HookFirst \/ HookNext \/ HookReturn \/ RunQuery
    \/ AppsFirst \/ AppsNext \/ InitializeFirst \/ InitializeNext
    \/ RegisterFirst \/ RegisterNext \/ RegisterReturn \/ DsnFirst \/ DsnNext \/ ConfigureOption

Spec == Init /\ [][Next]_vars

=============================================================================
