------------------------------- MODULE EventChecks -------------------------------
(***************************************************************************)
(* The calls of EventCalls for TLC: inputs of bounded size, all of them of *)
(* the domains that EventCalls gives (BoundedInit has both), and beside    *)
(* them the recursive functions of ValueChecks.                            *)
(***************************************************************************)
EXTENDS ValueChecks

CONSTANT Allowances     \* the values of frame_allowance

Slims == [do : {"slim"}, apps : SeqUpTo(BOOLEAN, 7), allowance : Allowances]

(* Frames of two kinds of locals; hidden or not; with or without a path. *)
ShownFrames ==
    [hide : BOOLEAN, locals : {None, <<>>, <<2, 2, 1>>, <<MaxVarSize, 1>>},
     lineno : {None, 0, 1, 3, 6}, path : BOOLEAN,
     loader : {"none", "error", "source"}, source : {0, 5}, cached : {0, 4}]
PlainFrame == [hide |-> FALSE, locals |-> <<1>>, lineno |-> 1, path |-> TRUE,
               loader |-> "none", source |-> 0, cached |-> 3]
Traces ==
    [do : {"trace"}, frames : {<<PlainFrame, f, PlainFrame>> : f \in ShownFrames},
     allowance : {2}]

RaisedExceptions == 1..3
Chains ==
    [do : {"chain"}, exc : {1},
     chain : [cause : [RaisedExceptions -> RaisedExceptions \cup {None}],
              context : [RaisedExceptions -> RaisedExceptions \cup {None}],
              suppress : [RaisedExceptions -> BOOLEAN]]]

Modules == {{}, {"raven"}, {"django"}, {"app"}, {"app", "app.vendored"}}
Placings == [do : {"in_app"}, set : {None, TRUE, FALSE}, module : Modules,
             includes : {{}, {"app"}, {"raven", "django"}}, excludes : {{}, {"app.vendored"}}]

Stackings == [do : {"target"}, stack : SeqUpTo({"logging", "other"}, 5)]

(* Dictionaries of one key "a", absent, empty or not, in all sources that  *)
(* build_msg() merges; the other fields, one question at a time.           *)
Dict(source) == {<<>>, "a" :> source}
Optional(key, values) == {<<>>} \cup {key :> v : v \in values}
Joined(A, C) == {f @@ g : f \in A, g \in C}

PlainClient == [tags |-> <<>>, extra |-> <<>>, site |-> None, release |-> None,
                environment |-> None, autoLogStacks |-> FALSE, transaction |-> None,
                crumbs |-> None]

TagBuilds ==
    [do : {"build"}, event : {"Message"}, web : {"none", "django", "lambda", "tornado"}, template : {FALSE},
     client : {[PlainClient EXCEPT !.tags = t, !.extra = t, !.site = s] :
                   t \in Dict("client"), s \in {None, "client"}},
     context : Joined(Optional("tags", Dict("context")), Optional("extra", Dict("context"))),
     data : Joined(Optional("tags", Dict("data")), Optional("site", {None, "data"})),
     call : {("tags" :> t) @@ ("extra" :> t) : t \in Dict("call") \cup {None}}]
FieldBuilds ==
    [do : {"build"}, event : {"Exception", "Message", "Query"},
     web : {"none", "django", "lambda", "tornado"},
     template : {FALSE},
     client : {[PlainClient EXCEPT !.release = r, !.autoLogStacks = s] :
                   r \in {None, "client"}, s \in BOOLEAN},
     context : Joined(Optional("level", {"context"}), Optional("user", {"context"})),
     data : Joined(Joined(Optional("level", {None, "data"}), Optional("user", {"data"})),
                   Optional("release", {"data"})),
     call : Joined(Optional("level", {None, "call"}), Optional("stack", {TRUE, FALSE}))]
NameBuilds ==
    [do : {"build"}, event : {"Exception", "Message"}, web : {"none", "django"},
     template : BOOLEAN,
     client : {[PlainClient EXCEPT !.transaction = t, !.crumbs = c] :
                   t \in {None, "client"}, c \in {None, "client"}},
     context : Optional("culprit", {"context"}),
     data : Joined(Optional("culprit", {None, "data"}), Optional("breadcrumbs", {"data"})),
     call : Joined(Optional("message", {"call"}), Optional("fingerprint", {"call"}))]

NotFounds ==
    [do : {"404"}, response : [status : {200, 404}, ignorable : BOOLEAN, enabled : BOOLEAN],
     captured : BOOLEAN]
Environs ==
    [do : {"environ"}, headers : SUBSET [name : {"Content-Type", "Accept"}, http : BOOLEAN],
     names : SUBSET {"REMOTE_ADDR", "SERVER_NAME", "PATH"},
     forwarded : {<<>>, <<"client">>, <<"client", "proxy">>}, remote : {None, "proxy"}]
Hosts ==
    [do : {"host"}, scheme : {"http", "https"}, port : {80, 443, 8080},
     forwarded : {<<>>, <<"proxy">>, <<"proxy", 443>>}, host : {<<>>, <<"client", 80>>}]
Templates ==
    [do : {"template"}, breaks : {<<2, 3, 6>>, <<1>>, <<1, 2, 3, 4, 5, 6, 7>>}, start : 0..6,
     end : 0..7]
Routes == [parents : {"a", "b"}, pattern : {"p", "q"}]
Resolvings ==
    [do : {"resolve"}, routes : {s \in [1..3 -> Routes] : IsInjective(s)},
     paths : [1..2 -> SUBSET Routes]]

Logs ==
    [do : {"log"}, handler : Handlers,
     record : [name : LoggerNames, exc : {None, "raised", "seen"}], setups : 1..2,
     client : [enabled : BOOLEAN, capture : {"sent", "failed", "backing off", "raises"},
               unserializable : BOOLEAN, raiseSendErrors : BOOLEAN,
               exclusions : {{}, {"class"}, {"wildcard", "name"}, {"no match"}}]]
Attributes == {[name |-> k, kind |-> k] :
                  k \in {"reserved", "private", "dotted", "contextual", "other"}}
Extracts == [do : {"extract"}, attributes : SUBSET Attributes, data : {"dict", "value", None}]

CeleryHandlers == [class : {"SentryHandler", "other"}, filter : {FALSE}]
CeleryRecords == [data : BOOLEAN \cup {None}, function : {"_log_error", "other"}]
CeleryLogs ==
    [do : {"celery"}, handlers : SeqUpTo(CeleryHandlers, 3), setups : 1..2, record : CeleryRecords]

(* Requests over one connection and of the requests library, and events. *)
Answers == {"200", "500", "fails"}
Urls == {"a", "b"}
HttpOps ==
    [do : {"put"}, url : Urls] \cup [do : {"response"}, answer : Answers]
    \cup [do : {"session"}, url : Urls, answer : Answers] \cup [do : {"event"}]
(* An event is the last operation. *)
HttpLogs == [do : {"http"}, ops : {Append(ops, [do |-> "event"]) : ops \in [1..4 -> HttpOps]}]
LogCalls == [do : {"record"}, call : LogCall]
Libraries == SeqUpTo({"requests", "httplib", "other"}, 2)
Hookings ==
    [do : {"hook"}, libraries : [1..2 -> Libraries], ignore : {"never", "first", "between", "last"},
     level : {20, 40}, handlers : SeqUpTo(BOOLEAN, 1)]
Parameters == SeqUpTo({None, "long", "p"}, 2)
Bindings(holes) ==
    {[kind |-> "sequence", of |-> f] : f \in Parameters} \cup {[kind |-> "none"]}
    \cup {[kind |-> "dict", of |-> f] : f \in UNION {[S -> {None, "p", "q"}] : S \in SUBSET ToSet(holes)}}
(* The end of a query has all of its holes before it. *)
Percents(holes) ==
    {None} \cup {p \in [at : 0..Len(holes), end : BOOLEAN, doubled : BOOLEAN] :
                     p.end => p.at = Len(holes)}
Queries ==
    UNION {[do : {"query"}, holes : {h}, percent : Percents(h), many : BOOLEAN,
            iterator : BOOLEAN, params : [1..2 -> Bindings(h)]] :
              h \in {<<>>, <<"x">>, <<"x", "y">>, <<"x", "x">>}}

GivenTransports == {[class |-> c, schemes |-> s] :
                  c \in {"A", "C"}, s \in {<<"x">>, <<"x", "y">>, <<"y", "x">>, <<"z", "x", "y">>}}
Registrations == [do : {"register"}, transports : [1..3 -> GivenTransports]]
Dsns == [scheme : {"http", "other"}, complete : BOOLEAN, key : {"k1", "k2"}]
DsnCalls ==
    [do : {"dsn"}, environment : {None, [scheme |-> "http", complete |-> TRUE, key |-> "k1"]},
     calls : [1..3 -> [dsn : Dsns \cup {None}, transport : {None, "T"}]]]
GivenApps == [dsn : {None, "d1"}, wrapWsgi : {None, TRUE, FALSE}, registerSignal : {None, FALSE},
         logging : {None, TRUE, FALSE}, debug : BOOLEAN, propagate : BOOLEAN,
         configured : {"unset", "setting"}]
AppSetups ==
    [do : {"apps"}, sanic : BOOLEAN, apps : [1..2 -> GivenApps]]
Initializings ==
    [do : {"initialize"}, attempts : [1..3 -> Attempt],
     middleware : SeqUpTo({"Sentry", "SentryLog", "RestFramework", "own"}, 2)]
Unusable == {"unset", None, "falsy"}
Options ==
    [do : {"option"}, kind : {"or", "none", "transport"},
     option : [config : Unusable \cup {"config"}, setting : Unusable \cup {"setting"},
               default : Unusable \cup {"default"}],
     environment : {"unset", "environment"}]

-----------------------------------------------------------------------------

BoundedInit ==
    /\ \/ input \in Slims \/ input \in Traces \/ input \in Templates \/ input \in Chains
       \/ input \in Stackings \/ input \in Placings
       \/ input \in TagBuilds \/ input \in FieldBuilds \/ input \in NameBuilds
       \/ input \in ReadInputs \/ input \in RestInputs \/ input \in NotFounds
       \/ input \in LambdaInputs \/ input \in Environs \/ input \in Hosts
       \/ input \in Resolvings \/ input \in Logs \/ input \in Extracts \/ input \in CeleryLogs
       \/ input \in HttpLogs \/ input \in LogCalls \/ input \in Hookings \/ input \in Queries
       \/ input \in AppSetups \/ input \in Initializings
       \/ input \in Registrations \/ input \in DsnCalls \/ input \in Options
    /\ Init

BoundedSpec == (BoundedInit \/ ValueInit) /\ [][Next \/ ValueNext]_vars

=============================================================================
