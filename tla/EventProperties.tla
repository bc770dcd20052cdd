------------------------------ MODULE EventProperties ------------------------------
(***************************************************************************)
(* What is asked of the calls of EventCalls: of an input and the result    *)
(* that it gave, of any size.                                              *)
(***************************************************************************)
EXTENDS EventCalls

(* Of a long stack, frame_allowance frames keep their variables and their  *)
(* context (one less where halves are odd): the first and the last of each *)
(* kind, and those of the application before those of the system           *)
(* (slim_frame_data()). It takes an allowance of two at least, and not     *)
(* exactly one frame of the application less than the allowance: then      *)
(* half_max is 0, no system frame is trimmed, and the frames of the        *)
(* application are instead.                                                *)
SlimKept ==
    Answered("slim") =>
        LET frames == DOMAIN input.apps
            app == {i \in frames : input.apps[i]}
            kept == frames \ result
            long == Cardinality(frames) > input.allowance
        IN  /\ ~ long => result = {}
            /\ long /\ input.allowance >= 2 /\ Cardinality(app) # input.allowance - 1 =>
                /\ Cardinality(kept) \in {input.allowance - 1, input.allowance}
                /\ result \cap app # {} => kept \subseteq app
                /\ \A i, j \in result, k \in kept :
                      input.apps[i] = input.apps[j] /\ input.apps[j] = input.apps[k] =>
                          ~ (i < k /\ k < j)

(* Of a chain of exceptions the event has each once, from the innermost to *)
(* the one reported, each the cause or context of the next, however they   *)
(* refer to each other (_chained_exceptions(), Exception.capture()).       *)
ChainFaithful ==
    Answered("chain") =>
        LET n == Len(result)
            inner(e) == IF input.chain.suppress[e] THEN input.chain.cause[e]
                        ELSE input.chain.context[e]
        IN  /\ result[n] = input.exc
            /\ Cardinality(ToSet(result)) = n
            /\ \A i \in 2..n : result[i - 1] = inner(result[i])
            /\ inner(result[1]) \in ToSet(result) \cup {None}

(* The sizes of the variables that are kept.                               *)
TotalSize(sizes, kept) ==
    LET total[i \in 0..Len(sizes)] ==
            IF i = 0 THEN 0 ELSE total[i - 1] + (IF i \in kept THEN sizes[i] ELSE 0)
    IN  total[Len(sizes)]

(* What an event shows of a frame: lines around its own, as far as there   *)
(* is a source that has it, and variables that fit (get_lines_from_file(), *)
(* get_frame_locals()).                                                    *)
FrameFaithful(shown, frame) ==
    LET line == shown.lines.line
        around == shown.lines.pre \cup shown.lines.post
        all == around \cup (IF line = None THEN {} ELSE {line})
    IN  /\ shown.of = frame /\ (frame.lineno > 0 => shown.lineno = frame.lineno)
        /\ line # None => line + 1 = shown.lineno
        /\ line = None => around = {}
        /\ \A i \in shown.lines.pre : i < line
        /\ \A i \in shown.lines.post : i > line
        /\ all \subseteq 0..(IF frame.loader = "source" THEN frame.source ELSE frame.cached) - 1
        /\ \A i, j \in all : (i - j) <= 2 * ContextLines /\ (i..j) \subseteq all
        /\ frame.locals = None => shown.vars = {}
        /\ frame.locals # None => TotalSize(frame.locals, shown.vars) < MaxVarSize

(* A stack shows the frames that are not hidden (get_stack_info()), each   *)
(* faithfully; no frame at all where one of them has no line number.       *)
FramesShown ==
    Answered("trace") =>
        LET frames == input.frames
            visible == {i \in DOMAIN frames : frames[i].hide => frames[i].locals = None}
        IN  IF \E i \in visible : frames[i].lineno = None THEN result.frames = None
            ELSE /\ DOMAIN result.frames = visible
                 /\ \A i \in visible : FrameFaithful(result.frames[i], frames[i])

(* The template of an error of Django's is shown around the line that      *)
(* holds the error, if one does (get_data_from_template()).                *)
TemplateShown ==
    Answered("template") =>
        LET at == result.line
            ends == <<0>> \o input.breaks
        IN  /\ at # None => ends[at] <= input.start /\ input.end <= ends[at + 1]
            /\ at = None => ~ \E n \in DOMAIN input.breaks :
                                  ends[n] <= input.start /\ input.end <= ends[n + 1]
            /\ \A i, j \in result.pre \cup result.post \cup {0} :
                  i \in result.pre /\ j \in result.post => i < at /\ at < j

(* Frames of raven, Django and what is excluded do not become those of the *)
(* application, and Django's client adds nothing to what the client says   *)
(* of the others (build_msg()).                                            *)
ModulePlaced ==
    Answered("in_app") =>
        /\ {"raven", "django"} \cap input.module # {} => result[2] \in {input.set, FALSE}
        /\ input.excludes \cap input.module # {} => result[1] \in {input.set, FALSE}
        /\ "django" \notin input.module => result[1] = result[2]

(* The stack of a record begins where logging ends                         *)
(* (_get_targetted_stack()).                                               *)
TargetFound ==
    Answered("target") =>
        /\ IsSuffix(result, input.stack)
        /\ result = <<>> => input.stack = <<>>
        /\ result # input.stack =>
              Head(result) # "logging"
              /\ input.stack[Len(input.stack) - Len(result)] = "logging"

(* The traceback of an event is the one that there was, of stacks, of      *)
(* exceptions and of templates.                                            *)
TraceFaithful ==
    /\ FramesShown
    /\ TemplateShown
    /\ ModulePlaced
    /\ ChainFaithful
    /\ TargetFound

Given(dict, key) == key \in DOMAIN dict

(* The tags or the extra info of the result: all that a source names, and  *)
(* else a site or a region only.                                           *)
MergedOf(field) ==
    LET of(dict) == Or(Get(dict, field, None), <<>>)
        call == of(input.call)
        hidden == input.web = "tornado" /\ field = "extra"
        own == IF Given(input.data, field) THEN of(input.data)
               ELSE IF hidden THEN <<>> ELSE of(input.context)
        client == IF field = "tags" THEN input.client.tags ELSE input.client.extra
        named == DOMAIN call \cup DOMAIN own \cup DOMAIN client
        merged == result[field]
    IN  /\ named \subseteq DOMAIN merged
        /\ DOMAIN merged \subseteq
               named \cup (IF field = "tags" THEN {"site", "region"} ELSE {})
        /\ \A key \in named :
              merged[key] = IF Given(call, key) THEN call[key]
                            ELSE IF Given(own, key) THEN own[key] ELSE client[key]

(* An event says of each thing what the most specific source says that     *)
(* names it: tags and extra are merged from the client, the context or, in *)
(* its place, the data, and the call; a level or a user of the data hides  *)
(* the others; only release and environment of the client replace those of *)
(* the data. Either the culprit or the transaction is given, and a stack   *)
(* if one was asked for. (Client.build_msg(); Django's request and         *)
(* Tornado's hide the user of the context, AWS Lambda's that of the data   *)
(* as well; Tornado's empty extra info hides that of the context.)         *)
Precedence ==
    Answered("build") =>
        LET data == input.data
            context == input.context
            client == input.client
            named(key) == Given(data, key) \/ Given(context, key)
            from(key) == IF Given(data, key) THEN data[key] ELSE Get(context, key, None)
            tagged == \E dict \in {data, context, input.call} :
                         Given(Or(Get(dict, "tags", None), <<>>), "site")
            site == Or(from("site"), client.site)
            stack == Get(input.call, "stack", None)
            automatic == client.autoLogStacks /\ input.event # "Exception" /\ ~ named("exception")
        IN  /\ MergedOf("tags") /\ MergedOf("extra")
            /\ site # None /\ ~ tagged /\ ~ Given(client.tags, "site") =>
                  result["tags"]["site"] = site
            /\ ~ Given(result, "site")
            /\ result["level"] = Or(from("level"), Or(Get(input.call, "level", None), "error"))
            /\ client.release # None => result["release"] = client.release
            /\ input.web = "none" /\ Given(data, "user") => result["user"] = data["user"]
            /\ input.web = "django" => result["user"] = Or(Get(data, "user", None), "request")
            /\ input.web = "tornado" => result["user"] = Get(data, "user", "request")
            /\ input.web = "lambda" => result["user"] = "lambda"
            /\ Given(result, "stacktrace")
               <=> named("stacktrace") \/ (IF stack = None THEN automatic ELSE stack # FALSE)
            /\ Given(result, "transaction")
               <=> \/ named("transaction")
                   \/ client.transaction # None /\ Get(result, "culprit", None) = None
            /\ Given(result, "breadcrumbs") =>
                  result["breadcrumbs"] =
                      IF named("breadcrumbs") THEN from("breadcrumbs") ELSE client.crumbs

(* Reading the request takes the body from the most direct accessor that   *)
(* works, says that there is none only if none does, and never loses the   *)
(* address for a user that cannot be read (DjangoClient.get_user_info()).  *)
(* Flask's before_request() may lose it: then the event has no user, and   *)
(* never half of one (Sentry.get_user_info()).                             *)
BodyAndUserRead ==
    Answered("read") =>
        LET body == input.method = "POST"
            works == {<<"body", input.body>>, <<"raw_post_data", input.raw>>,
                      <<"POST", input.post>>} \cap {<<a, "ok">> : a \in {"body", "raw_post_data", "POST"}}
        IN  /\ ~ body <=> result.django = "none"
            /\ body /\ works # {} => <<result.django, "ok">> \in works
            /\ body /\ input.body = "ok" => result.django = "body"
            /\ "ip_address" \in result.djangoUser
            /\ "username" \in result.djangoUser => input.user.authenticated = "ok"
            /\ "username" \in result.flaskUser => "id" \in result.flaskUser
            /\ result.retrieved # "empty" =>
                  <<result.retrieved, "ok">> \in {<<"json", input.body>>, <<"form", input.post>>}
            /\ result.retrieved = "empty" => {input.body, input.post} # {"ok"}

(* The JSON that REST framework has read, and a form, are not lost to the  *)
(* event (DjangoRestFrameworkCompatMiddleware).                            *)
RestBodyRead ==
    Answered("rest") =>
        (result = NoBody => input.contentType # "json" /\ input.post # "ok")

(* A page that is not found and not ignored is lost only where the capture *)
(* gave no event (Sentry404CatchMiddleware).                               *)
NotFoundReported ==
    Answered("404") => (result.response = None => result.reported = FALSE /\ ~ input.captured)

(* An AWS event whose requestContext has no identity raises KeyError, and  *)
(* no other does (LambdaClient).                                           *)
LambdaRead ==
    Answered("lambda") => (result.user = {"KeyError"}
                               <=> input.requestContext = "ok" /\ input.identity = "absent")

(* Of the environment the event has what it is asked for, Content-Type     *)
(* among the headers only as CGI names it, and the address of the client   *)
(* before that of a proxy (get_headers(), get_environ(), get_client_ip()). *)
EnvironRead ==
    Answered("environ") =>
        /\ {"Content-Type"} \cap result.headers # {}
              <=> [name |-> "Content-Type", http |-> FALSE] \in input.headers
        /\ result.env \subseteq input.names
        /\ input.forwarded # <<>> => result.ip = input.forwarded[1]

(* A path is named by the first route that matches it, whatever was        *)
(* resolved before, if no pattern is included twice: the cache of          *)
(* RouteResolver gives both the name of the first.                         *)
PathsNamed ==
    Answered("resolve") =>
        \A i \in 1..(Len(result) - 1) :
           LET name == result[i + 1].name
               hits == {j \in DOMAIN input.routes : input.routes[j] \in input.paths[i]}
               first == input.routes[Min(hits)]
               alone == \A j, k \in DOMAIN input.routes :
                           input.routes[j].pattern = input.routes[k].pattern => j = k
           IN  IF hits = {} THEN name = "path"
               ELSE /\ name.pattern = first.pattern
                    /\ (i = 1 \/ alone) => name = first

(* The host keeps a port that is not the scheme's own (get_host()).        *)
HostNamed ==
    Answered("host") =>
        LET source == IF input.forwarded # <<>> THEN input.forwarded
                      ELSE IF input.host # <<>> THEN input.host ELSE <<"server", input.port>>
        IN  /\ Head(result) = Head(source)
            /\ Len(result) = 2 => result = source /\ <<input.scheme, result[2]>> \notin
                                      {<<"http", 80>>, <<"https", 443>>}
            /\ Len(source) = 2 /\ Len(result) = 1 =>
                  <<input.scheme, source[2]>> \in {<<"http", 80>>, <<"https", 443>>}

(* What an event says of the request that it happened in is so, also where *)
(* the request cannot be read.                                             *)
RequestRead ==
    /\ BodyAndUserRead
    /\ RestBodyRead
    /\ NotFoundReported
    /\ LambdaRead
    /\ EnvironRead
    /\ PathsNamed
    /\ HostNamed

(* A record of the application is one event at most, and what capturing    *)
(* and sending log about it is none, however often the handler is set up:  *)
(* the handler on the root logger does not feed on its own records, also   *)
(* when nothing can be sent (can_record()). An error of capture() reaches  *)
(* the application only if it asked for it (emit()).                       *)
LogReported ==
    Answered("log") =>
        /\ result.events <= 1 /\ Len(result.calls) <= 5
        /\ result.events = 1 => input.record.name \in {"application", "raven_like"}
        /\ result.raised => input.client.raiseSendErrors

(* Each attribute of a record that is not logging's own is in one place of *)
(* the event (extract_extra()).                                            *)
AttributesPlaced ==
    Answered("extract") =>
        /\ result.data \cap result.extra = {}
        /\ {a.name : a \in {b \in input.attributes : b.kind \notin {"reserved", "private"}}}
              \subseteq result.data \cup result.extra

(* The failure of a task of Celery, which the signal has reported, is not  *)
(* reported again by its log record where there was one SentryHandler at   *)
(* most, and any other record is, once (process_logger_event(),            *)
(* CeleryFilter).                                                          *)
TasksReportedOnce ==
    Answered("celery") /\ result.setups > 0 =>
        LET taskFailed == input.record.data = FALSE \/ (input.record.data = None
                                                        /\ input.record.function = "_log_error")
            ours(hs) == {i \in DOMAIN hs : hs[i].class = "SentryHandler"}
        IN  /\ \A i \in DOMAIN input.handlers :
                  /\ i \in DOMAIN result.handlers
                  /\ result.handlers[i].class = input.handlers[i].class
            /\ ours(result.handlers) # {}
            /\ (\A i, j \in ours(input.handlers) : i = j) =>
                  Cardinality(result.reports) = IF taskFailed THEN 0 ELSE 1

(* Each record becomes the events that it should, and no other.            *)
RecordsReported == LogReported /\ AttributesPlaced /\ TasksReportedOnce

(* Of each HTTP request there is a crumb (two if requests was answered by  *)
(* an error: the truth value of its response hides the status), which has  *)
(* the status of the answer to that request and no other, unless a request *)
(* was begun in the middle of another, or an event came before the answer. *)
HttpCrumbs(s, early) ==
    LET shown(n) == {i \in DOMAIN s.event : s.event[i].request = n}
    IN  /\ \A n \in DOMAIN s.url :
              /\ \E i \in DOMAIN s.event : s.event[i].url = s.url[n]
              /\ s.answer[n] = "200" => \A i, j \in shown(n) : i = j
        /\ \A i \in DOMAIN s.event :
              LET crumb == s.event[i]
                  answer == s.answer[crumb.request]
              IN  /\ crumb.status = None => answer # "200"
                  /\ ~ s.overlap /\ crumb.status # None =>
                        crumb.status = answer \/ (early /\ crumb.status = "absent")

(* That is so of every event, whatever was requested before, over one      *)
(* connection or by sessions of their own (the hooks on httplib and        *)
(* requests, get_buffer()).                                                *)
RequestsRecorded ==
    Answered("http") /\ result.done > 0 /\ input.ops[result.done].do = "event" =>
        HttpCrumbs(result.s, \E i \in 1..(result.done - 1) : input.ops[i].do = "event")

(* A log call is a crumb with the most specific value of each key, without *)
(* exc_info, and is not lost when it cannot be formatted; extra=None takes *)
(* one event down and is in the next (_record_log_breadcrumb()).           *)
LogCallsRecorded ==
    Answered("record") =>
        LET call == input.call
            extra == IF call.extra = None THEN {} ELSE call.extra
            crumb == Last(result).crumb
        IN  /\ Last(result).raised = FALSE
            /\ (Len(result) > 1) = (call.extra = None)
            /\ "exc_info" \notin DOMAIN crumb.data
            /\ "key" \in DOMAIN crumb.data
                  <=> call.args = "mapping" \/ "key" \in call.kwargs \cup extra
            /\ call.args = "mapping" => crumb.data["key"] = "args"
            /\ call.args # "mapping" /\ "key" \in extra => crumb.data["key"] = "extra"

(* A library is hooked once, and a name that is not known raises           *)
(* (hook_libraries()). The log of urllib3 is silent below WARNING then,    *)
(* and above that too if ignore_logger() said so last.                     *)
LibrariesHooked ==
    Answered("hook") /\ result.call = 3 =>
        LET known == {"requests", "httplib"}
            asked == ToSet(input.libraries[1]) \cup ToSet(input.libraries[2])
            order == result.s.order
        IN  /\ IsInjective(order)
            /\ asked \subseteq known => ToSet(order) = asked
            /\ \A call \in 1..2 :
                  result.raised[call] <=> ~ (ToSet(input.libraries[call]) \subseteq known)
            /\ input.ignore = "last" \/ TRUE \in ToSet(input.handlers) => ~ result.crumb
            /\ "requests" \in ToSet(order) /\ input.level < 30 => ~ result.crumb
            /\ input.level >= 30 /\ input.ignore = "never" /\ input.handlers = <<>> => result.crumb

(* A query is a crumb for each set of parameters, as long as those are not *)
(* an iterator. It fails the events that it should be sent with only over  *)
(* a percent sign of the query itself: one that is doubled, as Django asks *)
(* for, only if the parameters are a mapping; any other only if there are  *)
(* parameters. Otherwise its message has every hole filled or none, and    *)
(* all of them if there is a parameter for each (format_sql(),             *)
(* record_sql()).                                                          *)
QueriesRecorded ==
    Answered("query") =>
        /\ Len(result) = IF ~ input.many THEN 1
                         ELSE IF input.iterator THEN 0 ELSE Len(input.params)
        /\ \A i \in DOMAIN result :
              LET filled == result[i].filled
                  params == input.params[i]
              IN  IF result[i].raises
                  THEN /\ input.percent # None /\ params.kind # "none" /\ params.of # <<>>
                       /\ input.percent.doubled => params.kind = "dict"
                  ELSE /\ Len(filled) \in {0, Len(input.holes)}
                       /\ params.kind = "dict" /\ params.of # <<>> =>
                             /\ Len(filled) = Len(input.holes)
                             /\ \A h, k \in DOMAIN filled :
                                   input.holes[h] = input.holes[k] => filled[h] = filled[k]
                       /\ params.kind = "sequence" /\ Len(params.of) = Len(input.holes) =>
                             Len(filled) = Len(input.holes)

(* The crumbs of what an event was preceded by say what happened to it.    *)
CrumbsFaithful ==
    /\ RequestsRecorded
    /\ LogCallsRecorded
    /\ LibrariesHooked
    /\ QueriesRecorded

(* A scheme belongs to the first transport that registered it, also after  *)
(* registrations that failed half way (TransportRegistry).                 *)
SchemesKept ==
    Answered("register") =>
        \A i \in 2..Len(result.seen) :
           LET before == result.seen[i - 1].schemes
               after == result.seen[i].schemes
           IN  /\ \A scheme \in DOMAIN before :
                     scheme \in DOMAIN after /\ after[scheme] = before[scheme]
               /\ ~ result.seen[i].raised =>
                     ToSet(input.transports[i - 1].schemes) = DOMAIN after \ DOMAIN before

(* set_dsn() gives a DSN the same remote, and with it the same worker,     *)
(* each time; a DSN that is not valid leaves the client with the remote it *)
(* had.                                                                    *)
RemotesKept ==
    Answered("dsn") =>
        /\ \A i \in 2..Len(result) : result[i].raised => result[i].remote = result[i - 1].remote
        /\ \A i, j \in 1..Len(result) :
              result[i].remote # None /\ result[j].remote # None
              /\ result[i].remote.dsn = result[j].remote.dsn
              => result[i].remote = result[j].remote

(* The applications that share an extension have one client, and each      *)
(* reports the exceptions that it does not handle, by the signal or by the *)
(* middleware around it, unless it was asked for neither; with logging on, *)
(* its log records have one handler (init_app()).                          *)
AppsReport ==
    Answered("apps") =>
        LET apps == result.apps
            logged(i) == \E j \in 1..i :
                            /\ input.apps[j].logging = TRUE
                            /\ \A k \in (j + 1)..i : input.apps[k].logging # FALSE
            propagates(i) == input.sanic \/ input.apps[i].propagate
        IN  /\ \A i, j \in DOMAIN apps : apps[i].client = apps[j].client
            /\ \A i \in DOMAIN apps :
                  /\ ~ (apps[i].wrapped \/ apps[i].signal) =>
                        \E j \in 1..i : input.apps[j].registerSignal = FALSE
                  /\ logged(i) => (propagates(i) /\ result.root) # apps[i].handler

(* Django's middleware is installed once, in front of the application's    *)
(* own, however often initialize() fails, and with it a handler of         *)
(* exceptions (another for each time the client could not be made).        *)
MiddlewareInstalled ==
    Answered("initialize") =>
        LET s == result.s
            tried == 1..result.done
            failed == {i \in tried : input.attempts[i].fails = "client"}
            added == Len(s.middleware) - Len(input.middleware)
        IN  /\ added \in 0..2
            /\ \A i \in DOMAIN input.middleware : s.middleware[added + i] = input.middleware[i]
            /\ \A i \in 1..added :
                  /\ s.middleware[i] \in {"Sentry", "RestFramework"}
                  /\ \A j \in DOMAIN s.middleware : s.middleware[i] = s.middleware[j] => i = j
            /\ s.initialized <=> \E i \in tried : input.attempts[i].fails = "nowhere"
            /\ s.handlers <= Cardinality(failed) + 1
            /\ s.initialized /\ (\A i \in tried : input.attempts[i].instrument) => s.handlers >= 1

(* An option has the value of the first source that names it:              *)
(* SENTRY_CONFIG, SENTRY_X, the integration (convert_options()), unless it *)
(* is None, or falsy where Client.__init__() takes that for None;          *)
(* SENTRY_TRANSPORT comes before the transport of SENTRY_CONFIG.           *)
OptionChosen ==
    Answered("option") =>
        LET option == input.option
            first == IF option.config # "unset" THEN option.config
                     ELSE IF option.setting # "unset" THEN option.setting
                     ELSE IF option.default # "unset" THEN option.default ELSE None
            usable(v) == v # None /\ ~ (input.kind # "none" /\ v = "falsy")
        IN  IF input.kind = "transport"
            THEN option.setting # "unset" /\ usable(option.setting) => result = option.setting
            ELSE usable(first) <=> result = first

(* What was configured is what is used, also of registrations and setups   *)
(* that fail and of those that are made again.                             *)
Configured ==
    /\ SchemesKept
    /\ RemotesKept
    /\ AppsReport
    /\ MiddlewareInstalled
    /\ OptionChosen

=============================================================================
