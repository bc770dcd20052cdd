------------------------------ MODULE CrumbSources ------------------------------
(***************************************************************************)
(* What raven records by itself: HTTP requests, by hooks on httplib and    *)
(* requests; the queries of Django, by a hook on its cursors; and log      *)
(* records, by the wrapped methods of logging.Logger. They leave a         *)
(* processor that fills in the crumb when the next event is built.         *)
(***************************************************************************)
EXTENDS PyValues

-----------------------------------------------------------------------------
(* HTTP. The dictionary of the status of each request is shared by its     *)
(* crumb, until that is sent with an event, and the connection's           *)
(* _raven_status_dict; "absent" is a dictionary that is empty.             *)

NewConnection ==
    [dict |-> 0,            \* the request of _raven_status_dict
     waiting |-> 0,         \* the request the server has to answer
     status |-> <<>>,       \* the dictionary of each request
     url |-> <<>>, answer |-> <<>>,     \* each request, and what was answered
     overlap |-> FALSE,     \* a request was begun in the middle of another
     crumbs |-> <<>>,
     event |-> <<>>]        \* the crumbs of the last event, by their place

(* putrequest(): the crumb is recorded and the dictionary replaced before  *)
(* the connection refuses a request that comes before an answer.           *)
PutRequest(s, url) ==
    LET n == Len(s.status) + 1
    IN  [s EXCEPT !.dict = n, !.status = Append(@, "absent"), !.url = Append(@, url),
                  !.answer = Append(@, "absent"),
                  !.waiting = IF @ = 0 THEN n ELSE @, !.overlap = @ \/ s.waiting # 0,
                  !.crumbs = Append(@, [request |-> n, url |-> url, status |-> "absent",
                                        processor |-> TRUE])]

(* A plausible slip: the dictionary of the connection's first request. *)
KeepDict(s, answer) ==
    IF s.waiting = 0 THEN s
    ELSE IF answer = "fails" THEN [s EXCEPT !.waiting = 0]
    ELSE [s EXCEPT !.waiting = 0, !.answer[s.waiting] = answer, !.status[1] = answer]

(* getresponse(): raises if there is nothing to wait for, or if the server *)
(* goes away; the first answer is kept.                                    *)
GetResponse(s, answer) ==
    IF s.waiting = 0 THEN s
    ELSE IF answer = "fails" THEN [s EXCEPT !.waiting = 0]
    ELSE [s EXCEPT !.waiting = 0, !.answer[s.waiting] = answer,
                   !.status[s.dict] = IF @ = "absent" THEN answer ELSE @]

(* Session.send(): a connection of its own, with the hook of httplib, then *)
(* the crumb of requests. A response of an error is false, and its status  *)
(* not recorded.                                                           *)
RecordRequest(s, answer) ==
    LET n == Len(s.status)
    IN  [s EXCEPT !.crumbs =
            Append(@, [request |-> n, url |-> s.url[n], processor |-> FALSE,
                       status |-> IF answer = "200" THEN answer ELSE None])]

SessionSend(s, url, answer) ==
    LET own == [s EXCEPT !.dict = 0, !.waiting = 0]
        done == RecordRequest(GetResponse(PutRequest(own, url), answer), answer)
    IN  [done EXCEPT !.dict = s.dict, !.waiting = s.waiting]

(* get_buffer(): the processors run, once, and of crumbs in a row that are *)
(* considered equal only the first is sent: rv[-1] and the crumb before    *)
(* this one are equal.                                                     *)
Considered(crumb) == <<crumb.url, crumb.status>>

EventOf(s) ==
    LET sent == [i \in DOMAIN s.crumbs |->
                    IF s.crumbs[i].processor
                    THEN [s.crumbs[i] EXCEPT !.status = s.status[s.crumbs[i].request],
                                             !.processor = FALSE]
                    ELSE s.crumbs[i]]
        new == {i \in DOMAIN sent : i = 1 \/ Considered(sent[i - 1]) # Considered(sent[i])}
    IN  [s EXCEPT !.crumbs = sent, !.event = [i \in new |-> sent[i]]]

Http(s, op) ==
    CASE op.do = "put" -> PutRequest(s, op.url)
      [] op.do = "response" -> GetResponse(s, op.answer)
      [] op.do = "session" -> SessionSend(s, op.url, op.answer)
      [] op.do = "event" -> EventOf(s)

-----------------------------------------------------------------------------
(* Log records *)

(* A key that more than one source gives has the value of the last. *)
Sources(keys, source) == [k \in keys |-> source]

(* The processor of _record_log_breadcrumb(): extra and a single mapping   *)
(* as argument are merged into kwargs, exc_info is left out, and a message *)
(* that cannot be formatted is sent as it is. extra=None raises, once:     *)
(* pop() has taken it away.                                                *)
ProcessRecord(call) ==
    LET data == Update(Update(Sources(call.kwargs, "kwargs"), Sources(call.extra, "extra")),
                       Sources(IF call.args = "mapping" THEN {"key"} ELSE {}, "args"))
    IN  IF call.extra = None THEN [call EXCEPT !.extra = {}, !.raised = TRUE]
        ELSE [call EXCEPT !.raised = FALSE,
                  !.crumb = [data |-> Restrict(data, DOMAIN data \ {"exc_info"}),
                             message |-> IF call.formats THEN "formatted" ELSE "msg"]]

(* special_logging_handlers are asked first, then the one of the logger,   *)
(* here that of ignore_logger(name, allow_level).                          *)
Ignores(ignored, name, level) ==
    name \in DOMAIN ignored /\ (ignored[name] = None \/ level < ignored[name])

IgnoreLogger(ignored, name, allowLevel) == Put(ignored, name, allowLevel)

RecordLog(handlers, ignored, name, level) ==
    ~ (TRUE \in ToSet(handlers) \/ Ignores(ignored, name, level))

(* hook_libraries(), a library a step: each is hooked once; of one that is *)
(* not known it raises, and leaves those behind it.                        *)
(* The hook of requests silences the log of urllib3 below WARNING (30).     *)
HookLibrary(s, library) ==
    IF s.raised \/ library \notin {"requests", "httplib"} THEN [s EXCEPT !.raised = TRUE]
    ELSE IF library \in s.hooked THEN s
    ELSE [s EXCEPT !.hooked = @ \cup {library}, !.order = Append(@, library),
                   !.ignored = IF library = "requests" THEN IgnoreLogger(@, "urllib3", 30) ELSE @]

HookNothing == [hooked |-> {}, order |-> <<>>, ignored |-> <<>>, raised |-> FALSE]

-----------------------------------------------------------------------------
(* Queries. A query has holes, which have names if its parameters are a    *)
(* mapping; parameters are None, a sequence or a mapping. A parameter is   *)
(* None, "long" (cut to 256 characters) or what it is shown as. A percent  *)
(* sign of the query itself (percent, or None) has percent.at holes before *)
(* it, is "doubled" (as Django's documents ask for) or not, and is the end *)
(* of the query or stands before what no conversion knows, like a quote.   *)

Shown(param) == IF param = None THEN "NULL" ELSE IF param = "long" THEN "cut" ELSE param

(* format_sql(): the parameters in the order of the holes. *)
FormatSql(holes, params) ==
    CASE params.kind = "dict" /\ params.of # <<>> ->
            [i \in DOMAIN holes |->
                Shown(IF holes[i] \in DOMAIN params.of THEN params.of[holes[i]] ELSE None)]
      [] params.kind = "sequence" -> [i \in DOMAIN params.of |-> Shown(params.of[i])]
      [] OTHER -> <<>>

(* The % operator raises ValueError, not TypeError, at a percent sign, if  *)
(* it is not out of parameters before; without any the code does not come  *)
(* to it.                                                                  *)
StopsAt(percent, n) == n > 0 /\ (n > percent.at \/ (percent.end /\ n = percent.at))

(* format_sql() formats the query with a mapping, which a percent sign     *)
(* fails and which makes one of two; record_sql() formats what that left.  *)
SqlRaises(percent, params, n) ==
    LET mapped == params.kind = "dict" /\ params.of # <<>>
    IN  percent # None /\ IF percent.doubled THEN mapped /\ StopsAt(percent, n)
                           ELSE mapped \/ StopsAt(percent, n)

(* record_sql(): what its processor does when the next event is built. It  *)
(* raises, or fills the holes; it catches TypeError only: where parameters *)
(* are missing or left over the query is shown as it is, <<>>.             *)
SqlMessage(holes, percent, params) ==
    LET shown == FormatSql(holes, params)
    IN  [raises |-> SqlRaises(percent, params, Len(shown)),
         filled |-> IF Len(shown) = Len(holes) THEN shown ELSE <<>>]

(* execute() and executemany() record when the query is over, also when it *)
(* has failed; by then an iterator of parameters has been used up.         *)
RecordSql(query) ==
    LET message(i) == SqlMessage(query.holes, query.percent, query.params[i])
    IN  IF ~ query.many THEN <<message(1)>>
        ELSE IF query.iterator THEN <<>>
        ELSE [i \in DOMAIN query.params |-> message(i)]

=============================================================================
