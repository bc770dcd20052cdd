-------------------------------- MODULE Building --------------------------------
(***************************************************************************)
(* Client.build_msg(): how an event is merged from the client's settings,  *)
(* the context, the data and arguments of the call and what the event      *)
(* class finds; and what the clients for Django and AWS Lambda add before  *)
(* and after. A dictionary is a function from its keys; a value is the     *)
(* name of the source it came from, None is Python's (a falsy value).      *)
(***************************************************************************)
EXTENDS PyValues

Truthy(dict, key) == key \in DOMAIN dict /\ dict[key] # None
PutIf(test, dict, key, value) == IF test THEN Put(dict, key, value) ELSE dict

(* merge_dicts(), one dictionary after the other: later ones win; None     *)
(* counts as empty.                                                        *)
Merge(out, dict) == IF dict = None THEN out ELSE Update(out, dict)

-----------------------------------------------------------------------------

(* What the classes of raven.events make of the arguments of the call. *)
Capture(event, call) ==
    CASE event = "Exception" ->
            [level |-> Get(call, "level", "error"), exception |-> "event"]
      [] event = "Message" ->
            Put([message |-> Or(Get(call, "formatted", None), "event")],
                "sentry.interfaces.Message", "event")
      [] event = "Query" -> Put(<<>>, "sentry.interfaces.Query", "event")

(* stack=None leaves the choice to auto_log_stacks, except of exceptions. *)
WithStack(client, data, call) ==
    LET asked == Get(call, "stack", None)
        stack == IF asked = None /\ "exception" \notin DOMAIN data
                 THEN client.autoLogStacks ELSE asked
    IN  IF stack \in {None, FALSE} \/ "stacktrace" \in DOMAIN data
        THEN data ELSE Put(data, "stacktrace", "event")

(* The values that stand in for what is missing or falsy, then those of the *)
(* client that replace what the data say.                                   *)
WithDefaults(client, data, call) ==
    LET level == PutIf(~ Truthy(data, "level"), data, "level",
                       Or(Get(call, "level", None), "error"))
        name == PutIf(~ Truthy(data, "server_name"), level, "server_name", "client")
        release == PutIf(client.release # None, name, "release", client.release)
    IN  PutIf(client.environment # None, release, "environment", client.environment)

(* A plausible slip: the tags of the client replace those of the data. *)
TagsOfClient(client, data, call) ==
    Merge(Merge(Merge(<<>>, data["tags"]), client.tags), Get(call, "tags", None))

(* The most specific of each tag; a site, from the data or the client, is  *)
(* a tag of its own unless there is one.                                   *)
Tags(client, data, call) ==
    LET tags == Merge(Merge(Merge(<<>>, client.tags), data["tags"]), Get(call, "tags", None))
        site == Or(Get(data, "site", None), client.site)
    IN  IF site = None THEN tags ELSE SetDefault(tags, "site", site)

Extra(client, data, call) ==
    Merge(Merge(Merge(<<>>, client.extra), data["extra"]), Get(call, "extra", None))

(* The data of the call hide those of the context, key by key. *)
Base(context, data) ==
    LET merged == Update(context, data)
    IN  SetDefault(SetDefault(merged, "tags", <<>>), "extra", <<>>)

(* The culprit of the data, or else the transaction of the stack. *)
WithCulprit(client, data, culprit) ==
    IF culprit # None THEN Put(data, "culprit", culprit)
    ELSE PutIf(client.transaction # None, data, "transaction", client.transaction)

BuildMsg(client, context, event, data, call) ==
    LET base == Base(context, data)
        captured == Update(Capture(event, call), base)
        full == WithDefaults(client, WithStack(client, captured, call), call)
        tagged == Put(Put([key \in DOMAIN full \ {"site"} |-> full[key]],
                          "tags", Tags(client, full, call)),
                      "extra", Extra(client, full, call))
        named == WithCulprit(client, tagged, Get(base, "culprit", None))
        marked == PutIf(Get(call, "fingerprint", None) # None, named,
                        "fingerprint", Get(call, "fingerprint", None))
        texted == SetDefault(marked, "message", Get(call, "message", "event"))
    IN  IF client.crumbs = None THEN texted
        ELSE SetDefault(texted, "breadcrumbs", client.crumbs)

-----------------------------------------------------------------------------
(* DjangoClient *)

(* update_data_from_request(): the request's user, unless the data of the  *)
(* call name one, and the request; a template error adds its template.     *)
DjangoData(data, inRequest, template) ==
    LET user == PutIf(~ Truthy(data, "user"), data, "user", "request")
        request == IF inRequest THEN Put(user, "request", "request") ELSE data
    IN  IF template THEN Put(Put(request, "template", "template"), "culprit", "template")
        ELSE request

(* build_msg(): the name of the current Site, or its id if the database    *)
(* cannot tell. (settings may have no SITE_ID either.)                     *)
DjangoBuildMsg(client, context, event, data, call, siteName) ==
    LET built == BuildMsg(client, context, event, data, call)
    IN  IF client.site # None \/ siteName = None THEN built
        ELSE [built EXCEPT !["tags"] = SetDefault(@, "site", siteName)]

DjangoCapture(client, context, event, data, call, inRequest, template, siteName) ==
    DjangoBuildMsg(client, context, event, DjangoData(data, inRequest, template), call, siteName)

-----------------------------------------------------------------------------
(* LambdaClient *)

(* capture(): what the Lambda event tells replaces the data of the call. *)
LambdaData(data, http, user, extra) ==
    LET request == PutIf(http, data, "request", "lambda")
        known == PutIf(user, request, "user", "lambda")
    IN  IF extra THEN Put(known, "extra", [event |-> "lambda"]) ELSE known

(* build_msg(): tags of the environment of the function; each of them is   *)
(* there, though it may be None.                                           *)
LambdaBuildMsg(client, context, event, data, call) ==
    LET built == BuildMsg(client, context, event, data, call)
        tagged == [built EXCEPT !["tags"] = SetDefault(@, "region", "lambda")]
    IN  SetDefault(SetDefault(tagged, "release", None), "environment", None)

LambdaCapture(client, context, event, data, call, http, user, extra) ==
    LambdaBuildMsg(client, context, event, LambdaData(data, http, user, extra), call)

-----------------------------------------------------------------------------
(* SentryMixin of Tornado *)

(* _capture(): the data of the call replace those of the request; the extra *)
(* info that get_sentry_extra_info() returns is empty, and hides that of    *)
(* the context.                                                             *)
TornadoData(data) ==
    Update([request |-> "request", user |-> "request", extra |-> <<>>], data)

=============================================================================
