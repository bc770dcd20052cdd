---------------------------- MODULE Integrations ----------------------------
(***************************************************************************)
(* How the integrations bracket a unit of work on a thread: the WSGI       *)
(* middleware (raven.middleware; paste and pylons reuse it), Flask in and  *)
(* out of debug mode, Sanic, Django, AWS Lambda, the integrations that hand*)
(* the data of the request to every capture (Bottle, web.py, Tornado's     *)
(* mixin), and Celery, whose tasks may run by themselves or, when called   *)
(* eagerly, inside a request. One thread serves one unit at a time; only   *)
(* Sanic interleaves its requests on one thread.                           *)
(***************************************************************************)
EXTENDS RequestScope

CONSTANT MaxUnnamed  \* how many requests have no transaction to name

ASSUME BoundAssumption == MaxUnnamed \in Nat

VARIABLES
    web,        \* the integration of the web requests
    named,      \* requests with a transaction to name: those that a rule of
                \* Flask matches, those that Django's resolver makes one of
    scope,      \* the scope of each thread
    open,       \* the units each thread is in, the innermost last
    pc,         \* how far each unit is
    event,      \* the event that the last step sent, if any
    lastId,     \* last_event_id: Sentry._last_event_id (Flask), .last_event_id (Sanic)
    g,          \* Flask's g.sentry_event_id of each request
    header,     \* the X-Sentry-ID of each response
    txid,       \* Django: SentryMiddleware._txid, one for all threads
    connected,  \* Django: request_finished() is connected to its signal
    current,    \* Django: SentryMiddleware.thread.request
    \* History the properties speak of:
    wiped,      \* units whose thread was cleared while they were open
    left        \* units that ended on the thread and left data behind

vars == <<web, named, scope, open, pc, event, lastId, g, header, txid, connected,
          current, wiped, left>>
flask == <<lastId, g, header>>
django == <<txid, connected, current>>

Webs == {"wsgi", "flask", "flask_debug", "sanic", "django", "lambda", "explicit"}
IsFlask == web \in {"flask", "flask_debug"}
Ids == Units \cup {None}

TypeOK ==
    /\ web \in Webs /\ named \subseteq Requests
    /\ scope \in [Threads -> Scopes] /\ open \in [Threads -> Seq(Units)]
    /\ pc \in [Units -> {"new", "run", "view", "answered", "stream", "ended", "done"}]
    /\ lastId \in Ids /\ g \in [Requests -> Ids \cup {"unset"}] /\ header \in [Requests -> Ids]
    /\ txid \in Ids /\ connected \in BOOLEAN /\ current \in [Threads -> Ids]
    /\ wiped \subseteq Units /\ left \in [Threads -> SUBSET Units]

Init ==
    /\ web \in Webs
    /\ named \in SUBSET Requests /\ Cardinality(Requests \ named) <= MaxUnnamed
    /\ named # Requests => IsFlask \/ web = "django"
    /\ scope = [t \in Threads |->
                  IF t = MainThread THEN Activate(Untouched) ELSE Untouched]
    /\ open = [t \in Threads |-> <<>>]
    /\ pc = [u \in Units |-> "new"]
    /\ event = None
    /\ lastId = None
    /\ g = [r \in Requests |-> "unset"]
    /\ header = [r \in Requests |-> None]
    /\ txid = None
    /\ connected = FALSE
    /\ current = [t \in Threads |-> None]
    /\ wiped = {}
    /\ left = [t \in Threads |-> {}]

-----------------------------------------------------------------------------

Goto(u, label) == pc' = [pc EXCEPT ![u] = label]
OpenOn(t) == ToSet(open[t])

(* u is what runs on t now. *)
Runs(u, t) == u \in OpenOn(t) /\ (web = "sanic" \/ u = Last(open[t]))
At(u, t, label) == Runs(u, t) /\ pc[u] = label

SetScope(t, s) == scope' = [scope EXCEPT ![t] = s]
Quiet == event' = None
Report(t, u, kind, request) == event' = EventOf(scope[t], t, u, kind, request)

(* A thread starts on u. *)
Enter(u, t) ==
    /\ pc[u] = "new"
    /\ \/ open[t] = <<>>
       \/ u \in Requests /\ web = "sanic"
       \/ u \in Tasks /\ web # "sanic" /\ open[t] # <<>> /\ pc[Last(open[t])] = "run"
    /\ open' = [open EXCEPT ![t] = Append(@, u)]
    /\ Quiet

(* The thread is done with u and has `s` as its scope; `clear` says whether *)
(* the step cleared the context.                                            *)
Leave(u, t, s, clear) ==
    /\ Goto(u, "done")
    /\ open' = [open EXCEPT ![t] = RemoveFirst(@, u)]
    /\ SetScope(t, s)
    /\ wiped' = IF clear THEN wiped \cup OpenOn(t) ELSE wiped
    /\ left' = [left EXCEPT ![t] = IF clear /\ s.stack = <<>> THEN {}
                                   ELSE IF clear THEN @ ELSE @ \cup {u}]

-----------------------------------------------------------------------------
(* The application at work in any unit. *)

(* It leaves a breadcrumb or a tag. *)
Work(u, t) ==
    /\ Runs(u, t) /\ pc[u] \in {"run", "stream"}
    /\ \/ SetScope(t, RecordCrumb(scope[t], u))
       \/ SetScope(t, MergeTag(scope[t], u))
    /\ Quiet
    /\ UNCHANGED <<web, named, open, pc, flask, django, wiped, left>>

(* It logs where no unit is at work. *)
WorkOutside(t) ==
    /\ open[t] = <<>>
    /\ SetScope(t, RecordCrumb(scope[t], Outside))
    /\ Quiet
    /\ UNCHANGED <<web, named, open, pc, flask, django, wiped, left>>

(* It captures a message. Django's client adds the request of the thread; *)
(* those of Flask and Sanic go through the extension, which keeps the id. *)
Message(u, t) ==
    /\ At(u, t, "run")
    /\ Report(t, u, "message", current[t])
    /\ SetScope(t, Touch(scope[t]))
    /\ IF (IsFlask \/ web = "sanic") /\ u \in Requests
         THEN lastId' = u /\ g' = [g EXCEPT ![u] = IF IsFlask THEN u ELSE @]
         ELSE UNCHANGED <<lastId, g>>
    /\ UNCHANGED <<web, named, open, pc, header, django, wiped, left>>

-----------------------------------------------------------------------------
(* The WSGI middleware: __call__, then the ClosingIterator it returns. *)

Call(u, t) ==
    /\ web = "wsgi" /\ u \in Requests
    /\ Enter(u, t)
    /\ Goto(u, "run")
    /\ SetScope(t, MergeRequest(scope[t], u))
    /\ UNCHANGED <<web, named, flask, django, wiped, left>>

AppReturns(u, t) ==
    /\ web = "wsgi" /\ u \in Requests
    /\ At(u, t, "run")
    /\ Goto(u, "stream")
    /\ Quiet
    /\ UNCHANGED <<web, named, scope, open, flask, django, wiped, left>>

(* StopIteration, GeneratorExit and SystemExit(0) are not reported. *)
MayReport(t, u) == Quiet \/ Report(t, u, "exception", None)

(* The application raises: there is no iterator that could be closed. *)
AppRaises(u, t) ==
    /\ web = "wsgi" /\ u \in Requests
    /\ At(u, t, "run")
    /\ MayReport(t, u)
    /\ Leave(u, t, scope[t], FALSE)
    /\ UNCHANGED <<web, named, flask, django>>

(* So does __next__(); the server should close the iterator all the same. *)
IterRaises(u, t) ==
    /\ At(u, t, "stream")
    /\ MayReport(t, u)
    /\ UNCHANGED <<web, named, scope, open, pc, flask, django, wiped, left>>

(* close(): by the server before the end, or by a __next__() that finds it. *)
Close(u, t) ==
    /\ At(u, t, "stream")
    /\ MayReport(t, u)
    /\ Leave(u, t, ClearStack(Clear(scope[t], t)), TRUE)
    /\ UNCHANGED <<web, named, flask, django>>

IterEnds(u, t) ==
    /\ At(u, t, "stream")
    /\ MayReport(t, u)
    /\ SetScope(t, ClearStack(Clear(scope[t], t)))
    /\ open' = [open EXCEPT ![t] = RemoveFirst(@, u)]
    /\ wiped' = wiped \cup OpenOn(t)
    /\ left' = [left EXCEPT ![t] = {}]
    /\ Goto(u, "ended")
    /\ UNCHANGED <<web, named, flask, django>>

(* Mutant: the second close() clears again. *)
ClosesTwice(u, t) ==
    /\ pc[u] = "ended"
    /\ Goto(u, "done")
    /\ SetScope(t, ClearStack(Clear(scope[t], t)))
    /\ Quiet
    /\ UNCHANGED <<web, named, open, flask, django, wiped, left>>

(* The server's own close() after the end, whatever its thread does by now. *)
CloseAgain(u, t) ==
    /\ pc[u] = "ended"
    /\ Goto(u, "done")
    /\ Quiet
    /\ UNCHANGED <<web, named, scope, open, flask, django, wiped, left>>

(* A server that gives up an iteration and closes nothing. *)
Abandon(u, t) ==
    /\ At(u, t, "stream")
    /\ Quiet
    /\ Leave(u, t, scope[t], FALSE)
    /\ UNCHANGED <<web, named, flask, django>>

-----------------------------------------------------------------------------
(* Flask: its WSGI application is wrapped unless it is in debug mode, in    *)
(* which its exceptions go on to the server instead of into a response.     *)

(* before_request(), unless one registered earlier answers or raises. What *)
(* no rule matches (Flask answers it with 404) has no transaction.         *)
BeginFlask(u, t) ==
    /\ IsFlask /\ u \in Requests
    /\ Enter(u, t)
    /\ LET wrapped == IF web = "flask" THEN MergeRequest(scope[t], u) ELSE scope[t]
           pushed == IF u \in named THEN Push(wrapped, u) ELSE wrapped
       IN  \/ /\ Goto(u, "run")
              /\ SetScope(t, MergeRequest(pushed, u))
              /\ lastId' = None
              /\ g' = [g EXCEPT ![u] = None]
           \/ Goto(u, "view") /\ SetScope(t, wrapped) /\ UNCHANGED <<lastId, g>>
    /\ UNCHANGED <<web, named, header, django, wiped, left>>

(* got_request_exception: captured, and the id kept. The response to it is *)
(* an ordinary one; in debug mode there is none, nor request_finished.     *)
FlaskException(u, t) ==
    /\ IsFlask /\ u \in Requests
    /\ At(u, t, "run") \/ At(u, t, "view")
    /\ Report(t, u, "exception", None)
    /\ lastId' = u
    /\ g' = [g EXCEPT ![u] = u]
    /\ IF web = "flask"
         THEN Goto(u, "answered") /\ UNCHANGED <<scope, open, wiped, left>>
         ELSE Leave(u, t, Touch(scope[t]), FALSE)
    /\ UNCHANGED <<web, named, header, django>>

(* Mutant: `g` is read as if the request had always begun. *)
GlobalEventId(u) == g[u]

(* Mutant: the id is that of the extension. *)
SharedEventId(u) == lastId

LastEventId(u) == IF g[u] = "unset" THEN lastId ELSE g[u]

(* after_request(): the header, context.clear(), pop() where a rule matched. *)
AfterRequest(u, t) ==
    /\ IsFlask /\ u \in Requests
    /\ Runs(u, t) /\ pc[u] \in {"view", "run", "answered"}
    /\ Quiet
    /\ header' = [header EXCEPT ![u] = LastEventId(u)]
    /\ LET cleared == Clear(scope[t], t)
           s == IF u \in named THEN Pop(cleared, u) ELSE cleared
       IN  IF web = "flask"
             THEN /\ SetScope(t, s) /\ Goto(u, "stream")
                  /\ wiped' = wiped \cup {u} /\ UNCHANGED <<open, left>>
             ELSE Leave(u, t, s, TRUE)
    /\ UNCHANGED <<web, named, lastId, g, django>>

-----------------------------------------------------------------------------
(* Sanic: one thread, and handlers that let each other run; here too an *)
(* earlier middleware may answer before before_request() is called.     *)

BeginSanic(u, t) ==
    /\ web = "sanic" /\ u \in Requests /\ t = MainThread
    /\ Enter(u, t)
    /\ \/ Goto(u, "run") /\ lastId' = None /\ SetScope(t, MergeRequest(scope[t], u))
       \/ Goto(u, "view") /\ UNCHANGED <<lastId, scope>>
    /\ UNCHANGED <<web, named, g, header, django, wiped, left>>

(* Mutant: handle_exception() trusts the context. *)
SanicExceptionOnly(u, t) ==
    /\ web = "sanic" /\ u \in Requests
    /\ At(u, t, "run") \/ At(u, t, "view")
    /\ event' = EventOf(scope[t], t, u, "exception", None)
    /\ lastId' = u
    /\ Goto(u, "answered")
    /\ UNCHANGED <<web, named, scope, open, g, header, django, wiped, left>>

(* handle_exception() merges its own request again before it captures. *)
SanicException(u, t) ==
    /\ web = "sanic" /\ u \in Requests
    /\ At(u, t, "run") \/ At(u, t, "view")
    /\ LET s == MergeRequest(scope[t], u)
       IN  SetScope(t, s) /\ event' = EventOf(s, t, u, "exception", None)
    /\ lastId' = u
    /\ Goto(u, "answered")
    /\ UNCHANGED <<web, named, open, g, header, django, wiped, left>>

SanicResponse(u, t) ==
    /\ web = "sanic" /\ u \in Requests
    /\ Runs(u, t) /\ pc[u] \in {"view", "run", "answered"}
    /\ Quiet
    /\ header' = [header EXCEPT ![u] = lastId]
    /\ Leave(u, t, Clear(scope[t], t), TRUE)
    /\ UNCHANGED <<web, named, lastId, g, django>>

-----------------------------------------------------------------------------
(* Django: the handler of request_started, then SentryMiddleware. *)

ProcessRequest(u, t) ==
    /\ web = "django" /\ u \in Requests
    /\ Enter(u, t)
    /\ Goto(u, "view")
    /\ SetScope(t, Activate(scope[t]))
    /\ txid' = None
    /\ current' = [current EXCEPT ![t] = u]
    /\ connected' = TRUE
    /\ UNCHANGED <<web, named, flask, wiped, left>>

(* A resolver that fails is logged: the view runs, and nothing is pushed. *)
ProcessView(u, t) ==
    /\ web = "django" /\ At(u, t, "view")
    /\ Goto(u, "run")
    /\ IF u \in named THEN SetScope(t, Push(scope[t], u)) /\ txid' = u
                       ELSE UNCHANGED <<scope, txid>>
    /\ Quiet
    /\ UNCHANGED <<web, named, open, flask, connected, current, wiped, left>>

(* Another middleware answers, so that there is no view. *)
NoView(u, t) ==
    /\ web = "django" /\ At(u, t, "view")
    /\ Goto(u, "answered")
    /\ Quiet
    /\ UNCHANGED <<web, named, scope, open, flask, django, wiped, left>>

(* got_request_exception: the request comes with the signal. *)
DjangoException(u, t) ==
    /\ web = "django" /\ u \in Requests
    /\ At(u, t, "run") \/ At(u, t, "view")
    /\ Report(t, u, "exception", u)
    /\ Goto(u, "answered")
    /\ UNCHANGED <<web, named, scope, open, flask, django, wiped, left>>

(* request_finished is sent; SentryMiddleware hears it while connected. *)
RequestFinished(u, t) ==
    /\ web = "django" /\ u \in Requests
    /\ At(u, t, "run") \/ At(u, t, "answered")
    /\ Quiet
    /\ Leave(u, t, IF connected /\ txid # None THEN Pop(scope[t], txid) ELSE scope[t], FALSE)
    /\ IF connected
         THEN txid' = None /\ current' = [current EXCEPT ![t] = None] /\ connected' = FALSE
         ELSE UNCHANGED django
    /\ UNCHANGED <<web, named, flask>>

-----------------------------------------------------------------------------
(* The handlers that pass what they know to capture(), and Celery. *)

BeginExplicit(u, t) ==
    /\ web \in {"lambda", "explicit"} /\ u \in Requests
    /\ Enter(u, t)
    /\ Goto(u, "run")
    /\ UNCHANGED <<web, named, scope, flask, django, wiped, left>>

(* The wrapper of an AWS Lambda handler clears the context of a failure;  *)
(* Bottle, web.py and the Tornado mixin clear nothing.                    *)
ExplicitException(u, t) ==
    /\ web \in {"lambda", "explicit"} /\ u \in Requests
    /\ At(u, t, "run")
    /\ Report(t, u, "exception", u)
    /\ IF web = "lambda" THEN Leave(u, t, Clear(scope[t], t), TRUE)
                         ELSE Leave(u, t, Touch(scope[t]), FALSE)
    /\ UNCHANGED <<web, named, flask, django>>

ExplicitEnds(u, t) ==
    /\ web \in {"lambda", "explicit"} /\ u \in Requests
    /\ At(u, t, "run")
    /\ Quiet
    /\ Leave(u, t, scope[t], FALSE)
    /\ UNCHANGED <<web, named, flask, django>>

TaskPrerun(u, t) ==
    /\ u \in Tasks
    /\ Enter(u, t)
    /\ Goto(u, "run")
    /\ SetScope(t, Push(Activate(scope[t]), u))
    /\ UNCHANGED <<web, named, flask, django, wiped, left>>

(* task_failure; ignore_expected lets what the task declares pass. *)
TaskFailure(u, t) ==
    /\ u \in Tasks
    /\ At(u, t, "run")
    /\ Goto(u, "answered")
    /\ Quiet \/ Report(t, u, "exception", current[t])
    /\ UNCHANGED <<web, named, scope, open, flask, django, wiped, left>>

TaskPostrun(u, t) ==
    /\ u \in Tasks
    /\ At(u, t, "run") \/ At(u, t, "answered")
    /\ Quiet
    /\ Leave(u, t, Clear(Pop(scope[t], u), t), TRUE)
    /\ UNCHANGED <<web, named, flask, django>>

-----------------------------------------------------------------------------

Wsgi(u, t) ==
    \/ Call(u, t) \/ AppReturns(u, t) \/ AppRaises(u, t) \/ IterRaises(u, t)
    \/ Close(u, t) \/ IterEnds(u, t) \/ CloseAgain(u, t) \/ Abandon(u, t)
Flask(u, t) == BeginFlask(u, t) \/ FlaskException(u, t) \/ AfterRequest(u, t)
Sanic(u, t) == BeginSanic(u, t) \/ SanicException(u, t) \/ SanicResponse(u, t)
Django(u, t) ==
    \/ ProcessRequest(u, t) \/ ProcessView(u, t) \/ NoView(u, t)
    \/ DjangoException(u, t) \/ RequestFinished(u, t)
Explicit(u, t) == BeginExplicit(u, t) \/ ExplicitException(u, t) \/ ExplicitEnds(u, t)
Celery(u, t) == TaskPrerun(u, t) \/ TaskFailure(u, t) \/ TaskPostrun(u, t)

Next ==
    \/ \E u \in Units, t \in Threads :
         \/ Work(u, t) \/ Message(u, t) \/ Wsgi(u, t) \/ Flask(u, t) \/ Sanic(u, t)
         \/ Django(u, t) \/ Explicit(u, t) \/ Celery(u, t)
    \/ \E t \in Threads : WorkOutside(t)

Spec == Init /\ [][Next]_vars

Symmetry == Permutations(Requests)

(* What steps depend on, all but the event that the last one sent: TLC need *)
(* not tell states apart by that, for no invariant mentions it, and action  *)
(* properties only as what a step sends, of which TLC looks at each.        *)
BesideEvent ==
    <<web, named, scope, open, pc, lastId, g, header, txid, connected, current, wiped, left>>

-----------------------------------------------------------------------------
(* Properties *)

(* An exception in a request is reported with that very request, whatever   *)
(* other threads, other coroutines and tasks called eagerly do; it may lack *)
(* one only after the context was cleared under it. (A Flask in debug mode  *)
(* whose before_request() was not reached has nothing but the context.)     *)
OwnRequest ==
    [][event' # None /\ event'.kind = "exception" /\ event'.unit \in Requests =>
        \/ event'.request = event'.unit
        \/ event'.request = None /\ event'.unit \in wiped
        \/ web = "flask_debug" /\ pc[event'.unit] = "view"]_vars

(* An event shows the tags and crumbs of the units its thread is in, of     *)
(* those that left theirs behind there, and of no other; what happened      *)
(* between units only in the client's own thread or after such a unit.      *)
Isolation ==
    [][event' # None =>
        LET t == event'.thread
            seen == event'.tags \cup event'.crumbs
        IN  /\ seen \ {Outside} \subseteq OpenOn(t) \cup left[t]
            /\ Outside \in seen => t = MainThread \/ left[t] # {}]_vars

(* While a task runs, or the view of a request that has a name, its events  *)
(* name it as their transaction: nothing that other units leave on the      *)
(* stack, or pop from it, changes that, not even requests of Django that    *)
(* overlap, for which _txid is one of them all: what it pops is popped from *)
(* another stack. A request without a name (no rule of Flask matches it, or *)
(* Django's resolver fails) has no transaction either, but for what a unit  *)
(* that ended has left on the thread: never that of another one at work.    *)
TransactionOwn ==
    [][event' # None =>
        LET u == event'.unit
        IN  /\ pc[u] = "run"
            /\ u \in Tasks \/ IsFlask \/ web = "django"
            => IF u \in Tasks \cup named THEN event'.transaction = u
               ELSE event'.transaction \in left[event'.thread] \cup {None}]_vars

(* A thread that is between units, and that no unit has left without        *)
(* clearing, keeps nothing of any: the client's own thread goes on          *)
(* recording, the others neither record nor remember.                       *)
CleanUp ==
    \A t \in Threads :
        open[t] = <<>> /\ left[t] = {} =>
            /\ scope[t].request = None /\ scope[t].tags = {} /\ scope[t].stack = <<>>
            /\ IF t = MainThread THEN scope[t].crumbs \subseteq {Outside}
                                 ELSE scope[t].crumbs = {} /\ scope[t].active # "on"

(* The tags of a unit that is still open on its thread only go by a step of *)
(* its own, or when a unit inside it ends: a late close() harms nobody.     *)
NoLateWipe ==
    [][web # "sanic" => \A t \in Threads : \A u \in OpenOn(t) :
          u \in scope[t].tags \ scope'[t].tags =>
              pc'[u] # pc[u] \/ Len(open'[t]) < Len(open[t])]_vars

(* The X-Sentry-ID of a response whose request went through Flask's         *)
(* before_request() is of an event of that request, or there is none.       *)
HeaderOwn ==
    \A r \in Requests : IsFlask /\ g[r] # "unset" /\ header[r] # None => header[r] = r

(* "We're under the assumption that Django will always call our function":  *)
(* when a thread is done with a request, SentryMiddleware has let go of it. *)
FinishedCalled == \A t \in Threads : current[t] # None => open[t] # <<>>
=============================================================================
