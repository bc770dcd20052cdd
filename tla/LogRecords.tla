------------------------------- MODULE LogRecords -------------------------------
(***************************************************************************)
(* raven.handlers.logging, raven.handlers.logbook and the Zope handler on  *)
(* the root logger: which records become events, and the records that      *)
(* capturing and sending log in turn, which come back to the handler.      *)
(***************************************************************************)
EXTENDS PyValues

(* The names of loggers: raven and its children, sentry.errors and its     *)
(* children, names that only begin with the letters "raven", any other.    *)
LoggerNames == {"raven", "sentry.errors", "raven_like", "application"}
Handlers == {"logging", "zope", "logbook"}

(* A record: its logger and its exc_info, which is None, or an exception    *)
(* that is "raised" or was "seen" before.                                  *)
Record(name, exc) == [name |-> name, exc |-> exc]

(* A plausible slip: the errors of the client itself are recorded. *)
CanRecordErrors(handler, record) == record.name # "raven"

(* can_record(); logbook's handler compares a prefix only. *)
CanRecord(handler, record) ==
    record.name \notin ({"raven", "sentry.errors"} \cup
                        (IF handler = "logbook" THEN {"raven_like"} ELSE {}))

(* ignore_exceptions: the class, its name, its qualified name, a base       *)
(* class, or a prefix with an asterisk. Each exclusion is given by the way *)
(* in which it would match.                                                *)
ShouldCapture(exclusions) ==
    exclusions \cap {"class", "name", "qualified name", "base class", "wildcard"} = {}

(* What capture() logs: an exception that is filtered, with the exception  *)
(* that is being handled as exc_info, by the logger of the client, which   *)
(* is named after its class and thus raven's for the clients of this       *)
(* package; a value that cannot be serialized; then the outcome of the     *)
(* sending, and of a failure what would have been sent.                    *)
SendLogs(outcome) ==
    CASE outcome = "sent" -> <<Record("raven", None)>>
      [] outcome = "failed" -> <<Record("raven", None), Record("sentry.errors", "raised"),
                                 Record("sentry.errors", None)>>
      [] outcome = "backing off" -> <<Record("sentry.errors", None)>>

IsEvent(record, exclusions) ==
    record.exc = None \/ (record.exc = "raised" /\ ShouldCapture(exclusions))

CaptureLogs(client, record) ==
    IF record.exc = "seen" THEN <<>>
    ELSE IF ~ IsEvent(record, client.exclusions) THEN <<Record("raven", record.exc)>>
    ELSE (IF client.unserializable THEN <<Record("sentry.errors", "raised")>> ELSE <<>>)
         \o SendLogs(client.capture)

(* emit(): what a record leads to. A disabled client captures nothing. An   *)
(* error in capture() is printed, or raised if raise_send_errors is set;   *)
(* logbook's handler tries once more, with the exception.                  *)
Emit(handler, client, record) ==
    IF ~ CanRecord(handler, record) \/ ~ client.enabled
    THEN [events |-> 0, logs |-> <<>>, raised |-> FALSE]
    ELSE IF client.capture = "raises"
    THEN [events |-> 0, logs |-> <<>>, raised |-> client.raiseSendErrors]
    ELSE [events |-> IF IsEvent(record, client.exclusions) THEN 1 ELSE 0,
          logs |-> CaptureLogs(client, record), raised |-> FALSE]

-----------------------------------------------------------------------------

(* extract_extra(): of the attributes of a record, those of logging itself *)
(* are left out, names with a dot and contextual ones are the event's.     *)
ExtractExtra(attributes, data) ==
    LET kept == {a \in attributes : a.kind \notin {"reserved", "private"}}
        top == {a \in kept : a.kind \in {"dotted", "contextual"}}
        base == CASE data = "dict" -> {"data's keys"} [] data = "value" -> {"data"}
                  [] data = None -> {}
    IN  [data |-> {a.name : a \in top}, extra |-> base \cup {a.name : a \in kept \ top}]

(* _get_targetted_stack(): the frames, outermost first, from the first one *)
(* that does not belong to logging after one that does; all of them if     *)
(* there is none. Frames are given by "logging", or another module.        *)
TargettedStack(stack) ==
    LET starts == {i \in 2..Len(stack) : stack[i - 1] = "logging" /\ stack[i] # "logging"}
        start == CHOOSE i \in starts : \A j \in starts : i <= j
    IN  IF starts = {} THEN stack ELSE SubSeq(stack, start, Len(stack))

(* setup_logging(): the handler is added once, by its class, and with it    *)
(* the loggers that are excluded stop to propagate.                        *)
SetupLogging(handlers, handler) ==
    IF handler \in ToSet(handlers) THEN handlers ELSE Append(handlers, handler)

-----------------------------------------------------------------------------
(* Celery. A record of the worker has data that is no dictionary, lacks    *)
(* "internal" or has it, and comes from _log_error() or elsewhere.         *)

CeleryFilter(record) ==
    IF record.data \in BOOLEAN THEN record.data ELSE record.function # "_log_error"

(* process_logger_event(), each time a logger has been set up: the filter  *)
(* is for the first SentryHandler there is, or for one that is added.      *)
ProcessLoggerEvent(handlers) ==
    LET found == {i \in DOMAIN handlers : handlers[i].class = "SentryHandler"}
        first == CHOOSE i \in found : \A j \in found : i <= j
    IN  IF found = {} THEN Append(handlers, [class |-> "SentryHandler", filter |-> TRUE])
        ELSE [handlers EXCEPT ![first].filter = TRUE]

(* The handlers that report a record. *)
CeleryReports(handlers, record) ==
    {i \in DOMAIN handlers : handlers[i].class = "SentryHandler"
                             /\ (handlers[i].filter => CeleryFilter(record))}

=============================================================================
