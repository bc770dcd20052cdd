------------------------------ MODULE Capture ------------------------------
(***************************************************************************)
(* What one thread of the application does to its Context of a client      *)
(* (raven.context, raven.breadcrumbs) and the way from Client.capture() to *)
(* an event (raven.base): the exceptions that are skipped because they     *)
(* were reported before, and the breadcrumbs, whose processors run while   *)
(* get_buffer() iterates over the buffer and may record crumbs themselves. *)
(* The Context is thread-local: no other thread takes part.                *)
(***************************************************************************)
EXTENDS Naturals, Sequences, FiniteSets, SequencesExt

CONSTANTS
    Bodies,      \* what the formatted payload of a crumb may be
    Processors,  \* what its processor may do: a subset of ProcessorKinds
    Limit,       \* BreadcrumbBuffer.limit: 100 in the code
    Keys,        \* what _get_exception_key() may return
    Ignored,     \* those of the exceptions ignore_exceptions excludes
    OnMain,      \* the thread is the one that created the client
    None

(* A processor completes the payload or empties it, raises an exception, or *)
(* logs, and so has a crumb of its own recorded, before it completes it.    *)
ProcessorKinds == {"completes", "empties", "raises", "logs"}

ASSUME ConstantsAssumption ==
    /\ Processors \subseteq ProcessorKinds
    /\ Limit \in Nat \ {0}
    /\ Ignored \subseteq Keys
    /\ OnMain \in BOOLEAN
    /\ None \notin Bodies \cup Keys \cup ProcessorKinds

VARIABLES
    buffer,    \* BreadcrumbBuffer.buffer
    skip,      \* exceptions_to_skip
    active,    \* the context is in _active_contexts of the thread
    error,     \* the key of the exception being handled, or None
    pc,        \* the capture() under way, if there is one
    captured,  \* its exc_info
    idx,       \* get_buffer(): the position of the loop,
    payload,   \*   the crumb whose processor is running,
    rv,        \*   and what has been collected
    \* What the properties talk about and the code does not store:
    newest,    \* the last Limit crumbs recorded since the last clear()
    shifted,   \* a processor has recorded into a full buffer since then
    told,      \* keys of the exception being handled that have an event
    traces     \* the keys it has had

contextVars == <<skip, active>>
captureVars == <<pc, captured, idx, payload, rv>>
errorVars == <<error, told, traces>>
recordVars == <<buffer, newest, shifted>>
vars == <<contextVars, captureVars, errorVars, recordVars>>

(* The body is what the processor, if there is one, makes of the payload. *)
Crumbs == [body : Bodies \cup {None}, processor : ProcessorKinds \cup {None}]

NewCrumbs ==
    {crumb \in Crumbs :
        /\ crumb.processor \in Processors \cup {None}
        /\ crumb.body = None <=> crumb.processor \in {"empties", "raises"}}

TypeOK ==
    /\ buffer \in Seq(Crumbs) /\ Len(buffer) <= Limit
    /\ newest \in Seq(Crumbs) /\ Len(newest) <= Limit
    /\ skip \subseteq Keys
    /\ active \in BOOLEAN /\ shifted \in BOOLEAN
    /\ error \in Keys \cup {None}
    /\ told \subseteq traces /\ traces \subseteq Keys
    /\ pc \in {"app", "loop", "processor", "built"}
    /\ captured \in Keys \cup {None}
    /\ idx \in 1..(Limit + 1)
    /\ payload \in Crumbs
    /\ rv \in Seq(Bodies) /\ Len(rv) <= Limit

NoCrumb == [body |-> None, processor |-> None]

Init ==
    /\ buffer = <<>>
    /\ skip = {}
    /\ active = TRUE          \* __init__ activates it
    /\ error = None
    /\ pc = "app" /\ captured = None
    /\ idx = 1 /\ payload = NoCrumb /\ rv = <<>>
    /\ newest = <<>> /\ shifted = FALSE
    /\ told = {} /\ traces = {}

-----------------------------------------------------------------------------
(* BreadcrumbBuffer.record() *)

(* Mutant: one more than the limit stays. *)
OneMore(crumbs) ==
    IF Len(crumbs) > Limit + 1 THEN SubSeq(crumbs, Len(crumbs) - Limit, Len(crumbs)) ELSE crumbs

(* del self.buffer[:-self.limit] *)
Newest(crumbs) ==
    IF Len(crumbs) > Limit THEN SubSeq(crumbs, Len(crumbs) - Limit + 1, Len(crumbs)) ELSE crumbs

Record(crumb) == buffer' = Newest(Append(buffer, crumb))

Remember(crumb) ==
    newest' = LET all == Append(newest, crumb)
              IN  SubSeq(all, IF Len(all) > Limit THEN 2 ELSE 1, Len(all))

-----------------------------------------------------------------------------
(* The application *)

(* client.captureBreadcrumb(), or breadcrumbs.record(), which reaches the *)
(* active contexts only.                                                  *)
RecordCrumb(crumb) ==
    /\ pc = "app"
    /\ Record(crumb)
    /\ Remember(crumb)
    /\ UNCHANGED <<contextVars, captureVars, errorVars, shifted>>

(* merge(), activate() and __enter__(); deactivate() and __exit__(). *)
Activate(on) ==
    /\ pc = "app"
    /\ active' = on
    /\ UNCHANGED <<skip, captureVars, errorVars, recordVars>>

(* clear() leaves the context active in the client's own thread only. *)
Clear ==
    /\ pc = "app"
    /\ buffer' = <<>> /\ newest' = <<>> /\ shifted' = FALSE
    /\ skip' = {}
    /\ active' = (active /\ OnMain)
    /\ told' = {}
    /\ UNCHANGED <<error, traces, captureVars>>

(* An exception is raised, with a key no other has at the time: the objects *)
(* whose id() are in it may have the addresses of some that are gone.       *)
Raise(key) ==
    /\ pc = "app"
    /\ error = None
    /\ error' = key
    /\ traces' = {key}
    /\ told' = {}
    /\ UNCHANGED <<contextVars, captureVars, recordVars>>

(* The frame that handled it raises it again: another traceback object. *)
Reraise(key) ==
    /\ pc = "app"
    /\ error # None
    /\ key \notin traces
    /\ error' = key
    /\ traces' = traces \cup {key}
    /\ UNCHANGED <<told, contextVars, captureVars, recordVars>>

(* The except clause is left: the objects are freed. *)
Handled ==
    /\ pc = "app"
    /\ error # None
    /\ error' = None
    /\ told' = {}
    /\ traces' = {}
    /\ UNCHANGED <<contextVars, captureVars, recordVars>>

-----------------------------------------------------------------------------
(* capture() *)

(* Mutant: nothing is skipped. *)
NeverSkip(key) == FALSE

(* skip_error_for_logging() *)
SkipError(key) == key \in skip

BeginBuild(key) ==
    /\ pc' = "loop"
    /\ captured' = key
    /\ idx' = 1
    /\ rv' = <<>>
    /\ UNCHANGED <<payload, active, errorVars, recordVars>>

CaptureMessage == pc = "app" /\ BeginBuild(None) /\ UNCHANGED skip

(* record_exception_seen() comes before there is an event. *)
CaptureException ==
    /\ pc = "app"
    /\ error # None
    /\ ~SkipError(error)
    /\ error \notin Ignored
    /\ skip' = skip \cup {error}
    /\ BeginBuild(error)

(* No event: the exception was seen before, or is not to be reported. *)
Skipped ==
    /\ pc = "app"
    /\ error # None
    /\ SkipError(error)
    /\ UNCHANGED vars

Filtered ==
    /\ pc = "app"
    /\ error \in Ignored
    /\ ~SkipError(error)
    /\ UNCHANGED vars

-----------------------------------------------------------------------------
(* get_buffer(), one iteration after the other over the live list *)

(* Mutants: a crumb like any other before it is left out; the loop stays *)
(* where it is in a full buffer, to meet the crumb that moved there.     *)
CollectOnce(found, body) == IF body \in ToSet(found) THEN found ELSE Append(found, body)
SameIndex(i) == IF Len(buffer) = Limit THEN i ELSE i + 1

(* Leaves out what event_payload_considered_equal() to the crumb before it. *)
Collect(found, body) ==
    IF body = None \/ (found # <<>> /\ Last(found) = body) THEN found ELSE Append(found, body)

NextIndex(i) == i + 1

Plain ==
    /\ pc = "loop"
    /\ idx <= Len(buffer)
    /\ buffer[idx].processor = None
    /\ rv' = Collect(rv, buffer[idx].body)
    /\ idx' = NextIndex(idx)
    /\ UNCHANGED <<pc, captured, payload, contextVars, errorVars, recordVars>>

CallProcessor ==
    /\ pc = "loop"
    /\ idx <= Len(buffer)
    /\ buffer[idx].processor # None
    /\ payload' = buffer[idx]
    /\ pc' = "processor"
    /\ UNCHANGED <<captured, idx, rv, contextVars, errorVars, recordVars>>

(* The crumb a processor logs goes to the buffer that is being iterated. *)
ProcessorLogs(crumb) ==
    /\ pc = "processor"
    /\ payload.processor = "logs"
    /\ IF active THEN /\ Record(crumb)
                      /\ Remember(crumb)
                      /\ shifted' = (shifted \/ Len(buffer) = Limit)
                 ELSE UNCHANGED recordVars
    /\ payload' = [payload EXCEPT !.processor = "completes"]
    /\ UNCHANGED <<pc, captured, idx, rv, contextVars, errorVars>>

(* self.buffer[idx] = (payload, None) *)
ProcessorReturns ==
    /\ pc = "processor"
    /\ payload.processor \in {"completes", "empties"}
    /\ buffer' = [buffer EXCEPT ![idx] = [payload EXCEPT !.processor = None]]
    /\ rv' = Collect(rv, payload.body)
    /\ idx' = NextIndex(idx)
    /\ payload' = NoCrumb
    /\ pc' = "loop"
    /\ UNCHANGED <<captured, newest, shifted, contextVars, errorVars>>

CaptureOver == pc' = "app" /\ captured' = None /\ idx' = 1 /\ rv' = <<>>

(* `raise`: capture() is left with the exception of the processor. *)
ProcessorRaises ==
    /\ pc = "processor"
    /\ payload.processor = "raises"
    /\ payload' = NoCrumb
    /\ CaptureOver
    /\ UNCHANGED <<contextVars, errorVars, recordVars>>

LoopOver ==
    /\ pc = "loop"
    /\ idx > Len(buffer)
    /\ pc' = "built"
    /\ UNCHANGED <<captured, idx, payload, rv, contextVars, errorVars, recordVars>>

(* send(), which sampling may leave out: the id is returned all the same. *)
Send ==
    /\ pc = "built"
    /\ told' = IF captured = None THEN told ELSE told \cup {captured}
    /\ CaptureOver
    /\ UNCHANGED <<payload, error, traces, contextVars, recordVars>>

-----------------------------------------------------------------------------

CaptureStep ==
    \/ Plain \/ CallProcessor
    \/ \E crumb \in NewCrumbs : ProcessorLogs(crumb)
    \/ ProcessorReturns \/ ProcessorRaises
    \/ LoopOver \/ Send

Next ==
    \/ \E crumb \in NewCrumbs : RecordCrumb(crumb)
    \/ \E on \in BOOLEAN : Activate(on)
    \/ Clear
    \/ \E key \in Keys : Raise(key) \/ Reraise(key)
    \/ Handled
    \/ CaptureMessage \/ CaptureException \/ Skipped \/ Filtered
    \/ CaptureStep

Spec == Init /\ [][Next]_vars

(* A call of capture() runs on, and so do the processors it calls. *)
FairSpec == Spec /\ WF_vars(CaptureStep)

-----------------------------------------------------------------------------
(* Properties *)

(* The bodies that an event has of the first n of these crumbs: each crumb  *)
(* has its place among them, in their order, but those that are empty; a    *)
(* run of equal ones shares a place; and nothing else is there.             *)
Attached(n, crumbs, bodies) ==
    /\ \A k \in 2..Len(bodies) : bodies[k] # bodies[k - 1]
    /\ \E place \in [0..n -> 0..Len(bodies)] :
          /\ place[0] = 0 /\ place[n] = Len(bodies)
          /\ \A i \in 1..n :
                IF crumbs[i].body = None
                THEN place[i] = place[i - 1]
                ELSE /\ place[i] \in {place[i - 1], place[i - 1] + 1} \ {0}
                     /\ bodies[place[i]] = crumbs[i].body

(* Whatever was recorded, processed and captured before, the crumbs of an   *)
(* event are the last Limit recorded since the last clear(), each in its    *)
(* place, as long as no processor records into a full buffer: also crumbs   *)
(* recorded while the processors run, and after captures that failed.       *)
CrumbsAttached == [][Send /\ ~shifted => Attached(Len(newest), newest, rv)]_vars

(* get_buffer() comes to its end, even if every crumb it processes makes    *)
(* another one that is to be processed: the list it iterates over is full   *)
(* some day.                                                                *)
CaptureEnds == pc # "app" ~> pc = "app"

(* "Remember exceptions in flight until the context is cleared so that two  *)
(* reports with the same exception data do not result in two errors": a     *)
(* frame that reports the exception it handles reports it once.             *)
ReportedOnce == [][Send /\ captured # None => captured \notin told]_vars

(* "if breadcrumbs fail to process due to an error they are now skipped"    *)
FailuresSkipped == [][~ProcessorRaises]_vars

(* captureBreadcrumb(): "They will be sent with the next event."            *)
SentWithNextEvent == [][Send => Attached(Len(newest), newest, rv)]_vars

(* captureException(): "Creates an event from an exception". The one it is  *)
(* going to skip has its event already.                                     *)
EventFromException ==
    pc = "app" /\ error # None /\ SkipError(error) => error \in told
=============================================================================
