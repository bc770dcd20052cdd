---------------------------- MODULE RequestScope ----------------------------
(***************************************************************************)
(* What a client keeps per thread: raven.context.Context (the data that is *)
(* merged into every event, the breadcrumbs, whether the context is active)*)
(* and raven.utils.transaction.TransactionStack. Both are thread-local:    *)
(* they are made when a thread first touches them, and nothing ties them   *)
(* to the request or task that fills them. Data is abstracted to whose it  *)
(* is: a tag or a breadcrumb is the unit of work that left it.             *)
(***************************************************************************)
EXTENDS Naturals, Sequences, FiniteSets, SequencesExt

CONSTANTS
    Threads, MainThread,  \* MainThread made the client (client.main_thread_id)
    Requests, Tasks,      \* web requests, and Celery tasks
    Outside,              \* the owner of what happens outside both
    None

ASSUME MainThreadAssumption == MainThread \in Threads

ASSUME NamesAssumption ==
    /\ Requests \cap Tasks = {}
    /\ {Outside, None, "unset"} \cap (Requests \cup Tasks) = {} /\ None # "unset"

Units == Requests \cup Tasks

Scopes == [request : Requests \cup {None}, tags : SUBSET Units,
           crumbs : SUBSET (Units \cup {Outside}), active : {"new", "on", "off"},
           stack : Seq(Units)]

(* A thread that has not touched the context has none that is active. *)
Untouched == [request |-> None, tags |-> {}, crumbs |-> {}, active |-> "new", stack |-> <<>>]

-----------------------------------------------------------------------------
(* The operations, on the scope s of a thread. *)

Activate(s) == [s EXCEPT !.active = "on"]

(* The first access runs Context.__init__, which activates. *)
Touch(s) == IF s.active = "new" THEN Activate(s) ELSE s

(* merge() activates; a key but 'tags' and 'extra' replaces the one before. *)
MergeRequest(s, r) == [Activate(s) EXCEPT !.request = r]
MergeTag(s, u) == [Activate(s) EXCEPT !.tags = @ \cup {u}]

(* Only a context that is active gets the breadcrumbs of its thread. *)
RecordCrumb(s, u) == IF s.active = "on" THEN [s EXCEPT !.crumbs = @ \cup {u}] ELSE s

(* Mutant: what is cleared stays active. *)
ClearOnly(s, t) == [Touch(s) EXCEPT !.request = None, !.tags = {}, !.crumbs = {}]

(* Mutant: the breadcrumbs stay. *)
ClearData(s, t) == [ClearOnly(s, t) EXCEPT !.crumbs = s.crumbs]

(* clear() leaves the context of the client's own thread active. *)
Clear(s, t) ==
    [Touch(s) EXCEPT !.request = None, !.tags = {}, !.crumbs = {},
                     !.active = IF t = MainThread THEN @ ELSE "off"]

Push(s, u) == [s EXCEPT !.stack = Append(@, u)]

(* Mutant: pop() does not look at what it takes. *)
PopAll(s, u) == [s EXCEPT !.stack = <<>>]

(* pop(u) takes everything down to the last u: the whole stack without one. *)
Pop(s, u) ==
    [s EXCEPT !.stack =
        LET at == {i \in 1..Len(@) : @[i] = u}
        IN  IF at = {} THEN <<>> ELSE SubSeq(@, 1, Max(at) - 1)]

ClearStack(s) == [s EXCEPT !.stack = <<>>]

(* What build_msg() takes from the scope for an event of unit u; a request *)
(* the caller passes itself wins over the one of the context.              *)
EventOf(s, t, u, kind, request) ==
    [unit |-> u, thread |-> t, kind |-> kind,
     request |-> IF request # None THEN request ELSE s.request,
     tags |-> s.tags, crumbs |-> s.crumbs,
     transaction |-> IF s.stack = <<>> THEN None ELSE Last(s.stack)]
=============================================================================
