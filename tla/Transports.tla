----------------------------- MODULE Transports -----------------------------
(***************************************************************************)
(* The transports, and the clients that send in their own way: what each   *)
(* tells of an event whose request is accepted, rejected by the server or  *)
(* fails, and when. The threaded ones are composed with worker objects of  *)
(* which only the thread, the queue and the lock are kept (AsyncWorker has *)
(* the rest), in a process that may fork; gevent's with its semaphore.     *)
(***************************************************************************)
EXTENDS Naturals, Sequences, FiniteSets, Functions

CONSTANTS
    Events,
    MaxOutstanding,  \* maximum_outstanding_requests of the gevent transport
    MaxDeaths,       \* how many worker threads die of what they run
    None

ASSUME BoundsAssumption ==
    IsFiniteSet(Events) /\ MaxOutstanding \in Nat \ {0} /\ MaxDeaths \in Nat

VARIABLES
    kind,     \* the transport or client
    loop,     \* the IOLoop or reactor that drives what is asynchronous
    pc,       \* where each event is; at a process while its worker is handed it
    told,     \* what the client was told of each event
    outcome,  \* what became of the request of each event, if it was made
    sent,     \* how many requests each event has caused, in all processes
    permits,  \* what is left of the semaphore
    forked,   \* there is a child process
    worker,   \* the worker object of each process: its number in `workers`
    workers,  \* of each process, the worker objects in its memory
    deaths

vars == <<kind, loop, pc, told, outcome, sent, permits, forked, worker, workers, deaths>>
processes == <<forked, worker, workers, deaths>>
transport == <<loop, permits>>

Threaded == {"threaded", "threaded_requests", "async_client"}
Kinds == Threaded \cup {"http", "requests", "eventlet", "gevent", "tornado", "twisted",
                        "tornado_client"}
Processes == {"parent", "child"}
Outcomes == {"accepted", "rejected", "failed"}
Places == Processes \cup {"new", "queued", "acquire", "request", "body", "over"}
Driven == {"tornado", "tornado_client", "twisted"}

(* A worker object: its thread runs in this process, a thread is in one of *)
(* its methods that hold _lock, and the events in its queue.               *)
WorkerObjects == [alive : BOOLEAN, locked : BOOLEAN, queue : Seq(Events)]
NewWorker == [alive |-> TRUE, locked |-> FALSE, queue |-> <<>>]

TypeOK ==
    /\ kind \in Kinds /\ loop \in {"none", "initialized", "running"}
    /\ pc \in [Events -> Places]
    /\ told \in [Events -> {"nothing", "success", "failure"}]
    /\ outcome \in [Events -> Outcomes \cup {None}]
    /\ sent \in [Events -> Nat]
    /\ permits \in 0..MaxOutstanding
    /\ forked \in BOOLEAN /\ deaths \in 0..MaxDeaths
    /\ worker \in [Processes -> Nat] /\ workers \in [Processes -> Seq(WorkerObjects)]
    /\ \A p \in Processes : worker[p] <= Len(workers[p])

Init ==
    /\ kind \in Kinds
    /\ loop \in {"none", "initialized", "running"}
    /\ loop = "none" => kind = "tornado"
    /\ loop = "initialized" => kind \in Driven
    /\ pc = [e \in Events |-> "new"]
    /\ told = [e \in Events |-> "nothing"]
    /\ outcome = [e \in Events |-> None]
    /\ sent = [e \in Events |-> 0]
    /\ permits = MaxOutstanding
    /\ forked = FALSE
    /\ workers = [p \in Processes |-> IF kind = "async_client" /\ p = "parent"
                                        THEN <<NewWorker>> ELSE <<>>]
    /\ worker = [p \in Processes |-> Len(workers[p])]
    /\ deaths = 0

Goto(e, label) == pc' = [pc EXCEPT ![e] = label]

(* urllib2 raises for a status that is an error, and send() passes it on; *)
(* so do the clients of tornado, and twisted's on_success() looks itself. *)
Verdict(result) == IF result = "accepted" THEN "success" ELSE "failure"

(* requests.post() raises for a connection, not for a status; eventlet's   *)
(* send() has only started a greenlet, whose outcome nobody looks at.      *)
Tells(result) ==
    CASE kind \in {"requests", "threaded_requests"} ->
           IF result = "failed" THEN "failure" ELSE "success"
      [] kind = "eventlet" -> "success"
      [] OTHER -> Verdict(result)

(* The request of e is over, and the client hears of it. *)
Answered(e, result) ==
    /\ outcome' = [outcome EXCEPT ![e] = result]
    /\ sent' = [sent EXCEPT ![e] = @ + 1]
    /\ told' = [told EXCEPT ![e] = Tells(result)]

-----------------------------------------------------------------------------
(* send(): http, requests and eventlet. *)

Send(e) ==
    /\ kind \in {"http", "requests"}
    /\ pc[e] = "new"
    /\ \E result \in Outcomes : Answered(e, result)
    /\ Goto(e, "over")
    /\ UNCHANGED <<kind, transport, processes>>

SendEventlet(e) ==
    /\ kind = "eventlet"
    /\ pc[e] = "new"
    /\ told' = [told EXCEPT ![e] = "success"]
    /\ Goto(e, "request")
    /\ UNCHANGED <<kind, transport, outcome, sent, processes>>

(* _send_payload(): an exception is the value that its greenlet returns. *)
EventletRequest(e) ==
    /\ kind = "eventlet"
    /\ pc[e] = "request"
    /\ \E result \in Outcomes : outcome' = [outcome EXCEPT ![e] = result]
    /\ sent' = [sent EXCEPT ![e] = @ + 1]
    /\ Goto(e, "over")
    /\ UNCHANGED <<kind, transport, told, processes>>

-----------------------------------------------------------------------------
(* gevent: the sender waits for a permit, the greenlet's link gives it back. *)

AsyncSendGevent(e) ==
    /\ kind = "gevent"
    /\ pc[e] = "new"
    /\ Goto(e, "acquire")
    /\ UNCHANGED <<kind, transport, told, outcome, sent, processes>>

Spawn(e) ==
    /\ kind = "gevent"
    /\ pc[e] = "acquire"
    /\ permits > 0
    /\ permits' = permits - 1
    /\ Goto(e, "request")
    /\ UNCHANGED <<kind, loop, told, outcome, sent, processes>>

(* Mutant: only a greenlet that was successful releases. *)
ReleaseOnSuccess(result) == IF result = "accepted" THEN 1 ELSE 0

(* Mutant: the permit comes back from the link and from the callback. *)
ReleaseTwice(result) == IF result = "accepted" THEN 1 ELSE 2

Release(result) == 1

Done(e) ==
    /\ kind = "gevent"
    /\ pc[e] = "request"
    /\ \E result \in Outcomes :
         Answered(e, result) /\ permits' = permits + Release(result)
    /\ Goto(e, "over")
    /\ UNCHANGED <<kind, loop, processes>>

-----------------------------------------------------------------------------
(* tornado and twisted: a future or deferred, and its callback. *)

(* Without an IOLoop, TornadoHTTPTransport uses the synchronous client. *)
SendTornado(e) ==
    /\ kind = "tornado"
    /\ pc[e] = "new"
    /\ IF loop = "none"
         THEN (\E result \in Outcomes : Answered(e, result)) /\ Goto(e, "over")
         ELSE Goto(e, "request") /\ UNCHANGED <<told, outcome, sent>>
    /\ UNCHANGED <<kind, transport, processes>>

(* AsyncSentryClient.send_remote() and TwistedHTTPTransport.async_send(). *)
Fetch(e) ==
    /\ kind \in {"tornado_client", "twisted"}
    /\ pc[e] = "new"
    /\ Goto(e, "request")
    /\ UNCHANGED <<kind, transport, told, outcome, sent, processes>>

(* The callback of the future: handler() and _handle_result(). *)
HandleResult(e) ==
    /\ kind \in {"tornado", "tornado_client"}
    /\ pc[e] = "request" /\ loop = "running"
    /\ \E result \in Outcomes : Answered(e, result)
    /\ Goto(e, "over")
    /\ UNCHANGED <<kind, transport, processes>>

StartLoop ==
    /\ loop = "initialized"
    /\ loop' = "running"
    /\ UNCHANGED <<kind, pc, told, outcome, sent, permits, processes>>

(* on_success() for status 200, and on_failure(). *)
DeferredFires(e) ==
    /\ kind = "twisted"
    /\ pc[e] = "request" /\ loop = "running"
    /\ \E result \in {"accepted", "failed"} : Answered(e, result)
    /\ Goto(e, "over")
    /\ UNCHANGED <<kind, transport, processes>>

(* Any other status: the failure is told when the body has been read. *)
ReadBody(e) ==
    /\ kind = "twisted"
    /\ pc[e] = "request" /\ loop = "running"
    /\ outcome' = [outcome EXCEPT ![e] = "rejected"]
    /\ sent' = [sent EXCEPT ![e] = @ + 1]
    /\ Goto(e, "body")
    /\ UNCHANGED <<kind, transport, told, processes>>

(* on_error_body(); a body that cannot be read goes to on_failure(). *)
BodyRead(e) ==
    /\ pc[e] = "body" /\ loop = "running"
    /\ told' = [told EXCEPT ![e] = "failure"]
    /\ Goto(e, "over")
    /\ UNCHANGED <<kind, transport, outcome, sent, processes>>

-----------------------------------------------------------------------------
(* The threaded transports and AsyncClient, in a parent and its child. *)

Runs(p) == p = "parent" \/ forked
Set(p, i, w) == workers' = [workers EXCEPT ![p][i] = w]

(* Mutant: get_worker() of the threaded transport keeps what it has. *)
KeepWorker(p) == worker[p] = 0

(* get_worker() makes a worker: always for the first event; the threaded  *)
(* transport also when the one it has is not alive.                       *)
MakesWorker(p) ==
    IF worker[p] = 0 THEN TRUE
                     ELSE kind = "threaded" /\ ~workers[p][worker[p]].alive

(* async_send(), or send() of AsyncClient, by a thread of the process p. *)
AsyncSend(e, p) ==
    /\ kind \in Threaded /\ Runs(p)
    /\ pc[e] = "new"
    /\ Goto(e, p)
    /\ UNCHANGED <<kind, transport, told, outcome, sent, processes>>

QueueNew(e, p) ==
    /\ pc[e] = p
    /\ MakesWorker(p)
    /\ workers' = [workers EXCEPT ![p] = Append(@, [NewWorker EXCEPT !.queue = <<e>>])]
    /\ worker' = [worker EXCEPT ![p] = Len(workers'[p])]
    /\ Goto(e, "queued")
    /\ UNCHANGED <<kind, transport, told, outcome, sent, forked, deaths>>

(* queue() starts a thread for a worker that has none, under its lock. *)
Queue(e, p) ==
    /\ pc[e] = p
    /\ ~MakesWorker(p)
    /\ LET w == workers[p][worker[p]]
       IN  /\ w.alive \/ ~w.locked
           /\ Set(p, worker[p], [w EXCEPT !.alive = TRUE, !.queue = Append(@, e)])
    /\ Goto(e, "queued")
    /\ UNCHANGED <<kind, transport, told, outcome, sent, forked, worker, deaths>>

(* send_sync() of the transport, or of AsyncClient, in the worker thread. *)
SendSync(p, i) ==
    /\ Runs(p) /\ i \in DOMAIN workers[p]
    /\ LET w == workers[p][i]
       IN  /\ w.alive /\ w.queue # <<>>
           /\ Set(p, i, [w EXCEPT !.queue = Tail(@)])
           /\ \E result \in Outcomes : Answered(Head(w.queue), result)
           /\ Goto(Head(w.queue), "over")
    /\ UNCHANGED <<kind, transport, forked, worker, deaths>>

(* What the thread runs raises no Exception: the event is lost with it. *)
Dies(p, i) ==
    /\ deaths < MaxDeaths
    /\ Runs(p) /\ i \in DOMAIN workers[p]
    /\ LET w == workers[p][i]
       IN  /\ w.alive /\ w.queue # <<>>
           /\ Set(p, i, [w EXCEPT !.alive = FALSE, !.queue = Tail(@)])
           /\ Goto(Head(w.queue), "over")
    /\ deaths' = deaths + 1
    /\ UNCHANGED <<kind, transport, told, outcome, sent, forked, worker>>

(* Another thread of the parent is in start() or stop(), until it is done. *)
TakeLock(i) ==
    /\ i \in DOMAIN workers["parent"] /\ ~forked
    /\ ~workers["parent"][i].locked
    /\ Set("parent", i, [workers["parent"][i] EXCEPT !.locked = TRUE])
    /\ UNCHANGED <<kind, transport, pc, told, outcome, sent, forked, worker, deaths>>

LeaveLock(i) ==
    /\ i \in DOMAIN workers["parent"]
    /\ workers["parent"][i].locked
    /\ Set("parent", i, [workers["parent"][i] EXCEPT !.locked = FALSE])
    /\ UNCHANGED <<kind, transport, pc, told, outcome, sent, forked, worker, deaths>>

(* fork(): the child has the parent's memory, and one thread. *)
Fork ==
    /\ kind \in Threaded /\ ~forked
    /\ forked' = TRUE
    /\ workers' = [workers EXCEPT
         !["child"] = [i \in DOMAIN workers["parent"] |->
                         [workers["parent"][i] EXCEPT !.alive = FALSE]]]
    /\ worker' = [worker EXCEPT !["child"] = worker["parent"]]
    /\ UNCHANGED <<kind, transport, pc, told, outcome, sent, deaths>>

-----------------------------------------------------------------------------

Request(e) ==
    \/ Send(e) \/ SendEventlet(e) \/ EventletRequest(e)
    \/ AsyncSendGevent(e) \/ Spawn(e) \/ Done(e)
    \/ SendTornado(e) \/ Fetch(e) \/ HandleResult(e)
    \/ DeferredFires(e) \/ ReadBody(e) \/ BodyRead(e)

(* A process makes another worker when one has died; a child has copies. *)
Numbers == 1..(MaxDeaths + 2)

(* Who waits for a permit has it, and who hands an event over the lock. *)
GetsThrough(e) == Spawn(e) \/ \E p \in Processes : QueueNew(e, p) \/ Queue(e, p)

Next ==
    \/ \E e \in Events : Request(e)
    \/ \E e \in Events, p \in Processes : AsyncSend(e, p) \/ QueueNew(e, p) \/ Queue(e, p)
    \/ \E p \in Processes, i \in Numbers : SendSync(p, i) \/ Dies(p, i)
    \/ \E i \in Numbers : TakeLock(i) \/ LeaveLock(i)
    \/ StartLoop \/ Fork

Spec == Init /\ [][Next]_vars

(* Greenlets, threads and the callbacks of a loop that runs get to run, and *)
(* who waits for a permit or a lock that is free time and again gets it. An *)
(* event need not be sent, nor a loop or reactor ever be started.           *)
FairSpec ==
    /\ Spec
    /\ \A e \in Events : WF_vars(pc[e] # "new" /\ Request(e)) /\ SF_vars(GetsThrough(e))
    /\ \A p \in Processes, i \in Numbers : WF_vars(SendSync(p, i))
    /\ \A i \in Numbers : WF_vars(LeaveLock(i))

-----------------------------------------------------------------------------
(* Properties *)

(* However processes fork, and workers die and are replaced, an event that  *)
(* the threaded transport takes is sent once at most: a child starts with a *)
(* worker of its own and leaves the parent's events to the parent. And it   *)
(* can take an event, even when the fork came while another thread was      *)
(* inside the worker it had (get_worker()).                                 *)
ForkSafe ==
    kind = "threaded" =>
        /\ \A e \in Events : sent[e] <= 1
        /\ forked => MakesWorker("child") \/ workers["child"][worker["child"]].alive

(* The permits and the greenlets that have one always make up the whole:    *)
(* however a request ends, its permit comes back.                           *)
Semaphore ==
    kind = "gevent" =>
        permits + Cardinality({e \in Events : pc[e] = "request"}) = MaxOutstanding

(* What the client should hear of e; the transports over requests and       *)
(* eventlet do not look at the answer, and what they tell is not held.      *)
Known(e) ==
    IF kind \in {"requests", "threaded_requests", "eventlet"} THEN told[e] # "nothing"
    ELSE outcome[e] # None /\ told[e] = Verdict(outcome[e])

(* e was with a worker whose thread died, and no living one has it. *)
LostWithWorker(e) ==
    /\ deaths > 0
    /\ \/ pc[e] = "over"
       \/ pc[e] = "queued" /\ \A p \in Processes : \A i \in DOMAIN workers[p] :
             workers[p][i].alive => e \notin Range(workers[p][i].queue)

(* A child waits in queue() for the lock that a thread of its parent held   *)
(* at the fork: nobody will ever leave it. (threaded_requests and           *)
(* AsyncClient keep the worker they have.)                                  *)
WaitsForParent(e) ==
    /\ kind # "threaded"
    /\ pc[e] = "child" /\ worker["child"] # 0 /\ workers["child"][worker["child"]].locked


=============================================================================
