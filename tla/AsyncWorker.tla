---------------------------- MODULE AsyncWorker ----------------------------
(***************************************************************************)
(* raven.transport.threaded.AsyncWorker in one process: application        *)
(* threads that call queue() and stop(), the worker threads they start,    *)
(* and the main thread, which runs main_thread_terminated() once for each  *)
(* atexit registration when the interpreter exits.                         *)
(*                                                                         *)
(* A step is a stretch of code that no other thread can tell from one      *)
(* instant: what start() does with the lock held is one step, for a        *)
(* reader without the lock who sees half of it goes on to wait for the     *)
(* lock; stop() and the handlers, which wait with the lock held, are two.  *)
(***************************************************************************)
EXTENDS Naturals, Sequences, FiniteSets, SequencesExt

CONSTANTS
    Threads,     \* application threads
    Daemons,     \* those the interpreter does not wait for before atexit runs
    Main,        \* the main thread, from the moment the interpreter exits
    Jobs,        \* the (callback, args, kwargs) triples given to queue()
    Fatal,       \* jobs whose callback raises something that is no Exception
    MaxWorkers,  \* bound on the thread objects start() creates
    StopKinds,   \* subset of {"joinTimed", "joinForever"}: stop(t), stop(None)
    MaxStops,    \* bound on the calls of stop()
    StartMayFail,\* Thread.start() may raise "can't start new thread"
    Terminator,  \* AsyncWorker._terminator
    None

(* The thread objects, numbered in the order of their creation. *)
Workers == 1..MaxWorkers

Joins == {"joinTimed", "joinForever"}

ASSUME DomainAssumption ==
    /\ Daemons \subseteq Threads
    /\ Fatal \subseteq Jobs
    /\ StopKinds \subseteq Joins
    /\ MaxStops \in Nat
    /\ StartMayFail \in BOOLEAN
    /\ IsFiniteSet(Jobs)
    /\ MaxWorkers \in Nat
    /\ MaxWorkers > Cardinality(Jobs)   \* no call of queue() needs two

ASSUME DistinctAssumption ==
    /\ Main \notin Threads
    /\ Terminator \notin Jobs
    /\ None \notin Threads \cup Workers \cup Jobs \cup {Main, Terminator}

VARIABLES
    queue,       \* self._queue
    unfinished,  \* self._queue.unfinished_tasks
    lock,        \* who holds self._lock over more than one step
    thread,      \* self._thread
    ownPid,      \* self._thread_for_pid = os.getpid()
    wstate,      \* where each worker thread is in _target()
    hand,        \* the local variable record of each worker thread
    pc,          \* where each application thread is in queue() or stop()
    job,         \* the job each application thread is queueing
    registered,  \* atexit registrations not yet run
    mainpc,      \* where the main thread is in the atexit handlers
    \* What the properties talk about and the code does not store:
    offered,     \* jobs passed to queue() so far
    accepted,    \* jobs put on the queue, in order
    finished,    \* jobs whose callback has run, in order
    mark,        \* how many of them a waiting stop(), or the exit, waits for
    stops,       \* calls of stop() so far
    gaveUp       \* a join timed out or was interrupted

selfVars == <<lock, thread, ownPid>>
queueVars == <<queue, unfinished>>
workerVars == <<wstate, hand>>
callVars == <<pc, job, offered>>
exitVars == <<registered, mainpc>>
logVars == <<accepted, finished, mark, stops, gaveUp>>
vars == <<selfVars, queueVars, workerVars, callVars, exitVars, logVars>>

WorkerStates == {"unborn", "unstarted", "get", "call", "break", "done", "die",
                 "ending", "dead"}
CallStates == {"idle", "readAlive", "start", "put"} \cup Joins
ExitStates == {"run", "handlers", "join", "exited"}

TypeOK ==
    /\ queue \in Seq(Jobs \cup {Terminator})
    /\ unfinished \in Nat
    /\ lock \in Threads \cup {Main, None}
    /\ thread \in Workers \cup {None}
    /\ ownPid \in BOOLEAN
    /\ wstate \in [Workers -> WorkerStates]
    /\ hand \in [Workers -> Jobs \cup {Terminator, None}]
    /\ pc \in [Threads -> CallStates]
    /\ job \in [Threads -> Jobs \cup {None}]
    /\ registered \in Nat
    /\ mainpc \in ExitStates
    /\ offered \subseteq Jobs
    /\ accepted \in Seq(Jobs)
    /\ finished \in Seq(Jobs)
    /\ mark \in [Threads \cup {Main} -> Nat]
    /\ stops \in 0..MaxStops
    /\ gaveUp \in BOOLEAN

-----------------------------------------------------------------------------

(* threading.Thread.is_alive(): from start() until _target() has returned. *)
Running(w) == wstate[w] \notin {"unborn", "unstarted", "dead"}

(* is_alive(), evaluated under the lock, where nobody else writes self. *)
IsAlive == ownPid /\ thread # None /\ Running(thread)

(* Mutant: start() does not look again once it has the lock. *)
AlwaysNeeded == TRUE

ThreadNeeded == ~IsAlive

Enqueue(q, record) == Append(q, record)

(* Mutant: the terminator overtakes the jobs. *)
TerminatorFirst(q) == <<Terminator>> \o q

TerminatorLast(q) == Enqueue(q, Terminator)

PutTerminator == queue' = TerminatorLast(queue) /\ unfinished' = unfinished + 1

(* A step of an application thread, and of a worker: both are gone with the *)
(* process.                                                                 *)
Goto(t, label) == mainpc # "exited" /\ pc' = [pc EXCEPT ![t] = label]
WorkerGoto(w, label) == mainpc # "exited" /\ wstate' = [wstate EXCEPT ![w] = label]

(* The state __init__ leaves behind: it has called start() itself, before *)
(* any other thread could see the object.                                 *)
Init ==
    /\ queue = <<>>
    /\ unfinished = 0
    /\ lock = None
    /\ thread = 1
    /\ ownPid = TRUE
    /\ wstate = [w \in Workers |-> IF w = 1 THEN "get" ELSE "unborn"]
    /\ hand = [w \in Workers |-> None]
    /\ pc = [t \in Threads |-> "idle"]
    /\ job = [t \in Threads |-> None]
    /\ registered = 1
    /\ mainpc = "run"
    /\ offered = {}
    /\ accepted = <<>>
    /\ finished = <<>>
    /\ mark = [c \in Threads \cup {Main} |-> 0]
    /\ stops = 0
    /\ gaveUp = FALSE

-----------------------------------------------------------------------------
(* queue(): _ensure_thread() looks at the worker without the lock, field by *)
(* field, and start() looks again with it.                                  *)

(* An application thread may make a call while the interpreter runs, and a *)
(* daemon thread even while the atexit handlers do.                        *)
MayCall(t) == pc[t] = "idle" /\ (mainpc = "run" \/ t \in Daemons)

(* Up to the first operand of `self._thread and self._thread.is_alive()`. *)
QueueCall(t, j) ==
    /\ MayCall(t)
    /\ j \notin offered
    /\ offered' = offered \cup {j}
    /\ job' = [job EXCEPT ![t] = j]
    /\ Goto(t, IF ownPid /\ thread # None THEN "readAlive" ELSE "start")
    /\ UNCHANGED <<selfVars, queueVars, workerVars, exitVars, logVars>>

(* The second operand reads self._thread again. *)
ReadAlive(t) ==
    /\ pc[t] = "readAlive"
    /\ thread # None
    /\ Goto(t, IF Running(thread) THEN "put" ELSE "start")
    /\ UNCHANGED <<selfVars, queueVars, workerVars, job, offered, exitVars, logVars>>

(* queue() ends in an exception, without the job. *)
QueueRaises(t) == Goto(t, "idle") /\ job' = [job EXCEPT ![t] = None]

(* stop() or the exit has cleared self._thread between the two reads: *)
(* an AttributeError.                                                 *)
ReadAliveRaises(t) ==
    /\ pc[t] = "readAlive"
    /\ thread = None
    /\ QueueRaises(t)
    /\ UNCHANGED <<selfVars, queueVars, workerVars, offered, exitVars, logVars>>

(* start(), which registers the exit handler however it ends. *)
Start(t) ==
    /\ pc[t] = "start"
    /\ lock = None
    /\ registered' = registered + 1
    /\ UNCHANGED <<lock, queueVars, hand, offered, mainpc, logVars>>

StartFound(t) ==
    /\ Start(t)
    /\ ~ThreadNeeded
    /\ Goto(t, "put")
    /\ UNCHANGED <<thread, ownPid, wstate, job>>

(* threading.Thread(...): a new object. *)
NewThread(w) ==
    /\ ThreadNeeded
    /\ wstate[w] = "unborn"
    /\ \A v \in 1..(w - 1) : wstate[v] # "unborn"
    /\ thread' = w

StartCreate(t, w) ==
    /\ Start(t)
    /\ NewThread(w)
    /\ WorkerGoto(w, "get")
    /\ ownPid' = TRUE
    /\ Goto(t, "put")
    /\ UNCHANGED job

(* Thread.start() raises, after the assignment of self._thread. *)
StartFail(t, w) ==
    /\ StartMayFail
    /\ Start(t)
    /\ NewThread(w)
    /\ WorkerGoto(w, "unstarted")
    /\ QueueRaises(t)
    /\ UNCHANGED ownPid

QueuePut(t) ==
    /\ pc[t] = "put"
    /\ queue' = Enqueue(queue, job[t])
    /\ unfinished' = unfinished + 1
    /\ accepted' = Append(accepted, job[t])
    /\ job' = [job EXCEPT ![t] = None]
    /\ Goto(t, "idle")
    /\ UNCHANGED <<selfVars, workerVars, offered, exitVars, finished, mark, stops, gaveUp>>

-----------------------------------------------------------------------------
(* stop() *)

StopCall(t) ==
    /\ MayCall(t)
    /\ lock = None
    /\ stops < MaxStops
    /\ stops' = stops + 1
    /\ UNCHANGED <<thread, ownPid, workerVars, job, offered, exitVars, accepted,
                   finished, gaveUp>>

StopNothing(t) ==
    /\ StopCall(t)
    /\ thread = None
    /\ UNCHANGED <<lock, pc, queueVars, mark>>

(* The thread may be dead already: the terminator is put all the same. *)
StopPut(t, kind) ==
    /\ StopCall(t)
    /\ thread # None
    /\ lock' = t
    /\ PutTerminator
    /\ mark' = [mark EXCEPT ![t] = Len(accepted)]
    /\ Goto(t, kind)

(* Mutant: stop() does not wait for the thread. *)
NeverRunning(w) == TRUE

Ended(w) == wstate[w] = "dead"

(* join() returns; with a timeout it also returns with the thread running, *)
(* and stop() does not look which it was.                                  *)
StopJoined(t) ==
    /\ pc[t] \in Joins
    /\ \/ Ended(thread) /\ UNCHANGED gaveUp
       \/ pc[t] = "joinTimed" /\ Running(thread) /\ gaveUp' = TRUE
    /\ thread' = None
    /\ ownPid' = FALSE
    /\ lock' = None
    /\ Goto(t, "idle")
    /\ UNCHANGED <<queueVars, workerVars, job, offered, exitVars, accepted,
                   finished, mark, stops>>

(* join() of a thread whose start() failed is a RuntimeError. *)
StopRaises(t) ==
    /\ pc[t] \in Joins
    /\ wstate[thread] = "unstarted"
    /\ lock' = None
    /\ Goto(t, "idle")
    /\ UNCHANGED <<thread, ownPid, queueVars, workerVars, job, offered, exitVars, logVars>>

-----------------------------------------------------------------------------
(* _target(): the loop of a worker thread. *)

Get(w) ==
    /\ wstate[w] = "get"
    /\ queue # <<>>
    /\ hand' = [hand EXCEPT ![w] = Head(queue)]
    /\ queue' = Tail(queue)
    /\ WorkerGoto(w, IF Head(queue) = Terminator THEN "break" ELSE "call")
    /\ UNCHANGED <<selfVars, unfinished, callVars, exitVars, logVars>>

(* The callback returns or raises an Exception, which is logged, or raises *)
(* something else, which ends the thread after the finally clause.         *)
Callback(w) ==
    /\ wstate[w] = "call"
    /\ finished' = Append(finished, hand[w])
    /\ WorkerGoto(w, IF hand[w] \in Fatal THEN "die" ELSE "done")
    /\ UNCHANGED <<selfVars, queueVars, hand, callVars, exitVars,
                   accepted, mark, stops, gaveUp>>

(* Mutants: the break path calls no task_done(), or one of its own, or a *)
(* fatal job gets past it.                                               *)
UncountedTerminator(w) == IF hand[w] = Terminator THEN unfinished ELSE unfinished - 1
TerminatorCountedTwice(w) == unfinished - (IF hand[w] = Terminator THEN 2 ELSE 1)

UncountedFatal(w) == IF wstate[w] = "die" THEN unfinished ELSE unfinished - 1

(* task_done() *)
OneLess(w) == unfinished - 1

(* The finally clause, which the break goes through too. *)
TaskDone(w) ==
    /\ wstate[w] \in {"break", "done", "die"}
    /\ unfinished' = OneLess(w)
    /\ hand' = [hand EXCEPT ![w] = None]
    /\ WorkerGoto(w, IF wstate[w] = "done" THEN "get" ELSE "ending")
    /\ UNCHANGED <<selfVars, queue, callVars, exitVars, logVars>>

(* The thread that has left _target() is alive until it has ended. *)
WorkerEnd(w) ==
    /\ wstate[w] = "ending"
    /\ WorkerGoto(w, "dead")
    /\ UNCHANGED <<selfVars, queueVars, hand, callVars, exitVars, logVars>>

-----------------------------------------------------------------------------
(* The interpreter exits: it joins the non-daemon threads, then runs the   *)
(* registered handlers, also those registered meanwhile, last one first.   *)

BeginExit ==
    /\ mainpc = "run"
    /\ \A t \in Threads \ Daemons : pc[t] = "idle"
    /\ mainpc' = "handlers"
    /\ mark' = [mark EXCEPT ![Main] = Len(accepted)]
    /\ UNCHANGED <<selfVars, queueVars, workerVars, callVars, registered,
                   accepted, finished, stops, gaveUp>>

Handler ==
    /\ mainpc = "handlers"
    /\ registered > 0
    /\ lock = None
    /\ registered' = registered - 1
    /\ UNCHANGED <<thread, ownPid, workerVars, callVars, logVars>>

(* "thread not started or already stopped - nothing to do" *)
HandlerReturns == Handler /\ ~IsAlive /\ UNCHANGED <<lock, mainpc, queueVars>>

HandlerPut ==
    /\ Handler
    /\ IsAlive
    /\ lock' = Main
    /\ PutTerminator
    /\ mainpc' = "join"

(* Mutants: the handler waits for nothing, or as long as it takes. *)
NoWait == TRUE
TimeIgnored == FALSE

(* What _timed_queue_join() waits for, and how else it returns. *)
TasksFinished == unfinished = 0
DeadlinePassed == ~TasksFinished

(* self._thread = None, without a join of the thread; the pid stays. *)
HandlerJoined ==
    /\ mainpc = "join"
    /\ TasksFinished \/ DeadlinePassed
    /\ gaveUp' = (gaveUp \/ ~TasksFinished)
    /\ thread' = None
    /\ lock' = None
    /\ mainpc' = "handlers"
    /\ UNCHANGED <<ownPid, queueVars, workerVars, callVars, registered,
                   accepted, finished, mark, stops>>

(* "Press Ctrl-C to quit": KeyboardInterrupt leaves the handler; the next *)
(* one runs all the same.                                                 *)
HandlerInterrupted ==
    /\ mainpc = "join"
    /\ lock' = None
    /\ mainpc' = "handlers"
    /\ gaveUp' = TRUE
    /\ UNCHANGED <<thread, ownPid, queueVars, workerVars, callVars, registered,
                   accepted, finished, mark, stops>>

(* The process is gone, and the daemon threads with it. *)
Exit ==
    /\ mainpc = "handlers"
    /\ registered = 0
    /\ mainpc' = "exited"
    /\ UNCHANGED <<selfVars, queueVars, workerVars, callVars, registered, logVars>>

-----------------------------------------------------------------------------

QueueStep(t) ==
    \/ ReadAlive(t) \/ ReadAliveRaises(t)
    \/ StartFound(t) \/ \E w \in Workers : StartCreate(t, w) \/ StartFail(t, w)
    \/ QueuePut(t)

StopStep(t) == StopJoined(t) \/ StopRaises(t)

WorkerStep(w) == Get(w) \/ Callback(w) \/ TaskDone(w) \/ WorkerEnd(w)

MainStep == HandlerReturns \/ HandlerPut \/ HandlerJoined \/ Exit

Exited == mainpc = "exited" /\ UNCHANGED vars

Next ==
    \/ \E t \in Threads, j \in Jobs : QueueCall(t, j)
    \/ \E t \in Threads : StopNothing(t) \/ \E kind \in StopKinds : StopPut(t, kind)
    \/ \E t \in Threads : QueueStep(t) \/ StopStep(t)
    \/ \E w \in Workers : WorkerStep(w)
    \/ BeginExit
    \/ MainStep
    \/ HandlerInterrupted
    \/ Exited

Spec == Init /\ [][Next]_vars

(* Threads that are inside a call go on, the worker does when it can, a     *)
(* callback ends (transports have timeouts), and so does the timed wait of *)
(* the handlers. Nobody has to call anything, to interrupt or to exit.     *)
Fairness ==
    /\ \A t \in Threads : WF_vars(QueueStep(t) \/ StopStep(t))
    /\ \A w \in Workers : WF_vars(WorkerStep(w))
    /\ WF_vars(MainStep)

FairSpec == Spec /\ Fairness

-----------------------------------------------------------------------------
(* Properties *)

Finished(n) == \A i \in 1..n : accepted[i] \in ToSet(finished)

(* A worker thread that may still take something from the queue or owes it *)
(* a task_done().                                                          *)
Consuming(w) == wstate[w] \in {"get", "call", "break", "done", "die"}

(* A thread that ended without taking a terminator leaves the terminator of *)
(* a later stop() behind, for the next thread to trip over.                 *)
Damaged ==
    \/ \E j \in Fatal : j \in ToSet(finished)
    \/ \E w \in Workers : wstate[w] = "unstarted"

(* The count _timed_queue_join() waits for is the number of records queued  *)
(* or in the hands of a worker, terminators included: task_done() matches   *)
(* get() on every way out of the loop of _target(), also the fatal ones.    *)
TaskAccounting ==
    unfinished = Len(queue) + Cardinality({w \in Workers : hand[w] # None})

(* start() is reached without the lock by any number of callers, yet as     *)
(* long as every stop() and handler waited to the end, at most one thread   *)
(* consumes the queue, and it is the one self._thread names.                *)
OneConsumer == ~gaveUp => \A w \in Workers : Consuming(w) => w = thread

(* "Stops the task thread. Synchronous!": when a stop() returns that nobody *)
(* cut short, the jobs queued before its terminator have run.               *)
StopDrains ==
    [][\A t \in Threads :
         pc[t] \in Joins /\ pc'[t] = "idle" /\ ~gaveUp' /\ ~Damaged
         => Finished(mark[t])]_vars

(* When the process is gone, the jobs queued before the exit began have     *)
(* run, if no wait was cut short, no job was fatal and nobody called stop():*)
(* whatever the daemon threads queued or restarted meanwhile.               *)
ExitDrains ==
    mainpc = "exited" /\ ~gaveUp /\ ~Damaged /\ stops = 0 => Finished(mark[Main])

(* The exit ends, whatever daemon threads keep in the queue or do to the    *)
(* worker, when every stop() has a timeout.                                 *)
ExitTerminates == mainpc # "run" ~> mainpc = "exited"

(* The comment in main_thread_terminated(): a handler that finds no running *)
(* worker has nothing to do, that is, leaves no job behind.                 *)
NothingToDo == [][HandlerReturns => Finished(Len(accepted))]_vars

(* A stop() that waits gets its answer: the thread it joins ends.           *)
StopReturns == \A t \in Threads : pc[t] \in Joins ~> pc[t] = "idle"

(* AsyncWorker keeps the promise of JobQueue.                               *)
Promised == INSTANCE JobQueue WITH
    closed <- mainpc # "run" \/ stops > 0 \/ Damaged,
    abandoned <- gaveUp

Promise == Promised!Spec
=============================================================================
