------------------------------ MODULE JobQueue ------------------------------
(***************************************************************************)
(* What the callers of a background worker rely on, with no thread, lock   *)
(* or terminator in sight: a job given to the queue runs at most once, in  *)
(* the order of acceptance as long as nobody gave up waiting for the       *)
(* worker, and eventually as long as nobody told the worker to stop.       *)
(* raven.transport.threaded.AsyncWorker is shown to implement it           *)
(* (AsyncWorker!Promise).                                                  *)
(***************************************************************************)
EXTENDS Naturals, Sequences, SequencesExt

CONSTANT Jobs

VARIABLES
    accepted,   \* the jobs put on the queue, in the order of their arrival
    finished,   \* the jobs whose callback has run, in the order they ended
    closed,     \* somebody asked the worker to stop, or a job killed it
    abandoned   \* a wait for the worker was cut short

vars == <<accepted, finished, closed, abandoned>>

TypeOK ==
    /\ accepted \in Seq(Jobs)
    /\ finished \in Seq(Jobs)
    /\ closed \in BOOLEAN
    /\ abandoned \in BOOLEAN

Init ==
    /\ accepted = <<>>
    /\ finished = <<>>
    /\ closed = FALSE
    /\ abandoned = FALSE

(* A caller hands a new job over. *)
Accept(j) ==
    /\ j \notin ToSet(accepted)
    /\ accepted' = Append(accepted, j)
    /\ UNCHANGED <<finished, closed, abandoned>>

(* The job j may be the next to finish: it has not run yet and, unless the *)
(* worker was abandoned, every job accepted before it has.                 *)
MayFinish(j) ==
    \E i \in DOMAIN accepted :
        /\ accepted[i] = j
        /\ j \notin ToSet(finished)
        /\ abandoned \/ i = Len(finished) + 1

Finish(j) ==
    /\ MayFinish(j)
    /\ finished' = Append(finished, j)
    /\ closed' \in {closed, TRUE}    \* a job may take the worker down with it
    /\ UNCHANGED <<accepted, abandoned>>

Close ==
    /\ closed' = TRUE
    /\ UNCHANGED <<accepted, finished, abandoned>>

Abandon ==
    /\ abandoned' = TRUE
    /\ UNCHANGED <<accepted, finished, closed>>

Next ==
    \/ \E j \in Jobs : Accept(j) \/ Finish(j)
    \/ Close
    \/ Abandon

(* While the queue is open, the worker goes on running the jobs. *)
Work == ~closed /\ \E j \in Jobs : Finish(j)

(* What it never does, and what it does in the end. *)
Safety == Init /\ [][Next]_vars

Spec == Safety /\ WF_vars(Work)
=============================================================================
