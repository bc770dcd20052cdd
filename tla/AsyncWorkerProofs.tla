------------------------- MODULE AsyncWorkerProofs -------------------------
(***************************************************************************)
(* For any number of threads, jobs and restarts: the types, the task count *)
(* that _timed_queue_join() relies on, and the absence of a second         *)
(* consumer as long as nobody gave up waiting. With them, AsyncWorker      *)
(* implements the safety part of JobQueue: its second half follows each    *)
(* job through the queue. A stop() that waited to the end leaves no job of *)
(* its callers behind, and neither does the exit.                          *)
(***************************************************************************)
EXTENDS AsyncWorker, TLAPS, FiniteSetTheorems, SequenceTheorems

(* What a worker holds follows from where it is. *)
HandInv == \A w \in Workers :
    /\ wstate[w] = "break" => hand[w] = Terminator
    /\ wstate[w] \in {"call", "done", "die"} => hand[w] \in Jobs
    /\ wstate[w] \notin {"break", "call", "done", "die"} => hand[w] = None

(* A call of queue() has its job in hand until it puts it. *)
JobInv == \A t \in Threads : pc[t] \in {"readAlive", "start", "put"} => job[t] \in Jobs

(* The lock is held over a step by whoever joins the worker, and nobody   *)
(* clears self._thread meanwhile.                                         *)
LockInv ==
    /\ \A t \in Threads : pc[t] \in Joins => lock = t /\ thread # None
    /\ mainpc = "join" => lock = Main /\ thread # None

(* is_alive() does not overlook a running worker of ours. *)
PidInv == thread # None /\ Running(thread) => ownPid

(* The terminator of a handler that waits is on its way to the worker, or *)
(* has reached it.                                                        *)
JoinInv ==
    mainpc = "join" /\ ~gaveUp /\ Consuming(thread)
    => hand[thread] = Terminator \/ \E i \in 1..Len(queue) : queue[i] = Terminator

IInv ==
    /\ TypeOK
    /\ HandInv
    /\ JobInv
    /\ TaskAccounting
    /\ LockInv
    /\ PidInv
    /\ OneConsumer
    /\ JoinInv

-----------------------------------------------------------------------------
(* The records in the hands of the workers. *)

(* The thread objects can be counted, and __init__ makes the first of them. *)
LEMMA WorkersFinite == IsFiniteSet(Workers) /\ 1 \in Workers
<1>1. MaxWorkers \in Nat /\ MaxWorkers > Cardinality(Jobs) /\ IsFiniteSet(Jobs)
  BY DomainAssumption
<1>2. Cardinality(Jobs) \in Nat
  BY <1>1, FS_CardinalityType
<1> QED
  BY <1>1, <1>2, FS_Interval DEF Workers

(* Counting the records in hand: a worker takes one (Get). *)
LEMMA OneMoreInHand ==
  ASSUME NEW h, NEW w \in Workers, NEW r,
         h \in [Workers -> Jobs \cup {Terminator, None}], h[w] = None, r # None
  PROVE  Cardinality({v \in Workers : [h EXCEPT ![w] = r][v] # None})
           = Cardinality({v \in Workers : h[v] # None}) + 1
<1> DEFINE H == {v \in Workers : h[v] # None}
<1>1. IsFiniteSet(H) /\ w \notin H
  BY WorkersFinite, FS_Subset
<1>2. {v \in Workers : [h EXCEPT ![w] = r][v] # None} = H \cup {w}
  OBVIOUS
<1> QED
  BY <1>1, <1>2, FS_AddElement

(* Counting the records in hand: a worker is done with one (TaskDone). *)
LEMMA OneLessInHand ==
  ASSUME NEW h, NEW w \in Workers,
         h \in [Workers -> Jobs \cup {Terminator, None}], h[w] # None
  PROVE  LET before == Cardinality({v \in Workers : h[v] # None})
         IN  /\ before \in Nat \ {0}
             /\ Cardinality({v \in Workers : [h EXCEPT ![w] = None][v] # None})
                  = before - 1
<1> DEFINE H == {v \in Workers : h[v] # None}
<1>1. IsFiniteSet(H) /\ w \in H
  BY WorkersFinite, FS_Subset
<1>2. {v \in Workers : [h EXCEPT ![w] = None][v] # None} = H \ {w}
  OBVIOUS
<1>3. Cardinality(H) \in Nat /\ Cardinality(H) # 0
  BY <1>1, FS_CardinalityType, FS_EmptySet
<1> QED
  BY <1>1, <1>2, <1>3, FS_RemoveElement

-----------------------------------------------------------------------------

(* __init__() establishes the invariant. *)
THEOREM InitIInv == Init => IInv
<1> SUFFICES ASSUME Init PROVE IInv
  OBVIOUS
<1> USE DEF Init
<1>1. TypeOK
  <2>1. queue \in Seq(Jobs \cup {Terminator}) /\ accepted \in Seq(Jobs) /\ finished \in Seq(Jobs)
    BY EmptySeq
  <2>2. stops \in 0..MaxStops
    BY DomainAssumption
  <2> QED
    BY <2>1, <2>2, WorkersFinite DEF TypeOK, WorkerStates, CallStates, ExitStates
<1>2. HandInv /\ JobInv /\ LockInv /\ PidInv /\ OneConsumer /\ JoinInv
  BY WorkersFinite
  DEF HandInv, JobInv, LockInv, PidInv, OneConsumer, JoinInv, Joins, Consuming
<1>3. TaskAccounting
  <2>1. {w \in Workers : hand[w] # None} = {}
    OBVIOUS
  <2>2. Len(queue) = 0 /\ unfinished = 0
    BY EmptySeq
  <2> HIDE DEF Init
  <2> QED
    BY <2>1, <2>2, FS_EmptySet DEF TaskAccounting
<1> QED
  BY <1>1, <1>2, <1>3 DEF IInv

(* A call of queue() that has not come to the put yet. *)
LEMMA QueueCallStep ==
  ASSUME IInv, NEW t \in Threads, NEW j \in Jobs, QueueCall(t, j)
  PROVE  IInv'
<1> USE DEF IInv, QueueCall, Goto, selfVars, queueVars, workerVars, exitVars, logVars
<1>1. TypeOK'
  BY DEF TypeOK, CallStates
<1>2. HandInv' /\ PidInv' /\ OneConsumer' /\ JoinInv'
  BY DEF HandInv, PidInv, OneConsumer, JoinInv, Consuming, Running
<1>3. TaskAccounting'
  BY DEF TaskAccounting
<1>4. JobInv' /\ LockInv'
  BY DEF JobInv, LockInv, Joins, TypeOK, MayCall
<1> QED
  BY <1>1, <1>2, <1>3, <1>4

(* queue() reads self._thread again, or finds it gone. *)
LEMMA ReadAliveStep ==
  ASSUME IInv, NEW t \in Threads, ReadAlive(t) \/ ReadAliveRaises(t)
  PROVE  IInv'
<1> USE DEF IInv, ReadAlive, ReadAliveRaises, QueueRaises, Goto,
            selfVars, queueVars, workerVars, exitVars, logVars
<1>1. TypeOK'
  BY DEF TypeOK, CallStates
<1>2. HandInv' /\ PidInv' /\ OneConsumer' /\ JoinInv'
  BY DEF HandInv, PidInv, OneConsumer, JoinInv, Consuming, Running
<1>3. TaskAccounting'
  BY DEF TaskAccounting
<1>4. JobInv' /\ LockInv'
  BY DEF JobInv, LockInv, Joins, TypeOK
<1> QED
  BY <1>1, <1>2, <1>3, <1>4

(* start() finds, with the lock, that another caller started the worker. *)
LEMMA StartFoundStep ==
  ASSUME IInv, NEW t \in Threads, StartFound(t)
  PROVE  IInv'
<1> USE DEF IInv, StartFound, Start, Goto, queueVars, logVars
<1>1. TypeOK'
  BY DEF TypeOK, CallStates
<1>2. HandInv' /\ PidInv' /\ OneConsumer' /\ JoinInv'
  BY DEF HandInv, PidInv, OneConsumer, JoinInv, Consuming, Running
<1>3. TaskAccounting'
  BY DEF TaskAccounting
<1>4. JobInv' /\ LockInv'
  BY DEF JobInv, LockInv, Joins, TypeOK
<1> QED
  BY <1>1, <1>2, <1>3, <1>4

(* start() creates a thread only where is_alive() found none running, and *)
(* then, if nobody gave up, no thread consumes the queue.                 *)
LEMMA StartCreateStep ==
  ASSUME IInv, NEW t \in Threads, NEW w \in Workers, StartCreate(t, w)
  PROVE  IInv'
<1> USE DEF IInv, StartCreate, Start, NewThread, Goto, WorkerGoto, queueVars, logVars
<1>1. TypeOK'
  BY DEF TypeOK, CallStates, WorkerStates
<1>2. HandInv' /\ PidInv'
  BY DEF HandInv, PidInv, TypeOK, Running
<1>3. TaskAccounting'
  BY DEF TaskAccounting
<1>4. OneConsumer'
  <2>1. ~gaveUp => \A v \in Workers : ~Consuming(v)
    BY DistinctAssumption
    DEF OneConsumer, ThreadNeeded, IsAlive, PidInv, Consuming, Running
  <2> QED
    BY <2>1 DEF OneConsumer, Consuming, TypeOK
<1>5. JobInv' /\ LockInv' /\ JoinInv'
  BY DistinctAssumption DEF JobInv, LockInv, JoinInv, Joins, TypeOK
<1> QED
  BY <1>1, <1>2, <1>3, <1>4, <1>5

(* start() fails: the thread object exists and will never run. *)
LEMMA StartFailStep ==
  ASSUME IInv, NEW t \in Threads, NEW w \in Workers, StartFail(t, w)
  PROVE  IInv'
<1> USE DEF IInv, StartFail, Start, NewThread, QueueRaises, Goto, WorkerGoto,
            queueVars, logVars
<1>1. TypeOK'
  BY DEF TypeOK, CallStates, WorkerStates
<1>2. HandInv' /\ PidInv'
  BY DEF HandInv, PidInv, TypeOK, Running
<1>3. TaskAccounting'
  BY DEF TaskAccounting
<1>4. OneConsumer'
  <2>1. ~gaveUp => \A v \in Workers : ~Consuming(v)
    BY DistinctAssumption
    DEF OneConsumer, ThreadNeeded, IsAlive, PidInv, Consuming, Running
  <2> QED
    BY <2>1 DEF OneConsumer, Consuming, TypeOK
<1>5. JobInv' /\ LockInv' /\ JoinInv'
  BY DistinctAssumption DEF JobInv, LockInv, JoinInv, Joins, TypeOK
<1> QED
  BY <1>1, <1>2, <1>3, <1>4, <1>5

(* A terminator in the queue stays there when something is put behind it. *)
LEMMA TerminatorStays ==
  ASSUME NEW q \in Seq(Jobs \cup {Terminator}), NEW r \in Jobs \cup {Terminator}
  PROVE  /\ Append(q, r) \in Seq(Jobs \cup {Terminator})
         /\ Len(Append(q, r)) = Len(q) + 1
         /\ \A i \in 1..Len(q) : Append(q, r)[i] = q[i]
         /\ Append(q, r)[Len(q) + 1] = r
  OBVIOUS

(* queue() puts the job: one record more, and counted. *)
LEMMA QueuePutStep ==
  ASSUME IInv, NEW t \in Threads, QueuePut(t)
  PROVE  IInv'
<1> USE DEF IInv, QueuePut, Goto, Enqueue, selfVars, workerVars, exitVars
<1>1. job[t] \in Jobs
  BY DEF JobInv
<1>2. TypeOK'
  BY <1>1 DEF TypeOK, CallStates
<1>3. HandInv' /\ PidInv' /\ OneConsumer'
  BY DEF HandInv, PidInv, OneConsumer, Consuming, Running
<1>4. TaskAccounting'
  <2>1. Len(queue') = Len(queue) + 1
    BY <1>1 DEF TypeOK
  <2>2. Len(queue) \in Nat /\ Cardinality({w \in Workers : hand[w] # None}) \in Nat
    BY WorkersFinite, FS_Subset, FS_CardinalityType, LenProperties DEF TypeOK
  <2> QED
    BY <2>1, <2>2 DEF TaskAccounting
<1>5. JobInv' /\ LockInv'
  BY DEF JobInv, LockInv, Joins, TypeOK
<1>6. JoinInv'
  BY <1>1, TerminatorStays DEF JoinInv, TypeOK, Consuming
<1> QED
  BY <1>2, <1>3, <1>4, <1>5, <1>6

(* stop() without a worker. *)
LEMMA StopNothingStep ==
  ASSUME IInv, NEW t \in Threads, StopNothing(t)
  PROVE  IInv'
<1> USE DEF IInv, StopNothing, StopCall, MayCall, queueVars, workerVars, exitVars
<1>1. TypeOK'
  BY DomainAssumption DEF TypeOK
<1>2. HandInv' /\ PidInv' /\ OneConsumer' /\ JoinInv' /\ JobInv' /\ LockInv'
  BY DEF HandInv, PidInv, OneConsumer, JoinInv, JobInv, LockInv, Consuming, Running
<1>3. TaskAccounting'
  BY DEF TaskAccounting
<1> QED
  BY <1>1, <1>2, <1>3

(* put(_terminator): one record more, and counted. *)
LEMMA TerminatorCounted ==
  ASSUME TypeOK, TaskAccounting, PutTerminator, UNCHANGED workerVars
  PROVE  TaskAccounting' /\ queue' \in Seq(Jobs \cup {Terminator}) /\ unfinished' \in Nat
<1> USE DEF PutTerminator, TerminatorLast, Enqueue, workerVars
<1>1. queue' \in Seq(Jobs \cup {Terminator}) /\ Len(queue') = Len(queue) + 1
  BY TerminatorStays DEF TypeOK
<1>2. Len(queue) \in Nat /\ Cardinality({w \in Workers : hand[w] # None}) \in Nat
  BY WorkersFinite, FS_Subset, FS_CardinalityType, LenProperties DEF TypeOK
<1> QED
  BY <1>1, <1>2 DEF TaskAccounting, TypeOK

(* stop() puts the terminator and goes on to join(), with the lock. *)
LEMMA StopPutStep ==
  ASSUME IInv, NEW t \in Threads, NEW kind \in StopKinds, StopPut(t, kind)
  PROVE  IInv'
<1> USE DEF IInv, StopPut, StopCall, MayCall, Goto, workerVars, exitVars
<1>1. TaskAccounting' /\ queue' \in Seq(Jobs \cup {Terminator}) /\ unfinished' \in Nat
  BY TerminatorCounted
<1>2. kind \in Joins /\ Len(accepted) \in Nat
  BY DomainAssumption DEF TypeOK
<1>3. TypeOK'
  BY <1>1, <1>2, DomainAssumption DEF TypeOK, CallStates
<1>4. HandInv' /\ PidInv' /\ OneConsumer'
  BY DEF HandInv, PidInv, OneConsumer, Consuming, Running
<1>5. JobInv' /\ LockInv'
  BY <1>2, DistinctAssumption DEF JobInv, LockInv, Joins, TypeOK
<1>6. JoinInv'
  BY DistinctAssumption DEF LockInv, JoinInv
<1> QED
  BY <1>1, <1>3, <1>4, <1>5, <1>6

(* join() has returned: the worker has ended or is given up. *)
LEMMA StopJoinedStep ==
  ASSUME IInv, NEW t \in Threads, StopJoined(t)
  PROVE  IInv'
<1> USE DEF IInv, StopJoined, Goto, queueVars, workerVars, exitVars
<1>1. TypeOK'
  BY DEF TypeOK, CallStates
<1>2. HandInv' /\ PidInv'
  BY DEF HandInv, PidInv
<1>3. TaskAccounting'
  BY DEF TaskAccounting
<1>4. OneConsumer'
  BY DEF OneConsumer, Consuming, Ended
<1>5. JobInv' /\ LockInv' /\ JoinInv'
  BY DistinctAssumption DEF JobInv, LockInv, JoinInv, Joins, TypeOK
<1> QED
  BY <1>1, <1>2, <1>3, <1>4, <1>5

(* join() raises: the worker was never started. *)
LEMMA StopRaisesStep ==
  ASSUME IInv, NEW t \in Threads, StopRaises(t)
  PROVE  IInv'
<1> USE DEF IInv, StopRaises, Goto, queueVars, workerVars, exitVars, logVars
<1>1. TypeOK'
  BY DEF TypeOK, CallStates
<1>2. HandInv' /\ PidInv' /\ OneConsumer'
  BY DEF HandInv, PidInv, OneConsumer, Consuming, Running
<1>3. TaskAccounting'
  BY DEF TaskAccounting
<1>4. JobInv' /\ LockInv' /\ JoinInv'
  BY DistinctAssumption DEF JobInv, LockInv, JoinInv, Joins, TypeOK
<1> QED
  BY <1>1, <1>2, <1>3, <1>4

-----------------------------------------------------------------------------

(* A worker takes a record: from the queue into its hand. *)
LEMMA GetStep ==
  ASSUME IInv, NEW w \in Workers, Get(w)
  PROVE  IInv'
<1> USE DEF IInv, Get, WorkerGoto, selfVars, callVars, exitVars, logVars
<1> DEFINE record == Head(queue)
<1>1. /\ record \in Jobs \cup {Terminator}
      /\ Tail(queue) \in Seq(Jobs \cup {Terminator})
      /\ Len(queue) \in Nat
      /\ Len(Tail(queue)) = Len(queue) - 1
      /\ \A i \in 1..Len(Tail(queue)) : Tail(queue)[i] = queue[i + 1]
  BY HeadTailProperties, LenProperties DEF TypeOK
<1>2. record # None /\ (record # Terminator => record \in Jobs)
  BY <1>1, DistinctAssumption
<1>3. TypeOK'
  BY <1>1 DEF TypeOK, WorkerStates
<1>4. HandInv' /\ JobInv' /\ LockInv' /\ PidInv'
  BY <1>2 DEF HandInv, JobInv, LockInv, PidInv, Running, TypeOK
<1>5. TaskAccounting'
  <2>1. hand[w] = None
    BY DEF HandInv
  <2>2. Cardinality({v \in Workers : hand[v] # None}) \in Nat
    BY WorkersFinite, FS_Subset, FS_CardinalityType
  <2>3. Cardinality({v \in Workers : hand'[v] # None})
          = Cardinality({v \in Workers : hand[v] # None}) + 1
    <3>1. hand \in [Workers -> Jobs \cup {Terminator, None}]
      BY DEF TypeOK
    <3>2. hand' = [hand EXCEPT ![w] = record]
      OBVIOUS
    <3> HIDE DEF IInv, Get, record
    <3> QED
      BY <2>1, <1>2, <3>1, <3>2, OneMoreInHand
  <2> QED
    BY <1>1, <2>2, <2>3 DEF TaskAccounting
<1>6. OneConsumer'
  BY DEF OneConsumer, Consuming, TypeOK
<1>7. JoinInv'
  <2> SUFFICES ASSUME mainpc = "join", ~gaveUp, Consuming(thread)'
               PROVE  \/ hand'[thread] = Terminator
                      \/ \E i \in 1..Len(Tail(queue)) : Tail(queue)[i] = Terminator
    BY DEF JoinInv
  <2>1. w = thread /\ thread \in Workers
    BY DEF OneConsumer, Consuming
  <2>2. hand[thread] # Terminator
    BY <2>1, DistinctAssumption DEF HandInv
  <2>3. PICK i \in 1..Len(queue) : queue[i] = Terminator
    BY <2>1, <2>2 DEF JoinInv, Consuming
  <2>4. CASE i = 1
    BY <2>1, <2>3, <2>4 DEF TypeOK
  <2>5. CASE i # 1
    <3>1. i - 1 \in 1..Len(Tail(queue)) /\ Tail(queue)[i - 1] = Terminator
      BY <1>1, <2>3, <2>5
    <3> QED
      BY <3>1
  <2> QED
    BY <2>4, <2>5
<1> QED
  BY <1>3, <1>4, <1>5, <1>6, <1>7

(* A callback has run; the record stays in hand until task_done(). *)
LEMMA CallbackStep ==
  ASSUME IInv, NEW w \in Workers, Callback(w)
  PROVE  IInv'
<1> USE DEF IInv, Callback, WorkerGoto, selfVars, queueVars, callVars, exitVars
<1>1. hand[w] \in Jobs
  BY DEF HandInv
<1>2. TypeOK'
  BY <1>1 DEF TypeOK, WorkerStates
<1>3. HandInv' /\ JobInv' /\ LockInv' /\ PidInv'
  BY <1>1 DEF HandInv, JobInv, LockInv, PidInv, Running, TypeOK
<1>4. TaskAccounting'
  BY DEF TaskAccounting
<1>5. OneConsumer' /\ JoinInv'
  BY DEF OneConsumer, JoinInv, Consuming, TypeOK
<1> QED
  BY <1>2, <1>3, <1>4, <1>5

(* Here the count drops: it cannot drop below zero, for the worker holds a *)
(* record that is counted.                                                 *)
LEMMA TaskDoneStep ==
  ASSUME IInv, NEW w \in Workers, TaskDone(w)
  PROVE  IInv'
<1> USE DEF IInv, TaskDone, OneLess, WorkerGoto, selfVars, callVars, exitVars, logVars
<1> DEFINE held == Cardinality({v \in Workers : hand[v] # None})
<1>1. hand[w] # None
  BY DistinctAssumption DEF HandInv
<1>2. held \in Nat \ {0} /\ Cardinality({v \in Workers : hand'[v] # None}) = held - 1
  <2>1. hand \in [Workers -> Jobs \cup {Terminator, None}]
    BY DEF TypeOK
  <2>2. hand' = [hand EXCEPT ![w] = None]
    OBVIOUS
  <2> HIDE DEF IInv, TaskDone
  <2> QED
    BY <1>1, <2>1, <2>2, OneLessInHand, Zenon
<1>3. Len(queue) \in Nat
  BY LenProperties DEF TypeOK
<1>4. TaskAccounting' /\ unfinished' \in Nat
  BY <1>2, <1>3 DEF TaskAccounting
<1>5. TypeOK'
  BY <1>4 DEF TypeOK, WorkerStates
<1>6. HandInv' /\ JobInv' /\ LockInv' /\ PidInv'
  BY DEF HandInv, JobInv, LockInv, PidInv, Running, TypeOK
<1>7. OneConsumer' /\ JoinInv'
  BY DistinctAssumption DEF OneConsumer, JoinInv, HandInv, Consuming, TypeOK
<1> QED
  BY <1>4, <1>5, <1>6, <1>7

(* A worker thread ends; it has nothing in hand. *)
LEMMA WorkerEndStep ==
  ASSUME IInv, NEW w \in Workers, WorkerEnd(w)
  PROVE  IInv'
<1> USE DEF IInv, WorkerEnd, WorkerGoto, selfVars, queueVars, callVars, exitVars, logVars
<1>1. TypeOK'
  BY DEF TypeOK, WorkerStates
<1>2. HandInv' /\ JobInv' /\ LockInv' /\ PidInv'
  BY DEF HandInv, JobInv, LockInv, PidInv, Running, TypeOK
<1>3. TaskAccounting'
  BY DEF TaskAccounting
<1>4. OneConsumer' /\ JoinInv'
  BY DEF OneConsumer, JoinInv, Consuming, TypeOK
<1> QED
  BY <1>1, <1>2, <1>3, <1>4

-----------------------------------------------------------------------------

(* The exit handler puts the terminator. *)
LEMMA HandlerPutStep ==
  ASSUME IInv, HandlerPut
  PROVE  IInv'
<1> USE DEF IInv, HandlerPut, Handler, callVars, logVars
<1>1. TaskAccounting' /\ queue' \in Seq(Jobs \cup {Terminator}) /\ unfinished' \in Nat
  BY TerminatorCounted
<1>2. TypeOK'
  BY <1>1 DEF TypeOK, ExitStates, workerVars
<1>3. HandInv' /\ JobInv' /\ PidInv' /\ OneConsumer'
  BY DEF HandInv, JobInv, PidInv, OneConsumer, Consuming, Running, workerVars
<1>4. LockInv'
  BY DistinctAssumption DEF LockInv, IsAlive
<1>5. JoinInv'
  <2>1. Len(queue) + 1 \in 1..Len(queue') /\ queue'[Len(queue) + 1] = Terminator
    BY TerminatorStays, LenProperties
    DEF PutTerminator, TerminatorLast, Enqueue, TypeOK
  <2> QED
    BY <2>1 DEF JoinInv
<1> QED
  BY <1>1, <1>2, <1>3, <1>4, <1>5

(* unfinished_tasks = 0 tells the handler that the worker has left its loop: *)
(* the terminator, which was counted, is neither queued nor held any more.   *)
LEMMA HandlerJoinedStep ==
  ASSUME IInv, HandlerJoined
  PROVE  IInv'
<1> USE DEF IInv, HandlerJoined, queueVars, workerVars, callVars
<1>1. TypeOK'
  BY DEF TypeOK, ExitStates
<1>2. HandInv' /\ JobInv' /\ PidInv' /\ JoinInv'
  BY DEF HandInv, JobInv, PidInv, JoinInv
<1>3. TaskAccounting'
  BY DEF TaskAccounting
<1>4. LockInv'
  BY DistinctAssumption DEF LockInv
<1>5. OneConsumer'
  <2> SUFFICES ASSUME ~gaveUp, unfinished = 0, NEW w \in Workers, Consuming(w)
               PROVE  FALSE
    BY DEF OneConsumer, TasksFinished, Consuming
  <2>1. w = thread
    BY DEF OneConsumer
  <2>2. Len(queue) = 0 /\ Cardinality({v \in Workers : hand[v] # None}) = 0
    <3>1. Len(queue) \in Nat /\ Cardinality({v \in Workers : hand[v] # None}) \in Nat
      BY WorkersFinite, FS_Subset, FS_CardinalityType, LenProperties DEF TypeOK
    <3> QED
      BY <3>1 DEF TaskAccounting
  <2>3. hand[w] = None
    <3>1. IsFiniteSet({v \in Workers : hand[v] # None})
      BY WorkersFinite, FS_Subset
    <3> QED
      BY <2>2, <3>1, FS_EmptySet
  <2> QED
    BY <2>1, <2>2, <2>3, DistinctAssumption DEF JoinInv
<1> QED
  BY <1>1, <1>2, <1>3, <1>4, <1>5

(* The steps of the main thread that touch neither queue nor worker. *)
LEMMA OtherMainStep ==
  ASSUME IInv, BeginExit \/ HandlerReturns \/ HandlerInterrupted \/ Exit
  PROVE  IInv'
<1> USE DEF IInv, BeginExit, HandlerReturns, Handler, HandlerInterrupted, Exit,
            selfVars, queueVars, workerVars, callVars, logVars
<1>1. Len(accepted) \in Nat
  BY LenProperties DEF TypeOK
<1>2. TypeOK'
  <2>1. CASE BeginExit
    <3>1. mark' \in [Threads \cup {Main} -> Nat]
      BY <1>1, <2>1 DEF TypeOK
    <3> QED
      BY <2>1, <3>1 DEF TypeOK, ExitStates
  <2>2. CASE HandlerReturns
    BY <2>2 DEF TypeOK
  <2>3. CASE HandlerInterrupted
    BY <2>3 DEF TypeOK, ExitStates
  <2>4. CASE Exit
    BY <2>4 DEF TypeOK, ExitStates
  <2> QED
    BY <2>1, <2>2, <2>3, <2>4
<1>3. HandInv' /\ JobInv' /\ PidInv'
  BY DEF HandInv, JobInv, PidInv, Running
<1>4. OneConsumer' /\ JoinInv'
  BY DEF OneConsumer, JoinInv, Consuming
<1>5. TaskAccounting'
  BY DEF TaskAccounting
<1>6. LockInv'
  BY DistinctAssumption DEF LockInv
<1> QED
  BY <1>2, <1>3, <1>4, <1>5, <1>6

(* Nothing changes. *)
LEMMA StutterStep ==
  ASSUME IInv, UNCHANGED vars
  PROVE  IInv'
<1> USE DEF IInv, vars, selfVars, queueVars, workerVars, callVars, exitVars, logVars
<1>1. TypeOK'
  BY DEF TypeOK
<1>2. HandInv' /\ JobInv' /\ LockInv' /\ PidInv' /\ OneConsumer' /\ JoinInv'
  BY DEF HandInv, JobInv, LockInv, PidInv, OneConsumer, JoinInv, Consuming, Running
<1>3. TaskAccounting'
  BY DEF TaskAccounting
<1> QED
  BY <1>1, <1>2, <1>3

-----------------------------------------------------------------------------

(* Every step preserves the invariant. *)
THEOREM NextIInv == IInv /\ [Next]_vars => IInv'
<1> SUFFICES ASSUME IInv, [Next]_vars PROVE IInv'
  OBVIOUS
<1>1. ASSUME NEW t \in Threads, NEW j \in Jobs, QueueCall(t, j) PROVE IInv'
  BY <1>1, QueueCallStep
<1>2. ASSUME NEW t \in Threads, QueueStep(t) PROVE IInv'
  BY <1>2, ReadAliveStep, StartFoundStep, StartCreateStep, StartFailStep, QueuePutStep
  DEF QueueStep
<1>3. ASSUME NEW t \in Threads,
             StopNothing(t) \/ \E kind \in StopKinds : StopPut(t, kind)
      PROVE  IInv'
  BY <1>3, StopNothingStep, StopPutStep
<1>4. ASSUME NEW t \in Threads, StopStep(t) PROVE IInv'
  BY <1>4, StopJoinedStep, StopRaisesStep DEF StopStep
<1>5. ASSUME NEW w \in Workers, WorkerStep(w) PROVE IInv'
  BY <1>5, GetStep, CallbackStep, TaskDoneStep, WorkerEndStep DEF WorkerStep
<1>6. ASSUME BeginExit \/ MainStep \/ HandlerInterrupted PROVE IInv'
  BY <1>6, HandlerPutStep, HandlerJoinedStep, OtherMainStep DEF MainStep
<1>7. ASSUME Exited \/ UNCHANGED vars PROVE IInv'
  BY <1>7, StutterStep DEF Exited
<1> QED
  BY <1>1, <1>2, <1>3, <1>4, <1>5, <1>6, <1>7 DEF Next

(* The invariant holds in every reachable state. *)
THEOREM Invariance == Spec => []IInv
<1>1. Init => IInv
  BY InitIInv
<1>2. IInv /\ [Next]_vars => IInv'
  BY NextIInv
<1> QED
  BY <1>1, <1>2, PTL DEF Spec

(* Every variable of the worker keeps its type; in particular the number of *)
(* unfinished tasks never drops below zero.                                 *)
THEOREM TypeCorrect == Spec => []TypeOK
<1>1. IInv => TypeOK
  BY DEF IInv
<1> QED
  BY <1>1, Invariance, PTL

(* The count of unfinished tasks is exact, whatever way a job ends and      *)
(* however many worker threads there are.                                   *)
THEOREM TasksCounted == Spec => []TaskAccounting
<1>1. IInv => TaskAccounting
  BY DEF IInv
<1> QED
  BY <1>1, Invariance, PTL

(* No interleaving of queue(), stop() and the exit handlers makes a second  *)
(* thread consume the queue, unless somebody gave up waiting for the first. *)
THEOREM SingleConsumer == Spec => []OneConsumer
<1>1. IInv => OneConsumer
  BY DEF IInv
<1> QED
  BY <1>1, Invariance, PTL

-----------------------------------------------------------------------------
(* The way of each job through the queue. *)

(* The callback of job j has run. *)
Ran(j) == \E n \in 1..Len(finished) : finished[n] = j

Queued(j) == \E k \in 1..Len(queue) : queue[k] = j

(* A thread between the first line of queue() and its put. *)
Queueing(t) == pc[t] \in {"readAlive", "start", "put"}

(* No job is put twice: the one a thread is about to put is new, and nobody *)
(* else's.                                                                  *)
AcceptedInv ==
    /\ \A a \in 1..Len(accepted) : accepted[a] \in offered
    /\ \A a, b \in 1..Len(accepted) : accepted[a] = accepted[b] => a = b

QueueingInv ==
    /\ \A t \in Threads : Queueing(t) =>
          job[t] \in offered /\ \A a \in 1..Len(accepted) : accepted[a] # job[t]
    /\ \A t, u \in Threads : Queueing(t) /\ Queueing(u) /\ job[t] = job[u] => t = u

(* The queue holds jobs that have not run, in the order of acceptance. *)
QueuedInv ==
    /\ \A k \in 1..Len(queue) : queue[k] # Terminator =>
          ~Ran(queue[k]) /\ \E a \in 1..Len(accepted) : queue[k] = accepted[a]
    /\ \A k, l \in 1..Len(queue) : \A a, b \in 1..Len(accepted) :
          k < l /\ queue[k] = accepted[a] /\ queue[l] = accepted[b] => a < b

(* A worker inside a callback has a job of its own, out of the queue. *)
HeldInv == \A w \in Workers : wstate[w] = "call" =>
    /\ ~Ran(hand[w]) /\ ~Queued(hand[w])
    /\ \E a \in 1..Len(accepted) : hand[w] = accepted[a]
    /\ \A v \in Workers : wstate[v] = "call" /\ hand[v] = hand[w] => v = w

(* No job is lost, and none appears from nowhere. *)
PlaceInv ==
    /\ \A a \in 1..Len(accepted) :
          \/ Ran(accepted[a]) \/ Queued(accepted[a])
          \/ \E w \in Workers : wstate[w] = "call" /\ hand[w] = accepted[a]
    /\ \A n \in 1..Len(finished) : \E a \in 1..Len(accepted) : finished[n] = accepted[a]

(* Unless a second worker came in, the jobs run in the order of acceptance. *)
PrefixInv == ~gaveUp =>
    /\ Len(finished) <= Len(accepted)
    /\ \A n \in 1..Len(finished) : finished[n] = accepted[n]
    /\ \A w \in Workers : wstate[w] = "call" =>
          Len(finished) < Len(accepted) /\ hand[w] = accepted[Len(finished) + 1]

OrderInv == AcceptedInv /\ QueueingInv /\ QueuedInv /\ HeldInv /\ PlaceInv /\ PrefixInv

-----------------------------------------------------------------------------

(* Who waits, with the lock, for the worker to take the terminator. *)
Waiting(c) == IF c = Main THEN mainpc = "join" ELSE pc[c] \in Joins

(* The lock is held over a step by those only, *)
HolderInv == lock # None => Waiting(lock)

(* a fatal job has run when it ends its thread, and marks are in range. *)
MarkInv ==
    /\ \A c \in Threads \cup {Main} : mark[c] <= Len(accepted)
    /\ \A w \in Workers : wstate[w] = "die" => \E j \in Fatal : Ran(j)

NoTerminator == \A k \in 1..Len(queue) : queue[k] # Terminator

AtWork == wstate[thread] \in {"get", "call", "done"}

(* The one terminator is at k, behind the jobs that c waits for. *)
Ahead(c, k) ==
    /\ queue[k] = Terminator
    /\ \A l \in 1..Len(queue) : queue[l] = Terminator => l = k
    /\ \A a \in 1..mark[c] : \A l \in 1..Len(queue) : queue[l] = accepted[a] => l < k

(* As long as nobody gave up, no job was fatal and every thread started: a  *)
(* terminator is there only while its sender waits, and the worker takes it *)
(* when the jobs that the sender waits for have run.                        *)
DrainInv == ~gaveUp /\ ~Damaged =>
    /\ lock = None =>
          /\ NoTerminator /\ \A w \in Workers : wstate[w] # "break"
          /\ thread # None => AtWork
    /\ \A c \in Threads \cup {Main} : Waiting(c) =>
          \/ AtWork /\ \E k \in 1..Len(queue) : Ahead(c, k)
          \/ /\ wstate[thread] \in {"break", "ending", "dead"} /\ NoTerminator
             /\ \A a \in 1..mark[c] : Ran(accepted[a])

(* Without a stop(), only the exit handlers clear self._thread; until the   *)
(* jobs queued before the exit have run, one of them is still to come.      *)
ExitInv ==
    /\ \A t \in Threads : pc[t] \in Joins => stops > 0
    /\ stops = 0 /\ ~gaveUp /\ ~Damaged =>
          /\ mainpc \in {"run", "handlers"} =>
                \/ registered > 0 /\ ownPid /\ thread # None /\ AtWork
                \/ mainpc = "handlers" /\ \A a \in 1..mark[Main] : Ran(accepted[a])
          /\ mainpc = "exited" => \A a \in 1..mark[Main] : Ran(accepted[a])

PInv == IInv /\ OrderInv /\ HolderInv /\ MarkInv /\ DrainInv /\ ExitInv

-----------------------------------------------------------------------------
(* The order of the jobs. *)

(* Nothing has been queued yet. *)
LEMMA InitOrder == Init => OrderInv
<1> SUFFICES ASSUME Init PROVE OrderInv
  OBVIOUS
<1>1. /\ Len(queue) = 0 /\ Len(accepted) = 0 /\ Len(finished) = 0
      /\ \A w \in Workers : wstate[w] # "call"
      /\ \A t \in Threads : pc[t] = "idle"
  BY EmptySeq DEF Init
<1> QED
  BY <1>1
  DEF OrderInv, AcceptedInv, QueueingInv, Queueing, QueuedInv, HeldInv, PlaceInv, PrefixInv

(* The lengths are numbers. *)
LEMMA Lengths ==
  ASSUME TypeOK
  PROVE  /\ Len(queue) \in Nat /\ Len(accepted) \in Nat /\ Len(finished) \in Nat
         /\ \A k \in 1..Len(queue) : queue[k] \in Jobs \cup {Terminator}
         /\ \A a \in 1..Len(accepted) : accepted[a] \in Jobs
         /\ \A n \in 1..Len(finished) : finished[n] \in Jobs
  BY LenProperties, ElementOfSeq DEF TypeOK

(* A step of a call, of a worker between two jobs or of the exit that moves *)
(* no job.                                                                  *)
LEMMA OrderFrame ==
  ASSUME OrderInv, UNCHANGED <<queue, accepted, finished>>, gaveUp => gaveUp',
         offered \subseteq offered',
         \A w \in Workers : wstate'[w] = "call" <=> wstate[w] = "call",
         \A w \in Workers : wstate[w] = "call" => hand'[w] = hand[w],
         \A t \in Threads : Queueing(t)' => Queueing(t) /\ job'[t] = job[t]
  PROVE  OrderInv'
<1>1. /\ \A j : Ran(j)' <=> Ran(j)
      /\ \A j : Queued(j)' <=> Queued(j)
  BY DEF Ran, Queued
<1>2. AcceptedInv'
  BY DEF OrderInv, AcceptedInv
<1>3. QueueingInv'
  BY DEF OrderInv, QueueingInv
<1>4. QueuedInv'
  BY <1>1 DEF OrderInv, QueuedInv
<1>5. HeldInv'
  BY <1>1 DEF OrderInv, HeldInv
<1>6. PlaceInv'
  BY <1>1 DEF OrderInv, PlaceInv
<1>7. PrefixInv'
  BY DEF OrderInv, PrefixInv
<1> QED
  BY <1>2, <1>3, <1>4, <1>5, <1>6, <1>7 DEF OrderInv

(* A new call of queue() comes with a job nobody had before. *)
LEMMA QueueCallOrder ==
  ASSUME IInv, OrderInv, NEW t \in Threads, NEW j \in Jobs, QueueCall(t, j)
  PROVE  OrderInv'
<1>1. /\ UNCHANGED <<queue, accepted, finished, gaveUp, wstate, hand>>
      /\ pc[t] = "idle" /\ j \notin offered /\ offered' = offered \cup {j}
      /\ job'[t] = j
      /\ \A u \in Threads \ {t} : job'[u] = job[u] /\ pc'[u] = pc[u]
  BY DEF QueueCall, MayCall, Goto, queueVars, workerVars, logVars, IInv, TypeOK
<1>2. /\ \A i : Ran(i)' <=> Ran(i)
      /\ \A i : Queued(i)' <=> Queued(i)
  BY <1>1 DEF Ran, Queued
<1>3. AcceptedInv'
  BY <1>1 DEF OrderInv, AcceptedInv
<1>4. QueueingInv'
  <2>1. \A u \in Threads \ {t} : Queueing(u)' => Queueing(u) /\ job'[u] = job[u]
    BY <1>1 DEF Queueing
  <2>2. \A u \in Threads : Queueing(u) => job[u] # j
    BY <1>1 DEF OrderInv, QueueingInv
  <2>3. \A a \in 1..Len(accepted) : accepted[a] # j
    BY <1>1 DEF OrderInv, AcceptedInv
  <2> QED
    BY <1>1, <2>1, <2>2, <2>3 DEF OrderInv, QueueingInv
<1>5. QueuedInv' /\ HeldInv'
  BY <1>1, <1>2 DEF OrderInv, QueuedInv, HeldInv
<1>6. PlaceInv' /\ PrefixInv'
  BY <1>1, <1>2 DEF OrderInv, PlaceInv, PrefixInv
<1> QED
  BY <1>3, <1>4, <1>5, <1>6 DEF OrderInv

(* A record put at the end of the queue. *)
LEMMA PutQueued ==
  ASSUME TypeOK, NEW r \in Jobs \cup {Terminator}, queue' = Append(queue, r)
  PROVE  /\ Len(queue') = Len(queue) + 1
         /\ \A k \in 1..Len(queue) : k \in 1..Len(queue') /\ queue'[k] = queue[k]
         /\ Len(queue) + 1 \in 1..Len(queue') /\ queue'[Len(queue) + 1] = r
         /\ \A k \in 1..Len(queue') : k \notin 1..Len(queue) => k = Len(queue) + 1
         /\ \A j : Queued(j)' <=> Queued(j) \/ j = r
<1>1. /\ Len(queue') = Len(queue) + 1 /\ Len(queue) \in Nat
      /\ \A k \in 1..Len(queue) : queue'[k] = queue[k]
      /\ queue'[Len(queue) + 1] = r
  BY TerminatorStays, Lengths DEF TypeOK
<1>2. /\ \A k \in 1..Len(queue) : k \in 1..Len(queue') /\ queue'[k] = queue[k]
      /\ Len(queue) + 1 \in 1..Len(queue')
      /\ \A k \in 1..Len(queue') : k \notin 1..Len(queue) => k = Len(queue) + 1
  BY <1>1
<1>3. \A j : Queued(j)' <=> Queued(j) \/ j = r
  BY <1>1, <1>2 DEF Queued
<1> QED
  BY <1>1, <1>2, <1>3

(* put(_terminator) changes nothing for the jobs. *)
LEMMA TerminatorOrder ==
  ASSUME IInv, OrderInv, PutTerminator, UNCHANGED <<accepted, finished, gaveUp, workerVars, job, offered>>,
         \A t \in Threads : Queueing(t)' => Queueing(t)
  PROVE  OrderInv'
<1>1. TypeOK /\ queue' = Append(queue, Terminator)
  BY DEF IInv, PutTerminator, TerminatorLast, Enqueue
<1>2. /\ \A a \in 1..Len(accepted) : accepted[a] # Terminator
      /\ \A w \in Workers : wstate[w] = "call" => hand[w] # Terminator
  BY <1>1, Lengths, DistinctAssumption DEF IInv, HandInv
<1>3. \A j : j # Terminator => (Queued(j)' <=> Queued(j))
  BY <1>1, PutQueued
<1>4. \A j : Ran(j)' <=> Ran(j)
  BY DEF Ran
<1>5. UNCHANGED <<accepted, finished, gaveUp, wstate, hand, job, offered>>
  BY DEF workerVars
<1>6. AcceptedInv' /\ QueueingInv'
  BY <1>5 DEF OrderInv, AcceptedInv, QueueingInv
<1>7. QueuedInv'
  <2>1. \A k \in 1..Len(queue') : queue'[k] # Terminator => k \in 1..Len(queue) /\ queue'[k] = queue[k]
    BY <1>1, PutQueued
  <2>2. \A k \in 1..Len(queue') : queue'[k] # Terminator =>
            ~Ran(queue[k])' /\ \E a \in 1..Len(accepted) : queue'[k] = accepted[a]
    BY <1>4, <2>1 DEF OrderInv, QueuedInv
  <2>3. \A k, l \in 1..Len(queue') : \A a, b \in 1..Len(accepted) :
            k < l /\ queue'[k] = accepted[a] /\ queue'[l] = accepted[b] => a < b
    BY <1>2, <2>1 DEF OrderInv, QueuedInv
  <2> QED
    BY <1>5, <2>2, <2>3 DEF QueuedInv
<1>8. HeldInv' /\ PlaceInv'
  BY <1>2, <1>3, <1>4, <1>5 DEF OrderInv, HeldInv, PlaceInv
<1>9. PrefixInv'
  BY <1>5 DEF OrderInv, PrefixInv
<1> QED
  BY <1>6, <1>7, <1>8, <1>9 DEF OrderInv

(* queue() puts its job behind all others. *)
LEMMA QueuePutOrder ==
  ASSUME IInv, OrderInv, NEW t \in Threads, QueuePut(t)
  PROVE  OrderInv'
<1> DEFINE j == job[t]
           n == Len(accepted) + 1
<1>1. /\ TypeOK /\ j \in Jobs /\ Queueing(t)
      /\ queue' = Append(queue, j) /\ accepted' = Append(accepted, j)
      /\ UNCHANGED <<finished, gaveUp, wstate, hand, offered>>
      /\ pc'[t] = "idle"
      /\ \A u \in Threads \ {t} : job'[u] = job[u] /\ pc'[u] = pc[u]
  BY DEF IInv, JobInv, QueuePut, Goto, Enqueue, workerVars, TypeOK, Queueing
<1>2. /\ Len(accepted) \in Nat /\ Len(accepted') = n
      /\ \A a \in 1..Len(accepted) : a \in 1..n /\ accepted'[a] = accepted[a]
      /\ n \in 1..n /\ accepted'[n] = j
      /\ \A a \in 1..n : a \notin 1..Len(accepted) => a = n
      /\ \A a \in 1..Len(accepted) : a < n
  <2>1. Len(accepted) \in Nat /\ accepted \in Seq(Jobs)
    BY <1>1, Lengths DEF TypeOK
  <2>2. /\ Len(accepted') = n /\ accepted'[n] = j
        /\ \A a \in 1..Len(accepted) : accepted'[a] = accepted[a]
    BY <1>1, <2>1, AppendProperties
  <2> QED
    BY <2>1, <2>2
<1>3. /\ \A k \in 1..Len(queue) : k \in 1..Len(queue') /\ queue'[k] = queue[k]
      /\ Len(queue) + 1 \in 1..Len(queue') /\ queue'[Len(queue) + 1] = j
      /\ \A k \in 1..Len(queue') : k \notin 1..Len(queue) => k = Len(queue) + 1
      /\ \A i : Queued(i)' <=> Queued(i) \/ i = j
  BY <1>1, PutQueued
<1>4. \A i : Ran(i)' <=> Ran(i)
  BY <1>1 DEF Ran
<1>5. j \in offered /\ \A a \in 1..Len(accepted) : accepted[a] # j
  BY <1>1 DEF OrderInv, QueueingInv
<1>6. /\ ~Ran(j)
      /\ \A w \in Workers : wstate[w] = "call" => hand[w] # j
      /\ \A k \in 1..Len(queue) : queue[k] # j
  BY <1>1, <1>5, DistinctAssumption DEF OrderInv, PlaceInv, Ran, HeldInv, QueuedInv
<1>7. Len(queue) \in Nat /\ Terminator # j
  BY <1>1, Lengths, DistinctAssumption
<1> HIDE DEF j, n
<1>8. AcceptedInv'
  BY <1>1, <1>2, <1>5 DEF OrderInv, AcceptedInv
<1>9. QueueingInv'
  <2>1. \A u \in Threads : Queueing(u)' => u # t /\ Queueing(u) /\ job'[u] = job[u] /\ job[u] # j
    BY <1>1 DEF Queueing, OrderInv, QueueingInv, j
  <2> QED
    BY <1>1, <1>2, <2>1 DEF OrderInv, QueueingInv
<1>10. QueuedInv'
  <2>1. ASSUME NEW k \in 1..Len(queue'), queue'[k] # Terminator
        PROVE  ~Ran(queue[k])' /\ \E a \in 1..n : queue'[k] = accepted'[a]
    <3>1. CASE k \in 1..Len(queue)
      BY <1>2, <1>3, <1>4, <2>1, <3>1 DEF OrderInv, QueuedInv
    <3>2. CASE k = Len(queue) + 1
      BY <1>2, <1>3, <1>4, <1>6, <3>2
    <3> QED
      BY <1>3, <3>1, <3>2
  <2>2. ASSUME NEW k \in 1..Len(queue'), NEW l \in 1..Len(queue'), NEW a \in 1..n, NEW b \in 1..n,
               k < l, queue'[k] = accepted'[a], queue'[l] = accepted'[b]
        PROVE  a < b
    <3>1. k \in 1..Len(queue) /\ queue'[k] = queue[k]
      BY <1>3, <1>7, <2>2
    <3>2. a \in 1..Len(accepted) /\ queue[k] = accepted[a]
      BY <1>2, <1>6, <2>2, <3>1
    <3>3. CASE l \in 1..Len(queue)
      <4>1. b \in 1..Len(accepted) /\ queue[l] = accepted[b]
        BY <1>2, <1>3, <1>6, <2>2, <3>3
      <4> QED
        BY <2>2, <3>2, <3>3, <4>1, <3>1 DEF OrderInv, QueuedInv
    <3>4. CASE l = Len(queue) + 1
      <4>1. b = n
        BY <1>2, <1>3, <1>5, <2>2, <3>4
      <4> QED
        BY <1>2, <3>2, <4>1
    <3> QED
      BY <1>3, <3>3, <3>4
  <2> QED
    BY <1>2, <2>1, <2>2 DEF QueuedInv
<1>11. HeldInv'
  BY <1>1, <1>2, <1>3, <1>4, <1>6 DEF OrderInv, HeldInv
<1>12. PlaceInv'
  <2>1. \A a \in 1..n : \/ accepted'[a] = accepted[a] /\ a \in 1..Len(accepted)
                       \/ accepted'[a] = j
    BY <1>2
  <2>2. \A a \in 1..n :
          \/ Ran(accepted[a])' \/ Queued(accepted[a])'
          \/ \E w \in Workers : wstate[w] = "call" /\ hand[w] = accepted'[a]
    BY <1>3, <1>4, <2>1 DEF OrderInv, PlaceInv
  <2>3. \A i \in 1..Len(finished) : \E a \in 1..n : finished[i] = accepted'[a]
    BY <1>2 DEF OrderInv, PlaceInv
  <2> QED
    BY <1>1, <1>2, <2>2, <2>3 DEF PlaceInv
<1>13. PrefixInv'
  <2>1. Len(finished) \in Nat
    BY <1>1, Lengths
  <2>2. ~gaveUp => /\ Len(finished) <= n
                   /\ \A i \in 1..Len(finished) : finished[i] = accepted'[i]
                   /\ \A w \in Workers : wstate[w] = "call" =>
                         Len(finished) < n /\ hand[w] = accepted'[Len(finished) + 1]
    <3> SUFFICES ASSUME ~gaveUp
                 PROVE  /\ Len(finished) <= n
                        /\ \A i \in 1..Len(finished) : finished[i] = accepted'[i]
                        /\ \A w \in Workers : wstate[w] = "call" =>
                              Len(finished) < n /\ hand[w] = accepted'[Len(finished) + 1]
      OBVIOUS
    <3>1. Len(finished) <= Len(accepted) /\ Len(accepted) < n /\ n \in Nat
      BY <1>2 DEF OrderInv, PrefixInv, n
    <3>2. \A i \in 1..Len(finished) : finished[i] = accepted'[i]
      BY <1>2, <2>1, <3>1 DEF OrderInv, PrefixInv
    <3>3. ASSUME NEW w \in Workers, wstate[w] = "call"
          PROVE  Len(finished) < n /\ hand[w] = accepted'[Len(finished) + 1]
      BY <1>2, <2>1, <3>1, <3>3 DEF OrderInv, PrefixInv
    <3> QED
      BY <1>2, <2>1, <3>1, <3>2, <3>3
  <2> QED
    BY <1>1, <1>2, <2>2 DEF PrefixInv
<1> QED
  BY <1>8, <1>9, <1>10, <1>11, <1>12, <1>13 DEF OrderInv

(* The record at the head of the queue is taken. *)
LEMMA GetQueued ==
  ASSUME TypeOK, queue # <<>>, queue' = Tail(queue)
  PROVE  /\ Head(queue) = queue[1] /\ 1 \in 1..Len(queue)
         /\ Head(queue) \in Jobs \cup {Terminator}
         /\ \A k \in 1..Len(queue') : k + 1 \in 1..Len(queue) /\ queue'[k] = queue[k + 1]
         /\ \A k \in 1..Len(queue) : k # 1 => k - 1 \in 1..Len(queue') /\ queue'[k - 1] = queue[k]
         /\ \A j : Queued(j) <=> Queued(j)' \/ j = Head(queue)
<1>1. /\ Len(queue) \in Nat \ {0} /\ Len(queue') = Len(queue) - 1
      /\ Head(queue) \in Jobs \cup {Terminator}
      /\ \A k \in 1..Len(queue') : queue'[k] = queue[k + 1]
  BY HeadTailProperties, LenProperties, EmptySeq DEF TypeOK
<1>2. Head(queue) = queue[1] /\ 1 \in 1..Len(queue)
  BY <1>1
<1>3. \A k \in 1..Len(queue') : k + 1 \in 1..Len(queue) /\ queue'[k] = queue[k + 1]
  BY <1>1
<1>4. \A k \in 1..Len(queue) : k # 1 => k - 1 \in 1..Len(queue') /\ queue'[k - 1] = queue[k]
  BY <1>1
<1>5. ASSUME NEW j, Queued(j)
      PROVE  Queued(j)' \/ j = Head(queue)
  <2>1. PICK k \in 1..Len(queue) : queue[k] = j
    BY <1>5 DEF Queued
  <2>2. CASE k = 1
    BY <2>1, <2>2, <1>2
  <2>3. CASE k # 1
    <3>1. k - 1 \in 1..Len(queue') /\ queue'[k - 1] = j
      BY <2>1, <2>3, <1>4
    <3> QED
      BY <3>1 DEF Queued
  <2> QED
    BY <2>2, <2>3
<1>6. ASSUME NEW j, Queued(j)'
      PROVE  Queued(j)
  <2>1. PICK k \in 1..Len(queue') : queue'[k] = j
    BY <1>6 DEF Queued
  <2>2. k + 1 \in 1..Len(queue) /\ queue[k + 1] = j
    BY <2>1, <1>3
  <2> QED
    BY <2>2 DEF Queued
<1>7. Queued(Head(queue))
  BY <1>2 DEF Queued
<1>8. \A j : Queued(j) <=> Queued(j)' \/ j = Head(queue)
  BY <1>5, <1>6, <1>7
<1> QED
  BY <1>1, <1>2, <1>3, <1>4, <1>8

(* The next job of a worker that nobody abandoned is the oldest that has    *)
(* not run: there is no second consumer that could have it, and the queue   *)
(* is in order.                                                             *)
LEMMA NextInOrder ==
  ASSUME IInv, OrderInv, ~gaveUp, NEW w \in Workers, wstate[w] = "get",
         1 \in 1..Len(queue), queue[1] # Terminator
  PROVE  /\ Len(finished) < Len(accepted) /\ queue[1] = accepted[Len(finished) + 1]
         /\ \A v \in Workers : wstate[v] # "call"
<1> DEFINE n == Len(finished)
<1>1. n \in Nat /\ Len(accepted) \in Nat
  BY Lengths DEF IInv
<1>2. \A v \in Workers : wstate[v] # "call"
  BY DEF IInv, OneConsumer, Consuming
<1>3. /\ n <= Len(accepted) /\ \A i \in 1..n : finished[i] = accepted[i]
  BY DEF OrderInv, PrefixInv
<1>4. PICK a \in 1..Len(accepted) : queue[1] = accepted[a]
  BY DEF OrderInv, QueuedInv
<1>5. ~Ran(queue[1])
  BY DEF OrderInv, QueuedInv
<1> HIDE DEF n
<1>6. a > n
  BY <1>1, <1>3, <1>4, <1>5 DEF Ran, n
<1>7. n + 1 \in 1..Len(accepted)
  BY <1>1, <1>6
<1>8. ~Ran(accepted[n + 1])
  <2> SUFFICES ASSUME NEW i \in 1..n, finished[i] = accepted[n + 1] PROVE FALSE
    BY DEF Ran, n
  <2>1. i \in 1..Len(accepted) /\ accepted[i] = accepted[n + 1] /\ i # n + 1
    BY <1>1, <1>3
  <2> QED
    BY <1>7, <2>1 DEF OrderInv, AcceptedInv
<1>9. PICK k \in 1..Len(queue) : queue[k] = accepted[n + 1]
  BY <1>2, <1>7, <1>8 DEF OrderInv, PlaceInv, Queued
<1>10. ~(1 < k /\ n + 1 < a)
  <2>1. 1 < k => a < n + 1
    BY <1>4, <1>7, <1>9 DEF OrderInv, QueuedInv
  <2> QED
    BY <1>1, <2>1
<1>11. a = n + 1
  <2>1. CASE k = 1
    BY <1>4, <1>7, <1>9, <2>1 DEF OrderInv, AcceptedInv
  <2>2. CASE k # 1
    BY <1>1, <1>6, <1>10, <2>2
  <2> QED
    BY <2>1, <2>2
<1> QED
  BY <1>1, <1>2, <1>4, <1>7, <1>11 DEF n

(* A worker takes the record at the head of the queue. *)
LEMMA GetOrder ==
  ASSUME IInv, OrderInv, NEW w \in Workers, Get(w)
  PROVE  OrderInv'
<1>r. PICK r : r = Head(queue)
  OBVIOUS
<1>1. /\ TypeOK /\ wstate[w] = "get" /\ queue # <<>> /\ queue' = Tail(queue)
      /\ hand'[w] = r /\ wstate'[w] = (IF r = Terminator THEN "break" ELSE "call")
      /\ \A v \in Workers \ {w} : hand'[v] = hand[v] /\ wstate'[v] = wstate[v]
      /\ UNCHANGED <<accepted, finished, gaveUp, job, pc, offered>>
  BY <1>r DEF IInv, TypeOK, Get, WorkerGoto, callVars, logVars
<1>2. /\ r = queue[1] /\ 1 \in 1..Len(queue) /\ r \in Jobs \cup {Terminator}
      /\ \A k \in 1..Len(queue') : k + 1 \in 1..Len(queue) /\ queue'[k] = queue[k + 1]
      /\ \A k \in 1..Len(queue) : k # 1 => k - 1 \in 1..Len(queue') /\ queue'[k - 1] = queue[k]
      /\ \A j : Queued(j) <=> Queued(j)' \/ j = r
  BY <1>1, <1>r, GetQueued
<1>3. \A i : Ran(i)' <=> Ran(i)
  BY <1>1 DEF Ran
<1>4. Len(queue) \in Nat /\ \A a \in 1..Len(accepted) : accepted[a] # Terminator
  BY <1>1, Lengths, DistinctAssumption
<1>5. AcceptedInv' /\ QueueingInv'
  BY <1>1 DEF OrderInv, AcceptedInv, QueueingInv, Queueing
<1>6. QueuedInv'
  <2>1. \A k \in 1..Len(queue') : queue'[k] # Terminator =>
           ~Ran(queue[k])' /\ \E a \in 1..Len(accepted) : queue'[k] = accepted[a]
    BY <1>2, <1>3 DEF OrderInv, QueuedInv
  <2>2. \A k, l \in 1..Len(queue') : \A a, b \in 1..Len(accepted) :
           k < l /\ queue'[k] = accepted[a] /\ queue'[l] = accepted[b] => a < b
    <3>1. \A k, l \in 1..Len(queue') : k < l => k + 1 < l + 1
      OBVIOUS
    <3> QED
      BY <1>2, <3>1 DEF OrderInv, QueuedInv
  <2>3. accepted' = accepted
    BY <1>1
  <2> QED
    BY <2>1, <2>2, <2>3 DEF QueuedInv
<1>7. ASSUME r # Terminator PROVE ~Ran(r) /\ ~Queued(r)'
  <2>1. ~Ran(r) /\ \E a \in 1..Len(accepted) : r = accepted[a]
    BY <1>2, <1>7 DEF OrderInv, QueuedInv
  <2>2. ASSUME NEW k \in 1..Len(queue'), queue'[k] = r PROVE FALSE
    <3>1. k + 1 \in 1..Len(queue) /\ queue[k + 1] = r /\ 1 < k + 1
      BY <1>2, <2>2
    <3>2. PICK a \in 1..Len(accepted) : r = accepted[a]
      BY <2>1
    <3>3. queue[1] = accepted[a] /\ queue[k + 1] = accepted[a]
      BY <1>2, <3>1, <3>2
    <3>4. a < a
      BY <1>2, <3>1, <3>3 DEF OrderInv, QueuedInv
    <3> QED
      BY <3>4
  <2> QED
    BY <2>1, <2>2 DEF Queued
<1>8. HeldInv'
  <2>1. \A v \in Workers : wstate'[v] = "call" =>
           \/ v # w /\ wstate[v] = "call" /\ hand'[v] = hand[v]
           \/ v = w /\ r # Terminator /\ hand'[v] = r
    BY <1>1
  <2>2. \A v \in Workers : wstate[v] = "call" => hand[v] # r
    BY <1>2 DEF OrderInv, HeldInv, Queued
  <2>3. r # Terminator => \E a \in 1..Len(accepted) : r = accepted[a]
    BY <1>2 DEF OrderInv, QueuedInv
  <2>4. ASSUME NEW v \in Workers, wstate'[v] = "call"
        PROVE  /\ ~Ran(hand[v])' /\ ~Queued(hand[v])'
               /\ \E a \in 1..Len(accepted) : hand'[v] = accepted[a]
               /\ \A u \in Workers : wstate'[u] = "call" /\ hand'[u] = hand'[v] => u = v
    BY <1>2, <1>3, <1>7, <2>1, <2>2, <2>3, <2>4 DEF OrderInv, HeldInv
  <2> QED
    BY <1>1, <2>4 DEF HeldInv
<1>9. PlaceInv'
  <2>1. \A a \in 1..Len(accepted) :
           \/ Ran(accepted[a])' \/ Queued(accepted[a])'
           \/ \E v \in Workers : wstate'[v] = "call" /\ hand'[v] = accepted[a]
    BY <1>1, <1>2, <1>3, <1>4 DEF OrderInv, PlaceInv
  <2> QED
    BY <1>1, <2>1 DEF OrderInv, PlaceInv
<1>10. PrefixInv'
  <2>1. CASE r = Terminator
    BY <1>1, <2>1 DEF OrderInv, PrefixInv
  <2>2. CASE r # Terminator
    <3>1. ~gaveUp => /\ Len(finished) < Len(accepted) /\ r = accepted[Len(finished) + 1]
                     /\ \A v \in Workers : wstate[v] # "call"
      BY <1>1, <1>2, <2>2, NextInOrder
    <3> QED
      BY <1>1, <3>1 DEF OrderInv, PrefixInv
  <2> QED
    BY <2>1, <2>2
<1> QED
  BY <1>5, <1>6, <1>8, <1>9, <1>10 DEF OrderInv

(* A callback has run. *)
LEMMA CallbackRan ==
  ASSUME IInv, NEW w \in Workers, Callback(w)
  PROVE  /\ Len(finished) \in Nat /\ Len(finished') = Len(finished) + 1
         /\ \A n \in 1..Len(finished) : n \in 1..Len(finished') /\ finished'[n] = finished[n]
         /\ finished'[Len(finished) + 1] = hand[w]
         /\ \A n \in 1..Len(finished') : n \notin 1..Len(finished) => n = Len(finished) + 1
         /\ \A j : Ran(j)' <=> Ran(j) \/ j = hand[w]
<1>1. hand[w] \in Jobs /\ finished' = Append(finished, hand[w]) /\ finished \in Seq(Jobs)
  BY DEF IInv, TypeOK, HandInv, Callback
<1>2. Len(finished) \in Nat
  BY <1>1, LenProperties
<1>3. /\ Len(finished') = Len(finished) + 1 /\ finished'[Len(finished) + 1] = hand[w]
      /\ \A n \in 1..Len(finished) : finished'[n] = finished[n]
  BY <1>1, AppendProperties
<1>4. /\ \A n \in 1..Len(finished) : n \in 1..Len(finished') /\ finished'[n] = finished[n]
      /\ \A n \in 1..Len(finished') : n \notin 1..Len(finished) => n = Len(finished) + 1
      /\ Len(finished) + 1 \in 1..Len(finished')
  BY <1>2, <1>3
<1>5. \A j : Ran(j)' <=> Ran(j) \/ j = hand[w]
  BY <1>3, <1>4 DEF Ran
<1> QED
  BY <1>2, <1>3, <1>4, <1>5

(* A job that has run was the one in front of all that have not. *)
LEMMA CallbackOrder ==
  ASSUME IInv, OrderInv, NEW w \in Workers, Callback(w)
  PROVE  OrderInv'
<1> DEFINE j == hand[w]
<1>1. /\ TypeOK /\ wstate[w] = "call" /\ wstate'[w] # "call"
      /\ \A v \in Workers \ {w} : wstate'[v] = wstate[v]
      /\ UNCHANGED <<queue, hand, accepted, gaveUp, job, pc, offered>>
  BY DEF IInv, TypeOK, Callback, WorkerGoto, callVars, queueVars
<1>2. /\ Len(finished) \in Nat /\ Len(finished') = Len(finished) + 1
      /\ \A n \in 1..Len(finished) : n \in 1..Len(finished') /\ finished'[n] = finished[n]
      /\ finished'[Len(finished) + 1] = j
      /\ \A n \in 1..Len(finished') : n \notin 1..Len(finished) => n = Len(finished) + 1
      /\ \A i : Ran(i)' <=> Ran(i) \/ i = j
  BY CallbackRan
<1>3. /\ ~Ran(j) /\ ~Queued(j) /\ \E a \in 1..Len(accepted) : j = accepted[a]
      /\ \A v \in Workers : wstate[v] = "call" /\ hand[v] = j => v = w
  BY <1>1 DEF OrderInv, HeldInv
<1> HIDE DEF j
<1>4. \A i : Queued(i)' <=> Queued(i)
  BY <1>1 DEF Queued
<1>5. AcceptedInv' /\ QueueingInv'
  BY <1>1 DEF OrderInv, AcceptedInv, QueueingInv, Queueing
<1>6. QueuedInv'
  <2>1. \A k \in 1..Len(queue) : queue[k] # j
    BY <1>3 DEF Queued
  <2> QED
    BY <1>1, <1>2, <2>1 DEF OrderInv, QueuedInv
<1>7. HeldInv'
  BY <1>1, <1>2, <1>3, <1>4 DEF OrderInv, HeldInv
<1>8. PlaceInv'
  <2>1. \A a \in 1..Len(accepted) :
           \/ Ran(accepted[a])' \/ Queued(accepted[a])'
           \/ \E v \in Workers : wstate'[v] = "call" /\ hand[v] = accepted[a]
    BY <1>1, <1>2, <1>4 DEF OrderInv, PlaceInv, j
  <2>2. \A n \in 1..Len(finished') : \E a \in 1..Len(accepted) : finished'[n] = accepted[a]
    BY <1>2, <1>3 DEF OrderInv, PlaceInv
  <2> QED
    BY <1>1, <2>1, <2>2 DEF PlaceInv
<1>9. PrefixInv'
  <2> SUFFICES ASSUME ~gaveUp
               PROVE  /\ Len(finished') <= Len(accepted)
                      /\ \A n \in 1..Len(finished') : finished'[n] = accepted[n]
                      /\ \A v \in Workers : wstate'[v] # "call"
    BY <1>1 DEF PrefixInv
  <2>1. \A v \in Workers : wstate'[v] # "call"
    BY <1>1 DEF IInv, OneConsumer, Consuming
  <2>2. Len(finished) < Len(accepted) /\ j = accepted[Len(finished) + 1]
    BY <1>1 DEF OrderInv, PrefixInv, j
  <2>3. Len(accepted) \in Nat
    BY <1>1, Lengths
  <2>4. \A n \in 1..Len(finished') : finished'[n] = accepted[n]
    BY <1>2, <2>2 DEF OrderInv, PrefixInv
  <2> QED
    BY <1>2, <2>1, <2>2, <2>3, <2>4
<1> QED
  BY <1>5, <1>6, <1>7, <1>8, <1>9 DEF OrderInv

(* The rest of queue(), and a stop() or handler once it does not put. *)
LEMMA CallOrder ==
  ASSUME IInv, OrderInv, NEW t \in Threads,
         \/ ReadAlive(t) \/ ReadAliveRaises(t) \/ StartFound(t)
         \/ \E w \in Workers : StartCreate(t, w) \/ StartFail(t, w)
         \/ StopNothing(t) \/ StopJoined(t) \/ StopRaises(t)
  PROVE  OrderInv'
<1> USE DEF ReadAlive, ReadAliveRaises, StartFound, StartCreate, StartFail, Start, NewThread,
            QueueRaises, StopNothing, StopCall, StopJoined, StopRaises, Goto, WorkerGoto,
            queueVars, workerVars, logVars, Joins
<1>1. UNCHANGED <<queue, accepted, finished, offered>> /\ (gaveUp => gaveUp')
  OBVIOUS
<1>2. /\ \A w \in Workers : wstate'[w] = "call" <=> wstate[w] = "call"
      /\ \A w \in Workers : hand'[w] = hand[w]
  BY DEF IInv, TypeOK
<1>3. \A u \in Threads : Queueing(u)' => Queueing(u) /\ job'[u] = job[u]
  BY DEF IInv, TypeOK, Queueing
<1> QED
  BY <1>1, <1>2, <1>3, OrderFrame, Zenon

(* A worker between two jobs, and the exit. *)
LEMMA OtherOrder ==
  ASSUME IInv, OrderInv,
         \/ \E w \in Workers : TaskDone(w) \/ WorkerEnd(w)
         \/ BeginExit \/ HandlerReturns \/ HandlerJoined \/ HandlerInterrupted \/ Exit
         \/ UNCHANGED vars
  PROVE  OrderInv'
<1> USE DEF TaskDone, WorkerEnd, BeginExit, HandlerReturns, Handler, HandlerJoined,
            HandlerInterrupted, Exit, WorkerGoto, vars, queueVars, workerVars, callVars, logVars
<1>1. UNCHANGED <<queue, accepted, finished, offered, pc, job>> /\ (gaveUp => gaveUp')
  <2>1. CASE UNCHANGED vars
    BY <2>1
  <2>2. ASSUME NEW w \in Workers, TaskDone(w) \/ WorkerEnd(w)
        PROVE  UNCHANGED <<queue, accepted, finished, offered, pc, job, gaveUp>>
    BY <2>2
  <2>3. CASE BeginExit \/ HandlerReturns \/ HandlerJoined \/ HandlerInterrupted \/ Exit
    <3>1. UNCHANGED <<queue, accepted, finished, offered, pc, job>>
      BY <2>3
    <3>2. gaveUp => gaveUp'
      BY <2>3 DEF IInv, TypeOK, TasksFinished
    <3> QED
      BY <3>1, <3>2
  <2> HIDE DEF TaskDone, WorkerEnd, BeginExit, HandlerReturns, HandlerJoined,
               HandlerInterrupted, Exit, vars
  <2> QED
    BY <2>1, <2>2, <2>3
<1>2. /\ \A w \in Workers : wstate'[w] = "call" <=> wstate[w] = "call"
      /\ \A w \in Workers : wstate[w] = "call" => hand'[w] = hand[w]
  BY DEF IInv, TypeOK
<1>3. \A u \in Threads : Queueing(u)' => Queueing(u) /\ job'[u] = job[u]
  BY <1>1 DEF Queueing
<1> QED
  BY <1>1, <1>2, <1>3, OrderFrame, Zenon

(* A put of the terminator, by a stop() or a handler. *)
LEMMA PutOrder ==
  ASSUME IInv, OrderInv,
         (\E t \in Threads, kind \in StopKinds : StopPut(t, kind)) \/ HandlerPut
  PROVE  OrderInv'
<1>1. PutTerminator /\ UNCHANGED <<accepted, finished, gaveUp, workerVars, job, offered>>
  BY DEF StopPut, StopCall, HandlerPut, Handler, callVars, logVars
<1>2. \A t \in Threads : Queueing(t)' => Queueing(t)
  <2>1. CASE HandlerPut
    BY <2>1 DEF HandlerPut, Handler, callVars, Queueing
  <2>2. ASSUME NEW t \in Threads, NEW kind \in StopKinds, StopPut(t, kind)
        PROVE  \A u \in Threads : Queueing(u)' => Queueing(u)
    <3>1. pc'[t] \in Joins /\ \A u \in Threads \ {t} : pc'[u] = pc[u]
      BY <2>2, DomainAssumption DEF StopPut, StopCall, Goto, IInv, TypeOK
    <3> QED
      BY <3>1 DEF Queueing, Joins
  <2> QED
    BY <2>1, <2>2
<1> QED
  BY <1>1, <1>2, TerminatorOrder

(* Every step keeps the order of the queue. *)
LEMMA NextOrder == IInv /\ OrderInv /\ [Next]_vars => OrderInv'
<1> SUFFICES ASSUME IInv, OrderInv, [Next]_vars PROVE OrderInv'
  OBVIOUS
<1>1. ASSUME NEW t \in Threads, NEW j \in Jobs, QueueCall(t, j) PROVE OrderInv'
  BY <1>1, QueueCallOrder
<1>2. ASSUME NEW t \in Threads, QueueStep(t) PROVE OrderInv'
  BY <1>2, CallOrder, QueuePutOrder DEF QueueStep
<1>3. ASSUME NEW t \in Threads,
             StopNothing(t) \/ \E kind \in StopKinds : StopPut(t, kind)
      PROVE  OrderInv'
  BY <1>3, CallOrder, PutOrder
<1>4. ASSUME NEW t \in Threads, StopStep(t) PROVE OrderInv'
  BY <1>4, CallOrder DEF StopStep
<1>5. ASSUME NEW w \in Workers, WorkerStep(w) PROVE OrderInv'
  BY <1>5, GetOrder, CallbackOrder, OtherOrder DEF WorkerStep
<1>6. ASSUME BeginExit \/ MainStep \/ HandlerInterrupted PROVE OrderInv'
  BY <1>6, PutOrder, OtherOrder DEF MainStep
<1>7. ASSUME Exited \/ UNCHANGED vars PROVE OrderInv'
  BY <1>7, OtherOrder DEF Exited
<1> QED
  BY <1>1, <1>2, <1>3, <1>4, <1>5, <1>6, <1>7 DEF Next

-----------------------------------------------------------------------------
(* The terminator and those who wait for it. *)

(* What the promise says of jobs in terms of what has finished. *)
LEMMA RanIsFinished ==
  ASSUME TypeOK
  PROVE  /\ \A j : Ran(j) <=> j \in ToSet(finished)
         /\ Damaged <=> (\E j \in Fatal : Ran(j)) \/ \E w \in Workers : wstate[w] = "unstarted"
         /\ \A n \in 0..Len(accepted) : Finished(n) <=> \A a \in 1..n : Ran(accepted[a])
<1>1. DOMAIN finished = 1..Len(finished)
  BY LenProperties DEF TypeOK
<1>2. \A j : Ran(j) <=> j \in ToSet(finished)
  BY <1>1 DEF Ran, ToSet
<1> QED
  BY <1>2 DEF Damaged, Finished

(* What has run stays so, and so does what went wrong. *)
LEMMA Lasting ==
  ASSUME IInv, [Next]_vars
  PROVE  /\ \A j : Ran(j) => Ran(j)'
         /\ Damaged => Damaged'
         /\ gaveUp => gaveUp'
<1>1. finished' = finished \/ \E w \in Workers : Callback(w)
  BY DEF Next, QueueCall, StopNothing, StopPut, StopCall, QueueStep, ReadAlive, ReadAliveRaises,
         StartFound, StartCreate, StartFail, Start, QueuePut, StopStep, StopJoined, StopRaises,
         WorkerStep, Get, TaskDone, WorkerEnd, BeginExit, MainStep, HandlerReturns, Handler,
         HandlerPut, HandlerJoined, HandlerInterrupted, Exit, Exited, vars, logVars
<1>2. \A j : Ran(j) => Ran(j)'
  <2>1. CASE finished' = finished
    BY <2>1 DEF Ran
  <2>2. CASE \E w \in Workers : Callback(w)
    BY <2>2, CallbackRan
  <2> QED
    BY <1>1, <2>1, <2>2
<1>3. \A w \in Workers : wstate[w] = "unstarted" => wstate'[w] = "unstarted"
  BY DEF Next, QueueCall, StopNothing, StopPut, StopCall, QueueStep, ReadAlive, ReadAliveRaises,
         StartFound, StartCreate, StartFail, NewThread, QueuePut, StopStep, StopJoined, StopRaises,
         WorkerStep, Get, Callback, TaskDone, WorkerEnd, BeginExit, MainStep, HandlerReturns,
         Handler, HandlerPut, HandlerJoined, HandlerInterrupted, Exit, Exited, WorkerGoto,
         vars, workerVars, IInv, TypeOK
<1>4. gaveUp => gaveUp'
  BY DEF Next, QueueCall, StopNothing, StopPut, StopCall, QueueStep, ReadAlive, ReadAliveRaises,
         StartFound, StartCreate, StartFail, Start, QueuePut, StopStep, StopJoined, StopRaises,
         WorkerStep, Get, Callback, TaskDone, WorkerEnd, BeginExit, MainStep, HandlerReturns, Handler,
         HandlerPut, HandlerJoined, HandlerInterrupted, Exit, Exited, vars, logVars, IInv, TypeOK,
         TasksFinished
<1>5. Damaged => Damaged'
  <2>1. TypeOK /\ TypeOK'
    BY NextIInv DEF IInv
  <2>2. /\ Damaged <=> (\E j \in Fatal : Ran(j)) \/ \E w \in Workers : wstate[w] = "unstarted"
        /\ Damaged' <=> (\E j \in Fatal : Ran(j)') \/ \E w \in Workers : wstate'[w] = "unstarted"
    <3>1. DOMAIN finished' = 1..Len(finished')
      BY <2>1, LenProperties DEF TypeOK
    <3>2. \A j : Ran(j)' <=> j \in ToSet(finished)'
      BY <3>1 DEF Ran, ToSet
    <3> QED
      BY <2>1, <3>2, RanIsFinished DEF Damaged
  <2> QED
    BY <1>2, <1>3, <2>2
<1> QED
  BY <1>2, <1>4, <1>5

(* The lock is held by the one who waits, if anybody does. *)
LEMMA OneWaits ==
  ASSUME IInv, NEW c \in Threads \cup {Main}, Waiting(c)
  PROVE  lock = c /\ thread # None
  BY DistinctAssumption DEF IInv, LockInv, Waiting

(* The invariants of stopping hold of a worker that was never started. *)
LEMMA InitDrain == Init => HolderInv /\ MarkInv /\ DrainInv /\ ExitInv
<1> SUFFICES ASSUME Init PROVE HolderInv /\ MarkInv /\ DrainInv /\ ExitInv
  OBVIOUS
<1>1. Len(queue) = 0 /\ Len(accepted) = 0
  BY EmptySeq DEF Init
<1>2. /\ \A c \in Threads \cup {Main} : ~Waiting(c) /\ mark[c] = 0
      /\ lock = None /\ wstate[thread] = "get" /\ thread # None
      /\ \A w \in Workers : wstate[w] \in {"get", "unborn"}
  BY WorkersFinite, DistinctAssumption DEF Init, Waiting, Joins
<1>3. DrainInv
  BY <1>1, <1>2 DEF DrainInv, NoTerminator, AtWork
<1>4. ExitInv
  BY <1>2 DEF ExitInv, AtWork, Init, Joins
<1> QED
  BY <1>1, <1>2, <1>3, <1>4 DEF HolderInv, MarkInv

(* The lock stays with somebody who waits for the worker. *)
LEMMA HolderStep ==
  ASSUME IInv, HolderInv, [Next]_vars
  PROVE  HolderInv'
<1> USE DEF HolderInv
<1>0. TypeOK /\ Main \notin Threads /\ None \notin Threads \cup {Main}
  BY DistinctAssumption DEF IInv
<1>1. ASSUME NEW t \in Threads,
             \/ \E j \in Jobs : QueueCall(t, j)
             \/ QueueStep(t) \/ StopNothing(t)
      PROVE  HolderInv'
  <2>1. pc[t] \notin Joins /\ UNCHANGED <<lock, mainpc>>
    BY <1>1 DEF QueueCall, MayCall, QueueStep, ReadAlive, ReadAliveRaises, StartFound, StartCreate,
         StartFail, Start, QueuePut, StopNothing, StopCall, Joins, selfVars, exitVars
  <2>2. \A u \in Threads \ {t} : pc'[u] = pc[u]
    BY <1>0, <1>1 DEF QueueCall, QueueStep, ReadAlive, ReadAliveRaises, StartFound, StartCreate,
         StartFail, QueuePut, StopNothing, QueueRaises, Goto, TypeOK
  <2> QED
    BY <1>0, <2>1, <2>2 DEF Waiting, TypeOK
<1>2. ASSUME NEW t \in Threads, NEW kind \in StopKinds, StopPut(t, kind) PROVE HolderInv'
  BY <1>0, <1>2, DomainAssumption DEF StopPut, StopCall, Goto, Waiting, TypeOK
<1>3. ASSUME NEW t \in Threads, StopStep(t) PROVE HolderInv'
  BY <1>3 DEF StopStep, StopJoined, StopRaises
<1>4. ASSUME NEW w \in Workers, WorkerStep(w) PROVE HolderInv'
  BY <1>4 DEF WorkerStep, Get, Callback, TaskDone, WorkerEnd, selfVars, callVars, exitVars, Waiting
<1>5. CASE BeginExit \/ HandlerReturns \/ Exit
  BY <1>0, <1>5 DEF BeginExit, HandlerReturns, Handler, Exit, selfVars, callVars, Waiting
<1>6. CASE HandlerPut
  BY <1>6 DEF HandlerPut, Waiting
<1>7. CASE HandlerJoined \/ HandlerInterrupted
  BY <1>7 DEF HandlerJoined, HandlerInterrupted
<1>8. CASE UNCHANGED vars
  BY <1>8 DEF vars, selfVars, callVars, exitVars, Waiting
<1> QED
  BY <1>1, <1>2, <1>3, <1>4, <1>5, <1>6, <1>7, <1>8 DEF Next, MainStep, Exited

(* A thread that a job ends has run a fatal one; marks stay in range. *)
LEMMA MarkStep ==
  ASSUME IInv, MarkInv, [Next]_vars
  PROVE  MarkInv'
<1>1. TypeOK /\ Len(accepted) \in Nat
  BY Lengths DEF IInv
<1>2. Len(accepted') \in Nat /\ Len(accepted) <= Len(accepted')
  <2>1. accepted' = accepted \/ \E t \in Threads : QueuePut(t)
    BY DEF Next, QueueCall, StopNothing, StopPut, StopCall, QueueStep, ReadAlive, ReadAliveRaises,
         StartFound, StartCreate, StartFail, Start, StopStep, StopJoined, StopRaises,
         WorkerStep, Get, Callback, TaskDone, WorkerEnd, BeginExit, MainStep, HandlerReturns, Handler,
         HandlerPut, HandlerJoined, HandlerInterrupted, Exit, Exited, vars, logVars
  <2>2. ASSUME NEW t \in Threads, QueuePut(t)
        PROVE  Len(accepted') = Len(accepted) + 1
    <3>1. accepted \in Seq(Jobs) /\ job[t] \in Jobs /\ accepted' = Append(accepted, job[t])
      BY <2>2 DEF IInv, TypeOK, JobInv, QueuePut
    <3> QED
      BY <3>1, AppendProperties
  <2> QED
    BY <1>1, <2>1, <2>2
<1>3. \A c \in Threads \cup {Main} : mark'[c] <= Len(accepted')
  <2>1. \A c \in Threads \cup {Main} : mark'[c] \in {mark[c], Len(accepted)}
    BY <1>1 DEF Next, QueueCall, StopNothing, StopPut, StopCall, QueueStep, ReadAlive, ReadAliveRaises,
         StartFound, StartCreate, StartFail, Start, QueuePut, StopStep, StopJoined, StopRaises,
         WorkerStep, Get, Callback, TaskDone, WorkerEnd, BeginExit, MainStep, HandlerReturns, Handler,
         HandlerPut, HandlerJoined, HandlerInterrupted, Exit, Exited, vars, logVars, TypeOK
  <2>2. \A c \in Threads \cup {Main} : mark[c] \in Nat /\ mark[c] <= Len(accepted)
    BY <1>1 DEF MarkInv, TypeOK
  <2> QED
    BY <1>1, <1>2, <2>1, <2>2
<1>4. \A w \in Workers : wstate'[w] = "die" => \E j \in Fatal : Ran(j)'
  <2>1. \A w \in Workers : wstate'[w] = "die" => wstate[w] = "die" \/ (Callback(w) /\ hand[w] \in Fatal)
    <3>1. ASSUME NEW v \in Workers, Callback(v)
          PROVE  \A w \in Workers : wstate'[w] = "die" => wstate[w] = "die" \/ (w = v /\ hand[w] \in Fatal)
      BY <1>1, <3>1 DEF Callback, WorkerGoto, TypeOK
    <3>2. CASE ~ \E v \in Workers : Callback(v)
      BY <1>1, <3>2 DEF Next, QueueCall, StopNothing, StopPut, StopCall, QueueStep, ReadAlive,
         ReadAliveRaises, StartFound, StartCreate, StartFail, QueuePut, StopStep, StopJoined,
         StopRaises, WorkerStep, Get, TaskDone, WorkerEnd, BeginExit, MainStep, HandlerReturns,
         Handler, HandlerPut, HandlerJoined, HandlerInterrupted, Exit, Exited, WorkerGoto,
         vars, workerVars, TypeOK
    <3> QED
      BY <3>1, <3>2
  <2> QED
    BY <2>1, CallbackRan, Lasting DEF MarkInv
<1> QED
  BY <1>3, <1>4 DEF MarkInv

(* A step in which nobody puts, takes or waits. *)
LEMMA DrainFrame ==
  ASSUME IInv, DrainInv, [Next]_vars, UNCHANGED <<queue, accepted, lock, thread>>,
         \A c \in Threads \cup {Main} : Waiting(c)' => Waiting(c) /\ mark'[c] = mark[c],
         ~Damaged' => /\ \A w \in Workers : wstate'[w] = "break" => wstate[w] = "break"
                      /\ thread # None /\ AtWork => AtWork'
                      /\ thread # None /\ wstate[thread] \in {"break", "ending", "dead"} =>
                            wstate'[thread] \in {"break", "ending", "dead"}
  PROVE  DrainInv'
<1> SUFFICES ASSUME ~gaveUp', ~Damaged' PROVE DrainInv'
  BY DEF DrainInv
<1>1. ~gaveUp /\ ~Damaged /\ \A j : Ran(j) => Ran(j)'
  BY Lasting
<1>2. lock' = None =>
         /\ NoTerminator' /\ \A w \in Workers : wstate'[w] # "break"
         /\ thread' # None => AtWork'
  BY <1>1 DEF DrainInv, NoTerminator
<1>3. ASSUME NEW c \in Threads \cup {Main}, Waiting(c)'
      PROVE  \/ AtWork' /\ \E k \in 1..Len(queue') : Ahead(c, k)'
             \/ /\ wstate'[thread'] \in {"break", "ending", "dead"} /\ NoTerminator'
                /\ \A a \in 1..mark'[c] : Ran(accepted[a])'
  <2>1. Waiting(c) /\ mark'[c] = mark[c] /\ thread # None
    BY <1>3, OneWaits
  <2>2. CASE AtWork /\ \E k \in 1..Len(queue) : Ahead(c, k)
    BY <2>1, <2>2 DEF Ahead
  <2>3. CASE /\ wstate[thread] \in {"break", "ending", "dead"} /\ NoTerminator
             /\ \A a \in 1..mark[c] : Ran(accepted[a])
    BY <1>1, <2>1, <2>3 DEF NoTerminator
  <2> QED
    BY <1>1, <2>1, <2>2, <2>3 DEF DrainInv
<1> QED
  BY <1>2, <1>3 DEF DrainInv

(* Steps that neither start, stop nor consume keep DrainInv. *)
LEMMA IdleDrain ==
  ASSUME IInv, DrainInv, [Next]_vars,
         \/ \E t \in Threads : \/ \E j \in Jobs : QueueCall(t, j)
                              \/ ReadAlive(t) \/ ReadAliveRaises(t) \/ StartFound(t) \/ StopNothing(t)
         \/ BeginExit \/ HandlerReturns \/ Exit \/ UNCHANGED vars
  PROVE  DrainInv'
<1> USE DEF QueueCall, MayCall, ReadAlive, ReadAliveRaises, StartFound, Start, StopNothing, StopCall,
            QueueRaises, Goto, BeginExit, HandlerReturns, Handler, Exit,
            selfVars, queueVars, workerVars, callVars, exitVars, logVars
<1>1. UNCHANGED <<queue, accepted, lock, thread, wstate>>
  BY DEF vars
<1>2. \A c \in Threads \cup {Main} : Waiting(c)' => Waiting(c) /\ mark'[c] = mark[c]
  <2>1. CASE BeginExit
    BY <2>1, DistinctAssumption DEF IInv, TypeOK, Waiting
  <2>2. CASE HandlerReturns \/ Exit
    BY <2>2 DEF Waiting
  <2>3. CASE UNCHANGED vars
    BY <2>3 DEF Waiting, vars
  <2>4. ASSUME NEW t \in Threads,
               \/ \E j \in Jobs : QueueCall(t, j)
               \/ ReadAlive(t) \/ ReadAliveRaises(t) \/ StartFound(t) \/ StopNothing(t)
        PROVE  \A c \in Threads \cup {Main} : Waiting(c)' => Waiting(c) /\ mark'[c] = mark[c]
    BY <2>4, DistinctAssumption DEF IInv, TypeOK, Waiting, Joins
  <2> HIDE DEF QueueCall, ReadAlive, ReadAliveRaises, StartFound, StopNothing, BeginExit,
               HandlerReturns, Exit
  <2> QED
    BY <2>1, <2>2, <2>3, <2>4
<1> HIDE DEF QueueCall, ReadAlive, ReadAliveRaises, StartFound, StopNothing, BeginExit,
             HandlerReturns, Exit
<1> QED
  BY <1>1, <1>2, DrainFrame DEF AtWork

(* A worker goes through its loop; unless a fatal job runs, it leaves the   *)
(* loop with the terminator only.                                           *)
LEMMA LoopDrain ==
  ASSUME IInv, MarkInv, DrainInv, [Next]_vars,
         NEW w \in Workers, Callback(w) \/ TaskDone(w) \/ WorkerEnd(w)
  PROVE  DrainInv'
<1>1. /\ TypeOK /\ UNCHANGED <<queue, accepted, lock, thread, pc, mainpc, mark>>
      /\ \A v \in Workers \ {w} : wstate'[v] = wstate[v]
  BY DEF Callback, TaskDone, WorkerEnd, WorkerGoto, selfVars, queueVars, callVars, exitVars,
         logVars, IInv, TypeOK
<1>2. \A c \in Threads \cup {Main} : Waiting(c)' => Waiting(c) /\ mark'[c] = mark[c]
  BY <1>1 DEF Waiting
<1>3. ASSUME ~Damaged'
      PROVE  \/ wstate[w] = "call" /\ wstate'[w] = "done"
             \/ wstate[w] = "done" /\ wstate'[w] = "get"
             \/ wstate[w] \in {"break", "ending"} /\ wstate'[w] \in {"ending", "dead"}
  <2>1. \A j \in Fatal : ~Ran(j) /\ ~Ran(j)'
    <3>1. ~Damaged
      BY <1>3, Lasting
    <3>2. TypeOK'
      BY NextIInv DEF IInv
    <3>3. DOMAIN finished' = 1..Len(finished')
      BY <3>2, LenProperties DEF TypeOK
    <3> QED
      BY <1>1, <1>3, <3>1, <3>3, RanIsFinished DEF Damaged, Ran, ToSet
  <2>2. wstate[w] # "die"
    BY <2>1 DEF MarkInv
  <2>3. Callback(w) => hand[w] \notin Fatal
    BY <2>1, CallbackRan
  <2> QED
    BY <1>1, <2>2, <2>3 DEF Callback, TaskDone, WorkerEnd, WorkerGoto, TypeOK
<1>4. ~Damaged' => /\ \A v \in Workers : wstate'[v] = "break" => wstate[v] = "break"
                   /\ thread # None /\ AtWork => AtWork'
                   /\ thread # None /\ wstate[thread] \in {"break", "ending", "dead"} =>
                         wstate'[thread] \in {"break", "ending", "dead"}
  <2> SUFFICES ASSUME ~Damaged'
               PROVE  /\ \A v \in Workers : wstate'[v] = "break" => wstate[v] = "break"
                      /\ thread # None /\ AtWork => AtWork'
                      /\ thread # None /\ wstate[thread] \in {"break", "ending", "dead"} =>
                            wstate'[thread] \in {"break", "ending", "dead"}
    OBVIOUS
  <2>1. \/ wstate[w] = "call" /\ wstate'[w] = "done"
        \/ wstate[w] = "done" /\ wstate'[w] = "get"
        \/ wstate[w] \in {"break", "ending"} /\ wstate'[w] \in {"ending", "dead"}
    BY <1>3
  <2>2. thread # None => thread \in Workers
    BY <1>1 DEF TypeOK
  <2> QED
    BY <1>1, <2>1, <2>2 DEF AtWork
<1> QED
  BY <1>1, <1>2, <1>4, DrainFrame

(* start() keeps DrainInv: the new thread finds what the old one left. *)
LEMMA StartDrain ==
  ASSUME IInv, DrainInv, [Next]_vars, NEW t \in Threads, NEW w \in Workers,
         StartCreate(t, w) \/ StartFail(t, w)
  PROVE  DrainInv'
<1> SUFFICES ASSUME ~gaveUp', ~Damaged' PROVE DrainInv'
  BY DEF DrainInv
<1>1. ~gaveUp /\ ~Damaged /\ TypeOK
  BY Lasting DEF IInv
<1>2. ~StartFail(t, w)
  BY <1>1 DEF StartFail, WorkerGoto, TypeOK, Damaged
<1>3. /\ lock = None /\ UNCHANGED <<lock, queue, mainpc>> /\ ThreadNeeded
      /\ thread' = w /\ wstate[w] = "unborn" /\ wstate'[w] = "get"
      /\ \A v \in Workers \ {w} : wstate'[v] = wstate[v]
      /\ pc'[t] = "put" /\ \A u \in Threads \ {t} : pc'[u] = pc[u]
  BY <1>1, <1>2 DEF StartCreate, Start, NewThread, WorkerGoto, Goto, queueVars, TypeOK
<1>4. NoTerminator' /\ \A v \in Workers : wstate'[v] # "break"
  BY <1>1, <1>3 DEF DrainInv, NoTerminator
<1>5. AtWork'
  BY <1>3 DEF AtWork
<1>6. \A c \in Threads \cup {Main} : ~Waiting(c)'
  <2>1. \A c \in Threads \cup {Main} : ~Waiting(c)
    BY <1>3, OneWaits, DistinctAssumption
  <2> QED
    BY <1>3, <2>1, DistinctAssumption DEF Waiting, Joins
<1> QED
  BY <1>4, <1>5, <1>6 DEF DrainInv

(* A job put behind the terminator is none of those its sender waits for. *)
LEMMA QueuePutDrain ==
  ASSUME IInv, OrderInv, MarkInv, DrainInv, [Next]_vars, NEW t \in Threads, QueuePut(t)
  PROVE  DrainInv'
<1> DEFINE j == job[t]
<1> SUFFICES ASSUME ~gaveUp', ~Damaged' PROVE DrainInv'
  BY DEF DrainInv
<1>1. ~gaveUp /\ ~Damaged /\ TypeOK /\ j \in Jobs /\ j # Terminator
  BY Lasting, DistinctAssumption DEF IInv, JobInv, QueuePut
<1>2. /\ UNCHANGED <<lock, thread, wstate, mainpc, mark, finished>>
      /\ queue' = Append(queue, j) /\ accepted' = Append(accepted, j)
      /\ pc[t] = "put" /\ pc'[t] = "idle" /\ \A u \in Threads \ {t} : pc'[u] = pc[u]
  BY <1>1 DEF QueuePut, Enqueue, Goto, selfVars, workerVars, exitVars, TypeOK
<1>3. /\ \A k \in 1..Len(queue) : k \in 1..Len(queue') /\ queue'[k] = queue[k]
      /\ queue'[Len(queue) + 1] = j
      /\ \A k \in 1..Len(queue') : k \notin 1..Len(queue) => k = Len(queue) + 1
  BY <1>1, <1>2, PutQueued
<1>4. /\ \A a \in 1..Len(accepted) : accepted'[a] = accepted[a] /\ accepted[a] # j
      /\ \A c \in Threads \cup {Main} : 1..mark[c] \subseteq 1..Len(accepted)
  <2>1. accepted \in Seq(Jobs) /\ Len(accepted) \in Nat
    BY <1>1, Lengths DEF TypeOK
  <2>2. \A a \in 1..Len(accepted) : accepted'[a] = accepted[a]
    BY <1>1, <1>2, <2>1, AppendProperties
  <2>3. \A a \in 1..Len(accepted) : accepted[a] # j
    BY <1>2 DEF OrderInv, QueueingInv, Queueing
  <2>4. \A c \in Threads \cup {Main} : mark[c] \in Nat /\ mark[c] <= Len(accepted)
    BY <1>1 DEF MarkInv, TypeOK
  <2> QED
    BY <2>1, <2>2, <2>3, <2>4
<1> HIDE DEF j
<1>5. NoTerminator => NoTerminator'
  BY <1>1, <1>3 DEF NoTerminator
<1>6. AtWork' <=> AtWork
  BY <1>2 DEF AtWork
<1>7. \A i : Ran(i)' <=> Ran(i)
  BY <1>2 DEF Ran
<1>8. lock' = None =>
         /\ NoTerminator' /\ \A w \in Workers : wstate'[w] # "break"
         /\ thread' # None => AtWork'
  BY <1>1, <1>2, <1>5, <1>6 DEF DrainInv
<1>9. ASSUME NEW c \in Threads \cup {Main}, Waiting(c)'
      PROVE  \/ AtWork' /\ \E k \in 1..Len(queue') : Ahead(c, k)'
             \/ /\ wstate'[thread'] \in {"break", "ending", "dead"} /\ NoTerminator'
                /\ \A a \in 1..mark'[c] : Ran(accepted[a])'
  <2>1. Waiting(c)
    BY <1>2, <1>9, DistinctAssumption DEF Waiting, Joins
  <2>2. ASSUME NEW k \in 1..Len(queue), Ahead(c, k) PROVE Ahead(c, k)'
    <3>1. queue'[k] = Terminator
      BY <1>3, <2>2 DEF Ahead
    <3>2. \A l \in 1..Len(queue') : queue'[l] = Terminator => l = k
      BY <1>1, <1>3, <2>2 DEF Ahead
    <3>3. \A a \in 1..mark[c] : \A l \in 1..Len(queue') : queue'[l] = accepted'[a] => l < k
      BY <1>3, <1>4, <2>2 DEF Ahead
    <3> QED
      BY <1>2, <3>1, <3>2, <3>3 DEF Ahead
  <2>3. CASE AtWork /\ \E k \in 1..Len(queue) : Ahead(c, k)
    BY <1>3, <1>6, <2>2, <2>3
  <2>4. CASE /\ wstate[thread] \in {"break", "ending", "dead"} /\ NoTerminator
             /\ \A a \in 1..mark[c] : Ran(accepted[a])
    BY <1>2, <1>4, <1>5, <1>7, <2>4
  <2> QED
    BY <1>1, <2>1, <2>3, <2>4 DEF DrainInv
<1> QED
  BY <1>8, <1>9 DEF DrainInv

(* A terminator is put behind all jobs accepted so far, by one who waits. *)
LEMMA PutDrain ==
  ASSUME IInv, DrainInv, [Next]_vars, NEW c \in Threads \cup {Main}, lock = None, thread # None,
         PutTerminator, lock' = c, UNCHANGED <<thread, wstate, accepted>>,
         mark'[c] \in Nat, mark'[c] <= Len(accepted),
         \A d \in Threads \cup {Main} : Waiting(d)' => d = c
  PROVE  DrainInv'
<1> SUFFICES ASSUME ~gaveUp', ~Damaged' PROVE DrainInv'
  BY DEF DrainInv
<1>1. ~gaveUp /\ ~Damaged /\ TypeOK /\ lock' # None
  BY Lasting, DistinctAssumption DEF IInv
<1>2. AtWork' /\ NoTerminator
  BY <1>1 DEF DrainInv, AtWork
<1>3. /\ \A k \in 1..Len(queue) : queue'[k] = queue[k]
      /\ Len(queue) + 1 \in 1..Len(queue') /\ queue'[Len(queue) + 1] = Terminator
      /\ \A k \in 1..Len(queue') : k \notin 1..Len(queue) => k = Len(queue) + 1
  BY <1>1, PutQueued DEF PutTerminator, TerminatorLast, Enqueue
<1>4. Len(queue) \in Nat /\ \A a \in 1..mark'[c] : accepted[a] # Terminator
  BY <1>1, Lengths, DistinctAssumption
<1>5. PICK k : k = Len(queue) + 1
  OBVIOUS
<1>6. Ahead(c, k)'
  <2>1. queue'[k] = Terminator /\ \A l \in 1..Len(queue') : queue'[l] = Terminator => l = k
    BY <1>2, <1>3, <1>5 DEF NoTerminator
  <2>2. \A a \in 1..mark'[c] : \A l \in 1..Len(queue') : queue'[l] = accepted[a] => l < k
    BY <1>3, <1>4, <1>5
  <2> QED
    BY <2>1, <2>2 DEF Ahead
<1> QED
  BY <1>1, <1>2, <1>3, <1>5, <1>6 DEF DrainInv

(* stop() puts its terminator behind all that was accepted. *)
LEMMA StopPutDrain ==
  ASSUME IInv, DrainInv, [Next]_vars,
         NEW t \in Threads, NEW kind \in StopKinds, StopPut(t, kind)
  PROVE  DrainInv'
<1>1. /\ TypeOK /\ lock = None /\ thread # None /\ PutTerminator /\ lock' = t
      /\ UNCHANGED <<thread, wstate, accepted, mainpc>>
      /\ mark'[t] = Len(accepted) /\ \A u \in Threads \ {t} : pc'[u] = pc[u]
  BY DEF StopPut, StopCall, Goto, workerVars, exitVars, IInv, TypeOK
<1>2. mark'[t] \in Nat /\ mark'[t] <= Len(accepted)
  BY <1>1, Lengths
<1>3. ASSUME NEW d \in Threads \cup {Main}, Waiting(d)', d # t PROVE FALSE
  <2>1. Waiting(d)
    BY <1>1, <1>3, DistinctAssumption DEF Waiting
  <2> QED
    BY <1>1, <2>1, OneWaits, DistinctAssumption
<1> QED
  BY <1>1, <1>2, <1>3, PutDrain

(* So does the handler at exit. *)
LEMMA HandlerPutDrain ==
  ASSUME IInv, MarkInv, DrainInv, [Next]_vars, HandlerPut
  PROVE  DrainInv'
<1>1. /\ TypeOK /\ lock = None /\ thread # None /\ PutTerminator /\ lock' = Main
      /\ UNCHANGED <<thread, wstate, accepted, pc, mark>>
  BY DEF HandlerPut, Handler, IsAlive, workerVars, callVars, logVars, IInv
<1>2. mark'[Main] \in Nat /\ mark'[Main] <= Len(accepted)
  BY <1>1 DEF MarkInv, TypeOK
<1>3. ASSUME NEW d \in Threads \cup {Main}, Waiting(d)', d # Main PROVE FALSE
  <2>1. Waiting(d)
    BY <1>1, <1>3 DEF Waiting
  <2> QED
    BY <1>1, <2>1, OneWaits, DistinctAssumption
<1> QED
  BY <1>1, <1>2, <1>3, PutDrain

(* The worker is let go: it has ended, or has nothing left to take. *)
LEMMA LetGo ==
  ASSUME IInv, [Next]_vars, lock' = None, thread' = None, UNCHANGED wstate,
         ~gaveUp' /\ ~Damaged' =>
             NoTerminator' /\ \A w \in Workers : wstate[w] # "break",
         \A d \in Threads \cup {Main} : ~Waiting(d)'
  PROVE  DrainInv'
  BY DEF DrainInv

(* stop() keeps DrainInv when its join is over. *)
LEMMA StopJoinedDrain ==
  ASSUME IInv, DrainInv, [Next]_vars, NEW t \in Threads, StopJoined(t) \/ StopRaises(t)
  PROVE  DrainInv'
<1> SUFFICES ASSUME ~gaveUp', ~Damaged' PROVE DrainInv'
  BY DEF DrainInv
<1>1. ~gaveUp /\ ~Damaged /\ TypeOK
  BY Lasting DEF IInv
<1>2. Waiting(t) /\ lock = t /\ thread \in Workers
  <2>1. Waiting(t)
    BY DistinctAssumption DEF Waiting, StopJoined, StopRaises
  <2> QED
    BY <1>1, <2>1, OneWaits DEF TypeOK
<1>3. ~StopRaises(t)
  BY <1>1, <1>2 DEF StopRaises, Damaged
<1>4. /\ wstate[thread] = "dead" /\ UNCHANGED <<queue, wstate, mainpc>>
      /\ thread' = None /\ lock' = None
      /\ pc'[t] = "idle" /\ \A u \in Threads \ {t} : pc'[u] = pc[u]
  BY <1>1, <1>3 DEF StopJoined, Ended, Goto, queueVars, workerVars, exitVars, TypeOK
<1>5. NoTerminator'
  BY <1>1, <1>2, <1>4 DEF DrainInv, AtWork, NoTerminator
<1>6. \A w \in Workers : wstate[w] # "break"
  BY <1>1, <1>4 DEF IInv, OneConsumer, Consuming
<1>7. ASSUME NEW d \in Threads \cup {Main}, Waiting(d)' PROVE FALSE
  <2>1. d # t /\ Waiting(d)
    BY <1>4, <1>7, DistinctAssumption DEF Waiting, Joins
  <2> QED
    BY <1>2, <2>1, OneWaits
<1> QED
  BY <1>4, <1>5, <1>6, <1>7, LetGo

(* So does the handler at exit when its wait is. *)
LEMMA HandlerJoinedDrain ==
  ASSUME IInv, DrainInv, [Next]_vars, HandlerJoined \/ HandlerInterrupted
  PROVE  DrainInv'
<1> SUFFICES ASSUME ~gaveUp', ~Damaged' PROVE DrainInv'
  BY DEF DrainInv
<1>1. TypeOK /\ HandlerJoined /\ unfinished = 0
  BY DEF HandlerJoined, HandlerInterrupted, TasksFinished, IInv
<1>2. /\ UNCHANGED <<queue, wstate, pc>> /\ thread' = None /\ lock' = None
      /\ mainpc = "join" /\ mainpc' = "handlers"
  BY <1>1 DEF HandlerJoined, queueVars, workerVars, callVars
<1>3. Len(queue) = 0 /\ Cardinality({v \in Workers : hand[v] # None}) = 0
  <2>1. Len(queue) \in Nat /\ Cardinality({v \in Workers : hand[v] # None}) \in Nat
    BY <1>1, WorkersFinite, FS_Subset, FS_CardinalityType, Lengths
  <2> QED
    BY <1>1, <2>1 DEF IInv, TaskAccounting
<1>4. \A w \in Workers : hand[w] = None
  <2>1. IsFiniteSet({v \in Workers : hand[v] # None})
    BY WorkersFinite, FS_Subset
  <2> QED
    BY <1>3, <2>1, FS_EmptySet
<1>5. NoTerminator' /\ \A w \in Workers : wstate[w] # "break"
  BY <1>2, <1>3, <1>4, DistinctAssumption DEF NoTerminator, IInv, HandInv
<1>6. ASSUME NEW d \in Threads \cup {Main}, Waiting(d)' PROVE FALSE
  <2>1. d # Main /\ Waiting(d) /\ Waiting(Main)
    BY <1>2, <1>6 DEF Waiting
  <2> QED
    BY <2>1, OneWaits
<1> QED
  BY <1>2, <1>5, <1>6, LetGo

(* When the worker takes the terminator, what its sender waits for has run: *)
(* nothing of it is left in the queue, and nobody else has any.             *)
LEMMA GetDrain ==
  ASSUME IInv, OrderInv, MarkInv, DrainInv, [Next]_vars, NEW w \in Workers, Get(w)
  PROVE  DrainInv'
<1>r. PICK r : r = Head(queue)
  OBVIOUS
<1> SUFFICES ASSUME ~gaveUp', ~Damaged' PROVE DrainInv'
  BY DEF DrainInv
<1>1. ~gaveUp /\ ~Damaged /\ TypeOK
  BY Lasting DEF IInv
<1>2. /\ wstate[w] = "get" /\ queue # <<>> /\ queue' = Tail(queue)
      /\ wstate'[w] = (IF r = Terminator THEN "break" ELSE "call")
      /\ \A v \in Workers \ {w} : wstate'[v] = wstate[v]
      /\ UNCHANGED <<accepted, finished, lock, thread, pc, mainpc, mark>>
  BY <1>1, <1>r DEF TypeOK, Get, WorkerGoto, selfVars, callVars, exitVars, logVars
<1>3. /\ r = queue[1] /\ 1 \in 1..Len(queue)
      /\ \A k \in 1..Len(queue') : k + 1 \in 1..Len(queue) /\ queue'[k] = queue[k + 1]
      /\ \A k \in 1..Len(queue) : k # 1 => k - 1 \in 1..Len(queue') /\ queue'[k - 1] = queue[k]
  BY <1>1, <1>2, <1>r, GetQueued
<1>4. w = thread /\ \A v \in Workers : wstate[v] # "call" /\ wstate[v] # "break"
  BY <1>1, <1>2 DEF IInv, OneConsumer, Consuming
<1>5. ASSUME lock' = None
      PROVE  /\ NoTerminator' /\ \A v \in Workers : wstate'[v] # "break"
             /\ thread' # None => AtWork'
  <2>1. NoTerminator
    BY <1>1, <1>2, <1>5 DEF DrainInv
  <2>2. NoTerminator' /\ r # Terminator
    BY <1>3, <2>1 DEF NoTerminator
  <2> QED
    BY <1>2, <1>4, <2>2 DEF AtWork
<1>6. ASSUME NEW c \in Threads \cup {Main}, Waiting(c)'
      PROVE  \/ AtWork' /\ \E k \in 1..Len(queue') : Ahead(c, k)'
             \/ /\ wstate'[thread'] \in {"break", "ending", "dead"} /\ NoTerminator'
                /\ \A a \in 1..mark'[c] : Ran(accepted[a])'
  <2>1. Waiting(c)
    BY <1>2, <1>6 DEF Waiting
  <2>2. PICK k \in 1..Len(queue) : Ahead(c, k)
    BY <1>1, <1>2, <1>4, <2>1 DEF DrainInv
  <2>3. CASE k = 1
    <3>1. r = Terminator /\ wstate'[thread'] = "break"
      BY <1>2, <1>3, <1>4, <2>2, <2>3 DEF Ahead
    <3>2. NoTerminator'
      <4> SUFFICES ASSUME NEW l \in 1..Len(queue'), queue'[l] = Terminator PROVE FALSE
        BY DEF NoTerminator
      <4>1. l + 1 \in 1..Len(queue) /\ queue[l + 1] = Terminator
        BY <1>3
      <4>2. l + 1 = 1
        BY <2>2, <2>3, <4>1 DEF Ahead
      <4> QED
        BY <4>2
    <3>3. ASSUME NEW a \in 1..mark[c] PROVE Ran(accepted[a])
      <4>1. a \in 1..Len(accepted)
        BY <1>1, Lengths DEF MarkInv, TypeOK
      <4>2. ~Queued(accepted[a])
        BY <2>2, <2>3 DEF Queued, Ahead
      <4> QED
        BY <1>4, <4>1, <4>2 DEF OrderInv, PlaceInv
    <3>4. \A a \in 1..mark'[c] : Ran(accepted[a])'
      BY <1>2, <3>3, Lasting
    <3> QED
      BY <3>1, <3>2, <3>4
  <2>4. CASE k # 1
    <3>1. PICK m \in 1..Len(queue') : m = k - 1
      BY <1>3, <2>4
    <3>2. r # Terminator
      BY <1>3, <2>2, <2>4 DEF Ahead
    <3>3. AtWork'
      BY <1>2, <1>4, <3>2 DEF AtWork
    <3>4. queue'[m] = Terminator
      BY <1>3, <2>2, <2>4, <3>1 DEF Ahead
    <3>5. ASSUME NEW l \in 1..Len(queue'), queue'[l] = Terminator PROVE l = m
      <4>1. l + 1 \in 1..Len(queue) /\ queue[l + 1] = Terminator
        BY <1>3, <3>5
      <4>2. l + 1 = k
        BY <2>2, <4>1 DEF Ahead
      <4> QED
        BY <3>1, <4>2
    <3>6. \A a \in 1..mark[c] : \A l \in 1..Len(queue') : queue'[l] = accepted[a] => l < m
      BY <1>3, <2>2, <3>1 DEF Ahead
    <3>7. Ahead(c, m)'
      BY <1>2, <3>4, <3>5, <3>6 DEF Ahead
    <3> QED
      BY <3>3, <3>7
  <2> QED
    BY <2>3, <2>4
<1> QED
  BY <1>5, <1>6 DEF DrainInv

(* Every step keeps DrainInv. *)
LEMMA NextDrain ==
  ASSUME IInv, OrderInv, MarkInv, DrainInv, [Next]_vars
  PROVE  DrainInv'
<1>1. ASSUME NEW t \in Threads, NEW j \in Jobs, QueueCall(t, j) PROVE DrainInv'
  BY <1>1, IdleDrain
<1>2. ASSUME NEW t \in Threads, QueueStep(t) PROVE DrainInv'
  BY <1>2, IdleDrain, StartDrain, QueuePutDrain DEF QueueStep
<1>3. ASSUME NEW t \in Threads,
             StopNothing(t) \/ \E kind \in StopKinds : StopPut(t, kind)
      PROVE  DrainInv'
  BY <1>3, IdleDrain, StopPutDrain
<1>4. ASSUME NEW t \in Threads, StopStep(t) PROVE DrainInv'
  BY <1>4, StopJoinedDrain DEF StopStep
<1>5. ASSUME NEW w \in Workers, WorkerStep(w) PROVE DrainInv'
  BY <1>5, GetDrain, LoopDrain DEF WorkerStep
<1>6. ASSUME BeginExit \/ MainStep \/ HandlerInterrupted PROVE DrainInv'
  BY <1>6, IdleDrain, HandlerPutDrain, HandlerJoinedDrain DEF MainStep
<1>7. ASSUME Exited \/ UNCHANGED vars PROVE DrainInv'
  BY <1>7, IdleDrain DEF Exited
<1> QED
  BY <1>1, <1>2, <1>3, <1>4, <1>5, <1>6, <1>7 DEF Next

-----------------------------------------------------------------------------
(* The exit. *)

(* The steps in which nobody stops the worker and the exit stands still. *)
LEMMA ExitFrame ==
  ASSUME IInv, HolderInv, DrainInv, DrainInv', ExitInv, [Next]_vars,
         UNCHANGED <<mainpc, stops, lock>>, ownPid => ownPid',
         mark'[Main] = mark[Main], \A a \in 1..mark[Main] : accepted'[a] = accepted[a],
         registered \in Nat, registered' \in {registered, registered + 1},
         \A t \in Threads : pc'[t] \in Joins => pc[t] \in Joins,
         thread # None => thread' # None
  PROVE  ExitInv'
<1>1. \A t \in Threads : pc'[t] \in Joins => stops' > 0
  BY DEF ExitInv
<1>2. ASSUME stops' = 0, ~gaveUp', ~Damaged'
      PROVE  /\ mainpc' \in {"run", "handlers"} =>
                    \/ registered' > 0 /\ ownPid' /\ thread' # None /\ AtWork'
                    \/ mainpc' = "handlers" /\ \A a \in 1..mark'[Main] : Ran(accepted[a])'
             /\ mainpc' = "exited" => \A a \in 1..mark'[Main] : Ran(accepted[a])'
  <2>1. ~gaveUp /\ ~Damaged /\ \A j : Ran(j) => Ran(j)'
    BY <1>2, Lasting
  <2>2. (\A a \in 1..mark[Main] : Ran(accepted[a])) => \A a \in 1..mark'[Main] : Ran(accepted[a])'
    BY <2>1
  <2>3. mainpc \in {"run", "handlers"} => lock' = None
    BY <1>2 DEF HolderInv, Waiting, ExitInv, IInv, TypeOK
  <2>4. lock' = None /\ thread' # None => AtWork'
    BY <1>2 DEF DrainInv
  <2>5. registered > 0 => registered' > 0
    OBVIOUS
  <2> QED
    BY <1>2, <2>1, <2>2, <2>3, <2>4, <2>5 DEF ExitInv
<1> QED
  BY <1>1, <1>2 DEF ExitInv

(* Every step keeps ExitInv. *)
LEMMA NextExit ==
  ASSUME IInv, OrderInv, HolderInv, MarkInv, DrainInv, ExitInv, [Next]_vars
  PROVE  ExitInv'
<1>1. /\ TypeOK /\ DrainInv' /\ registered \in Nat
      /\ Len(accepted) \in Nat /\ mark[Main] \in Nat /\ mark[Main] <= Len(accepted)
  BY NextDrain, Lengths DEF IInv, TypeOK, MarkInv
<1>2. ASSUME NEW t \in Threads, (\E j \in Jobs : QueueCall(t, j)) \/ QueueStep(t) PROVE ExitInv'
  <2>1. /\ UNCHANGED <<mainpc, stops, lock, mark>> /\ (ownPid => ownPid')
        /\ registered' \in {registered, registered + 1}
        /\ thread # None => thread' # None
    BY <1>1, <1>2, DistinctAssumption
    DEF QueueCall, QueueStep, ReadAlive, ReadAliveRaises, StartFound, StartCreate, StartFail, Start,
        NewThread, QueuePut, selfVars, exitVars, logVars, TypeOK
  <2>2. \A u \in Threads : pc'[u] \in Joins => pc[u] \in Joins
    BY <1>1, <1>2
    DEF QueueCall, QueueStep, ReadAlive, ReadAliveRaises, StartFound, StartCreate, StartFail,
        QueuePut, QueueRaises, Goto, Joins, TypeOK
  <2>3. \A a \in 1..mark[Main] : accepted'[a] = accepted[a]
    <3>1. CASE QueuePut(t)
      <4>1. accepted \in Seq(Jobs) /\ job[t] \in Jobs /\ accepted' = Append(accepted, job[t])
        BY <3>1 DEF IInv, TypeOK, JobInv, QueuePut
      <4>2. \A a \in 1..Len(accepted) : accepted'[a] = accepted[a]
        BY <4>1, AppendProperties
      <4> QED
        BY <1>1, <4>2
    <3>2. CASE ~QueuePut(t)
      BY <1>2, <3>2 DEF QueueCall, QueueStep, ReadAlive, ReadAliveRaises, StartFound, StartCreate,
                        StartFail, Start, logVars
    <3> QED
      BY <3>1, <3>2
  <2> QED
    BY <1>1, <2>1, <2>2, <2>3, ExitFrame
<1>3. ASSUME NEW w \in Workers, WorkerStep(w) PROVE ExitInv'
  <2>1. UNCHANGED <<mainpc, stops, lock, mark, ownPid, registered, thread, accepted, pc>>
    BY <1>3 DEF WorkerStep, Get, Callback, TaskDone, WorkerEnd, selfVars, callVars, exitVars, logVars
  <2> QED
    BY <1>1, <2>1, ExitFrame
<1>4. ASSUME NEW t \in Threads,
             StopNothing(t) \/ (\E kind \in StopKinds : StopPut(t, kind)) \/ StopStep(t)
      PROVE  ExitInv'
  <2>1. stops' > 0
    BY <1>1, <1>4 DEF StopNothing, StopPut, StopCall, StopStep, StopJoined, StopRaises, logVars,
                      ExitInv, TypeOK
  <2> QED
    BY <2>1 DEF ExitInv
<1>5. ASSUME BeginExit \/ MainStep \/ HandlerInterrupted PROVE ExitInv'
  <2> SUFFICES ASSUME stops' = 0, ~gaveUp', ~Damaged'
               PROVE  /\ mainpc' \in {"run", "handlers"} =>
                             \/ registered' > 0 /\ ownPid' /\ thread' # None /\ AtWork'
                             \/ mainpc' = "handlers" /\ \A a \in 1..mark'[Main] : Ran(accepted[a])'
                      /\ mainpc' = "exited" => \A a \in 1..mark'[Main] : Ran(accepted[a])'
    <3>1. UNCHANGED <<pc, stops>>
      BY <1>5 DEF BeginExit, MainStep, HandlerReturns, Handler, HandlerPut, HandlerJoined,
                  HandlerInterrupted, Exit, callVars, logVars
    <3> QED
      BY <3>1 DEF ExitInv
  <2>1. /\ UNCHANGED <<accepted, finished, wstate, ownPid, stops>>
        /\ ~gaveUp /\ ~Damaged /\ \A j : Ran(j)' <=> Ran(j)
    BY <1>5, Lasting
    DEF BeginExit, MainStep, HandlerReturns, Handler, HandlerPut, HandlerJoined,
        HandlerInterrupted, Exit, selfVars, workerVars, logVars, Ran
  <2>2. CASE BeginExit
    BY <2>1, <2>2 DEF BeginExit, ExitInv, AtWork, selfVars
  <2>3. CASE HandlerReturns
    <3>1. UNCHANGED <<mainpc, mark>> /\ mainpc = "handlers" /\ ~IsAlive
      BY <2>3 DEF HandlerReturns, Handler, logVars
    <3>2. \A a \in 1..mark[Main] : Ran(accepted[a])
      BY <2>1, <3>1 DEF ExitInv, IsAlive, AtWork, Running
    <3> QED
      BY <2>1, <3>1, <3>2
  <2>4. CASE HandlerPut
    BY <2>4 DEF HandlerPut
  <2>5. CASE HandlerJoined
    <3>1. unfinished = 0 /\ UNCHANGED mark /\ mainpc' = "handlers"
      BY <2>5 DEF HandlerJoined, TasksFinished
    <3>2. Len(queue) = 0 /\ Cardinality({v \in Workers : hand[v] # None}) = 0
      <4>1. Len(queue) \in Nat /\ Cardinality({v \in Workers : hand[v] # None}) \in Nat
        BY <1>1, WorkersFinite, FS_Subset, FS_CardinalityType, Lengths
      <4> QED
        BY <3>1, <4>1 DEF IInv, TaskAccounting
    <3>3. \A w \in Workers : hand[w] = None
      <4>1. IsFiniteSet({v \in Workers : hand[v] # None})
        BY WorkersFinite, FS_Subset
      <4> QED
        BY <3>2, <4>1, FS_EmptySet
    <3>4. \A w \in Workers : wstate[w] # "call"
      BY <3>3, DistinctAssumption DEF IInv, HandInv
    <3>5. \A a \in 1..Len(accepted) : Ran(accepted[a])
      BY <3>2, <3>4 DEF OrderInv, PlaceInv, Queued
    <3>6. \A a \in 1..mark[Main] : Ran(accepted[a])
      BY <1>1, <3>5
    <3> QED
      BY <2>1, <3>1, <3>6
  <2>6. CASE HandlerInterrupted
    BY <2>6 DEF HandlerInterrupted
  <2>7. CASE Exit
    <3>1. registered = 0 /\ mainpc = "handlers" /\ mainpc' = "exited" /\ UNCHANGED mark
      BY <2>7 DEF Exit, logVars
    <3>2. \A a \in 1..mark[Main] : Ran(accepted[a])
      BY <2>1, <3>1 DEF ExitInv
    <3> QED
      BY <2>1, <3>1, <3>2
  <2> QED
    BY <1>5, <2>2, <2>3, <2>4, <2>5, <2>6, <2>7 DEF MainStep
<1>6. ASSUME Exited \/ UNCHANGED vars PROVE ExitInv'
  <2>1. UNCHANGED <<mainpc, stops, lock, mark, ownPid, registered, thread, accepted, pc>>
    BY <1>6 DEF Exited, vars, selfVars, callVars, exitVars, logVars
  <2> QED
    BY <1>1, <2>1, ExitFrame
<1> QED
  BY <1>2, <1>3, <1>4, <1>5, <1>6 DEF Next

-----------------------------------------------------------------------------

(* All invariants together hold of every behaviour. *)
LEMMA PInvariance == Spec => []PInv
<1>1. Init => PInv
  BY InitIInv, InitOrder, InitDrain DEF PInv
<1>2. PInv /\ [Next]_vars => PInv'
  BY NextIInv, NextOrder, HolderStep, MarkStep, NextDrain, NextExit DEF PInv
<1> QED
  BY <1>1, <1>2, PTL DEF Spec

-----------------------------------------------------------------------------
(* Every step of AsyncWorker is one of JobQueue, or none. *)

Closed == mainpc # "run" \/ stops > 0 \/ Damaged

(* Putting a job is accepting it. *)
LEMMA AcceptStep ==
  ASSUME PInv, NEW t \in Threads, QueuePut(t)
  PROVE  Promised!Accept(job[t])
<1>1. job[t] \notin ToSet(accepted)
  <2>1. DOMAIN accepted = 1..Len(accepted)
    BY LenProperties DEF PInv, IInv, TypeOK
  <2> QED
    BY <2>1 DEF PInv, OrderInv, QueueingInv, Queueing, QueuePut, ToSet
<1>2. UNCHANGED <<finished, mainpc, stops, wstate, gaveUp>> /\ accepted' = Append(accepted, job[t])
  BY DEF QueuePut, workerVars, exitVars
<1>3. Damaged' = Damaged
  BY <1>2 DEF Damaged
<1> QED
  BY <1>1, <1>2, <1>3 DEF Promised!Accept, Promised!ToSet, ToSet

(* Running a job is finishing the first of those accepted. *)
LEMMA FinishStep ==
  ASSUME PInv, [Next]_vars, NEW w \in Workers, Callback(w)
  PROVE  Promised!Finish(hand[w])
<1> DEFINE j == hand[w]
<1>1. /\ TypeOK /\ wstate[w] = "call" /\ finished' = Append(finished, j)
      /\ UNCHANGED <<accepted, gaveUp, mainpc, stops>>
  BY DEF PInv, IInv, Callback, exitVars
<1>2. PICK a \in 1..Len(accepted) : j = accepted[a]
  BY <1>1 DEF PInv, OrderInv, HeldInv
<1>3. j \notin ToSet(finished)
  BY <1>1, RanIsFinished DEF PInv, OrderInv, HeldInv
<1>4. DOMAIN accepted = 1..Len(accepted) /\ Len(finished) \in Nat /\ Len(accepted) \in Nat
  BY <1>1, LenProperties DEF TypeOK
<1>5. ~gaveUp => Len(finished) + 1 \in 1..Len(accepted) /\ j = accepted[Len(finished) + 1]
  BY <1>1, <1>4 DEF PInv, OrderInv, PrefixInv
<1>6. Promised!MayFinish(j)
  <2>1. CASE gaveUp
    BY <1>2, <1>3, <1>4, <2>1 DEF Promised!MayFinish, Promised!ToSet, ToSet
  <2>2. CASE ~gaveUp
    BY <1>3, <1>4, <1>5, <2>2 DEF Promised!MayFinish, Promised!ToSet, ToSet
  <2> QED
    BY <2>1, <2>2
<1>7. Closed' \in {Closed, TRUE}
  <2>1. Damaged => Damaged'
    BY Lasting DEF PInv
  <2>2. Closed \in BOOLEAN /\ Closed' \in BOOLEAN
    BY DEF Closed
  <2>3. Closed => Closed'
    BY <1>1, <2>1 DEF Closed
  <2> QED
    BY <2>2, <2>3
<1> QED
  BY <1>1, <1>6, <1>7 DEF Promised!Finish, Closed

(* No other step moves a job; what it may do is ask the worker to stop, or, *)
(* when that has been asked, give up waiting for it.                        *)
LEMMA OtherStep ==
  ASSUME PInv, [Next]_vars,
         ~ \E t \in Threads : QueuePut(t), ~ \E w \in Workers : Callback(w)
  PROVE  /\ UNCHANGED <<accepted, finished>>
         /\ Closed => Closed'
         /\ gaveUp' = gaveUp \/ (Closed /\ gaveUp' = TRUE)
<1>1. TypeOK /\ \A t \in Threads : pc[t] \in Joins => stops > 0
  BY DEF PInv, IInv, ExitInv
<1>2. UNCHANGED <<accepted, finished>>
  BY DEF Next, QueueCall, StopNothing, StopPut, StopCall, QueueStep, ReadAlive, ReadAliveRaises,
         StartFound, StartCreate, StartFail, Start, StopStep, StopJoined, StopRaises,
         WorkerStep, Get, TaskDone, WorkerEnd, BeginExit, MainStep, HandlerReturns, Handler,
         HandlerPut, HandlerJoined, HandlerInterrupted, Exit, Exited, vars, logVars
<1>3. stops > 0 => stops' > 0
  BY <1>1 DEF Next, QueueCall, StopNothing, StopPut, StopCall, QueueStep, ReadAlive, ReadAliveRaises,
         StartFound, StartCreate, StartFail, Start, StopStep, StopJoined, StopRaises,
         WorkerStep, Get, TaskDone, WorkerEnd, BeginExit, MainStep, HandlerReturns, Handler,
         HandlerPut, HandlerJoined, HandlerInterrupted, Exit, Exited, vars, logVars, TypeOK
<1>4. mainpc # "run" => mainpc' # "run"
  BY DEF Next, QueueCall, StopNothing, StopPut, StopCall, QueueStep, ReadAlive, ReadAliveRaises,
         StartFound, StartCreate, StartFail, Start, StopStep, StopJoined, StopRaises,
         WorkerStep, Get, TaskDone, WorkerEnd, BeginExit, MainStep, HandlerReturns, Handler,
         HandlerPut, HandlerJoined, HandlerInterrupted, Exit, Exited, vars, exitVars
<1>5. Closed => Closed'
  BY <1>3, <1>4, Lasting DEF PInv, Closed
<1>6. \/ gaveUp' = gaveUp
      \/ \E t \in Threads : StopJoined(t) \/ StopRaises(t)
      \/ HandlerJoined \/ HandlerInterrupted
  BY DEF Next, QueueCall, StopNothing, StopPut, StopCall, QueueStep, ReadAlive, ReadAliveRaises,
         StartFound, StartCreate, StartFail, Start, StopStep,
         WorkerStep, Get, TaskDone, WorkerEnd, BeginExit, MainStep, HandlerReturns, Handler,
         HandlerPut, Exit, Exited, vars, logVars
<1>7. gaveUp' = gaveUp \/ (Closed /\ gaveUp' = TRUE)
  <2>1. ASSUME NEW t \in Threads, StopJoined(t) \/ StopRaises(t)
        PROVE  gaveUp' = gaveUp \/ (Closed /\ gaveUp' = TRUE)
    BY <1>1, <2>1 DEF StopJoined, StopRaises, Closed, logVars
  <2>2. CASE HandlerJoined \/ HandlerInterrupted
    BY <1>1, <2>2 DEF HandlerJoined, HandlerInterrupted, TasksFinished, Closed, TypeOK
  <2> QED
    BY <1>6, <2>1, <2>2
<1> QED
  BY <1>2, <1>5, <1>7

(* Every step is one of the promise, or none. *)
LEMMA PromisedStep == PInv /\ [Next]_vars => [Promised!Next]_(Promised!vars)
<1> SUFFICES ASSUME PInv, [Next]_vars PROVE [Promised!Next]_(Promised!vars)
  OBVIOUS
<1>1. ASSUME NEW t \in Threads, QueuePut(t) PROVE Promised!Next
  BY <1>1, AcceptStep DEF Promised!Next, PInv, IInv, JobInv, QueuePut
<1>2. ASSUME NEW w \in Workers, Callback(w) PROVE Promised!Next
  BY <1>2, FinishStep DEF Promised!Next, PInv, IInv, HandInv, Callback
<1>3. CASE (~ \E t \in Threads : QueuePut(t)) /\ ~ \E w \in Workers : Callback(w)
  <2>1. /\ UNCHANGED <<accepted, finished>> /\ (Closed => Closed')
        /\ gaveUp' = gaveUp \/ (Closed /\ gaveUp' = TRUE)
        /\ Closed \in BOOLEAN /\ Closed' \in BOOLEAN
    BY <1>3, OtherStep DEF Closed
  <2>2. CASE gaveUp' = gaveUp /\ Closed' = Closed
    BY <2>1, <2>2 DEF Promised!vars, Closed
  <2>3. CASE gaveUp' = gaveUp /\ Closed' # Closed
    BY <2>1, <2>3 DEF Promised!Next, Promised!Close, Closed
  <2>4. CASE gaveUp' # gaveUp
    BY <2>1, <2>4 DEF Promised!Next, Promised!Abandon, Closed
  <2> QED
    BY <2>2, <2>3, <2>4
<1> QED
  BY <1>1, <1>2, <1>3

(* The queue starts as the promise does. *)
LEMMA PromisedInit == Init => Promised!Init
<1> SUFFICES ASSUME Init PROVE Promised!Init
  OBVIOUS
<1>1. ~Damaged
  BY EmptySeq DEF Init, Damaged, ToSet
<1> QED
  BY <1>1 DEF Init, Promised!Init

(* AsyncWorker implements what JobQueue promises of safety: whatever the    *)
(* interleaving of queue(), stop(), the worker threads and the exit, a job  *)
(* runs once at most and only if it was queued, and in the order of the     *)
(* queue as long as nobody gave up waiting for a worker.                    *)
THEOREM PromiseKept == Spec => Promised!Safety
<1>1. Init => Promised!Init
  BY PromisedInit
<1>2. PInv /\ [Next]_vars => [Promised!Next]_(Promised!vars)
  BY PromisedStep
<1> QED
  BY <1>1, <1>2, PInvariance, PTL DEF Spec, Promised!Safety

(* stop() is synchronous: when one that nobody cut short returns, and no    *)
(* thread failed, all jobs queued before its terminator have run.           *)
THEOREM StopIsSynchronous == Spec => StopDrains
<1>1. ASSUME PInv, [Next]_vars, NEW t \in Threads,
             pc[t] \in Joins, pc'[t] = "idle", ~gaveUp', ~Damaged
      PROVE  Finished(mark[t])
  <2>1. TypeOK /\ ~gaveUp /\ Waiting(t) /\ thread \in Workers
    <3>1. IInv /\ TypeOK /\ Waiting(t)
      BY <1>1, DistinctAssumption DEF PInv, IInv, Waiting
    <3>2. thread # None
      BY <3>1, OneWaits
    <3> QED
      BY <1>1, <3>1, <3>2, Lasting DEF TypeOK
  <2>2. StopJoined(t) \/ StopRaises(t)
    BY <1>1, <2>1 DEF Next, QueueCall, MayCall, StopNothing, StopPut, StopCall, QueueStep, ReadAlive,
         ReadAliveRaises, StartFound, StartCreate, StartFail, Start, QueuePut, QueueRaises, Goto, StopStep,
         StopJoined, StopRaises, WorkerStep, Get, Callback, TaskDone, WorkerEnd, BeginExit, MainStep,
         HandlerReturns, Handler, HandlerPut, HandlerJoined, HandlerInterrupted, Exit, Exited, vars,
         callVars, TypeOK, Joins
  <2>3. wstate[thread] = "dead"
    BY <1>1, <2>1, <2>2 DEF StopJoined, StopRaises, Ended, Damaged
  <2>4. \A a \in 1..mark[t] : Ran(accepted[a])
    BY <1>1, <2>1, <2>3 DEF PInv, DrainInv, AtWork
  <2>5. mark[t] \in 0..Len(accepted)
    <3>1. mark[t] \in Nat /\ mark[t] <= Len(accepted)
      BY <1>1, <2>1 DEF PInv, MarkInv, TypeOK
    <3> QED
      BY <2>1, <3>1, Lengths
  <2> QED
    BY <2>1, <2>4, <2>5, RanIsFinished
<1>2. PInv /\ [Next]_vars =>
        [\A t \in Threads : pc[t] \in Joins /\ pc'[t] = "idle" /\ ~gaveUp' /\ ~Damaged
                            => Finished(mark[t])]_vars
  BY <1>1
<1> QED
  BY <1>2, PInvariance, PTL DEF Spec, StopDrains

(* An exit that waited to the end leaves no job behind that was queued      *)
(* before it began, if nobody stopped the worker and no thread failed.      *)
THEOREM ExitIsDrained == Spec => []ExitDrains
<1>1. PInv => ExitDrains
  <2> SUFFICES ASSUME PInv, mainpc = "exited", ~gaveUp, ~Damaged, stops = 0
               PROVE  Finished(mark[Main])
    BY DEF ExitDrains
  <2>1. TypeOK /\ \A a \in 1..mark[Main] : Ran(accepted[a])
    BY DEF PInv, IInv, ExitInv
  <2>2. mark[Main] \in 0..Len(accepted)
    BY <2>1, Lengths DEF PInv, MarkInv, TypeOK
  <2> QED
    BY <2>1, <2>2, RanIsFinished
<1> QED
  BY <1>1, PInvariance, PTL
=============================================================================
