-------------------------- MODULE TransportsProofs --------------------------
(***************************************************************************)
(* Proofs about Transports, for every set of events, every limit of the    *)
(* semaphore and any number of dying workers: the types, that gevent's     *)
(* permits are never lost nor made up, and that a fork sends nothing twice. *)
(***************************************************************************)
EXTENDS Transports, TLAPS, SequenceTheorems, FiniteSetTheorems

(* Only the threaded kinds have workers and hand events to them, only       *)
(* twisted's reads bodies, and only gevent's waits for permits.             *)
KindInv ==
    /\ \A p \in Processes : kind \notin Threaded => workers[p] = <<>>
    /\ \A e \in Events : /\ pc[e] = "body" => kind = "twisted"
                         /\ pc[e] = "acquire" => kind = "gevent"
                         /\ pc[e] \in Processes => kind \in Threaded

Flying == {e \in Events : pc[e] = "request"}

(* The permits of gevent's semaphore, as Semaphore has it; the others leave *)
(* it alone.                                                                *)
PermitInv ==
    IF kind = "gevent" THEN permits + Cardinality(Flying) = MaxOutstanding
                       ELSE permits = MaxOutstanding

(* The event at place j of the queue of the living worker i of process p. *)
Waits(e, p, i, j) ==
    /\ i \in DOMAIN workers[p] /\ workers[p][i].alive
    /\ j \in DOMAIN workers[p][i].queue
    /\ workers[p][i].queue[j] = e

Unsent == Processes \cup {"new", "queued"}

(* An event waits in one place at most, and only before it has been sent.   *)
(* The queues of workers whose thread is dead do not count: the threaded    *)
(* transport starts none of them again.                                     *)
QueueInv ==
    kind = "threaded" =>
        /\ \A e \in Events : sent[e] <= 1 /\ (pc[e] \in Unsent => sent[e] = 0)
        /\ \A e \in Events, p, q \in Processes : \A i, j, k, l \in Nat :
              Waits(e, p, i, j) =>
                  /\ pc[e] = "queued"
                  /\ Waits(e, q, k, l) => p = q /\ i = k /\ j = l

IInv == TypeOK /\ KindInv /\ PermitInv /\ QueueInv

-----------------------------------------------------------------------------

(* Nothing has been sent yet. *)
LEMMA InitIInv == Init => IInv
  <1> SUFFICES ASSUME Init PROVE IInv
    OBVIOUS
  <1> USE DEF Init
  <1>1. NewWorker \in WorkerObjects
    BY EmptySeq DEF NewWorker, WorkerObjects
  <1>2. workers \in [Processes -> Seq(WorkerObjects)] /\ worker = [p \in Processes |-> Len(workers[p])]
    BY <1>1
  <1>3. TypeOK
    <2>1. worker \in [Processes -> Nat] /\ \A p \in Processes : worker[p] <= Len(workers[p])
      BY <1>2
    <2>2. permits \in 0..MaxOutstanding /\ deaths \in 0..MaxDeaths
      BY BoundsAssumption
    <2>3. kind \in Kinds /\ loop \in {"none", "initialized", "running"} /\ forked \in BOOLEAN
      OBVIOUS
    <2>4. /\ pc \in [Events -> Places]
          /\ told \in [Events -> {"nothing", "success", "failure"}]
          /\ outcome \in [Events -> Outcomes \cup {None}]
          /\ sent \in [Events -> Nat]
      BY DEF Places
    <2> QED BY <1>2, <2>1, <2>2, <2>3, <2>4 DEF TypeOK
  <1>4. KindInv
    BY DEF KindInv, Threaded, Processes, Places
  <1>5. PermitInv
    <2>1. Flying = {}
      BY DEF Flying
    <2> QED BY <2>1, FS_EmptySet, BoundsAssumption DEF PermitInv
  <1>7. QueueInv
    BY DEF QueueInv, Waits, Unsent
  <1> QED BY <1>3, <1>4, <1>5, <1>7 DEF IInv

-----------------------------------------------------------------------------
(* What every step needs to know of types. *)

(* Every outcome tells of success or of failure. *)
LEMMA TellsType == \A result \in Outcomes : Tells(result) \in {"success", "failure"}
  BY DEF Tells, Verdict

(* A step changes the place of one event. *)
LEMMA GotoType ==
    ASSUME TypeOK, NEW e \in Events, NEW label \in Places,
           Goto(e, label)
    PROVE  /\ pc' \in [Events -> Places]
           /\ pc'[e] = label
           /\ \A f \in Events \ {e} : pc'[f] = pc[f]
  BY DEF TypeOK, Goto

(* An answer is told of, and counted, for its event alone. *)
LEMMA AnsweredType ==
    ASSUME TypeOK, NEW e \in Events, NEW result \in Outcomes, Answered(e, result)
    PROVE  /\ told' \in [Events -> {"nothing", "success", "failure"}]
           /\ outcome' \in [Events -> Outcomes \cup {None}]
           /\ sent' \in [Events -> Nat]
           /\ told'[e] = Tells(result) /\ outcome'[e] = result /\ sent'[e] = sent[e] + 1
           /\ \A f \in Events \ {e} :
                 told'[f] = told[f] /\ outcome'[f] = outcome[f] /\ sent'[f] = sent[f]
  BY TellsType DEF TypeOK, Answered

(* The requests in flight, as events enter and leave. *)
LEMMA FlyingCount ==
    ASSUME TypeOK, NEW e \in Events,
           NEW label \in Places, Goto(e, label)
    PROVE  /\ IsFiniteSet(Flying) /\ Cardinality(Flying) \in Nat
           /\ pc[e] # "request" /\ label = "request" =>
                 Cardinality(Flying') = Cardinality(Flying) + 1
           /\ pc[e] = "request" /\ label # "request" =>
                 Cardinality(Flying') = Cardinality(Flying) - 1 /\ Cardinality(Flying) >= 1
           /\ pc[e] # "request" /\ label # "request" => Flying' = Flying
  <1>1. IsFiniteSet(Flying)
    BY FS_Subset, BoundsAssumption DEF Flying
  <1>2. Cardinality(Flying) \in Nat
    BY <1>1, FS_CardinalityType
  <1>3. ASSUME pc[e] # "request", label = "request"
        PROVE  Cardinality(Flying') = Cardinality(Flying) + 1
    <2>1. Flying' = Flying \cup {e} /\ e \notin Flying
      BY <1>3, GotoType DEF Flying
    <2> QED BY <1>1, <2>1, FS_AddElement
  <1>4. ASSUME pc[e] = "request", label # "request"
        PROVE  Cardinality(Flying') = Cardinality(Flying) - 1 /\ Cardinality(Flying) >= 1
    <2>1. Flying' = Flying \ {e} /\ e \in Flying
      BY <1>4, GotoType DEF Flying
    <2>2. Cardinality(Flying') = Cardinality(Flying) - 1
      BY <1>1, <2>1, FS_RemoveElement
    <2>3. Cardinality(Flying) # 0
      BY <1>1, <2>1, FS_EmptySet
    <2> QED BY <1>2, <2>2, <2>3
  <1>5. ASSUME pc[e] # "request", label # "request" PROVE Flying' = Flying
    BY <1>5, GotoType DEF Flying
  <1> QED BY <1>1, <1>2, <1>3, <1>4, <1>5

-----------------------------------------------------------------------------
(* The transports without workers. *)

(* The actions by what they do to the request of e. *)
LEMMA RequestCases ==
    ASSUME TypeOK, KindInv, NEW e \in Events, Request(e)
    PROVE  /\ kind' = kind /\ kind # "threaded" /\ UNCHANGED <<processes, loop>>
           /\ \/ /\ pc[e] \in {"new", "request"} /\ Goto(e, "over")
                 /\ \E result \in Outcomes : Answered(e, result)
              \/ /\ kind = "eventlet" /\ pc[e] = "new" /\ Goto(e, "request")
                 /\ told' = [told EXCEPT ![e] = "success"] /\ UNCHANGED <<outcome, sent>>
              \/ /\ kind = "eventlet" /\ pc[e] = "request" /\ Goto(e, "over")
                 /\ \E result \in Outcomes : outcome' = [outcome EXCEPT ![e] = result]
                 /\ sent' = [sent EXCEPT ![e] = @ + 1] /\ UNCHANGED told
              \/ /\ kind = "gevent" /\ pc[e] = "new" /\ Goto(e, "acquire")
                 /\ UNCHANGED <<told, outcome, sent>>
              \/ /\ pc[e] \in {"new", "acquire"} /\ Goto(e, "request")
                 /\ UNCHANGED <<told, outcome, sent>>
              \/ /\ kind = "twisted" /\ pc[e] = "request" /\ Goto(e, "body")
                 /\ outcome' = [outcome EXCEPT ![e] = "rejected"]
                 /\ sent' = [sent EXCEPT ![e] = @ + 1] /\ UNCHANGED told
              \/ /\ kind = "twisted" /\ pc[e] = "body" /\ Goto(e, "over")
                 /\ told' = [told EXCEPT ![e] = "failure"] /\ UNCHANGED <<outcome, sent>>
  BY DEF Request, Send, SendEventlet, EventletRequest, AsyncSendGevent, Spawn, Done,
         SendTornado, Fetch, HandleResult, DeferredFires, ReadBody, BodyRead, KindInv,
         transport, Outcomes

(* The permits: taken by Spawn, given back by Done, and by nobody else. *)
LEMMA RequestPermits ==
    ASSUME TypeOK, KindInv, PermitInv, NEW e \in Events, Request(e)
    PROVE  PermitInv' /\ permits' \in 0..MaxOutstanding
  <1>1. kind' = kind
    BY RequestCases
  <1>2. MaxOutstanding \in Nat /\ permits \in 0..MaxOutstanding
    BY BoundsAssumption DEF TypeOK
  <1>3. CASE kind # "gevent"
    <2>1. permits' = permits
      BY <1>3 DEF Request, Send, SendEventlet, EventletRequest, AsyncSendGevent, Spawn, Done,
         SendTornado, Fetch, HandleResult, DeferredFires, ReadBody, BodyRead, transport
    <2> QED BY <1>1, <1>2, <1>3, <2>1 DEF PermitInv
  <1>4. CASE kind = "gevent" /\ AsyncSendGevent(e)
    <2>1. Flying' = Flying /\ permits' = permits
      BY <1>4, FlyingCount DEF Places, AsyncSendGevent, transport
    <2> QED BY <1>1, <1>2, <1>4, <2>1 DEF PermitInv
  <1>5. CASE kind = "gevent" /\ Spawn(e)
    <2>1. Cardinality(Flying') = Cardinality(Flying) + 1 /\ permits' = permits - 1 /\ permits > 0
          /\ Cardinality(Flying) \in Nat
      BY <1>5, FlyingCount DEF Places, Spawn
    <2> QED BY <1>1, <1>2, <1>5, <2>1 DEF PermitInv
  <1>6. CASE kind = "gevent" /\ Done(e)
    <2>1. Cardinality(Flying') = Cardinality(Flying) - 1 /\ permits' = permits + 1
          /\ Cardinality(Flying) \in Nat /\ Cardinality(Flying) >= 1
      BY <1>6, FlyingCount DEF Places, Done, Release
    <2> QED BY <1>1, <1>2, <1>6, <2>1 DEF PermitInv
  <1>7. kind = "gevent" => AsyncSendGevent(e) \/ Spawn(e) \/ Done(e)
    BY DEF Request, Send, SendEventlet, EventletRequest, SendTornado, Fetch, HandleResult,
           DeferredFires, ReadBody, BodyRead, KindInv
  <1> QED BY <1>3, <1>4, <1>5, <1>6, <1>7

(* A request of an event keeps the invariant. *)
LEMMA RequestStep ==
    ASSUME IInv, NEW e \in Events, Request(e)
    PROVE  IInv'
  <1> USE DEF IInv
  <1>1. kind' = kind /\ kind # "threaded" /\ UNCHANGED <<processes, loop>>
    BY RequestCases
  <1>2. PermitInv' /\ permits' \in 0..MaxOutstanding
    BY RequestPermits
  <1>3. /\ pc' \in [Events -> Places]
        /\ told' \in [Events -> {"nothing", "success", "failure"}]
        /\ outcome' \in [Events -> Outcomes \cup {None}] /\ sent' \in [Events -> Nat]
    <2>1. TypeOK /\ KindInv
      OBVIOUS
    <2> HIDE DEF IInv
    <2>2. \E label \in Places : Goto(e, label)
      BY <2>1, RequestCases DEF Places
    <2>3. \/ \E result \in Outcomes : Answered(e, result)
          \/ /\ told' = told \/ \E verdict \in {"success", "failure"} :
                                    told' = [told EXCEPT ![e] = verdict]
             /\ outcome' = outcome \/ \E result \in Outcomes :
                                          outcome' = [outcome EXCEPT ![e] = result]
             /\ sent' = sent \/ sent' = [sent EXCEPT ![e] = @ + 1]
      BY <2>1, RequestCases DEF Outcomes
    <2>4. CASE \E result \in Outcomes : Answered(e, result)
      BY <2>1, <2>2, <2>4, GotoType, AnsweredType
    <2>5. CASE ~ \E result \in Outcomes : Answered(e, result)
      <3>1. pc' \in [Events -> Places]
        BY <2>1, <2>2, GotoType
      <3>2. told' \in [Events -> {"nothing", "success", "failure"}]
        BY <2>1, <2>3, <2>5 DEF TypeOK
      <3>3. outcome' \in [Events -> Outcomes \cup {None}]
        BY <2>1, <2>3, <2>5 DEF TypeOK
      <3>4. sent' \in [Events -> Nat]
        <4>1. sent' = sent \/ sent' = [sent EXCEPT ![e] = @ + 1]
          BY <2>3, <2>5
        <4>2. sent \in [Events -> Nat]
          BY <2>1 DEF TypeOK
        <4> QED BY <4>1, <4>2
      <3> QED BY <3>1, <3>2, <3>3, <3>4
    <2> QED BY <2>4, <2>5
  <1>4. TypeOK'
    BY <1>1, <1>2, <1>3 DEF TypeOK, processes
  <1>5. KindInv'
    <2>1. \A f \in Events : /\ pc'[f] = "body" => kind = "twisted"
                            /\ pc'[f] = "acquire" => kind = "gevent"
                            /\ pc'[f] \in Processes => kind \in Threaded
      BY RequestCases, GotoType DEF KindInv, Places, Processes
    <2> QED BY <1>1, <2>1 DEF KindInv, processes
  <1>7. QueueInv'
    BY <1>1 DEF QueueInv
  <1> QED BY <1>2, <1>4, <1>5, <1>7

-----------------------------------------------------------------------------
(* The worker objects. *)

(* One worker object of a process is changed. *)
LEMMA SetWorkers ==
    ASSUME TypeOK, NEW p \in Processes, NEW i \in DOMAIN workers[p], NEW w \in WorkerObjects,
           Set(p, i, w)
    PROVE  /\ workers' \in [Processes -> Seq(WorkerObjects)]
           /\ \A q \in Processes : /\ Len(workers'[q]) = Len(workers[q])
                                   /\ DOMAIN workers'[q] = DOMAIN workers[q]
           /\ workers'[p][i] = w
           /\ \A q \in Processes, k \in Nat :
                 q # p \/ k # i => workers'[q][k] = workers[q][k]
  <1>1. workers \in [Processes -> Seq(WorkerObjects)] /\ workers[p] \in Seq(WorkerObjects)
    BY DEF TypeOK
  <1>2. workers' = [workers EXCEPT ![p] = [workers[p] EXCEPT ![i] = w]]
    BY DEF Set
  <1>3. i \in 1..Len(workers[p])
    BY <1>1, LenProperties
  <1> DEFINE new == [workers[p] EXCEPT ![i] = w]
  <1>4. /\ new \in Seq(WorkerObjects) /\ Len(new) = Len(workers[p])
        /\ new[i] = w /\ \A k \in Nat : k # i => new[k] = workers[p][k]
    <2>1. new \in Seq(WorkerObjects) /\ Len(new) = Len(workers[p]) /\ new[i] = w
      BY <1>1, <1>3, ExceptSeq
    <2>2. \A k \in Nat : k # i => new[k] = workers[p][k]
      OBVIOUS
    <2> QED BY <2>1, <2>2
  <1>5. DOMAIN new = DOMAIN workers[p]
    OBVIOUS
  <1> HIDE DEF new
  <1> QED BY <1>1, <1>2, <1>4, <1>5

(* A worker object, and the parts of it. *)
LEMMA WorkerType ==
    ASSUME TypeOK, NEW p \in Processes, NEW i \in DOMAIN workers[p]
    PROVE  /\ workers[p][i] \in WorkerObjects /\ i \in Nat \ {0}
           /\ workers[p][i].queue \in Seq(Events) /\ workers[p][i].alive \in BOOLEAN
  <1>1. workers[p] \in Seq(WorkerObjects)
    BY DEF TypeOK
  <1>2. i \in 1..Len(workers[p])
    BY <1>1, LenProperties
  <1>3. workers[p][i] \in WorkerObjects
    BY <1>1, <1>2, ElementOfSeq
  <1> QED BY <1>2, <1>3, LenProperties, <1>1 DEF WorkerObjects

(* What the worker steps leave alone. *)
LEMMA WorkerFrame ==
    ASSUME IInv, UNCHANGED <<kind, transport>>, kind \in Threaded,
           NEW e \in Events, NEW label \in {"queued", "over"}, Goto(e, label),
           pc[e] \in Unsent
    PROVE  /\ PermitInv' /\ permits' \in 0..MaxOutstanding
           /\ \A f \in Events : /\ pc'[f] = "body" => kind = "twisted"
                                /\ pc'[f] = "acquire" => kind = "gevent"
                                /\ pc'[f] \in Processes => kind \in Threaded
  <1>1. Flying' = Flying
    BY FlyingCount DEF IInv, Unsent, Processes, Places
  <1>2. kind # "gevent"
    BY DEF Threaded
  <1> QED BY <1>1, <1>2, GotoType DEF IInv, PermitInv, transport, TypeOK, KindInv, Places

(* An event that is about to be queued. *)
LEMMA AsyncSendStep ==
    ASSUME IInv, NEW e \in Events, NEW p \in Processes, AsyncSend(e, p)
    PROVE  IInv'
  <1>1. /\ TypeOK /\ kind \in Threaded /\ pc[e] = "new" /\ Goto(e, p) /\ p \in Places
        /\ UNCHANGED <<kind, transport, told, outcome, sent, processes>>
    BY DEF AsyncSend, IInv, Places
  <1>2. pc' \in [Events -> Places] /\ pc'[e] = p /\ \A f \in Events \ {e} : pc'[f] = pc[f]
    BY <1>1, GotoType
  <1>3. TypeOK'
    BY <1>1, <1>2 DEF TypeOK, transport, processes
  <1>4. KindInv' /\ PermitInv'
    <2>1. Flying' = Flying
      BY <1>1, FlyingCount DEF Processes
    <2> QED BY <1>1, <1>2, <2>1
            DEF IInv, KindInv, PermitInv, transport, processes, Processes
  <1>5. QueueInv'
    <2>1. p # "queued" /\ pc[e] # "queued"
      BY <1>1 DEF Processes
    <2>2. \A f \in Events, q \in Processes : \A k, l \in Nat : Waits(f, q, k, l)' = Waits(f, q, k, l)
      BY <1>1 DEF Waits, processes
    <2> QED BY <1>1, <1>2, <2>1, <2>2 DEF IInv, QueueInv, Unsent
  <1> QED BY <1>3, <1>4, <1>5 DEF IInv

(* An event for which a worker is made or started keeps the invariant. *)
LEMMA QueueNewStep ==
    ASSUME IInv, NEW e \in Events, NEW p \in Processes, QueueNew(e, p)
    PROVE  IInv'
  <1> DEFINE w == [NewWorker EXCEPT !.queue = <<e>>]
             n == Len(workers[p]) + 1
  <1>1. /\ TypeOK /\ kind \in Threaded /\ pc[e] = p /\ Goto(e, "queued")
        /\ workers' = [workers EXCEPT ![p] = Append(@, w)]
        /\ worker' = [worker EXCEPT ![p] = Len(workers'[p])]
        /\ UNCHANGED <<kind, transport, told, outcome, sent, forked, deaths>>
    BY DEF QueueNew, IInv, KindInv
  <1>2. w \in WorkerObjects /\ w.alive /\ w.queue = <<e>>
    <2>1. <<e>> \in Seq(Events)
      OBVIOUS
    <2> QED BY <2>1 DEF NewWorker, WorkerObjects
  <1>3. workers[p] \in Seq(WorkerObjects) /\ n \in Nat
    BY <1>1, LenProperties DEF TypeOK
  <1>4. /\ workers' \in [Processes -> Seq(WorkerObjects)] /\ Len(workers'[p]) = n
        /\ workers'[p][n] = w /\ \A k \in 1..Len(workers[p]) : workers'[p][k] = workers[p][k]
        /\ \A q \in Processes \ {p} : workers'[q] = workers[q]
    <2> HIDE DEF w
    <2>1. /\ Append(workers[p], w) \in Seq(WorkerObjects) /\ Len(Append(workers[p], w)) = n
          /\ Append(workers[p], w)[n] = w
          /\ \A k \in 1..Len(workers[p]) : Append(workers[p], w)[k] = workers[p][k]
      BY <1>2, <1>3, AppendProperties
    <2> QED BY <1>1, <2>1 DEF TypeOK
  <1>5. TypeOK'
    <2>1. worker' \in [Processes -> Nat]
      BY <1>1, <1>3, <1>4 DEF TypeOK
    <2>2. \A q \in Processes : worker'[q] <= Len(workers'[q])
      BY <1>1, <1>3, <1>4 DEF TypeOK
    <2>3. pc' \in [Events -> Places]
      BY <1>1, GotoType DEF Places
    <2> QED BY <1>1, <1>4, <2>1, <2>2, <2>3 DEF TypeOK, transport
  <1>6. PermitInv' /\ KindInv'
    BY <1>1, WorkerFrame DEF IInv, KindInv, Unsent
  <1>8. QueueInv'
    <2>1. \A f \in Events, q \in Processes : \A k, l \in Nat :
              Waits(f, q, k, l)' =>
                 \/ Waits(f, q, k, l) /\ ~ (q = p /\ k = n)
                 \/ f = e /\ q = p /\ k = n /\ l = 1
      <3> SUFFICES ASSUME NEW f \in Events, NEW q \in Processes, NEW k \in Nat, NEW l \in Nat,
                          Waits(f, q, k, l)'
                   PROVE  \/ Waits(f, q, k, l) /\ ~ (q = p /\ k = n)
                          \/ f = e /\ q = p /\ k = n /\ l = 1
        OBVIOUS
      <3>1. CASE q # p
        BY <1>4, <3>1 DEF Waits
      <3>2. CASE q = p /\ k = n
        <4>1. workers'[p][n].queue = <<e>>
          BY <1>2, <1>4
        <4> QED BY <3>2, <4>1 DEF Waits
      <3>3. CASE q = p /\ k # n
        <4>1. k \in 1..Len(workers[p]) /\ k \in DOMAIN workers[p]
          BY <1>3, <1>4, <3>3, LenProperties DEF Waits
        <4>2. workers'[p][k] = workers[p][k]
          BY <1>4, <4>1
        <4> QED BY <3>3, <4>1, <4>2 DEF Waits
      <3> QED BY <3>1, <3>2, <3>3
    <2>2. \A f \in Events : f # e => pc'[f] = pc[f]
      BY <1>1, GotoType DEF Places
    <2>3. pc'[e] = "queued"
      BY <1>1, GotoType DEF Places
    <2> HIDE DEF w, n
    <2> QED BY <1>1, <2>1, <2>2, <2>3, SMTT(30) DEF QueueInv, IInv, Unsent, Processes
  <1> QED BY <1>5, <1>6, <1>8 DEF IInv

(* One worker object has changed and no process another: the types hold. *)
LEMMA SetType ==
    ASSUME IInv, UNCHANGED <<kind, transport, forked, worker>>, kind \in Threaded,
           NEW p \in Processes, NEW i \in DOMAIN workers[p], NEW w \in WorkerObjects,
           Set(p, i, w), deaths' \in 0..MaxDeaths,
           pc' \in [Events -> Places],
           told' \in [Events -> {"nothing", "success", "failure"}],
           outcome' \in [Events -> Outcomes \cup {None}], sent' \in [Events -> Nat]
    PROVE  TypeOK'
  <1>1. workers' \in [Processes -> Seq(WorkerObjects)]
        /\ \A q \in Processes : Len(workers'[q]) = Len(workers[q])
    BY SetWorkers DEF IInv
  <1> QED BY <1>1 DEF IInv, TypeOK, transport

(* The waiting events, when only the worker i of p has changed, to w. *)
LEMMA SetWaits ==
    ASSUME TypeOK, NEW p \in Processes, NEW i \in DOMAIN workers[p], NEW w \in WorkerObjects,
           Set(p, i, w)
    PROVE  \A f \in Events, q \in Processes : \A k, l \in Nat :
              Waits(f, q, k, l)' =>
                 \/ (q # p \/ k # i) /\ Waits(f, q, k, l)
                 \/ q = p /\ k = i /\ w.alive /\ l \in DOMAIN w.queue /\ w.queue[l] = f
  <1> SUFFICES ASSUME NEW f \in Events, NEW q \in Processes, NEW k \in Nat, NEW l \in Nat,
                      Waits(f, q, k, l)'
               PROVE  \/ (q # p \/ k # i) /\ Waits(f, q, k, l)
                      \/ q = p /\ k = i /\ w.alive /\ l \in DOMAIN w.queue /\ w.queue[l] = f
    OBVIOUS
  <1>1. CASE q = p /\ k = i
    BY <1>1, SetWorkers DEF Waits
  <1>2. CASE q # p \/ k # i
    <2>1. workers'[q][k] = workers[q][k] /\ DOMAIN workers'[q] = DOMAIN workers[q]
      BY <1>2, SetWorkers
    <2> QED BY <1>2, <2>1 DEF Waits
  <1> QED BY <1>1, <1>2

(* Any other event that is queued keeps it. *)
LEMMA QueueStep ==
    ASSUME IInv, NEW e \in Events, NEW p \in Processes, Queue(e, p)
    PROVE  IInv'
  <1> DEFINE i == worker[p]
             old == workers[p][i]
             w == [old EXCEPT !.alive = TRUE, !.queue = Append(@, e)]
  <1>1. /\ TypeOK /\ kind \in Threaded /\ pc[e] = p /\ Goto(e, "queued")
        /\ ~MakesWorker(p) /\ Set(p, i, w)
        /\ UNCHANGED <<kind, transport, told, outcome, sent, forked, worker, deaths>>
    BY DEF Queue, IInv, KindInv
  <1>2. i \in DOMAIN workers[p]
    <2>1. workers[p] \in Seq(WorkerObjects) /\ i \in Nat /\ i <= Len(workers[p]) /\ i # 0
      BY <1>1 DEF TypeOK, MakesWorker
    <2> QED BY <2>1, LenProperties
  <1>3. old \in WorkerObjects /\ i \in Nat /\ old.queue \in Seq(Events)
    BY <1>1, <1>2, WorkerType
  <1>4. kind = "threaded" => old.alive
    BY <1>1 DEF MakesWorker
  <1>5. /\ Append(old.queue, e) \in Seq(Events) /\ Len(old.queue) \in Nat
        /\ DOMAIN Append(old.queue, e) = 1..(Len(old.queue) + 1)
        /\ DOMAIN old.queue = 1..Len(old.queue)
        /\ Append(old.queue, e)[Len(old.queue) + 1] = e
        /\ \A l \in 1..Len(old.queue) : Append(old.queue, e)[l] = old.queue[l]
    <2> HIDE DEF old
    <2> QED BY <1>3, AppendProperties, LenProperties
  <1>6. w \in WorkerObjects /\ w.queue = Append(old.queue, e)
    <2> HIDE DEF old
    <2> QED BY <1>3, <1>5 DEF WorkerObjects
  <1> HIDE DEF w
  <1>7. /\ pc' \in [Events -> Places]
        /\ pc'[e] = "queued" /\ \A f \in Events \ {e} : pc'[f] = pc[f]
    BY <1>1, GotoType DEF Places
  <1>8. TypeOK'
    <2>1. /\ deaths' \in 0..MaxDeaths /\ told' \in [Events -> {"nothing", "success", "failure"}]
          /\ outcome' \in [Events -> Outcomes \cup {None}] /\ sent' \in [Events -> Nat]
      BY <1>1 DEF TypeOK
    <2> QED BY <1>1, <1>2, <1>6, <1>7, <2>1, SetType
  <1>9. PermitInv' /\ KindInv'
    BY <1>1, <1>2, <1>6, WorkerFrame DEF KindInv, IInv, Unsent
  <1>10. QueueInv'
    <2> SUFFICES ASSUME kind = "threaded" PROVE QueueInv'
      BY <1>1 DEF QueueInv
    <2>1. old.alive
      BY <1>4
    <2>2. \A f \in Events, q \in Processes : \A k, l \in Nat :
              Waits(f, q, k, l)' =>
                 \/ f # e /\ Waits(f, q, k, l)
                 \/ f = e /\ q = p /\ k = i /\ l = Len(old.queue) + 1
      <3> SUFFICES ASSUME NEW f \in Events, NEW q \in Processes, NEW k \in Nat, NEW l \in Nat,
                          Waits(f, q, k, l)'
                   PROVE  \/ f # e /\ Waits(f, q, k, l)
                          \/ f = e /\ q = p /\ k = i /\ l = Len(old.queue) + 1
        OBVIOUS
      <3>1. ~ Waits(e, q, k, l)
        BY <1>1 DEF QueueInv, IInv, Processes
      <3>2. CASE (q # p \/ k # i) /\ Waits(f, q, k, l)
        BY <3>1, <3>2
      <3>3. CASE q = p /\ k = i /\ l \in DOMAIN w.queue /\ w.queue[l] = f
        <4>1. CASE l = Len(old.queue) + 1
          BY <1>5, <1>6, <3>3, <4>1
        <4>2. CASE l # Len(old.queue) + 1
          <5>1. l \in DOMAIN old.queue /\ old.queue[l] = f
            <6> HIDE DEF old
            <6> QED BY <1>5, <1>6, <3>3, <4>2
          <5>2. Waits(f, q, k, l)
            BY <1>2, <2>1, <3>3, <5>1 DEF Waits
          <5> QED BY <3>1, <5>2
        <4> QED BY <4>1, <4>2
      <3> HIDE DEF old, i
      <3> QED BY <1>1, <1>2, <1>6, <3>2, <3>3, SetWaits, SMTT(30)
    <2> HIDE DEF old, i
    <2>3. \A f \in Events : sent[f] <= 1 /\ (pc[f] \in Unsent => sent[f] = 0)
      BY DEF QueueInv, IInv
    <2>4. \A f \in Events : sent'[f] <= 1 /\ (pc'[f] \in Unsent => sent'[f] = 0)
      <3> TAKE f \in Events
      <3>1. sent'[f] = sent[f]
        BY <1>1
      <3>2. pc'[f] \in Unsent => pc[f] \in Unsent
        BY <1>1, <1>7 DEF Unsent, Processes
      <3> QED BY <2>3, <3>1, <3>2
    <2>5. \A f \in Events, q, r \in Processes : \A j, k, l, m \in Nat :
             Waits(f, q, j, k)' =>
                /\ pc'[f] = "queued"
                /\ Waits(f, r, l, m)' => q = r /\ j = l /\ k = m
      <3> SUFFICES ASSUME NEW f \in Events, NEW q \in Processes, NEW r \in Processes,
                          NEW j \in Nat, NEW k \in Nat, NEW l \in Nat, NEW m \in Nat,
                          Waits(f, q, j, k)'
                   PROVE  /\ pc'[f] = "queued"
                          /\ Waits(f, r, l, m)' => q = r /\ j = l /\ k = m
        OBVIOUS
      <3>1. CASE f = e
        BY <1>7, <2>2, <3>1
      <3>2. CASE f # e
        <4>1. Waits(f, q, j, k) /\ (Waits(f, r, l, m)' => Waits(f, r, l, m))
          BY <2>2, <3>2
        <4>2. pc[f] = "queued" /\ (Waits(f, r, l, m) => q = r /\ j = l /\ k = m)
          BY <4>1 DEF QueueInv, IInv
        <4> QED BY <1>7, <3>2, <4>1, <4>2
      <3> QED BY <3>1, <3>2
    <2> QED BY <1>1, <2>4, <2>5 DEF QueueInv, Unsent
  <1> QED BY <1>8, <1>9, <1>10 DEF IInv

(* The queue of w is that of old without the event at its head. *)
WithoutHead(w, old) ==
    \A l \in DOMAIN w.queue : l + 1 \in DOMAIN old.queue /\ w.queue[l] = old.queue[l + 1]

(* What is left when the first is taken from a queue. *)
LEMMA Taken ==
    ASSUME NEW queue \in Seq(Events), queue # <<>>
    PROVE  /\ Head(queue) \in Events /\ Head(queue) = queue[1] /\ 1 \in DOMAIN queue
           /\ Tail(queue) \in Seq(Events)
           /\ \A l \in DOMAIN Tail(queue) : l + 1 \in DOMAIN queue /\ Tail(queue)[l] = queue[l + 1]
  <1>1. Len(queue) \in Nat /\ Len(queue) # 0 /\ DOMAIN queue = 1..Len(queue)
    BY EmptySeq, LenProperties
  <1>2. Len(Tail(queue)) = Len(queue) - 1 /\ DOMAIN Tail(queue) = 1..Len(Tail(queue))
        /\ Tail(queue) \in Seq(Events) /\ Head(queue) \in Events
        /\ \A l \in 1..Len(Tail(queue)) : Tail(queue)[l] = queue[l + 1]
    BY HeadTailProperties, LenProperties
  <1> QED BY <1>1, <1>2

(* A worker thread has taken the event at the head of its queue, and ended  *)
(* with it or not.                                                          *)
LEMMA TakeStep ==
    ASSUME IInv, UNCHANGED <<kind, transport, forked, worker>>, deaths' \in 0..MaxDeaths,
           NEW p \in Processes, NEW i \in DOMAIN workers[p], NEW w \in WorkerObjects,
           Set(p, i, w), workers[p][i].alive, workers[p][i].queue # <<>>,
           WithoutHead(w, workers[p][i]),
           NEW e \in Events, e = Head(workers[p][i].queue), Goto(e, "over"),
           (\E result \in Outcomes : Answered(e, result)) \/ UNCHANGED <<told, outcome, sent>>
    PROVE  IInv'
  <1> DEFINE queue == workers[p][i].queue
  <1>1. TypeOK /\ KindInv /\ PermitInv /\ QueueInv
    BY DEF IInv
  <1>11. \A f \in Events, q \in Processes : \A k, l \in Nat :
              Waits(f, q, k, l)' =>
                 \/ (q # p \/ k # i) /\ Waits(f, q, k, l)
                 \/ q = p /\ k = i /\ w.alive /\ l \in DOMAIN w.queue /\ w.queue[l] = f
    <2> HIDE DEF queue
    <2>1. TypeOK
      BY <1>1
    <2> SUFFICES ASSUME NEW f \in Events, NEW q \in Processes, NEW k \in Nat, NEW l \in Nat,
                        Waits(f, q, k, l)'
                 PROVE  \/ (q # p \/ k # i) /\ Waits(f, q, k, l)
                        \/ q = p /\ k = i /\ w.alive /\ l \in DOMAIN w.queue /\ w.queue[l] = f
      OBVIOUS
    <2> QED BY <2>1, SetWaits
  <1>2. kind \in Threaded
    BY <1>1 DEF KindInv
  <1>3. /\ i \in Nat \ {0} /\ queue \in Seq(Events) /\ e = queue[1] /\ 1 \in DOMAIN queue
        /\ \A l \in DOMAIN w.queue : l + 1 \in DOMAIN queue /\ w.queue[l] = queue[l + 1]
    BY <1>1, WorkerType, Taken DEF WithoutHead
  <1>4. /\ pc' \in [Events -> Places]
        /\ pc'[e] = "over" /\ \A f \in Events \ {e} : pc'[f] = pc[f]
    BY <1>1, GotoType DEF Places
  <1>5. /\ told' \in [Events -> {"nothing", "success", "failure"}]
        /\ outcome' \in [Events -> Outcomes \cup {None}] /\ sent' \in [Events -> Nat]
    BY <1>1, AnsweredType DEF TypeOK
  <1>6. TypeOK'
    BY <1>2, <1>4, <1>5, SetType
  <1>7. KindInv'
    BY <1>1, <1>2, <1>4 DEF KindInv
  <1>8. PermitInv'
    BY <1>1, <1>2 DEF PermitInv, transport, Threaded
  <1>10. QueueInv'
    <2> SUFFICES ASSUME kind = "threaded" PROVE QueueInv'
      BY DEF QueueInv
    <2>1. Waits(e, p, i, 1)
      BY <1>3 DEF Waits
    <2>2. /\ \A f \in Events : sent[f] <= 1 /\ (pc[f] \in Unsent => sent[f] = 0)
          /\ \A f \in Events, q, r \in Processes : \A k, l, m, n \in Nat :
                Waits(f, q, k, l) =>
                    /\ pc[f] = "queued"
                    /\ Waits(f, r, m, n) => q = r /\ k = m /\ l = n
      BY <1>1 DEF QueueInv
    <2>3. /\ sent'[e] <= 1
          /\ \A f \in Events \ {e} : sent'[f] = sent[f]
      <3>1. sent[e] = 0 /\ sent[e] \in Nat
        BY <1>1, <1>3, <2>1, <2>2 DEF TypeOK, Unsent
      <3>2. CASE \E result \in Outcomes : Answered(e, result)
        BY <1>1, <3>1, <3>2, AnsweredType
      <3>3. CASE UNCHANGED <<told, outcome, sent>>
        BY <3>1, <3>3
      <3> QED BY <3>2, <3>3
    <2>4. \A f \in Events, q \in Processes : \A k, l \in Nat :
              Waits(f, q, k, l)' =>
                 /\ f # e
                 /\ \/ (q # p \/ k # i) /\ Waits(f, q, k, l)
                    \/ q = p /\ k = i /\ Waits(f, q, k, l + 1)
      <3> SUFFICES ASSUME NEW f \in Events, NEW q \in Processes, NEW k \in Nat, NEW l \in Nat,
                          Waits(f, q, k, l)'
                   PROVE  /\ f # e
                          /\ \/ (q # p \/ k # i) /\ Waits(f, q, k, l)
                             \/ q = p /\ k = i /\ Waits(f, q, k, l + 1)
        OBVIOUS
      <3>1. CASE (q # p \/ k # i) /\ Waits(f, q, k, l)
        BY <1>3, <2>1, <2>2, <3>1
      <3>2. CASE q = p /\ k = i /\ l \in DOMAIN w.queue /\ w.queue[l] = f
        <4>1. Waits(f, p, i, l + 1)
          BY <1>3, <3>2 DEF Waits
        <4>2. l # 0
          BY <1>1, <1>3, <3>2, LenProperties DEF WorkerObjects
        <4>3. f # e
          BY <1>3, <2>1, <2>2, <4>1, <4>2
        <4> QED BY <3>2, <4>1, <4>3
      <3> HIDE DEF queue
      <3> QED BY <1>11, <3>1, <3>2
    <2> HIDE DEF queue
    <2>5. \A f \in Events : sent'[f] <= 1 /\ (pc'[f] \in Unsent => sent'[f] = 0)
      BY <1>4, <2>2, <2>3 DEF Unsent, Processes
    <2>6. ASSUME NEW f \in Events, NEW q \in Processes, NEW r \in Processes,
                 NEW k \in Nat, NEW l \in Nat, NEW m \in Nat, NEW n \in Nat, Waits(f, q, k, l)'
          PROVE  pc'[f] = "queued" /\ (Waits(f, r, m, n)' => q = r /\ k = m /\ l = n)
      <3>1. f # e /\ \/ (q # p \/ k # i) /\ Waits(f, q, k, l)
                     \/ q = p /\ k = i /\ Waits(f, q, k, l + 1)
        BY <2>4, <2>6
      <3>2. pc'[f] = "queued"
        BY <1>4, <2>2, <3>1
      <3>3. ASSUME Waits(f, r, m, n)' PROVE q = r /\ k = m /\ l = n
        <4>1. \/ (r # p \/ m # i) /\ Waits(f, r, m, n)
              \/ r = p /\ m = i /\ Waits(f, r, m, n + 1)
          BY <2>4, <3>3
        <4>2. l + 1 \in Nat /\ n + 1 \in Nat /\ (l + 1 = n + 1 => l = n)
          OBVIOUS
        <4> QED BY <2>2, <3>1, <4>1, <4>2
      <3> QED BY <3>2, <3>3
    <2> QED BY <2>5, <2>6 DEF QueueInv
  <1> QED BY <1>6, <1>7, <1>8, <1>10 DEF IInv

(* The worker that sends an event keeps the invariant. *)
LEMMA SendSyncStep ==
    ASSUME IInv, NEW p \in Processes, NEW i \in Nat, SendSync(p, i)
    PROVE  IInv'
  <1> DEFINE old == workers[p][i]
             w == [old EXCEPT !.queue = Tail(@)]
  <1>1. /\ TypeOK /\ i \in DOMAIN workers[p] /\ old.alive /\ old.queue # <<>>
        /\ Set(p, i, w) /\ Goto(Head(old.queue), "over")
        /\ \E result \in Outcomes : Answered(Head(old.queue), result)
        /\ UNCHANGED <<kind, transport, forked, worker, deaths>>
    BY DEF SendSync, IInv
  <1>2. old \in WorkerObjects /\ old.queue \in Seq(Events)
    BY <1>1, WorkerType
  <1>3. Head(old.queue) \in Events /\ Tail(old.queue) \in Seq(Events)
    BY <1>1, <1>2, Taken
  <1>4. w \in WorkerObjects /\ WithoutHead(w, old)
    <2> HIDE DEF old
    <2>1. w \in WorkerObjects /\ w.queue = Tail(old.queue)
      BY <1>2, <1>3 DEF WorkerObjects
    <2> HIDE DEF w
    <2> QED BY <1>1, <1>2, <2>1, Taken DEF WithoutHead
  <1>5. deaths' \in 0..MaxDeaths
    BY <1>1 DEF TypeOK
  <1> HIDE DEF w
  <1> QED BY <1>1, <1>3, <1>4, <1>5, TakeStep

(* So does a worker that ends, *)
LEMMA DiesStep ==
    ASSUME IInv, NEW p \in Processes, NEW i \in Nat, Dies(p, i)
    PROVE  IInv'
  <1> DEFINE old == workers[p][i]
             w == [old EXCEPT !.alive = FALSE, !.queue = Tail(@)]
  <1>1. /\ TypeOK /\ i \in DOMAIN workers[p] /\ old.alive /\ old.queue # <<>>
        /\ Set(p, i, w) /\ Goto(Head(old.queue), "over")
        /\ deaths < MaxDeaths /\ deaths' = deaths + 1
        /\ UNCHANGED <<kind, transport, told, outcome, sent, forked, worker>>
    BY DEF Dies, IInv
  <1>2. old \in WorkerObjects /\ old.queue \in Seq(Events)
    BY <1>1, WorkerType
  <1>3. Head(old.queue) \in Events /\ Tail(old.queue) \in Seq(Events)
    BY <1>1, <1>2, Taken
  <1>4. w \in WorkerObjects /\ WithoutHead(w, old)
    <2> HIDE DEF old
    <2>1. w \in WorkerObjects /\ w.queue = Tail(old.queue)
      BY <1>2, <1>3 DEF WorkerObjects
    <2> HIDE DEF w
    <2> QED BY <1>1, <1>2, <2>1, Taken DEF WithoutHead
  <1>5. deaths' \in 0..MaxDeaths
    BY <1>1, BoundsAssumption DEF TypeOK
  <1> HIDE DEF w
  <1> QED BY <1>1, <1>3, <1>4, <1>5, TakeStep

(* another thread in its start() or stop(), *)
LEMMA LockStep ==
    ASSUME IInv, NEW i \in Nat, TakeLock(i) \/ LeaveLock(i)
    PROVE  IInv'
  <1> DEFINE old == workers["parent"][i]
             w == [old EXCEPT !.locked = ~old.locked]
  <1>1. /\ TypeOK /\ "parent" \in Processes /\ i \in DOMAIN workers["parent"]
        /\ Set("parent", i, w)
        /\ UNCHANGED <<kind, transport, pc, told, outcome, sent, forked, worker, deaths>>
    BY DEF TakeLock, LeaveLock, IInv, Processes
  <1>2. old \in WorkerObjects
    BY <1>1, WorkerType
  <1>3. w \in WorkerObjects /\ w.queue = old.queue /\ w.alive = old.alive
    <2> HIDE DEF old
    <2> QED BY <1>2 DEF WorkerObjects
  <1> HIDE DEF w
  <1>4. kind \in Threaded
    BY <1>1 DEF IInv, KindInv
  <1>5. TypeOK'
    <2>1. /\ deaths' \in 0..MaxDeaths /\ told' \in [Events -> {"nothing", "success", "failure"}]
          /\ outcome' \in [Events -> Outcomes \cup {None}] /\ sent' \in [Events -> Nat]
          /\ pc' \in [Events -> Places]
      BY <1>1 DEF TypeOK
    <2> QED BY <1>1, <1>3, <1>4, <2>1, SetType
  <1>6. KindInv' /\ PermitInv'
    BY <1>1, <1>4 DEF IInv, KindInv, PermitInv, Flying, transport
  <1>7. QueueInv'
    <2>1. \A f \in Events, q \in Processes : \A k, l \in Nat :
              Waits(f, q, k, l)' => Waits(f, q, k, l)
      <3>1. \A f \in Events, q \in Processes : \A k, l \in Nat :
              Waits(f, q, k, l)' =>
                 \/ Waits(f, q, k, l)
                 \/ q = "parent" /\ k = i /\ w.alive /\ l \in DOMAIN w.queue /\ w.queue[l] = f
        BY <1>1, <1>3, SetWaits
      <3> QED BY <1>1, <1>3, <3>1 DEF Waits
    <2> HIDE DEF old
    <2> QED BY <1>1, <2>1 DEF IInv, QueueInv
  <1> QED BY <1>5, <1>6, <1>7 DEF IInv

(* The child's copies of the parent's workers have no thread. *)
LEMMA ForkStep == IInv /\ Fork => IInv'
  <1> SUFFICES ASSUME IInv, Fork PROVE IInv'
    OBVIOUS
  <1> DEFINE copies == [i \in DOMAIN workers["parent"] |->
                          [workers["parent"][i] EXCEPT !.alive = FALSE]]
  <1>1. /\ TypeOK /\ kind \in Threaded /\ "parent" \in Processes /\ "child" \in Processes
        /\ forked' = TRUE /\ workers' = [workers EXCEPT !["child"] = copies]
        /\ worker' = [worker EXCEPT !["child"] = worker["parent"]]
        /\ UNCHANGED <<kind, transport, pc, told, outcome, sent, deaths>>
    BY DEF Fork, IInv, Processes
  <1>2. DOMAIN workers["parent"] = 1..Len(workers["parent"]) /\ Len(workers["parent"]) \in Nat
    BY <1>1, LenProperties DEF TypeOK
  <1>3. \A i \in DOMAIN workers["parent"] : copies[i] \in WorkerObjects /\ ~copies[i].alive
    <2> TAKE i \in DOMAIN workers["parent"]
    <2> DEFINE old == workers["parent"][i]
    <2>1. old \in WorkerObjects /\ copies[i] = [old EXCEPT !.alive = FALSE]
      BY <1>1, WorkerType
    <2> HIDE DEF old, copies
    <2> QED BY <2>1 DEF WorkerObjects
  <1>4. copies \in Seq(WorkerObjects) /\ Len(copies) = Len(workers["parent"])
        /\ DOMAIN copies = DOMAIN workers["parent"]
    <2>1. DOMAIN copies = DOMAIN workers["parent"]
      OBVIOUS
    <2>2. copies \in [1..Len(workers["parent"]) -> WorkerObjects]
      BY <1>2, <1>3
    <2> HIDE DEF copies
    <2> QED BY <1>2, <2>1, <2>2, LenProperties
  <1> HIDE DEF copies
  <1>5. /\ workers' \in [Processes -> Seq(WorkerObjects)] /\ workers'["child"] = copies
        /\ workers'["parent"] = workers["parent"]
        /\ worker' \in [Processes -> Nat] /\ worker'["parent"] = worker["parent"]
        /\ worker'["child"] = worker["parent"]
    BY <1>1, <1>4 DEF TypeOK
  <1>6. TypeOK'
    <2>1. \A q \in Processes : worker'[q] <= Len(workers'[q])
      BY <1>1, <1>4, <1>5 DEF TypeOK, Processes
    <2> QED BY <1>1, <1>5, <2>1 DEF TypeOK, transport
  <1>7. KindInv' /\ PermitInv'
    BY <1>1 DEF IInv, KindInv, PermitInv, Flying, transport
  <1>8. QueueInv'
    <2>1. \A f \in Events, q \in Processes : \A k, l \in Nat :
              Waits(f, q, k, l)' => Waits(f, q, k, l)
      BY <1>3, <1>4, <1>5 DEF Waits, Processes
    <2> QED BY <1>1, <2>1 DEF IInv, QueueInv
  <1> QED BY <1>6, <1>7, <1>8 DEF IInv

(* and what only concerns the loop. *)
LEMMA IdleStep ==
    ASSUME IInv, loop' \in {"none", "initialized", "running"},
           UNCHANGED <<kind, pc, told, outcome, sent, permits, processes>>
    PROVE  IInv'
  BY DEF IInv, TypeOK, KindInv, PermitInv, QueueInv, Waits, Flying, processes

(* Every step keeps the invariant. *)
LEMMA NextIInv == IInv /\ [Next]_vars => IInv'
  <1> SUFFICES ASSUME IInv, [Next]_vars PROVE IInv'
    OBVIOUS
  <1>1. Numbers \subseteq Nat
    BY FS_CardinalityType, BoundsAssumption DEF Numbers
  <1>2. ASSUME NEW e \in Events, Request(e) PROVE IInv'
    BY <1>2, RequestStep
  <1>3. ASSUME NEW e \in Events, NEW p \in Processes, AsyncSend(e, p) \/ QueueNew(e, p) \/ Queue(e, p)
        PROVE  IInv'
    BY <1>3, AsyncSendStep, QueueNewStep, QueueStep
  <1>4. ASSUME NEW p \in Processes, NEW i \in Numbers, SendSync(p, i) \/ Dies(p, i) PROVE IInv'
    BY <1>1, <1>4, SendSyncStep, DiesStep
  <1>5. ASSUME NEW i \in Numbers, TakeLock(i) \/ LeaveLock(i) PROVE IInv'
    BY <1>1, <1>5, LockStep
  <1>6. CASE StartLoop
    BY <1>6, IdleStep DEF StartLoop
  <1>7. CASE Fork
    BY <1>7, ForkStep
  <1>8. CASE UNCHANGED vars
    <2>1. UNCHANGED <<kind, loop, pc, told, outcome, sent, permits, processes>>
      BY <1>8 DEF vars, processes
    <2>2. loop' \in {"none", "initialized", "running"}
      BY <2>1 DEF IInv, TypeOK
    <2> QED BY <2>1, <2>2, IdleStep
  <1> QED BY <1>2, <1>3, <1>4, <1>5, <1>6, <1>7, <1>8 DEF Next

(* The invariant holds of every behaviour. *)
LEMMA Invariance == Spec => []IInv
  BY InitIInv, NextIInv, PTL DEF Spec

-----------------------------------------------------------------------------

(* Every variable of Transports keeps its type: no process has more workers *)
(* than it made, and the semaphore never has more permits than its limit.   *)
THEOREM TypeCorrect == Spec => []TypeOK
  <1>1. IInv => TypeOK
    BY DEF IInv
  <1> QED BY <1>1, Invariance, PTL

(* gevent's permits and the greenlets that hold one make up the limit, in   *)
(* any order of requests and answers, however each request ends.            *)
THEOREM PermitsReturn == Spec => []Semaphore
  <1>1. IInv => Semaphore
    BY DEF IInv, PermitInv, Semaphore, Flying
  <1> QED BY <1>1, Invariance, PTL

(* The threaded transport sends an event once at most, though the process   *)
(* forks with a full queue and workers die and are replaced; and the child  *)
(* can always take an event, whoever held the worker's lock at the fork.    *)
THEOREM ForksAreSafe == Spec => []ForkSafe
  <1>1. IInv => ForkSafe
    BY DEF IInv, QueueInv, ForkSafe, MakesWorker, TypeOK, Processes
  <1> QED BY <1>1, Invariance, PTL
=============================================================================
