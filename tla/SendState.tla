----------------------------- MODULE SendState -----------------------------
(***************************************************************************)
(* Client.send_remote and the ClientState that makes a client back off     *)
(* from a server that fails (raven.base), for several threads that share   *)
(* the client. With Workers = {} the transport is synchronous and the      *)
(* sender itself records the outcome; otherwise it hands the event over    *)
(* (transport.async_send) and a worker thread records the outcome through  *)
(* the callbacks. Neither takes a lock: every access to a field of the     *)
(* state is a step of its own.                                             *)
(*                                                                         *)
(* Time is kept as ages: last_check is the time since it was written.      *)
(***************************************************************************)
EXTENDS Integers, Sequences

CONSTANTS
    Senders,          \* threads that call send_remote()
    Workers,          \* threads that deliver for an asynchronous transport
    MaxInflight,      \* bound on the events handed over and not yet taken
    RetryAfters,      \* what a failure may ask for: 0, or the Retry-After of a 429
    RaiseSendErrors,  \* the values of the client's raise_send_errors option
    HandoffMayFail,   \* with which of them async_send() may raise (no thread,
                      \* or the worker is being stopped)
    MaxRetryNumber,   \* where the interval stops growing: 6 in the code
    MaxAge,           \* beyond every interval: more age makes no difference
    None

ASSUME ConstantsAssumption ==
    /\ Senders \cap Workers = {}
    /\ MaxInflight \in Nat
    /\ RetryAfters \subseteq Int
    /\ MaxRetryNumber \in Nat \ {0}
    /\ MaxAge \in Nat
    /\ \A wait \in RetryAfters \cup {MaxRetryNumber * MaxRetryNumber} : wait < MaxAge
    /\ RaiseSendErrors \in (SUBSET BOOLEAN) \ {{}}
    /\ HandoffMayFail \subseteq RaiseSendErrors
    /\ None \notin Int

VARIABLES
    state,     \* ClientState: its four fields
    pc,        \* where each thread is in send_remote() or a callback
    line,      \* the next assignment of set_success() or set_fail()
    interval,  \* should_try's interval; then the retry_after of a failure
    number,    \* the value of retry_number that `+= 1` has read
    inflight,  \* events handed over to the workers
    up,        \* the server accepts events
    raising,   \* raise_send_errors of this client
    \* What has really happened, as far as set_success() and set_fail() told:
    fails,     \* failures since the last success
    since,     \* time since the last of them
    asked      \* its retry_after

vars == <<state, pc, line, interval, number, inflight, up, raising, fails, since, asked>>
history == <<fails, since, asked>>

Procs == Senders \cup Workers
Async == Workers # {}
ONLINE == 1
ERROR == 0

(* Counts and ages need not grow beyond a bound. *)
UpTo(bound, n) == IF n > bound THEN bound ELSE n
Ages == 0..MaxAge

(* What __init__ and set_success() leave behind. *)
Fresh == [status |-> ONLINE, last_check |-> None, retry_number |-> 0, retry_after |-> 0]

TypeOK ==
    /\ state \in [status : {ONLINE, ERROR}, last_check : Ages \cup {None},
                  retry_number : 0..MaxRetryNumber, retry_after : RetryAfters \cup {0}]
    /\ pc \in [Procs -> {"idle", "retryAfter", "retryNumber", "lastCheck", "transmit",
                         "success", "fail"}]
    /\ line \in [Procs -> 1..5]
    /\ interval \in [Procs -> Int]
    /\ number \in [Procs -> 0..MaxRetryNumber]
    /\ inflight \in 0..MaxInflight
    /\ up \in BOOLEAN
    /\ raising \in RaiseSendErrors
    /\ fails \in 0..MaxRetryNumber
    /\ since \in Ages
    /\ asked \in RetryAfters \cup {0}

Init ==
    /\ state = Fresh
    /\ pc = [p \in Procs |-> "idle"]
    /\ line = [p \in Procs |-> 1]
    /\ interval = [p \in Procs |-> 0]
    /\ number = [p \in Procs |-> 0]
    /\ inflight = 0
    /\ up = TRUE
    /\ raising \in RaiseSendErrors
    /\ fails = 0
    /\ since = 0
    /\ asked = 0

Goto(p, label) == pc' = [pc EXCEPT ![p] = label]

-----------------------------------------------------------------------------
(* should_try() *)

(* Mutant: the comparison is the wrong way round. *)
RetryTooSoon(age, wait) == age <= wait

RetryDue(age, wait) == age > wait

(* The state is ONLINE, or the application takes care of failures itself. *)
SendCall(s) ==
    /\ pc[s] = "idle"
    /\ Goto(s, IF raising \/ state.status = ONLINE THEN "transmit"
                                                           ELSE "retryAfter")
    /\ UNCHANGED <<state, line, interval, number, inflight, up, raising, history>>

ReadRetryAfter(s) ==
    /\ pc[s] = "retryAfter"
    /\ interval' = [interval EXCEPT ![s] = state.retry_after]
    /\ Goto(s, IF state.retry_after # 0 THEN "lastCheck" ELSE "retryNumber")
    /\ UNCHANGED <<state, line, number, inflight, up, raising, history>>

ReadRetryNumber(s) ==
    /\ pc[s] = "retryNumber"
    /\ interval' = [interval EXCEPT ![s] = state.retry_number * state.retry_number]
    /\ Goto(s, "lastCheck")
    /\ UNCHANGED <<state, line, number, inflight, up, raising, history>>

(* Too early: the event goes to the log instead of the server. *)
ReadLastCheck(s) ==
    /\ pc[s] = "lastCheck"
    /\ state.last_check # None
    /\ Goto(s, IF RetryDue(state.last_check, interval[s]) THEN "transmit" ELSE "idle")
    /\ interval' = [interval EXCEPT ![s] = 0]
    /\ UNCHANGED <<state, line, number, inflight, up, raising, history>>

(* time.time() - None: a TypeError, which nothing in the client catches. *)
ShouldTryRaises(s) ==
    /\ pc[s] = "lastCheck"
    /\ state.last_check = None
    /\ Goto(s, "idle")
    /\ interval' = [interval EXCEPT ![s] = 0]
    /\ UNCHANGED <<state, line, number, inflight, up, raising, history>>

-----------------------------------------------------------------------------
(* The transport, and the assignments of set_success() and set_fail(). *)

(* Mutant: an answer 429 without a Retry-After header sets no number. *)
FailWithoutHeader(p, after) ==
    Goto(p, "fail") /\ interval' = [interval EXCEPT ![p] = IF after = 0 THEN None ELSE after]

(* set_success(), or set_fail(retry_after = after), is about to run. *)
Succeed(p) == Goto(p, "success") /\ UNCHANGED interval
Fail(p, after) == Goto(p, "fail") /\ interval' = [interval EXCEPT ![p] = after]

(* The request is over. A client told to raise the errors does so where the *)
(* sender has the outcome, and then keeps no account of them.               *)
Transmit(p) ==
    /\ pc[p] = "transmit"
    /\ p \in Workers \/ ~Async
    /\ \/ up /\ Succeed(p)
       \/ /\ ~up
          /\ IF p \in Senders /\ raising
               THEN Goto(p, "idle") /\ UNCHANGED interval
               ELSE \E after \in RetryAfters : Fail(p, after)
    /\ UNCHANGED <<state, line, number, inflight, up, raising, history>>

HandOver(s) ==
    /\ pc[s] = "transmit"
    /\ s \in Senders /\ Async
    /\ inflight < MaxInflight
    /\ inflight' = inflight + 1
    /\ Goto(s, "idle")
    /\ UNCHANGED <<state, line, interval, number, up, raising, history>>

HandOverFails(s) ==
    /\ raising \in HandoffMayFail
    /\ pc[s] = "transmit"
    /\ s \in Senders /\ Async
    /\ IF raising THEN Goto(s, "idle") /\ UNCHANGED interval ELSE Fail(s, 0)
    /\ UNCHANGED <<state, line, number, inflight, up, raising, history>>

Take(w) ==
    /\ pc[w] = "idle"
    /\ inflight > 0
    /\ inflight' = inflight - 1
    /\ Goto(w, "transmit")
    /\ UNCHANGED <<state, line, interval, number, up, raising, history>>

(* After its last line a method returns, and its thread is done. *)
NextLine(p, last) ==
    IF line[p] = last
      THEN line' = [line EXCEPT ![p] = 1] /\ Goto(p, "idle")
           /\ interval' = [interval EXCEPT ![p] = 0]
      ELSE line' = [line EXCEPT ![p] = @ + 1] /\ UNCHANGED <<pc, interval>>

(* Mutant: set_success() forgets the last field. *)
KeepRetryAfter == <<"status", "last_check", "retry_number">>

SuccessFields == <<"status", "last_check", "retry_number", "retry_after">>

SetSuccess(p) ==
    /\ pc[p] = "success"
    /\ LET field == SuccessFields[line[p]]
       IN  state' = [state EXCEPT ![field] = Fresh[field]]
    /\ NextLine(p, Len(SuccessFields))
    /\ IF line[p] = Len(SuccessFields) THEN fails' = 0 /\ asked' = 0 /\ since' = 0
                                       ELSE UNCHANGED history
    /\ UNCHANGED <<number, inflight, up, raising>>

(* `self.retry_number += 1` reads the field in line 2 and writes it in 3. *)
SetFail(p) ==
    /\ pc[p] = "fail"
    /\ number' = [number EXCEPT ![p] = IF line[p] = 2 THEN state.retry_number ELSE 0]
    /\ state' = CASE line[p] = 1 -> [state EXCEPT !.status = ERROR]
                  [] line[p] = 2 -> state
                  [] line[p] = 3 -> [state EXCEPT
                                       !.retry_number = UpTo(MaxRetryNumber, number[p] + 1)]
                  [] line[p] = 4 -> [state EXCEPT !.last_check = 0]
                  [] line[p] = 5 -> [state EXCEPT !.retry_after = interval[p]]
    /\ NextLine(p, 5)
    /\ since' = IF line[p] = 4 THEN 0 ELSE since
    /\ IF line[p] = 5 THEN fails' = UpTo(MaxRetryNumber, fails + 1) /\ asked' = interval[p]
                      ELSE UNCHANGED <<fails, asked>>
    /\ UNCHANGED <<inflight, up, raising>>

-----------------------------------------------------------------------------
(* The world: time passes, the server goes down and comes back. *)

Tick ==
    /\ fails > 0 \/ state.last_check # None
    /\ since' = UpTo(MaxAge, since + 1)
    /\ state' = [state EXCEPT !.last_check = IF @ = None THEN None ELSE UpTo(MaxAge, @ + 1)]
    /\ UNCHANGED <<pc, line, interval, number, inflight, up, raising, fails, asked>>

ServerChanges ==
    /\ up' = ~up
    /\ UNCHANGED <<state, pc, line, interval, number, inflight, raising, history>>

-----------------------------------------------------------------------------

ShouldTry(s) ==
    \/ SendCall(s) \/ ReadRetryAfter(s) \/ ReadRetryNumber(s)
    \/ ReadLastCheck(s) \/ ShouldTryRaises(s)

Deliver(p) == Transmit(p) \/ SetSuccess(p) \/ SetFail(p)

SenderStep(s) == ShouldTry(s) \/ Deliver(s) \/ HandOver(s) \/ HandOverFails(s)
WorkerStep(w) == Take(w) \/ Deliver(w)

Next ==
    \/ \E s \in Senders : SenderStep(s)
    \/ \E w \in Workers : WorkerStep(w)
    \/ Tick
    \/ ServerChanges

Spec == Init /\ [][Next]_vars

(* The threads run, time passes, and the application goes on having events. *)
FairSpec ==
    /\ Spec
    /\ \A s \in Senders : WF_vars(SenderStep(s))
    /\ \A w \in Workers : WF_vars(WorkerStep(w))
    /\ WF_vars(Tick)

-----------------------------------------------------------------------------
(* Properties *)

NoUpdate == \A p \in Procs : pc[p] \notin {"success", "fail"}

(* Between the updates, the four fields say exactly what has happened: they *)
(* mix no two outcomes, and keep nothing from before the last success.      *)
StateMatchesHistory ==
    NoUpdate =>
        state = IF fails = 0
                  THEN Fresh
                  ELSE [status |-> ERROR, last_check |-> since,
                        retry_number |-> fails, retry_after |-> asked]

(* Once the server stays up and events can be handed over, a client whose   *)
(* application goes on sending comes back online and stays so, however many *)
(* failures it has counted.                                                 *)
Recovers ==
    <>[]up /\ <>[][\A s \in Senders : ~ HandOverFails(s)]_vars => <>[](state.status = ONLINE)

(* "Test for the default behaviour in which a send error is handled by the  *)
(* client": the back-off itself raises nothing into the application.        *)
SendErrorsHandled == [][~ \E s \in Senders : ShouldTryRaises(s)]_vars

(* What test_set_fail asserts of set_fail(), with two threads: a state that *)
(* has failed knows when. (Otherwise should_try() raises from then on, and  *)
(* nothing is ever sent again that could repair it.)                        *)
FailedStateHasTime == NoUpdate /\ state.status = ERROR => state.last_check # None
=============================================================================
