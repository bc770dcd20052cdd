-------------------------- MODULE SendStateProofs --------------------------
(***************************************************************************)
(* Proofs about SendState: the types, for every set of threads, and, where *)
(* one thread alone records outcomes, that the four fields of ClientState  *)
(* say what has happened.                                                  *)
(***************************************************************************)
EXTENDS SendState, TLAPS

(* A thread is on a line of the method it is in, and on the first line when *)
(* it is in none; what set_fail() will store is a Retry-After.              *)
LineInv ==
    \A p \in Procs :
        /\ pc[p] = "success" => line[p] \in 1..4
        /\ pc[p] \notin {"success", "fail"} => line[p] = 1
        /\ pc[p] = "fail" => interval[p] \in RetryAfters \cup {0}

IInv == TypeOK /\ LineInv

-----------------------------------------------------------------------------

(* Delays are numbers. *)
LEMMA DelaysAreNumbers == RetryAfters \cup {0} \subseteq Int
  <1>1. RetryAfters \subseteq Int
    BY ConstantsAssumption
  <1> QED BY <1>1

(* A sender starts online. *)
LEMMA InitIInv == Init => IInv
  BY ConstantsAssumption DEF Init, IInv, TypeOK, LineInv, Fresh, ONLINE, ERROR, Ages

(* should_try() writes nothing that others read. *)
LEMMA ShouldTryStep ==
    ASSUME IInv, NEW s \in Senders, ShouldTry(s)
    PROVE  IInv'
  <1> USE DEF IInv, TypeOK, LineInv, Procs, Goto, history
  <1>1. CASE SendCall(s)
    BY <1>1 DEF SendCall
  <1>2. CASE ReadRetryAfter(s)
    <2>1. state.retry_after \in Int
      BY DelaysAreNumbers
    <2> HIDE DEF IInv, TypeOK, LineInv
    <2>2. interval' \in [Procs -> Int]
      BY <1>2, <2>1 DEF ReadRetryAfter, IInv, TypeOK
    <2>3. pc' \in [Procs -> {"idle", "retryAfter", "retryNumber", "lastCheck", "transmit",
                            "success", "fail"}] /\ LineInv'
      BY <1>2 DEF ReadRetryAfter, IInv, TypeOK, LineInv
    <2> QED BY <1>2, <2>2, <2>3 DEF ReadRetryAfter, IInv, TypeOK
  <1>3. CASE ReadRetryNumber(s)
    <2> DEFINE wait == state.retry_number * state.retry_number
    <2>1. wait \in Int
      BY ConstantsAssumption
    <2>2. interval' = [interval EXCEPT ![s] = wait]
      BY <1>3 DEF ReadRetryNumber
    <2> HIDE DEF wait
    <2> QED BY <1>3, <2>1, <2>2 DEF ReadRetryNumber
  <1>4. CASE ReadLastCheck(s)
    BY <1>4 DEF ReadLastCheck
  <1>5. CASE ShouldTryRaises(s)
    BY <1>5 DEF ShouldTryRaises
  <1> QED BY <1>1, <1>2, <1>3, <1>4, <1>5 DEF ShouldTry

(* The transport, and the queue in front of the workers. *)
LEMMA TransportStep ==
    ASSUME IInv, NEW p \in Procs,
           Transmit(p) \/ HandOver(p) \/ HandOverFails(p) \/ Take(p)
    PROVE  IInv'
  <1> USE DEF IInv, TypeOK, LineInv, Goto, Succeed, Fail, history
  <1>1. CASE Transmit(p)
    BY <1>1, ConstantsAssumption DEF Transmit
  <1>2. CASE HandOver(p)
    BY <1>2, ConstantsAssumption DEF HandOver
  <1>3. CASE HandOverFails(p)
    BY <1>3, ConstantsAssumption DEF HandOverFails
  <1>4. CASE Take(p)
    BY <1>4, ConstantsAssumption DEF Take
  <1> QED BY <1>1, <1>2, <1>3, <1>4

(* A line of set_success() gives one field the value it has in a new state. *)
LEMMA SuccessLine ==
    ASSUME IInv, NEW p \in Procs, SetSuccess(p)
    PROVE  /\ line[p] = 1 => state' = [state EXCEPT !.status = ONLINE]
           /\ line[p] = 2 => state' = [state EXCEPT !.last_check = None]
           /\ line[p] = 3 => state' = [state EXCEPT !.retry_number = 0]
           /\ line[p] = 4 => state' = [state EXCEPT !.retry_after = 0]
  <1> DEFINE field == SuccessFields[line[p]]
  <1>1. state' = [state EXCEPT ![field] = Fresh[field]]
    BY DEF SetSuccess
  <1>2. /\ line[p] = 1 => field = "status"
        /\ line[p] = 2 => field = "last_check"
        /\ line[p] = 3 => field = "retry_number"
        /\ line[p] = 4 => field = "retry_after"
    BY DEF SuccessFields
  <1>3. /\ Fresh.status = ONLINE /\ Fresh.last_check = None
        /\ Fresh.retry_number = 0 /\ Fresh.retry_after = 0
    BY DEF Fresh
  <1> HIDE DEF field
  <1>4. /\ field = "status" => state' = [state EXCEPT !.status = Fresh.status]
        /\ field = "last_check" => state' = [state EXCEPT !.last_check = Fresh.last_check]
        /\ field = "retry_number" => state' = [state EXCEPT !.retry_number = Fresh.retry_number]
        /\ field = "retry_after" => state' = [state EXCEPT !.retry_after = Fresh.retry_after]
    BY <1>1 DEF IInv, TypeOK
  <1> QED BY <1>2, <1>3, <1>4

(* NextLine() leaves the line within the method. *)
LEMMA NextLineInv ==
    ASSUME IInv, NEW p \in Procs, NEW last \in {4, 5}, NextLine(p, last),
           pc[p] = IF last = 4 THEN "success" ELSE "fail"
    PROVE  /\ LineInv'
           /\ pc' \in [Procs -> {"idle", "retryAfter", "retryNumber", "lastCheck", "transmit",
                                 "success", "fail"}]
           /\ line' \in [Procs -> 1..5]
           /\ interval' \in [Procs -> Int]
  BY DEF IInv, TypeOK, LineInv, NextLine, Goto

(* set_success() keeps the invariant. *)
LEMMA SetSuccessStep ==
    ASSUME IInv, NEW p \in Procs, SetSuccess(p)
    PROVE  IInv'
  <1> USE DEF IInv
  <1>1. NextLine(p, 4) /\ pc[p] = "success"
    BY DEF SetSuccess, SuccessFields
  <1>2. line[p] \in 1..4
    BY <1>1 DEF LineInv
  <1>3. state' \in [status : {ONLINE, ERROR}, last_check : Ages \cup {None},
                    retry_number : 0..MaxRetryNumber, retry_after : RetryAfters \cup {0}]
    BY <1>2, SuccessLine, ConstantsAssumption DEF TypeOK
  <1>4. fails' \in 0..MaxRetryNumber /\ since' \in Ages /\ asked' \in RetryAfters \cup {0}
    BY ConstantsAssumption DEF SetSuccess, history, TypeOK, Ages
  <1> QED BY <1>1, <1>3, <1>4, NextLineInv DEF SetSuccess, TypeOK

(* set_fail() keeps the invariant. *)
LEMMA SetFailStep ==
    ASSUME IInv, NEW p \in Procs, SetFail(p)
    PROVE  IInv'
  <1> USE DEF IInv
  <1>1. NextLine(p, 5) /\ pc[p] = "fail" /\ line[p] \in 1..5
        /\ interval[p] \in RetryAfters \cup {0} /\ number[p] \in 0..MaxRetryNumber
    BY DEF SetFail, LineInv, TypeOK
  <1>2. state' \in [status : {ONLINE, ERROR}, last_check : Ages \cup {None},
                    retry_number : 0..MaxRetryNumber, retry_after : RetryAfters \cup {0}]
    BY <1>1, ConstantsAssumption DEF SetFail, TypeOK, UpTo, Ages
  <1>3. number' \in [Procs -> 0..MaxRetryNumber]
    BY ConstantsAssumption DEF SetFail, TypeOK
  <1>4. fails' \in 0..MaxRetryNumber /\ since' \in Ages /\ asked' \in RetryAfters \cup {0}
    BY <1>1, ConstantsAssumption DEF SetFail, TypeOK, UpTo, Ages
  <1> QED BY <1>1, <1>2, <1>3, <1>4, NextLineInv DEF SetFail, TypeOK

(* Time and the server do not disturb it. *)
LEMMA WorldStep ==
    ASSUME IInv, Tick \/ ServerChanges
    PROVE  IInv'
  <1>1. CASE Tick
    BY <1>1, ConstantsAssumption DEF Tick, IInv, TypeOK, LineInv, UpTo, Ages
  <1>2. CASE ServerChanges
    BY <1>2 DEF ServerChanges, IInv, TypeOK, LineInv, history
  <1> QED BY <1>1, <1>2

(* Every step keeps it. *)
LEMMA NextIInv == IInv /\ [Next]_vars => IInv'
  <1> SUFFICES ASSUME IInv, [Next]_vars PROVE IInv'
    OBVIOUS
  <1>1. CASE UNCHANGED vars
    BY <1>1 DEF vars, history, IInv, TypeOK, LineInv
  <1>2. ASSUME NEW s \in Senders, SenderStep(s) PROVE IInv'
    BY <1>2, ShouldTryStep, TransportStep, SetSuccessStep, SetFailStep
       DEF SenderStep, Deliver, Procs
  <1>3. ASSUME NEW w \in Workers, WorkerStep(w) PROVE IInv'
    BY <1>3, TransportStep, SetSuccessStep, SetFailStep DEF WorkerStep, Deliver, Procs
  <1> QED BY <1>1, <1>2, <1>3, WorldStep DEF Next

(* The invariant holds of every behaviour. *)
LEMMA Invariance == Spec => []IInv
  BY InitIInv, NextIInv, PTL DEF Spec

(* Whatever threads interleave, no field of the state gets a value that the *)
(* others could not compute with: should_try() may find last_check missing, *)
(* but never a number that is none.                                         *)
THEOREM TypeCorrect == Spec => []TypeOK
  BY Invariance, PTL DEF IInv

-----------------------------------------------------------------------------
(* One thread records all outcomes: the only worker, where hand-overs that  *)
(* fail are raised to the application, or the only sender of a synchronous  *)
(* transport.                                                               *)
Recorder(r) ==
    /\ r \in Procs
    /\ IF Async THEN Workers = {r} /\ FALSE \notin HandoffMayFail ELSE Senders = {r}

OneRecorder == \E r : Recorder(r)

(* r is in the method and has left its first n - 1 lines behind. *)
Past(r, method, n) == pc[r] = method /\ line[r] >= n

(* Each field has the value of the new outcome from the line that assigns   *)
(* it, and until then the one of the history, which changes with the last   *)
(* line; nobody else is in a method that assigns.                           *)
AccountOf(r) ==
    /\ \A p \in Procs \ {r} : pc[p] \notin {"success", "fail"}
    /\ state.status = (CASE Past(r, "success", 2) -> ONLINE
                         [] Past(r, "fail", 2) -> ERROR
                         [] OTHER -> IF fails = 0 THEN ONLINE ELSE ERROR)
    /\ state.last_check = (IF Past(r, "success", 3) \/ (fails = 0 /\ ~ Past(r, "fail", 5))
                             THEN None ELSE since)
    /\ state.retry_number = (CASE Past(r, "success", 4) -> 0
                               [] Past(r, "fail", 4) -> UpTo(MaxRetryNumber, fails + 1)
                               [] OTHER -> fails)
    /\ state.retry_after = asked
    /\ fails = 0 => asked = 0
    /\ pc[r] = "fail" /\ line[r] = 3 => number[r] = state.retry_number

AccountInv == \A r : Recorder(r) => AccountOf(r)

(* Before anything is sent, state and history agree. *)
LEMMA InitAccount == Init => AccountInv
  BY DEF Init, AccountInv, AccountOf, Recorder, Past, Fresh, ONLINE, ERROR

(* What neither assigns a field nor brings a thread into the middle of a    *)
(* method leaves the account as it is.                                      *)
LEMMA OutsideAccount ==
    ASSUME IInv, IInv', AccountInv, UNCHANGED <<state, line, number, history>>,
           NEW r, Recorder(r),
           \A p \in Procs :
               \/ pc'[p] = pc[p]
               \/ pc[p] \notin {"success", "fail"}
                  /\ (pc'[p] \in {"success", "fail"} => p = r)
    PROVE  AccountOf(r)'
  <1>1. AccountOf(r) /\ r \in Procs
    BY DEF AccountInv, Recorder
  <1>2. pc[r] \notin {"success", "fail"} => line[r] = 1
    BY <1>1 DEF IInv, LineInv
  <1> QED BY <1>1, <1>2 DEF AccountOf, Past, history

(* should_try() changes neither the state nor the history it is of. *)
LEMMA ShouldTryAccount ==
    ASSUME IInv, IInv', AccountInv, NEW s \in Senders, ShouldTry(s), NEW r, Recorder(r)
    PROVE  AccountOf(r)'
  <1>1. UNCHANGED <<state, line, number, history>>
    BY DEF ShouldTry, SendCall, ReadRetryAfter, ReadRetryNumber, ReadLastCheck,
           ShouldTryRaises
  <1>2. /\ pc[s] \notin {"success", "fail"} /\ pc'[s] \notin {"success", "fail"}
        /\ \A p \in Procs \ {s} : pc'[p] = pc[p]
    BY DEF ShouldTry, SendCall, ReadRetryAfter, ReadRetryNumber, ReadLastCheck,
           ShouldTryRaises, Goto, IInv, TypeOK, Procs
  <1> QED BY <1>1, <1>2, OutsideAccount

(* Who records an outcome is the recorder. *)
LEMMA TransportAccount ==
    ASSUME IInv, IInv', AccountInv, NEW p \in Procs, NEW r, Recorder(r),
           Transmit(p) \/ HandOver(p) \/ HandOverFails(p) \/ (p \in Workers /\ Take(p))
    PROVE  AccountOf(r)'
  <1>1. UNCHANGED <<state, line, number, history>>
    BY DEF Transmit, HandOver, HandOverFails, Take
  <1>2. pc[p] \notin {"success", "fail"} /\ \A q \in Procs \ {p} : pc'[q] = pc[q]
    BY DEF Transmit, HandOver, HandOverFails, Take, Goto, Succeed, Fail, IInv, TypeOK
  <1>3. pc'[p] \in {"success", "fail"} => p = r
    <2>1. CASE Transmit(p)
      <3>1. p \in Workers \/ ~ Async
        BY <2>1 DEF Transmit
      <3>2. CASE Async
        BY <3>1, <3>2 DEF Recorder
      <3>3. CASE ~ Async
        BY <3>3 DEF Recorder, Async, Procs
      <3> QED BY <3>2, <3>3
    <2>2. CASE HandOver(p) \/ Take(p)
      BY <2>2 DEF HandOver, Take, Goto, IInv, TypeOK
    <2>3. CASE HandOverFails(p)
      <3>1. Async /\ raising \in HandoffMayFail
        BY <2>3 DEF HandOverFails
      <3>2. raising
        <4>1. raising \in BOOLEAN
          BY ConstantsAssumption DEF IInv, TypeOK
        <4>2. raising # FALSE
          BY <3>1 DEF Recorder
        <4> QED BY <4>1, <4>2
      <3> QED BY <2>3, <3>2 DEF HandOverFails, Goto, IInv, TypeOK
    <2> QED BY <2>1, <2>2, <2>3
  <1> QED BY <1>1, <1>2, <1>3, OutsideAccount

(* set_success() forgets every failure, as the history of a recorder does. *)
LEMMA SetSuccessAccount ==
    ASSUME IInv, AccountInv, NEW p \in Procs, SetSuccess(p), NEW r, Recorder(r)
    PROVE  AccountOf(r)'
  <1>1. AccountOf(r) /\ p = r /\ pc[r] = "success" /\ line[r] \in 1..4
    BY DEF AccountInv, AccountOf, SetSuccess, IInv, LineInv
  <1>2. NextLine(r, 4) /\ UNCHANGED <<number>>
        /\ IF line[r] = 4 THEN fails' = 0 /\ asked' = 0 /\ since' = 0 ELSE UNCHANGED history
    BY <1>1 DEF SetSuccess, SuccessFields
  <1>3. /\ line[r] = 1 => state' = [state EXCEPT !.status = ONLINE]
        /\ line[r] = 2 => state' = [state EXCEPT !.last_check = None]
        /\ line[r] = 3 => state' = [state EXCEPT !.retry_number = 0]
        /\ line[r] = 4 => state' = [state EXCEPT !.retry_after = 0]
    BY <1>1, SuccessLine
  <1> USE <1>1, <1>2, <1>3 DEF AccountOf, Past, NextLine, Goto, IInv, TypeOK, history
  <1>4. CASE line[r] = 1
    BY <1>4
  <1>5. CASE line[r] = 2
    BY <1>5
  <1>6. CASE line[r] = 3
    BY <1>6
  <1>7. CASE line[r] = 4
    BY <1>7
  <1> QED BY <1>1, <1>4, <1>5, <1>6, <1>7

(* set_fail() counts one failure more, as the history of a recorder does. *)
LEMMA SetFailAccount ==
    ASSUME IInv, AccountInv, NEW p \in Procs, SetFail(p), NEW r, Recorder(r)
    PROVE  AccountOf(r)'
  <1>1. AccountOf(r) /\ p = r /\ pc[r] = "fail" /\ line[r] \in 1..5
    BY DEF AccountInv, AccountOf, SetFail, IInv, TypeOK
  <1> USE <1>1 DEF AccountOf, Past, SetFail, NextLine, Goto, IInv, TypeOK, history, UpTo
  <1>2. CASE line[r] = 1
    BY <1>2
  <1>3. CASE line[r] = 2
    BY <1>3
  <1>4. CASE line[r] = 3
    BY <1>4
  <1>5. CASE line[r] = 4
    BY <1>5
  <1>6. CASE line[r] = 5
    <2>1. MaxRetryNumber \in Nat \ {0}
      BY ConstantsAssumption
    <2> QED BY <1>6, <2>1
  <1> QED BY <1>1, <1>2, <1>3, <1>4, <1>5, <1>6

(* Time passes for the field and for the history alike. *)
LEMMA TickAccount ==
    ASSUME IInv, AccountInv, Tick, NEW r, Recorder(r)
    PROVE  AccountOf(r)'
  <1>1. AccountOf(r)
    BY DEF AccountInv
  <1>2. None \notin Ages
    BY ConstantsAssumption DEF Ages
  <1> QED BY <1>1, <1>2 DEF AccountOf, Past, Tick, IInv, TypeOK

(* Every step keeps state and history in agreement. *)
LEMMA NextAccount == IInv /\ IInv' /\ AccountInv /\ [Next]_vars => AccountInv'
  <1> SUFFICES ASSUME IInv, IInv', AccountInv, [Next]_vars, NEW r, Recorder(r)
               PROVE  AccountOf(r)'
    BY DEF AccountInv, Recorder
  <1>1. CASE UNCHANGED vars \/ ServerChanges
    BY <1>1, OutsideAccount DEF vars, ServerChanges, history
  <1>2. ASSUME NEW s \in Senders, SenderStep(s) PROVE AccountOf(r)'
    BY <1>2, ShouldTryAccount, TransportAccount, SetSuccessAccount, SetFailAccount
       DEF SenderStep, Deliver, Procs
  <1>3. ASSUME NEW w \in Workers, WorkerStep(w) PROVE AccountOf(r)'
    BY <1>3, TransportAccount, SetSuccessAccount, SetFailAccount DEF WorkerStep, Deliver, Procs
  <1> QED BY <1>1, <1>2, <1>3, TickAccount DEF Next

(* Where one thread records, the four fields of ClientState, written one by *)
(* one and without a lock, mix no two outcomes and keep nothing from before *)
(* the last success.                                                        *)
THEOREM StateMatches == OneRecorder /\ Spec => []StateMatchesHistory
  <1> SUFFICES ASSUME OneRecorder PROVE Spec => []StateMatchesHistory
    OBVIOUS
  <1>1. IInv /\ AccountInv => StateMatchesHistory
    <2> SUFFICES ASSUME IInv, AccountInv, NoUpdate PROVE StateMatchesHistory
      BY DEF StateMatchesHistory
    <2>1. PICK r : Recorder(r) /\ AccountOf(r)
      BY DEF OneRecorder, AccountInv
    <2>2. pc[r] \notin {"success", "fail"}
      BY <2>1 DEF NoUpdate, Recorder
    <2> QED BY <2>1, <2>2 DEF AccountOf, Past, StateMatchesHistory, Fresh, IInv, TypeOK
  <1> QED BY <1>1, InitIInv, NextIInv, InitAccount, NextAccount, PTL DEF Spec
=============================================================================
