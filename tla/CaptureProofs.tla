--------------------------- MODULE CaptureProofs ---------------------------
(***************************************************************************)
(* Proofs about Capture, for every buffer limit, set of crumbs and set of  *)
(* exception keys: the types, that an exception gets one event, and that   *)
(* an event has the crumbs that it should.                                 *)
(***************************************************************************)
EXTENDS Capture, TLAPS, SequenceTheorems

(* The loop of get_buffer() has collected at most one crumb for each of the *)
(* positions before idx, and never runs ahead of the buffer: a crumb that a *)
(* processor records can only make it longer.                               *)
LoopInv ==
    /\ Len(rv) < idx
    /\ pc # "app" => idx <= Len(buffer) + 1
    /\ pc = "processor" => idx <= Len(buffer)

(* What has an event was marked as seen before; what is about to get one was *)
(* marked when the capture began, and had none.                              *)
SkipInv ==
    /\ told \subseteq skip
    /\ pc # "app" /\ captured # None => captured \in skip \ told /\ captured = error
    /\ error # None => error \in traces

IInv == TypeOK /\ LoopInv /\ SkipInv

-----------------------------------------------------------------------------
(* The helpers *)

(* record() trims the list to the limit, and never makes it shorter. *)
LEMMA NewestBounds ==
    ASSUME NEW s \in Seq(Crumbs), Len(s) <= Limit, NEW crumb \in Crumbs
    PROVE  LET new == Newest(Append(s, crumb))
           IN  new \in Seq(Crumbs) /\ Len(new) <= Limit /\ Len(new) >= Len(s)
  BY ConstantsAssumption DEF Newest

(* The last crumbs are never more than the limit. *)
LEMMA RememberBounds ==
    ASSUME newest \in Seq(Crumbs), Len(newest) <= Limit, NEW crumb \in Crumbs,
           Remember(crumb)
    PROVE  newest' \in Seq(Crumbs) /\ Len(newest') <= Limit
  BY ConstantsAssumption DEF Remember

(* What an empty buffer and an empty event are. *)
LEMMA EmptyBounds ==
    /\ <<>> \in Seq(Crumbs) /\ <<>> \in Seq(Bodies)
    /\ Len(<<>>) <= Limit
  <1>1. 0 <= Limit
    BY ConstantsAssumption
  <1> QED BY <1>1, EmptySeq

(* get_buffer() collects at most one crumb in an iteration. *)
LEMMA CollectBounds ==
    ASSUME NEW found \in Seq(Bodies), NEW body \in Bodies \cup {None}
    PROVE  /\ Collect(found, body) \in Seq(Bodies)
           /\ Len(Collect(found, body)) <= Len(found) + 1
  <1>1. CASE body = None \/ (found # <<>> /\ Last(found) = body)
    BY <1>1 DEF Collect
  <1>2. CASE ~(body = None \/ (found # <<>> /\ Last(found) = body))
    BY <1>2 DEF Collect
  <1> QED BY <1>1, <1>2

-----------------------------------------------------------------------------

(* A new Context establishes the invariant. *)
LEMMA InitIInv == Init => IInv
  <1> SUFFICES ASSUME Init PROVE IInv
    OBVIOUS
  <1>1. NoCrumb \in Crumbs
    BY DEF NoCrumb, Crumbs
  <1>2. TypeOK
    <2>1. 1 \in 1..(Limit + 1)
      BY ConstantsAssumption
    <2> QED BY <1>1, <2>1, EmptyBounds DEF Init, TypeOK
  <1>3. LoopInv /\ SkipInv
    BY EmptySeq DEF Init, LoopInv, SkipInv
  <1> QED BY <1>2, <1>3 DEF IInv

(* What the application does outside capture(). *)
LEMMA ApplicationStep ==
    ASSUME IInv,
           \/ \E crumb \in NewCrumbs : RecordCrumb(crumb)
           \/ \E on \in BOOLEAN : Activate(on)
           \/ Clear
           \/ \E key \in Keys : Raise(key) \/ Reraise(key)
           \/ Handled
    PROVE  IInv'
  <1> USE DEF IInv, contextVars, captureVars, errorVars, recordVars
  <1>1. ASSUME NEW crumb \in NewCrumbs, RecordCrumb(crumb) PROVE IInv'
    <2> crumb \in Crumbs
      BY DEF NewCrumbs
    <2>1. buffer' \in Seq(Crumbs) /\ Len(buffer') <= Limit /\ Len(buffer') >= Len(buffer)
      BY <1>1, NewestBounds DEF RecordCrumb, Record, TypeOK
    <2>2. newest' \in Seq(Crumbs) /\ Len(newest') <= Limit
      BY <1>1, RememberBounds DEF RecordCrumb, TypeOK
    <2> QED BY <1>1, <2>1, <2>2 DEF RecordCrumb, TypeOK, LoopInv, SkipInv
  <1>2. ASSUME NEW on \in BOOLEAN, Activate(on) PROVE IInv'
    BY <1>2 DEF Activate, TypeOK, LoopInv, SkipInv
  <1>3. CASE Clear
    <2>1. active' \in BOOLEAN
      BY <1>3 DEF Clear
    <2>2. TypeOK'
      BY <1>3, <2>1, EmptyBounds DEF Clear, TypeOK
    <2> QED BY <1>3, <2>2, EmptySeq DEF Clear, LoopInv, SkipInv, TypeOK
  <1>4. ASSUME NEW key \in Keys, Raise(key) PROVE IInv'
    BY <1>4 DEF Raise, TypeOK, LoopInv, SkipInv
  <1>5. ASSUME NEW key \in Keys, Reraise(key) PROVE IInv'
    BY <1>5 DEF Reraise, TypeOK, LoopInv, SkipInv
  <1>6. CASE Handled
    BY <1>6 DEF Handled, TypeOK, LoopInv, SkipInv
  <1> QED BY <1>1, <1>2, <1>3, <1>4, <1>5, <1>6

(* A capture() begins that will build an event. *)
LEMMA BeginStep ==
    ASSUME IInv, CaptureMessage \/ CaptureException
    PROVE  IInv'
  <1> USE ConstantsAssumption DEF IInv, BeginBuild, errorVars, recordVars
  <1>1. CASE CaptureMessage
    BY <1>1 DEF CaptureMessage, TypeOK, LoopInv, SkipInv
  <1>2. CASE CaptureException
    BY <1>2 DEF CaptureException, SkipError, TypeOK, LoopInv, SkipInv
  <1> QED BY <1>1, <1>2

(* The loop of get_buffer(). *)
LEMMA LoopStep ==
    ASSUME IInv, Plain \/ CallProcessor \/ ProcessorReturns \/ LoopOver
    PROVE  IInv'
  <1> USE ConstantsAssumption DEF IInv, contextVars, errorVars, recordVars
  <1>1. CASE Plain
    <2> buffer[idx] \in Crumbs
      BY <1>1 DEF Plain, TypeOK
    <2>1. buffer[idx].body \in Bodies \cup {None}
      BY DEF Crumbs
    <2>2. rv' \in Seq(Bodies) /\ Len(rv') <= Len(rv) + 1
      BY <1>1, <2>1, CollectBounds DEF Plain, TypeOK
    <2> QED BY <1>1, <2>2 DEF Plain, NextIndex, TypeOK, LoopInv, SkipInv
  <1>2. CASE CallProcessor
    BY <1>2 DEF CallProcessor, TypeOK, LoopInv, SkipInv
  <1>3. CASE ProcessorReturns
    <2> DEFINE crumb == [payload EXCEPT !.processor = None]
    <2>1. payload.body \in Bodies \cup {None} /\ crumb \in Crumbs
      BY DEF TypeOK, Crumbs
    <2>2. rv' \in Seq(Bodies) /\ Len(rv') <= Len(rv) + 1
      BY <1>3, <2>1, CollectBounds DEF ProcessorReturns, TypeOK
    <2>3. buffer' \in Seq(Crumbs) /\ Len(buffer') = Len(buffer)
      <3>1. buffer' = [buffer EXCEPT ![idx] = crumb]
        BY <1>3 DEF ProcessorReturns
      <3>2. idx \in 1..Len(buffer) /\ buffer \in Seq(Crumbs)
        BY <1>3 DEF ProcessorReturns, TypeOK, LoopInv
      <3> HIDE DEF crumb
      <3> QED BY ONLY <2>1, <3>1, <3>2, ExceptSeq
    <2>4. NoCrumb \in Crumbs
      BY DEF NoCrumb, Crumbs
    <2> QED BY <1>3, <2>2, <2>3, <2>4
            DEF ProcessorReturns, NextIndex, TypeOK, LoopInv, SkipInv
  <1>4. CASE LoopOver
    BY <1>4 DEF LoopOver, TypeOK, LoopInv, SkipInv
  <1> QED BY <1>1, <1>2, <1>3, <1>4

(* A processor may record into the buffer that is being iterated. *)
LEMMA LogStep ==
    ASSUME IInv, NEW crumb \in NewCrumbs, ProcessorLogs(crumb)
    PROVE  IInv'
  <1> USE DEF IInv, contextVars, errorVars, recordVars
  <1>1. crumb \in Crumbs
    BY DEF NewCrumbs
  <1>2. buffer' \in Seq(Crumbs) /\ Len(buffer') <= Limit /\ Len(buffer') >= Len(buffer)
    <2>1. CASE active
      BY <1>1, <2>1, NewestBounds DEF ProcessorLogs, Record, TypeOK
    <2>2. CASE ~active
      BY <2>2 DEF ProcessorLogs, TypeOK
    <2> QED BY <2>1, <2>2
  <1>3. newest' \in Seq(Crumbs) /\ Len(newest') <= Limit
    BY <1>1, RememberBounds DEF ProcessorLogs, TypeOK
  <1>4. payload' \in Crumbs
    BY DEF ProcessorLogs, TypeOK, Crumbs, ProcessorKinds
  <1>5. shifted' \in BOOLEAN
    BY DEF ProcessorLogs, TypeOK
  <1>6. pc' = pc /\ captured' = captured /\ idx' = idx /\ rv' = rv /\ skip' = skip
        /\ active' = active /\ error' = error /\ told' = told /\ traces' = traces
    BY DEF ProcessorLogs
  <1> QED BY <1>2, <1>3, <1>4, <1>5, <1>6 DEF TypeOK, LoopInv, SkipInv

(* The two ways out of capture(). *)
LEMMA EndStep ==
    ASSUME IInv, Send \/ ProcessorRaises
    PROVE  IInv'
  <1> USE ConstantsAssumption DEF IInv, CaptureOver, contextVars, errorVars, recordVars
  <1>1. CASE Send
    BY <1>1 DEF Send, TypeOK, LoopInv, SkipInv
  <1>2. CASE ProcessorRaises
    BY <1>2 DEF ProcessorRaises, NoCrumb, Crumbs, TypeOK, LoopInv, SkipInv
  <1> QED BY <1>1, <1>2

(* Every step preserves the invariant. *)
LEMMA NextIInv == IInv /\ [Next]_vars => IInv'
  <1> SUFFICES ASSUME IInv, [Next]_vars PROVE IInv'
    OBVIOUS
  <1>1. CASE UNCHANGED vars
    BY <1>1 DEF vars, contextVars, captureVars, errorVars, recordVars, IInv, TypeOK,
                LoopInv, SkipInv
  <1>2. CASE Skipped \/ Filtered
    BY <1>1, <1>2 DEF Skipped, Filtered
  <1>3. CASE CaptureStep
    BY <1>3, LoopStep, LogStep, EndStep DEF CaptureStep
  <1> QED BY <1>1, <1>2, <1>3, ApplicationStep, BeginStep DEF Next

(* The invariant holds in every reachable state. *)
THEOREM Invariance == Spec => []IInv
  BY InitIInv, NextIInv, PTL DEF Spec

(* The buffer never exceeds its limit, whatever the processors record while *)
(* it is iterated, nor does get_buffer() ever index beyond its end.         *)
THEOREM TypeCorrect == Spec => []TypeOK
  BY Invariance, PTL DEF IInv

(* Two reports of an exception in flight do not result in two events. *)
THEOREM OneEventPerException == Spec => ReportedOnce
  <1>1. IInv /\ [Next]_vars => [Send /\ captured # None => captured \notin told]_vars
    BY DEF IInv, SkipInv, Send
  <1> QED BY <1>1, Invariance, PTL DEF Spec, ReportedOnce

-----------------------------------------------------------------------------
(* The crumbs of an event *)

(* The list that the code trims and the crumbs that should be left are the  *)
(* same, but for what processors make of their crumbs, unless one has       *)
(* recorded into a full buffer. The loop has collected what is before it.   *)
CrumbInv ==
    ~shifted =>
        /\ Len(buffer) = Len(newest)
        /\ \A i \in 1..Len(newest) : buffer[i].body = newest[i].body
        /\ pc # "app" => Attached(idx - 1, newest, rv)
        /\ pc = "processor" => payload.body = newest[idx].body
        /\ pc = "built" => idx = Len(newest) + 1

(* record() and the last Limit crumbs drop the same one, if they drop any. *)
LEMMA RecordRemembers ==
    ASSUME TypeOK, Len(buffer) = Len(newest),
           \A i \in 1..Len(newest) : buffer[i].body = newest[i].body,
           NEW crumb \in Crumbs, Record(crumb), Remember(crumb)
    PROVE  /\ Len(buffer') = Len(newest')
           /\ \A i \in 1..Len(newest') : buffer'[i].body = newest'[i].body
           /\ Len(buffer) < Limit => /\ Len(newest') = Len(newest) + 1
                                     /\ \A i \in 1..Len(newest) : newest'[i] = newest[i]
  <1> DEFINE n == Len(newest)
             b == Append(buffer, crumb)
             all == Append(newest, crumb)
  <1>1. /\ buffer \in Seq(Crumbs) /\ newest \in Seq(Crumbs) /\ n \in Nat
        /\ n <= Limit /\ Limit \in Nat \ {0}
    BY ConstantsAssumption DEF TypeOK
  <1>2. /\ b \in Seq(Crumbs) /\ all \in Seq(Crumbs) /\ Len(b) = n + 1 /\ Len(all) = n + 1
        /\ \A i \in 1..n : b[i] = buffer[i] /\ all[i] = newest[i]
        /\ b[n + 1] = crumb /\ all[n + 1] = crumb
    BY <1>1, AppendProperties
  <1>3. \A i \in 1..(n + 1) : b[i].body = all[i].body
    BY <1>1, <1>2
  <1>4. buffer' = Newest(b) /\ newest' = SubSeq(all, IF Len(all) > Limit THEN 2 ELSE 1, Len(all))
    BY DEF Record, Remember
  <1> HIDE DEF n, b, all
  <1>5. CASE n < Limit
    <2>1. buffer' = b /\ newest' = SubSeq(all, 1, n + 1)
      BY <1>1, <1>2, <1>4, <1>5 DEF Newest
    <2>2. Len(newest') = n + 1 /\ \A i \in 1..(n + 1) : newest'[i] = all[i]
      BY <1>1, <1>2, <2>1, SubSeqProperties
    <2> QED
      BY <1>1, <1>2, <1>3, <2>1, <2>2 DEF n
  <1>6. CASE n = Limit
    <2>1. buffer' = SubSeq(b, 2, n + 1) /\ newest' = SubSeq(all, 2, n + 1)
      BY <1>1, <1>2, <1>4, <1>6 DEF Newest
    <2>2. /\ Len(newest') = n /\ \A i \in 1..n : newest'[i] = all[i + 1]
          /\ Len(buffer') = n /\ \A i \in 1..n : buffer'[i] = b[i + 1]
      BY <1>1, <1>2, <2>1, SubSeqProperties
    <2>3. \A i \in 1..n : i + 1 \in 1..(n + 1)
      BY <1>1
    <2> QED
      BY <1>1, <1>3, <1>6, <2>2, <2>3 DEF n
  <1> QED
    BY <1>1, <1>5, <1>6

(* Nothing is attached of no crumbs. *)
LEMMA AttachedNone ==
    ASSUME NEW crumbs
    PROVE  Attached(0, crumbs, <<>>)
  <1> DEFINE place == [i \in 0..0 |-> 0]
  <1>1. place \in [0..0 -> 0..Len(<<>>)] /\ place[0] = 0 /\ Len(<<>>) = 0
    OBVIOUS
  <1> HIDE DEF place
  <1> QED
    BY <1>1 DEF Attached

(* What is attached depends on the bodies of the first n crumbs only. *)
LEMMA AttachedSame ==
    ASSUME NEW n \in Nat, NEW crumbs, NEW others, NEW bodies, Attached(n, crumbs, bodies),
           \A i \in 1..n : others[i].body = crumbs[i].body
    PROVE  Attached(n, others, bodies)
  <1>1. PICK place \in [0..n -> 0..Len(bodies)] :
          /\ place[0] = 0 /\ place[n] = Len(bodies)
          /\ \A i \in 1..n :
                IF crumbs[i].body = None
                THEN place[i] = place[i - 1]
                ELSE /\ place[i] \in {place[i - 1], place[i - 1] + 1} \ {0}
                     /\ bodies[place[i]] = crumbs[i].body
    BY DEF Attached
  <1>2. \A i \in 1..n :
          IF others[i].body = None
          THEN place[i] = place[i - 1]
          ELSE /\ place[i] \in {place[i - 1], place[i - 1] + 1} \ {0}
               /\ bodies[place[i]] = others[i].body
    BY <1>1
  <1>3. \A k \in 2..Len(bodies) : bodies[k] # bodies[k - 1]
    BY DEF Attached
  <1> QED
    BY <1>1, <1>2, <1>3 DEF Attached

(* One iteration of get_buffer() attaches the next crumb. *)
LEMMA CollectAttaches ==
    ASSUME NEW n \in Nat, NEW crumbs \in Seq(Crumbs), n < Len(crumbs),
           NEW bodies \in Seq(Bodies), Attached(n, crumbs, bodies)
    PROVE  Attached(n + 1, crumbs, Collect(bodies, crumbs[n + 1].body))
  <1> DEFINE body == crumbs[n + 1].body
             new == Collect(bodies, body)
             m == Len(bodies)
  <1>1. PICK place \in [0..n -> 0..m] :
          /\ place[0] = 0 /\ place[n] = m
          /\ \A i \in 1..n :
                IF crumbs[i].body = None
                THEN place[i] = place[i - 1]
                ELSE /\ place[i] \in {place[i - 1], place[i - 1] + 1} \ {0}
                     /\ bodies[place[i]] = crumbs[i].body
    BY DEF Attached
  <1>2. m \in Nat /\ (bodies # <<>> => m >= 1 /\ Last(bodies) = bodies[m])
        /\ (bodies = <<>> => m = 0)
    BY EmptySeq DEF Last
  <1>3. body = None \/ body \in Bodies
    <2>1. n + 1 \in 1..Len(crumbs)
      OBVIOUS
    <2>2. crumbs[n + 1] \in Crumbs
      BY <2>1
    <2> QED
      BY <2>2 DEF Crumbs
  <1> HIDE DEF body
  <1>4. /\ Len(new) \in {m, m + 1} /\ \A k \in 1..m : new[k] = bodies[k]
        /\ body = None => Len(new) = m
        /\ body # None => Len(new) >= 1 /\ new[Len(new)] = body
        /\ Len(new) = m + 1 /\ m >= 1 => new[m + 1] # bodies[m]
    <2>1. CASE body = None \/ (bodies # <<>> /\ Last(bodies) = body)
      BY <1>2, <2>1 DEF Collect
    <2>2. CASE ~ (body = None \/ (bodies # <<>> /\ Last(bodies) = body))
      <3>1. new = Append(bodies, body)
        BY <2>2 DEF Collect
      <3>2. Len(new) = m + 1 /\ (\A k \in 1..m : new[k] = bodies[k]) /\ new[m + 1] = body
        BY <1>3, <2>2, <3>1, AppendProperties
      <3>3. m >= 1 => body # bodies[m]
        BY <1>2, <2>2
      <3> QED
        BY <1>2, <2>2, <3>2, <3>3
    <2> QED
      BY <2>1, <2>2
  <1> HIDE DEF new, m
  <1>5. \A k \in 2..Len(new) : new[k] # new[k - 1]
    <2> TAKE k \in 2..Len(new)
    <2>1. CASE k <= m
      <3>1. bodies[k] # bodies[k - 1]
        BY <1>2, <2>1 DEF Attached, m
      <3>2. k \in 1..m /\ k - 1 \in 1..m
        BY <1>2, <2>1
      <3> QED
        BY <1>4, <3>1, <3>2
    <2>2. CASE k > m
      <3>1. k = m + 1 /\ Len(new) = m + 1 /\ m >= 1 /\ k - 1 = m /\ m \in 1..m
        BY <1>2, <1>4, <2>2
      <3> QED
        BY <1>4, <3>1
    <2> QED
      BY <1>2, <2>1, <2>2
  <1> DEFINE next == [i \in 0..(n + 1) |-> IF i = n + 1 THEN Len(new) ELSE place[i]]
  <1>6. /\ next \in [0..(n + 1) -> 0..Len(new)] /\ next[0] = 0 /\ next[n + 1] = Len(new)
        /\ \A i \in 0..n : next[i] = place[i] /\ place[i] \in 0..m
    BY <1>1, <1>2, <1>4
  <1> HIDE DEF next
  <1>7. ASSUME NEW i \in 1..(n + 1)
        PROVE  IF crumbs[i].body = None
               THEN next[i] = next[i - 1]
               ELSE /\ next[i] \in {next[i - 1], next[i - 1] + 1} \ {0}
                    /\ new[next[i]] = crumbs[i].body
    <2>1. CASE i <= n
      <3>1. i \in 1..n /\ i - 1 \in 0..n /\ i \in 0..n
        BY <2>1
      <3>2. next[i] = place[i] /\ next[i - 1] = place[i - 1] /\ place[i] \in 0..m
        BY <1>6, <3>1
      <3>3. place[i] # 0 => new[place[i]] = bodies[place[i]]
        BY <1>2, <1>4, <3>2, SMTT(30)
      <3> QED
        BY <1>1, <3>1, <3>2, <3>3
    <2>2. CASE i = n + 1
      <3>1. next[i] = Len(new) /\ next[i - 1] = m /\ crumbs[i].body = body
        BY <1>1, <1>6, <2>2 DEF body
      <3> QED
        BY <1>2, <1>4, <3>1
    <2> QED
      BY <2>1, <2>2
  <1>8. Attached(n + 1, crumbs, new)
    BY <1>5, <1>6, <1>7 DEF Attached
  <1> QED
    BY <1>8 DEF new, body

(* No crumb has been recorded yet. *)
LEMMA InitCrumbInv == Init => CrumbInv
  BY EmptySeq DEF Init, CrumbInv

(* Every step preserves the invariant. *)
LEMMA NextCrumbInv == IInv /\ CrumbInv /\ [Next]_vars => CrumbInv'
  <1> SUFFICES ASSUME IInv, CrumbInv, [Next]_vars, ~shifted' PROVE CrumbInv'
    BY DEF CrumbInv
  <1>0. /\ TypeOK /\ LoopInv /\ newest \in Seq(Crumbs) /\ Len(newest) \in Nat
        /\ Len(newest) <= Limit /\ idx \in Nat /\ idx >= 1 /\ rv \in Seq(Bodies)
    BY DEF IInv, TypeOK
  <1>1. ASSUME NEW crumb \in NewCrumbs, RecordCrumb(crumb) PROVE CrumbInv'
    <2>1. crumb \in Crumbs /\ ~shifted /\ pc' = "app" /\ Record(crumb) /\ Remember(crumb)
      BY <1>1 DEF RecordCrumb, captureVars, NewCrumbs
    <2>2. /\ Len(buffer') = Len(newest')
          /\ \A i \in 1..Len(newest') : buffer'[i].body = newest'[i].body
      BY <1>0, <2>1, RecordRemembers DEF CrumbInv
    <2> QED
      BY <2>1, <2>2 DEF CrumbInv
  <1>2. CASE \/ \E on \in BOOLEAN : Activate(on)
             \/ \E key \in Keys : Raise(key) \/ Reraise(key)
             \/ Handled \/ Skipped \/ Filtered \/ UNCHANGED vars
    <2>1. UNCHANGED <<buffer, newest, shifted, pc, idx, rv, payload>>
      BY <1>2 DEF Activate, Raise, Reraise, Handled, Skipped, Filtered, vars, contextVars,
                  captureVars, recordVars
    <2> QED
      BY <2>1 DEF CrumbInv
  <1>3. CASE Clear
    <2>1. buffer' = <<>> /\ newest' = <<>> /\ pc' = "app" /\ Len(newest') = 0 /\ Len(buffer') = 0
      BY <1>3 DEF Clear, captureVars
    <2> QED
      BY <2>1 DEF CrumbInv
  <1>4. CASE CaptureMessage \/ CaptureException
    <2>1. /\ pc' = "loop" /\ idx' = 1 /\ rv' = <<>>
          /\ UNCHANGED <<buffer, newest, shifted>> /\ idx' - 1 = 0
      BY <1>4 DEF CaptureMessage, CaptureException, BeginBuild, recordVars
    <2>2. Attached(0, newest', rv')
      BY <2>1, AttachedNone
    <2> QED
      BY <2>1, <2>2 DEF CrumbInv
  <1>5. ASSUME NEW body, pc \in {"loop", "processor"}, idx <= Len(newest), newest[idx].body = body,
               newest' = newest, rv' = Collect(rv, body), idx' = idx + 1, ~shifted
        PROVE  Attached(idx' - 1, newest', rv')
    <2>1. idx - 1 \in Nat /\ idx - 1 < Len(newest) /\ (idx - 1) + 1 = idx /\ idx' - 1 = idx
      BY <1>0, <1>5
    <2>2. Attached(idx - 1, newest, rv)
      BY <1>5 DEF CrumbInv
    <2>3. Attached((idx - 1) + 1, newest, Collect(rv, newest[(idx - 1) + 1].body))
      BY <1>0, <2>1, <2>2, CollectAttaches
    <2> QED
      BY <1>5, <2>1, <2>3
  <1>6. CASE Plain
    <2>1. /\ pc = "loop" /\ idx <= Len(newest) /\ ~shifted /\ pc' = "loop"
          /\ rv' = Collect(rv, buffer[idx].body) /\ idx' = idx + 1
          /\ UNCHANGED <<buffer, newest, shifted>>
      BY <1>6 DEF Plain, NextIndex, recordVars, CrumbInv
    <2>2. newest[idx].body = buffer[idx].body
      BY <1>0, <2>1 DEF CrumbInv
    <2>3. Attached(idx' - 1, newest', rv')
      BY <1>5, <2>1, <2>2
    <2> QED
      BY <2>1, <2>3 DEF CrumbInv
  <1>7. CASE CallProcessor
    <2>1. /\ pc = "loop" /\ idx <= Len(buffer) /\ ~shifted /\ pc' = "processor"
          /\ payload' = buffer[idx] /\ UNCHANGED <<buffer, newest, shifted, idx, rv>>
      BY <1>7 DEF CallProcessor, recordVars
    <2>2. newest[idx].body = buffer[idx].body
      BY <1>0, <2>1 DEF CrumbInv
    <2> QED
      BY <2>1, <2>2 DEF CrumbInv
  <1>8. ASSUME NEW crumb \in NewCrumbs, ProcessorLogs(crumb) PROVE CrumbInv'
    <2>1. /\ crumb \in Crumbs /\ pc = "processor" /\ ~shifted /\ idx <= Len(newest)
          /\ payload'.body = payload.body /\ UNCHANGED <<pc, idx, rv>>
      BY <1>0, <1>8 DEF ProcessorLogs, NewCrumbs, TypeOK, Crumbs, LoopInv, recordVars, CrumbInv
    <2>2. CASE ~ active
      BY <1>8, <2>1, <2>2 DEF ProcessorLogs, recordVars, CrumbInv
    <2>3. CASE active
      <3>1. Record(crumb) /\ Remember(crumb) /\ Len(buffer) < Limit
        <4>1. Record(crumb) /\ Remember(crumb) /\ shifted' = (shifted \/ Len(buffer) = Limit)
          BY <1>8, <2>3 DEF ProcessorLogs
        <4>2. Len(buffer) # Limit
          BY <4>1
        <4>3. Len(buffer) \in Nat /\ Len(buffer) <= Limit /\ Limit \in Nat
          BY <1>0, ConstantsAssumption DEF TypeOK
        <4> QED
          BY <4>1, <4>2, <4>3
      <3>2. /\ Len(buffer') = Len(newest')
            /\ \A i \in 1..Len(newest') : buffer'[i].body = newest'[i].body
            /\ \A i \in 1..Len(newest) : newest'[i] = newest[i]
        BY <1>0, <2>1, <3>1, RecordRemembers DEF CrumbInv
      <3>3. Attached(idx - 1, newest', rv)
        <4>1. idx - 1 \in Nat /\ \A i \in 1..(idx - 1) : newest'[i].body = newest[i].body
          BY <1>0, <2>1, <3>2
        <4>2. Attached(idx - 1, newest, rv)
          BY <2>1 DEF CrumbInv
        <4> QED
          BY <4>1, <4>2, AttachedSame
      <3>4. newest'[idx] = newest[idx]
        BY <1>0, <2>1, <3>2
      <3> QED
        BY <2>1, <3>2, <3>3, <3>4 DEF CrumbInv
    <2> QED
      BY <2>2, <2>3
  <1>9. CASE ProcessorReturns
    <2> DEFINE crumb == [payload EXCEPT !.processor = None]
    <2>1. /\ pc = "processor" /\ ~shifted /\ idx <= Len(newest) /\ pc' = "loop"
          /\ newest[idx].body = payload.body /\ rv' = Collect(rv, payload.body)
          /\ idx' = idx + 1 /\ newest' = newest /\ buffer' = [buffer EXCEPT ![idx] = crumb]
      BY <1>0, <1>9 DEF ProcessorReturns, NextIndex, LoopInv, CrumbInv
    <2>2. crumb.body = payload.body
      BY <1>0 DEF TypeOK, Crumbs
    <2> HIDE DEF crumb
    <2>3. Attached(idx' - 1, newest', rv')
      BY <1>5, <2>1
    <2>4. /\ Len(buffer') = Len(buffer)
          /\ \A i \in 1..Len(buffer) : buffer'[i].body = IF i = idx THEN crumb.body
                                                       ELSE buffer[i].body
      BY <1>0, <2>1 DEF TypeOK
    <2>5. Len(buffer) = Len(newest) /\ \A i \in 1..Len(newest) : buffer[i].body = newest[i].body
      BY <2>1 DEF CrumbInv
    <2> QED
      BY <2>1, <2>2, <2>3, <2>4, <2>5 DEF CrumbInv
  <1>10. CASE ProcessorRaises \/ Send
    BY <1>10 DEF ProcessorRaises, Send, CaptureOver, recordVars, CrumbInv
  <1>11. CASE LoopOver
    <2>1. /\ pc = "loop" /\ idx > Len(buffer) /\ pc' = "built" /\ ~shifted
          /\ UNCHANGED <<buffer, newest, shifted, idx, rv>> /\ idx <= Len(buffer) + 1
      BY <1>0, <1>11 DEF LoopOver, recordVars, LoopInv
    <2>2. idx = Len(newest) + 1 /\ Len(buffer) = Len(newest)
      BY <1>0, <2>1 DEF CrumbInv
    <2> QED
      BY <2>1, <2>2 DEF CrumbInv
  <1> QED
    BY <1>1, <1>2, <1>3, <1>4, <1>6, <1>7, <1>8, <1>9, <1>10, <1>11 DEF Next, CaptureStep

(* The crumbs of an event are the last Limit recorded since the last        *)
(* clear(), each in its place, as long as no processor records into a full  *)
(* buffer: also those recorded while get_buffer() iterates.                 *)
THEOREM CrumbsInPlace == Spec => CrumbsAttached
  <1>1. IInv /\ CrumbInv /\ [Next]_vars =>
          [Send /\ ~shifted => Attached(Len(newest), newest, rv)]_vars
    <2> SUFFICES ASSUME IInv, CrumbInv, Send, ~shifted PROVE Attached(Len(newest), newest, rv)
      OBVIOUS
    <2>1. idx = Len(newest) + 1 /\ Attached(idx - 1, newest, rv) /\ Len(newest) \in Nat
      BY DEF Send, CrumbInv, IInv, TypeOK
    <2>2. idx - 1 = Len(newest)
      BY <2>1
    <2> QED
      BY <2>1, <2>2
  <1> QED
    BY <1>1, Invariance, InitCrumbInv, NextCrumbInv, PTL DEF Spec, CrumbsAttached
=============================================================================
