------------------------- MODULE IntegrationsProofs -------------------------
(***************************************************************************)
(* Proofs about Integrations, for any number of threads, requests and      *)
(* tasks: the stack of transactions and the context of a thread hold       *)
(* nothing but what the units on that thread have put there. From that     *)
(* follows what an event shows, whichever step sends it.                   *)
(***************************************************************************)
EXTENDS Integrations, TLAPS, SequenceTheorems, WellFoundedInduction

-----------------------------------------------------------------------------
(* The inductive invariant, thread by thread. *)

(* A unit is open on one thread, once, and only while it is at work. *)
OpenInv ==
    \A t \in Threads :
        /\ \A u \in OpenOn(t) : pc[u] \notin {"new", "ended", "done"}
        /\ \A i, j \in 1..Len(open[t]) : open[t][i] = open[t][j] => i = j
        /\ \A v \in Threads \ {t} : OpenOn(t) \cap OpenOn(v) = {}

(* Units nest: only the innermost is on its way, and all but the outermost  *)
(* are tasks. Sanic's requests do not nest, and have at most one task.      *)
NestAt(t) ==
    IF web = "sanic"
      THEN \A u, v \in OpenOn(t) \cap Tasks : u = v
      ELSE \A i \in 1..Len(open[t]) : /\ i < Len(open[t]) => pc[open[t][i]] = "run"
                                      /\ i > 1 => open[t][i] \in Tasks

(* What a context holds is of units that are open or have left it behind. *)
DataAt(t) ==
    /\ scope[t].tags \subseteq OpenOn(t) \cup left[t]
    /\ scope[t].crumbs \subseteq OpenOn(t) \cup left[t] \cup {Outside}
    /\ Outside \in scope[t].crumbs => t = MainThread \/ left[t] # {}
    /\ open[t] = <<>> /\ left[t] = {} =>
         scope[t].request = None /\ (t # MainThread => scope[t].active # "on")

(* A context that has a request has that of the open one. *)
RequestAt(t) ==
    web = "wsgi" \/ IsFlask => \A u \in OpenOn(t) \cap Requests :
        \/ scope[t].request = u
        \/ scope[t].request = None /\ u \in wiped
        \/ web = "flask_debug" /\ pc[u] = "view"

(* Which units have pushed themselves on the stack of their thread. *)
Pushed(u) ==
    u \in Tasks \/ (pc[u] = "run" /\ u \in named /\ web \in {"flask", "flask_debug", "django"})

(* A request of which there is nothing to push. *)
Pushless(u) == u \in Requests /\ (web \in {"wsgi", "lambda", "explicit"} \/ u \notin named)

(* The units that have pushed themselves are on top of the stack of their   *)
(* thread in the order in which they are open; where nothing was left       *)
(* behind, there is nothing below them.                                     *)
StackAt(t) ==
    LET s == scope[t].stack
        o == open[t]
    IN  IF web = "sanic"
          THEN /\ \A u \in OpenOn(t) \cap Tasks : s # <<>> /\ s[Len(s)] = u
               /\ left[t] = {} /\ s # <<>> => Len(s) = 1 /\ s[1] \in OpenOn(t) \cap Tasks
          ELSE /\ \A i \in 1..Len(o) : Pushed(o[i]) =>
                    Len(s) - Len(o) + i >= 1 /\ s[Len(s) - Len(o) + i] = o[i]
               /\ left[t] = {} =>
                    /\ Len(s) <= Len(o)
                    /\ \A u \in OpenOn(t) : pc[u] = "view" => s = <<>>
                    /\ (\E x \in OpenOn(t) : Pushless(x)) =>
                         Len(s) < Len(o)

(* Which integration takes a unit where. *)
PcInv ==
    \A u \in Units :
        /\ u \in Tasks => pc[u] \in {"new", "run", "answered", "done"}
        /\ pc[u] = "stream" => web \in {"wsgi", "flask"}
        /\ pc[u] = "view" => web \in {"flask", "flask_debug", "sanic", "django"}

(* g has the id of its own request; a response has gone through the header. *)
HeaderInv ==
    IsFlask => \A r \in Requests :
        /\ g[r] \in {"unset", None, r}
        /\ header[r] # None => /\ pc[r] \in {"stream", "ended", "done"}
                               /\ g[r] # "unset" => header[r] = r

ThreadInv == \A t \in Threads : NestAt(t) /\ DataAt(t) /\ RequestAt(t) /\ StackAt(t)

IInv == TypeOK /\ OpenInv /\ PcInv /\ HeaderInv /\ ThreadInv

-----------------------------------------------------------------------------
(* Lemmas about the operators *)

(* A set of naturals has a least member. *)
LEMMA LeastNatural ==
  ASSUME NEW T, T \subseteq Nat, T # {}
  PROVE  \E x \in T : \A y \in T : x <= y
<1> DEFINE R == OpToRel(<, Nat)
<1>1. \E x \in T : \A y \in T : <<y, x>> \notin R
  <2>1. IsWellFoundedOn(R, Nat)
    BY NatLessThanWellFounded
  <2> HIDE DEF R
  <2> QED
    BY <2>1, WFMin
<1>2. \A x, y \in Nat : <<y, x>> \in R <=> y < x
  BY DEF OpToRel
<1> HIDE DEF R
<1>3. PICK x \in T : \A y \in T : <<y, x>> \notin R
  BY <1>1
<1>4. \A y \in T : x <= y
  <2> TAKE y \in T
  <2>1. x \in Nat /\ y \in Nat
    OBVIOUS
  <2>2. ~ (y < x)
    BY <1>2, <1>3, <2>1
  <2> QED
    BY <2>1, <2>2
<1> QED
  BY <1>4

(* Max is the greatest of the indices of a sequence, of which it is given some. *)
LEMMA MaxProperties ==
  ASSUME NEW n \in Nat, NEW T, T \subseteq 1..n, T # {}
  PROVE  Max(T) \in T /\ \A y \in T : Max(T) >= y
<1> DEFINE U == {k \in Nat : \A y \in T : y <= k}
<1>1. n \in U /\ U \subseteq Nat
  OBVIOUS
<1>2. PICK k \in U : \A j \in U : k <= j
  <2> HIDE DEF U
  <2> QED
    BY <1>1, LeastNatural
<1>3. k \in T
  <2> SUFFICES ASSUME k \notin T PROVE FALSE
    OBVIOUS
  <2>1. \A y \in T : y <= k - 1 /\ y \in Nat
    BY <1>2
  <2>2. PICK y \in T : y <= k - 1 /\ y \in Nat
    BY <2>1
  <2>3. k \in Nat
    BY <1>2
  <2>4. k - 1 \in Nat
    BY <2>2, <2>3
  <2> QED
    BY <2>1, <2>4, <1>2
<1>4. \A y \in T : k >= y
  BY <1>2
<1> QED
  BY <1>3, <1>4 DEF Max

(* What pop() leaves is a part of the stack, and without what it is given,  *)
(* or of a single entry, nothing.                                           *)
LEMMA PopProperties ==
  ASSUME NEW s \in Scopes, NEW u
  PROVE  /\ Pop(s, u) \in Scopes
         /\ Pop(s, u).request = s.request /\ Pop(s, u).tags = s.tags
         /\ Pop(s, u).crumbs = s.crumbs /\ Pop(s, u).active = s.active
         /\ Len(Pop(s, u).stack) <= Len(s.stack)
         /\ Len(s.stack) <= 1 => Pop(s, u).stack = <<>>
<1> DEFINE at == {i \in 1..Len(s.stack) : s.stack[i] = u}
           rest == IF at = {} THEN <<>> ELSE SubSeq(s.stack, 1, Max(at) - 1)
<1>1. s.stack \in Seq(Units) /\ Len(s.stack) \in Nat
  BY DEF Scopes
<1>2. Pop(s, u) = [s EXCEPT !.stack = rest]
  BY DEF Pop
<1>3. rest \in Seq(Units) /\ Len(rest) <= Len(s.stack) /\ (Len(s.stack) <= 1 => rest = <<>>)
  <2>1. CASE at = {}
    BY <1>1, <2>1
  <2>2. CASE at # {}
    <3>1. Max(at) \in 1..Len(s.stack)
      BY <1>1, <2>2, MaxProperties
    <3> HIDE DEF at
    <3>2. rest \in Seq(Units) /\ Len(rest) = Max(at) - 1
      BY <1>1, <2>2, <3>1, SubSeqProperties
    <3>3. Len(s.stack) <= 1 => rest = <<>>
      BY <1>1, <3>1, <3>2, EmptySeq
    <3> HIDE DEF rest
    <3> QED
      BY <1>1, <3>1, <3>2, <3>3
  <2> QED
    BY <2>1, <2>2
<1> HIDE DEF rest
<1> QED
  BY <1>2, <1>3 DEF Scopes

(* Of what is on top of the stack, pop() takes just that. *)
LEMMA PopTop ==
  ASSUME NEW s \in Scopes, s.stack # <<>>, NEW u, s.stack[Len(s.stack)] = u
  PROVE  /\ Len(Pop(s, u).stack) = Len(s.stack) - 1
         /\ \A i \in 1..(Len(s.stack) - 1) : Pop(s, u).stack[i] = s.stack[i]
<1> DEFINE n == Len(s.stack)
           at == {i \in 1..n : s.stack[i] = u}
<1>1. s.stack \in Seq(Units) /\ n \in Nat /\ n >= 1
  BY EmptySeq DEF Scopes
<1>2. n \in at /\ at \subseteq 1..n
  BY <1>1
<1>3. Max(at) = n
  <2> HIDE DEF at, n
  <2>1. Max(at) \in at /\ Max(at) >= n
    BY <1>1, <1>2, MaxProperties
  <2>2. Max(at) \in 1..n
    BY <1>2, <2>1
  <2> QED
    BY <1>1, <2>1, <2>2
<1>4. Pop(s, u).stack = SubSeq(s.stack, 1, n - 1)
  BY <1>2, <1>3 DEF Pop, Scopes
<1> QED
  BY <1>1, <1>4, SubSeqProperties

(* What is open when a unit has gone. *)
LEMMA RemoveFirstProperties ==
  ASSUME NEW o \in Seq(Units), \A i, j \in 1..Len(o) : o[i] = o[j] => i = j,
         NEW k \in 1..Len(o)
  PROVE  /\ RemoveFirst(o, o[k]) \in Seq(Units) /\ Len(RemoveFirst(o, o[k])) = Len(o) - 1
         /\ \A j \in 1..(Len(o) - 1) :
              RemoveFirst(o, o[k])[j] = IF j < k THEN o[j] ELSE o[j + 1]
<1> DEFINE at == {i \in 1..Len(o) : o[i] = o[k]}
<1>0. Len(o) \in Nat
  OBVIOUS
<1>1. at = {k}
  OBVIOUS
<1>2. Min({k}) = k
  BY DEF Min
<1> DEFINE front == SubSeq(o, 1, k - 1)
           back == SubSeq(o, k + 1, Len(o))
<1>3. RemoveFirst(o, o[k]) = front \o back
  BY <1>1, <1>2 DEF RemoveFirst, RemoveAt, SelectInSeq
<1>4. /\ front \in Seq(Units) /\ Len(front) = k - 1
      /\ \A i \in 1..(k - 1) : front[i] = o[i]
  BY SubSeqProperties
<1>5. /\ back \in Seq(Units) /\ Len(back) = Len(o) - k
      /\ \A i \in 1..(Len(o) - k) : back[i] = o[k + i]
  BY SubSeqProperties
<1> HIDE DEF front, back
<1>6. /\ front \o back \in Seq(Units) /\ Len(front \o back) = Len(o) - 1
      /\ \A j \in 1..(Len(o) - 1) :
           (front \o back)[j] = IF j < k THEN front[j] ELSE back[j - k + 1]
  <2>1. Len(front) + Len(back) = Len(o) - 1
    BY <1>4, <1>5
  <2>2. /\ front \o back \in Seq(Units)
        /\ Len(front \o back) = Len(front) + Len(back)
        /\ \A i \in 1..(Len(front) + Len(back)) : (front \o back)[i] =
             IF i <= Len(front) THEN front[i] ELSE back[i - Len(front)]
    <3>1. front \in Seq(Units) /\ back \in Seq(Units)
      BY <1>4, <1>5
    <3> HIDE DEF at
    <3> QED
      BY <3>1, ConcatProperties
  <2>3. \A j \in 1..(Len(o) - 1) : (j <= Len(front) <=> j < k) /\ j - Len(front) = j - k + 1
    BY <1>4
  <2> QED
    BY <2>1, <2>2, <2>3
<1>7. ASSUME NEW j \in 1..(Len(o) - 1)
      PROVE  (front \o back)[j] = IF j < k THEN o[j] ELSE o[j + 1]
  <2>1. CASE j < k
    BY <1>4, <1>6, <2>1
  <2>2. CASE j >= k
    <3>1. j - k + 1 \in 1..(Len(o) - k) /\ k + (j - k + 1) = j + 1 /\ ~ (j < k)
      BY <2>2
    <3>2. back[j - k + 1] = o[j + 1]
      BY <1>5, <3>1
    <3> QED
      BY <1>6, <3>1, <3>2
  <2>3. j < k \/ j >= k
    BY <1>0
  <2> QED
    BY <2>1, <2>2, <2>3
<1> QED
  BY <1>3, <1>6, <1>7

(* What the operations on a scope change. *)
LEMMA ScopeProperties ==
  ASSUME NEW s \in Scopes, NEW t
  PROVE  /\ \A q \in {Activate(s), Touch(s)} :
              /\ q \in Scopes /\ q.request = s.request
              /\ q.tags = s.tags /\ q.crumbs = s.crumbs /\ q.stack = s.stack
         /\ \A r \in Requests :
              /\ MergeRequest(s, r) \in Scopes /\ MergeRequest(s, r).request = r
              /\ MergeRequest(s, r).tags = s.tags /\ MergeRequest(s, r).crumbs = s.crumbs
              /\ MergeRequest(s, r).stack = s.stack
         /\ \A u \in Units :
              /\ MergeTag(s, u) \in Scopes /\ MergeTag(s, u).request = s.request
              /\ MergeTag(s, u).tags = s.tags \cup {u} /\ MergeTag(s, u).crumbs = s.crumbs
              /\ MergeTag(s, u).stack = s.stack
         /\ \A u \in Units \cup {Outside} :
              /\ RecordCrumb(s, u) \in Scopes /\ RecordCrumb(s, u).request = s.request
              /\ RecordCrumb(s, u).tags = s.tags /\ RecordCrumb(s, u).stack = s.stack
              /\ RecordCrumb(s, u).active = s.active
              /\ RecordCrumb(s, u).crumbs =
                   IF s.active = "on" THEN s.crumbs \cup {u} ELSE s.crumbs
         /\ /\ Clear(s, t) \in Scopes /\ Clear(s, t).request = None
            /\ Clear(s, t).tags = {} /\ Clear(s, t).crumbs = {}
            /\ Clear(s, t).stack = s.stack
            /\ t # MainThread => Clear(s, t).active = "off"
         /\ /\ ClearStack(s) \in Scopes /\ ClearStack(s).request = s.request
            /\ ClearStack(s).tags = s.tags /\ ClearStack(s).crumbs = s.crumbs
            /\ ClearStack(s).active = s.active /\ ClearStack(s).stack = <<>>
<1> USE DEF Activate, Touch, MergeRequest, MergeTag, RecordCrumb, Clear, ClearStack, Scopes
<1>1. \A q \in {Activate(s), Touch(s)} :
        /\ q \in Scopes /\ q.request = s.request
        /\ q.tags = s.tags /\ q.crumbs = s.crumbs /\ q.stack = s.stack
  OBVIOUS
<1>2. ASSUME NEW r \in Requests
      PROVE  /\ MergeRequest(s, r) \in Scopes /\ MergeRequest(s, r).request = r
             /\ MergeRequest(s, r).tags = s.tags /\ MergeRequest(s, r).crumbs = s.crumbs
             /\ MergeRequest(s, r).stack = s.stack
  OBVIOUS
<1>3. ASSUME NEW u \in Units
      PROVE  /\ MergeTag(s, u) \in Scopes /\ MergeTag(s, u).request = s.request
             /\ MergeTag(s, u).tags = s.tags \cup {u} /\ MergeTag(s, u).crumbs = s.crumbs
             /\ MergeTag(s, u).stack = s.stack
  OBVIOUS
<1>4. ASSUME NEW u \in Units \cup {Outside}
      PROVE  /\ RecordCrumb(s, u) \in Scopes /\ RecordCrumb(s, u).request = s.request
             /\ RecordCrumb(s, u).tags = s.tags /\ RecordCrumb(s, u).stack = s.stack
             /\ RecordCrumb(s, u).active = s.active
             /\ RecordCrumb(s, u).crumbs =
                  IF s.active = "on" THEN s.crumbs \cup {u} ELSE s.crumbs
  OBVIOUS
<1>5. /\ Clear(s, t) \in Scopes /\ Clear(s, t).request = None
      /\ Clear(s, t).tags = {} /\ Clear(s, t).crumbs = {}
      /\ Clear(s, t).stack = s.stack
      /\ t # MainThread => Clear(s, t).active = "off"
  OBVIOUS
<1>6. /\ ClearStack(s) \in Scopes /\ ClearStack(s).request = s.request
      /\ ClearStack(s).tags = s.tags /\ ClearStack(s).crumbs = s.crumbs
      /\ ClearStack(s).active = s.active /\ ClearStack(s).stack = <<>>
  <2>1. <<>> \in Seq(Units)
    BY EmptySeq
  <2> QED
    BY <2>1
<1> HIDE DEF Activate, Touch, MergeRequest, MergeTag, RecordCrumb, Clear, ClearStack, Scopes
<1> QED
  BY <1>1, <1>2, <1>3, <1>4, <1>5, <1>6

(* clear() leaves the stack alone and forgets everything else. *)
LEMMA ClearProperties ==
  ASSUME NEW s \in Scopes, NEW t
  PROVE  /\ Clear(s, t) \in Scopes /\ Clear(s, t).request = None
         /\ Clear(s, t).tags = {} /\ Clear(s, t).crumbs = {}
         /\ Clear(s, t).stack = s.stack
         /\ t # MainThread => Clear(s, t).active = "off"
BY DEF Activate, Touch, Clear, Scopes

(* push() puts a unit on top and leaves everything else alone. *)
LEMMA PushProperties ==
  ASSUME NEW s \in Scopes, NEW u \in Units
  PROVE  /\ Push(s, u) \in Scopes /\ Push(s, u).request = s.request
         /\ Push(s, u).tags = s.tags /\ Push(s, u).crumbs = s.crumbs
         /\ Push(s, u).stack = Append(s.stack, u)
<1>1. Append(s.stack, u) \in Seq(Units)
  BY AppendProperties DEF Scopes
<1> QED
  BY <1>1 DEF Push, Scopes

-----------------------------------------------------------------------------
(* Which units are open where: every step lets a unit enter, go on or leave. *)

(* A unit that runs is open on its thread alone, and but for Sanic the     *)
(* innermost.                                                              *)
LEMMA Running ==
  ASSUME TypeOK, OpenInv, NEW u \in Units, NEW t \in Threads, Runs(u, t)
  PROVE  /\ pc[u] \notin {"new", "ended", "done"}
         /\ \A v \in Threads \ {t} : u \notin OpenOn(v)
         /\ open[t] # <<>> /\ \E k \in 1..Len(open[t]) :
              /\ u = open[t][k]
              /\ web # "sanic" => k = Len(open[t])
<1>1. open[t] \in Seq(Units) /\ u \in OpenOn(t)
  BY DEF TypeOK, Runs
<1>2. PICK k \in 1..Len(open[t]) : u = open[t][k]
  BY <1>1 DEF OpenOn, ToSet
<1>3. web # "sanic" => u = open[t][Len(open[t])] /\ Len(open[t]) \in 1..Len(open[t])
  BY <1>1, <1>2 DEF Runs, Last
<1> QED
  BY <1>1, <1>2, <1>3 DEF OpenInv

(* Nothing but the thread t, and the unit u, changes. *)
Only(u, t) ==
    /\ \A v \in Threads \ {t} :
         /\ scope'[v] = scope[v] /\ open'[v] = open[v] /\ left'[v] = left[v]
         /\ u \notin OpenOn(v)
    /\ \A x \in Units \ {u} : pc'[x] = pc[x]
    /\ wiped \subseteq wiped' /\ web' = web /\ named' = named

(* A step of one thread leaves what holds of the others. *)
LEMMA OtherThreads ==
  ASSUME IInv, NEW u \in Units, NEW t \in Threads, Only(u, t),
         NEW v \in Threads, v # t
  PROVE  NestAt(v)' /\ DataAt(v)' /\ RequestAt(v)' /\ StackAt(v)'
<1>1. /\ scope'[v] = scope[v] /\ open'[v] = open[v] /\ left'[v] = left[v]
      /\ u \notin OpenOn(v) /\ web' = web /\ named' = named /\ wiped \subseteq wiped'
      /\ OpenOn(v)' = OpenOn(v)
  BY DEF Only, OpenOn
<1>2. open[v] \in Seq(Units) /\ OpenOn(v) \subseteq Units
  BY DEF IInv, TypeOK, OpenOn, ToSet
<1>3. \A x \in OpenOn(v) : pc'[x] = pc[x]
  BY <1>1, <1>2 DEF Only
<1>4. \A i \in 1..Len(open[v]) : open[v][i] \in OpenOn(v)
  BY <1>2 DEF OpenOn, ToSet
<1>5. NestAt(v)'
  BY <1>1, <1>3, <1>4 DEF IInv, ThreadInv, NestAt
<1>6. DataAt(v)'
  BY <1>1 DEF IInv, ThreadInv, DataAt
<1>7. RequestAt(v)'
  BY <1>1, <1>3 DEF IInv, ThreadInv, RequestAt, IsFlask
<1>8. StackAt(v)'
  <2>1. StackAt(v)
    BY DEF IInv, ThreadInv
  <2>2. CASE web = "sanic"
    BY <1>1, <2>1, <2>2 DEF StackAt
  <2>3. CASE web # "sanic"
    BY <1>1, <1>3, <1>4, <2>1, <2>3 DEF StackAt, Pushed, Pushless
  <2> QED
    BY <2>2, <2>3
<1> QED
  BY <1>5, <1>6, <1>7, <1>8

(* A unit enters. *)
LEMMA Entering ==
  ASSUME TypeOK, OpenInv, PcInv, NEW u \in Units, NEW t \in Threads, NestAt(t),
         Enter(u, t), NEW l \in {"run", "view"}, Goto(u, l), web' = web, named' = named,
         u \in Tasks => l = "run", l = "view" => web \in {"flask", "flask_debug", "sanic", "django"}
  PROVE  /\ OpenInv' /\ PcInv' /\ NestAt(t)'
         /\ open' \in [Threads -> Seq(Units)] /\ open'[t] = Append(open[t], u)
         /\ OpenOn(t)' = OpenOn(t) \cup {u}
         /\ \A v \in Threads : u \notin OpenOn(v)
         /\ pc' \in [Units -> {"new", "run", "view", "answered", "stream", "ended", "done"}]
<1> USE DEF Enter, Goto
<1>1. /\ open[t] \in Seq(Units) /\ open' = [open EXCEPT ![t] = Append(open[t], u)]
      /\ \A v \in Threads : open[v] \in Seq(Units)
  BY DEF TypeOK
<1>2. open' \in [Threads -> Seq(Units)] /\ open'[t] = Append(open[t], u)
  BY <1>1, AppendProperties DEF TypeOK
<1>3. \A v \in Threads : u \notin OpenOn(v)
  BY DEF OpenInv
<1>4. /\ Len(open'[t]) = Len(open[t]) + 1 /\ open'[t][Len(open[t]) + 1] = u
      /\ \A i \in 1..Len(open[t]) : open'[t][i] = open[t][i]
  BY <1>1, <1>2, AppendProperties
<1>5. OpenOn(t)' = OpenOn(t) \cup {u}
  <2>1. OpenOn(t) = {open[t][i] : i \in 1..Len(open[t])}
    BY <1>1 DEF OpenOn, ToSet
  <2>2. OpenOn(t)' = {open'[t][i] : i \in 1..(Len(open[t]) + 1)}
    BY <1>2, <1>4 DEF OpenOn, ToSet
  <2>3. 1..(Len(open[t]) + 1) = 1..Len(open[t]) \cup {Len(open[t]) + 1}
    BY <1>1
  <2> QED
    BY <1>4, <2>1, <2>2, <2>3
<1>6. \A v \in Threads \ {t} : open'[v] = open[v] /\ OpenOn(v)' = OpenOn(v)
  BY <1>1 DEF OpenOn, TypeOK
<1>7. \A v \in Threads : \A i \in 1..Len(open[v]) : open[v][i] \in OpenOn(v)
  BY <1>1 DEF OpenOn, ToSet
<1>8. pc' \in [Units -> {"new", "run", "view", "answered", "stream", "ended", "done"}]
  BY DEF TypeOK
<1>9. pc'[u] = l /\ \A x \in Units \ {u} : pc'[x] = pc[x]
  BY DEF TypeOK
<1>10. OpenInv'
  <2>1. ASSUME NEW v \in Threads PROVE \A x \in OpenOn(v)' : pc'[x] \notin {"new", "ended", "done"}
    <3>1. \A x \in OpenOn(v) : x \in Units /\ pc[x] \notin {"new", "ended", "done"}
      BY <1>1 DEF OpenInv, OpenOn, ToSet
    <3> QED
      BY <1>3, <1>5, <1>6, <1>9, <3>1
  <2>2. \A i, j \in 1..Len(open'[t]) : open'[t][i] = open'[t][j] => i = j
    BY <1>1, <1>3, <1>4, <1>7 DEF OpenInv
  <2>3. \A v, w \in Threads : v # w => OpenOn(v)' \cap OpenOn(w)' = {}
    BY <1>3, <1>5, <1>6 DEF OpenInv
  <2> QED
    BY <1>6, <2>1, <2>2, <2>3 DEF OpenInv
<1>11. PcInv'
  BY <1>9 DEF PcInv
<1>12. NestAt(t)'
  <2>1. CASE web = "sanic"
    BY <1>5, <2>1, NamesAssumption DEF NestAt, OpenOn, ToSet
  <2>2. CASE web # "sanic"
    <3>1. \A i \in 1..Len(open[t]) : pc[open[t][i]] = "run" /\ open[t][i] # u /\ open[t][i] \in Units
      BY <1>1, <1>3, <1>7, <2>2 DEF NestAt, Last
    <3>2. open[t] # <<>> => u \in Tasks
      BY <2>2
    <3> QED
      BY <1>1, <1>4, <1>9, <2>2, <3>1, <3>2 DEF NestAt
  <2> QED
    BY <2>1, <2>2
<1> QED
  BY <1>2, <1>3, <1>5, <1>8, <1>10, <1>11, <1>12

(* A unit leaves. *)
LEMMA Leaving ==
  ASSUME TypeOK, OpenInv, PcInv, NEW u \in Units, NEW t \in Threads, NestAt(t),
         Runs(u, t), open' = [open EXCEPT ![t] = RemoveFirst(@, u)],
         NEW l \in {"ended", "done"}, Goto(u, l), web' = web, named' = named, u \in Tasks => l = "done"
  PROVE  /\ OpenInv' /\ PcInv' /\ NestAt(t)'
         /\ open' \in [Threads -> Seq(Units)] /\ OpenOn(t)' = OpenOn(t) \ {u}
         /\ Len(open'[t]) = Len(open[t]) - 1
         /\ web # "sanic" => \A i \in 1..(Len(open[t]) - 1) : open'[t][i] = open[t][i]
         /\ pc' \in [Units -> {"new", "run", "view", "answered", "stream", "ended", "done"}]
<1> USE DEF Goto
<1>1. open[t] \in Seq(Units) /\ Len(open[t]) \in Nat /\ \A v \in Threads : open[v] \in Seq(Units)
  BY DEF TypeOK
<1>2. PICK k \in 1..Len(open[t]) : /\ u = open[t][k]
                                   /\ web # "sanic" => k = Len(open[t])
  BY Running
<1>3. \A i, j \in 1..Len(open[t]) : open[t][i] = open[t][j] => i = j
  BY DEF OpenInv
<1>4. open'[t] = RemoveFirst(open[t], open[t][k]) /\ \A v \in Threads \ {t} : open'[v] = open[v]
  BY <1>2 DEF TypeOK
<1>5. /\ open'[t] \in Seq(Units) /\ Len(open'[t]) = Len(open[t]) - 1
      /\ \A j \in 1..(Len(open[t]) - 1) :
           open'[t][j] = IF j < k THEN open[t][j] ELSE open[t][j + 1]
  <2> DEFINE o == open[t]
  <2>1. /\ RemoveFirst(o, o[k]) \in Seq(Units) /\ Len(RemoveFirst(o, o[k])) = Len(o) - 1
        /\ \A j \in 1..(Len(o) - 1) :
             RemoveFirst(o, o[k])[j] = IF j < k THEN o[j] ELSE o[j + 1]
    <3>1. o \in Seq(Units) /\ k \in 1..Len(o) /\ \A i, j \in 1..Len(o) : o[i] = o[j] => i = j
      BY <1>1, <1>3
    <3> HIDE DEF o
    <3> QED
      BY <3>1, RemoveFirstProperties
  <2> QED
    BY <1>4, <2>1
<1>6. open' \in [Threads -> Seq(Units)]
  BY <1>4, <1>5 DEF TypeOK
<1>7. OpenOn(t)' = OpenOn(t) \ {u}
  <2>1. OpenOn(t) = {open[t][i] : i \in 1..Len(open[t])}
    BY <1>1 DEF OpenOn, ToSet
  <2>2. OpenOn(t)' = {open'[t][i] : i \in 1..(Len(open[t]) - 1)}
    BY <1>5 DEF OpenOn, ToSet
  <2>3. ASSUME NEW j \in 1..(Len(open[t]) - 1) PROVE open'[t][j] \in OpenOn(t) \ {u}
    <3>1. /\ j \in 1..Len(open[t]) /\ j + 1 \in 1..Len(open[t])
          /\ (IF j < k THEN j ELSE j + 1) # k
      BY <1>1
    <3> QED
      BY <1>2, <1>3, <1>5, <2>1, <3>1
  <2>4. ASSUME NEW i \in 1..Len(open[t]), open[t][i] # u PROVE open[t][i] \in OpenOn(t)'
    <3>1. CASE i < k
      <4>1. i \in 1..(Len(open[t]) - 1)
        BY <1>1, <3>1
      <4> QED
        BY <1>5, <2>2, <3>1, <4>1
    <3>2. CASE i > k
      <4>1. i - 1 \in 1..(Len(open[t]) - 1) /\ ~ (i - 1 < k) /\ (i - 1) + 1 = i
        BY <1>1, <3>2
      <4>2. open'[t][i - 1] = open[t][i]
        BY <1>5, <4>1
      <4> QED
        BY <2>2, <4>1, <4>2
    <3>3. i # k
      BY <1>2, <2>4
    <3> QED
      BY <1>1, <3>1, <3>2, <3>3
  <2> QED
    BY <2>1, <2>2, <2>3, <2>4
<1>8. \A v \in Threads \ {t} : OpenOn(v)' = OpenOn(v)
  BY <1>4 DEF OpenOn
<1>9. pc'[u] = l /\ \A x \in Units \ {u} : pc'[x] = pc[x]
  BY DEF TypeOK
<1>10. OpenInv'
  <2>1. ASSUME NEW v \in Threads PROVE \A x \in OpenOn(v)' : pc'[x] \notin {"new", "ended", "done"}
    <3>1. \A x \in OpenOn(v) : x \in Units /\ pc[x] \notin {"new", "ended", "done"}
      BY <1>1 DEF OpenInv, OpenOn, ToSet
    <3>2. \A w \in Threads \ {t} : u \notin OpenOn(w)
      BY Running
    <3> QED
      BY <1>7, <1>8, <1>9, <3>1, <3>2
  <2>2. ASSUME NEW i \in 1..Len(open'[t]), NEW j \in 1..Len(open'[t]), open'[t][i] = open'[t][j]
        PROVE  i = j
    <3>1. /\ i \in 1..Len(open[t]) /\ i + 1 \in 1..Len(open[t]) /\ i \in 1..(Len(open[t]) - 1)
          /\ j \in 1..Len(open[t]) /\ j + 1 \in 1..Len(open[t]) /\ j \in 1..(Len(open[t]) - 1)
      BY <1>1, <1>5
    <3>2. (IF i < k THEN i ELSE i + 1) = (IF j < k THEN j ELSE j + 1)
      BY <1>3, <1>5, <2>2, <3>1
    <3> QED
      BY <3>1, <3>2
  <2>3. \A v, w \in Threads : v # w => OpenOn(v)' \cap OpenOn(w)' = {}
    BY <1>7, <1>8 DEF OpenInv
  <2> QED
    BY <1>4, <2>1, <2>2, <2>3 DEF OpenInv
<1>11. PcInv'
  BY <1>9 DEF PcInv
<1>12. web # "sanic" => \A i \in 1..(Len(open[t]) - 1) : open'[t][i] = open[t][i]
  BY <1>1, <1>2, <1>5
<1>13. NestAt(t)'
  <2>1. CASE web = "sanic"
    BY <1>7, <2>1 DEF NestAt
  <2>2. CASE web # "sanic"
    <3>1. \A i \in 1..(Len(open[t]) - 1) :
            /\ open'[t][i] = open[t][i] /\ pc[open[t][i]] = "run" /\ open[t][i] # u
            /\ open[t][i] \in Units /\ (i > 1 => open[t][i] \in Tasks)
      BY <1>1, <1>2, <1>3, <1>12, <2>2 DEF NestAt
    <3> QED
      BY <1>1, <1>5, <1>9, <2>2, <3>1 DEF NestAt
  <2> QED
    BY <2>1, <2>2
<1>14. pc' \in [Units -> {"new", "run", "view", "answered", "stream", "ended", "done"}]
  BY DEF TypeOK
<1> QED
  BY <1>5, <1>6, <1>7, <1>10, <1>11, <1>12, <1>13, <1>14

(* A unit goes on. *)
LEMMA Staying ==
  ASSUME TypeOK, OpenInv, PcInv, NEW u \in Units, NEW t \in Threads, NestAt(t),
         Runs(u, t), open' = open, web' = web, named' = named,
         NEW l \in {"run", "answered", "stream"}, Goto(u, l),
         l = "stream" => web \in {"wsgi", "flask"} /\ u \in Requests
  PROVE  /\ OpenInv' /\ PcInv' /\ NestAt(t)' /\ OpenOn(t)' = OpenOn(t)
         /\ pc' \in [Units -> {"new", "run", "view", "answered", "stream", "ended", "done"}]
<1> USE DEF Goto
<1>1. pc'[u] = l /\ \A x \in Units \ {u} : pc'[x] = pc[x]
  BY DEF TypeOK
<1>2. \A v \in Threads : OpenOn(v)' = OpenOn(v)
  BY DEF OpenOn
<1>3. OpenInv'
  <2>1. ASSUME NEW v \in Threads, NEW x \in OpenOn(v)
        PROVE  pc'[x] \notin {"new", "ended", "done"}
    <3>1. x \in Units
      BY DEF TypeOK, OpenOn, ToSet
    <3> QED
      BY <1>1, <2>1, <3>1 DEF OpenInv
  <2> QED
    BY <1>2, <2>1 DEF OpenInv
<1>4. PcInv'
  BY <1>1, NamesAssumption DEF PcInv
<1>5. NestAt(t)'
  <2>1. CASE web = "sanic"
    BY <1>2, <2>1 DEF NestAt
  <2>2. CASE web # "sanic"
    <3>1. u = open[t][Len(open[t])] /\ open[t] \in Seq(Units) /\ open[t] # <<>>
      BY <2>2, Running DEF TypeOK
    <3>2. \A i \in 1..Len(open[t]) : i < Len(open[t]) => open[t][i] # u /\ open[t][i] \in Units
      BY <3>1 DEF OpenInv
    <3> QED
      BY <1>1, <2>2, <3>1, <3>2 DEF NestAt
  <2> QED
    BY <2>1, <2>2
<1>6. pc' \in [Units -> {"new", "run", "view", "answered", "stream", "ended", "done"}]
  BY DEF TypeOK
<1> QED
  BY <1>2, <1>3, <1>4, <1>5, <1>6

-----------------------------------------------------------------------------
(* What entering, going on and leaving mean for the thread. *)

ThreadAt(t) == NestAt(t) /\ DataAt(t) /\ RequestAt(t) /\ StackAt(t)

(* The types of what those steps change. *)
PlacesOK ==
    /\ web \in Webs /\ named \subseteq Requests
    /\ scope \in [Threads -> Scopes] /\ open \in [Threads -> Seq(Units)]
    /\ pc \in [Units -> {"new", "run", "view", "answered", "stream", "ended", "done"}]
    /\ wiped \subseteq Units /\ left \in [Threads -> SUBSET Units]

(* What the invariant says of a thread, in the form that the steps use. *)
LEMMA TypesAt ==
  ASSUME IInv, NEW t \in Threads
  PROVE  /\ scope[t] \in Scopes /\ scope[t].stack \in Seq(Units) /\ Len(scope[t].stack) \in Nat
         /\ open[t] \in Seq(Units) /\ Len(open[t]) \in Nat /\ OpenOn(t) \subseteq Units
         /\ \A i \in 1..Len(open[t]) : open[t][i] \in OpenOn(t)
         /\ OpenOn(t) = {} <=> open[t] = <<>>
         /\ ThreadAt(t) /\ PlacesOK
<1>1. scope[t] \in Scopes /\ open[t] \in Seq(Units)
  BY DEF IInv, TypeOK
<1>2. /\ scope[t].stack \in Seq(Units) /\ Len(scope[t].stack) \in Nat
      /\ Len(open[t]) \in Nat /\ OpenOn(t) \subseteq Units
      /\ \A i \in 1..Len(open[t]) : open[t][i] \in OpenOn(t)
  BY <1>1 DEF Scopes, OpenOn, ToSet
<1>3. OpenOn(t) = {} <=> open[t] = <<>>
  <2>1. open[t] = <<>> <=> Len(open[t]) = 0
    BY <1>1, EmptySeq
  <2>2. OpenOn(t) = {open[t][i] : i \in 1..Len(open[t])}
    BY <1>1 DEF OpenOn, ToSet
  <2>3. CASE Len(open[t]) = 0
    BY <2>1, <2>2, <2>3
  <2>4. CASE Len(open[t]) # 0
    <3>1. 1 \in 1..Len(open[t])
      BY <1>2, <2>4
    <3>2. open[t][1] \in OpenOn(t)
      BY <1>2, <3>1
    <3> QED
      BY <2>1, <2>4, <3>2
  <2> QED
    BY <2>3, <2>4
<1>4. ThreadAt(t)
  BY DEF IInv, ThreadInv, ThreadAt
<1>5. PlacesOK
  BY DEF IInv, TypeOK, PlacesOK
<1> QED
  BY <1>1, <1>2, <1>3, <1>4, <1>5

(* A unit enters; it may bring its request, and push itself. *)
LEMMA EnterThread ==
  ASSUME IInv, NEW u \in Units, NEW t \in Threads, NEW s \in Scopes,
         NEW l \in {"run", "view"}, Enter(u, t), Goto(u, l), SetScope(t, s),
         UNCHANGED <<web, named, wiped, left>>,
         u \in Tasks => l = "run" /\ s.request = scope[t].request,
         l = "view" => web \in {"flask", "flask_debug", "sanic", "django"},
         s.tags = scope[t].tags, s.crumbs = scope[t].crumbs,
         u \in Requests /\ web \in {"wsgi", "flask", "flask_debug"} =>
            s.request = u \/ (web = "flask_debug" /\ l = "view"),
         s.stack = IF u \in Tasks \/ (l = "run" /\ u \in named /\ web \in {"flask", "flask_debug"})
                     THEN Append(scope[t].stack, u) ELSE scope[t].stack,
         u \in Requests /\ web = "django" => l = "view"
  PROVE  OpenInv' /\ PcInv' /\ ThreadAt(t)' /\ PlacesOK' /\ Only(u, t)
<1>1. /\ ThreadAt(t) /\ TypeOK /\ OpenInv /\ PcInv /\ PlacesOK
      /\ open[t] \in Seq(Units) /\ Len(open[t]) \in Nat /\ OpenOn(t) \subseteq Units
      /\ scope[t].stack \in Seq(Units) /\ Len(scope[t].stack) \in Nat
      /\ \A i \in 1..Len(open[t]) : open[t][i] \in OpenOn(t)
      /\ OpenOn(t) = {} <=> open[t] = <<>>
  BY TypesAt DEF IInv
<1>2. /\ OpenInv' /\ PcInv' /\ NestAt(t)'
      /\ open' \in [Threads -> Seq(Units)] /\ open'[t] = Append(open[t], u)
      /\ OpenOn(t)' = OpenOn(t) \cup {u}
      /\ \A v \in Threads : u \notin OpenOn(v)
      /\ pc' \in [Units -> {"new", "run", "view", "answered", "stream", "ended", "done"}]
  BY <1>1, Entering DEF ThreadAt
<1>3. scope'[t] = s /\ left'[t] = left[t] /\ web' = web /\ named' = named /\ wiped' = wiped
  BY <1>1 DEF SetScope, PlacesOK
<1>4. pc'[u] = l /\ \A x \in Units \ {u} : pc'[x] = pc[x]
  BY <1>1 DEF Goto, PlacesOK
<1>5. Only(u, t)
  BY <1>1, <1>2, <1>4 DEF Only, SetScope, Enter, PlacesOK
<1>6. PlacesOK'
  BY <1>1, <1>2 DEF PlacesOK, SetScope
<1>7. /\ Len(open'[t]) = Len(open[t]) + 1 /\ open'[t][Len(open[t]) + 1] = u
      /\ \A i \in 1..Len(open[t]) : open'[t][i] = open[t][i]
  BY <1>1, <1>2, AppendProperties
<1>8. DataAt(t)'
  <2>1. open'[t] # <<>>
    BY <1>1, <1>7, EmptySeq
  <2> QED
    BY <1>1, <1>2, <1>3, <2>1 DEF ThreadAt, DataAt
<1>9. RequestAt(t)'
  <2>1. CASE u \in Tasks
    BY <1>1, <1>2, <1>3, <1>4, <2>1, NamesAssumption DEF ThreadAt, RequestAt, IsFlask
  <2>2. CASE u \in Requests /\ (web = "wsgi" \/ IsFlask)
    <3>1. open[t] = <<>>
      BY <2>2, NamesAssumption DEF Enter, IsFlask
    <3> QED
      BY <1>1, <1>2, <1>3, <1>4, <2>2, <3>1 DEF RequestAt, IsFlask
  <2> QED
    BY <1>3, <2>1, <2>2 DEF Units, RequestAt, IsFlask
<1>10. StackAt(t)'
  <2>1. CASE web = "sanic"
    <3>1. CASE u \in Requests
      <4>1. OpenOn(t)' \cap Tasks = OpenOn(t) \cap Tasks /\ s.stack = scope[t].stack
        BY <1>2, <2>1, <3>1, NamesAssumption
      <4> QED
        BY <1>1, <1>3, <2>1, <4>1 DEF ThreadAt, StackAt
    <3>2. CASE u \in Tasks
      <4>1. open[t] = <<>> /\ OpenOn(t)' = {u}
        BY <1>1, <1>2, <2>1, <3>2, NamesAssumption DEF Enter
      <4>2. s.stack = Append(scope[t].stack, u)
        BY <3>2
      <4>3. /\ Len(s.stack) = Len(scope[t].stack) + 1 /\ s.stack[Len(s.stack)] = u
            /\ s.stack # <<>>
        BY <1>1, <4>2, AppendProperties
      <4>4. left[t] = {} => Len(scope[t].stack) = 0
        <5>1. OpenOn(t) = {} /\ (scope[t].stack = <<>> => Len(scope[t].stack) = 0)
          BY <1>1, <4>1, EmptySeq
        <5> QED
          BY <1>1, <2>1, <5>1 DEF ThreadAt, StackAt
      <4> QED
        <5>1. left[t] = {} => Len(s.stack) = 1 /\ s.stack[1] \in OpenOn(t)' \cap Tasks
          BY <3>2, <4>1, <4>3, <4>4
        <5>2. \A x \in OpenOn(t)' \cap Tasks : s.stack # <<>> /\ s.stack[Len(s.stack)] = x
          BY <4>1, <4>3
        <5> QED
          BY <1>3, <2>1, <5>1, <5>2 DEF StackAt
    <3> QED
      BY <3>1, <3>2 DEF Units
  <2>2. CASE web # "sanic"
    <3>1. CASE u \in Tasks \/ (l = "run" /\ u \in named /\ web \in {"flask", "flask_debug"})
      <4>1. s.stack = Append(scope[t].stack, u)
        BY <3>1
      <4>2. /\ Len(s.stack) = Len(scope[t].stack) + 1 /\ s.stack[Len(s.stack)] = u
            /\ \A i \in 1..Len(scope[t].stack) : s.stack[i] = scope[t].stack[i]
        BY <1>1, <4>1, AppendProperties
      <4>3. ASSUME NEW i \in 1..Len(open'[t]), Pushed(open[t][i])'
            PROVE  /\ Len(s.stack) - Len(open'[t]) + i >= 1
                   /\ s.stack[Len(s.stack) - Len(open'[t]) + i] = open'[t][i]
        <5> DEFINE m == Len(scope[t].stack)
                   n == Len(open[t])
        <5>0. /\ m \in Nat /\ n \in Nat /\ Len(s.stack) = m + 1 /\ Len(open'[t]) = n + 1
              /\ i \in 1..(n + 1)
          BY <1>1, <1>7, <4>2
        <5>1. CASE i = n + 1
          <6>1. s.stack[m + 1] = u /\ open'[t][i] = u
            BY <1>7, <4>2, <5>0, <5>1
          <6>2. Len(s.stack) - Len(open'[t]) + i = m + 1 /\ m + 1 >= 1
            <7>1. (m + 1) - (n + 1) + (n + 1) = m + 1 /\ m + 1 >= 1
              <8> HIDE DEF m, n
              <8> QED
                BY <5>0
            <7> QED
              BY <5>0, <5>1, <7>1
          <6> QED
            BY <6>1, <6>2
        <5>2. CASE i \in 1..n
          <6>1. open'[t][i] = open[t][i] /\ open[t][i] # u /\ open[t][i] \in Units
            BY <1>1, <1>2, <1>7, <5>2
          <6>2. Pushed(open[t][i])
            BY <1>3, <1>4, <4>3, <6>1 DEF Pushed
          <6>3. m - n + i >= 1 /\ scope[t].stack[m - n + i] = open[t][i]
            BY <1>1, <2>2, <5>2, <6>2 DEF ThreadAt, StackAt
          <6>4. Len(s.stack) - Len(open'[t]) + i = m - n + i /\ m - n + i \in 1..m
            <7>1. (m + 1) - (n + 1) + i = m - n + i /\ m - n + i \in 1..m
              <8> HIDE DEF m, n
              <8> QED
                BY <5>0, <5>2, <6>3
            <7> QED
              BY <5>0, <7>1
          <6>5. s.stack[m - n + i] = scope[t].stack[m - n + i]
            BY <4>2, <6>4
          <6> QED
            BY <6>1, <6>3, <6>4, <6>5
        <5> HIDE DEF m, n
        <5> QED
          BY <5>0, <5>1, <5>2
      <4>4. ASSUME left[t] = {}
            PROVE  /\ Len(s.stack) <= Len(open'[t])
                   /\ \A x \in OpenOn(t)' : pc'[x] # "view"
                   /\ (\E x \in OpenOn(t)' : Pushless(x)') =>
                         Len(s.stack) < Len(open'[t])
        <5>1. Len(scope[t].stack) <= Len(open[t])
          BY <1>1, <2>2, <4>4 DEF ThreadAt, StackAt
        <5>2. \A x \in OpenOn(t) : pc[x] = "run" /\ x # u /\ x \in Units
          <6>1. open[t] # <<>> => pc[open[t][Len(open[t])]] = "run"
            BY <2>2 DEF Enter, Last
          <6>2. \A i \in 1..Len(open[t]) : pc[open[t][i]] = "run"
            BY <1>1, <2>2, <6>1, EmptySeq DEF ThreadAt, NestAt
          <6>3. \A x \in OpenOn(t) : \E i \in 1..Len(open[t]) : x = open[t][i]
            BY <1>1 DEF OpenOn, ToSet
          <6> QED
            BY <1>1, <1>2, <6>2, <6>3
        <5>3. pc'[u] # "view"
          BY <1>4, <3>1
        <5>4. ~ Pushless(u)'
          BY <1>3, <3>1, NamesAssumption DEF Pushless
        <5>5. (\E x \in OpenOn(t) : Pushless(x)) =>
                Len(scope[t].stack) < Len(open[t])
          BY <1>1, <2>2, <4>4 DEF ThreadAt, StackAt
        <5>6. Len(s.stack) <= Len(open'[t])
          BY <1>1, <1>7, <4>2, <5>1
        <5>7. \A x \in OpenOn(t)' : pc'[x] # "view"
          BY <1>2, <1>4, <5>2, <5>3
        <5>8. ASSUME \E x \in OpenOn(t)' : Pushless(x)'
              PROVE  Len(s.stack) < Len(open'[t])
          <6>1. \E x \in OpenOn(t) : Pushless(x)
            BY <1>2, <1>3, <5>4, <5>8 DEF Pushless
          <6> QED
            BY <1>1, <1>7, <4>2, <5>5, <5>8, <6>1
        <5> QED
          BY <5>6, <5>7, <5>8
      <4> QED
        BY <1>3, <2>2, <4>3, <4>4 DEF StackAt
    <3>2. CASE ~ (u \in Tasks \/ (l = "run" /\ u \in named /\ web \in {"flask", "flask_debug"}))
      <4>1. u \in Requests /\ open[t] = <<>> /\ s.stack = scope[t].stack
        BY <2>2, <3>2 DEF Units, Enter
      <4>2. Len(open'[t]) = 1 /\ open'[t][1] = u /\ OpenOn(t)' = {u} /\ Len(open[t]) = 0
        BY <1>1, <1>2, <1>7, <4>1
      <4>3. ~ Pushed(u)'
        BY <1>3, <1>4, <3>2, <4>1, NamesAssumption DEF Pushed
      <4>4. left[t] = {} => Len(scope[t].stack) = 0 /\ scope[t].stack = <<>>
        BY <1>1, <2>2, <4>1, <4>2, EmptySeq DEF ThreadAt, StackAt
      <4> QED
        BY <1>3, <2>2, <4>1, <4>2, <4>3, <4>4 DEF StackAt, Pushed, Pushless
    <3> QED
      BY <3>1, <3>2
  <2> QED
    BY <2>1, <2>2
<1> QED
  BY <1>2, <1>5, <1>6, <1>8, <1>9, <1>10 DEF ThreadAt

(* A unit goes on, and leaves tags, breadcrumbs or a request of its own. *)
LEMMA StayThread ==
  ASSUME IInv, NEW u \in Units, NEW t \in Threads, NEW s \in Scopes, Runs(u, t), SetScope(t, s),
         UNCHANGED <<web, named, open, wiped, left>>,
         \/ pc' = pc
         \/ Goto(u, "answered") /\ (web # "flask_debug" \/ u \in Tasks)
         \/ Goto(u, "stream") /\ web = "wsgi" /\ u \in Requests,
         s.tags \subseteq scope[t].tags \cup {u}, s.crumbs \subseteq scope[t].crumbs \cup {u},
         s.stack = scope[t].stack, s.request = scope[t].request \/ web = "sanic"
  PROVE  OpenInv' /\ PcInv' /\ ThreadAt(t)' /\ PlacesOK' /\ Only(u, t)
<1>1. /\ ThreadAt(t) /\ TypeOK /\ OpenInv /\ PcInv /\ PlacesOK
      /\ OpenOn(t) \subseteq Units /\ \A i \in 1..Len(open[t]) : open[t][i] \in OpenOn(t)
  BY TypesAt DEF IInv
<1>2. /\ scope'[t] = s /\ left'[t] = left[t] /\ web' = web /\ named' = named /\ wiped' = wiped
      /\ open'[t] = open[t]
      /\ OpenOn(t)' = OpenOn(t) /\ u \in OpenOn(t) /\ OpenOn(t) # {}
  BY <1>1 DEF SetScope, PlacesOK, OpenOn, Runs
<1>3. /\ OpenInv' /\ PcInv' /\ NestAt(t)'
      /\ pc' \in [Units -> {"new", "run", "view", "answered", "stream", "ended", "done"}]
  <2>1. CASE pc' = pc
    BY <1>1, <1>2, <2>1 DEF OpenInv, PcInv, NestAt, ThreadAt, PlacesOK, OpenOn
  <2>2. CASE Goto(u, "answered")
    BY <1>1, <2>2, Staying DEF ThreadAt
  <2>3. CASE Goto(u, "stream") /\ web = "wsgi" /\ u \in Requests
    BY <1>1, <2>3, Staying DEF ThreadAt
  <2> QED
    BY <2>1, <2>2, <2>3
<1>4. /\ \A x \in Units \ {u} : pc'[x] = pc[x]
      /\ pc'[u] = pc[u] \/ pc'[u] \in {"answered", "stream"}
  BY <1>1 DEF Goto, PlacesOK
<1>5. Only(u, t)
  BY <1>1, <1>4, Running DEF Only, SetScope, PlacesOK
<1>6. PlacesOK'
  BY <1>1, <1>3 DEF PlacesOK, SetScope
<1>7. DataAt(t)'
  <2>1. u # Outside
    BY NamesAssumption DEF Units
  <2>2. open[t] # <<>>
    BY <1>1, Running
  <2> QED
    BY <1>1, <1>2, <2>1, <2>2 DEF ThreadAt, DataAt
<1>8. RequestAt(t)'
  <2>1. \A x \in OpenOn(t) \cap Requests :
          web = "flask_debug" /\ pc[x] = "view" => pc'[x] = "view"
    BY <1>1, <1>4, NamesAssumption DEF Goto, PlacesOK
  <2> QED
    BY <1>1, <1>2, <2>1 DEF ThreadAt, RequestAt, IsFlask
<1>9. StackAt(t)'
  <2>1. CASE web = "sanic"
    BY <1>1, <1>2, <2>1 DEF ThreadAt, StackAt
  <2>2. CASE web # "sanic"
    <3>1. \A x \in OpenOn(t) : /\ pc'[x] = "run" => pc[x] = "run"
                               /\ pc'[x] = "view" => pc[x] = "view"
      BY <1>1, <1>4
    <3> QED
      BY <1>1, <1>2, <2>2, <3>1, ZenonT(60) DEF ThreadAt, StackAt, Pushed, Pushless
  <2> QED
    BY <2>1, <2>2
<1> QED
  BY <1>3, <1>5, <1>6, <1>7, <1>8, <1>9 DEF ThreadAt

(* A request that is the innermost unit is the only one, but with Sanic. *)
LEMMA RequestAlone ==
  ASSUME IInv, NEW u \in Requests, NEW t \in Threads, Runs(u, t), web # "sanic"
  PROVE  Len(open[t]) = 1 /\ OpenOn(t) = {u}
<1>1. open[t] \in Seq(Units) /\ Len(open[t]) \in Nat /\ open[t] # <<>> /\ u = open[t][Len(open[t])]
  BY TypesAt, Running DEF IInv, Units
<1>2. Len(open[t]) >= 1
  BY <1>1, EmptySeq
<1>3. ~ (Len(open[t]) > 1)
  BY <1>1, <1>2, NamesAssumption DEF IInv, ThreadInv, NestAt
<1>4. Len(open[t]) = 1
  <2> DEFINE n == Len(open[t])
  <2>1. n \in Nat /\ n >= 1 /\ ~ (n > 1)
    BY <1>1, <1>2, <1>3
  <2> HIDE DEF n
  <2>2. n = 1
    BY <2>1
  <2> QED
    BY <2>2 DEF n
<1>5. OpenOn(t) = {open[t][i] : i \in 1..1}
  BY <1>1, <1>4 DEF OpenOn, ToSet
<1> QED
  BY <1>1, <1>4, <1>5

(* A unit leaves the thread t, whose scope becomes s. What is left of it is *)
(* on record, unless the context is cleared.                                *)
Departs(u, t, s, l) ==
    /\ SetScope(t, s) /\ Goto(u, l) /\ (u \in Tasks => l = "done") /\ web' = web /\ named' = named
    /\ open' = [open EXCEPT ![t] = RemoveFirst(@, u)]
    /\ \/ /\ u \in Requests /\ web # "sanic" /\ wiped' = wiped
          /\ left' = [left EXCEPT ![t] = @ \cup {u}]
          /\ s.tags = scope[t].tags /\ s.crumbs = scope[t].crumbs
       \/ /\ wiped' = wiped \cup OpenOn(t)
          /\ left' = [left EXCEPT ![t] = IF s.stack = <<>> THEN {} ELSE @]
          /\ s.request = None /\ s.tags = {} /\ s.crumbs = {}
          /\ t # MainThread => s.active # "on"
          /\ \/ u \in Requests /\ web = "sanic" /\ s.stack = scope[t].stack
             \/ u \in Requests /\ web # "sanic" /\ (left[t] = {} => s.stack = <<>>)
             \/ u \in Tasks /\ s.stack = Pop(scope[t], u).stack

(* A unit that is done keeps the invariant of its thread. *)
LEMMA LeaveThread ==
  ASSUME IInv, NEW u \in Units, NEW t \in Threads, NEW s \in Scopes, NEW l \in {"ended", "done"},
         Runs(u, t), Departs(u, t, s, l)
  PROVE  OpenInv' /\ PcInv' /\ ThreadAt(t)' /\ PlacesOK' /\ Only(u, t)
<1>1. /\ ThreadAt(t) /\ TypeOK /\ OpenInv /\ PcInv /\ PlacesOK
      /\ OpenOn(t) \subseteq Units /\ \A i \in 1..Len(open[t]) : open[t][i] \in OpenOn(t)
      /\ open[t] \in Seq(Units) /\ Len(open[t]) \in Nat
      /\ scope[t] \in Scopes /\ scope[t].stack \in Seq(Units) /\ Len(scope[t].stack) \in Nat
  BY TypesAt DEF IInv
<1>2. /\ OpenInv' /\ PcInv' /\ NestAt(t)'
      /\ open' \in [Threads -> Seq(Units)] /\ OpenOn(t)' = OpenOn(t) \ {u}
      /\ Len(open'[t]) = Len(open[t]) - 1
      /\ web # "sanic" => \A i \in 1..(Len(open[t]) - 1) : open'[t][i] = open[t][i]
      /\ pc' \in [Units -> {"new", "run", "view", "answered", "stream", "ended", "done"}]
  BY <1>1, Leaving DEF ThreadAt, Departs
<1>3. /\ scope'[t] = s /\ web' = web /\ named' = named /\ u \in OpenOn(t) /\ open'[t] \in Seq(Units)
      /\ pc'[u] = l /\ \A x \in Units \ {u} : pc'[x] = pc[x]
  BY <1>1, <1>2 DEF Departs, SetScope, PlacesOK, Runs, Goto
<1>4. Only(u, t)
  BY <1>1, <1>3, Running DEF Departs, Only, SetScope, PlacesOK
<1>5. PlacesOK'
  <2>1. wiped' \subseteq Units /\ left' \in [Threads -> SUBSET Units]
    BY <1>1 DEF Departs, PlacesOK
  <2>2. scope' \in [Threads -> Scopes] /\ web' \in Webs /\ named' \subseteq Requests
    BY <1>1, <1>3 DEF Departs, PlacesOK, SetScope
  <2> QED
    BY <1>2, <2>1, <2>2 DEF PlacesOK
<1>6. \/ u \in Requests /\ web # "sanic" /\ u \in left'[t] /\ wiped' = wiped
           /\ left'[t] = left[t] \cup {u} /\ s.tags = scope[t].tags /\ s.crumbs = scope[t].crumbs
      \/ /\ s.request = None /\ s.tags = {} /\ s.crumbs = {} /\ wiped' = wiped \cup OpenOn(t)
         /\ t # MainThread => s.active # "on"
         /\ left'[t] = IF s.stack = <<>> THEN {} ELSE left[t]
         /\ \/ u \in Requests /\ web = "sanic" /\ s.stack = scope[t].stack
            \/ u \in Requests /\ web # "sanic" /\ (left[t] = {} => s.stack = <<>>)
            \/ u \in Tasks /\ s.stack = Pop(scope[t], u).stack
  BY <1>1 DEF Departs, PlacesOK
<1>7. DataAt(t)'
  BY <1>1, <1>2, <1>3, <1>6 DEF ThreadAt, DataAt
<1>8. RequestAt(t)'
  <2>1. CASE u \in Requests /\ web # "sanic"
    BY <1>2, <2>1, RequestAlone DEF RequestAt
  <2>2. CASE web = "sanic"
    BY <1>3, <2>2 DEF RequestAt, IsFlask
  <2>3. CASE u \in Tasks /\ web # "sanic"
    BY <1>2, <1>3, <1>6, <2>3, NamesAssumption DEF RequestAt
  <2> QED
    BY <2>1, <2>2, <2>3 DEF Units
<1>9. ASSUME u \in Requests, web # "sanic" PROVE StackAt(t)'
  <2>1. Len(open'[t]) = 0 /\ OpenOn(t)' = {}
    BY <1>2, <1>9, RequestAlone
  <2>2. left'[t] = {} => s.stack = <<>>
    BY <1>6, <1>9, NamesAssumption
  <2>3. s.stack = <<>> => Len(s.stack) = 0
    OBVIOUS
  <2> QED
    BY <1>3, <1>9, <2>1, <2>2, <2>3 DEF StackAt
<1>10. ASSUME u \in Requests, web = "sanic" PROVE StackAt(t)'
  <2>1. OpenOn(t)' \cap Tasks = OpenOn(t) \cap Tasks /\ s.stack = scope[t].stack
    BY <1>2, <1>6, <1>10, NamesAssumption
  <2>2. left'[t] = {} /\ s.stack # <<>> => left[t] = {}
    BY <1>6, <1>10
  <2> QED
    BY <1>1, <1>3, <1>10, <2>1, <2>2 DEF ThreadAt, StackAt
<1>11. ASSUME u \in Tasks PROVE StackAt(t)'
  <2> DEFINE old == scope[t].stack
             n == Len(open[t])
  <2>1. /\ s.stack = Pop(scope[t], u).stack
        /\ left'[t] = {} /\ s.stack # <<>> => left[t] = {}
    BY <1>6, <1>11, NamesAssumption
  <2>2. old # <<>> /\ old[Len(old)] = u
    <3>1. CASE web = "sanic"
      BY <1>1, <1>3, <1>11, <3>1 DEF ThreadAt, StackAt
    <3>2. CASE web # "sanic"
      <4>1. u = open[t][n] /\ n \in 1..n
        BY <1>1, <3>2, Running, EmptySeq
      <4>2. Pushed(open[t][n])
        BY <1>11, <4>1 DEF Pushed
      <4>3. Len(old) - n + n >= 1 /\ old[Len(old) - n + n] = open[t][n]
        BY <1>1, <3>2, <4>1, <4>2 DEF ThreadAt, StackAt
      <4>4. Len(old) - n + n = Len(old) /\ (old = <<>> => Len(old) = 0)
        BY <1>1
      <4> QED
        BY <4>1, <4>3, <4>4
    <3> QED
      BY <3>1, <3>2
  <2>3. /\ Len(s.stack) = Len(old) - 1
        /\ \A i \in 1..(Len(old) - 1) : s.stack[i] = old[i]
    BY <1>1, <2>1, <2>2, PopTop
  <2>4. CASE web = "sanic"
    <3>1. OpenOn(t)' \cap Tasks = {}
      BY <1>1, <1>2, <1>3, <1>11, <2>4 DEF ThreadAt, NestAt
    <3>2. left'[t] = {} => s.stack = <<>>
      <4>1. left[t] = {} => Len(old) = 1
        BY <1>1, <2>2, <2>4 DEF ThreadAt, StackAt
      <4>2. Len(s.stack) = 0 => s.stack = <<>>
        BY EmptySeq DEF Scopes
      <4> QED
        BY <2>1, <2>3, <4>1, <4>2
    <3> QED
      BY <1>3, <2>4, <3>1, <3>2 DEF StackAt
  <2>5. CASE web # "sanic"
    <3>1. ASSUME NEW i \in 1..Len(open'[t]), Pushed(open[t][i])'
          PROVE  /\ Len(s.stack) - Len(open'[t]) + i >= 1
                 /\ s.stack[Len(s.stack) - Len(open'[t]) + i] = open'[t][i]
      <4> DEFINE m == Len(old)
      <4>0. m \in Nat /\ n \in Nat /\ Len(s.stack) = m - 1 /\ Len(open'[t]) = n - 1 /\ i \in 1..(n - 1)
        BY <1>1, <1>2, <2>3, <3>1
      <4>1. open'[t][i] = open[t][i] /\ open[t][i] # u /\ open[t][i] \in Units /\ i \in 1..n
        <5>1. u = open[t][n] /\ i \in 1..n /\ n \in 1..n /\ i # n
          BY <1>1, <2>5, <4>0, Running
        <5>2. open[t][i] # u
          BY <1>1, <5>1 DEF OpenInv
        <5>3. open'[t][i] = open[t][i]
          BY <1>2, <2>5, <4>0
        <5> QED
          BY <1>1, <5>1, <5>2, <5>3
      <4>2. Pushed(open[t][i])
        BY <1>3, <3>1, <4>1 DEF Pushed
      <4>3. m - n + i >= 1 /\ old[m - n + i] = open[t][i]
        BY <1>1, <2>5, <4>1, <4>2 DEF ThreadAt, StackAt
      <4>4. (m - 1) - (n - 1) + i = m - n + i /\ m - n + i \in 1..(m - 1)
        <5>1. m - n + i >= 1
          BY <4>3
        <5> HIDE DEF m, n
        <5> QED
          BY <4>0, <5>1
      <4>5. s.stack[m - n + i] = old[m - n + i]
        BY <2>3, <4>4
      <4>6. Len(s.stack) - Len(open'[t]) + i = m - n + i
        BY <4>0, <4>4
      <4> HIDE DEF m, n
      <4> QED
        BY <4>1, <4>3, <4>5, <4>6, Zenon
    <3>2. ASSUME left'[t] = {}, s.stack # <<>>
          PROVE  /\ Len(s.stack) <= Len(open'[t])
                 /\ \A x \in OpenOn(t)' : pc'[x] = "view" => s.stack = <<>>
                 /\ (\E x \in OpenOn(t)' : Pushless(x)') =>
                       Len(s.stack) < Len(open'[t])
      <4>1. /\ Len(old) <= n
            /\ \A x \in OpenOn(t) : pc[x] # "view"
            /\ (\E x \in OpenOn(t) : Pushless(x)) => Len(old) < n
        BY <1>1, <2>1, <2>2, <2>5, <3>2 DEF ThreadAt, StackAt
      <4>2. \A x \in OpenOn(t)' : pc'[x] # "view"
        BY <1>1, <1>2, <1>3, <4>1
      <4>3. Len(s.stack) <= Len(open'[t]) /\ (Len(old) < n => Len(s.stack) < Len(open'[t]))
        BY <1>1, <1>2, <2>3, <4>1
      <4>4. \A x \in OpenOn(t)' : Pushless(x)' => x \in OpenOn(t) /\ Pushless(x)
        BY <1>2, <1>3 DEF Pushless
      <4> QED
        BY <4>1, <4>2, <4>3, <4>4
    <3>3. ASSUME s.stack = <<>>
          PROVE  /\ Len(s.stack) <= Len(open'[t])
                 /\ (\E x \in OpenOn(t)' : Pushless(x)') =>
                       Len(s.stack) < Len(open'[t])
      <4>1. Len(s.stack) = 0 /\ Len(open'[t]) \in Nat
        BY <1>3, <3>3
      <4>2. OpenOn(t)' # {} => Len(open'[t]) # 0
        BY <1>3 DEF OpenOn, ToSet
      <4> QED
        BY <4>1, <4>2
    <3> QED
      BY <1>3, <2>5, <3>1, <3>2, <3>3 DEF StackAt
  <2> QED
    BY <2>4, <2>5
<1> QED
  BY <1>2, <1>4, <1>5, <1>7, <1>8, <1>9, <1>10, <1>11 DEF ThreadAt, Units

-----------------------------------------------------------------------------
(* Every step keeps the invariant. *)

RestOK ==
    /\ lastId \in Ids /\ g \in [Requests -> Ids \cup {"unset"}] /\ header \in [Requests -> Ids]
    /\ txid \in Ids /\ connected \in BOOLEAN /\ current \in [Threads -> Ids]

(* The parts of the invariant put together again. *)
LEMMA Together ==
  ASSUME IInv, NEW u \in Units, NEW t \in Threads, OpenInv', PcInv', ThreadAt(t)', PlacesOK',
         Only(u, t), RestOK', HeaderInv'
  PROVE  IInv'
<1>1. TypeOK'
  BY DEF PlacesOK, RestOK, TypeOK
<1>2. \A v \in Threads : (NestAt(v) /\ DataAt(v) /\ RequestAt(v) /\ StackAt(v))'
  BY OtherThreads DEF ThreadAt
<1> QED
  BY <1>1, <1>2 DEF IInv, ThreadInv

(* What leaves Flask's variables alone keeps their invariant. *)
LEMMA HeaderKept ==
  ASSUME IInv, NEW u \in Units, UNCHANGED <<web, named, g, header>>,
         \/ pc' = pc
         \/ \E l \in {"run", "view", "answered"} :
              Goto(u, l) /\ pc[u] \notin {"stream", "ended", "done"}
         \/ Goto(u, "stream") \/ Goto(u, "ended") \/ Goto(u, "done")
  PROVE  HeaderInv'
<1>1. TypeOK /\ HeaderInv /\ Requests \subseteq Units
  BY DEF IInv, Units
<1>2. \A x \in Units : pc[x] \in {"stream", "ended", "done"} => pc'[x] \in {"stream", "ended", "done"}
  BY <1>1 DEF Goto, TypeOK
<1> QED
  BY <1>1, <1>2 DEF HeaderInv, IsFlask

(* Steps that are neither of Flask nor of Django keep what is of these. *)
LEMMA RestKept ==
  ASSUME IInv, UNCHANGED <<flask, django>>
  PROVE  RestOK' /\ UNCHANGED <<g, header>>
BY DEF IInv, TypeOK, RestOK, flask, django

(* A context that is not written is that of its thread as before. *)
LEMMA KeptScope ==
  ASSUME IInv, NEW t \in Threads, scope' = scope
  PROVE  SetScope(t, scope[t]) /\ scope[t] \in Scopes
BY DEF IInv, TypeOK, SetScope

(* With Leave: what is asked of the scope that stays behind. *)
LEMMA LeaveStep ==
  ASSUME IInv, NEW u \in Units, NEW t \in Threads, NEW s \in Scopes, Runs(u, t),
         NEW clear \in BOOLEAN, Leave(u, t, s, clear), web' = web, named' = named, RestOK', HeaderInv',
         \/ ~ clear /\ u \in Requests /\ web # "sanic"
            /\ s.tags = scope[t].tags /\ s.crumbs = scope[t].crumbs
         \/ /\ clear /\ s.request = None /\ s.tags = {} /\ s.crumbs = {}
            /\ t # MainThread => s.active # "on"
            /\ \/ u \in Requests /\ web = "sanic" /\ s.stack = scope[t].stack
               \/ u \in Requests /\ web # "sanic" /\ (left[t] = {} => s.stack = <<>>)
               \/ u \in Tasks /\ s.stack = Pop(scope[t], u).stack
  PROVE  IInv'
<1>1. Departs(u, t, s, "done")
  <2>1. CASE ~ clear
    BY <2>1 DEF Leave, Departs
  <2>2. CASE clear
    <3>1. left' = [left EXCEPT ![t] = IF s.stack = <<>> THEN {} ELSE @]
      BY <2>2 DEF Leave
    <3>2. wiped' = wiped \cup OpenOn(t)
      BY <2>2 DEF Leave
    <3> QED
      BY <2>2, <3>1, <3>2 DEF Leave, Departs
  <2> QED
    BY <2>1, <2>2
<1>2. OpenInv' /\ PcInv' /\ ThreadAt(t)' /\ PlacesOK' /\ Only(u, t)
  BY <1>1, LeaveThread
<1> QED
  BY <1>2, Together

(* What the code of a unit does, whichever the integration, keeps the      *)
(* invariant.                                                              *)
LEMMA WorkStep ==
  ASSUME IInv, NEW u \in Units, NEW t \in Threads, Work(u, t) \/ Message(u, t)
  PROVE  IInv'
<1>0. scope[t] \in Scopes /\ TypeOK /\ HeaderInv
  BY TypesAt DEF IInv
<1>1. CASE Work(u, t)
  <2>1. PICK s \in {RecordCrumb(scope[t], u), MergeTag(scope[t], u)} : SetScope(t, s)
    BY <1>1 DEF Work
  <2>2. /\ s \in Scopes /\ s.request = scope[t].request /\ s.stack = scope[t].stack
        /\ s.tags \subseteq scope[t].tags \cup {u} /\ s.crumbs \subseteq scope[t].crumbs \cup {u}
    <3>1. CASE s = RecordCrumb(scope[t], u)
      <4>1. u \in Units \cup {Outside}
        OBVIOUS
      <4>2. /\ RecordCrumb(scope[t], u) \in Scopes
            /\ RecordCrumb(scope[t], u).request = scope[t].request
            /\ RecordCrumb(scope[t], u).tags = scope[t].tags
            /\ RecordCrumb(scope[t], u).stack = scope[t].stack
            /\ RecordCrumb(scope[t], u).crumbs \subseteq scope[t].crumbs \cup {u}
        BY <1>0, <4>1, ScopeProperties
      <4> QED
        BY <3>1, <4>2
    <3>2. CASE s = MergeTag(scope[t], u)
      BY <1>0, <3>2, ScopeProperties
    <3> QED
      BY <2>1, <3>1, <3>2
  <2>3. OpenInv' /\ PcInv' /\ ThreadAt(t)' /\ PlacesOK' /\ Only(u, t)
    BY <1>1, <2>1, <2>2, StayThread DEF Work
  <2>4. RestOK' /\ HeaderInv'
    BY <1>1, RestKept, HeaderKept DEF Work
  <2> QED
    BY <2>3, <2>4, Together
<1>2. CASE Message(u, t)
  <2>1. /\ Touch(scope[t]) \in Scopes /\ Touch(scope[t]).request = scope[t].request
        /\ Touch(scope[t]).stack = scope[t].stack
        /\ Touch(scope[t]).tags = scope[t].tags /\ Touch(scope[t]).crumbs = scope[t].crumbs
    BY <1>0, ScopeProperties
  <2>2. Runs(u, t) /\ pc[u] = "run" /\ UNCHANGED <<web, named, open, pc, header, django, wiped, left>>
        /\ SetScope(t, Touch(scope[t]))
    BY <1>2 DEF Message, At
  <2>3. OpenInv' /\ PcInv' /\ ThreadAt(t)' /\ PlacesOK' /\ Only(u, t)
    BY <2>1, <2>2, StayThread
  <2>4. /\ lastId' \in Ids /\ g' \in [Requests -> Ids \cup {"unset"}]
        /\ g' = g \/ (u \in Requests /\ g' = [g EXCEPT ![u] = u])
    <3>1. CASE (IsFlask \/ web = "sanic") /\ u \in Requests
      BY <1>0, <1>2, <3>1 DEF Message, TypeOK, Ids
    <3>2. CASE ~ ((IsFlask \/ web = "sanic") /\ u \in Requests)
      BY <1>0, <1>2, <3>2 DEF Message, TypeOK
    <3> QED
      BY <3>1, <3>2
  <2>5. RestOK'
    BY <1>0, <2>2, <2>4 DEF TypeOK, RestOK, django
  <2>6. HeaderInv'
    BY <1>0, <2>2, <2>4 DEF TypeOK, HeaderInv, IsFlask
  <2> QED
    BY <2>3, <2>5, <2>6, Together
<1> QED
  BY <1>1, <1>2

(* Where no unit is at work nothing but the crumbs of a thread changes. *)
LEMMA OutsideStep ==
  ASSUME IInv, NEW t \in Threads, WorkOutside(t)
  PROVE  IInv'
<1> DEFINE s == RecordCrumb(scope[t], Outside)
<1>1. /\ s \in Scopes /\ s.request = scope[t].request /\ s.tags = scope[t].tags
      /\ s.stack = scope[t].stack /\ s.active = scope[t].active
      /\ s.crumbs = IF scope[t].active = "on" THEN scope[t].crumbs \cup {Outside}
                                              ELSE scope[t].crumbs
  <2>1. scope[t] \in Scopes /\ Outside \in Units \cup {Outside}
    BY TypesAt
  <2> QED
    BY <2>1, ScopeProperties
<1> HIDE DEF s
<1>2. /\ open[t] = <<>> /\ SetScope(t, s) /\ UNCHANGED <<web, named, open, pc, wiped, left>>
      /\ UNCHANGED <<lastId, g, header, txid, connected, current>>
  BY DEF WorkOutside, s, flask, django
<1>3. scope'[t] = s /\ \A v \in Threads \ {t} : scope'[v] = scope[v]
  BY <1>2 DEF IInv, TypeOK, SetScope
<1>4. \A v \in Threads : OpenOn(v)' = OpenOn(v)
  BY <1>2 DEF OpenOn
<1>5. TypeOK' /\ OpenInv' /\ PcInv' /\ HeaderInv'
  BY <1>1, <1>2, <1>4 DEF IInv, TypeOK, OpenInv, PcInv, HeaderInv, SetScope, IsFlask
<1>6. ASSUME NEW v \in Threads PROVE NestAt(v)' /\ RequestAt(v)' /\ StackAt(v)' /\ DataAt(v)'
  <2>1. NestAt(v) /\ RequestAt(v) /\ StackAt(v) /\ DataAt(v)
    BY DEF IInv, ThreadInv
  <2>2. /\ scope'[v].stack = scope[v].stack /\ scope'[v].request = scope[v].request
        /\ scope'[v].tags = scope[v].tags /\ scope'[v].active = scope[v].active
    BY <1>1, <1>3
  <2>3. NestAt(v)'
    BY <1>2, <1>4, <2>1 DEF NestAt
  <2>4. RequestAt(v)'
    BY <1>2, <1>4, <2>1, <2>2 DEF RequestAt, IsFlask
  <2>5. StackAt(v)'
    BY <1>2, <1>4, <2>1, <2>2 DEF StackAt, Pushed, Pushless
  <2>6. DataAt(v)'
    BY <1>1, <1>2, <1>3, <1>4, <2>1, <2>2 DEF DataAt
  <2> QED
    BY <2>3, <2>4, <2>5, <2>6
<1> QED
  BY <1>5, <1>6 DEF IInv, ThreadInv

(* The steps with which a unit begins. *)
LEMMA BeginStep ==
  ASSUME IInv, NEW u \in Units, NEW t \in Threads,
         \/ Call(u, t) \/ BeginSanic(u, t) \/ ProcessRequest(u, t)
         \/ BeginExplicit(u, t) \/ TaskPrerun(u, t)
  PROVE  IInv'
<1>0. scope[t] \in Scopes /\ TypeOK /\ u # None /\ u \in Ids /\ None \in Ids
  BY TypesAt, NamesAssumption DEF IInv, Units, Ids
<1>1. /\ u \in Requests => u \notin Tasks
      /\ Enter(u, t) => pc[u] = "new"
  BY NamesAssumption DEF Enter
<1>2. CASE Call(u, t)
  <2> DEFINE s == MergeRequest(scope[t], u)
  <2>1. /\ s \in Scopes /\ s.request = u /\ s.tags = scope[t].tags
        /\ s.crumbs = scope[t].crumbs /\ s.stack = scope[t].stack
    BY <1>0, <1>2, ScopeProperties DEF Call
  <2>2. /\ u \in Requests /\ web = "wsgi" /\ Enter(u, t) /\ Goto(u, "run") /\ SetScope(t, s)
        /\ UNCHANGED <<web, named, wiped, left>> /\ UNCHANGED <<flask, django>>
    BY <1>2 DEF Call
  <2> HIDE DEF s
  <2>3. OpenInv' /\ PcInv' /\ ThreadAt(t)' /\ PlacesOK' /\ Only(u, t)
    BY <1>1, <2>1, <2>2, EnterThread
  <2> QED
    BY <1>1, <2>2, <2>3, RestKept, HeaderKept, Together
<1>3. CASE BeginSanic(u, t)
  <2>1. PICK l \in {"run", "view"}, s \in {MergeRequest(scope[t], u), scope[t]} :
          Goto(u, l) /\ SetScope(t, s)
    BY <1>0, <1>3, KeptScope DEF BeginSanic
  <2>2. /\ u \in Requests /\ web = "sanic" /\ Enter(u, t) /\ UNCHANGED <<web, named, wiped, left>>
        /\ UNCHANGED <<g, header, django>> /\ lastId' \in {None, lastId}
    BY <1>3 DEF BeginSanic
  <2>3. /\ s \in Scopes /\ s.tags = scope[t].tags
        /\ s.crumbs = scope[t].crumbs /\ s.stack = scope[t].stack
    <3>1. /\ MergeRequest(scope[t], u) \in Scopes
          /\ MergeRequest(scope[t], u).tags = scope[t].tags
          /\ MergeRequest(scope[t], u).crumbs = scope[t].crumbs
          /\ MergeRequest(scope[t], u).stack = scope[t].stack
      BY <1>0, <2>2, ScopeProperties
    <3> QED
      BY <1>0, <2>1, <3>1
  <2>4. OpenInv' /\ PcInv' /\ ThreadAt(t)' /\ PlacesOK' /\ Only(u, t)
    BY <1>1, <2>1, <2>2, <2>3, EnterThread
  <2>5. RestOK'
    BY <1>0, <2>2 DEF TypeOK, RestOK, django
  <2>6. HeaderInv'
    BY <1>1, <2>1, <2>2, HeaderKept
  <2> QED
    BY <2>4, <2>5, <2>6, Together
<1>4. CASE ProcessRequest(u, t)
  <2> DEFINE s == Activate(scope[t])
  <2>1. /\ s \in Scopes /\ s.tags = scope[t].tags
        /\ s.crumbs = scope[t].crumbs /\ s.stack = scope[t].stack
    BY <1>0, ScopeProperties
  <2>2. /\ u \in Requests /\ web = "django" /\ Enter(u, t) /\ Goto(u, "view") /\ SetScope(t, s)
        /\ UNCHANGED <<web, named, wiped, left>> /\ UNCHANGED flask /\ txid' = None /\ connected' = TRUE
        /\ current' = [current EXCEPT ![t] = u]
    BY <1>4 DEF ProcessRequest
  <2> HIDE DEF s
  <2>3. OpenInv' /\ PcInv' /\ ThreadAt(t)' /\ PlacesOK' /\ Only(u, t)
    BY <1>1, <2>1, <2>2, EnterThread
  <2>4. RestOK'
    BY <1>0, <2>2 DEF TypeOK, RestOK, flask
  <2>5. HeaderInv'
    BY <1>1, <2>2, HeaderKept DEF flask
  <2> QED
    BY <2>3, <2>4, <2>5, Together
<1>5. CASE BeginExplicit(u, t)
  <2>1. /\ u \in Requests /\ web \in {"lambda", "explicit"} /\ Enter(u, t) /\ Goto(u, "run")
        /\ UNCHANGED <<web, named, wiped, left>> /\ UNCHANGED <<flask, django>> /\ SetScope(t, scope[t])
    BY <1>5, KeptScope DEF BeginExplicit
  <2>2. OpenInv' /\ PcInv' /\ ThreadAt(t)' /\ PlacesOK' /\ Only(u, t)
    BY <1>0, <1>1, <2>1, EnterThread
  <2> QED
    BY <1>1, <2>1, <2>2, RestKept, HeaderKept, Together
<1>6. CASE TaskPrerun(u, t)
  <2> DEFINE s == Push(Activate(scope[t]), u)
  <2>1. /\ Activate(scope[t]) \in Scopes /\ Activate(scope[t]).request = scope[t].request
        /\ Activate(scope[t]).tags = scope[t].tags /\ Activate(scope[t]).crumbs = scope[t].crumbs
        /\ Activate(scope[t]).stack = scope[t].stack
    BY <1>0, ScopeProperties
  <2>2. /\ s \in Scopes /\ s.request = scope[t].request /\ s.tags = scope[t].tags
        /\ s.crumbs = scope[t].crumbs /\ s.stack = Append(scope[t].stack, u)
    BY <2>1, PushProperties
  <2>3. /\ u \in Tasks /\ Enter(u, t) /\ Goto(u, "run") /\ SetScope(t, s)
        /\ UNCHANGED <<web, named, wiped, left>> /\ UNCHANGED <<flask, django>>
    BY <1>6 DEF TaskPrerun
  <2> HIDE DEF s
  <2>4. OpenInv' /\ PcInv' /\ ThreadAt(t)' /\ PlacesOK' /\ Only(u, t)
    BY <1>1, <2>2, <2>3, EnterThread
  <2> QED
    BY <1>1, <2>3, <2>4, RestKept, HeaderKept, Together
<1> QED
  BY <1>2, <1>3, <1>4, <1>5, <1>6

(* So does the beginning of a request of Flask, *)
LEMMA BeginFlaskStep ==
  ASSUME IInv, NEW u \in Units, NEW t \in Threads, BeginFlask(u, t)
  PROVE  IInv'
<1> DEFINE w == IF web = "flask" THEN MergeRequest(scope[t], u) ELSE scope[t]
           p == IF u \in named THEN Push(w, u) ELSE w
<1>0. /\ scope[t] \in Scopes /\ TypeOK /\ HeaderInv /\ u # None /\ u \in Ids /\ None \in Ids
      /\ u \in Requests /\ u \notin Tasks /\ web \in {"flask", "flask_debug"} /\ pc[u] = "new"
  BY TypesAt, NamesAssumption DEF IInv, Units, Ids, BeginFlask, IsFlask, Enter
<1>1. /\ w \in Scopes /\ w.tags = scope[t].tags /\ w.crumbs = scope[t].crumbs
      /\ w.stack = scope[t].stack /\ (web = "flask" => w.request = u)
  BY <1>0, ScopeProperties, ZenonT(60)
<1>2. /\ Enter(u, t) /\ UNCHANGED <<web, named, header, django, wiped, left>>
      /\ \/ /\ Goto(u, "run") /\ SetScope(t, MergeRequest(p, u)) /\ lastId' = None
            /\ g' = [g EXCEPT ![u] = None]
         \/ Goto(u, "view") /\ SetScope(t, w) /\ UNCHANGED <<lastId, g>>
  BY DEF BeginFlask
<1> HIDE DEF w
<1>3. CASE /\ Goto(u, "run") /\ SetScope(t, MergeRequest(p, u)) /\ lastId' = None
           /\ g' = [g EXCEPT ![u] = None]
  <2> DEFINE s == MergeRequest(p, u)
  <2> DEFINE q == IF u \in named THEN Append(scope[t].stack, u) ELSE scope[t].stack
  <2>1. /\ p \in Scopes /\ p.tags = scope[t].tags
        /\ p.crumbs = scope[t].crumbs /\ p.stack = q
    <3>1. /\ Push(w, u) \in Scopes /\ Push(w, u).tags = scope[t].tags
          /\ Push(w, u).crumbs = scope[t].crumbs /\ Push(w, u).stack = Append(scope[t].stack, u)
      BY <1>1, PushProperties
    <3> QED
      BY <1>1, <3>1
  <2> HIDE DEF p, q
  <2>2. /\ s \in Scopes /\ s.request = u /\ s.tags = scope[t].tags
        /\ s.crumbs = scope[t].crumbs /\ s.stack = q
    BY <1>0, <2>1, ScopeProperties
  <2>3. SetScope(t, s) /\ Goto(u, "run")
    BY <1>3
  <2> HIDE DEF s
  <2>4. OpenInv' /\ PcInv' /\ ThreadAt(t)' /\ PlacesOK' /\ Only(u, t)
    BY <1>0, <1>2, <2>2, <2>3, EnterThread DEF q
  <2>5. RestOK'
    BY <1>0, <1>2, <1>3 DEF TypeOK, RestOK, django
  <2>6. HeaderInv'
    BY <1>0, <1>2, <1>3 DEF TypeOK, HeaderInv, IsFlask, Goto, Units
  <2> QED
    BY <2>4, <2>5, <2>6, Together
<1>4. CASE Goto(u, "view") /\ SetScope(t, w) /\ UNCHANGED <<lastId, g>>
  <2>1. OpenInv' /\ PcInv' /\ ThreadAt(t)' /\ PlacesOK' /\ Only(u, t)
    BY <1>0, <1>1, <1>2, <1>4, EnterThread
  <2>2. RestOK'
    BY <1>0, <1>2, <1>4 DEF TypeOK, RestOK, django
  <2>3. HeaderInv'
    BY <1>0, <1>2, <1>4, HeaderKept
  <2> QED
    BY <2>1, <2>2, <2>3, Together
<1> QED
  BY <1>2, <1>3, <1>4

(* The steps in which a unit goes on. *)
LEMMA GoOnStep ==
  ASSUME IInv, NEW u \in Units, NEW t \in Threads,
         \/ AppReturns(u, t) \/ IterRaises(u, t) \/ NoView(u, t) \/ DjangoException(u, t)
         \/ TaskFailure(u, t) \/ SanicException(u, t)
  PROVE  IInv'
<1>0. /\ scope[t] \in Scopes /\ TypeOK /\ u \in Ids
      /\ u \in Requests => u \notin Tasks
  BY TypesAt, NamesAssumption DEF IInv, Units, Ids
<1>1. CASE ~ SanicException(u, t)
  <2>1. /\ Runs(u, t) /\ UNCHANGED <<web, named, scope, open, wiped, left>> /\ UNCHANGED <<flask, django>>
        /\ \/ pc' = pc
           \/ /\ Goto(u, "answered") /\ (web # "flask_debug" \/ u \in Tasks)
              /\ pc[u] \notin {"stream", "ended", "done"}
           \/ Goto(u, "stream") /\ web = "wsgi" /\ u \in Requests
    BY <1>1 DEF AppReturns, IterRaises, NoView, DjangoException, TaskFailure, At
  <2>2. SetScope(t, scope[t])
    BY <2>1, KeptScope
  <2>3. OpenInv' /\ PcInv' /\ ThreadAt(t)' /\ PlacesOK' /\ Only(u, t)
    BY <1>0, <2>1, <2>2, StayThread
  <2>4. RestOK' /\ UNCHANGED <<g, header>>
    BY <2>1, RestKept
  <2>5. HeaderInv'
    BY <2>1, <2>4, HeaderKept
  <2> QED
    BY <2>3, <2>4, <2>5, Together
<1>2. CASE SanicException(u, t)
  <2> DEFINE s == MergeRequest(scope[t], u)
  <2>1. /\ u \in Requests /\ web = "sanic" /\ Runs(u, t) /\ Goto(u, "answered") /\ SetScope(t, s)
        /\ UNCHANGED <<web, named, open, g, header, django, wiped, left>> /\ lastId' = u
        /\ pc[u] \notin {"stream", "ended", "done"}
    BY <1>2 DEF SanicException, At
  <2>2. /\ s \in Scopes /\ s.tags = scope[t].tags
        /\ s.crumbs = scope[t].crumbs /\ s.stack = scope[t].stack
    BY <1>0, <2>1, ScopeProperties
  <2> HIDE DEF s
  <2>3. OpenInv' /\ PcInv' /\ ThreadAt(t)' /\ PlacesOK' /\ Only(u, t)
    BY <2>1, <2>2, StayThread
  <2>4. RestOK'
    BY <1>0, <2>1 DEF TypeOK, RestOK, django
  <2>5. HeaderInv'
    BY <2>1, HeaderKept
  <2> QED
    BY <2>3, <2>4, <2>5, Together
<1> QED
  BY <1>1, <1>2

(* The server's close() after the end, whatever its thread does by now. *)
LEMMA CloseAgainStep ==
  ASSUME IInv, NEW u \in Units, NEW t \in Threads, CloseAgain(u, t)
  PROVE  IInv'
<1>1. /\ pc[u] = "ended" /\ Goto(u, "done") /\ UNCHANGED <<web, named, scope, open, wiped, left>>
      /\ UNCHANGED <<flask, django>> /\ TypeOK /\ OpenInv /\ PcInv /\ u \notin Tasks
  BY DEF CloseAgain, IInv, PcInv
<1>2. pc' = [pc EXCEPT ![u] = "done"] /\ \A v \in Threads : u \notin OpenOn(v) /\ OpenOn(v)' = OpenOn(v)
  BY <1>1 DEF Goto, OpenInv, OpenOn
<1>3. \A v \in Threads : \A x \in OpenOn(v) : x \in Units /\ pc'[x] = pc[x]
  BY <1>1, <1>2 DEF TypeOK, OpenOn, ToSet
<1>4. OpenInv' /\ PcInv' /\ PlacesOK'
  <2>1. OpenInv'
    BY <1>1, <1>2, <1>3 DEF OpenInv
  <2>2. PcInv'
    BY <1>1, <1>2 DEF PcInv, TypeOK
  <2>3. PlacesOK'
    BY <1>1, <1>2 DEF PlacesOK, TypeOK
  <2> QED
    BY <2>1, <2>2, <2>3
<1>5. RestOK' /\ HeaderInv'
  BY <1>1, RestKept, HeaderKept
<1>6. Only(u, t)
  BY <1>1, <1>2 DEF Only, TypeOK
<1>7. ThreadAt(t)'
  <2>1. ThreadAt(t) /\ \A i \in 1..Len(open[t]) : open[t][i] \in OpenOn(t)
    BY TypesAt
  <2>2. NestAt(t)'
    BY <1>1, <1>2, <1>3, <2>1 DEF ThreadAt, NestAt
  <2>3. DataAt(t)'
    BY <1>1, <1>2, <2>1 DEF ThreadAt, DataAt
  <2>4. RequestAt(t)'
    BY <1>1, <1>2, <1>3, <2>1 DEF ThreadAt, RequestAt, IsFlask
  <2>5. StackAt(t)'
    <3>1. CASE web = "sanic"
      BY <1>1, <1>2, <2>1, <3>1 DEF ThreadAt, StackAt
    <3>2. CASE web # "sanic"
      <4>1. \A i \in 1..Len(open[t]) : pc'[open[t][i]] = pc[open[t][i]]
        BY <1>3, <2>1
      <4>2. /\ StackAt(t) /\ UNCHANGED <<web, named, scope, open, left>> /\ OpenOn(t)' = OpenOn(t)
            /\ \A x \in OpenOn(t) : pc'[x] = pc[x]
        BY <1>1, <1>2, <1>3, <2>1 DEF ThreadAt
      <4> QED
        BY <3>2, <4>1, <4>2, ZenonT(60) DEF StackAt, Pushed, Pushless
    <3> QED
      BY <3>1, <3>2
  <2> QED
    BY <2>2, <2>3, <2>4, <2>5 DEF ThreadAt
<1> QED
  BY <1>4, <1>5, <1>6, <1>7, Together

(* Django: the request pushes itself when its view is about to be called. *)
LEMMA ProcessViewStep ==
  ASSUME IInv, NEW u \in Units, NEW t \in Threads, ProcessView(u, t)
  PROVE  IInv'
<1> DEFINE s == IF u \in named THEN Push(scope[t], u) ELSE scope[t]
<1>0. /\ scope[t] \in Scopes /\ TypeOK /\ OpenInv /\ PcInv /\ ThreadAt(t) /\ PlacesOK
      /\ Len(scope[t].stack) \in Nat /\ scope[t].stack \in Seq(Units)
      /\ open[t] \in Seq(Units) /\ OpenOn(t) \subseteq Units /\ u \in Ids
  BY TypesAt DEF IInv, Ids
<1>1. /\ web = "django" /\ Runs(u, t) /\ pc[u] = "view" /\ Goto(u, "run") /\ SetScope(t, s)
      /\ txid' \in {u, txid} /\ UNCHANGED <<web, named, open, flask, connected, current, wiped, left>>
  BY KeptScope DEF ProcessView, At
<1>2. u \in Requests
  BY <1>0, <1>1 DEF PcInv, Units
<1>3. /\ s \in Scopes /\ s.request = scope[t].request /\ s.tags = scope[t].tags
      /\ s.crumbs = scope[t].crumbs
      /\ s.stack = IF u \in named THEN Append(scope[t].stack, u) ELSE scope[t].stack
  BY <1>0, PushProperties
<1>4. u \in named => Len(s.stack) = Len(scope[t].stack) + 1 /\ s.stack[Len(s.stack)] = u
  BY <1>0, <1>3, AppendProperties
<1> HIDE DEF s
<1>5. /\ OpenInv' /\ PcInv' /\ NestAt(t)' /\ OpenOn(t)' = OpenOn(t)
      /\ pc' \in [Units -> {"new", "run", "view", "answered", "stream", "ended", "done"}]
  BY <1>0, <1>1, Staying DEF ThreadAt
<1>6. Len(open[t]) = 1 /\ OpenOn(t) = {u} /\ open[t][1] = u
  BY <1>1, <1>2, RequestAlone, Running, <1>0
<1>7. scope'[t] = s /\ open' = open /\ left' = left /\ pc'[u] = "run" /\ web' = web /\ named' = named
  BY <1>0, <1>1 DEF SetScope, TypeOK, Goto
<1>8. PlacesOK'
  BY <1>0, <1>1, <1>3, <1>5 DEF PlacesOK, SetScope
<1>9. Only(u, t)
  BY <1>0, <1>1, Running DEF Only, SetScope, PlacesOK, Goto
<1>10. RestOK' /\ HeaderInv'
  <2>1. RestOK'
    BY <1>0, <1>1 DEF TypeOK, RestOK, flask
  <2>2. HeaderInv'
    BY <1>1, HeaderKept DEF flask
  <2> QED
    BY <2>1, <2>2
<1>11. DataAt(t)'
  BY <1>0, <1>3, <1>5, <1>6, <1>7 DEF ThreadAt, DataAt
<1>12. RequestAt(t)'
  BY <1>1, <1>7 DEF RequestAt, IsFlask
<1>13. StackAt(t)'
  <2>1. left[t] = {} => scope[t].stack = <<>> /\ Len(scope[t].stack) = 0
    <3>1. left[t] = {} => scope[t].stack = <<>>
      BY <1>0, <1>1, <1>6 DEF ThreadAt, StackAt
    <3> QED
      BY <3>1
  <2>2. CASE u \in named
    <3>1. left[t] = {} => Len(s.stack) = 1
      <4>1. Len(s.stack) = Len(scope[t].stack) + 1
        BY <1>4, <2>2
      <4> QED
        BY <2>1, <4>1
    <3>2. Len(s.stack) - 1 + 1 = Len(s.stack) /\ Len(s.stack) >= 1
      BY <1>0, <1>4, <2>2
    <3>3. ~ Pushless(u)'
      BY <1>1, <2>2 DEF Pushless
    <3> QED
      BY <1>1, <1>4, <1>5, <1>6, <1>7, <2>2, <3>1, <3>2, <3>3 DEF StackAt
  <2>3. CASE u \notin named
    <3>1. s.stack = scope[t].stack /\ ~ Pushed(u)'
      BY <1>2, <1>3, <1>7, <2>3, NamesAssumption DEF Pushed
    <3> QED
      BY <1>1, <1>5, <1>6, <1>7, <2>1, <3>1 DEF StackAt
  <2> QED
    BY <2>2, <2>3
<1> QED
  BY <1>5, <1>8, <1>9, <1>10, <1>11, <1>12, <1>13, Together DEF ThreadAt

(* The steps with which a unit leaves, and nothing of Flask's changes. *)
LEMMA EndStep ==
  ASSUME IInv, NEW u \in Units, NEW t \in Threads,
         \/ AppRaises(u, t) \/ Close(u, t) \/ Abandon(u, t) \/ SanicResponse(u, t)
         \/ RequestFinished(u, t) \/ ExplicitException(u, t) \/ ExplicitEnds(u, t)
         \/ TaskPostrun(u, t)
  PROVE  IInv'
<1>0. /\ scope[t] \in Scopes /\ TypeOK /\ PcInv /\ HeaderInv /\ u \in Ids /\ None \in Ids
      /\ ThreadAt(t) /\ scope[t].stack \in Seq(Units) /\ Len(scope[t].stack) \in Nat
      /\ u \in Requests => u \notin Tasks
  BY TypesAt, NamesAssumption DEF IInv, Units, Ids
<1>1. /\ Clear(scope[t], t) \in Scopes /\ Clear(scope[t], t).request = None
      /\ Clear(scope[t], t).tags = {} /\ Clear(scope[t], t).crumbs = {}
      /\ Clear(scope[t], t).stack = scope[t].stack
      /\ t # MainThread => Clear(scope[t], t).active = "off"
  BY <1>0, ClearProperties
<1>2. /\ Touch(scope[t]) \in Scopes /\ Touch(scope[t]).tags = scope[t].tags
      /\ Touch(scope[t]).crumbs = scope[t].crumbs
  BY <1>0, ScopeProperties
<1>3. ASSUME UNCHANGED <<flask, django>>, web' = web, named' = named, Goto(u, "done")
      PROVE  RestOK' /\ HeaderInv'
  BY <1>3, RestKept, HeaderKept
<1>4. CASE AppRaises(u, t) \/ Abandon(u, t) \/ ExplicitEnds(u, t)
  <2>1. u \in Requests /\ web # "sanic"
    BY <1>0, <1>4 DEF AppRaises, Abandon, ExplicitEnds, PcInv, At, Units
  <2>2. /\ Runs(u, t) /\ Leave(u, t, scope[t], FALSE)
        /\ web' = web /\ named' = named /\ UNCHANGED <<flask, django>>
    BY <1>4 DEF AppRaises, Abandon, ExplicitEnds, At
  <2>3. RestOK' /\ HeaderInv'
    BY <1>3, <2>2 DEF Leave
  <2> QED
    BY <1>0, <2>1, <2>2, <2>3, LeaveStep
<1>5. CASE Close(u, t)
  <2> DEFINE s == ClearStack(Clear(scope[t], t))
  <2>1. u \in Requests /\ web # "sanic" /\ Runs(u, t)
    BY <1>0, <1>5 DEF Close, PcInv, At, Units
  <2>2. /\ s \in Scopes /\ s.request = None /\ s.tags = {} /\ s.crumbs = {} /\ s.stack = <<>>
        /\ t # MainThread => s.active # "on"
    BY <1>1, ScopeProperties
  <2>3. Leave(u, t, s, TRUE) /\ web' = web /\ named' = named /\ UNCHANGED <<flask, django>>
    BY <1>5 DEF Close
  <2>4. RestOK' /\ HeaderInv'
    BY <1>3, <2>3 DEF Leave
  <2> HIDE DEF s
  <2> QED
    BY <2>1, <2>2, <2>3, <2>4, LeaveStep
<1>6. CASE SanicResponse(u, t)
  <2>1. /\ u \in Requests /\ web = "sanic" /\ Runs(u, t) /\ Leave(u, t, Clear(scope[t], t), TRUE)
        /\ web' = web /\ named' = named /\ UNCHANGED <<lastId, g, django>>
        /\ header' = [header EXCEPT ![u] = lastId]
    BY <1>6 DEF SanicResponse
  <2>2. RestOK' /\ HeaderInv'
    BY <1>0, <2>1 DEF TypeOK, RestOK, django, HeaderInv, IsFlask
  <2>3. t # MainThread => Clear(scope[t], t).active # "on"
    BY <1>1
  <2> QED
    BY <1>1, <2>1, <2>2, <2>3, LeaveStep
<1>7. CASE RequestFinished(u, t)
  <2>1. PICK s \in {Pop(scope[t], txid), scope[t]} : Leave(u, t, s, FALSE)
    BY <1>7 DEF RequestFinished
  <2>2. /\ u \in Requests /\ web = "django" /\ Runs(u, t) /\ web' = web /\ named' = named /\ UNCHANGED flask
        /\ \/ txid' = None /\ current' = [current EXCEPT ![t] = None] /\ connected' = FALSE
           \/ UNCHANGED django
    BY <1>7 DEF RequestFinished, At
  <2>3. s \in Scopes /\ s.tags = scope[t].tags /\ s.crumbs = scope[t].crumbs
    BY <1>0, <2>1, PopProperties
  <2>4. RestOK'
    BY <1>0, <2>2 DEF TypeOK, RestOK, flask, django
  <2>5. HeaderInv'
    BY <2>2 DEF HeaderInv, IsFlask
  <2> QED
    BY <2>1, <2>2, <2>3, <2>4, <2>5, LeaveStep
<1>8. CASE ExplicitException(u, t)
  <2>1. /\ u \in Requests /\ web \in {"lambda", "explicit"} /\ Runs(u, t) /\ web' = web /\ named' = named
        /\ UNCHANGED <<flask, django>>
    BY <1>8 DEF ExplicitException, At
  <2>2. CASE web = "lambda"
    <3>1. Leave(u, t, Clear(scope[t], t), TRUE)
      BY <1>8, <2>2 DEF ExplicitException
    <3>2. RestOK' /\ HeaderInv'
      BY <1>3, <2>1, <3>1 DEF Leave
    <3>3. left[t] = {} => Clear(scope[t], t).stack = <<>>
      <4>1. Len(open[t]) = 1 /\ \E x \in OpenOn(t) : Pushless(x)
        BY <2>1, RequestAlone DEF Pushless
      <4>2. left[t] = {} => Len(scope[t].stack) < 1
        BY <1>0, <2>2, <4>1 DEF ThreadAt, StackAt
      <4>3. Len(scope[t].stack) = 0 => scope[t].stack = <<>>
        BY <1>0, EmptySeq
      <4> QED
        BY <1>0, <1>1, <4>2, <4>3
    <3>4. t # MainThread => Clear(scope[t], t).active # "on"
      BY <1>1
    <3> QED
      BY <1>1, <2>1, <2>2, <3>1, <3>2, <3>3, <3>4, LeaveStep
  <2>3. CASE web = "explicit"
    <3>1. Leave(u, t, Touch(scope[t]), FALSE)
      BY <1>8, <2>3 DEF ExplicitException
    <3>2. RestOK' /\ HeaderInv'
      BY <1>3, <2>1, <3>1 DEF Leave
    <3> QED
      BY <1>2, <2>1, <2>3, <3>1, <3>2, LeaveStep
  <2> QED
    BY <2>1, <2>2, <2>3
<1>9. CASE TaskPostrun(u, t)
  <2> DEFINE p == Pop(scope[t], u)
             s == Clear(p, t)
  <2>1. p \in Scopes
    BY <1>0, PopProperties
  <2>2. /\ s \in Scopes /\ s.request = None /\ s.tags = {} /\ s.crumbs = {}
        /\ s.stack = Pop(scope[t], u).stack /\ (t # MainThread => s.active # "on")
    <3> HIDE DEF p
    <3>1. /\ s \in Scopes /\ s.request = None /\ s.tags = {} /\ s.crumbs = {}
          /\ s.stack = p.stack /\ (t # MainThread => s.active = "off")
      BY <2>1, ScopeProperties
    <3> QED
      BY <3>1 DEF p
  <2>3. /\ u \in Tasks /\ Runs(u, t) /\ Leave(u, t, s, TRUE) /\ web' = web /\ named' = named
        /\ UNCHANGED <<flask, django>>
    BY <1>9 DEF TaskPostrun, At
  <2>4. RestOK' /\ HeaderInv'
    BY <1>3, <2>3 DEF Leave
  <2> HIDE DEF s
  <2> QED
    BY <2>2, <2>3, <2>4, LeaveStep
<1> QED
  BY <1>4, <1>5, <1>6, <1>7, <1>8, <1>9

(* the end of a response that was streamed, *)
LEMMA IterEndsStep ==
  ASSUME IInv, NEW u \in Units, NEW t \in Threads, IterEnds(u, t)
  PROVE  IInv'
<1> DEFINE s == ClearStack(Clear(scope[t], t))
<1>1. /\ scope[t] \in Scopes /\ Runs(u, t) /\ pc[u] = "stream" /\ PcInv
      /\ UNCHANGED <<flask, django>> /\ web' = web /\ named' = named
  BY TypesAt DEF IterEnds, At, IInv
<1>2. /\ Clear(scope[t], t) \in Scopes /\ Clear(scope[t], t).request = None
      /\ Clear(scope[t], t).tags = {} /\ Clear(scope[t], t).crumbs = {}
      /\ t # MainThread => Clear(scope[t], t).active = "off"
  BY <1>1, ClearProperties
<1>3. /\ s \in Scopes /\ s.request = None /\ s.tags = {} /\ s.crumbs = {} /\ s.stack = <<>>
      /\ t # MainThread => s.active # "on"
  BY <1>2, ScopeProperties
<1>4. u \in Requests /\ u \notin Tasks /\ web # "sanic"
  BY <1>1 DEF PcInv, Units
<1>5. /\ SetScope(t, s) /\ Goto(u, "ended") /\ open' = [open EXCEPT ![t] = RemoveFirst(@, u)]
      /\ wiped' = wiped \cup OpenOn(t) /\ left' = [left EXCEPT ![t] = {}]
  BY DEF IterEnds
<1> HIDE DEF s
<1>6. Departs(u, t, s, "ended")
  BY <1>1, <1>3, <1>4, <1>5 DEF Departs
<1>7. OpenInv' /\ PcInv' /\ ThreadAt(t)' /\ PlacesOK' /\ Only(u, t)
  BY <1>1, <1>3, <1>6, LeaveThread
<1>8. RestOK' /\ HeaderInv'
  BY <1>1, <1>5, RestKept, HeaderKept
<1> QED
  BY <1>7, <1>8, Together


(* Flask: the response, or in debug mode the exception, ends the request. *)
LEMMA FlaskExceptionStep ==
  ASSUME IInv, NEW u \in Units, NEW t \in Threads, FlaskException(u, t)
  PROVE  IInv'
<1>0. /\ scope[t] \in Scopes /\ TypeOK /\ HeaderInv /\ u \in Ids /\ u \in Requests /\ u \notin Tasks
      /\ web \in {"flask", "flask_debug"} /\ Runs(u, t) /\ pc[u] \in {"run", "view"}
      /\ lastId' = u /\ g' = [g EXCEPT ![u] = u] /\ UNCHANGED <<web, named, header, django>>
  BY TypesAt, NamesAssumption DEF IInv, Ids, FlaskException, IsFlask, At
<1>1. RestOK'
  BY <1>0 DEF TypeOK, RestOK, django
<1>2. ASSUME NEW l \in {"answered", "done"}, Goto(u, l) PROVE HeaderInv'
  <2>1. pc'[u] = l /\ \A x \in Units \ {u} : pc'[x] = pc[x]
    BY <1>0, <1>2 DEF TypeOK, Goto
  <2>2. header[u] = None /\ g'[u] = u /\ \A r \in Requests \ {u} : g'[r] = g[r]
    BY <1>0 DEF TypeOK, HeaderInv, IsFlask
  <2> QED
    BY <1>0, <2>1, <2>2 DEF HeaderInv, IsFlask, Units
<1>3. CASE web = "flask"
  <2>1. Goto(u, "answered") /\ UNCHANGED <<scope, open, wiped, left>>
    BY <1>3 DEF FlaskException
  <2>2. SetScope(t, scope[t])
    BY <2>1, KeptScope
  <2>3. OpenInv' /\ PcInv' /\ ThreadAt(t)' /\ PlacesOK' /\ Only(u, t)
    BY <1>0, <1>3, <2>1, <2>2, StayThread
  <2> QED
    BY <1>1, <1>2, <2>1, <2>3, Together
<1>4. CASE web = "flask_debug"
  <2>1. Leave(u, t, Touch(scope[t]), FALSE)
    BY <1>4 DEF FlaskException
  <2>2. /\ Touch(scope[t]) \in Scopes /\ Touch(scope[t]).tags = scope[t].tags
        /\ Touch(scope[t]).crumbs = scope[t].crumbs
    BY <1>0, ScopeProperties
  <2>3. HeaderInv'
    BY <1>2, <2>1 DEF Leave
  <2> QED
    BY <1>0, <1>1, <1>4, <2>1, <2>2, <2>3, LeaveStep
<1> QED
  BY <1>0, <1>3, <1>4

(* and the handler that sets the header. *)
LEMMA AfterRequestStep ==
  ASSUME IInv, NEW u \in Units, NEW t \in Threads, AfterRequest(u, t)
  PROVE  IInv'
<1> DEFINE c == Clear(scope[t], t)
           s == IF u \in named THEN Pop(c, u) ELSE c
<1>0. /\ scope[t] \in Scopes /\ TypeOK /\ HeaderInv /\ OpenInv /\ PcInv /\ u \in Ids
      /\ u \in Requests /\ u \notin Tasks /\ ThreadAt(t) /\ PlacesOK
      /\ scope[t].stack \in Seq(Units) /\ Len(scope[t].stack) \in Nat /\ OpenOn(t) \subseteq Units
      /\ web \in {"flask", "flask_debug"} /\ Runs(u, t) /\ pc[u] \in {"view", "run", "answered"}
      /\ header' = [header EXCEPT ![u] = LastEventId(u)]
      /\ UNCHANGED <<web, named, lastId, g, django>>
  BY TypesAt, NamesAssumption DEF IInv, Ids, AfterRequest, IsFlask
<1>1. /\ c \in Scopes /\ c.request = None /\ c.tags = {} /\ c.crumbs = {}
      /\ c.stack = scope[t].stack /\ (t # MainThread => c.active = "off")
  BY <1>0, ClearProperties
<1> HIDE DEF c
<1>2. /\ s \in Scopes /\ s.request = None /\ s.tags = {} /\ s.crumbs = {}
      /\ (t # MainThread => s.active # "on")
      /\ u \in named /\ Len(scope[t].stack) <= 1 => s.stack = <<>>
      /\ u \notin named => s.stack = scope[t].stack
  <2>1. /\ Pop(c, u) \in Scopes /\ Pop(c, u).request = None /\ Pop(c, u).tags = {}
        /\ Pop(c, u).crumbs = {} /\ Pop(c, u).active = c.active
        /\ Len(scope[t].stack) <= 1 => Pop(c, u).stack = <<>>
    BY <1>1, PopProperties
  <2> QED
    BY <1>1, <2>1
<1>3. Len(open[t]) = 1 /\ OpenOn(t) = {u} /\ open[t][1] = u
  BY <1>0, RequestAlone, Running
<1>4. left[t] = {} => s.stack = <<>> /\ Len(s.stack) = 0
  <2>1. left[t] = {} => /\ Len(scope[t].stack) <= 1
                        /\ u \notin named => Len(scope[t].stack) < 1
    BY <1>0, <1>3 DEF ThreadAt, StackAt, Pushless
  <2>2. s.stack = <<>> => Len(s.stack) = 0
    OBVIOUS
  <2>3. Len(scope[t].stack) < 1 => scope[t].stack = <<>>
    BY <1>0, EmptySeq
  <2> QED
    BY <1>2, <2>1, <2>2, <2>3
<1>5. RestOK'
  <2>1. LastEventId(u) \in Ids
    BY <1>0 DEF TypeOK, LastEventId, Ids
  <2> QED
    BY <1>0, <2>1 DEF TypeOK, RestOK, django
<1>6. ASSUME NEW l \in {"stream", "done"}, Goto(u, l) PROVE HeaderInv'
  <2>1. pc'[u] = l /\ \A x \in Units \ {u} : pc'[x] = pc[x]
    BY <1>0, <1>6 DEF TypeOK, Goto
  <2>2. \A r \in Requests \ {u} : header'[r] = header[r]
    BY <1>0 DEF TypeOK
  <2>3. g[u] # "unset" /\ header'[u] # None => header'[u] = u
    BY <1>0 DEF TypeOK, HeaderInv, LastEventId, IsFlask
  <2> QED
    BY <1>0, <2>1, <2>2, <2>3 DEF HeaderInv, IsFlask, Units
<1>7. CASE web = "flask_debug"
  <2>1. Leave(u, t, s, TRUE)
    BY <1>7 DEF AfterRequest, c
  <2>2. HeaderInv'
    BY <1>6, <2>1 DEF Leave
  <2> HIDE DEF s
  <2> QED
    BY <1>0, <1>2, <1>4, <1>5, <1>7, <2>1, <2>2, LeaveStep
<1>8. CASE web = "flask"
  <2>1. /\ SetScope(t, s) /\ Goto(u, "stream") /\ wiped' = wiped \cup {u}
        /\ UNCHANGED <<open, left>>
    BY <1>8 DEF AfterRequest, c
  <2> HIDE DEF s
  <2>2. /\ OpenInv' /\ PcInv' /\ NestAt(t)' /\ OpenOn(t)' = OpenOn(t)
        /\ pc' \in [Units -> {"new", "run", "view", "answered", "stream", "ended", "done"}]
    BY <1>0, <1>8, <2>1, Staying DEF ThreadAt
  <2>3. scope'[t] = s /\ pc'[u] = "stream" /\ web' = web /\ named' = named
    BY <1>0, <2>1 DEF SetScope, TypeOK, Goto
  <2>4. PlacesOK'
    BY <1>0, <1>2, <2>1, <2>2 DEF PlacesOK, SetScope
  <2>5. Only(u, t)
    BY <1>0, <2>1, Running DEF Only, SetScope, PlacesOK, Goto
  <2>6. DataAt(t)'
    <3>1. open'[t] # <<>>
      BY <1>3, <2>1
    <3> QED
      BY <1>2, <2>2, <2>3, <3>1 DEF DataAt
  <2>7. RequestAt(t)'
    BY <1>2, <1>3, <2>1, <2>2, <2>3 DEF RequestAt
  <2>8. StackAt(t)'
    <3>1. open'[t] = open[t] /\ left'[t] = left[t] /\ web' = "flask"
      BY <1>8, <2>1, <2>3
    <3>2. \A i \in 1..Len(open'[t]) : i = 1
      <4>1. Len(open'[t]) = 1
        BY <1>3, <3>1
      <4>2. 1..Len(open'[t]) = 1..1
        BY <4>1
      <4> QED
        BY <4>2
    <3>3. ~ Pushed(open[t][1])'
      BY <1>0, <1>3, <2>3, <3>1 DEF Pushed
    <3>4. \A i \in 1..Len(open'[t]) : ~ Pushed(open[t][i])'
      BY <3>2, <3>3
    <3>5. left'[t] = {} => /\ s.stack = <<>>
                           /\ Len(s.stack) <= Len(open'[t]) /\ Len(s.stack) < Len(open'[t])
      BY <1>3, <1>4, <3>1
    <3> QED
      BY <2>3, <3>1, <3>4, <3>5 DEF StackAt
  <2>9. HeaderInv'
    BY <1>6, <2>1
  <2> QED
    BY <1>5, <2>2, <2>4, <2>5, <2>6, <2>7, <2>8, <2>9, Together DEF ThreadAt
<1> QED
  BY <1>0, <1>7, <1>8


(* No unit has begun. *)
LEMMA InitIInv == Init => IInv
<1> SUFFICES ASSUME Init PROVE IInv
  OBVIOUS
<1>1. /\ \A t \in Threads : /\ scope[t] \in Scopes /\ scope[t].request = None /\ scope[t].tags = {}
                            /\ scope[t].crumbs = {} /\ scope[t].stack = <<>>
                            /\ t # MainThread => scope[t].active = "new"
      /\ scope \in [Threads -> Scopes]
  <2>1. <<>> \in Seq(Units)
    BY EmptySeq
  <2>2. Untouched \in Scopes
    BY <2>1 DEF Untouched, Scopes
  <2>3. Activate(Untouched) \in Scopes /\ Activate(Untouched).stack = <<>>
    BY <2>1 DEF Untouched, Scopes, Activate
  <2> QED
    BY <2>2, <2>3 DEF Init, Untouched, Activate
<1>2. TypeOK
  <2>1. open \in [Threads -> Seq(Units)]
    BY EmptySeq DEF Init
  <2> QED
    BY <1>1, <2>1 DEF Init, TypeOK, Ids
<1>3. \A t \in Threads : open[t] = <<>> /\ Len(open[t]) = 0 /\ OpenOn(t) = {} /\ left[t] = {}
  BY DEF Init, OpenOn, ToSet
<1>4. OpenInv /\ PcInv /\ HeaderInv
  BY <1>3 DEF Init, OpenInv, PcInv, HeaderInv
<1>5. ThreadInv
  <2> SUFFICES ASSUME NEW t \in Threads
               PROVE  NestAt(t) /\ DataAt(t) /\ RequestAt(t) /\ StackAt(t)
    BY DEF ThreadInv
  <2>1. NestAt(t) /\ DataAt(t) /\ RequestAt(t)
    BY <1>1, <1>3 DEF NestAt, DataAt, RequestAt
  <2>2. Len(scope[t].stack) = 0
    BY <1>1
  <2>3. StackAt(t)
    BY <1>1, <1>3, <2>2 DEF StackAt
  <2> QED
    BY <2>1, <2>3
<1> QED
  BY <1>2, <1>4, <1>5 DEF IInv

(* Every step keeps the invariant. *)
LEMMA NextIInv == IInv /\ [Next]_vars => IInv'
<1> SUFFICES ASSUME IInv, [Next]_vars PROVE IInv'
  OBVIOUS
<1>1. ASSUME NEW u \in Units, NEW t \in Threads,
             \/ Work(u, t) \/ Message(u, t) \/ Wsgi(u, t) \/ Flask(u, t) \/ Sanic(u, t)
             \/ Django(u, t) \/ Explicit(u, t) \/ Celery(u, t)
      PROVE  IInv'
  <2>1. CASE Work(u, t) \/ Message(u, t)
    BY <2>1, WorkStep
  <2>2. CASE Wsgi(u, t)
    BY <2>2, BeginStep, GoOnStep, EndStep, IterEndsStep, CloseAgainStep DEF Wsgi
  <2>3. CASE Flask(u, t)
    BY <2>3, BeginFlaskStep, FlaskExceptionStep, AfterRequestStep DEF Flask
  <2>4. CASE Sanic(u, t)
    BY <2>4, BeginStep, GoOnStep, EndStep DEF Sanic
  <2>5. CASE Django(u, t)
    BY <2>5, BeginStep, ProcessViewStep, GoOnStep, EndStep DEF Django
  <2>6. CASE Explicit(u, t) \/ Celery(u, t)
    BY <2>6, BeginStep, GoOnStep, EndStep DEF Explicit, Celery
  <2> QED
    BY <1>1, <2>1, <2>2, <2>3, <2>4, <2>5, <2>6
<1>2. CASE \E t \in Threads : WorkOutside(t)
  BY <1>2, OutsideStep
<1>3. CASE UNCHANGED vars
  <2>1. UNCHANGED <<web, named, scope, open, pc, lastId, g, header, txid, connected, current, wiped, left>>
    BY <1>3 DEF vars
  <2>2. TypeOK'
    BY <2>1 DEF IInv, TypeOK
  <2>3. OpenInv' /\ PcInv' /\ HeaderInv'
    BY <2>1 DEF IInv, OpenInv, PcInv, HeaderInv, OpenOn, IsFlask
  <2>4. ASSUME NEW t \in Threads PROVE (NestAt(t) /\ DataAt(t) /\ RequestAt(t) /\ StackAt(t))'
    <3>1. OpenOn(t)' = OpenOn(t) /\ (NestAt(t) /\ DataAt(t) /\ RequestAt(t) /\ StackAt(t))
      BY <2>1 DEF OpenOn, IInv, ThreadInv
    <3>2. NestAt(t)' /\ DataAt(t)' /\ RequestAt(t)'
      BY <2>1, <3>1 DEF NestAt, DataAt, RequestAt, IsFlask
    <3>3. StackAt(t)'
      BY <2>1, <3>1 DEF StackAt, Pushed, Pushless
    <3> QED
      BY <3>2, <3>3
  <2> QED
    BY <2>2, <2>3, <2>4 DEF IInv, ThreadInv
<1> QED
  BY <1>1, <1>2, <1>3 DEF Next

(* The invariant holds of every behaviour. *)
LEMMA Invariance == Spec => []IInv
<1>1. Init => IInv
  BY InitIInv
<1>2. IInv /\ [Next]_vars => IInv'
  BY NextIInv
<1> QED
  BY <1>1, <1>2, PTL DEF Spec

-----------------------------------------------------------------------------
(* The invariants *)

(* The state stays within its types, whatever the integration does. *)
THEOREM TypeCorrect == Spec => []TypeOK
<1>1. IInv => TypeOK
  BY DEF IInv
<1> QED
  BY <1>1, Invariance, PTL

(* A thread that is between units, and that none has left without clearing, *)
(* has no request, tags or transaction of any, and no breadcrumbs but, on   *)
(* the client's own thread, those from outside: so does what clear(), pop() *)
(* and ClosingIterator leave, however units nest and threads interleave.    *)
THEOREM ThreadsEndClean == Spec => []CleanUp
<1>1. IInv => CleanUp
  <2> SUFFICES ASSUME IInv, NEW t \in Threads, open[t] = <<>>, left[t] = {}
               PROVE  /\ scope[t].request = None /\ scope[t].tags = {} /\ scope[t].stack = <<>>
                      /\ IF t = MainThread
                           THEN scope[t].crumbs \subseteq {Outside}
                           ELSE scope[t].crumbs = {} /\ scope[t].active # "on"
    BY DEF CleanUp
  <2>1. /\ ThreadAt(t) /\ OpenOn(t) = {} /\ Len(open[t]) = 0
        /\ scope[t].stack \in Seq(Units) /\ Len(scope[t].stack) \in Nat
    BY TypesAt
  <2>2. scope[t].stack = <<>>
    <3>1. CASE web = "sanic"
      BY <2>1, <3>1 DEF ThreadAt, StackAt
    <3>2. CASE web # "sanic"
      <4>1. Len(scope[t].stack) = 0
        BY <2>1, <3>2 DEF ThreadAt, StackAt
      <4> QED
        BY <2>1, <4>1, EmptySeq
    <3> QED
      BY <3>1, <3>2
  <2>3. /\ scope[t].request = None /\ (t # MainThread => scope[t].active # "on")
        /\ scope[t].tags = {} /\ scope[t].crumbs \subseteq {Outside}
        /\ Outside \in scope[t].crumbs => t = MainThread
    BY <2>1 DEF ThreadAt, DataAt
  <2> QED
    BY <2>2, <2>3
<1> QED
  BY <1>1, Invariance, PTL

(* The X-Sentry-ID of a response to a request that Flask's before_request() *)
(* has seen is of an event of that request, or there is none, although      *)
(* every thread writes to the _last_event_id of the one extension.          *)
THEOREM HeadersAreOwn == Spec => []HeaderOwn
<1>1. IInv => HeaderOwn
  BY DEF IInv, HeaderInv, HeaderOwn
<1> QED
  BY <1>1, Invariance, PTL


-----------------------------------------------------------------------------
(* What a step reports *)

(* The event e is of u, which runs on t: it shows what the context of t     *)
(* holds, and an exception of a request has that request, unless it is left *)
(* to the context to say which that is.                                     *)
Reports(e, u, t) ==
    /\ Runs(u, t) /\ e.unit = u /\ e.thread = t
    /\ e.tags = scope[t].tags /\ e.crumbs = scope[t].crumbs
    /\ e.transaction = IF scope[t].stack = <<>> THEN None ELSE Last(scope[t].stack)
    /\ e.kind = "exception" /\ u \in Requests =>
         e.request = u \/ (e.request = scope[t].request /\ (web = "wsgi" \/ IsFlask))

(* What an event shows of the context it is made in. *)
LEMMA EventProperties ==
  ASSUME NEW s, NEW t, NEW u, NEW kind, NEW request
  PROVE  /\ EventOf(s, t, u, kind, request).unit = u
         /\ EventOf(s, t, u, kind, request).thread = t
         /\ EventOf(s, t, u, kind, request).kind = kind
         /\ EventOf(s, t, u, kind, request).request = IF request # None THEN request ELSE s.request
         /\ EventOf(s, t, u, kind, request).tags = s.tags
         /\ EventOf(s, t, u, kind, request).crumbs = s.crumbs
         /\ EventOf(s, t, u, kind, request).transaction =
              IF s.stack = <<>> THEN None ELSE Last(s.stack)
BY DEF EventOf

(* Every step that sends an event sends one of the unit that it is of. *)
LEMMA Reporting ==
  ASSUME IInv, NEW u \in Units, NEW t \in Threads, event' # None,
         \/ Work(u, t) \/ Message(u, t) \/ Wsgi(u, t) \/ Flask(u, t) \/ Sanic(u, t)
         \/ Django(u, t) \/ Explicit(u, t) \/ Celery(u, t)
  PROVE  Reports(event', u, t)
<1>0. /\ scope[t] \in Scopes /\ PcInv /\ u # None
      /\ u \in Requests => u \notin Tasks
  BY TypesAt, NamesAssumption DEF IInv, Units
<1>1. \/ Message(u, t) \/ AppRaises(u, t) \/ IterRaises(u, t) \/ Close(u, t) \/ IterEnds(u, t)
      \/ FlaskException(u, t) \/ SanicException(u, t) \/ DjangoException(u, t)
      \/ ExplicitException(u, t) \/ TaskFailure(u, t)
  BY DEF Quiet, Work, Wsgi, Flask, Sanic, Django, Explicit, Celery, Enter, Call, AppReturns,
         CloseAgain, Abandon, BeginFlask, AfterRequest, BeginSanic, SanicResponse,
         ProcessRequest, ProcessView, NoView, RequestFinished, BeginExplicit, ExplicitEnds,
         TaskPrerun, TaskPostrun
<1>2. ASSUME NEW kind, NEW request, Runs(u, t), event' = EventOf(scope[t], t, u, kind, request),
             kind = "exception" /\ u \in Requests =>
               request = u \/ (request = None /\ (web = "wsgi" \/ IsFlask))
      PROVE  Reports(event', u, t)
  BY <1>0, <1>2, EventProperties DEF Reports
<1>3. CASE Message(u, t)
  BY <1>2, <1>3 DEF Message, Report, At
<1>4. CASE AppRaises(u, t) \/ IterRaises(u, t) \/ Close(u, t) \/ IterEnds(u, t)
  <2>1. Runs(u, t) /\ pc[u] \in {"run", "stream"} /\ MayReport(t, u)
        /\ (web = "wsgi" \/ pc[u] = "stream")
    BY <1>4 DEF AppRaises, IterRaises, Close, IterEnds, At
  <2>2. web = "wsgi" \/ IsFlask
    BY <1>0, <2>1 DEF PcInv, IsFlask
  <2>3. event' = EventOf(scope[t], t, u, "exception", None)
    BY <2>1 DEF MayReport, Quiet, Report
  <2> QED
    BY <1>2, <2>1, <2>2, <2>3
<1>5. CASE FlaskException(u, t)
  BY <1>2, <1>5 DEF FlaskException, Report, At
<1>6. CASE SanicException(u, t)
  <2> DEFINE s == MergeRequest(scope[t], u)
  <2>1. /\ u \in Requests /\ Runs(u, t) /\ event' = EventOf(s, t, u, "exception", None)
    BY <1>6 DEF SanicException, At
  <2>2. /\ s.request = u /\ s.tags = scope[t].tags
        /\ s.crumbs = scope[t].crumbs /\ s.stack = scope[t].stack
    BY <1>0, <2>1, ScopeProperties
  <2> HIDE DEF s
  <2> QED
    BY <2>1, <2>2, EventProperties DEF Reports
<1>7. CASE DjangoException(u, t) \/ ExplicitException(u, t)
  <2>1. Runs(u, t) /\ event' = EventOf(scope[t], t, u, "exception", u)
    BY <1>7 DEF DjangoException, ExplicitException, Report, At
  <2> QED
    BY <1>2, <2>1
<1>8. CASE TaskFailure(u, t)
  <2>1. Runs(u, t) /\ u \notin Requests /\ event' = EventOf(scope[t], t, u, "exception", current[t])
    BY <1>0, <1>8 DEF TaskFailure, Report, Quiet, At
  <2> QED
    BY <1>2, <2>1
<1> QED
  BY <1>1, <1>3, <1>4, <1>5, <1>6, <1>7, <1>8

(* An event that a step sends is made by a unit in the context of its      *)
(* thread.                                                                 *)
LEMMA StepReports ==
  ASSUME IInv, Next, event' # None
  PROVE  \E u \in Units, t \in Threads : Reports(event', u, t)
<1>1. ~ \E t \in Threads : WorkOutside(t)
  BY DEF WorkOutside, Quiet
<1> QED
  BY <1>1, Reporting DEF Next

-----------------------------------------------------------------------------
(* The action properties *)

(* An exception in a request is reported with that very request, whatever   *)
(* other threads, other coroutines of Sanic and tasks called eagerly do;    *)
(* it may lack one only after the context was cleared under it.             *)
THEOREM ExceptionsNameTheirRequest == Spec => OwnRequest
<1> DEFINE A == event' # None /\ event'.kind = "exception" /\ event'.unit \in Requests =>
                  \/ event'.request = event'.unit
                  \/ event'.request = None /\ event'.unit \in wiped
                  \/ web = "flask_debug" /\ pc[event'.unit] = "view"
<1>1. IInv /\ [Next]_vars => [A]_vars
  <2> SUFFICES ASSUME IInv, Next, event' # None, event'.kind = "exception", event'.unit \in Requests
               PROVE  \/ event'.request = event'.unit
                      \/ event'.request = None /\ event'.unit \in wiped
                      \/ web = "flask_debug" /\ pc[event'.unit] = "view"
    OBVIOUS
  <2>1. PICK u \in Units, t \in Threads : Reports(event', u, t)
    BY StepReports
  <2>2. u \in OpenOn(t) \cap Requests /\ event'.unit = u
    BY <2>1 DEF Reports, Runs
  <2>3. RequestAt(t)
    BY TypesAt DEF ThreadAt
  <2> QED
    BY <2>1, <2>2, <2>3 DEF Reports, RequestAt
<1> QED
  BY <1>1, Invariance, PTL DEF Spec, OwnRequest

(* An event shows the tags and breadcrumbs of the units its thread is in,   *)
(* and of those that left theirs behind there: never those of a unit on     *)
(* another thread, or of one whose end cleared the context.                 *)
THEOREM EventsAreIsolated == Spec => Isolation
<1> DEFINE A == event' # None =>
                  LET t == event'.thread
                      seen == event'.tags \cup event'.crumbs
                  IN  /\ seen \ {Outside} \subseteq OpenOn(t) \cup left[t]
                      /\ Outside \in seen => t = MainThread \/ left[t] # {}
<1>1. IInv /\ [Next]_vars => [A]_vars
  <2> SUFFICES ASSUME IInv, Next, event' # None PROVE A
    OBVIOUS
  <2>1. PICK u \in Units, t \in Threads : Reports(event', u, t)
    BY StepReports
  <2>2. event'.thread = t /\ event'.tags = scope[t].tags /\ event'.crumbs = scope[t].crumbs
    BY <2>1 DEF Reports
  <2>3. DataAt(t) /\ scope[t] \in Scopes /\ OpenOn(t) \subseteq Units
    BY TypesAt DEF ThreadAt
  <2>4. Outside \notin scope[t].tags
    BY <2>3, NamesAssumption DEF Scopes, Units
  <2> QED
    BY <2>2, <2>3, <2>4 DEF DataAt
<1> QED
  BY <1>1, Invariance, PTL DEF Spec, Isolation

-----------------------------------------------------------------------------
(* Where nothing names the unit at work, the stack of its thread is asked  *)
(* for more than StackAt says: whose entries it holds.                     *)

CanPush(u) == u \in Tasks \/ (u \in named /\ web \in {"flask", "flask_debug", "django"})

(* Every entry is of a unit that is open on the thread, or was left behind  *)
(* there, and of another one than the others.                               *)
OwnersAt(t) ==
    LET s == scope[t].stack
    IN  /\ \A i \in 1..Len(s) : /\ s[i] \in OpenOn(t) \cup left[t] /\ CanPush(s[i])
                                /\ pc[s[i]] \notin {"new", "view"}
        /\ \A i, j \in 1..Len(s) : s[i] = s[j] => i = j
        /\ \A u \in left[t] : pc[u] = "done"

OwnersInv == web # "sanic" => \A t \in Threads : OwnersAt(t)

(* p is what is left of the stack s when entries are taken from its top. *)
Trims(p, s) == Len(p) <= Len(s) /\ \A i \in 1..Len(p) : p[i] = s[i]

(* What pop(u) leaves, u is not in. *)
LEMMA PopTrims ==
  ASSUME NEW s \in Scopes, NEW u
  PROVE  /\ Trims(Pop(s, u).stack, s.stack)
         /\ (\A i, j \in 1..Len(s.stack) : s.stack[i] = s.stack[j] => i = j) =>
              \A i \in 1..Len(Pop(s, u).stack) : Pop(s, u).stack[i] # u
<1> DEFINE at == {i \in 1..Len(s.stack) : s.stack[i] = u}
           rest == IF at = {} THEN <<>> ELSE SubSeq(s.stack, 1, Max(at) - 1)
<1>1. s.stack \in Seq(Units) /\ Len(s.stack) \in Nat
  BY DEF Scopes
<1>2. Pop(s, u).stack = rest
  BY DEF Pop, Scopes
<1>3. CASE at = {}
  <2>1. rest = <<>> /\ Len(rest) = 0
    BY <1>3
  <2> HIDE DEF at, rest
  <2> QED
    BY <1>1, <1>2, <2>1 DEF Trims
<1>4. CASE at # {}
  <2>1. Max(at) \in at /\ Max(at) \in 1..Len(s.stack)
    BY <1>1, <1>4, MaxProperties
  <2>2. s.stack[Max(at)] = u
    BY <2>1
  <2> HIDE DEF at
  <2>3. /\ Len(rest) = Max(at) - 1
        /\ \A i \in 1..(Max(at) - 1) : rest[i] = s.stack[i]
    BY <1>1, <1>4, <2>1, SubSeqProperties
  <2> HIDE DEF rest
  <2>4. Trims(rest, s.stack)
    BY <1>1, <2>1, <2>3 DEF Trims
  <2>5. ASSUME \A i, j \in 1..Len(s.stack) : s.stack[i] = s.stack[j] => i = j,
               NEW i \in 1..Len(rest)
        PROVE  rest[i] # u
    <3>1. i \in 1..Len(s.stack) /\ i # Max(at) /\ rest[i] = s.stack[i]
      BY <1>1, <2>1, <2>3
    <3> QED
      BY <2>1, <2>2, <2>5, <3>1
  <2> QED
    BY <1>2, <2>4, <2>5
<1> QED
  BY <1>3, <1>4

(* What a step of u on the thread t may do to the stacks. *)
LEMMA OwnersKept ==
  ASSUME IInv, OwnersInv, web # "sanic", UNCHANGED <<web, named>>,
         NEW t \in Threads, NEW s \in Scopes, SetScope(t, s),
         \A v \in Threads \ {t} : OpenOn(v)' = OpenOn(v) /\ left'[v] = left[v],
         \A x \in Units : /\ pc[x] \notin {"new", "view"} => pc'[x] \notin {"new", "view"}
                          /\ pc[x] = "done" => pc'[x] = "done",
         \A x \in left'[t] : x \in left[t] \/ pc'[x] = "done",
         \/ /\ Trims(s.stack, scope[t].stack)
            /\ \A i \in 1..Len(s.stack) : s.stack[i] \in OpenOn(t)' \cup left'[t]
         \/ \E u \in OpenOn(t)' :
              /\ s.stack = Append(scope[t].stack, u) /\ CanPush(u)
              /\ pc[u] \in {"new", "view"} /\ pc'[u] \notin {"new", "view"}
              /\ OpenOn(t) \cup left[t] \subseteq OpenOn(t)' \cup left'[t]
  PROVE  OwnersInv'
<1>0. /\ \A v \in Threads : /\ OwnersAt(v) /\ left[v] \subseteq Units
                            /\ scope[v].stack \in Seq(Units) /\ Len(scope[v].stack) \in Nat
      /\ scope'[t] = s /\ \A v \in Threads \ {t} : scope'[v] = scope[v]
  BY TypesAt DEF OwnersInv, IInv, TypeOK, SetScope
<1>1. \A x \in Units : CanPush(x)' <=> CanPush(x)
  BY DEF CanPush
<1>2. ASSUME NEW v \in Threads \ {t} PROVE OwnersAt(v)'
  <2>1. \A i \in 1..Len(scope[v].stack) : scope[v].stack[i] \in Units
    BY <1>0
  <2> QED
    BY <1>0, <1>1, <2>1 DEF OwnersAt
<1>3. \A x \in left'[t] : pc'[x] = "done"
  BY <1>0 DEF OwnersAt
<1>4. CASE /\ Trims(s.stack, scope[t].stack)
           /\ \A i \in 1..Len(s.stack) : s.stack[i] \in OpenOn(t)' \cup left'[t]
  <2>1. \A i \in 1..Len(s.stack) :
          i \in 1..Len(scope[t].stack) /\ s.stack[i] = scope[t].stack[i] /\ s.stack[i] \in Units
    BY <1>0, <1>4 DEF Trims, Scopes
  <2>2. \A i \in 1..Len(s.stack) : CanPush(s.stack[i])' /\ pc'[s.stack[i]] \notin {"new", "view"}
    BY <1>0, <1>1, <2>1 DEF OwnersAt
  <2>3. \A i, j \in 1..Len(s.stack) : s.stack[i] = s.stack[j] => i = j
    BY <1>0, <2>1 DEF OwnersAt
  <2>4. OwnersAt(t)'
    BY <1>0, <1>3, <1>4, <2>2, <2>3 DEF OwnersAt
  <2> QED
    BY <1>2, <2>4 DEF OwnersInv
<1>5. ASSUME NEW u \in OpenOn(t)',
             s.stack = Append(scope[t].stack, u), CanPush(u),
             pc[u] \in {"new", "view"}, pc'[u] \notin {"new", "view"},
             OpenOn(t) \cup left[t] \subseteq OpenOn(t)' \cup left'[t]
      PROVE  OwnersInv'
  <2> DEFINE n == Len(scope[t].stack)
  <2>0. u \in Units
    BY <1>5 DEF CanPush, Units, IInv, TypeOK
  <2>1. /\ n \in Nat /\ Len(s.stack) = n + 1 /\ s.stack[n + 1] = u
        /\ \A i \in 1..n : s.stack[i] = scope[t].stack[i]
    BY <1>0, <1>5, <2>0, AppendProperties
  <2>2. \A i \in 1..n : /\ s.stack[i] # u /\ s.stack[i] \in OpenOn(t)' \cup left'[t]
                        /\ s.stack[i] \in Units /\ CanPush(s.stack[i])'
                        /\ pc'[s.stack[i]] \notin {"new", "view"}
    <3>1. \A i \in 1..n : /\ scope[t].stack[i] \in Units /\ CanPush(scope[t].stack[i])
                          /\ scope[t].stack[i] \in OpenOn(t) \cup left[t]
                          /\ pc[scope[t].stack[i]] \notin {"new", "view"}
      BY <1>0 DEF OwnersAt
    <3> QED
      BY <1>1, <1>5, <2>1, <3>1
  <2>3. CanPush(u)'
    BY <1>1, <1>5, <2>0
  <2>4. \A i, j \in 1..n : s.stack[i] = s.stack[j] => i = j
    BY <1>0, <2>1 DEF OwnersAt
  <2> HIDE DEF n
  <2>5. \A i \in 1..Len(s.stack) : i \in 1..n \/ i = n + 1
    BY <2>1
  <2>6. \A i, j \in 1..Len(s.stack) : s.stack[i] = s.stack[j] => i = j
    BY <2>1, <2>2, <2>4, <2>5
  <2>7. OwnersAt(t)'
    BY <1>0, <1>3, <1>5, <2>1, <2>2, <2>3, <2>5, <2>6 DEF OwnersAt
  <2> QED
    BY <1>2, <2>7 DEF OwnersInv
<1> QED
  BY <1>4, <1>5

(* The unit goes on, and takes at most from the top of the stack. *)
LEMMA OwnersStay ==
  ASSUME IInv, OwnersInv, web # "sanic", NEW t \in Threads, NEW s \in Scopes, SetScope(t, s),
         UNCHANGED <<web, named, open, left>>, Trims(s.stack, scope[t].stack),
         \/ pc' = pc
         \/ \E u \in Units, l \in {"run", "answered", "stream", "done"} :
              Goto(u, l) /\ pc[u] # "done"
  PROVE  OwnersInv'
<1>1. \A v \in Threads : OpenOn(v)' = OpenOn(v) /\ left'[v] = left[v] /\ left[v] \subseteq Units
  BY DEF OpenOn, IInv, TypeOK
<1>2. \A x \in Units : /\ pc[x] \notin {"new", "view"} => pc'[x] \notin {"new", "view"}
                       /\ pc[x] = "done" => pc'[x] = "done"
  BY DEF Goto, IInv, TypeOK
<1>3. \A i \in 1..Len(s.stack) : s.stack[i] \in OpenOn(t)' \cup left'[t]
  <2>1. OwnersAt(t) /\ Len(scope[t].stack) \in Nat
    BY TypesAt DEF OwnersInv
  <2>2. Len(s.stack) \in Nat
    BY DEF Scopes
  <2> QED
    BY <1>1, <2>1, <2>2 DEF OwnersAt, Trims
<1> QED
  BY <1>1, <1>2, <1>3, OwnersKept

(* A unit enters, and may push itself. *)
LEMMA OwnersEnter ==
  ASSUME IInv, OwnersInv, web # "sanic", NEW u \in Units, NEW t \in Threads, NEW s \in Scopes,
         SetScope(t, s), Enter(u, t), NEW l \in {"run", "view"}, Goto(u, l),
         l = "view" => web \in {"flask", "flask_debug", "django"}, u \in Tasks => l = "run",
         UNCHANGED <<web, named, left>>,
         \/ s.stack = scope[t].stack
         \/ s.stack = Append(scope[t].stack, u) /\ CanPush(u) /\ l = "run"
  PROVE  OwnersInv'
<1>1. OpenOn(t)' = OpenOn(t) \cup {u}
  BY TypesAt, Entering DEF ThreadAt, IInv
<1>2. /\ \A v \in Threads \ {t} : OpenOn(v)' = OpenOn(v) /\ left'[v] = left[v]
      /\ left'[t] = left[t] /\ pc[u] = "new" /\ pc'[u] = l
      /\ \A x \in Units \ {u} : pc'[x] = pc[x]
  BY DEF Enter, Goto, OpenOn, IInv, TypeOK
<1>3. \A x \in Units : /\ pc[x] \notin {"new", "view"} => pc'[x] \notin {"new", "view"}
                       /\ pc[x] = "done" => pc'[x] = "done"
  BY <1>2
<1>4. CASE s.stack = scope[t].stack
  <2>1. OwnersAt(t) /\ Len(scope[t].stack) \in Nat
    BY TypesAt DEF OwnersInv
  <2>2. Trims(s.stack, scope[t].stack)
    BY <1>4, <2>1 DEF Trims
  <2>3. \A i \in 1..Len(s.stack) : s.stack[i] \in OpenOn(t)' \cup left'[t]
    BY <1>1, <1>2, <1>4, <2>1 DEF OwnersAt
  <2> QED
    BY <1>2, <1>3, <2>2, <2>3, OwnersKept
<1>5. CASE s.stack = Append(scope[t].stack, u) /\ CanPush(u) /\ l = "run"
  <2>1. /\ OpenOn(t) \cup left[t] \subseteq OpenOn(t)' \cup left'[t] /\ u \in OpenOn(t)'
        /\ pc[u] \in {"new", "view"} /\ pc'[u] \notin {"new", "view"}
    BY <1>1, <1>2, <1>5
  <2> QED
    BY <1>2, <1>3, <1>5, <2>1, OwnersKept
<1> QED
  BY <1>4, <1>5

(* A unit leaves the thread: it is on record, or not on the stack. *)
LEMMA OwnersLeave ==
  ASSUME IInv, OwnersInv, web # "sanic", NEW u \in Units, NEW t \in Threads, NEW s \in Scopes,
         Runs(u, t), NEW l \in {"ended", "done"}, Goto(u, l), SetScope(t, s),
         u \in Tasks => l = "done", UNCHANGED <<web, named>>,
         open' = [open EXCEPT ![t] = RemoveFirst(@, u)], Trims(s.stack, scope[t].stack),
         \/ left' = [left EXCEPT ![t] = {}] /\ s.stack = <<>>
         \/ left' = [left EXCEPT ![t] = @ \cup {u}] /\ l = "done"
         \/ left' = left /\ \A i \in 1..Len(s.stack) : s.stack[i] # u
  PROVE  OwnersInv'
<1>1. OpenOn(t)' = OpenOn(t) \ {u}
  BY TypesAt, Leaving DEF ThreadAt, IInv
<1>2. /\ \A v \in Threads \ {t} : OpenOn(v)' = OpenOn(v) /\ left'[v] = left[v]
      /\ pc'[u] = l /\ \A x \in Units \ {u} : pc'[x] = pc[x]
  BY DEF Goto, OpenOn, IInv, TypeOK
<1>3. \A x \in Units : /\ pc[x] \notin {"new", "view"} => pc'[x] \notin {"new", "view"}
                       /\ pc[x] = "done" => pc'[x] = "done"
  <2>1. pc[u] # "done"
    BY Running DEF IInv
  <2> QED
    BY <1>2, <2>1
<1>4. \A x \in left'[t] : x \in left[t] \/ pc'[x] = "done"
  BY <1>2 DEF IInv, TypeOK
<1>5. \A i \in 1..Len(s.stack) : s.stack[i] \in OpenOn(t)' \cup left'[t]
  <2>1. OwnersAt(t) /\ Len(scope[t].stack) \in Nat /\ Len(s.stack) \in Nat
    BY TypesAt DEF OwnersInv, Scopes
  <2>2. \A i \in 1..Len(s.stack) : s.stack[i] \in OpenOn(t) \cup left[t]
    BY <2>1 DEF OwnersAt, Trims
  <2>3. CASE s.stack = <<>>
    BY <2>3
  <2>4. CASE left' = [left EXCEPT ![t] = @ \cup {u}]
    BY <1>1, <2>2, <2>4 DEF IInv, TypeOK
  <2>5. CASE left' = left /\ \A i \in 1..Len(s.stack) : s.stack[i] # u
    BY <1>1, <2>2, <2>5
  <2> QED
    BY <2>3, <2>4, <2>5
<1> QED
  BY <1>2, <1>3, <1>4, <1>5, OwnersKept

(* Every step keeps the entries of the stacks to their owners. *)
LEMMA OwnersStep ==
  ASSUME IInv, OwnersInv, web # "sanic", NEW u \in Units, NEW t \in Threads,
         \/ Work(u, t) \/ Message(u, t) \/ Wsgi(u, t) \/ Flask(u, t)
         \/ Django(u, t) \/ Explicit(u, t) \/ Celery(u, t)
  PROVE  OwnersInv'
<1>0. /\ scope[t] \in Scopes /\ Len(scope[t].stack) \in Nat /\ OwnersAt(t)
      /\ \A s \in Scopes : s.stack = scope[t].stack => Trims(s.stack, scope[t].stack)
      /\ \A s \in Scopes : s.stack = <<>> => Trims(s.stack, scope[t].stack)
  <2>1. scope[t] \in Scopes /\ Len(scope[t].stack) \in Nat /\ OwnersAt(t)
    BY TypesAt DEF OwnersInv
  <2>2. \A s \in Scopes : s.stack = <<>> => Len(s.stack) = 0
    OBVIOUS
  <2> QED
    BY <2>1, <2>2 DEF Trims
<1>1. /\ \A s \in {Activate(scope[t]), Touch(scope[t]), MergeTag(scope[t], u), Clear(scope[t], t),
                   RecordCrumb(scope[t], u)} :
           s \in Scopes /\ s.stack = scope[t].stack
      /\ u \in Requests => /\ MergeRequest(scope[t], u) \in Scopes
                           /\ MergeRequest(scope[t], u).stack = scope[t].stack
      /\ ClearStack(Clear(scope[t], t)) \in Scopes /\ ClearStack(Clear(scope[t], t)).stack = <<>>
  <2>1. u \in Units \cup {Outside}
    OBVIOUS
  <2>2. RecordCrumb(scope[t], u) \in Scopes /\ RecordCrumb(scope[t], u).stack = scope[t].stack
    BY <1>0, <2>1, ScopeProperties
  <2>3. Clear(scope[t], t) \in Scopes /\ Clear(scope[t], t).stack = scope[t].stack
    BY <1>0, ClearProperties
  <2>4. ClearStack(Clear(scope[t], t)) \in Scopes /\ ClearStack(Clear(scope[t], t)).stack = <<>>
    BY <2>3, ScopeProperties
  <2> QED
    BY <1>0, <2>2, <2>3, <2>4, ScopeProperties
(* the unit leaves *)
<1>2. ASSUME NEW s \in Scopes, NEW clear \in BOOLEAN, Runs(u, t), Leave(u, t, s, clear),
             UNCHANGED <<web, named>>, Trims(s.stack, scope[t].stack),
             clear => \A i \in 1..Len(s.stack) : s.stack[i] # u
      PROVE  OwnersInv'
  <2>1. /\ Goto(u, "done") /\ SetScope(t, s) /\ open' = [open EXCEPT ![t] = RemoveFirst(@, u)]
        /\ \/ left' = [left EXCEPT ![t] = {}] /\ s.stack = <<>>
           \/ left' = [left EXCEPT ![t] = @ \cup {u}]
           \/ left' = left /\ clear
    BY <1>2 DEF Leave, IInv, TypeOK
  <2> QED
    BY <1>2, <2>1, OwnersLeave
(* the unit goes on and leaves the stack as it is *)
<1>3. ASSUME NEW s \in Scopes, SetScope(t, s), s.stack = scope[t].stack,
             UNCHANGED <<web, named, open, left>>,
             \/ pc' = pc
             \/ \E l \in {"run", "answered", "stream", "done"} : Goto(u, l) /\ pc[u] # "done"
      PROVE  OwnersInv'
  BY <1>0, <1>3, OwnersStay
<1>4. ASSUME scope' = scope, UNCHANGED <<web, named, open, left>>,
             \/ pc' = pc
             \/ \E l \in {"run", "answered", "stream", "done"} : Goto(u, l) /\ pc[u] # "done"
      PROVE  OwnersInv'
  <2>1. SetScope(t, scope[t])
    BY <1>4, KeptScope
  <2> QED
    BY <1>0, <1>3, <1>4, <2>1
<1>5. CASE Work(u, t)
  BY <1>1, <1>3, <1>5 DEF Work
<1>6. CASE Message(u, t)
  BY <1>1, <1>3, <1>6 DEF Message
<1>7. CASE \/ AppReturns(u, t) \/ IterRaises(u, t) \/ NoView(u, t) \/ DjangoException(u, t)
           \/ TaskFailure(u, t) \/ CloseAgain(u, t)
  BY <1>4, <1>7 DEF AppReturns, IterRaises, NoView, DjangoException, TaskFailure, CloseAgain, At
<1>8. CASE AppRaises(u, t) \/ Abandon(u, t) \/ ExplicitEnds(u, t)
  <2>1. Runs(u, t) /\ Leave(u, t, scope[t], FALSE) /\ UNCHANGED <<web, named>>
    BY <1>8 DEF AppRaises, Abandon, ExplicitEnds, At
  <2> QED
    BY <1>0, <1>2, <2>1
<1>9. CASE Close(u, t) \/ IterEnds(u, t)
  <2> DEFINE s == ClearStack(Clear(scope[t], t))
  <2>1. s \in Scopes /\ s.stack = <<>> /\ Trims(s.stack, scope[t].stack) /\ Len(s.stack) = 0
    BY <1>0, <1>1
  <2>2. /\ Runs(u, t) /\ UNCHANGED <<web, named>> /\ pc[u] = "stream"
        /\ \/ Leave(u, t, s, TRUE)
           \/ /\ SetScope(t, s) /\ open' = [open EXCEPT ![t] = RemoveFirst(@, u)]
              /\ left' = [left EXCEPT ![t] = {}] /\ Goto(u, "ended")
    BY <1>9 DEF Close, IterEnds, At
  <2>3. u \notin Tasks
    BY <2>2 DEF IInv, PcInv
  <2> HIDE DEF s
  <2>4. \A i \in 1..Len(s.stack) : s.stack[i] # u
    BY <2>1
  <2>5. CASE Leave(u, t, s, TRUE)
    BY <1>2, <2>1, <2>2, <2>4, <2>5
  <2>6. CASE /\ SetScope(t, s) /\ open' = [open EXCEPT ![t] = RemoveFirst(@, u)]
             /\ left' = [left EXCEPT ![t] = {}] /\ Goto(u, "ended")
    BY <2>1, <2>2, <2>3, <2>6, OwnersLeave
  <2> QED
    BY <2>2, <2>5, <2>6
<1>10. CASE Call(u, t)
  <2>1. /\ u \in Requests /\ Enter(u, t) /\ Goto(u, "run") /\ SetScope(t, MergeRequest(scope[t], u))
        /\ UNCHANGED <<web, named, left>>
    BY <1>10 DEF Call
  <2> QED
    BY <1>1, <2>1, OwnersEnter
<1>11. CASE BeginExplicit(u, t)
  <2>1. Enter(u, t) /\ Goto(u, "run") /\ SetScope(t, scope[t]) /\ UNCHANGED <<web, named, left>>
    BY <1>11, KeptScope DEF BeginExplicit
  <2> QED
    BY <1>0, <2>1, OwnersEnter
<1>12. CASE ProcessRequest(u, t)
  <2>1. /\ Enter(u, t) /\ Goto(u, "view") /\ SetScope(t, Activate(scope[t])) /\ web = "django"
        /\ UNCHANGED <<web, named, left>> /\ u \notin Tasks
    BY <1>12, NamesAssumption DEF ProcessRequest
  <2> QED
    BY <1>1, <2>1, OwnersEnter
<1>13. CASE TaskPrerun(u, t)
  <2> DEFINE s == Push(Activate(scope[t]), u)
  <2>1. s \in Scopes /\ s.stack = Append(scope[t].stack, u)
    BY <1>1, PushProperties
  <2>2. /\ Enter(u, t) /\ Goto(u, "run") /\ SetScope(t, s) /\ CanPush(u)
        /\ UNCHANGED <<web, named, left>>
    BY <1>13 DEF TaskPrerun, CanPush
  <2> HIDE DEF s
  <2> QED
    BY <2>1, <2>2, OwnersEnter
<1>14. CASE BeginFlask(u, t)
  <2> DEFINE w == IF web = "flask" THEN MergeRequest(scope[t], u) ELSE scope[t]
             p == IF u \in named THEN Push(w, u) ELSE w
  <2>1. /\ u \in Requests /\ u \notin Tasks /\ web \in {"flask", "flask_debug"} /\ Enter(u, t)
        /\ UNCHANGED <<web, named, left>>
        /\ \/ Goto(u, "run") /\ SetScope(t, MergeRequest(p, u))
           \/ Goto(u, "view") /\ SetScope(t, w)
    BY <1>14, NamesAssumption DEF BeginFlask, IsFlask
  <2>2. w \in Scopes /\ w.stack = scope[t].stack
    BY <1>0, <1>1, <2>1
  <2> HIDE DEF w
  <2>3. p \in Scopes /\ p.stack = IF u \in named THEN Append(scope[t].stack, u) ELSE scope[t].stack
    BY <2>2, PushProperties
  <2> HIDE DEF p
  <2>4. /\ MergeRequest(p, u) \in Scopes
        /\ MergeRequest(p, u).stack =
             IF u \in named THEN Append(scope[t].stack, u) ELSE scope[t].stack
    BY <2>1, <2>3, ScopeProperties
  <2>5. u \in named => CanPush(u)
    BY <2>1 DEF CanPush
  <2>6. CASE Goto(u, "run") /\ SetScope(t, MergeRequest(p, u))
    BY <2>1, <2>4, <2>5, <2>6, OwnersEnter
  <2>7. CASE Goto(u, "view") /\ SetScope(t, w)
    BY <2>1, <2>2, <2>7, OwnersEnter
  <2> QED
    BY <2>1, <2>6, <2>7
<1>15. CASE FlaskException(u, t)
  <2>1. CASE web = "flask"
    BY <1>4, <1>15, <2>1 DEF FlaskException, At
  <2>2. CASE web # "flask"
    <3>1. Runs(u, t) /\ Leave(u, t, Touch(scope[t]), FALSE) /\ UNCHANGED <<web, named>>
      BY <1>15, <2>2 DEF FlaskException, At
    <3> QED
      BY <1>0, <1>1, <1>2, <3>1
  <2> QED
    BY <2>1, <2>2
<1>16. CASE AfterRequest(u, t)
  <2> DEFINE c == Clear(scope[t], t)
             s == IF u \in named THEN Pop(c, u) ELSE c
  <2>1. /\ Runs(u, t) /\ UNCHANGED <<web, named>> /\ pc[u] \in {"view", "run", "answered"}
        /\ u \notin Tasks
        /\ \/ SetScope(t, s) /\ Goto(u, "stream") /\ UNCHANGED <<open, left>>
           \/ Leave(u, t, s, TRUE)
    BY <1>16, NamesAssumption DEF AfterRequest
  <2>2. c \in Scopes /\ c.stack = scope[t].stack
    BY <1>1
  <2> HIDE DEF c
  <2>3. Pop(c, u) \in Scopes
    BY <2>2, PopProperties
  <2>4. /\ Trims(Pop(c, u).stack, scope[t].stack)
        /\ \A i \in 1..Len(Pop(c, u).stack) : Pop(c, u).stack[i] # u
    BY <1>0, <2>2, PopTrims DEF OwnersAt
  <2>5. u \notin named => \A i \in 1..Len(c.stack) : c.stack[i] # u
    BY <1>0, <2>1, <2>2 DEF OwnersAt, CanPush
  <2>6. s \in Scopes /\ Trims(s.stack, scope[t].stack) /\ \A i \in 1..Len(s.stack) : s.stack[i] # u
    BY <1>0, <2>2, <2>3, <2>4, <2>5
  <2> HIDE DEF s
  <2>7. CASE SetScope(t, s) /\ Goto(u, "stream") /\ UNCHANGED <<open, left>>
    BY <2>1, <2>6, <2>7, OwnersStay
  <2>8. CASE Leave(u, t, s, TRUE)
    BY <1>2, <2>1, <2>6, <2>8
  <2> QED
    BY <2>1, <2>7, <2>8
<1>17. CASE ProcessView(u, t)
  <2>1. /\ web = "django" /\ Runs(u, t) /\ pc[u] = "view" /\ Goto(u, "run")
        /\ UNCHANGED <<web, named, open, left>>
    BY <1>17 DEF ProcessView, At
  <2>2. CASE u \notin named
    BY <1>4, <1>17, <2>1, <2>2 DEF ProcessView
  <2>3. CASE u \in named
    <3> DEFINE s == Push(scope[t], u)
    <3>1. s \in Scopes /\ s.stack = Append(scope[t].stack, u)
      BY <1>0, PushProperties
    <3>2. SetScope(t, s) /\ CanPush(u) /\ u \in OpenOn(t)
      BY <1>17, <2>1, <2>3 DEF ProcessView, CanPush, Runs
    <3> HIDE DEF s
    <3>3. \A v \in Threads : OpenOn(v)' = OpenOn(v) /\ left'[v] = left[v]
      BY <2>1 DEF OpenOn
    <3>4. /\ pc'[u] = "run"
          /\ \A x \in Units : /\ pc[x] \notin {"new", "view"} => pc'[x] \notin {"new", "view"}
                              /\ pc[x] = "done" => pc'[x] = "done"
      BY <2>1 DEF Goto, IInv, TypeOK
    <3>5. \E x \in OpenOn(t)' :
              /\ s.stack = Append(scope[t].stack, x) /\ CanPush(x)
              /\ pc[x] \in {"new", "view"} /\ pc'[x] \notin {"new", "view"}
              /\ OpenOn(t) \cup left[t] \subseteq OpenOn(t)' \cup left'[t]
      BY <2>1, <3>1, <3>2, <3>3, <3>4
    <3> QED
      BY <2>1, <3>1, <3>2, <3>3, <3>4, <3>5, OwnersKept
  <2> QED
    BY <2>2, <2>3
<1>18. CASE RequestFinished(u, t)
  <2>1. PICK s \in {Pop(scope[t], txid), scope[t]} : Leave(u, t, s, FALSE)
    BY <1>18 DEF RequestFinished
  <2>2. Runs(u, t) /\ UNCHANGED <<web, named>>
    BY <1>18 DEF RequestFinished, At
  <2>3. s \in Scopes /\ Trims(s.stack, scope[t].stack)
    BY <1>0, <2>1, PopProperties, PopTrims
  <2> QED
    BY <1>2, <2>1, <2>2, <2>3
<1>19. CASE ExplicitException(u, t)
  <2>1. Runs(u, t) /\ UNCHANGED <<web, named>> /\ web \in {"lambda", "explicit"} /\ u \notin Tasks
    BY <1>19, NamesAssumption DEF ExplicitException, At
  <2>2. \/ Leave(u, t, Clear(scope[t], t), TRUE)
        \/ Leave(u, t, Touch(scope[t]), FALSE)
    BY <1>19 DEF ExplicitException
  <2>3. \A i \in 1..Len(Clear(scope[t], t).stack) : Clear(scope[t], t).stack[i] # u
    BY <1>0, <1>1, <2>1 DEF OwnersAt, CanPush
  <2> QED
    BY <1>0, <1>1, <1>2, <2>1, <2>2, <2>3
<1>20. CASE TaskPostrun(u, t)
  <2> DEFINE p == Pop(scope[t], u)
             s == Clear(p, t)
  <2>1. /\ p \in Scopes /\ Trims(p.stack, scope[t].stack)
        /\ \A i \in 1..Len(p.stack) : p.stack[i] # u
    BY <1>0, PopProperties, PopTrims DEF OwnersAt
  <2>2. Runs(u, t) /\ Leave(u, t, s, TRUE) /\ UNCHANGED <<web, named>>
    BY <1>20 DEF TaskPostrun, At
  <2> HIDE DEF p
  <2>3. s \in Scopes /\ s.stack = p.stack
    BY <2>1, ClearProperties
  <2> HIDE DEF s
  <2> QED
    BY <1>2, <2>1, <2>2, <2>3
<1> QED
  BY <1>5, <1>6, <1>7, <1>8, <1>9, <1>10, <1>11, <1>12, <1>13, <1>14, <1>15, <1>16, <1>17,
     <1>18, <1>19, <1>20 DEF Wsgi, Flask, Django, Explicit, Celery

LEMMA OwnersInvariance == Spec => []OwnersInv
<1>1. Init => OwnersInv
  <2> SUFFICES ASSUME Init, NEW t \in Threads PROVE OwnersAt(t)
    BY DEF OwnersInv
  <2>1. scope[t].stack = <<>> /\ left[t] = {}
    BY DEF Init, Untouched, Activate
  <2>2. Len(scope[t].stack) = 0
    BY <2>1
  <2> QED
    BY <2>1, <2>2 DEF OwnersAt
<1>2. IInv /\ OwnersInv /\ [Next]_vars => OwnersInv'
  <2> SUFFICES ASSUME IInv, OwnersInv, [Next]_vars PROVE OwnersInv'
    OBVIOUS
  <2>1. CASE web = "sanic" /\ web' = web
    BY <2>1 DEF OwnersInv
  <2>2. ASSUME NEW u \in Units, NEW t \in Threads, web # "sanic",
               \/ Work(u, t) \/ Message(u, t) \/ Wsgi(u, t) \/ Flask(u, t) \/ Sanic(u, t)
               \/ Django(u, t) \/ Explicit(u, t) \/ Celery(u, t)
        PROVE  OwnersInv'
    <3>1. ~ Sanic(u, t)
      BY <2>2 DEF Sanic, BeginSanic, SanicException, SanicResponse
    <3> QED
      BY <2>2, <3>1, OwnersStep
  <2>3. ASSUME NEW t \in Threads, web # "sanic", WorkOutside(t) PROVE OwnersInv'
    <3> DEFINE s == RecordCrumb(scope[t], Outside)
    <3>1. s \in Scopes /\ s.stack = scope[t].stack /\ Len(scope[t].stack) \in Nat
      <4>1. scope[t] \in Scopes /\ Outside \in Units \cup {Outside} /\ Len(scope[t].stack) \in Nat
        BY TypesAt
      <4> QED
        BY <4>1, ScopeProperties
    <3>2. SetScope(t, s) /\ UNCHANGED <<web, named, open, pc, left>>
      BY <2>3 DEF WorkOutside
    <3> HIDE DEF s
    <3>3. Trims(s.stack, scope[t].stack)
      BY <3>1 DEF Trims
    <3> QED
      BY <2>3, <3>1, <3>2, <3>3, OwnersStay
  <2>4. CASE UNCHANGED vars
    <3>1. UNCHANGED <<web, named, scope, open, pc, left>>
      BY <2>4 DEF vars
    <3>2. ASSUME NEW t \in Threads, OwnersAt(t) PROVE OwnersAt(t)'
      <4>1. OpenOn(t)' = OpenOn(t) /\ \A x : CanPush(x)' <=> CanPush(x)
        BY <3>1 DEF OpenOn, CanPush
      <4> QED
        BY <3>1, <3>2, <4>1 DEF OwnersAt
    <3> QED
      BY <3>1, <3>2 DEF OwnersInv
  <2>5. web' = web
    <3>1. CASE UNCHANGED vars
      BY <3>1 DEF vars
    <3>2. ASSUME NEW u \in Units, NEW t \in Threads,
                 \/ Work(u, t) \/ Message(u, t) \/ Wsgi(u, t) \/ Flask(u, t) \/ Sanic(u, t)
                 \/ Django(u, t) \/ Explicit(u, t) \/ Celery(u, t)
          PROVE  web' = web
      BY <3>2 DEF Work, Message, Wsgi, Flask, Sanic, Django, Explicit, Celery, Call, AppReturns,
         AppRaises, IterRaises, Close, IterEnds, CloseAgain, Abandon, BeginFlask, FlaskException,
         AfterRequest, BeginSanic, SanicException, SanicResponse, ProcessRequest, ProcessView,
         NoView, DjangoException, RequestFinished, BeginExplicit, ExplicitException, ExplicitEnds,
         TaskPrerun, TaskFailure, TaskPostrun
    <3>3. CASE \E t \in Threads : WorkOutside(t)
      BY <3>3 DEF WorkOutside
    <3> QED
      BY <3>1, <3>2, <3>3 DEF Next
  <2> QED
    BY <2>1, <2>2, <2>3, <2>4, <2>5 DEF Next
<1> QED
  BY <1>1, <1>2, Invariance, PTL DEF Spec

(* While a task runs, or the view of a request that has a name, its events  *)
(* name it as their transaction, although pop() takes whatever lies above   *)
(* what it is given and Django pops the one _txid that all its threads      *)
(* share; what runs without a name (Flask's `if request.url_rule`, the      *)
(* `except` of Django's process_view) shows none that is at work either.    *)
THEOREM TransactionsAreOwn == Spec => TransactionOwn
<1> DEFINE A == event' # None =>
                  LET u == event'.unit
                  IN  /\ pc[u] = "run"
                      /\ u \in Tasks \/ IsFlask \/ web = "django"
                      => IF u \in Tasks \cup named THEN event'.transaction = u
                         ELSE event'.transaction \in left[event'.thread] \cup {None}
<1>1. IInv /\ OwnersInv /\ [Next]_vars => [A]_vars
  <2> SUFFICES ASSUME IInv, OwnersInv, Next, event' # None,
                      NEW u, u = event'.unit, pc[u] = "run", u \in Tasks \/ IsFlask \/ web = "django"
               PROVE  IF u \in Tasks \cup named THEN event'.transaction = u
                      ELSE event'.transaction \in left[event'.thread] \cup {None}
    OBVIOUS
  <2>1. PICK t \in Threads : Reports(event', u, t) /\ u \in Units
    BY StepReports DEF Reports
  <2> DEFINE s == scope[t].stack
             o == open[t]
  <2>2. /\ event'.transaction = IF s = <<>> THEN None ELSE Last(s)
        /\ Runs(u, t) /\ u \in OpenOn(t) /\ event'.thread = t
    BY <2>1 DEF Reports, Runs
  <2>3. StackAt(t) /\ s \in Seq(Units) /\ Len(s) \in Nat /\ o \in Seq(Units) /\ Len(o) \in Nat
    BY TypesAt DEF ThreadAt
  <2>4. CASE u \in Tasks \cup named
    <3>1. s # <<>> /\ s[Len(s)] = u
      <4>1. CASE web = "sanic"
        BY <2>2, <2>3, <4>1 DEF StackAt, IsFlask
      <4>2. CASE web # "sanic"
        <5>1. u = o[Len(o)] /\ Len(o) \in 1..Len(o)
          BY <2>1, <2>2, <2>3, <4>2, Running, EmptySeq DEF IInv
        <5>2. Pushed(o[Len(o)])
          BY <2>4, <5>1 DEF Pushed, IsFlask
        <5>3. Len(s) - Len(o) + Len(o) >= 1 /\ s[Len(s) - Len(o) + Len(o)] = o[Len(o)]
          BY <2>3, <4>2, <5>1, <5>2 DEF StackAt
        <5>4. Len(s) - Len(o) + Len(o) = Len(s) /\ (s = <<>> => Len(s) = 0)
          BY <2>3
        <5> QED
          BY <5>1, <5>3, <5>4
      <4> QED
        BY <4>1, <4>2
    <3> QED
      BY <2>2, <2>4, <3>1 DEF Last
  <2>5. CASE u \notin Tasks \cup named
    <3>1. u \in Requests /\ web # "sanic" /\ OwnersAt(t)
      BY <2>1, <2>5 DEF Units, IsFlask, OwnersInv
    <3>2. OpenOn(t) = {u} /\ ~ CanPush(u)
      BY <2>2, <2>5, <3>1, RequestAlone DEF CanPush
    <3>3. CASE s = <<>>
      BY <2>2, <2>5, <3>3
    <3>4. CASE s # <<>>
      <4>1. Len(s) \in 1..Len(s)
        BY <2>3, <3>4, EmptySeq
      <4>2. Last(s) \in left[t]
        BY <3>1, <3>2, <4>1 DEF OwnersAt, Last
      <4> QED
        BY <2>2, <2>5, <3>4, <4>2
    <3> QED
      BY <3>3, <3>4
  <2> QED
    BY <2>4, <2>5
<1> QED
  BY <1>1, Invariance, OwnersInvariance, PTL DEF Spec, TransactionOwn


(* A step of u either leaves the tags of its thread there, or is the end of *)
(* u, or one that clears the context while u is the only unit of its thread *)
(* and goes on.                                                             *)
Wipes(u, t) ==
    /\ \A v \in Threads \ {t} : scope'[v] = scope[v]
    /\ \/ scope[t].tags \subseteq scope'[t].tags
       \/ Runs(u, t) /\ open' = [open EXCEPT ![t] = RemoveFirst(@, u)]
       \/ OpenOn(t) = {u} /\ pc[u] # "stream" /\ Goto(u, "stream")

(* But for Sanic, a step wipes only the context of the thread it runs on. *)
LEMMA Wiping ==
  ASSUME IInv, NEW u \in Units, NEW t \in Threads, web # "sanic",
         \/ Work(u, t) \/ Message(u, t) \/ Wsgi(u, t) \/ Flask(u, t) \/ Sanic(u, t)
         \/ Django(u, t) \/ Explicit(u, t) \/ Celery(u, t)
  PROVE  Wipes(u, t)
<1>0. scope \in [Threads -> Scopes] /\ scope[t] \in Scopes
  BY DEF IInv, TypeOK
<1>1. ASSUME NEW s, SetScope(t, s), scope[t].tags \subseteq s.tags
      PROVE  Wipes(u, t)
  <2>1. scope'[t] = s /\ \A v \in Threads \ {t} : scope'[v] = scope[v]
    BY <1>0, <1>1 DEF SetScope
  <2> QED
    BY <1>1, <2>1 DEF Wipes
<1>2. ASSUME scope' = scope PROVE Wipes(u, t)
  BY <1>2 DEF Wipes
<1>3. ASSUME NEW s, Runs(u, t), SetScope(t, s), open' = [open EXCEPT ![t] = RemoveFirst(@, u)]
      PROVE  Wipes(u, t)
  BY <1>0, <1>3 DEF SetScope, Wipes
<1>4. /\ Activate(scope[t]).tags = scope[t].tags /\ Touch(scope[t]).tags = scope[t].tags
      /\ Activate(scope[t]) \in Scopes
  BY <1>0, ScopeProperties
<1>5. CASE Work(u, t)
  <2>1. PICK s \in {RecordCrumb(scope[t], u), MergeTag(scope[t], u)} : SetScope(t, s)
    BY <1>5 DEF Work
  <2>2. RecordCrumb(scope[t], u).tags = scope[t].tags
    <3>1. u \in Units \cup {Outside}
      OBVIOUS
    <3> QED
      BY <1>0, <3>1, ScopeProperties
  <2>3. MergeTag(scope[t], u).tags = scope[t].tags \cup {u}
    BY <1>0 DEF MergeTag, Activate, Scopes
  <2> QED
    BY <1>1, <2>1, <2>2, <2>3
<1>6. CASE Message(u, t)
  BY <1>1, <1>4, <1>6 DEF Message
<1>7. CASE Call(u, t)
  BY <1>0, <1>1, <1>7, ScopeProperties DEF Call
<1>8. CASE AppReturns(u, t) \/ IterRaises(u, t) \/ CloseAgain(u, t) \/ NoView(u, t)
           \/ DjangoException(u, t) \/ BeginExplicit(u, t) \/ TaskFailure(u, t)
  BY <1>2, <1>8 DEF AppReturns, IterRaises, CloseAgain, NoView, DjangoException, BeginExplicit,
                    TaskFailure
<1>9. CASE AppRaises(u, t) \/ Close(u, t) \/ IterEnds(u, t) \/ Abandon(u, t)
           \/ RequestFinished(u, t) \/ ExplicitException(u, t) \/ ExplicitEnds(u, t)
           \/ TaskPostrun(u, t)
  <2>1. Runs(u, t) /\ open' = [open EXCEPT ![t] = RemoveFirst(@, u)] /\ \E s : SetScope(t, s)
    BY <1>9 DEF AppRaises, Close, IterEnds, Abandon, RequestFinished, ExplicitException,
                ExplicitEnds, TaskPostrun, Leave, At
  <2> QED
    BY <1>3, <2>1
<1>10. CASE BeginFlask(u, t)
  <2> DEFINE w == IF web = "flask" THEN MergeRequest(scope[t], u) ELSE scope[t]
             p == IF u \in named THEN Push(w, u) ELSE w
  <2>1. u \in Requests /\ \E s \in {w, MergeRequest(p, u)} : SetScope(t, s)
    BY <1>10 DEF BeginFlask
  <2>2. w \in Scopes /\ w.tags = scope[t].tags
    BY <1>0, <2>1, ScopeProperties
  <2> HIDE DEF w
  <2>3. p \in Scopes /\ p.tags = scope[t].tags
    <3>1. Push(w, u) \in Scopes /\ Push(w, u).tags = scope[t].tags
      BY <2>2, PushProperties
    <3> QED
      BY <2>2, <3>1
  <2> HIDE DEF p
  <2>4. MergeRequest(p, u).tags = scope[t].tags
    BY <2>1, <2>3, ScopeProperties
  <2> QED
    BY <1>1, <2>1, <2>2, <2>4
<1>11. CASE FlaskException(u, t)
  <2>1. \/ scope' = scope
        \/ Leave(u, t, Touch(scope[t]), FALSE)
    BY <1>11 DEF FlaskException
  <2> QED
    BY <1>1, <1>2, <1>4, <2>1 DEF Leave
<1>12. CASE AfterRequest(u, t)
  <2> DEFINE c == Clear(scope[t], t)
             s == IF u \in named THEN Pop(c, u) ELSE c
  <2>1. u \in Requests /\ Runs(u, t) /\ pc[u] # "stream"
    BY <1>12 DEF AfterRequest
  <2>2. \/ Leave(u, t, s, TRUE)
        \/ SetScope(t, s) /\ Goto(u, "stream")
    BY <1>12 DEF AfterRequest
  <2> HIDE DEF s
  <2>3. OpenOn(t) = {u}
    BY <2>1, RequestAlone
  <2>4. CASE Leave(u, t, s, TRUE)
    BY <1>3, <2>1, <2>4 DEF Leave
  <2>5. CASE SetScope(t, s) /\ Goto(u, "stream")
    BY <1>0, <2>1, <2>3, <2>5 DEF SetScope, Wipes
  <2> QED
    BY <2>2, <2>4, <2>5
<1>13. CASE ProcessRequest(u, t)
  BY <1>1, <1>4, <1>13 DEF ProcessRequest
<1>14. CASE ProcessView(u, t)
  <2>1. Push(scope[t], u).tags = scope[t].tags
    BY <1>0, PushProperties
  <2> QED
    BY <1>1, <1>2, <1>14, <2>1 DEF ProcessView
<1>15. CASE TaskPrerun(u, t)
  <2>1. Push(Activate(scope[t]), u).tags = scope[t].tags
    BY <1>4, PushProperties
  <2> QED
    BY <1>1, <1>15, <2>1 DEF TaskPrerun
<1>16. ~ Sanic(u, t)
  BY DEF Sanic, BeginSanic, SanicException, SanicResponse
<1> QED
  BY <1>5, <1>6, <1>7, <1>8, <1>9, <1>10, <1>11, <1>12, <1>13, <1>14, <1>15, <1>16
     DEF Wsgi, Flask, Django, Explicit, Celery

(* The tags of a unit that is open only go by a step of its own, or when a  *)
(* unit inside it ends: the ClosingIterator that the server closes late, on *)
(* whatever thread, does not clear the context of the request that runs.    *)
THEOREM NothingIsWipedLate == Spec => NoLateWipe
<1> DEFINE A == web # "sanic" => \A t \in Threads : \A u \in OpenOn(t) :
                  u \in scope[t].tags \ scope'[t].tags =>
                      pc'[u] # pc[u] \/ Len(open'[t]) < Len(open[t])
<1>1. IInv /\ [Next]_vars => [A]_vars
  <2> SUFFICES ASSUME IInv, Next, web # "sanic", NEW v \in Threads, NEW x \in OpenOn(v),
                      x \in scope[v].tags \ scope'[v].tags
               PROVE  pc'[x] # pc[x] \/ Len(open'[v]) < Len(open[v])
    OBVIOUS
  <2>1. scope \in [Threads -> Scopes] /\ x \in Units /\ pc \in [Units -> {"new", "run", "view",
          "answered", "stream", "ended", "done"}] /\ open[v] \in Seq(Units)
    BY TypesAt DEF IInv, TypeOK
  <2>2. ASSUME NEW t \in Threads PROVE ~ WorkOutside(t)
    <3>1. CASE v # t
      BY <2>1, <3>1 DEF WorkOutside, SetScope
    <3>2. CASE v = t
      BY TypesAt, <3>2 DEF WorkOutside
    <3> QED
      BY <3>1, <3>2
  <2>3. PICK u \in Units, t \in Threads :
          \/ Work(u, t) \/ Message(u, t) \/ Wsgi(u, t) \/ Flask(u, t) \/ Sanic(u, t)
          \/ Django(u, t) \/ Explicit(u, t) \/ Celery(u, t)
    BY <2>2 DEF Next
  <2>4. Wipes(u, t)
    BY <2>3, Wiping
  <2>5. v = t
    BY <2>4 DEF Wipes
  <2>6. CASE Runs(u, v) /\ open' = [open EXCEPT ![v] = RemoveFirst(@, u)]
    <3>1. PICK k \in 1..Len(open[v]) : u = open[v][k]
      BY <2>6, Running DEF IInv
    <3>2. Len(RemoveFirst(open[v], u)) = Len(open[v]) - 1
      <4>1. \A i, j \in 1..Len(open[v]) : open[v][i] = open[v][j] => i = j
        BY DEF IInv, OpenInv
      <4> QED
        BY <2>1, <3>1, <4>1, RemoveFirstProperties
    <3>3. open'[v] = RemoveFirst(open[v], u)
      BY <2>6 DEF IInv, TypeOK
    <3> QED
      BY <2>1, <3>2, <3>3
  <2>7. CASE OpenOn(v) = {u} /\ pc[u] # "stream" /\ Goto(u, "stream")
    BY <2>1, <2>7 DEF Goto
  <2> QED
    BY <2>4, <2>5, <2>6, <2>7 DEF Wipes
<1> QED
  BY <1>1, Invariance, PTL DEF Spec, NoLateWipe
=============================================================================
