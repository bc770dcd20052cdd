------------------------- MODULE ClientSetupProofs -------------------------
(***************************************************************************)
(* Proofs about ClientSetup, for any number of threads, of methods and of  *)
(* failures: the chain of exception hooks ends and each method of the      *)
(* loggers is wrapped once.                                                *)
(***************************************************************************)
EXTENDS ClientSetup, TLAPS

(* The lock of once() is held by the thread that wraps the methods. *)
LockInv == \A t \in Threads : pc[t] = "patch" <=> lock = t

(* A client is there when its hooks are, and stays. *)
ClientInv ==
    /\ client # None => called
    /\ \A t \in Threads :
          /\ pc[t] = "assign" => called
          /\ pc[t] = "patch" => ~called
          /\ mine[t] # None => client # None /\ pc[t] \in {"idle", "has", "make", "return"}
          /\ pc[t] \in {"has", "make", "return"} => mine[t] # None

(* Until something fails, what the thread with the lock has still to do are *)
(* the methods that are not wrapped.                                        *)
MethodInv == failures = 0 =>
    /\ \A m \in Methods : method[m] \in {"function", "patched"}
    /\ called => \A m \in Methods : method[m] = "patched"
    /\ lock = None /\ ~called => \A m \in Methods : method[m] = "function"
    /\ \A t \in Threads : pc[t] = "patch" =>
          \A m \in Methods : m \in todo[t] <=> method[m] = "function"

(* Until two threads race, one at a time looks at sys.excepthook, and a     *)
(* hook of ours is never saved as the one to call.                          *)
HookInv == ~raced =>
    /\ \A t, u \in Threads :
          pc[t] \in {"save", "install"} /\ pc[u] \in {"save", "install"} => t = u
    /\ \A t \in Threads : /\ pc[t] = "save" => saved = None
                          /\ pc[t] = "install" => saved # None
    /\ saved \notin Clients /\ under \in Clients \cup {"original"}
    /\ excepthook \in Clients \/ under \in Clients => saved # None
    /\ saved = "application" => under = "original"

IInv == TypeOK /\ LockInv /\ ClientInv /\ MethodInv /\ HookInv

(* Nothing is set up yet. *)
LEMMA InitIInv == Init => IInv
<1> SUFFICES ASSUME Init PROVE IInv
  OBVIOUS
<1>1. TypeOK
  <2>1. 0 \in 0..MaxFailures
    BY BoundAssumption
  <2> QED
    BY <2>1 DEF Init, TypeOK, Hooks, Clients, NoThread
<1>2. LockInv /\ ClientInv /\ MethodInv
  BY NamesAssumption DEF Init, LockInv, ClientInv, MethodInv, NoThread
<1>3. HookInv
  BY NamesAssumption DEF Init, HookInv, Clients
<1> QED
  BY <1>1, <1>2, <1>3 DEF IInv

-----------------------------------------------------------------------------
(* get_client() and get_transport(): nothing of the hooks changes. *)

(* Making a client or a transport, step by step, keeps the invariant. *)
LEMMA GetStep ==
  ASSUME IInv, NEW t \in Threads,
         GetClient(t) \/ Assign(t) \/ HasTransport(t) \/ MakeTransport(t) \/ ReturnTransport(t)
  PROVE  IInv'
<1> USE DEF IInv, GetClient, Found, Assign, HasTransport, MakeTransport, ReturnTransport, Goto
<1>1. UNCHANGED <<hook, logging>> /\ t # None
  BY NamesAssumption
<1>2. TypeOK'
  BY <1>1 DEF TypeOK, hook, logging, Clients, ClientInv
<1>3. LockInv'
  BY <1>1 DEF LockInv, TypeOK, logging
<1>4. ClientInv'
  BY <1>1 DEF ClientInv, TypeOK, logging, Clients
<1>5. MethodInv'
  BY <1>1 DEF MethodInv, TypeOK, logging
<1>6. HookInv'
  BY <1>1 DEF HookInv, TypeOK, hook, Clients
<1> QED
  BY <1>2, <1>3, <1>4, <1>5, <1>6

(* install_sys_hook() *)
LEMMA HookStep ==
  ASSUME IInv, NEW t \in Threads, ReadSaved(t) \/ Save(t) \/ Install(t)
  PROVE  IInv'
<1> USE DEF IInv, ReadSaved, Save, Install, Goto
<1>1. UNCHANGED <<client, mine, logging>> /\ t # None
  BY NamesAssumption
<1>2. TypeOK'
  BY <1>1 DEF TypeOK, logging, Clients, Hooks
<1>3. LockInv'
  BY <1>1 DEF LockInv, TypeOK, logging
<1>4. ClientInv'
  BY <1>1 DEF ClientInv, TypeOK, logging
<1>5. MethodInv'
  BY <1>1 DEF MethodInv, TypeOK, logging
<1>6. HookInv'
  <2>1. CASE ReadSaved(t)
    BY <2>1 DEF HookInv, TypeOK, Clients
  <2>2. CASE Save(t)
    BY <2>2, NamesAssumption DEF HookInv, TypeOK, Clients, Hooks
  <2>3. CASE Install(t)
    BY <2>3, NamesAssumption DEF HookInv, TypeOK, Clients
  <2> QED
    BY <2>1, <2>2, <2>3
<1> QED
  BY <1>2, <1>3, <1>4, <1>5, <1>6

(* once() and install_logging_hook() *)
LEMMA LoggingStep ==
  ASSUME IInv, NEW t \in Threads,
         CheckCalled(t) \/ Acquire(t) \/ PatchMethod(t) \/ Patched(t) \/ PatchFails(t)
  PROVE  IInv'
<1> USE DEF IInv, CheckCalled, Acquire, PatchMethod, Patched, PatchFails, Goto, NoThread
<1>1. UNCHANGED <<client, mine, hook, transport, failures>> /\ t # None
  BY NamesAssumption DEF logging
<1>2. TypeOK'
  <2>1. pc' \in [Threads -> {"idle", "read", "save", "install", "called", "acquire", "patch",
                              "assign", "has", "make", "return"}]
    BY DEF TypeOK
  <2>2. /\ called' \in BOOLEAN /\ lock' \in Threads \cup {NoThread}
        /\ todo' \in [Threads -> SUBSET Methods]
        /\ method' \in [Methods -> {"function", "other", "patched", "None"}]
    <3>1. CASE CheckCalled(t)
      BY <3>1 DEF TypeOK, logging
    <3>2. CASE Acquire(t)
      BY <3>2 DEF TypeOK
    <3>3. CASE PatchMethod(t)
      <4>1. \A m \in Methods : Wrap(method[m]) \in {"function", "other", "patched", "None"}
        BY DEF Wrap
      <4> QED
        BY <3>3, <4>1 DEF TypeOK
    <3>4. CASE Patched(t) \/ PatchFails(t)
      BY <3>4 DEF TypeOK
    <3> QED
      BY <3>1, <3>2, <3>3, <3>4
  <2> QED
    BY <1>1, <2>1, <2>2 DEF TypeOK, hook
<1>3. LockInv'
  <2>1. \A v \in Threads : v # None
    BY NamesAssumption
  <2>2. CASE CheckCalled(t) \/ PatchMethod(t)
    BY <2>2 DEF LockInv, TypeOK, logging
  <2>3. CASE Acquire(t)
    BY <2>1, <2>3 DEF LockInv, TypeOK
  <2>4. CASE Patched(t) \/ PatchFails(t)
    BY <2>1, <2>4 DEF LockInv, TypeOK
  <2> QED
    BY <2>2, <2>3, <2>4
<1>4. ClientInv'
  BY <1>1 DEF ClientInv, LockInv, TypeOK, logging
<1>5. MethodInv'
  <2>1. CASE CheckCalled(t)
    BY <1>1, <2>1 DEF MethodInv, TypeOK, logging
  <2>2. CASE Acquire(t)
    BY <1>1, <2>2 DEF MethodInv, LockInv, TypeOK
  <2>3. CASE PatchMethod(t)
    BY <1>1, <2>3 DEF MethodInv, LockInv, ClientInv, TypeOK, Wrap
  <2>4. CASE Patched(t)
    BY <1>1, <2>4 DEF MethodInv, LockInv, ClientInv, TypeOK
  <2>5. CASE PatchFails(t)
    BY <1>1, <2>5 DEF MethodInv, TypeOK
  <2> QED
    BY <2>1, <2>2, <2>3, <2>4, <2>5
<1>6. HookInv'
  BY <1>1 DEF HookInv, TypeOK, hook, Clients
<1> QED
  BY <1>2, <1>3, <1>4, <1>5, <1>6

(* What the rest of the process does. *)
LEMMA OtherStep ==
  ASSUME IInv,
         ApplicationHook \/ (\E m \in Methods : Replaced(m) \/ Restored(m)) \/ UNCHANGED vars
  PROVE  IInv'
<1>1. CASE ApplicationHook
  <2> USE <1>1 DEF ApplicationHook, logging
  <2>1. TypeOK'
    BY DEF IInv, TypeOK, Hooks
  <2>2. LockInv' /\ ClientInv' /\ MethodInv'
    BY DEF IInv, LockInv, ClientInv, MethodInv
  <2>3. HookInv'
    BY NamesAssumption DEF IInv, HookInv, TypeOK, Hooks, Clients
  <2> QED
    BY <2>1, <2>2, <2>3 DEF IInv
<1>2. ASSUME NEW m \in Methods, Replaced(m) \/ Restored(m) PROVE IInv'
  <2> USE <1>2 DEF Replaced, Restored, hook
  <2>0. UNCHANGED <<pc, client, mine, hook, called, lock, todo, transport>>
    OBVIOUS
  <2>1. TypeOK'
    BY BoundAssumption DEF IInv, TypeOK
  <2>2. LockInv' /\ ClientInv' /\ HookInv'
    BY <2>0 DEF IInv, LockInv, ClientInv, HookInv
  <2>3. MethodInv'
    BY BoundAssumption DEF IInv, TypeOK, MethodInv
  <2> QED
    BY <2>1, <2>2, <2>3 DEF IInv
<1>3. CASE UNCHANGED vars
  <2>1. UNCHANGED <<pc, client, mine, excepthook, saved, under, called, lock, todo, method,
                    transport, failures, raced>>
    BY <1>3 DEF vars
  <2>2. TypeOK' /\ LockInv' /\ ClientInv' /\ MethodInv' /\ HookInv'
    BY <2>1 DEF IInv, TypeOK, LockInv, ClientInv, MethodInv, HookInv
  <2> QED
    BY <2>2 DEF IInv
<1> QED
  BY <1>1, <1>2, <1>3

(* So does every step. *)
LEMMA NextIInv == IInv /\ [Next]_vars => IInv'
  BY GetStep, HookStep, LoggingStep, OtherStep DEF Next, Step

(* The invariant holds of every behaviour. *)
LEMMA Invariance == Spec => []IInv
  BY InitIInv, NextIInv, PTL DEF Spec

-----------------------------------------------------------------------------

(* Every variable keeps its type: no method of the loggers becomes anything *)
(* but a function, raven's or another's, or what _wrap_logging_method() of  *)
(* a wrapped one returns.                                                   *)
THEOREM TypeCorrect == Spec => []TypeOK
<1>1. IInv => TypeOK
  BY DEF IInv
<1> QED
  BY <1>1, Invariance, PTL

(* Without a race of two threads, an uncaught exception gets through the    *)
(* hooks to the interpreter's own, whatever clients were made or failed.    *)
THEOREM HooksEnd == Spec => []HookChainEnds
<1>1. IInv => HookChainEnds
  BY NamesAssumption DEF IInv, TypeOK, HookInv, HookChainEnds, Calls, Hooks, Clients
<1> QED
  BY <1>1, Invariance, PTL

(* once() and the mark of _wrap_logging_method(): however many threads make *)
(* clients, each method is wrapped once, and no client is without them.     *)
THEOREM MethodsHooked == Spec => []LoggersHooked
<1>1. IInv => LoggersHooked
  BY DEF IInv, ClientInv, MethodInv, LoggersHooked
<1> QED
  BY <1>1, Invariance, PTL
=============================================================================
