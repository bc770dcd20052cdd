---------------------------- MODULE ClientSetup ----------------------------
(***************************************************************************)
(* How threads come by a client and by its transport: get_client() of the  *)
(* Django integration, which makes one on the first call, Client.__init__  *)
(* with its hooks (sys.excepthook, the methods of logging.Logger, the      *)
(* latter guarded by once()), and RemoteConfig.get_transport() on the      *)
(* first event. Only once() takes a lock. A thread makes another client    *)
(* when its last one failed to be made, so a client is named by the thread.*)
(***************************************************************************)
EXTENDS Naturals, FiniteSets

CONSTANTS
    Threads,      \* threads that capture events
    Methods,      \* the methods of logging.Logger that raven wraps
    MaxFailures,  \* how often a method is there that cannot be wrapped
    None

ASSUME NamesAssumption ==
    /\ {"original", "application"} \cap Threads = {}
    /\ None \notin Threads \cup {"original", "application"}

ASSUME BoundAssumption == MaxFailures \in Nat

VARIABLES
    pc,          \* where each thread is
    client,      \* _client: the client of the process
    mine,        \* the client get_client() has returned to each thread
    excepthook,  \* sys.excepthook: whose it is
    saved,       \* raven.base.__excepthook__
    under,       \* what the application's own hook calls
    called,      \* install_logging_hook has run to its end
    lock,        \* the thread that holds the lock of once()
    todo,        \* methods each thread has not wrapped yet
    method,      \* what each method of logging.Logger is
    transport,   \* RemoteConfig._transport of each client: whose it is
    failures,    \* clients that could not be made
    raced        \* two threads have been in install_sys_hook() at once

vars == <<pc, client, mine, excepthook, saved, under, called, lock, todo, method,
          transport, failures, raced>>
hook == <<excepthook, saved, under, raced>>
logging == <<called, lock, todo, method, failures>>

Clients == Threads
Hooks == Clients \cup {"original", "application"}
NoThread == None

TypeOK ==
    /\ pc \in [Threads -> {"idle", "read", "save", "install", "called", "acquire", "patch",
                           "assign", "has", "make", "return"}]
    /\ client \in Clients \cup {None} /\ mine \in [Threads -> Clients \cup {None}]
    /\ excepthook \in Hooks /\ saved \in Hooks \cup {None} /\ under \in Hooks
    /\ called \in BOOLEAN /\ lock \in Threads \cup {NoThread}
    /\ todo \in [Threads -> SUBSET Methods]
    /\ method \in [Methods -> {"function", "other", "patched", "None"}]
    /\ transport \in [Clients -> Threads \cup {None}]
    /\ failures \in 0..MaxFailures /\ raced \in BOOLEAN

Init ==
    /\ pc = [t \in Threads |-> "idle"]
    /\ client = None
    /\ mine = [t \in Threads |-> None]
    /\ excepthook = "original"
    /\ saved = None
    /\ under = "original"
    /\ called = FALSE
    /\ lock = NoThread
    /\ todo = [t \in Threads |-> {}]
    /\ method = [m \in Methods |-> "function"]
    /\ transport = [c \in Clients |-> None]
    /\ failures = 0
    /\ raced = FALSE

Goto(t, label) == pc' = [pc EXCEPT ![t] = label]

-----------------------------------------------------------------------------
(* get_client() *)

(* Mutant: every call makes a client. *)
AlwaysMake(c) == "read"

(* Where a call that finds the client c goes on. *)
Found(c) == IF c = None THEN "read" ELSE "has"

GetClient(t) ==
    /\ pc[t] = "idle"
    /\ Goto(t, Found(client))
    /\ mine' = [mine EXCEPT ![t] = client]
    /\ UNCHANGED <<client, hook, logging, transport>>

(* The instance is complete: `_client = (client, instance)`. *)
Assign(t) ==
    /\ pc[t] = "assign"
    /\ client' = t
    /\ mine' = [mine EXCEPT ![t] = t]
    /\ Goto(t, "has")
    /\ UNCHANGED <<hook, logging, transport>>

-----------------------------------------------------------------------------
(* Client.install_sys_hook() *)

ReadSaved(t) ==
    /\ pc[t] = "read"
    /\ Goto(t, IF saved = None THEN "save" ELSE "install")
    /\ raced' = (raced \/ \E v \in Threads \ {t} : pc[v] \in {"save", "install"})
    /\ transport' = [transport EXCEPT ![t] = None]   \* of the client being made
    /\ UNCHANGED <<client, mine, excepthook, saved, under, logging>>

Save(t) ==
    /\ pc[t] = "save"
    /\ saved' = excepthook
    /\ Goto(t, "install")
    /\ UNCHANGED <<client, mine, excepthook, under, raced, logging, transport>>

(* Mutant: every client saves what it finds. *)
InstallAndSave(t) ==
    /\ pc[t] = "install"
    /\ saved' = excepthook
    /\ excepthook' = t
    /\ Goto(t, "called")
    /\ UNCHANGED <<client, mine, under, raced, logging, transport>>

Install(t) ==
    /\ pc[t] = "install"
    /\ excepthook' = t
    /\ Goto(t, "called")
    /\ UNCHANGED <<client, mine, saved, under, raced, logging, transport>>

(* The application puts a hook of its own over the one there is, once over *)
(* raven's and perhaps once before.                                        *)
ApplicationHook ==
    /\ excepthook # "application" /\ under = "original"
    /\ saved # "application"
    /\ under' = excepthook
    /\ excepthook' = "application"
    /\ UNCHANGED <<pc, client, mine, saved, raced, logging, transport>>

-----------------------------------------------------------------------------
(* install_logging_hook(), under once(), and _patch_logger() *)

CheckCalled(t) ==
    /\ pc[t] = "called"
    /\ Goto(t, IF called THEN "assign" ELSE "acquire")
    /\ UNCHANGED <<client, mine, hook, logging, transport>>

(* Mutant: once() does not look again when it has the lock. *)
AcquireOnly(t) ==
    /\ pc[t] = "acquire"
    /\ lock = NoThread
    /\ lock' = t
    /\ todo' = [todo EXCEPT ![t] = Methods]
    /\ Goto(t, "patch")
    /\ UNCHANGED <<client, mine, hook, called, method, failures, transport>>

Acquire(t) ==
    /\ pc[t] = "acquire"
    /\ lock = NoThread
    /\ IF called
         THEN Goto(t, "assign") /\ UNCHANGED <<lock, todo>>
         ELSE lock' = t /\ todo' = [todo EXCEPT ![t] = Methods] /\ Goto(t, "patch")
    /\ UNCHANGED <<client, mine, hook, called, method, failures, transport>>

(* Mutant: the mark is not looked at. *)
WrapAgain(m) == IF m = "patched" THEN "patched twice" ELSE "patched"

(* _wrap_logging_method() returns nothing for a method it has wrapped. *)
Wrap(m) == IF m = "patched" THEN "None" ELSE "patched"

PatchMethod(t) ==
    /\ pc[t] = "patch"
    /\ \E m \in todo[t] :
         /\ method[m] \in {"function", "patched"}
         /\ method' = [method EXCEPT ![m] = Wrap(@)]
         /\ todo' = [todo EXCEPT ![t] = @ \ {m}]
    /\ UNCHANGED <<pc, client, mine, hook, called, lock, failures, transport>>

Patched(t) ==
    /\ pc[t] = "patch"
    /\ todo[t] = {}
    /\ called' = TRUE
    /\ lock' = NoThread
    /\ Goto(t, "assign")
    /\ UNCHANGED <<client, mine, hook, todo, method, failures, transport>>

(* Mutant: once() is left with its lock taken. *)
FailLocked(t) ==
    /\ pc[t] = "patch"
    /\ \E m \in todo[t] : method[m] \in {"other", "None"}
    /\ todo' = [todo EXCEPT ![t] = {}]
    /\ Goto(t, "idle")
    /\ UNCHANGED <<client, mine, hook, called, lock, method, failures, transport>>

(* It fails on what is no function; so does Client(), and get_client(). *)
PatchFails(t) ==
    /\ pc[t] = "patch"
    /\ \E m \in todo[t] : method[m] \in {"other", "None"}
    /\ lock' = NoThread
    /\ todo' = [todo EXCEPT ![t] = {}]
    /\ Goto(t, "idle")
    /\ UNCHANGED <<client, mine, hook, called, method, failures, transport>>

(* Another library puts an object in the place of a method, or a function *)
(* of its own, which does not have the mark of raven's.                   *)
Replaced(m) ==
    /\ failures < MaxFailures
    /\ method[m] = "function"
    /\ failures' = failures + 1
    /\ method' = [method EXCEPT ![m] = "other"]
    /\ UNCHANGED <<pc, client, mine, hook, called, lock, todo, transport>>

Restored(m) ==
    /\ method[m] = "other"
    /\ method' = [method EXCEPT ![m] = "function"]
    /\ UNCHANGED <<pc, client, mine, hook, called, lock, todo, failures, transport>>

-----------------------------------------------------------------------------
(* RemoteConfig.get_transport(), for the first event and the next *)

HasTransport(t) ==
    /\ pc[t] = "has"
    /\ Goto(t, IF transport[mine[t]] = None THEN "make" ELSE "return")
    /\ UNCHANGED <<client, mine, hook, logging, transport>>

MakeTransport(t) ==
    /\ pc[t] = "make"
    /\ transport' = [transport EXCEPT ![mine[t]] = t]
    /\ Goto(t, "return")
    /\ UNCHANGED <<client, mine, hook, logging>>

(* `return self._transport` reads it once more; the event is on its way. *)
ReturnTransport(t) ==
    /\ pc[t] = "return"
    /\ Goto(t, "idle")
    /\ UNCHANGED <<client, mine, hook, logging, transport>>

-----------------------------------------------------------------------------

Step(t) ==
    \/ GetClient(t) \/ Assign(t) \/ ReadSaved(t) \/ Save(t) \/ Install(t)
    \/ CheckCalled(t) \/ Acquire(t) \/ PatchMethod(t) \/ Patched(t) \/ PatchFails(t)
    \/ HasTransport(t) \/ MakeTransport(t) \/ ReturnTransport(t)

Next ==
    \/ \E t \in Threads : Step(t)
    \/ \E m \in Methods : Replaced(m) \/ Restored(m)
    \/ ApplicationHook

Spec == Init /\ [][Next]_vars

(* The threads run, and nobody waits for the lock in vain. *)
FairSpec == Spec /\ \A t \in Threads : WF_vars(Step(t)) /\ SF_vars(Acquire(t))

-----------------------------------------------------------------------------
(* Properties *)

Calls(h) == IF h = "application" THEN under ELSE IF h = "original" THEN h ELSE saved

(* An uncaught exception gets through the hooks to the interpreter's own,   *)
(* whatever clients have been made and whatever hook the application has    *)
(* put over raven's. (Two threads that make their first client at once may  *)
(* save raven's hook as the original; then it calls itself.)                *)
HookChainEnds ==
    ~raced => Calls(Calls(Calls(Calls(excepthook)))) = "original"

(* However many threads make clients at once, each method of the loggers is *)
(* wrapped once, and a client is complete only with all of them; a method   *)
(* is lost only after a wrapping that failed half way.                      *)
LoggersHooked ==
    /\ called /\ failures = 0 => \A m \in Methods : method[m] = "patched"
    /\ failures = 0 => \A m \in Methods : method[m] # "None"
    /\ client # None => called

(* Nothing keeps two first events from making two clients, or two           *)
(* transports of one: both look before either has assigned. But it ends:    *)
(* from some point on the process has the client it has and each client its *)
(* transport, and a thread that captures an event does so with the client   *)
(* of the process, not with one that lost the race.                         *)
Settled ==
    /\ <>[][UNCHANGED <<client, transport>>]_<<client, transport>>
    /\ \A t \in Threads : <>[](pc[t] \in {"has", "make", "return"} => mine[t] = client)

(* Every thread that wants a client gets through, also when making one      *)
(* fails: nobody keeps the lock of once().                                  *)
Through == \A t \in Threads : pc[t] # "idle" ~> pc[t] = "idle"
=============================================================================
