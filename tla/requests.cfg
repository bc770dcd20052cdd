\* Two requests of any integration and a task, on the client's thread and another.
SPECIFICATION Spec
CONSTANTS
    Threads = {main, t1}
    MainThread = main
    Requests = {r1, r2}
    Tasks = {k1}
    MaxUnnamed = 1
    Outside = Outside
    None = None
SYMMETRY Symmetry
VIEW BesideEvent
INVARIANTS
    TypeOK
    CleanUp
    HeaderOwn
PROPERTIES
    OwnRequest
    Isolation
    TransactionOwn
    NoLateWipe
CHECK_DEADLOCK FALSE
