\* Two requests on two threads share the one SentryMiddleware object.
SPECIFICATION Spec
CONSTANTS
    Threads = {main, t1}
    MainThread = main
    Requests = {r1, r2}
    Tasks = {}
    MaxUnnamed = 0
    Outside = Outside
    None = None
INVARIANTS
    FinishedCalled
CHECK_DEADLOCK FALSE
