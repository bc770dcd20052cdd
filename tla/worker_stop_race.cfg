\* One thread queues, the other stops the worker.
SPECIFICATION Spec
CONSTANTS
    Threads = {t1, t2}
    Daemons = {}
    Main = main
    Jobs = {j1}
    Fatal = {}
    MaxWorkers = 2
    StopKinds = {"joinForever"}
    MaxStops = 1
    StartMayFail = FALSE
    Terminator = terminator
    None = None
PROPERTIES
    NothingToDo
