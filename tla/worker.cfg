\* Two threads, one of which may stop the worker for good or for a restart.
SPECIFICATION FairSpec
CONSTANTS
    Threads = {t1, t2}
    Daemons = {}
    Main = main
    Jobs = {j1, j2, j3}
    Fatal = {}
    MaxWorkers = 4
    StopKinds = {"joinForever"}
    MaxStops = 1
    StartMayFail = FALSE
    Terminator = terminator
    None = None
INVARIANTS
    TypeOK
    TaskAccounting
    OneConsumer
PROPERTIES
    StopDrains
    Promise
