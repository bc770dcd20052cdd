\* One daemon thread, one thread the exit waits for; a fatal job, a thread that
\* may fail to start, and a stop() with a timeout.
SPECIFICATION FairSpec
CONSTANTS
    Threads = {t1, t2}
    Daemons = {t1}
    Main = main
    Jobs = {j1, j2}
    Fatal = {j2}
    MaxWorkers = 3
    StopKinds = {"joinTimed"}
    MaxStops = 1
    StartMayFail = TRUE
    Terminator = terminator
    None = None
INVARIANTS
    TaskAccounting
    ExitDrains
PROPERTIES
    ExitTerminates
