\* Three events through every transport, with a fork and a dying worker thread.
SPECIFICATION FairSpec
CONSTANTS
    Events = {e1, e2, e3}
    MaxOutstanding = 2
    MaxDeaths = 1
    None = None
INVARIANTS
    TypeOK
    ForkSafe
    Semaphore

    
CHECK_DEADLOCK FALSE
