\* Two threads capture their first events at the same time.
SPECIFICATION FairSpec
CONSTANTS
    Threads = {t1, t2}
    Methods = {error, log}
    MaxFailures = 1
    None = None
INVARIANTS
    TypeOK
    HookChainEnds
    LoggersHooked
PROPERTIES
    Settled
    Through
