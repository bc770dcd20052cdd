\* One thread, a buffer of three crumbs, processors of every kind.
SPECIFICATION FairSpec
CONSTANTS
    Bodies = {a, b}
    Processors = {"completes", "empties", "raises", "logs"}
    Limit = 3
    Keys = {k1, k2}
    Ignored = {k2}
    OnMain = FALSE
    None = None
INVARIANTS
    TypeOK
PROPERTIES
    CrumbsAttached
    ReportedOnce
    CaptureEnds
