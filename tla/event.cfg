\* Inputs of every call an event goes through.
SPECIFICATION BoundedSpec
CONSTANTS
    None = None
    ContextLines = 1
    MaxVarSize = 4
    MaxDepth = 4
    ListMax = 2
    Allowances = {0, 1, 2, 3, 4, 5}
INVARIANTS
    SlimKept
    TraceFaithful
    Serialized
    Masked
    Precedence
    RequestRead
    RecordsReported
    CrumbsFaithful
    Configured
CHECK_DEADLOCK FALSE
