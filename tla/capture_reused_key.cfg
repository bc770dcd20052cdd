\* No breadcrumb has a processor; exceptions come, are handled and go.
SPECIFICATION Spec
CONSTANTS
    Bodies = {a}
    Processors = {}
    Limit = 1
    Keys = {k1, k2}
    Ignored = {}
    OnMain = TRUE
    None = None
INVARIANTS
    EventFromException
