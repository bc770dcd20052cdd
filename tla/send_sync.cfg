\* Two threads send through a synchronous transport.
SPECIFICATION Spec
CONSTANTS
    Senders = {s1, s2}
    Workers = {}
    MaxInflight = 0
    RetryAfters = {0}
    RaiseSendErrors = {FALSE}
    HandoffMayFail = {}
    MaxRetryNumber = 2
    MaxAge = 5
    None = None
INVARIANTS
    FailedStateHasTime
