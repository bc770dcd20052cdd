\* Two threads send through a threaded transport, whose worker alone records;
\* what async_send() raises goes to the application that asked for it.
SPECIFICATION FairSpec
CONSTANTS
    Senders = {s1, s2}
    Workers = {w1}
    MaxInflight = 1
    RetryAfters = {0, 2}
    RaiseSendErrors = {TRUE, FALSE}
    HandoffMayFail = {TRUE}
    MaxRetryNumber = 2
    MaxAge = 5
    None = None
INVARIANTS
    TypeOK
    StateMatchesHistory
PROPERTIES
    Recovers
