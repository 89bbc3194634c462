SPECIFICATION SubmissionSpec
CONSTANTS
    http = http
    cctp = cctp
    iris = iris
    first = first
    retry = retry
    twin = twin
    keyless = keyless
    k1 = k1
    k2 = k2
    d1 = d1
    d2 = d2
    None = None
    Absent = Absent
    Callers = {http, cctp, iris}
    IrisPath = iris
    MaxNonce = 4
    Requests = {first, retry, twin, keyless}
    Keys = {k1, k2}
    Payloads = {d1, d2}
    KeyOf <- Key
    DataOf <- Calldata
    PostFaultSets = {{}, {"lost reply"}, {"expiry"}, {"disk", "crash"}}
    FaultSets = {{}, {"stuck"}, {"lost reply"}, {"stuck", "lost reply", "drop"}}
INVARIANT NonceDiscipline
INVARIANT HonestAnswers
INVARIANT OneBroadcast
PROPERTY PersistedKeyIsSpent
PROPERTY EveryCallSettles
\* The bound on nonces ends the behaviours of the coordinator, and the
\* clients' requests run out.
CHECK_DEADLOCK FALSE
