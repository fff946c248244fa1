CONSTANTS
    c1 = c1  c2 = c2
    Callers = {c1, c2}
    Packets <- SomePackets
    CustomRules <- SomeRules
    Configs <- OneConfig
    MaxRequests = 2
    MaxOperations = 2
SPECIFICATION Spec
INVARIANTS FailsafeIsolates
CHECK_DEADLOCK FALSE
