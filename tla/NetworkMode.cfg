CONSTANTS
    c1 = c1  c2 = c2
    Callers = {c1, c2}
    Packets <- SomePackets
    CustomRules <- SomeRules
    Configs <- SomeConfigs
    MaxRequests = 2
    MaxOperations = 2
SPECIFICATION Spec
INVARIANTS Isolated DecisionObeyed Healthy Accounted
CHECK_DEADLOCK FALSE
