CONSTANTS
    Entries = {e1}
    NoMsg = NoMsg
    Workers = {w1, w2}
    Subscriptions = {1, 3}
    DefaultDeadline = 3
    GracePeriod = 2
    MinAckDeadline = 1
    MaxAckDeadline = 6
    MaxLatency = 1
    MaxFaults = 1
SPECIFICATION FairSpec
INVARIANTS AckedIsSaved NothingLost LeaseHeld NoLateExtension
PROPERTIES EventuallyAnalysed
CHECK_DEADLOCK FALSE
