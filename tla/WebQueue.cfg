CONSTANTS
    r1 = r1  r2 = r2
    p1 = p1  p2 = p2  n1 = n1
    Requests = {r1, r2}
    Purls = {p1, p2}
    Packages = {p1, p2}
    Keys = {}
    NoKey = NoKey  NoReport = NoReport  NoTask = NoTask  None = None
    PurlOf <- PurlPerRequest
    PackageOf <- SamePackage
    PriorityOf <- NoPriority
    KeyOf <- NoKeys
    Managers = {m1, m2}
    Names = {n1}
    NameOf <- OneName
    LargeReports = {p2}
    MaxFaults = 1
SPECIFICATION FairSpec
CHECK_DEADLOCK FALSE
INVARIANTS OwnReport
PROPERTIES QueueImplementsLifecycle EventuallyServed
