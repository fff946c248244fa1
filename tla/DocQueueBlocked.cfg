CONSTANTS
    r1 = r1  r2 = r2
    p1 = p1  p2 = p2  n1 = n1
    Requests = {r1, r2}
    Purls = {p1}
    Packages = {p1}
    Keys = {}
    NoKey = NoKey  NoReport = NoReport  NoTask = NoTask  None = None
    PurlOf <- SamePurl
    PackageOf <- SamePackage
    PriorityOf <- NoPriority
    KeyOf <- NoKeys
    Managers = {m1}
    Names = {n1}
    NameOf <- OneName
    LargeReports = {}
    MaxFaults = 0
SPECIFICATION FairSpec
CHECK_DEADLOCK FALSE
PROPERTIES EventuallyServed
