CONSTANTS
    r1 = r1  r2 = r2  r3 = r3
    p1 = p1  p2 = p2  k1 = k1
    Requests = {r1, r2, r3}
    Purls = {p1, p2}
    Packages = {p1, p2}
    Keys = {k1}
    NoKey = NoKey  NoReport = NoReport  NoTask = NoTask
    PurlOf <- PurlSharedBy12
    PackageOf <- SamePackage
    PriorityOf <- NoPriority
    KeyOf <- KeySharedBy23
    Workers = {w1}
    MaxFaults = 0
SPECIFICATION Spec
INVARIANTS NoReanalysis
