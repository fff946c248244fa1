CONSTANTS
    r1 = r1  r2 = r2  r3 = r3
    p1 = p1  p2 = p2  k1 = k1
    Requests = {r1, r2}
    Purls = {p1, p2}
    Packages = {p1, p2}
    Keys = {k1}
    NoKey = NoKey  NoReport = NoReport  NoTask = NoTask
    PurlOf <- PurlPerRequest
    PackageOf <- SamePackage
    PriorityOf <- NoPriority
    KeyOf <- NoKeys
    Workers = {w1, w2}
    MaxFaults = 0
SPECIFICATION Spec
INVARIANTS OneRunning
