CONSTANTS
    Events <- SmallEvents
    Profile <- SmallProfile
    Sites = {"https://github.com/", "https://pypi.org/"}
    Identities = {"workstation-07", "devbox-12"}
    LinuxFiles <- SmallFiles
    HomeFiles = {".bash_history"}
    Now = 3  Micro = 2  ChromeOffset = 7
    None = None
    MaxFailures = 1
    Calls = {c1, c2}
    Shapes <- SmallShapes
    NoShape = NoShape
    MaxLosses = 1  MaxFaults = 1
SPECIFICATION FairSpec
CHECK_DEADLOCK FALSE
INVARIANTS HistoryWhole ArtifactsWhole ServedIsTraced
PROPERTIES SampleServed
