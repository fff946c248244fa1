SPECIFICATION AnalyzersSpec
CONSTANTS
    t1 = t1
    t2 = t2
    t3 = t3
    a1 = a1
    a2 = a2
    Commits = {1, 2, 3}
    FirstParent <- MCFirstParent
    Files = {"py", "txt"}
    Processable = {"py"}
    Contents = {"a", "b"}
    Absent = "absent"
    Histories <- MCHistories
    Releases = {"whl", "sdist", "rpm"}
    NoRelease = "norelease"
    Supported = {"whl", "sdist"}
    Packings <- MCPackings
    GitHub = {"github"}
    Metadata <- MCMetadata
    Risk <- MCRisk
    CacheFolder = TRUE
    KeepTemp = FALSE
    MaxAnalyses = 2
    Targets = {1, 2, 3}
    Named = {2}
    Matching = {1}
    ExcludedPaths = {}
    Stdin = 3
    Trees <- MCTrees
    ConfigFaults = {}
    TestIds = {"B307", "B401", "B411"}
    Blacklisted = {"B401", "B411"}
    BanditProfiles <- MCBanditProfiles
    TestOf <- MCTestOf
    SeverityOf <- MCSeverityOf
    MinSeverity = 2
    NoIssue = "noissue"
    IgnoreNosec = FALSE
    BanditDebug = FALSE
    ExitZero = FALSE
    Links <- MCLinks
    Redirect <- MCRedirect
    Depth <- MCDepth
    NoLink = "none"
    Prefix <- MCPrefix
    Docs = {"docs1", "docs2"}
    Packages <- MCPackages
    Fit <- MCFit
    PyModules <- MCPyModules
    Unimportable = {"m3"}
    MembersOf <- MCMembersOf
    ModuleOf <- MCModuleOf
    MethodsOf <- MCMethodsOf
    Returns <- MCReturns
    NoneType = "NoneType"
    Unbindable = {"g"}
    Stubborn = {"h"}
    NoCall = "nocall"
    Threads = {t1, t2, t3}
    Processes = {"p1", "p2"}
    ProcessOf <- MCProcessOf
    Archives = {a1, a2}
    NoArchive = noarchive
    Namespaces = {"npm"}
    MaxRequests = 3
    Readers = {"r1", "r2"}
    WebProcesses = {"p1", "p2"}
    ReaderIn <- MCReaderIn
    MaxLookups = 3
SYMMETRY Alike
INVARIANTS
    PhantomsAreReal
    BanditAccounts
    BaselineReportsNew
    URLPlurality
    ExploredOnce
    AlarmIsCleared
    OwnBanditReport
    ListsWhole
CHECK_DEADLOCK FALSE
