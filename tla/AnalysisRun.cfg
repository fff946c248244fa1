CONSTANTS
    a1 = a1  b1 = b1  na = na  nb = nb
    Packages = {a1, b1}
    Names = {na, nb}
    NameOf <- NameOfVersion
    EcosystemOf <- Ecosystems
    NoArchive = {}
    Configs <- AllConfigs
    None = None
    Garbled = Garbled
    MaxRuns = 2
    MaxFaults = 2
SPECIFICATION FairSpec
INVARIANTS OwnResults PhasesInOrder NoLeftovers ArchiveSaved
PROPERTIES EventuallyAnswered
CHECK_DEADLOCK FALSE
