SPECIFICATION Spec
CONSTANTS
    a1 = a1
    a2 = a2
    a3 = a3
    z1 = z1
    z2 = z2
    z3 = z3
    internal = internal
    Accounts <- MCAccounts
    Zones <- MCZones
    NumJobs = 2
    JobName <- SameNames
    JobAccounts <- OverlapAccounts
    Filtered <- OverlapFiltered
    Enabled <- OverlapEnabled
    AccountConcurrency = 2
    QueryLimit = 2
    MaxAccounts = 3
    AccountLists <- MCAccountLists
    ZoneLists <- MCZoneLists
    TagAnswers <- MCTagAnswers
    HttpZones <- MCHttpZones
    DNSRows <- MCDNSRows
INVARIANTS
    JobSuccessTruthful
