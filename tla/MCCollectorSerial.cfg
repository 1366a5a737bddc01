SPECIFICATION FairSpec
CONSTANTS
    a1 = a1
    a2 = a2
    a3 = a3
    z1 = z1
    z2 = z2
    z3 = z3
    internal = internal
    Accounts = {a1, a2, a3}
    Zones <- MCZones
    NumJobs = 2
    JobName <- OverlapNames
    JobAccounts <- SerialAccounts
    Filtered <- OverlapFiltered
    Enabled <- SerialEnabled
    AccountConcurrency = 0
    QueryLimit = 2
    MaxAccounts = 3
    AccountLists <- SerialLists
    ZoneLists <- SerialZoneLists
    TagAnswers <- SerialTags
    HttpZones = {z1, z2}
    DNSRows <- SerialRows
INVARIANTS
    SuccessMeansPublished
    ConcurrencyBound
PROPERTIES
    SerialFailFast
    Termination
