SPECIFICATION Spec
CONSTANTS
    a1 = a1
    a2 = a2
    a3 = a3
    z1 = z1
    z2 = z2
    z3 = z3
    internal = internal
    Accounts = {a1}
    Zones = {z1, z2}
    NumJobs = 2
    JobName <- OverlapNames
    JobAccounts <- GroupsAccounts
    Filtered <- OverlapFiltered
    Enabled <- OverlapEnabled
    AccountConcurrency = 1
    QueryLimit = 3
    MaxAccounts = 1
    AccountLists <- GroupsLists
    ZoneLists <- GroupsZoneLists
    TagAnswers <- GroupsTags
    HttpZones = {z1}
    DNSRows <- DriftingRows
INVARIANTS
    UnmatchedCountedOnce
