SPECIFICATION Spec
CONSTANTS
    a1 = a1
    a2 = a2
    a3 = a3
    Accounts = {a1, a2, a3}
    AllAccounts <- MCAllAccounts
    JobAccounts <- MCJobAccounts
    Filtered <- MCFiltered
    Enabled <- MCEnabled
    Settings <- MCSettings
    SlowCalls <- MCSlowCalls
    Quick = 1
    ClientTimeout = 4
    RestTimeout = 6
INVARIANTS
    TypeOK
    ScrapeBounded
    SlowCallOverlaps
    FailsOnlyForItsOwn
