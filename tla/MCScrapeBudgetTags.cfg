SPECIFICATION Spec
CONSTANTS
    a1 = a1
    a2 = a2
    a3 = a3
    Accounts = {a1, a2, a3}
    AllAccounts <- MCAllAccounts
    JobAccounts <- TagsAccounts
    Filtered <- TagsFiltered
    Enabled <- TagsEnabled
    Settings <- TagsSettings
    SlowCalls <- TagsSlow
    Quick = 1
    ClientTimeout = 30
    RestTimeout = 90
INVARIANTS
    TagsAreDecoration
