SPECIFICATION Spec
CONSTANTS
    z1 = z1
    z2 = z2
    other = other
    InScope = {z1, z2}
    Datasets = {"errors", "waf", "dns"}
    Groups <- MCGroups
    QueryLimit = 3
    MaxGroups = 4
INVARIANTS
    TypeOK
    UndercountIsFlagged
    BreakdownsAgree
    OriginSideSound
    DnsRowsAccounted
