SPECIFICATION Spec
CONSTANTS
    z1 = z1
    z2 = z2
    z3 = z3
    Zones = {z1, z2, z3}
    TagSets <- MCTagSets
    JobFilters <- MCJobFilters
    PageSize = 1
    MaxChanges = 2
SYMMETRY Symmetry
INVARIANTS
    TypeOK
    SelectionMatches
    StableZonesSelected
