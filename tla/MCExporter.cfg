SPECIFICATION FairSpec
CONSTANTS
    absent = absent
    Absent = absent
    Invocations <- MCInvocations
    MaxScrapes = 2
    Unit = 5
INVARIANTS
    TypeOK
    ExitMatchesCause
    ServesSoundConfig
    GraceHonoured
PROPERTIES
    ResponseTruthful
    FlushHeadroom
    StopsForGood
