SPECIFICATION Spec
CONSTANTS
    Second = 2
    Bucket = 8
    Starts <- MCStarts
    Window = 8
    Lag = 11
    Delay = 3
    Gaps = {3, 7, 8, 9, 13}
    FirstScrape <- MCFirstScrape
    MaxScrapes = 5
CHECK_DEADLOCK FALSE
INVARIANTS
    TypeOK
    NoBucketSkipped
    NoBucketCountedTwice
    BucketsComplete
