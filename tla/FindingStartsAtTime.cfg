\* A page of the changelog that is asked for by time.
SPECIFICATION ChangelogSpec
CONSTANTS
    LastDate = 2
    PerDay = 2
    PageLimit = 2
INVARIANTS
    StartsAtTime
CHECK_DEADLOCK FALSE
