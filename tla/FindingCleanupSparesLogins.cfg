\* The cleanup of sessions deletes with a key that it does not own any more.
SPECIFICATION SessionsSpec
CONSTANTS
    SessionIDs = {s1, s2, s3}
    SessionUsers = {u1}
    RememberMe = 2
    DefaultLifetime = 1
    Reuse = 2
    LastSecond = 3
    NoOne = NoOne
PROPERTY
    CleanupSparesLogins
CHECK_DEADLOCK FALSE
