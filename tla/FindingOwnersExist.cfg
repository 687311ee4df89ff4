\* Two requests: an account is deleted while a domain is given to it.
SPECIFICATION AccountsSpec
CONSTANTS
    UserIDs = {u1, u2}
    Emails = {e1, e2}
    Spellings = {e1, e2}
    e1 = e1
    e2 = e2
    e1spaced = e1spaced
    e2spaced = e2spaced
    Trim <- SpacesTrimmed
    Usernames = {}
    Passwords = {p1}
    Tokens = {t1, t2}
    UsernameRequired = FALSE
    NoReuse = 0
    ResetTime = 0
    Deadlines = {0}
    MaxTime = 1
    Nil = Nil
    Sessions = {s1, s2}
    Domains = {d1}
    Requests = {r1, r2}
    LoggedOut = LoggedOut
INVARIANT
    OwnersExist
CHECK_DEADLOCK FALSE
