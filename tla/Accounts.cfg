\* Accounts: registration, addresses, passwords, sessions, deletion.
SPECIFICATION AccountsSpec
CONSTANTS
    UserIDs = {u1, u2}
    Emails = {e1, e2}
    Spellings = {e1, e2, e1spaced, e2spaced}
    e1 = e1
    e2 = e2
    e1spaced = e1spaced
    e2spaced = e2spaced
    Trim <- SpacesTrimmed
    Usernames = {n1, u1, u2}
    Passwords = {p1, p2}
    Tokens = {t1, t2, t3}
    UsernameRequired = FALSE
    NoReuse = 0
    ResetTime = 0
    Deadlines = {0}
    MaxTime = 2
    Nil = Nil
    Sessions = {s1, s2}
    Domains = {d1}
    Requests = {r1, r2}
    LoggedOut = LoggedOut
CONSTRAINT Bound
SYMMETRY Symmetry
INVARIANTS
    NameIndexesExact
    RequestedAddressReserved
    TokensWorkOnce
    LastPasswordAuthenticates
    OrphansNeedOverlapOrAlias
PROPERTIES
    AddressConfirmed
CHECK_DEADLOCK FALSE
