\* Sessions, API keys, notifications, LDAP logins; and certificates: orders of
\* a handshake, a renewal and a new domain, with crashes.
SPECIFICATION ServicesSpec
CONSTANTS
    SessionIDs = {s1, s2, s3}
    SessionUsers = {u1}
    RememberMe = 2
    DefaultLifetime = 1
    Reuse = 2
    LastSecond = 3
    NoOne = NoOne
    Refs = {u1, u2}
    Secrets = {c1, c2, c3}
    Addresses = {a1, a2}
    Proxies = {a2}
    NoKeyRef = NoKeyRef
    Calls = {m1, m2}
    Recipients = {a1}
    MarkDays = 1
    LastDay = 3
    Logins = {p1, p2}
    MaxConnections = 2
    MaxRestarts = 2
    Nobody = Nobody
    Sites = {site}
    PackageDomains = {domain}
    Handshakes = {h1}
    Renewals = {w1}
    Setups = {g1}
    TTL = 1
    MissTTL = 0
    Validity = 1
    RenewPeriod = 0
    MaxVersions = 2
    LastTime = 2
    None = None
INVARIANTS
    KeyIndexExact
    MarksTellTheTruth
    ExpiryIndexExact
    LoneOrdersUndisturbed
    StaleForTTLOnly
    IgnoringAttended
PROPERTIES
    LoginsLostToStaleKeysOnly
    GrantedAddressesOnly
    LoginsReturn
    BrokenConnectionsGo
    MarksGo
    SetupsEnd
CHECK_DEADLOCK FALSE
