\* Git references, package forms, pages about domains, changelog pages, domain handlers.
SPECIFICATION ServerSpec
CONSTANTS
    Branches = {"b"}
    Tags = {"t"}
    Hashes = {"x", "y", "z"}
    Absent = Absent
    LastDomain = 4
    PageSize = 2
    Domains = {d1, d2}
    NoEntry = NoEntry
    LastDate = 4
    PerDay = 2
    PageLimit = 3
    DomainIds = {d1, d2}
    Names = {f, g, t}
    Trusted = {t}
    Persons = {u1, u2}
    Requests = {q1, q2}
    New = New
    None = None
INVARIANTS
    RewrittenTruly
    SentToSelfIsServed
    PagesExact
    ChangelogReadsAsOneList
    EveryNameVerified
SYMMETRY Interchangeable
CHECK_DEADLOCK FALSE
