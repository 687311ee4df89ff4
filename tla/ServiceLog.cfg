\* Two overlapping calls and the changelog, with failures, crashes and fairness.
SPECIFICATION ServiceSpec
CONSTANTS
    Users = {u1, u2}
    DomainIDs = {d1}
    PackageIDs = {p1}
    FQDNs = {f1}
    Names = {f1}
    Canonical <- PlainCanonical
    Paths <- ServicePaths
    PathNames <- ServicePathNames
    CanonicalPath <- TrimmedPath
    Repos = {good}
    ValidRepos = {good}
    Flags = {"CertificateIgnoreMissing"}
    Nil = Nil
    Unset = Unset
    Calls = {c1, c2}
    MaxCommits = 3
    MaxClock = 2
    Suffixes = {0, 1}
INVARIANTS
    ReturnedCallsAreLogged
    RecordsFaithful
    RecordsInRealTimeOrder
PROPERTIES
    CallsReturn
    ChangesAttributed
    SilentCallsChangeNothing
CHECK_DEADLOCK FALSE
