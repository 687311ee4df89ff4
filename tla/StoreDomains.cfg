\* Domains: names, owners and users, no packages.
SPECIFICATION RenamedSpec
CONSTANTS
    Users = {u1, u2, u3}
    DomainIDs = {d1, d2, d3}
    PackageIDs = {}
    FQDNs = {f1, f2}
    f1 = f1
    Shout = Shout
    Blank = Blank
    Names <- MCNames
    Canonical <- MCCanonical
    Paths = {}
    PathNames = {}
    CanonicalPath <- NoCanonicalPath
    Repos = {}
    ValidRepos = {}
    Flags = {}
    Nil = Nil
    Unset = Unset
SYMMETRY Symmetry
INVARIANTS
    FQDNIndexExact
    OwnerIndexExact
    ListingsFaithful
PROPERTIES
    FormerOwnerKeepsAccess
CHECK_DEADLOCK FALSE
