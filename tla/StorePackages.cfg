\* Packages of two domains with two users, two of them on nested paths.
SPECIFICATION Spec
CONSTANTS
    Users = {u1, u2}
    DomainIDs = {d1, d2}
    PackageIDs = {p1, p2}
    FQDNs = {f1, f2}
    f1 = f1
    Shout = Shout
    Blank = Blank
    Names = {f1, f2}
    Canonical <- PlainCanonical
    Paths <- SpacedPaths
    PathNames <- SpacedPathNames
    CanonicalPath <- SpacedCanonicalPath
    Repos = {good, bad}
    ValidRepos = {good}
    Flags = {}
    Nil = Nil
    Unset = Unset
CONSTRAINT Bound
SYMMETRY Symmetry
INVARIANTS
    PathIndexExact
    PackageDomainIndexExact
    NoOrphanPackages
    ResolutionExact
PROPERTIES
    MovesNeedCommonUser
    CascadeExact
    ImplementsRegistry
CHECK_DEADLOCK FALSE
