SPECIFICATION Spec
CONSTANTS
    Users = {u1, u2}
    DomainIDs = {d1, d2}
    PackageIDs = {p1}
    FQDNs = {f1, f2}
    f1 = f1
    Shout = Shout
    Blank = Blank
    Names = {f1, f2}
    Canonical <- PlainCanonical
    Paths <- OnePath
    PathNames <- OnePath
    CanonicalPath <- OneCanonicalPath
    Repos = {good}
    ValidRepos = {good}
    Flags = {"Disabled"}
    Nil = Nil
    Unset = Unset
INVARIANT
    ListingSound
CHECK_DEADLOCK FALSE
