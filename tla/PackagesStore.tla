--------------------------- MODULE PackagesStore ---------------------------
(***************************************************************************)
(* The database half of the packages service                               *)
(* (services/packages/bolt: service.go, domain.go, package.go): domains,   *)
(* their owners and users, packages, and the index buckets kept beside     *)
(* them.  Every mutating method of the service runs in one read-write      *)
(* transaction of BoltDB (s.DB.Update), which is serialised and atomic, so *)
(* each method is one action here; a transaction that returns an error is  *)
(* rolled back, so an error return is a guard that does not hold.          *)
(*                                                                         *)
(* A bucket is a total function from the possible keys to the stored value *)
(* with Nil for a key that is not there, and a bucket of buckets is a      *)
(* function to such functions.  What follows the commit, the changelog, is *)
(* in PackagesService.                                                     *)
(***************************************************************************)
EXTENDS Naturals, Sequences

CONSTANTS
    Users,          \* user ids
    DomainIDs,      \* ids that newDomainID may draw
    PackageIDs,     \* ids that newPackageID may draw
    FQDNs,          \* domain names as they are stored
    Names,          \* domain names as a caller may spell them
    Canonical,      \* [Names -> FQDNs or Nil]: what save makes of a spelling
    Paths,          \* package paths as they are stored, split at the slashes
    PathNames,      \* package paths as a caller may spell them, split too
    CanonicalPath,  \* [PathNames -> Paths or Nil]
    Repos,          \* vcs, repository root and reference of a package record
    ValidRepos,     \* those that packageRecord.save accepts
    Flags,          \* the boolean fields that callers set
    Nil,            \* the empty string, and a key that is not in a bucket
    Unset           \* a nil pointer in an options structure: leave it alone

(***************************************************************************)
(* The empty string is no identifier, name or path, an id is no name, and  *)
(* a user is never called like a domain (user ids are 26 characters of     *)
(* base32 without a dot).  A stored name is its own canonical form: lower- *)
(* casing and trimming twice changes nothing.  A stored path need not be:  *)
(* save trims spaces first and slashes next, so that "/a /" is stored with *)
(* a space at its end, which the next save of the record drops.            *)
(***************************************************************************)
ASSUME ConstantsAssumption ==
    /\ Nil \notin Users \cup DomainIDs \cup PackageIDs \cup FQDNs
                    \cup Paths \cup Repos \cup Names \cup PathNames
    /\ Unset \notin Users \cup DomainIDs \cup FQDNs \cup Repos
                      \cup Names \cup PathNames \cup {Nil}
    /\ FQDNs \cap Users = {}
    /\ FQDNs \cap DomainIDs = {}
    /\ FQDNs \subseteq Names
    /\ Canonical \in [Names -> FQDNs \cup {Nil}]
    /\ \A f \in FQDNs : Canonical[f] = f
    /\ Paths \subseteq PathNames
    /\ CanonicalPath \in [PathNames -> Paths \cup {Nil}]
    /\ ValidRepos \subseteq Repos
    /\ Flags \subseteq
           {"CertificateIgnore", "Disabled", "CertificateIgnoreMissing"}

(***************************************************************************)
(* A stored path has at least one part: save refuses the empty path.       *)
(***************************************************************************)
ASSUME PathsAssumption == Paths \subseteq Seq(STRING) \ {<<>>}

VARIABLES
    domains,            \* Domains: domain id -> record
    indexFQDN,          \* Index_FQDN_DomainID
    indexOwner,         \* Index_OwnerUserID_FQDN_DomainID
    indexUser,          \* Index_UserID_FQDN_DomainID
    domainUsers,        \* Index_DomainID_UserID_1: the keys of each bucket
    indexDisabled,      \* Index_Disabled_DomainID_1
    packages,           \* Packages: package id -> record
    indexPackageDomain, \* Index_PackageID_DomainID
    indexPath,          \* Index_DomainID_Path_PackageID
    issued              \* the ids drawn so far

domainVars == <<domains, indexFQDN, indexOwner, indexUser, domainUsers,
                indexDisabled>>
packageVars == <<packages, indexPackageDomain, indexPath>>
vars == <<domainVars, packageVars, issued>>

----------------------------------------------------------------------------
(***************************************************************************)
(* Records.  An id that is not in the bucket maps to the zero value of the *)
(* Go structure, which is also what save compares a new record with.       *)
(***************************************************************************)
DomainRecord == [fqdn  : FQDNs \cup {Nil},
                 owner : Users \cup {Nil},
                 flags : SUBSET Flags]

PackageRecord == [domain   : DomainIDs \cup {Nil},
                  path     : Paths \cup {Nil},
                  repo     : Repos \cup {Nil},
                  disabled : BOOLEAN]

NoDomain == [fqdn |-> Nil, owner |-> Nil, flags |-> {}]
NoPackage == [domain |-> Nil, path |-> Nil, repo |-> Nil, disabled |-> FALSE]

DomainExists(id) == domains[id].fqdn # Nil
PackageExists(pid) == packages[pid].domain # Nil

\* What a caller may send: every field is optional.
DomainOptions == [fqdn  : Names \cup {Unset},
                  owner : Users \cup {Nil, Unset},
                  on    : SUBSET Flags,
                  off   : SUBSET Flags]

\* A reference to a domain is an id or a name.
Refs == DomainIDs \cup FQDNs

PackageOptions == [domain   : Refs \cup {Nil, Unset},
                   path     : PathNames \cup {Unset},
                   repo     : Repos \cup {Unset},
                   disabled : {b \in BOOLEAN : "Disabled" \in Flags} \cup {Unset}]

Init ==
    /\ domains = [id \in DomainIDs |-> NoDomain]
    /\ indexFQDN = [f \in FQDNs |-> Nil]
    /\ indexOwner = [u \in Users |-> [f \in FQDNs |-> Nil]]
    /\ indexUser = [u \in Users |-> [f \in FQDNs |-> Nil]]
    /\ domainUsers = [id \in DomainIDs |-> {}]
    /\ indexDisabled = [bucket |-> FALSE, ids |-> {}]
    /\ packages = [pid \in PackageIDs |-> NoPackage]
    /\ indexPackageDomain = [pid \in PackageIDs |-> Nil]
    /\ indexPath = [id \in DomainIDs |-> [q \in Paths |-> Nil]]
    /\ issued = {}

----------------------------------------------------------------------------
(***************************************************************************)
(* Buckets of buckets: boltutils.BoltDeepPut creates what is missing, and  *)
(* BoltDeepDelete of a missing key does nothing.                           *)
(***************************************************************************)
Put(index, k, l, v) == [index EXCEPT ![k][l] = v]

Drop(index, k, l) ==
    IF k = Nil \/ l = Nil THEN index ELSE [index EXCEPT ![k][l] = Nil]

\* getDomainRecord: by id, else through the FQDN index.
Lookup(ref) ==
    IF ref \in DomainIDs
    THEN IF DomainExists(ref) THEN ref ELSE Nil
    ELSE LET id == indexFQDN[ref]
         IN  IF id # Nil /\ DomainExists(id) THEN id ELSE Nil

IsOwner(id, u) == domains[id].owner = u
IsUser(id, u) == IsOwner(id, u) \/ u \in domainUsers[id]

----------------------------------------------------------------------------
\* domainRecord.update, with the normalisation that save begins with.
UpdatedDomain(d, o) ==
    [fqdn  |-> IF o.fqdn = Unset THEN d.fqdn ELSE Canonical[o.fqdn],
     owner |-> IF o.owner = Unset THEN d.owner ELSE o.owner,
     flags |-> (d.flags \cup o.on) \ o.off]

(***************************************************************************)
(* The parts of domainRecord.save: e is the stored record, d the new one.  *)
(***************************************************************************)
\* Mutant: no check that the name is free.
ValidDomainTaken(id, d) == d.fqdn # Nil /\ d.owner # Nil

ValidDomain(id, d) ==
    /\ d.fqdn # Nil
    /\ d.owner # Nil
    /\ indexFQDN[d.fqdn] \in {Nil, id}

RenamedFQDN(id, e, d) ==
    [f \in FQDNs |-> IF d.fqdn = e.fqdn THEN indexFQDN[f]
                     ELSE IF f = d.fqdn THEN id
                     ELSE IF f = e.fqdn THEN Nil
                     ELSE indexFQDN[f]]

\* Mutant: a rename does not touch the owner's entries.
ReindexedOnTransfer(index, id, e, d) ==
    IF d.owner = e.owner THEN index
    ELSE Put(Drop(index, e.owner, e.fqdn), d.owner, d.fqdn, id)

\* The indexes of owners and of users by name, for the owner.
Reindexed(index, id, e, d) ==
    IF d.owner = e.owner /\ d.fqdn = e.fqdn THEN index
    ELSE Put(Drop(index, e.owner, e.fqdn), d.owner, d.fqdn, id)

(***************************************************************************)
(* The "combined UserID FQDN index" part of save on a rename.  For every   *)
(* user of the domain that has a bucket in Index_UserID_FQDN_DomainID, the *)
(* code deletes the old name from and puts the new one into b0, which is   *)
(* the domain's own bucket of user ids, not the user's bucket.  (A user of *)
(* a domain has a bucket there since addUser; a name never has.)           *)
(***************************************************************************)
RenamedTeam(team, e, d) ==
    IF d.fqdn # e.fqdn /\ team \cap Users # {}
    THEN (team \ {e.fqdn}) \cup {d.fqdn} ELSE team

\* addUser of the previous owner, without the check that he is none already.
Transferred(e, d) == e.owner # Nil /\ d.owner # e.owner

\* Mutants: the previous owner is left out of the team, or of the listing.
FormerOwnerDropped(team, e, d) == team
FormerOwnerUnlisted(index, id, e, d) == index

FormerOwnerAdded(team, e, d) ==
    IF Transferred(e, d) THEN team \cup {e.owner} ELSE team

FormerOwnerListed(index, id, e, d) ==
    IF Transferred(e, d) THEN Put(index, e.owner, d.fqdn, id) ELSE index

\* No code creates the bucket; the writes are skipped without it.
DisabledIndexed(id, e, d) ==
    IF ~indexDisabled.bucket THEN indexDisabled
    ELSE [indexDisabled EXCEPT !.ids =
              IF "Disabled" \in d.flags \ e.flags THEN @ \cup {id}
              ELSE IF "Disabled" \in e.flags \ d.flags THEN @ \ {id} ELSE @]

\* domainRecord.save of record d under id.
SaveDomain(id, d) ==
    LET e == domains[id]
    IN  /\ ValidDomain(id, d)
        /\ indexFQDN' = RenamedFQDN(id, e, d)
        /\ indexOwner' = Reindexed(indexOwner, id, e, d)
        /\ indexUser' = FormerOwnerListed(Reindexed(indexUser, id, e, d), id, e, d)
        /\ domainUsers' = [domainUsers EXCEPT ![id] =
                               FormerOwnerAdded(RenamedTeam(@, e, d), e, d)]
        /\ indexDisabled' = DisabledIndexed(id, e, d)
        /\ domains' = [domains EXCEPT ![id] = d]

\* Service.AddDomain.  No permission is needed to add a domain.
AddDomain(id, o) ==
    /\ id \notin issued
    /\ issued' = issued \cup {id}
    /\ SaveDomain(id, UpdatedDomain(NoDomain, o))
    /\ UNCHANGED packageVars

\* Service.UpdateDomain
UpdateDomain(ref, o, by) ==
    LET id == Lookup(ref)
    IN  /\ id # Nil
        /\ IsOwner(id, by)
        /\ SaveDomain(id, UpdatedDomain(domains[id], o))
        /\ UNCHANGED <<packageVars, issued>>

----------------------------------------------------------------------------
(***************************************************************************)
(* domainRecord.delete.  The packages are found through the path index and *)
(* each is deleted with its own record's domain and path.                  *)
(***************************************************************************)
\* Mutants: the cursor stops after one package, or walks every bucket.
PackagesOfFirst(id) ==
    {pid \in PackageIDs : \E q \in Paths : /\ indexPath[id][q] = pid
                                           /\ q = CHOOSE r \in Paths : indexPath[id][r] # Nil}
PackagesOfAll(id) == {indexPath[i][q] : i \in DomainIDs, q \in Paths} \ {Nil}

PackagesOf(id) == {indexPath[id][q] : q \in Paths} \ {Nil}

\* Mutant: the package-to-domain index is forgotten.
RemovePackagesKeepDomain(pids) ==
    /\ packages' = [pid \in PackageIDs |->
                        IF pid \in pids THEN NoPackage ELSE packages[pid]]
    /\ indexPath' = [i \in DomainIDs |-> [q \in Paths |->
                        IF indexPath[i][q] \in pids THEN Nil ELSE indexPath[i][q]]]
    /\ UNCHANGED indexPackageDomain

RemovePackages(pids) ==
    /\ packages' = [pid \in PackageIDs |->
                        IF pid \in pids THEN NoPackage ELSE packages[pid]]
    /\ indexPackageDomain' = [pid \in PackageIDs |->
                        IF pid \in pids THEN Nil ELSE indexPackageDomain[pid]]
    /\ indexPath' = [i \in DomainIDs |-> [q \in Paths |->
                        IF \E pid \in pids : /\ packages[pid].domain = i
                                             /\ packages[pid].path = q
                        THEN Nil ELSE indexPath[i][q]]]

\* The users of the domain, and its owner, no longer list it.
ForgetUsers(id) ==
    /\ indexUser' = [u \in Users |-> [f \in FQDNs |->
                        IF IsUser(id, u) /\ f = domains[id].fqdn THEN Nil
                        ELSE indexUser[u][f]]]
    /\ domainUsers' = [domainUsers EXCEPT ![id] = {}]

\* Service.DeleteDomain
DeleteDomain(ref, by) ==
    LET id == Lookup(ref)
        d == domains[id]
    IN  /\ id # Nil
        /\ IsOwner(id, by)
        /\ \A pid \in PackagesOf(id) : PackageExists(pid)
        /\ indexFQDN' = [indexFQDN EXCEPT ![d.fqdn] = Nil]
        /\ indexOwner' = Drop(indexOwner, d.owner, d.fqdn)
        /\ ForgetUsers(id)
        /\ indexDisabled' = [indexDisabled EXCEPT !.ids = @ \ {id}]
        /\ RemovePackages(PackagesOf(id))
        /\ domains' = [domains EXCEPT ![id] = NoDomain]
        /\ UNCHANGED issued

\* Service.AddUserToDomain and domainRecord.addUser with checkExists
AddUserToDomain(ref, u, by) ==
    LET id == Lookup(ref)
    IN  /\ id # Nil
        /\ IsOwner(id, by)
        /\ u # by
        /\ u \notin domainUsers[id]
        /\ domainUsers' = [domainUsers EXCEPT ![id] = @ \cup {u}]
        /\ indexUser' = Put(indexUser, u, domains[id].fqdn, id)
        /\ UNCHANGED <<domains, indexFQDN, indexOwner, indexDisabled,
                       packageVars, issued>>

\* Mutant: any user of the domain may remove one.
RemoveUserFromDomainByUser(ref, u, by) ==
    LET id == Lookup(ref)
    IN  /\ id # Nil
        /\ IsUser(id, by)
        /\ u \in domainUsers[id]
        /\ domainUsers' = [domainUsers EXCEPT ![id] = @ \ {u}]
        /\ indexUser' = Drop(indexUser, u, domains[id].fqdn)
        /\ UNCHANGED <<domains, indexFQDN, indexOwner, indexDisabled,
                       packageVars, issued>>

\* Service.RemoveUserFromDomain and domainRecord.removeUser
RemoveUserFromDomain(ref, u, by) ==
    LET id == Lookup(ref)
    IN  /\ id # Nil
        /\ IsOwner(id, by)
        /\ u \in domainUsers[id]
        /\ domainUsers' = [domainUsers EXCEPT ![id] = @ \ {u}]
        /\ indexUser' = Drop(indexUser, u, domains[id].fqdn)
        /\ UNCHANGED <<domains, indexFQDN, indexOwner, indexDisabled,
                       packageVars, issued>>

----------------------------------------------------------------------------
(***************************************************************************)
(* packageRecord.update, with the normalisation that save begins with.     *)
(* A reference that names no domain is an error (DomainResolves).          *)
(***************************************************************************)
DomainResolves(o) == o.domain \notin {Nil, Unset} => Lookup(o.domain) # Nil

NormalPath(q) == IF q = Nil THEN Nil ELSE CanonicalPath[q]

UpdatedPackage(p, o) ==
    [domain   |-> IF o.domain = Unset THEN p.domain
                  ELSE IF o.domain = Nil THEN Nil ELSE Lookup(o.domain),
     path     |-> NormalPath(IF o.path = Unset THEN p.path ELSE o.path),
     repo     |-> IF o.repo = Unset THEN p.repo ELSE o.repo,
     disabled |-> IF o.disabled = Unset THEN p.disabled ELSE o.disabled]

\* Mutant: the path may be taken.
ValidPackageTaken(pid, p) ==
    p.domain # Nil /\ p.path # Nil /\ p.repo \in ValidRepos

\* What packageRecord.save requires of record p under pid.
ValidPackage(pid, p) ==
    /\ p.domain # Nil
    /\ p.path # Nil
    /\ p.repo \in ValidRepos
    /\ indexPath[p.domain][p.path] \in {Nil, pid}

Relocated(pid, e, p) ==
    IF p.domain = e.domain /\ p.path = e.path THEN indexPath
    ELSE Put(Drop(indexPath, e.domain, e.path), p.domain, p.path, pid)

\* packageRecord.save of record p under pid.
SavePackage(pid, p) ==
    /\ ValidPackage(pid, p)
    /\ indexPackageDomain' = [indexPackageDomain EXCEPT ![pid] =
           IF p.domain # packages[pid].domain THEN p.domain ELSE @]
    /\ indexPath' = Relocated(pid, packages[pid], p)
    /\ packages' = [packages EXCEPT ![pid] = p]

\* Service.AddPackage
AddPackage(pid, o, by) ==
    /\ o.domain \notin {Nil, Unset}
    /\ DomainResolves(o)
    /\ IsUser(Lookup(o.domain), by)
    /\ pid \notin issued
    /\ issued' = issued \cup {pid}
    /\ SavePackage(pid, UpdatedPackage(NoPackage, o))
    /\ UNCHANGED domainVars

\* Mutant: access to the new domain is not checked.
UpdatePackageUnchecked(pid, o, by) ==
    LET p == UpdatedPackage(packages[pid], o)
    IN  /\ PackageExists(pid)
        /\ IsUser(packages[pid].domain, by)
        /\ DomainResolves(o)
        /\ SavePackage(pid, p)
        /\ UNCHANGED <<domainVars, issued>>

\* Service.UpdatePackage: access to the old and to the new domain is needed.
UpdatePackage(pid, o, by) ==
    LET p == UpdatedPackage(packages[pid], o)
    IN  /\ PackageExists(pid)
        /\ DomainExists(packages[pid].domain)
        /\ IsUser(packages[pid].domain, by)
        /\ DomainResolves(o)
        /\ p.domain # Nil
        /\ DomainExists(p.domain)
        /\ IsUser(p.domain, by)
        /\ SavePackage(pid, p)
        /\ UNCHANGED <<domainVars, issued>>

\* Service.DeletePackage
DeletePackage(pid, by) ==
    /\ PackageExists(pid)
    /\ DomainExists(packages[pid].domain)
    /\ IsUser(packages[pid].domain, by)
    /\ RemovePackages({pid})
    /\ UNCHANGED <<domainVars, issued>>

----------------------------------------------------------------------------
Next ==
    \/ \E id \in DomainIDs, o \in DomainOptions : AddDomain(id, o)
    \/ \E ref \in Refs, o \in DomainOptions, by \in Users :
           UpdateDomain(ref, o, by)
    \/ \E ref \in Refs, by \in Users : DeleteDomain(ref, by)
    \/ \E ref \in Refs, u, by \in Users : AddUserToDomain(ref, u, by)
    \/ \E ref \in Refs, u, by \in Users : RemoveUserFromDomain(ref, u, by)
    \/ \E pid \in PackageIDs, o \in PackageOptions, by \in Users :
           AddPackage(pid, o, by)
    \/ \E pid \in PackageIDs, o \in PackageOptions, by \in Users :
           UpdatePackage(pid, o, by)
    \/ \E pid \in PackageIDs, by \in Users : DeletePackage(pid, by)

Spec == Init /\ [][Next]_vars

----------------------------------------------------------------------------
(***************************************************************************)
(* Reading: Service.ResolvePackage, DomainUsers and domainsByUser.         *)
(***************************************************************************)
\* The stored prefixes of a requested path, as lengths (getPackageIDByPath).
StoredPrefixes(id, q) ==
    {n \in 1..Len(q) : /\ SubSeq(q, 1, n) \in Paths
                       /\ indexPath[id][SubSeq(q, 1, n)] # Nil}

\* Mutant: the shortest stored prefix is taken.
ResolvedIDShortest(f, q) ==
    LET id == indexFQDN[f]
    IN  IF id = Nil \/ StoredPrefixes(id, q) = {} THEN Nil
        ELSE LET n == CHOOSE n \in StoredPrefixes(id, q) :
                          \A m \in StoredPrefixes(id, q) : n <= m
             IN  indexPath[id][SubSeq(q, 1, n)]

\* The longest stored prefix is taken: the loop goes from the full path down.
ResolvedID(f, q) ==
    LET id == indexFQDN[f]
    IN  IF id = Nil \/ StoredPrefixes(id, q) = {} THEN Nil
        ELSE LET n == CHOOSE n \in StoredPrefixes(id, q) :
                          \A m \in StoredPrefixes(id, q) : m <= n
             IN  indexPath[id][SubSeq(q, 1, n)]

\* packageResolverHandler answers "not found" to a disabled resolution.
Resolves(f, q) ==
    LET pid == ResolvedID(f, q)
        disabled == IF indexFQDN[f] \in indexDisabled.ids THEN TRUE
                    ELSE packages[pid].disabled
    IN  pid # Nil /\ PackageExists(pid) /\ ~disabled

\* The user ids DomainUsers answers, the owner left out.
ReportedUsers(id) == domainUsers[id] \ {domains[id].owner}

\* The domain ids that domainsByUser walks for a user.
Listed(index, u) == {index[u][f] : f \in FQDNs} \ {Nil}

----------------------------------------------------------------------------
(***************************************************************************)
(* Properties                                                              *)
(***************************************************************************)

(***************************************************************************)
(* Every bucket holds what its Go type allows.  A domain's bucket of user  *)
(* ids may hold a domain name: see RenamedTeam.                            *)
(***************************************************************************)
TypeOK ==
    /\ domains \in [DomainIDs -> DomainRecord]
    /\ indexFQDN \in [FQDNs -> DomainIDs \cup {Nil}]
    /\ indexOwner \in [Users -> [FQDNs -> DomainIDs \cup {Nil}]]
    /\ indexUser \in [Users -> [FQDNs -> DomainIDs \cup {Nil}]]
    /\ domainUsers \in [DomainIDs -> SUBSET (Users \cup FQDNs)]
    /\ indexDisabled \in [bucket : BOOLEAN, ids : SUBSET DomainIDs]
    /\ packages \in [PackageIDs -> PackageRecord]
    /\ indexPackageDomain \in [PackageIDs -> DomainIDs \cup {Nil}]
    /\ indexPath \in [DomainIDs -> [Paths -> PackageIDs \cup {Nil}]]
    /\ issued \subseteq DomainIDs \cup PackageIDs

(***************************************************************************)
(* A stored record is complete: a domain has a name and an owner, a        *)
(* package has a domain, a path and a repository that save accepts.        *)
(***************************************************************************)
RecordsComplete ==
    /\ \A id \in DomainIDs :
           domains[id] = NoDomain \/ (DomainExists(id) /\ domains[id].owner # Nil)
    /\ \A pid \in PackageIDs :
           \/ packages[pid] = NoPackage
           \/ /\ PackageExists(pid)
              /\ packages[pid].path # Nil
              /\ packages[pid].repo \in ValidRepos

(***************************************************************************)
(* The FQDN index and the domain records agree in both directions: no two  *)
(* domains share a name, no name points to a deleted or renamed domain,    *)
(* whatever sequence of adds, renames, transfers and deletes ran.          *)
(***************************************************************************)
FQDNIndexExact ==
    \A id \in DomainIDs, f \in FQDNs :
        indexFQDN[f] = id <=> domains[id].fqdn = f

(***************************************************************************)
(* DomainsByOwner lists exactly the domains a user owns, under their       *)
(* current names: account deletion relies on it.                           *)
(***************************************************************************)
OwnerIndexExact ==
    \A id \in DomainIDs, u \in Users, f \in FQDNs :
        indexOwner[u][f] = id <=> domains[id].fqdn = f /\ domains[id].owner = u

(***************************************************************************)
(* The path index and the package records agree in both directions: a      *)
(* domain has at most one package at a path, and a package that moved to   *)
(* another path or domain, or was deleted with its domain, left no entry.  *)
(***************************************************************************)
PathIndexExact ==
    \A id \in DomainIDs, q \in Paths, pid \in PackageIDs :
        indexPath[id][q] = pid <=> packages[pid].domain = id /\ packages[pid].path = q

(***************************************************************************)
(* The package-to-domain index and the package records agree.              *)
(***************************************************************************)
PackageDomainIndexExact ==
    \A pid \in PackageIDs : indexPackageDomain[pid] = packages[pid].domain

(***************************************************************************)
(* DeleteDomain takes all packages of the domain with it, those moved in   *)
(* from other domains included, so no package outlives its domain (export  *)
(* and DeletePackage would fail on it with "domain not found").            *)
(***************************************************************************)
NoOrphanPackages ==
    \A pid \in PackageIDs :
        PackageExists(pid) => DomainExists(packages[pid].domain)

(***************************************************************************)
(* A deleted domain leaves no user behind in Index_DomainID_UserID_1, and  *)
(* nothing is stored under an id that was never drawn.                     *)
(***************************************************************************)
NoResidue ==
    /\ \A id \in DomainIDs : ~DomainExists(id) => domainUsers[id] = {}
    /\ \A id \in DomainIDs : DomainExists(id) => id \in issued
    /\ \A pid \in PackageIDs : PackageExists(pid) => pid \in issued

(***************************************************************************)
(* What ResolvePackage finds through the two indexes is what a scan of the *)
(* tables would find: the package of the domain with that name whose path  *)
(* is the longest prefix of the request, and Nil when there is none.       *)
(***************************************************************************)
Matches(pid, f, q) ==
    /\ PackageExists(pid)
    /\ domains[packages[pid].domain].fqdn = f
    /\ LET p == packages[pid].path
       IN  Len(p) <= Len(q) /\ SubSeq(q, 1, Len(p)) = p

ResolutionExact ==
    \A f \in FQDNs, q \in Paths :
        LET pid == ResolvedID(f, q)
        IN  /\ pid # Nil => Matches(pid, f, q)
            /\ \A other \in PackageIDs : Matches(other, f, q) =>
                   /\ pid # Nil
                   /\ Len(packages[other].path) <= Len(packages[pid].path)

(***************************************************************************)
(* A user the API reports as a user of a domain finds it among             *)
(* DomainsByUser under its current name.                                   *)
(***************************************************************************)
UsersListDomain ==
    \A id \in DomainIDs, u \in Users :
        DomainExists(id) /\ u \in domainUsers[id]
            => indexUser[u][domains[id].fqdn] = id

(***************************************************************************)
(* DomainsByUser lists only domains that exist (else domainsByUser fails   *)
(* as a whole) and that the user has access to: the pages of the web       *)
(* interface take the listing for the permission (fe_packages.go:74).      *)
(***************************************************************************)
ListingSound ==
    \A u \in Users : \A id \in Listed(indexUser, u) :
        DomainExists(id) /\ IsUser(id, u)

(***************************************************************************)
(* The users of a domain that DomainUsers reports are users.               *)
(***************************************************************************)
ReportedUsersAreUsers ==
    \A id \in DomainIDs : ReportedUsers(id) \subseteq Users

(***************************************************************************)
(* No package of a disabled domain resolves.                               *)
(***************************************************************************)
DisabledDomainDoesNotResolve ==
    \A id \in DomainIDs, q \in Paths :
        "Disabled" \in domains[id].flags => ~Resolves(domains[id].fqdn, q)

(***************************************************************************)
(* Giving a domain away does not lock the giver out: when a step changes   *)
(* the owner, the previous owner is a user of the domain after it, listed  *)
(* under the name the domain has after it.                                 *)
(***************************************************************************)
FormerOwnerKept ==
    \A id \in DomainIDs :
        (DomainExists(id) /\ DomainExists(id)' /\ domains[id].owner # domains'[id].owner)
        => /\ domains[id].owner \in domainUsers'[id]
           /\ indexUser'[domains[id].owner][domains'[id].fqdn] = id

\* Every step that gives a domain away (domainRecord.save) keeps its giver.
FormerOwnerKeepsAccess == [][FormerOwnerKept]_vars

(***************************************************************************)
(* A package changes its domain only by the hand of someone with access to *)
(* both: with no user in common between two domains, no package moves from *)
(* one to the other.                                                       *)
(***************************************************************************)
MoveAllowed ==
    \A pid \in PackageIDs :
        LET from == packages[pid].domain
            to == packages'[pid].domain
        IN  (from # Nil /\ to # Nil /\ from # to)
            => \E u \in Users : IsUser(from, u) /\ IsUser(to, u)

\* No step of UpdatePackage or any other moves a package without access to both.
MovesNeedCommonUser == [][MoveAllowed]_vars

(***************************************************************************)
(* A package disappears only by itself or with its domain: a step that     *)
(* deletes packages either deletes one, or deletes a domain and exactly    *)
(* that domain's packages.                                                 *)
(***************************************************************************)
Gone == {pid \in PackageIDs : PackageExists(pid) /\ ~PackageExists(pid)'}
Closed == {id \in DomainIDs : DomainExists(id) /\ ~DomainExists(id)'}

Cascade ==
    IF Closed = {} THEN \A p1, p2 \in Gone : p1 = p2
    ELSE Gone = {pid \in PackageIDs : packages[pid].domain \in Closed}

\* Every deletion (domainRecord.delete, DeletePackage) takes exactly its own.
CascadeExact == [][Cascade]_vars
=============================================================================
