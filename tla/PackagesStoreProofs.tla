------------------------ MODULE PackagesStoreProofs ------------------------
(***************************************************************************)
(* Theorems about PackagesStore, for every set of users, ids, names, paths *)
(* and spellings.                                                          *)
(***************************************************************************)
EXTENDS PackagesStore, FiniteSetTheorems, SequenceTheorems, TLAPS

(***************************************************************************)
(* The inductive invariant.  None of its parts is inductive alone: that a  *)
(* rename or a transfer removes the right index entry needs the index to   *)
(* be exact before it, that a deletion takes all packages needs the path   *)
(* index to be exact, and that a new record overwrites nothing needs every *)
(* stored id to have been issued.                                          *)
(***************************************************************************)
IInv ==
    /\ TypeOK
    /\ RecordsComplete
    /\ FQDNIndexExact
    /\ OwnerIndexExact
    /\ PathIndexExact
    /\ PackageDomainIndexExact
    /\ NoOrphanPackages
    /\ NoResidue

----------------------------------------------------------------------------
(***************************************************************************)
(* Saving a domain.                                                        *)
(***************************************************************************)
LEMMA ReindexedIn ==
    ASSUME NEW index \in [Users -> [FQDNs -> DomainIDs \cup {Nil}]],
           NEW id \in DomainIDs,
           NEW e \in DomainRecord, NEW d \in DomainRecord,
           d.fqdn # Nil, d.owner # Nil
    PROVE  /\ Reindexed(index, id, e, d) \in [Users -> [FQDNs -> DomainIDs \cup {Nil}]]
           /\ \A u \in Users, f \in FQDNs : Reindexed(index, id, e, d)[u][f] =
                  IF d.owner = e.owner /\ d.fqdn = e.fqdn THEN index[u][f]
                  ELSE IF u = d.owner /\ f = d.fqdn THEN id
                  ELSE IF u = e.owner /\ f = e.fqdn THEN Nil
                  ELSE index[u][f]
<1> DEFINE dropped == Drop(index, e.owner, e.fqdn)
<1>1. /\ e.owner \in Users \cup {Nil}
      /\ e.fqdn \in FQDNs \cup {Nil}
      /\ d.owner \in Users
      /\ d.fqdn \in FQDNs
  BY DEF DomainRecord
<1>2. Nil \notin Users /\ Nil \notin FQDNs
  BY ConstantsAssumption DEF ConstantsAssumption
<1>3. /\ dropped \in [Users -> [FQDNs -> DomainIDs \cup {Nil}]]
      /\ \A u \in Users, f \in FQDNs : dropped[u][f] =
             IF u = e.owner /\ f = e.fqdn THEN Nil ELSE index[u][f]
  BY <1>1, <1>2 DEF Drop
<1>4. /\ Put(dropped, d.owner, d.fqdn, id) \in [Users -> [FQDNs -> DomainIDs \cup {Nil}]]
      /\ \A u \in Users, f \in FQDNs : Put(dropped, d.owner, d.fqdn, id)[u][f] =
             IF u = d.owner /\ f = d.fqdn THEN id ELSE dropped[u][f]
  <2> HIDE DEF dropped
  <2> QED BY <1>1, <1>3 DEF Put
<1>5. Reindexed(index, id, e, d) =
          IF d.owner = e.owner /\ d.fqdn = e.fqdn THEN index
          ELSE Put(dropped, d.owner, d.fqdn, id)
  BY DEF Reindexed
<1> HIDE DEF dropped
<1> QED
  BY <1>3, <1>4, <1>5

\* The types of what save writes.
LEMMA SaveDomainTypes ==
    ASSUME TypeOK, NEW id \in DomainIDs, NEW d \in DomainRecord,
           SaveDomain(id, d)
    PROVE  /\ d.fqdn \in FQDNs
           /\ d.owner \in Users
           /\ domains' \in [DomainIDs -> DomainRecord]
           /\ indexFQDN' \in [FQDNs -> DomainIDs \cup {Nil}]
           /\ indexOwner' \in [Users -> [FQDNs -> DomainIDs \cup {Nil}]]
           /\ indexUser' \in [Users -> [FQDNs -> DomainIDs \cup {Nil}]]
           /\ domainUsers' \in [DomainIDs -> SUBSET (Users \cup FQDNs)]
           /\ indexDisabled' \in [bucket : BOOLEAN, ids : SUBSET DomainIDs]
<1> DEFINE e == domains[id]
           moved == Reindexed(indexUser, id, e, d)
<1>1. e \in DomainRecord
  BY DEF TypeOK
<1>2. d.fqdn \in FQDNs /\ d.owner \in Users
  BY DEF SaveDomain, ValidDomain, DomainRecord
<1>3. Nil \notin Users /\ Nil \notin FQDNs
  BY ConstantsAssumption DEF ConstantsAssumption
<1>4. domains' \in [DomainIDs -> DomainRecord]
  BY DEF SaveDomain, TypeOK
<1>5. indexFQDN' \in [FQDNs -> DomainIDs \cup {Nil}]
  BY DEF SaveDomain, TypeOK, RenamedFQDN
<1>6. indexOwner' \in [Users -> [FQDNs -> DomainIDs \cup {Nil}]]
  BY <1>1, <1>2, <1>3, ReindexedIn DEF SaveDomain, TypeOK
<1>7. indexUser' \in [Users -> [FQDNs -> DomainIDs \cup {Nil}]]
  <2>1. moved \in [Users -> [FQDNs -> DomainIDs \cup {Nil}]]
    BY <1>1, <1>2, <1>3, ReindexedIn DEF TypeOK
  <2>2. indexUser' = FormerOwnerListed(moved, id, e, d)
    BY DEF SaveDomain
  <2>3. Transferred(e, d) => e.owner \in Users
    BY <1>1 DEF Transferred, DomainRecord
  <2> HIDE DEF moved, e
  <2> QED BY <1>2, <2>1, <2>2, <2>3 DEF FormerOwnerListed, Put
<1>8. domainUsers' \in [DomainIDs -> SUBSET (Users \cup FQDNs)]
  <2>1. Transferred(e, d) => e.owner \in Users
    BY <1>1 DEF Transferred, DomainRecord
  <2>2. FormerOwnerAdded(RenamedTeam(domainUsers[id], e, d), e, d)
            \in SUBSET (Users \cup FQDNs)
    BY <1>2, <2>1 DEF FormerOwnerAdded, RenamedTeam, TypeOK
  <2> QED BY <2>2 DEF SaveDomain, TypeOK
<1>9. indexDisabled' \in [bucket : BOOLEAN, ids : SUBSET DomainIDs]
  BY DEF SaveDomain, TypeOK, DisabledIndexed
<1> QED
  BY <1>2, <1>4, <1>5, <1>6, <1>7, <1>8, <1>9

\* Saving a domain keeps the two indexes of names exact, and touches no other
\* domain.
LEMMA SaveDomainIndexes ==
    ASSUME IInv, NEW id \in DomainIDs, NEW d \in DomainRecord,
           SaveDomain(id, d)
    PROVE  /\ FQDNIndexExact'
           /\ OwnerIndexExact'
           /\ DomainExists(id)'
           /\ domains'[id] = d
           /\ \A i \in DomainIDs : i # id => /\ domains'[i] = domains[i]
                                          /\ domainUsers'[i] = domainUsers[i]
<1> DEFINE e == domains[id]
<1> USE DEF IInv
<1>1. e \in DomainRecord
  BY DEF TypeOK
<1>2. /\ d.fqdn \in FQDNs
      /\ d.owner \in Users
      /\ domains' \in [DomainIDs -> DomainRecord]
  BY SaveDomainTypes
<1>3. Nil \notin Users /\ Nil \notin FQDNs /\ Nil \notin DomainIDs
  BY ConstantsAssumption DEF ConstantsAssumption
<1>4. /\ domains'[id] = d
      /\ \A i \in DomainIDs : i # id => domains'[i] = domains[i]
  BY DEF SaveDomain, TypeOK
<1>5. \A i \in DomainIDs : i # id => domainUsers'[i] = domainUsers[i]
  BY DEF SaveDomain, TypeOK
<1>6. \A i \in DomainIDs : i # id => domains[i].fqdn # d.fqdn
  BY <1>2, <1>3 DEF SaveDomain, ValidDomain, FQDNIndexExact
<1>7. FQDNIndexExact'
  <2>1. \A f \in FQDNs : indexFQDN'[f] =
            IF d.fqdn = e.fqdn THEN indexFQDN[f]
            ELSE IF f = d.fqdn THEN id
            ELSE IF f = e.fqdn THEN Nil
            ELSE indexFQDN[f]
    BY DEF SaveDomain, RenamedFQDN
  <2> SUFFICES ASSUME NEW i \in DomainIDs, NEW f \in FQDNs
               PROVE  indexFQDN'[f] = i <=> domains'[i].fqdn = f
    BY DEF FQDNIndexExact
  <2>2. CASE i = id
    BY <1>2, <1>3, <1>4, <2>1, <2>2 DEF FQDNIndexExact
  <2>3. CASE i # id
    BY <1>2, <1>3, <1>4, <1>6, <2>1, <2>3 DEF FQDNIndexExact
  <2> QED BY <2>2, <2>3
<1>8. OwnerIndexExact'
  <2>1. \A u \in Users, f \in FQDNs : indexOwner'[u][f] =
            IF d.owner = e.owner /\ d.fqdn = e.fqdn THEN indexOwner[u][f]
            ELSE IF u = d.owner /\ f = d.fqdn THEN id
            ELSE IF u = e.owner /\ f = e.fqdn THEN Nil
            ELSE indexOwner[u][f]
    <3>1. indexOwner' = Reindexed(indexOwner, id, e, d)
      BY DEF SaveDomain
    <3>2. indexOwner \in [Users -> [FQDNs -> DomainIDs \cup {Nil}]]
      BY DEF TypeOK
    <3>3. d.fqdn # Nil /\ d.owner # Nil
      BY <1>2, <1>3
    <3> HIDE DEF IInv, e
    <3>4. \A u \in Users, f \in FQDNs : Reindexed(indexOwner, id, e, d)[u][f] =
              IF d.owner = e.owner /\ d.fqdn = e.fqdn THEN indexOwner[u][f]
              ELSE IF u = d.owner /\ f = d.fqdn THEN id
              ELSE IF u = e.owner /\ f = e.fqdn THEN Nil
              ELSE indexOwner[u][f]
      BY <1>1, <3>2, <3>3, ReindexedIn
    <3> QED BY <3>1, <3>4
  <2> SUFFICES ASSUME NEW i \in DomainIDs, NEW u \in Users, NEW f \in FQDNs
               PROVE  indexOwner'[u][f] = i
                          <=> domains'[i].fqdn = f /\ domains'[i].owner = u
    BY DEF OwnerIndexExact
  <2>2. CASE i = id
    BY <1>2, <1>3, <1>4, <2>1, <2>2 DEF OwnerIndexExact
  <2>3. CASE i # id
    <3>1. domains[i].fqdn # e.fqdn \/ e.fqdn = Nil
      BY <1>1, <2>3 DEF FQDNIndexExact, DomainRecord
    <3> QED BY <1>2, <1>3, <1>4, <1>6, <2>1, <2>3, <3>1 DEF OwnerIndexExact
  <2> QED BY <2>2, <2>3
<1>9. DomainExists(id)'
  BY <1>2, <1>3, <1>4 DEF DomainExists
<1> QED
  BY <1>4, <1>5, <1>7, <1>8, <1>9

----------------------------------------------------------------------------
(***************************************************************************)
(* What callers send.                                                      *)
(***************************************************************************)
LEMMA LookupFinds ==
    ASSUME TypeOK, NEW ref \in Refs
    PROVE  /\ Lookup(ref) \in DomainIDs \cup {Nil}
           /\ Lookup(ref) # Nil => DomainExists(Lookup(ref))
BY ConstantsAssumption DEF ConstantsAssumption, TypeOK, Refs, Lookup

LEMMA UpdatedDomainIn ==
    ASSUME NEW d \in DomainRecord, NEW o \in DomainOptions
    PROVE  UpdatedDomain(d, o) \in DomainRecord
<1>1. d.fqdn \in FQDNs \cup {Nil} /\ d.owner \in Users \cup {Nil} /\ d.flags \subseteq Flags
  BY DEF DomainRecord
<1>2. /\ o.fqdn \in Names \cup {Unset}
      /\ o.owner \in Users \cup {Nil, Unset}
      /\ o.on \subseteq Flags /\ o.off \subseteq Flags
  BY DEF DomainOptions
<1>3. Canonical \in [Names -> FQDNs \cup {Nil}]
  BY ConstantsAssumption DEF ConstantsAssumption
<1> QED
  BY <1>1, <1>2, <1>3 DEF UpdatedDomain, DomainRecord

LEMMA UpdatedPackageIn ==
    ASSUME TypeOK, NEW p \in PackageRecord, NEW o \in PackageOptions,
           DomainResolves(o)
    PROVE  UpdatedPackage(p, o) \in PackageRecord
<1>1. /\ p.domain \in DomainIDs \cup {Nil}
      /\ p.path \in Paths \cup {Nil}
      /\ p.repo \in Repos \cup {Nil}
      /\ p.disabled \in BOOLEAN
  BY DEF PackageRecord
<1>2. /\ o.domain \in Refs \cup {Nil, Unset}
      /\ o.path \in PathNames \cup {Unset}
      /\ o.repo \in Repos \cup {Unset}
      /\ o.disabled = Unset \/ o.disabled \in BOOLEAN
  BY DEF PackageOptions
<1>3. /\ CanonicalPath \in [PathNames -> Paths \cup {Nil}]
      /\ Paths \subseteq PathNames
  BY ConstantsAssumption DEF ConstantsAssumption
<1>4. UpdatedPackage(p, o).domain \in DomainIDs \cup {Nil}
  BY <1>1, <1>2, LookupFinds DEF UpdatedPackage
<1>5. UpdatedPackage(p, o).path \in Paths \cup {Nil}
  BY <1>1, <1>2, <1>3 DEF UpdatedPackage, NormalPath
<1>6. /\ UpdatedPackage(p, o).repo \in Repos \cup {Nil}
      /\ UpdatedPackage(p, o).disabled \in BOOLEAN
  BY <1>1, <1>2 DEF UpdatedPackage
<1> QED
  BY <1>4, <1>5, <1>6 DEF UpdatedPackage, PackageRecord

----------------------------------------------------------------------------
(***************************************************************************)
(* Saving and removing packages.                                           *)
(***************************************************************************)
LEMMA SavePackageKeeps ==
    ASSUME IInv, NEW pid \in PackageIDs, NEW p \in PackageRecord,
           SavePackage(pid, p)
    PROVE  /\ packages' \in [PackageIDs -> PackageRecord]
           /\ indexPackageDomain' \in [PackageIDs -> DomainIDs \cup {Nil}]
           /\ indexPath' \in [DomainIDs -> [Paths -> PackageIDs \cup {Nil}]]
           /\ p.domain \in DomainIDs
           /\ packages'[pid] = p
           /\ \A other \in PackageIDs : other # pid => packages'[other] = packages[other]
           /\ PathIndexExact'
           /\ PackageDomainIndexExact'
<1> DEFINE e == packages[pid]
           dropped == Drop(indexPath, e.domain, e.path)
<1>1. /\ e.domain \in DomainIDs \cup {Nil}
      /\ e.path \in Paths \cup {Nil}
  BY DEF IInv, TypeOK, PackageRecord
<1>2. p.domain \in DomainIDs /\ p.path \in Paths
  BY DEF SavePackage, ValidPackage, PackageRecord
<1>3. Nil \notin DomainIDs /\ Nil \notin Paths /\ Nil \notin PackageIDs
  BY ConstantsAssumption DEF ConstantsAssumption
<1>4. indexPath \in [DomainIDs -> [Paths -> PackageIDs \cup {Nil}]]
  BY DEF IInv, TypeOK
<1>5. /\ packages' \in [PackageIDs -> PackageRecord]
      /\ indexPackageDomain' \in [PackageIDs -> DomainIDs \cup {Nil}]
      /\ packages'[pid] = p
      /\ \A other \in PackageIDs : other # pid => packages'[other] = packages[other]
  BY <1>2 DEF SavePackage, IInv, TypeOK
<1>6. /\ dropped \in [DomainIDs -> [Paths -> PackageIDs \cup {Nil}]]
      /\ \A i \in DomainIDs, q \in Paths : dropped[i][q] =
             IF i = e.domain /\ q = e.path THEN Nil ELSE indexPath[i][q]
  <2> HIDE DEF e
  <2> QED BY <1>1, <1>3, <1>4 DEF Drop
<1>7. /\ Put(dropped, p.domain, p.path, pid)
             \in [DomainIDs -> [Paths -> PackageIDs \cup {Nil}]]
      /\ \A i \in DomainIDs, q \in Paths : Put(dropped, p.domain, p.path, pid)[i][q] =
             IF i = p.domain /\ q = p.path THEN pid ELSE dropped[i][q]
  <2> HIDE DEF dropped
  <2> QED BY <1>2, <1>6 DEF Put
<1>8. indexPath' = IF p.domain = e.domain /\ p.path = e.path THEN indexPath
                   ELSE Put(dropped, p.domain, p.path, pid)
  BY DEF SavePackage, Relocated
<1>9. /\ indexPath' \in [DomainIDs -> [Paths -> PackageIDs \cup {Nil}]]
      /\ \A i \in DomainIDs, q \in Paths : indexPath'[i][q] =
             IF p.domain = e.domain /\ p.path = e.path THEN indexPath[i][q]
             ELSE IF i = p.domain /\ q = p.path THEN pid
             ELSE IF i = e.domain /\ q = e.path THEN Nil
             ELSE indexPath[i][q]
  <2> HIDE DEF dropped, e
  <2> QED BY <1>4, <1>6, <1>7, <1>8
<1>10. \A i \in DomainIDs, q \in Paths, other \in PackageIDs :
           indexPath[i][q] = other
               <=> packages[other].domain = i /\ packages[other].path = q
  BY DEF IInv, PathIndexExact
<1>11. indexPath[p.domain][p.path] \in {Nil, pid}
  BY DEF SavePackage, ValidPackage
<1>12. PathIndexExact'
  <2> SUFFICES ASSUME NEW i \in DomainIDs, NEW q \in Paths, NEW other \in PackageIDs
               PROVE  indexPath'[i][q] = other
                          <=> packages'[other].domain = i /\ packages'[other].path = q
    BY DEF PathIndexExact
  <2>1. CASE other = pid
    BY <1>2, <1>3, <1>5, <1>9, <1>10, <2>1
  <2>2. CASE other # pid
    BY <1>2, <1>3, <1>5, <1>9, <1>10, <1>11, <2>2
  <2> QED BY <2>1, <2>2
<1>13. PackageDomainIndexExact'
  BY <1>5 DEF SavePackage, IInv, TypeOK, PackageDomainIndexExact
<1> QED
  BY <1>2, <1>5, <1>9, <1>12, <1>13

LEMMA RemovePackagesKeeps ==
    ASSUME IInv, NEW pids \in SUBSET PackageIDs, RemovePackages(pids)
    PROVE  /\ packages' \in [PackageIDs -> PackageRecord]
           /\ indexPackageDomain' \in [PackageIDs -> DomainIDs \cup {Nil}]
           /\ indexPath' \in [DomainIDs -> [Paths -> PackageIDs \cup {Nil}]]
           /\ \A pid \in PackageIDs :
                  packages'[pid] = IF pid \in pids THEN NoPackage ELSE packages[pid]
           /\ PathIndexExact'
           /\ PackageDomainIndexExact'
<1>1. Nil \notin DomainIDs /\ Nil \notin Paths /\ Nil \notin PackageIDs
  BY ConstantsAssumption DEF ConstantsAssumption
<1>2. NoPackage \in PackageRecord
  BY DEF NoPackage, PackageRecord
<1>3. /\ packages' \in [PackageIDs -> PackageRecord]
      /\ indexPackageDomain' \in [PackageIDs -> DomainIDs \cup {Nil}]
      /\ indexPath' \in [DomainIDs -> [Paths -> PackageIDs \cup {Nil}]]
  BY <1>2 DEF RemovePackages, IInv, TypeOK
<1>4. \A pid \in PackageIDs :
          packages'[pid] = IF pid \in pids THEN NoPackage ELSE packages[pid]
  BY DEF RemovePackages
<1>5. PathIndexExact'
  <2>1. \A i \in DomainIDs, q \in Paths : indexPath'[i][q] =
            IF \E pid \in pids : packages[pid].domain = i /\ packages[pid].path = q
            THEN Nil ELSE indexPath[i][q]
    BY DEF RemovePackages
  <2>2. \A i \in DomainIDs, q \in Paths, pid \in PackageIDs :
            indexPath[i][q] = pid
                <=> packages[pid].domain = i /\ packages[pid].path = q
    BY DEF IInv, PathIndexExact
  <2> SUFFICES ASSUME NEW i \in DomainIDs, NEW q \in Paths, NEW pid \in PackageIDs
               PROVE  indexPath'[i][q] = pid
                          <=> packages'[pid].domain = i /\ packages'[pid].path = q
    BY DEF PathIndexExact
  <2>3. CASE pid \in pids
    BY <1>1, <1>4, <2>1, <2>2, <2>3 DEF NoPackage
  <2>4. CASE pid \notin pids
    BY <1>1, <1>4, <2>1, <2>2, <2>4
  <2> QED BY <2>3, <2>4
<1>6. PackageDomainIndexExact'
  BY <1>4 DEF RemovePackages, IInv, PackageDomainIndexExact, NoPackage
<1> QED
  BY <1>3, <1>4, <1>5, <1>6

\* The path index finds all packages of a domain.
LEMMA PackagesOfExact ==
    ASSUME IInv, NEW id \in DomainIDs
    PROVE  PackagesOf(id) = {pid \in PackageIDs : packages[pid].domain = id}
<1>1. Nil \notin DomainIDs /\ Nil \notin PackageIDs
  BY ConstantsAssumption DEF ConstantsAssumption
<1>2. \A pid \in PackageIDs :
          packages[pid].domain = id => packages[pid].path \in Paths
  BY <1>1 DEF IInv, TypeOK, RecordsComplete, PackageRecord, NoPackage
<1>3. \A q \in Paths : indexPath[id][q] \in PackageIDs \cup {Nil}
  BY DEF IInv, TypeOK
<1> QED
  BY <1>1, <1>2, <1>3 DEF PackagesOf, IInv, PathIndexExact

----------------------------------------------------------------------------
(***************************************************************************)
(* The invariant holds at the start and every action keeps it.             *)
(***************************************************************************)
LEMMA InitKeeps == Init => IInv
<1> SUFFICES ASSUME Init PROVE IInv
  OBVIOUS
<1>1. /\ Nil \notin Users /\ Nil \notin FQDNs /\ Nil \notin DomainIDs
      /\ Nil \notin PackageIDs /\ Nil \notin Paths
  BY ConstantsAssumption DEF ConstantsAssumption
<1>2. TypeOK
  BY DEF Init, TypeOK, NoDomain, NoPackage, DomainRecord, PackageRecord
<1>3. FQDNIndexExact /\ OwnerIndexExact
  BY <1>1 DEF Init, FQDNIndexExact, OwnerIndexExact, NoDomain
<1>4. PathIndexExact /\ PackageDomainIndexExact
  BY <1>1 DEF Init, PathIndexExact, PackageDomainIndexExact, NoPackage
<1>5. RecordsComplete /\ NoOrphanPackages /\ NoResidue
  BY DEF Init, RecordsComplete, NoOrphanPackages, NoResidue,
         DomainExists, PackageExists, NoDomain, NoPackage
<1> QED
  BY <1>2, <1>3, <1>4, <1>5 DEF IInv

\* A transaction that saves a domain, under an id that is issued by then.
LEMMA DomainSaved ==
    ASSUME IInv, NEW id \in DomainIDs, NEW d \in DomainRecord,
           SaveDomain(id, d), UNCHANGED packageVars,
           issued \subseteq issued', id \in issued',
           issued' \subseteq DomainIDs \cup PackageIDs
    PROVE  IInv'
<1>1. /\ packages' = packages
      /\ indexPackageDomain' = indexPackageDomain
      /\ indexPath' = indexPath
  BY DEF packageVars
<1>2. /\ FQDNIndexExact'
      /\ OwnerIndexExact'
      /\ DomainExists(id)'
      /\ domains'[id] = d
      /\ \A i \in DomainIDs : i # id => /\ domains'[i] = domains[i]
                                     /\ domainUsers'[i] = domainUsers[i]
  BY SaveDomainIndexes
<1>3. TypeOK'
  BY <1>1, SaveDomainTypes DEF IInv, TypeOK
<1>4. RecordsComplete'
  <2>1. d.owner # Nil
    BY DEF SaveDomain, ValidDomain
  <2> QED BY <1>1, <1>2, <2>1 DEF IInv, RecordsComplete, DomainExists, PackageExists
<1>5. PathIndexExact' /\ PackageDomainIndexExact'
  BY <1>1 DEF IInv, PathIndexExact, PackageDomainIndexExact
<1>6. NoOrphanPackages'
  BY <1>1, <1>2 DEF IInv, TypeOK, PackageRecord, NoOrphanPackages, DomainExists, PackageExists
<1>7. NoResidue'
  BY <1>1, <1>2 DEF IInv, NoResidue, DomainExists, PackageExists
<1> QED
  BY <1>2, <1>3, <1>4, <1>5, <1>6, <1>7 DEF IInv

LEMMA AddDomainKeeps ==
    ASSUME IInv, NEW id \in DomainIDs, NEW o \in DomainOptions, AddDomain(id, o)
    PROVE  IInv'
<1>1. NoDomain \in DomainRecord
  BY DEF NoDomain, DomainRecord
<1>2. UpdatedDomain(NoDomain, o) \in DomainRecord
  BY <1>1, UpdatedDomainIn
<1>3. /\ issued \subseteq issued'
      /\ id \in issued'
      /\ issued' \subseteq DomainIDs \cup PackageIDs
  BY DEF AddDomain, IInv, TypeOK
<1> QED
  BY <1>2, <1>3, DomainSaved DEF AddDomain

LEMMA UpdateDomainKeeps ==
    ASSUME IInv, NEW ref \in Refs, NEW o \in DomainOptions, NEW by \in Users,
           UpdateDomain(ref, o, by)
    PROVE  IInv'
<1> DEFINE id == Lookup(ref)
<1>1. id \in DomainIDs /\ DomainExists(id)
  BY LookupFinds DEF UpdateDomain, IInv
<1>2. UpdatedDomain(domains[id], o) \in DomainRecord
  BY <1>1, UpdatedDomainIn DEF IInv, TypeOK
<1>3. id \in issued /\ issued' = issued /\ issued \subseteq DomainIDs \cup PackageIDs
  BY <1>1 DEF UpdateDomain, IInv, NoResidue, TypeOK
<1>4. SaveDomain(id, UpdatedDomain(domains[id], o)) /\ UNCHANGED packageVars
  BY DEF UpdateDomain
<1> HIDE DEF id
<1> QED
  BY <1>1, <1>2, <1>3, <1>4, DomainSaved

LEMMA DeleteDomainKeeps ==
    ASSUME IInv, NEW ref \in Refs, NEW by \in Users, DeleteDomain(ref, by)
    PROVE  IInv'
<1> DEFINE id == Lookup(ref)
           d == domains[id]
<1>1. id \in DomainIDs /\ DomainExists(id)
  BY LookupFinds DEF DeleteDomain, IInv
<1>2. /\ Nil \notin Users /\ Nil \notin FQDNs /\ Nil \notin DomainIDs
      /\ Nil \notin PackageIDs
  BY ConstantsAssumption DEF ConstantsAssumption
<1>3. d.fqdn \in FQDNs /\ d.owner \in Users
  BY <1>1 DEF IInv, TypeOK, RecordsComplete, DomainExists, DomainRecord, NoDomain
<1>4. PackagesOf(id) = {pid \in PackageIDs : packages[pid].domain = id}
  BY <1>1, PackagesOfExact
<1>5. PackagesOf(id) \in SUBSET PackageIDs /\ RemovePackages(PackagesOf(id))
  BY <1>4 DEF DeleteDomain
<1>6. /\ packages' \in [PackageIDs -> PackageRecord]
      /\ indexPackageDomain' \in [PackageIDs -> DomainIDs \cup {Nil}]
      /\ indexPath' \in [DomainIDs -> [Paths -> PackageIDs \cup {Nil}]]
      /\ \A pid \in PackageIDs : packages'[pid] =
             IF pid \in PackagesOf(id) THEN NoPackage ELSE packages[pid]
      /\ PathIndexExact'
      /\ PackageDomainIndexExact'
  BY <1>5, RemovePackagesKeeps
<1>7. /\ domains' = [domains EXCEPT ![id] = NoDomain]
      /\ indexFQDN' = [indexFQDN EXCEPT ![d.fqdn] = Nil]
      /\ indexOwner' = Drop(indexOwner, d.owner, d.fqdn)
      /\ indexUser' = [u \in Users |-> [f \in FQDNs |->
                           IF IsUser(id, u) /\ f = d.fqdn THEN Nil ELSE indexUser[u][f]]]
      /\ domainUsers' = [domainUsers EXCEPT ![id] = {}]
      /\ indexDisabled' = [indexDisabled EXCEPT !.ids = @ \ {id}]
      /\ issued' = issued
  BY DEF DeleteDomain, ForgetUsers
<1>8. /\ domains'[id] = NoDomain
      /\ \A i \in DomainIDs : i # id => domains'[i] = domains[i]
  BY <1>1, <1>7 DEF IInv, TypeOK
<1> HIDE DEF id, d
<1>9. TypeOK'
  <2>1. NoDomain \in DomainRecord
    BY DEF NoDomain, DomainRecord
  <2>2. indexOwner' \in [Users -> [FQDNs -> DomainIDs \cup {Nil}]]
    BY <1>3, <1>7 DEF IInv, TypeOK, Drop
  <2>3. indexUser' \in [Users -> [FQDNs -> DomainIDs \cup {Nil}]]
    BY <1>7 DEF IInv, TypeOK
  <2>4. domains' \in [DomainIDs -> DomainRecord]
    BY <1>1, <1>7, <2>1 DEF IInv, TypeOK
  <2>5. indexFQDN' \in [FQDNs -> DomainIDs \cup {Nil}]
    BY <1>3, <1>7 DEF IInv, TypeOK
  <2>6. domainUsers' \in [DomainIDs -> SUBSET (Users \cup FQDNs)]
    BY <1>1, <1>7 DEF IInv, TypeOK
  <2>7. indexDisabled' \in [bucket : BOOLEAN, ids : SUBSET DomainIDs]
    BY <1>7 DEF IInv, TypeOK
  <2> QED BY <1>6, <1>7, <2>2, <2>3, <2>4, <2>5, <2>6, <2>7 DEF IInv, TypeOK
<1>10. RecordsComplete'
  BY <1>6, <1>8 DEF IInv, RecordsComplete, DomainExists, PackageExists
<1>11. FQDNIndexExact'
  <2>1. \A f \in FQDNs : indexFQDN'[f] = IF f = d.fqdn THEN Nil ELSE indexFQDN[f]
    BY <1>7 DEF IInv, TypeOK
  <2> QED BY <1>1, <1>2, <1>3, <1>8, <2>1 DEF IInv, FQDNIndexExact, NoDomain, d
<1>12. OwnerIndexExact'
  <2>1. \A u \in Users, f \in FQDNs : indexOwner'[u][f] =
            IF u = d.owner /\ f = d.fqdn THEN Nil ELSE indexOwner[u][f]
    BY <1>2, <1>3, <1>7 DEF IInv, TypeOK, Drop
  <2> SUFFICES ASSUME NEW i \in DomainIDs, NEW u \in Users, NEW f \in FQDNs
               PROVE  indexOwner'[u][f] = i
                          <=> domains'[i].fqdn = f /\ domains'[i].owner = u
    BY DEF OwnerIndexExact
  <2>2. \A j \in DomainIDs : indexOwner[u][f] = j
                                <=> domains[j].fqdn = f /\ domains[j].owner = u
    BY DEF IInv, OwnerIndexExact
  <2>3. CASE i = id
    BY <1>1, <1>2, <1>3, <1>8, <2>1, <2>2, <2>3 DEF NoDomain, d
  <2>4. CASE i # id
    BY <1>1, <1>2, <1>3, <1>8, <2>1, <2>2, <2>4 DEF d
  <2> QED BY <2>3, <2>4
<1>13. NoOrphanPackages'
  <2> SUFFICES ASSUME NEW pid \in PackageIDs, PackageExists(pid)'
               PROVE  DomainExists(packages[pid].domain)'
    BY DEF NoOrphanPackages
  <2>1. pid \notin PackagesOf(id)
    BY <1>6 DEF PackageExists, NoPackage
  <2>2. packages'[pid] = packages[pid] /\ packages[pid].domain # id
    BY <1>4, <1>6, <2>1
  <2>3. packages[pid].domain \in DomainIDs
    BY <2>2 DEF IInv, TypeOK, PackageRecord, PackageExists
  <2> QED BY <1>8, <2>2, <2>3 DEF IInv, NoOrphanPackages, PackageExists, DomainExists
<1>14. NoResidue'
  <2>1. /\ domainUsers'[id] = {}
        /\ \A i \in DomainIDs : i # id => domainUsers'[i] = domainUsers[i]
    BY <1>1, <1>7 DEF IInv, TypeOK
  <2> QED BY <1>6, <1>7, <1>8, <2>1
          DEF IInv, NoResidue, DomainExists, PackageExists, NoDomain, NoPackage
<1> QED
  BY <1>6, <1>9, <1>10, <1>11, <1>12, <1>13, <1>14 DEF IInv

LEMMA AddUserToDomainKeeps ==
    ASSUME IInv, NEW ref \in Refs, NEW u \in Users, NEW by \in Users,
           AddUserToDomain(ref, u, by)
    PROVE  IInv'
<1> DEFINE id == Lookup(ref)
<1>1. id \in DomainIDs /\ DomainExists(id)
  BY LookupFinds DEF AddUserToDomain, IInv
<1>2. /\ domainUsers' = [domainUsers EXCEPT ![id] = @ \cup {u}]
      /\ indexUser' = Put(indexUser, u, domains[id].fqdn, id)
      /\ domains' = domains /\ indexFQDN' = indexFQDN /\ indexOwner' = indexOwner
      /\ indexDisabled' = indexDisabled /\ issued' = issued
      /\ packages' = packages /\ indexPackageDomain' = indexPackageDomain
      /\ indexPath' = indexPath
  BY DEF AddUserToDomain, packageVars
<1> HIDE DEF id
<1>3. domains[id].fqdn \in FQDNs
  BY <1>1 DEF IInv, TypeOK, DomainRecord, DomainExists
<1>4. TypeOK'
  <2>1. indexUser' \in [Users -> [FQDNs -> DomainIDs \cup {Nil}]]
    BY <1>1, <1>2, <1>3 DEF IInv, TypeOK, Put
  <2>2. domainUsers' \in [DomainIDs -> SUBSET (Users \cup FQDNs)]
    BY <1>1, <1>2 DEF IInv, TypeOK
  <2> QED BY <1>2, <2>1, <2>2 DEF IInv, TypeOK
<1>5. /\ RecordsComplete' /\ FQDNIndexExact' /\ OwnerIndexExact'
      /\ PathIndexExact' /\ PackageDomainIndexExact' /\ NoOrphanPackages'
  BY <1>2 DEF IInv, RecordsComplete, FQDNIndexExact, OwnerIndexExact, PathIndexExact,
              PackageDomainIndexExact, NoOrphanPackages, DomainExists, PackageExists
<1>6. NoResidue'
  BY <1>1, <1>2 DEF IInv, TypeOK, NoResidue, DomainExists, PackageExists
<1> QED
  BY <1>4, <1>5, <1>6 DEF IInv

LEMMA RemoveUserFromDomainKeeps ==
    ASSUME IInv, NEW ref \in Refs, NEW u \in Users, NEW by \in Users,
           RemoveUserFromDomain(ref, u, by)
    PROVE  IInv'
<1> DEFINE id == Lookup(ref)
<1>1. id \in DomainIDs /\ DomainExists(id)
  BY LookupFinds DEF RemoveUserFromDomain, IInv
<1>2. /\ domainUsers' = [domainUsers EXCEPT ![id] = @ \ {u}]
      /\ indexUser' = Drop(indexUser, u, domains[id].fqdn)
      /\ domains' = domains /\ indexFQDN' = indexFQDN /\ indexOwner' = indexOwner
      /\ indexDisabled' = indexDisabled /\ issued' = issued
      /\ packages' = packages /\ indexPackageDomain' = indexPackageDomain
      /\ indexPath' = indexPath
  BY DEF RemoveUserFromDomain, packageVars
<1> HIDE DEF id
<1>3. domains[id].fqdn \in FQDNs
  BY <1>1 DEF IInv, TypeOK, DomainRecord, DomainExists
<1>4. TypeOK'
  <2>1. indexUser' \in [Users -> [FQDNs -> DomainIDs \cup {Nil}]]
    BY <1>2, <1>3 DEF IInv, TypeOK, Drop
  <2>2. domainUsers' \in [DomainIDs -> SUBSET (Users \cup FQDNs)]
    BY <1>1, <1>2 DEF IInv, TypeOK
  <2> QED BY <1>2, <2>1, <2>2 DEF IInv, TypeOK
<1>5. /\ RecordsComplete' /\ FQDNIndexExact' /\ OwnerIndexExact'
      /\ PathIndexExact' /\ PackageDomainIndexExact' /\ NoOrphanPackages'
  BY <1>2 DEF IInv, RecordsComplete, FQDNIndexExact, OwnerIndexExact, PathIndexExact,
              PackageDomainIndexExact, NoOrphanPackages, DomainExists, PackageExists
<1>6. NoResidue'
  BY <1>1, <1>2 DEF IInv, TypeOK, NoResidue, DomainExists, PackageExists
<1> QED
  BY <1>4, <1>5, <1>6 DEF IInv

\* A transaction that saves a package of an existing domain, under an id that
\* is issued by then.
LEMMA PackageSaved ==
    ASSUME IInv, NEW pid \in PackageIDs, NEW p \in PackageRecord,
           SavePackage(pid, p), DomainExists(p.domain), UNCHANGED domainVars,
           issued \subseteq issued', pid \in issued',
           issued' \subseteq DomainIDs \cup PackageIDs
    PROVE  IInv'
<1>1. /\ domains' = domains /\ indexFQDN' = indexFQDN /\ indexOwner' = indexOwner
      /\ indexUser' = indexUser /\ domainUsers' = domainUsers
      /\ indexDisabled' = indexDisabled
  BY DEF domainVars
<1>2. /\ packages' \in [PackageIDs -> PackageRecord]
      /\ indexPackageDomain' \in [PackageIDs -> DomainIDs \cup {Nil}]
      /\ indexPath' \in [DomainIDs -> [Paths -> PackageIDs \cup {Nil}]]
      /\ packages'[pid] = p
      /\ \A other \in PackageIDs : other # pid => packages'[other] = packages[other]
      /\ PathIndexExact'
      /\ PackageDomainIndexExact'
  BY SavePackageKeeps
<1>3. TypeOK'
  BY <1>1, <1>2 DEF IInv, TypeOK
<1>4. RecordsComplete'
  <2>1. p.domain # Nil /\ p.path # Nil /\ p.repo \in ValidRepos
    BY DEF SavePackage, ValidPackage
  <2> QED BY <1>1, <1>2, <2>1 DEF IInv, RecordsComplete, DomainExists, PackageExists
<1>5. FQDNIndexExact' /\ OwnerIndexExact'
  BY <1>1 DEF IInv, FQDNIndexExact, OwnerIndexExact
<1>6. NoOrphanPackages'
  BY <1>1, <1>2 DEF IInv, NoOrphanPackages, DomainExists, PackageExists
<1>7. NoResidue'
  BY <1>1, <1>2 DEF IInv, NoResidue, DomainExists, PackageExists
<1> QED
  BY <1>2, <1>3, <1>4, <1>5, <1>6, <1>7 DEF IInv

LEMMA AddPackageKeeps ==
    ASSUME IInv, NEW pid \in PackageIDs, NEW o \in PackageOptions, NEW by \in Users,
           AddPackage(pid, o, by)
    PROVE  IInv'
<1> DEFINE p == UpdatedPackage(NoPackage, o)
<1>1. NoPackage \in PackageRecord
  BY DEF NoPackage, PackageRecord
<1>2. p \in PackageRecord
  BY <1>1, UpdatedPackageIn DEF AddPackage, IInv
<1>3. DomainExists(p.domain)
  <2>1. o.domain \in Refs /\ Lookup(o.domain) # Nil /\ p.domain = Lookup(o.domain)
    BY DEF AddPackage, DomainResolves, PackageOptions, UpdatedPackage
  <2> QED BY <2>1, LookupFinds DEF IInv
<1>4. /\ issued \subseteq issued'
      /\ pid \in issued'
      /\ issued' \subseteq DomainIDs \cup PackageIDs
  BY DEF AddPackage, IInv, TypeOK
<1>5. SavePackage(pid, p) /\ UNCHANGED domainVars
  BY DEF AddPackage
<1> HIDE DEF p
<1> QED
  BY <1>2, <1>3, <1>4, <1>5, PackageSaved

LEMMA UpdatePackageKeeps ==
    ASSUME IInv, NEW pid \in PackageIDs, NEW o \in PackageOptions, NEW by \in Users,
           UpdatePackage(pid, o, by)
    PROVE  IInv'
<1> DEFINE p == UpdatedPackage(packages[pid], o)
<1>1. p \in PackageRecord
  BY UpdatedPackageIn DEF UpdatePackage, IInv, TypeOK
<1>2. DomainExists(p.domain) /\ SavePackage(pid, p) /\ UNCHANGED domainVars
  BY DEF UpdatePackage
<1>3. issued' = issued /\ pid \in issued /\ issued \subseteq DomainIDs \cup PackageIDs
  BY DEF UpdatePackage, IInv, NoResidue, TypeOK
<1> HIDE DEF p
<1> QED
  BY <1>1, <1>2, <1>3, PackageSaved

LEMMA DeletePackageKeeps ==
    ASSUME IInv, NEW pid \in PackageIDs, NEW by \in Users, DeletePackage(pid, by)
    PROVE  IInv'
<1>1. /\ domains' = domains /\ indexFQDN' = indexFQDN /\ indexOwner' = indexOwner
      /\ indexUser' = indexUser /\ domainUsers' = domainUsers
      /\ indexDisabled' = indexDisabled /\ issued' = issued
  BY DEF DeletePackage, domainVars
<1>2. RemovePackages({pid}) /\ {pid} \in SUBSET PackageIDs
  BY DEF DeletePackage
<1>3. /\ packages' \in [PackageIDs -> PackageRecord]
      /\ indexPackageDomain' \in [PackageIDs -> DomainIDs \cup {Nil}]
      /\ indexPath' \in [DomainIDs -> [Paths -> PackageIDs \cup {Nil}]]
      /\ \A other \in PackageIDs : packages'[other] =
             IF other \in {pid} THEN NoPackage ELSE packages[other]
      /\ PathIndexExact'
      /\ PackageDomainIndexExact'
  BY <1>2, RemovePackagesKeeps
<1>4. TypeOK'
  BY <1>1, <1>3 DEF IInv, TypeOK
<1>5. RecordsComplete'
  BY <1>1, <1>3 DEF IInv, RecordsComplete, DomainExists, PackageExists
<1>6. FQDNIndexExact' /\ OwnerIndexExact'
  BY <1>1 DEF IInv, FQDNIndexExact, OwnerIndexExact
<1>7. NoOrphanPackages' /\ NoResidue'
  BY <1>1, <1>3 DEF IInv, NoOrphanPackages, NoResidue, DomainExists, PackageExists, NoPackage
<1> QED
  BY <1>3, <1>4, <1>5, <1>6, <1>7 DEF IInv

LEMMA NextKeeps == IInv /\ [Next]_vars => IInv'
<1> SUFFICES ASSUME IInv, [Next]_vars PROVE IInv'
  OBVIOUS
<1>1. ASSUME NEW id \in DomainIDs, NEW o \in DomainOptions, AddDomain(id, o)
      PROVE  IInv'
  BY <1>1, AddDomainKeeps
<1>2. ASSUME NEW ref \in Refs, NEW o \in DomainOptions, NEW by \in Users,
             UpdateDomain(ref, o, by)
      PROVE  IInv'
  BY <1>2, UpdateDomainKeeps
<1>3. ASSUME NEW ref \in Refs, NEW by \in Users, DeleteDomain(ref, by)
      PROVE  IInv'
  BY <1>3, DeleteDomainKeeps
<1>4. ASSUME NEW ref \in Refs, NEW u \in Users, NEW by \in Users,
             AddUserToDomain(ref, u, by)
      PROVE  IInv'
  BY <1>4, AddUserToDomainKeeps
<1>5. ASSUME NEW ref \in Refs, NEW u \in Users, NEW by \in Users,
             RemoveUserFromDomain(ref, u, by)
      PROVE  IInv'
  BY <1>5, RemoveUserFromDomainKeeps
<1>6. ASSUME NEW pid \in PackageIDs, NEW o \in PackageOptions, NEW by \in Users,
             AddPackage(pid, o, by)
      PROVE  IInv'
  BY <1>6, AddPackageKeeps
<1>7. ASSUME NEW pid \in PackageIDs, NEW o \in PackageOptions, NEW by \in Users,
             UpdatePackage(pid, o, by)
      PROVE  IInv'
  BY <1>7, UpdatePackageKeeps
<1>8. ASSUME NEW pid \in PackageIDs, NEW by \in Users, DeletePackage(pid, by)
      PROVE  IInv'
  BY <1>8, DeletePackageKeeps
<1>9. CASE UNCHANGED vars
  BY <1>9 DEF vars, domainVars, packageVars, IInv, TypeOK, RecordsComplete,
              FQDNIndexExact, OwnerIndexExact, PathIndexExact, PackageDomainIndexExact,
              NoOrphanPackages, NoResidue, DomainExists, PackageExists
<1> QED
  BY <1>1, <1>2, <1>3, <1>4, <1>5, <1>6, <1>7, <1>8, <1>9 DEF Next

----------------------------------------------------------------------------
(***************************************************************************)
(* The strengthened invariant holds in every reachable state.              *)
(***************************************************************************)
THEOREM Invariance == Spec => []IInv
BY InitKeeps, NextKeeps, PTL DEF Spec

(***************************************************************************)
(* The buckets hold what their Go types allow (domain.go, package.go).     *)
(***************************************************************************)
THEOREM TypeCorrect == Spec => []TypeOK
<1>1. IInv => TypeOK
  BY DEF IInv
<1> QED
  BY <1>1, Invariance, PTL

(***************************************************************************)
(* No sequence of adds, renames, transfers and deletions leaves a name     *)
(* that points to no domain of that name (domainRecord.save, delete).      *)
(***************************************************************************)
THEOREM NameIndexIsExact == Spec => []FQDNIndexExact
<1>1. IInv => FQDNIndexExact
  BY DEF IInv
<1> QED
  BY <1>1, Invariance, PTL

(***************************************************************************)
(* Nor does it make the listing of a user's own domains disagree with the  *)
(* domain records (domainRecord.save, delete).                             *)
(***************************************************************************)
THEOREM OwnerIndexIsExact == Spec => []OwnerIndexExact
<1>1. IInv => OwnerIndexExact
  BY DEF IInv
<1> QED
  BY <1>1, Invariance, PTL

(***************************************************************************)
(* No sequence of calls makes the index of paths disagree with the package *)
(* records (packageRecord.save, delete; domainRecord.delete).              *)
(***************************************************************************)
THEOREM PathIndexIsExact == Spec => []PathIndexExact
<1>1. IInv => PathIndexExact
  BY DEF IInv
<1> QED
  BY <1>1, Invariance, PTL

(***************************************************************************)
(* Nor the index from packages to their domains.                           *)
(***************************************************************************)
THEOREM PackageDomainIndexIsExact == Spec => []PackageDomainIndexExact
<1>1. IInv => PackageDomainIndexExact
  BY DEF IInv
<1> QED
  BY <1>1, Invariance, PTL

(***************************************************************************)
(* No package outlives its domain, and a deleted domain has no users left  *)
(* (domainRecord.delete).                                                  *)
(***************************************************************************)
THEOREM NothingOutlivesItsDomain == Spec => [](NoOrphanPackages /\ NoResidue)
<1>1. IInv => NoOrphanPackages /\ NoResidue
  BY DEF IInv
<1> QED
  BY <1>1, Invariance, PTL

----------------------------------------------------------------------------
(***************************************************************************)
(* Package resolution.                                                     *)
(***************************************************************************)
\* A set of numbers up to n has a greatest one: its element whose interval up
\* to n contains the interval of no other.
LEMMA HasGreatest ==
    ASSUME NEW n \in Nat, NEW T \in SUBSET (1..n), T # {}
    PROVE  \E m \in T : \A k \in T : k <= m
<1> DEFINE Above == {x..n : x \in T}
           R == StrictSubsetOrdering(1..n)
<1>1. IsWellFoundedOn(R, FiniteSubsetsOf(1..n))
  BY FS_StrictSubsetOrderingWellFounded
<1>2. Above \subseteq FiniteSubsetsOf(1..n)
  <2>1. IsFiniteSet(1..n)
    BY FS_Interval
  <2>2. FiniteSubsetsOf(1..n) = SUBSET (1..n)
    BY <2>1, FS_FiniteSubsetsOfFinite
  <2> QED BY <2>2
<1>3. Above # {}
  OBVIOUS
<1>4. PICK I \in Above : \A J \in Above : <<J, I>> \notin R
  <2> HIDE DEF R, Above
  <2> QED BY <1>1, <1>2, <1>3, WFMin
<1>5. PICK m \in T : I = m..n
  BY <1>4
<1>6. ASSUME NEW k \in T, ~(k <= m)
      PROVE  FALSE
  <2>1. k..n \subseteq m..n /\ m \in m..n /\ m \notin k..n
    BY <1>6
  <2>2. k..n \in SUBSET (1..n) /\ m..n \in SUBSET (1..n)
    OBVIOUS
  <2>3. <<k..n, m..n>> \in R
    BY <2>1, <2>2 DEF StrictSubsetOrdering
  <2> QED BY <1>4, <1>5, <2>3
<1> QED
  BY <1>6

\* The resolution takes the greatest of the stored prefixes, if there is one.
LEMMA ResolvedIDIs ==
    ASSUME NEW f \in FQDNs, NEW q \in Paths
    PROVE  \/ /\ indexFQDN[f] = Nil \/ StoredPrefixes(indexFQDN[f], q) = {}
              /\ ResolvedID(f, q) = Nil
           \/ /\ indexFQDN[f] # Nil
              /\ \E n \in StoredPrefixes(indexFQDN[f], q) :
                     /\ \A m \in StoredPrefixes(indexFQDN[f], q) : m <= n
                     /\ ResolvedID(f, q) = indexPath[indexFQDN[f]][SubSeq(q, 1, n)]
<1> DEFINE id == indexFQDN[f]
           T == StoredPrefixes(id, q)
<1>1. Len(q) \in Nat
  BY PathsAssumption, LenProperties DEF PathsAssumption
<1>2. T \in SUBSET (1..Len(q))
  BY DEF StoredPrefixes
<1>3. CASE id = Nil \/ T = {}
  BY <1>3 DEF ResolvedID
<1>4. CASE id # Nil /\ T # {}
  <2> DEFINE n == CHOOSE n \in T : \A m \in T : m <= n
  <2>1. ResolvedID(f, q) = indexPath[id][SubSeq(q, 1, n)]
    BY <1>4 DEF ResolvedID
  <2> HIDE DEF T
  <2>2. \E m \in T : \A k \in T : k <= m
    BY <1>1, <1>2, <1>4, HasGreatest
  <2>3. n \in T /\ \A m \in T : m <= n
    BY <2>2
  <2> QED BY <1>4, <2>1, <2>3 DEF T
<1> QED
  BY <1>3, <1>4

LEMMA ResolutionFollows == IInv => ResolutionExact
<1> SUFFICES ASSUME IInv, NEW f \in FQDNs, NEW q \in Paths
             PROVE  LET pid == ResolvedID(f, q)
                    IN  /\ pid # Nil => Matches(pid, f, q)
                        /\ \A other \in PackageIDs : Matches(other, f, q) =>
                               /\ pid # Nil
                               /\ Len(packages[other].path) <= Len(packages[pid].path)
  BY DEF ResolutionExact
<1> DEFINE id == indexFQDN[f]
           pid == ResolvedID(f, q)
<1>1. Nil \notin PackageIDs /\ Nil \notin DomainIDs /\ Nil \notin Paths /\ Nil \notin FQDNs
  BY ConstantsAssumption DEF ConstantsAssumption
<1>2. q \in Seq(STRING) /\ Len(q) \in Nat
  BY PathsAssumption, LenProperties DEF PathsAssumption
<1>3. \A n \in 1..Len(q) : Len(SubSeq(q, 1, n)) = n
  BY <1>2
<1>4. \A p \in Paths : Len(p) \in Nat \ {0}
  BY PathsAssumption, LenProperties, EmptySeq DEF PathsAssumption
<1>5. id \in DomainIDs \cup {Nil}
  BY DEF IInv, TypeOK
\* A stored prefix is the path of a package of the domain with that name.
<1>6. ASSUME id # Nil, NEW n \in StoredPrefixes(id, q)
      PROVE  /\ n \in 1..Len(q)
             /\ indexPath[id][SubSeq(q, 1, n)] \in PackageIDs
             /\ packages[indexPath[id][SubSeq(q, 1, n)]].domain = id
             /\ packages[indexPath[id][SubSeq(q, 1, n)]].path = SubSeq(q, 1, n)
  <2> DEFINE prefix == SubSeq(q, 1, n)
  <2>1. n \in 1..Len(q) /\ prefix \in Paths /\ indexPath[id][prefix] # Nil
    BY <1>6 DEF StoredPrefixes
  <2> HIDE DEF prefix, id
  <2>2. indexPath[id][prefix] \in PackageIDs
    BY <1>5, <1>6, <2>1 DEF IInv, TypeOK
  <2>3. id \in DomainIDs
    BY <1>5, <1>6
  <2>4. /\ packages[indexPath[id][prefix]].domain = id
        /\ packages[indexPath[id][prefix]].path = prefix
    BY <2>1, <2>2, <2>3 DEF IInv, PathIndexExact
  <2> QED BY <2>1, <2>2, <2>4 DEF prefix
<1>7. ASSUME pid # Nil
      PROVE  Matches(pid, f, q)
  <2>1. PICK n \in StoredPrefixes(id, q) : id # Nil /\ pid = indexPath[id][SubSeq(q, 1, n)]
    BY <1>7, ResolvedIDIs
  <2>2. /\ pid \in PackageIDs
        /\ packages[pid].domain = id
        /\ packages[pid].path = SubSeq(q, 1, n)
        /\ n \in 1..Len(q)
    BY <1>6, <2>1
  <2>3. domains[id].fqdn = f
    BY <1>5, <2>1 DEF IInv, FQDNIndexExact
  <2>4. Len(packages[pid].path) = n
    BY <1>3, <2>2
  <2> HIDE DEF pid, id
  <2> QED BY <1>2, <2>1, <2>2, <2>3, <2>4 DEF Matches, PackageExists
<1>8. ASSUME NEW other \in PackageIDs, Matches(other, f, q)
      PROVE  pid # Nil /\ Len(packages[other].path) <= Len(packages[pid].path)
  <2> DEFINE p == packages[other].path
  <2>1. packages[other].domain \in DomainIDs /\ p \in Paths
    BY <1>1, <1>8 DEF Matches, PackageExists, IInv, TypeOK, RecordsComplete,
                      PackageRecord, NoPackage
  <2>2. packages[other].domain = id
    BY <1>8, <2>1 DEF Matches, IInv, FQDNIndexExact
  <2>3. indexPath[id][p] = other
    BY <2>1, <2>2 DEF IInv, PathIndexExact
  <2>4. SubSeq(q, 1, Len(p)) = p /\ Len(p) \in 1..Len(q)
    BY <1>2, <1>4, <1>8, <2>1 DEF Matches
  <2>5. Len(p) \in StoredPrefixes(id, q)
    BY <1>1, <2>1, <2>3, <2>4 DEF StoredPrefixes
  <2>6. id # Nil
    BY <1>1, <2>1, <2>2
  <2>7. PICK n \in StoredPrefixes(id, q) :
            /\ \A m \in StoredPrefixes(id, q) : m <= n
            /\ pid = indexPath[id][SubSeq(q, 1, n)]
    BY <2>5, <2>6, ResolvedIDIs
  <2>8. pid \in PackageIDs /\ packages[pid].path = SubSeq(q, 1, n) /\ n \in 1..Len(q)
    BY <1>6, <2>6, <2>7
  <2>9. Len(packages[pid].path) = n
    BY <1>3, <2>8
  <2> HIDE DEF pid, id, p
  <2> QED BY <1>1, <2>5, <2>7, <2>8, <2>9 DEF p
<1> QED
  BY <1>7, <1>8

(***************************************************************************)
(* What ResolvePackage finds through the indexes is what a scan of the     *)
(* tables would find, after every sequence of calls (service.go).          *)
(***************************************************************************)
THEOREM ResolutionIsExact == Spec => []ResolutionExact
BY Invariance, ResolutionFollows, PTL

----------------------------------------------------------------------------
(***************************************************************************)
(* What each action does to the records.                                   *)
(***************************************************************************)
LEMMA AddDomainRecords ==
    ASSUME IInv, NEW id \in DomainIDs, NEW o \in DomainOptions, AddDomain(id, o)
    PROVE  /\ domains[id] = NoDomain
           /\ domainUsers[id] = {}
           /\ UpdatedDomain(NoDomain, o) \in DomainRecord
           /\ domains'[id] = UpdatedDomain(NoDomain, o)
           /\ DomainExists(id)'
           /\ \A i \in DomainIDs : i # id => domains'[i] = domains[i]
           /\ packages' = packages
<1>1. ~DomainExists(id) /\ domains[id] = NoDomain /\ domainUsers[id] = {}
  BY DEF AddDomain, IInv, NoResidue, RecordsComplete
<1>2. UpdatedDomain(NoDomain, o) \in DomainRecord
  <2>1. NoDomain \in DomainRecord
    BY DEF NoDomain, DomainRecord
  <2> QED BY <2>1, UpdatedDomainIn
<1>3. SaveDomain(id, UpdatedDomain(NoDomain, o)) /\ packages' = packages
  BY DEF AddDomain, packageVars
<1> QED
  BY <1>1, <1>2, <1>3, SaveDomainIndexes

LEMMA UpdateDomainRecords ==
    ASSUME IInv, NEW ref \in Refs, NEW o \in DomainOptions, NEW by \in Users,
           UpdateDomain(ref, o, by)
    PROVE  /\ Lookup(ref) \in DomainIDs
           /\ DomainExists(Lookup(ref))
           /\ UpdatedDomain(domains[Lookup(ref)], o) \in DomainRecord
           /\ SaveDomain(Lookup(ref), UpdatedDomain(domains[Lookup(ref)], o))
           /\ domains'[Lookup(ref)] = UpdatedDomain(domains[Lookup(ref)], o)
           /\ domains'[Lookup(ref)].fqdn # Nil
           /\ \A i \in DomainIDs : i # Lookup(ref) => domains'[i] = domains[i]
           /\ packages' = packages
<1> DEFINE id == Lookup(ref)
           d == UpdatedDomain(domains[id], o)
<1>1. id \in DomainIDs /\ DomainExists(id)
  BY LookupFinds DEF UpdateDomain, IInv
<1>2. d \in DomainRecord
  BY <1>1, UpdatedDomainIn DEF IInv, TypeOK
<1>3. SaveDomain(id, d) /\ packages' = packages
  BY DEF UpdateDomain, packageVars
<1> HIDE DEF id, d
<1>4. /\ domains'[id] = d
      /\ domains'[id].fqdn # Nil
      /\ \A i \in DomainIDs : i # id => domains'[i] = domains[i]
  <2>1. \A i \in DomainIDs : SaveDomain(i, d) =>
            /\ domains'[i] = d
            /\ domains'[i].fqdn # Nil
            /\ \A j \in DomainIDs : j # i => domains'[j] = domains[j]
    BY <1>2, SaveDomainIndexes DEF DomainExists
  <2> QED BY <1>1, <1>3, <2>1
<1> QED
  BY <1>1, <1>2, <1>3, <1>4 DEF id, d

LEMMA DeleteDomainRecords ==
    ASSUME IInv, NEW ref \in Refs, NEW by \in Users, DeleteDomain(ref, by)
    PROVE  /\ Lookup(ref) \in DomainIDs
           /\ DomainExists(Lookup(ref))
           /\ domains'[Lookup(ref)] = NoDomain
           /\ \A i \in DomainIDs : i # Lookup(ref) => domains'[i] = domains[i]
           /\ \A pid \in PackageIDs : packages'[pid] =
                  IF packages[pid].domain = Lookup(ref) THEN NoPackage ELSE packages[pid]
<1> DEFINE id == Lookup(ref)
<1>1. id \in DomainIDs /\ DomainExists(id)
  BY LookupFinds DEF DeleteDomain, IInv
<1>2. domains' = [domains EXCEPT ![id] = NoDomain] /\ RemovePackages(PackagesOf(id))
  BY DEF DeleteDomain
<1> HIDE DEF id
<1>3. PackagesOf(id) = {pid \in PackageIDs : packages[pid].domain = id}
  BY <1>1, PackagesOfExact
<1>4. /\ domains'[id] = NoDomain
      /\ \A i \in DomainIDs : i # id => domains'[i] = domains[i]
  BY <1>1, <1>2 DEF IInv, TypeOK
<1>5. \A pid \in PackageIDs : packages'[pid] =
          IF packages[pid].domain = id THEN NoPackage ELSE packages[pid]
  BY <1>2, <1>3 DEF RemovePackages
<1> QED
  BY <1>1, <1>4, <1>5 DEF id

LEMMA SavedPackageRecords ==
    ASSUME IInv, NEW pid \in PackageIDs, NEW o \in PackageOptions, NEW by \in Users,
           AddPackage(pid, o, by) \/ UpdatePackage(pid, o, by)
    PROVE  /\ domains' = domains
           /\ PackageExists(pid)'
           /\ \A other \in PackageIDs : other # pid => packages'[other] = packages[other]
<1>1. PICK p : SavePackage(pid, p) /\ UNCHANGED domainVars
  BY DEF AddPackage, UpdatePackage
<1>2. packages' = [packages EXCEPT ![pid] = p] /\ p.domain # Nil /\ domains' = domains
  BY <1>1 DEF SavePackage, ValidPackage, domainVars
<1> QED
  BY <1>2 DEF PackageExists, IInv, TypeOK

LEMMA DeletePackageRecords ==
    ASSUME IInv, NEW pid \in PackageIDs, NEW by \in Users, DeletePackage(pid, by)
    PROVE  /\ domains' = domains
           /\ \A other \in PackageIDs :
                  packages'[other] = IF other = pid THEN NoPackage ELSE packages[other]
BY DEF DeletePackage, RemovePackages, domainVars
=============================================================================
