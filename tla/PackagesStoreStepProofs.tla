---------------------- MODULE PackagesStoreStepProofs ----------------------
(***************************************************************************)
(* What a step of PackagesStore may do, for all values of the constants,   *)
(* from the inductive invariant of PackagesStoreProofs: what no step ever  *)
(* does (the action properties), that each step is one of the abstract     *)
(* registry, and what the lists of domains are worth until a rename.       *)
(***************************************************************************)
EXTENDS PackagesStoreRefinement, PackagesListings, PackagesStoreProofs

----------------------------------------------------------------------------
LEMMA CascadeStep == IInv /\ Next => Cascade
<1> SUFFICES ASSUME IInv, Next PROVE Cascade
  OBVIOUS
<1> USE DEF DomainExists, PackageExists, Cascade, Gone, Closed
<1>1. ASSUME NEW id \in DomainIDs, NEW o \in DomainOptions, AddDomain(id, o)
      PROVE  Cascade
  BY <1>1, AddDomainRecords
<1>2. ASSUME NEW ref \in Refs, NEW o \in DomainOptions, NEW by \in Users,
             UpdateDomain(ref, o, by)
      PROVE  Cascade
  BY <1>2, UpdateDomainRecords
<1>3. ASSUME NEW ref \in Refs, NEW by \in Users, DeleteDomain(ref, by)
      PROVE  Cascade
  <2> DEFINE id == Lookup(ref)
  <2>1. /\ id \in DomainIDs
        /\ domains[id].fqdn # Nil
        /\ domains'[id].fqdn = Nil
        /\ \A i \in DomainIDs : i # id => domains'[i] = domains[i]
        /\ \A pid \in PackageIDs : packages'[pid] =
               IF packages[pid].domain = id THEN NoPackage ELSE packages[pid]
    BY <1>3, DeleteDomainRecords DEF NoDomain
  <2> HIDE DEF id
  <2>2. Closed = {id}
    BY <2>1
  <2>3. Nil \notin DomainIDs
    BY ConstantsAssumption DEF ConstantsAssumption
  <2>4. Gone = {pid \in PackageIDs : packages[pid].domain = id}
    BY <2>1, <2>3 DEF NoPackage
  <2> HIDE DEF Closed, Gone
  <2> QED BY <2>2, <2>4
<1>4. ASSUME UNCHANGED <<domains, packages>>
      PROVE  Cascade
  BY <1>4
<1>5. ASSUME NEW ref \in Refs, NEW u \in Users, NEW by \in Users,
             AddUserToDomain(ref, u, by) \/ RemoveUserFromDomain(ref, u, by)
      PROVE  Cascade
  BY <1>4, <1>5 DEF AddUserToDomain, RemoveUserFromDomain, packageVars
<1>6. ASSUME NEW pid \in PackageIDs, NEW o \in PackageOptions, NEW by \in Users,
             AddPackage(pid, o, by) \/ UpdatePackage(pid, o, by)
      PROVE  Cascade
  BY <1>6, SavedPackageRecords
<1>7. ASSUME NEW pid \in PackageIDs, NEW by \in Users, DeletePackage(pid, by)
      PROVE  Cascade
  BY <1>7, DeletePackageRecords
<1> QED
  BY <1>1, <1>2, <1>3, <1>5, <1>6, <1>7 DEF Next

(***************************************************************************)
(* A deletion takes all packages of the domain and no other                *)
(* (domainRecord.delete): CascadeExact for every step.                     *)
(***************************************************************************)
THEOREM DeletionsCascade == Spec => CascadeExact
<1>1. IInv /\ [Next]_vars => [Cascade]_vars
  BY CascadeStep
<1> QED
  BY <1>1, Invariance, PTL DEF Spec, CascadeExact

----------------------------------------------------------------------------
LEMMA MoveStep == IInv /\ Next => MoveAllowed
<1> SUFFICES ASSUME IInv, Next PROVE MoveAllowed
  OBVIOUS
<1>1. ASSUME NEW id \in DomainIDs, NEW o \in DomainOptions, AddDomain(id, o)
      PROVE  MoveAllowed
  BY <1>1, AddDomainRecords DEF MoveAllowed
<1>2. ASSUME NEW ref \in Refs, NEW o \in DomainOptions, NEW by \in Users,
             UpdateDomain(ref, o, by)
      PROVE  MoveAllowed
  BY <1>2, UpdateDomainRecords DEF MoveAllowed
<1>3. ASSUME NEW ref \in Refs, NEW by \in Users, DeleteDomain(ref, by)
      PROVE  MoveAllowed
  BY <1>3, DeleteDomainRecords DEF MoveAllowed, NoPackage
<1>4. ASSUME NEW ref \in Refs, NEW u \in Users, NEW by \in Users,
             AddUserToDomain(ref, u, by) \/ RemoveUserFromDomain(ref, u, by)
      PROVE  MoveAllowed
  BY <1>4 DEF AddUserToDomain, RemoveUserFromDomain, packageVars, MoveAllowed
<1>5. ASSUME NEW pid \in PackageIDs, NEW o \in PackageOptions, NEW by \in Users,
             AddPackage(pid, o, by)
      PROVE  MoveAllowed
  <2>1. packages[pid].domain = Nil
    BY <1>5 DEF AddPackage, IInv, NoResidue, PackageExists
  <2>2. \A other \in PackageIDs : other # pid => packages'[other] = packages[other]
    BY <1>5, SavedPackageRecords
  <2> QED BY <2>1, <2>2 DEF MoveAllowed
<1>6. ASSUME NEW pid \in PackageIDs, NEW o \in PackageOptions, NEW by \in Users,
             UpdatePackage(pid, o, by)
      PROVE  MoveAllowed
  <2> DEFINE p == UpdatedPackage(packages[pid], o)
  <2>1. /\ IsUser(packages[pid].domain, by)
        /\ IsUser(p.domain, by)
        /\ packages' = [packages EXCEPT ![pid] = p]
    BY <1>6 DEF UpdatePackage, SavePackage
  <2> HIDE DEF p
  <2>2. /\ packages'[pid] = p
        /\ \A other \in PackageIDs : other # pid => packages'[other] = packages[other]
    BY <2>1 DEF IInv, TypeOK
  <2> QED BY <2>1, <2>2 DEF MoveAllowed
<1>7. ASSUME NEW pid \in PackageIDs, NEW by \in Users, DeletePackage(pid, by)
      PROVE  MoveAllowed
  BY <1>7, DeletePackageRecords DEF MoveAllowed, NoPackage
<1> QED
  BY <1>1, <1>2, <1>3, <1>4, <1>5, <1>6, <1>7 DEF Next

(***************************************************************************)
(* No package moves between two domains without a user in common           *)
(* (Service.UpdatePackage checks access before and after the update).      *)
(***************************************************************************)
THEOREM MovesAllowed == Spec => MovesNeedCommonUser
<1>1. IInv /\ [Next]_vars => [MoveAllowed]_vars
  BY MoveStep
<1> QED
  BY <1>1, Invariance, PTL DEF Spec, MovesNeedCommonUser

----------------------------------------------------------------------------
LEMMA TransferStep == IInv /\ Next => FormerOwnerKept
<1> SUFFICES ASSUME IInv, Next PROVE FormerOwnerKept
  OBVIOUS
<1>1. ASSUME NEW id \in DomainIDs, NEW o \in DomainOptions, AddDomain(id, o)
      PROVE  FormerOwnerKept
  BY <1>1, AddDomainRecords DEF FormerOwnerKept, DomainExists, NoDomain
<1>2. ASSUME NEW ref \in Refs, NEW o \in DomainOptions, NEW by \in Users,
             UpdateDomain(ref, o, by)
      PROVE  FormerOwnerKept
  <2> DEFINE id == Lookup(ref)
             e == domains[id]
             d == UpdatedDomain(e, o)
             moved == Reindexed(indexUser, id, e, d)
  <2>1. /\ id \in DomainIDs
        /\ DomainExists(id)
        /\ d \in DomainRecord
        /\ SaveDomain(id, d)
        /\ domains'[id] = d
        /\ \A i \in DomainIDs : i # id => domains'[i] = domains[i]
    BY <1>2, UpdateDomainRecords
  <2>2. /\ indexUser' = FormerOwnerListed(moved, id, e, d)
        /\ domainUsers' = [domainUsers EXCEPT ![id] =
                               FormerOwnerAdded(RenamedTeam(@, e, d), e, d)]
        /\ d.fqdn # Nil /\ d.owner # Nil
    BY <2>1 DEF SaveDomain, ValidDomain
  <2>3. e \in DomainRecord /\ e.owner # Nil
    BY <2>1 DEF IInv, TypeOK, RecordsComplete, NoDomain, DomainExists
  <2> HIDE DEF id, e, d
  <2>4. moved \in [Users -> [FQDNs -> DomainIDs \cup {Nil}]]
    BY <2>1, <2>2, <2>3, ReindexedIn DEF IInv, TypeOK
  <2> HIDE DEF moved
  <2>5. ASSUME d.owner # e.owner
        PROVE  e.owner \in domainUsers'[id] /\ indexUser'[e.owner][d.fqdn] = id
    <3>1. e.owner \in Users /\ d.fqdn \in FQDNs /\ Transferred(e, d)
      BY <2>1, <2>2, <2>3, <2>5 DEF DomainRecord, Transferred
    <3>2. e.owner \in domainUsers'[id]
      BY <2>1, <2>2, <3>1 DEF FormerOwnerAdded, IInv, TypeOK
    <3>3. indexUser'[e.owner][d.fqdn] = id
      BY <2>2, <2>4, <3>1 DEF FormerOwnerListed, Put
    <3> QED BY <3>2, <3>3
  <2> QED BY <2>1, <2>5 DEF FormerOwnerKept, e
<1>3. ASSUME NEW ref \in Refs, NEW by \in Users, DeleteDomain(ref, by)
      PROVE  FormerOwnerKept
  BY <1>3, DeleteDomainRecords DEF FormerOwnerKept, DomainExists, NoDomain
<1>4. ASSUME domains' = domains
      PROVE  FormerOwnerKept
  BY <1>4 DEF FormerOwnerKept
<1>5. ASSUME NEW ref \in Refs, NEW u \in Users, NEW by \in Users,
             AddUserToDomain(ref, u, by) \/ RemoveUserFromDomain(ref, u, by)
      PROVE  FormerOwnerKept
  BY <1>4, <1>5 DEF AddUserToDomain, RemoveUserFromDomain
<1>6. ASSUME NEW pid \in PackageIDs, NEW o \in PackageOptions, NEW by \in Users,
             AddPackage(pid, o, by) \/ UpdatePackage(pid, o, by)
      PROVE  FormerOwnerKept
  BY <1>4, <1>6, SavedPackageRecords
<1>7. ASSUME NEW pid \in PackageIDs, NEW by \in Users, DeletePackage(pid, by)
      PROVE  FormerOwnerKept
  BY <1>4, <1>7, DeletePackageRecords
<1> QED
  BY <1>1, <1>2, <1>3, <1>5, <1>6, <1>7 DEF Next

(***************************************************************************)
(* Giving a domain away, with or without a rename in the same call, never  *)
(* locks its giver out (domainRecord.save and addUser).                    *)
(***************************************************************************)
THEOREM GiversKeepAccess == Spec => FormerOwnerKeepsAccess
<1>1. IInv /\ [Next]_vars => [FormerOwnerKept]_vars
  BY TransferStep
<1> QED
  BY <1>1, Invariance, PTL DEF Spec, FormerOwnerKeepsAccess

----------------------------------------------------------------------------
(***************************************************************************)
(* The store implements the registry: Init maps to its initial state and   *)
(* each action to one of its steps.                                        *)
(***************************************************************************)
LEMMA InitRefines == Init => Abstract!Init
BY DEF Init, Abstract!Init, Team, NoDomain, NoPackage, Abstract!NoDomain,
       Abstract!NoPackage

\* The new name of a domain is nobody else's, and its record is one of the
\* registry's.
LEMMA SavedDomainFits ==
    ASSUME IInv, NEW id \in DomainIDs, NEW d \in DomainRecord, SaveDomain(id, d)
    PROVE  /\ d \in Abstract!Domains
           /\ Abstract!NameFree(id, d.fqdn)
           /\ domains' = [domains EXCEPT ![id] = d]
           /\ domainUsers' = [domainUsers EXCEPT ![id] =
                  FormerOwnerAdded(RenamedTeam(@, domains[id], d), domains[id], d)]
<1>1. d.fqdn # Nil /\ d.owner # Nil /\ indexFQDN[d.fqdn] \in {Nil, id}
  BY DEF SaveDomain, ValidDomain
<1>2. d \in Abstract!Domains
  BY <1>1 DEF Abstract!Domains, DomainRecord
<1>3. Nil \notin DomainIDs
  BY ConstantsAssumption DEF ConstantsAssumption
<1>4. Abstract!NameFree(id, d.fqdn)
  BY <1>1, <1>3 DEF Abstract!NameFree, IInv, FQDNIndexExact, DomainRecord
<1> QED
  BY <1>2, <1>4 DEF SaveDomain

LEMMA AddDomainRefines ==
    ASSUME IInv, NEW id \in DomainIDs, NEW o \in DomainOptions, AddDomain(id, o)
    PROVE  Abstract!Next
<1> DEFINE d == UpdatedDomain(NoDomain, o)
<1>1. domains[id] = NoDomain /\ domainUsers[id] = {} /\ d \in DomainRecord
  BY AddDomainRecords
<1>2. /\ SaveDomain(id, d)
      /\ id \notin issued
      /\ issued' = issued \cup {id}
      /\ packages' = packages
  BY DEF AddDomain, packageVars
<1> HIDE DEF d
<1>3. /\ d \in Abstract!Domains
      /\ Abstract!NameFree(id, d.fqdn)
      /\ domains' = [domains EXCEPT ![id] = d]
      /\ domainUsers' = [domainUsers EXCEPT ![id] =
             FormerOwnerAdded(RenamedTeam(@, domains[id], d), domains[id], d)]
  BY <1>1, <1>2, SavedDomainFits
<1>4. domainUsers' = domainUsers
  BY <1>1, <1>3 DEF FormerOwnerAdded, RenamedTeam, Transferred, NoDomain, IInv, TypeOK
<1>5. Abstract!Register(id, d)
  BY <1>2, <1>3, <1>4 DEF Abstract!Register, Team
<1> QED
  BY <1>3, <1>5 DEF Abstract!Next

LEMMA UpdateDomainRefines ==
    ASSUME IInv, NEW ref \in Refs, NEW o \in DomainOptions, NEW by \in Users,
           UpdateDomain(ref, o, by)
    PROVE  Abstract!Next
<1> DEFINE id == Lookup(ref)
           e == domains[id]
           d == UpdatedDomain(e, o)
<1>1. /\ id \in DomainIDs /\ DomainExists(id)
      /\ d \in DomainRecord
      /\ SaveDomain(id, d)
      /\ packages' = packages
  BY UpdateDomainRecords
<1>2. issued' = issued
  BY DEF UpdateDomain
<1>3. e.fqdn \in FQDNs /\ e.owner \in Users
  BY <1>1 DEF IInv, TypeOK, RecordsComplete, DomainExists, DomainRecord, NoDomain
<1> HIDE DEF id, d
<1>4. /\ d \in Abstract!Domains
      /\ Abstract!NameFree(id, d.fqdn)
      /\ domains' = [domains EXCEPT ![id] = d]
      /\ domainUsers' = [domainUsers EXCEPT ![id] =
             FormerOwnerAdded(RenamedTeam(@, e, d), e, d)]
  BY <1>1, SavedDomainFits
<1>5. FormerOwnerAdded(RenamedTeam(domainUsers[id], e, d), e, d) \cap Users =
          IF d.owner = e.owner THEN Team[id] ELSE Team[id] \cup {e.owner}
  <2>1. FQDNs \cap Users = {} /\ Nil \notin Users
    BY ConstantsAssumption DEF ConstantsAssumption
  <2>2. d.fqdn \in FQDNs
    BY <1>4 DEF Abstract!Domains
  <2>3. Team[id] = domainUsers[id] \cap Users
    BY <1>1 DEF Team
  <2>4. RenamedTeam(domainUsers[id], e, d) \cap Users = domainUsers[id] \cap Users
    BY <1>3, <2>1, <2>2 DEF RenamedTeam
  <2> QED BY <1>3, <2>1, <2>3, <2>4 DEF FormerOwnerAdded, Transferred
<1>6. Team' = [Team EXCEPT ![id] = IF d.owner = e.owner THEN @ ELSE @ \cup {e.owner}]
  <2>1. /\ domainUsers'[id] = FormerOwnerAdded(RenamedTeam(domainUsers[id], e, d), e, d)
        /\ \A i \in DomainIDs : i # id => domainUsers'[i] = domainUsers[i]
    BY <1>1, <1>4 DEF IInv, TypeOK
  <2> QED BY <1>1, <1>5, <2>1 DEF Team
<1>7. Abstract!Open(id)
  BY <1>1 DEF Abstract!Open, DomainExists
<1>8. Abstract!Amend(id, d)
  BY <1>1, <1>2, <1>4, <1>6, <1>7 DEF Abstract!Amend
<1> QED
  BY <1>1, <1>4, <1>8 DEF Abstract!Next

LEMMA DeleteDomainRefines ==
    ASSUME IInv, NEW ref \in Refs, NEW by \in Users, DeleteDomain(ref, by)
    PROVE  Abstract!Next
<1> DEFINE id == Lookup(ref)
<1>1. /\ id \in DomainIDs /\ DomainExists(id)
      /\ \A pid \in PackageIDs : packages'[pid] =
             IF packages[pid].domain = id THEN NoPackage ELSE packages[pid]
  BY DeleteDomainRecords
<1>2. /\ domains' = [domains EXCEPT ![id] = NoDomain]
      /\ domainUsers' = [domainUsers EXCEPT ![id] = {}]
      /\ issued' = issued
      /\ packages' = [pid \in PackageIDs |->
             IF pid \in PackagesOf(id) THEN NoPackage ELSE packages[pid]]
  BY DEF DeleteDomain, ForgetUsers, RemovePackages
<1> HIDE DEF id
<1>3. Team' = [Team EXCEPT ![id] = {}]
  BY <1>1, <1>2 DEF Team, IInv, TypeOK
<1>4. packages' = [pid \in PackageIDs |->
          IF packages[pid].domain = id THEN NoPackage ELSE packages[pid]]
  BY <1>1, <1>2
<1>5. Abstract!Close(id)
  BY <1>1, <1>2, <1>3, <1>4
     DEF Abstract!Close, Abstract!Open, Abstract!NoDomain, Abstract!NoPackage,
         NoDomain, NoPackage, DomainExists
<1> QED
  BY <1>1, <1>5 DEF Abstract!Next

LEMMA AddUserToDomainRefines ==
    ASSUME IInv, NEW ref \in Refs, NEW u \in Users, NEW by \in Users,
           AddUserToDomain(ref, u, by)
    PROVE  Abstract!Next
<1> DEFINE id == Lookup(ref)
<1>1. id \in DomainIDs /\ DomainExists(id)
  BY LookupFinds DEF AddUserToDomain, IInv
<1>2. /\ domains[id].owner = by /\ u # by /\ u \notin domainUsers[id]
      /\ domainUsers' = [domainUsers EXCEPT ![id] = @ \cup {u}]
      /\ domains' = domains /\ packages' = packages /\ issued' = issued
  BY DEF AddUserToDomain, IsOwner, packageVars
<1> HIDE DEF id
<1>3. Team' = [Team EXCEPT ![id] = @ \cup {u}]
  BY <1>1, <1>2 DEF Team, IInv, TypeOK
<1>4. Abstract!Grant(id, u)
  BY <1>1, <1>2, <1>3
     DEF Abstract!Grant, Abstract!Open, Abstract!Access, Team, DomainExists
<1> QED
  BY <1>1, <1>4 DEF Abstract!Next

LEMMA RemoveUserFromDomainRefines ==
    ASSUME IInv, NEW ref \in Refs, NEW u \in Users, NEW by \in Users,
           RemoveUserFromDomain(ref, u, by)
    PROVE  Abstract!Next
<1> DEFINE id == Lookup(ref)
<1>1. id \in DomainIDs /\ DomainExists(id)
  BY LookupFinds DEF RemoveUserFromDomain, IInv
<1>2. /\ u \in domainUsers[id]
      /\ domainUsers' = [domainUsers EXCEPT ![id] = @ \ {u}]
      /\ domains' = domains /\ packages' = packages /\ issued' = issued
  BY DEF RemoveUserFromDomain, packageVars
<1> HIDE DEF id
<1>3. Team' = [Team EXCEPT ![id] = @ \ {u}]
  BY <1>1, <1>2 DEF Team, IInv, TypeOK
<1>4. Abstract!Revoke(id, u)
  BY <1>1, <1>2, <1>3 DEF Abstract!Revoke, Abstract!Open, Team, DomainExists
<1> QED
  BY <1>1, <1>4 DEF Abstract!Next

\* The same for the path of a package.
LEMMA SavedPackageFits ==
    ASSUME IInv, NEW pid \in PackageIDs, NEW p \in PackageRecord,
           DomainExists(p.domain), SavePackage(pid, p)
    PROVE  /\ p \in Abstract!Packages
           /\ Abstract!Open(p.domain)
           /\ Abstract!PathFree(pid, p)
           /\ packages' = [packages EXCEPT ![pid] = p]
<1>1. /\ p.domain # Nil /\ p.path # Nil /\ p.repo \in ValidRepos
      /\ indexPath[p.domain][p.path] \in {Nil, pid}
      /\ packages' = [packages EXCEPT ![pid] = p]
  BY DEF SavePackage, ValidPackage
<1>2. p.domain \in DomainIDs /\ p.path \in Paths
  BY <1>1 DEF PackageRecord
<1>3. p \in Abstract!Packages
  BY <1>1, <1>2 DEF Abstract!Packages, PackageRecord
<1>4. Nil \notin PackageIDs
  BY ConstantsAssumption DEF ConstantsAssumption
<1>5. Abstract!PathFree(pid, p)
  BY <1>1, <1>2, <1>4 DEF Abstract!PathFree, IInv, PathIndexExact
<1> QED
  BY <1>1, <1>3, <1>5 DEF Abstract!Open, DomainExists

LEMMA AddPackageRefines ==
    ASSUME IInv, NEW pid \in PackageIDs, NEW o \in PackageOptions, NEW by \in Users,
           AddPackage(pid, o, by)
    PROVE  Abstract!Next
<1> DEFINE p == UpdatedPackage(NoPackage, o)
<1>1. p \in PackageRecord
  <2>1. NoPackage \in PackageRecord
    BY DEF NoPackage, PackageRecord
  <2> QED BY <2>1, UpdatedPackageIn DEF AddPackage, IInv
<1>2. DomainExists(p.domain)
  <2>1. o.domain \in Refs /\ Lookup(o.domain) # Nil /\ p.domain = Lookup(o.domain)
    BY DEF AddPackage, DomainResolves, PackageOptions, UpdatedPackage
  <2> QED BY <2>1, LookupFinds DEF IInv
<1>3. /\ SavePackage(pid, p)
      /\ pid \notin issued
      /\ issued' = issued \cup {pid}
      /\ domains' = domains /\ domainUsers' = domainUsers
  BY DEF AddPackage, domainVars
<1> HIDE DEF p
<1>4. /\ p \in Abstract!Packages
      /\ Abstract!Open(p.domain)
      /\ Abstract!PathFree(pid, p)
      /\ packages' = [packages EXCEPT ![pid] = p]
  BY <1>1, <1>2, <1>3, SavedPackageFits
<1>5. Abstract!Publish(pid, p)
  BY <1>3, <1>4 DEF Abstract!Publish, Team
<1> QED
  BY <1>4, <1>5 DEF Abstract!Next

LEMMA UpdatePackageRefines ==
    ASSUME IInv, NEW pid \in PackageIDs, NEW o \in PackageOptions, NEW by \in Users,
           UpdatePackage(pid, o, by)
    PROVE  Abstract!Next
<1> DEFINE e == packages[pid]
           p == UpdatedPackage(e, o)
<1>1. p \in PackageRecord
  BY UpdatedPackageIn DEF UpdatePackage, IInv, TypeOK
<1>2. /\ PackageExists(pid)
      /\ DomainExists(p.domain)
      /\ SavePackage(pid, p)
      /\ IsUser(e.domain, by) /\ IsUser(p.domain, by)
      /\ domains' = domains /\ domainUsers' = domainUsers /\ issued' = issued
  BY DEF UpdatePackage, domainVars
<1>3. e.domain \in DomainIDs
  BY <1>2 DEF PackageExists, IInv, TypeOK, PackageRecord
<1> HIDE DEF e, p
<1>4. /\ p \in Abstract!Packages
      /\ Abstract!Open(p.domain)
      /\ Abstract!PathFree(pid, p)
      /\ packages' = [packages EXCEPT ![pid] = p]
  BY <1>1, <1>2, SavedPackageFits
<1>5. by \in Abstract!Access(e.domain) /\ by \in Abstract!Access(p.domain)
  <2>1. \A id \in DomainIDs : IsUser(id, by) => by \in Abstract!Access(id)
    BY DEF Abstract!Access, Team, IsUser, IsOwner
  <2>2. p.domain \in DomainIDs
    BY <1>4 DEF Abstract!Packages
  <2> QED BY <1>2, <1>3, <2>1, <2>2
<1>6. Abstract!Live(pid)
  BY <1>2 DEF Abstract!Live, PackageExists
<1>7. Abstract!Revise(pid, p)
  BY <1>2, <1>4, <1>5, <1>6 DEF Abstract!Revise, Team, e
<1> QED
  BY <1>4, <1>7 DEF Abstract!Next

LEMMA DeletePackageRefines ==
    ASSUME IInv, NEW pid \in PackageIDs, NEW by \in Users, DeletePackage(pid, by)
    PROVE  Abstract!Next
<1>1. /\ PackageExists(pid)
      /\ packages' = [other \in PackageIDs |->
             IF other \in {pid} THEN NoPackage ELSE packages[other]]
      /\ domains' = domains /\ domainUsers' = domainUsers /\ issued' = issued
  BY DEF DeletePackage, RemovePackages, domainVars
<1>2. packages' = [packages EXCEPT ![pid] = NoPackage]
  BY <1>1 DEF IInv, TypeOK
<1>3. Abstract!Withdraw(pid)
  BY <1>1, <1>2 DEF Abstract!Withdraw, Abstract!Live, Abstract!NoPackage,
                    NoPackage, PackageExists, Team
<1> QED
  BY <1>3 DEF Abstract!Next

LEMMA NextRefines == IInv /\ [Next]_vars => [Abstract!Next]_(Abstract!vars)
<1> SUFFICES ASSUME IInv, [Next]_vars PROVE [Abstract!Next]_(Abstract!vars)
  OBVIOUS
<1>1. CASE UNCHANGED vars
  BY <1>1 DEF vars, domainVars, packageVars, Abstract!vars, Team
<1>2. CASE Next
  <2>1. Abstract!Next
    BY <1>2, AddDomainRefines, UpdateDomainRefines, DeleteDomainRefines,
       AddUserToDomainRefines, RemoveUserFromDomainRefines, AddPackageRefines,
       UpdatePackageRefines, DeletePackageRefines DEF Next
  <2> QED BY <2>1
<1> QED
  BY <1>1, <1>2

(***************************************************************************)
(* The packages service, with its index buckets, implements the index-free *)
(* registry (services/packages/packages.go): every transaction that        *)
(* commits is a step the registry allows.                                  *)
(***************************************************************************)
THEOREM StoreImplementsRegistry == Spec => ImplementsRegistry
BY InitRefines, NextRefines, Invariance, PTL
   DEF Spec, Abstract!Spec, ImplementsRegistry

----------------------------------------------------------------------------
(***************************************************************************)
(* The lists of domains before the first rename.  ListingSound is not      *)
(* inductive: that the entry of a name goes with the domain of that name   *)
(* needs the entry to be of the domain's current name, and that a removed  *)
(* user's entry is the domain's needs the teams and the entries to agree   *)
(* the other way, too.  A team is a set of users only until a rename.      *)
(***************************************************************************)
EntriesCurrent ==
    \A u \in Users, f \in FQDNs, id \in DomainIDs :
        indexUser[u][f] = id => domains[id].fqdn = f /\ IsUser(id, u)

TeamsAreUsers == \A id \in DomainIDs : domainUsers[id] \subseteq Users

ListsInv == TeamsAreUsers /\ UsersListDomain /\ EntriesCurrent

\* The transaction that saves a domain under a name it did not change.
LEMMA SavedDomainLists ==
    ASSUME IInv, ListsInv, NEW id \in DomainIDs, NEW d \in DomainRecord,
           SaveDomain(id, d),
           \/ domains[id] = NoDomain /\ domainUsers[id] = {}
           \/ d.fqdn = domains[id].fqdn
    PROVE  ListsInv'
<1> DEFINE e == domains[id]
           moved == Reindexed(indexUser, id, e, d)
<1>1. /\ Nil \notin Users /\ Nil \notin FQDNs /\ Nil \notin DomainIDs
  BY ConstantsAssumption DEF ConstantsAssumption
<1>2. /\ d.fqdn \in FQDNs
      /\ d.owner \in Users
      /\ domains' \in [DomainIDs -> DomainRecord]
      /\ indexUser' \in [Users -> [FQDNs -> DomainIDs \cup {Nil}]]
  BY SaveDomainTypes DEF IInv
<1>3. /\ domains'[id] = d
      /\ \A i \in DomainIDs : i # id => /\ domains'[i] = domains[i]
                                     /\ domainUsers'[i] = domainUsers[i]
  BY SaveDomainIndexes
<1>4. e \in DomainRecord /\ e.owner \in Users \cup {Nil}
  BY DEF IInv, TypeOK, DomainRecord
<1>5. Transferred(e, d) => d.fqdn = e.fqdn
  BY DEF Transferred, NoDomain
<1>6. domainUsers'[id] = IF Transferred(e, d) THEN domainUsers[id] \cup {e.owner}
                         ELSE domainUsers[id]
  <2>1. RenamedTeam(domainUsers[id], e, d) = domainUsers[id]
    BY DEF RenamedTeam
  <2>2. domainUsers'[id] =
            FormerOwnerAdded(RenamedTeam(domainUsers[id], e, d), e, d)
    BY DEF SaveDomain, IInv, TypeOK
  <2> QED BY <2>1, <2>2 DEF FormerOwnerAdded
\* The entry of the name is the domain's, for its owner and its former owner.
<1>7. \A u \in Users, f \in FQDNs : indexUser'[u][f] =
          IF Transferred(e, d) /\ u = e.owner /\ f = d.fqdn THEN id
          ELSE IF d.owner = e.owner /\ d.fqdn = e.fqdn THEN indexUser[u][f]
          ELSE IF u = d.owner /\ f = d.fqdn THEN id
          ELSE IF u = e.owner /\ f = e.fqdn THEN Nil
          ELSE indexUser[u][f]
  <2>1. indexUser \in [Users -> [FQDNs -> DomainIDs \cup {Nil}]]
    BY DEF IInv, TypeOK
  <2>2. indexUser' = FormerOwnerListed(moved, id, e, d)
    BY DEF SaveDomain
  <2>3. d.fqdn # Nil /\ d.owner # Nil
    BY <1>1, <1>2
  <2> HIDE DEF e
  <2>4. /\ moved \in [Users -> [FQDNs -> DomainIDs \cup {Nil}]]
        /\ \A u \in Users, f \in FQDNs : moved[u][f] =
               IF d.owner = e.owner /\ d.fqdn = e.fqdn THEN indexUser[u][f]
               ELSE IF u = d.owner /\ f = d.fqdn THEN id
               ELSE IF u = e.owner /\ f = e.fqdn THEN Nil
               ELSE indexUser[u][f]
    BY <1>4, <2>1, <2>3, ReindexedIn
  <2> HIDE DEF moved
  <2>5. ASSUME NEW u \in Users, NEW f \in FQDNs
        PROVE  indexUser'[u][f] =
                   IF Transferred(e, d) /\ u = e.owner /\ f = d.fqdn THEN id
                   ELSE moved[u][f]
    BY <1>2, <1>4, <2>2, <2>4 DEF FormerOwnerListed, Put, Transferred
  <2> QED BY <2>4, <2>5
\* No other domain has the name, so no other domain has an entry under it.
<1>8. \A i \in DomainIDs : i # id => domains[i].fqdn # d.fqdn
  BY <1>1, <1>2 DEF SaveDomain, ValidDomain, IInv, FQDNIndexExact
<1>9. \A i \in DomainIDs : i # id => domains[i].fqdn # e.fqdn \/ e.fqdn = Nil
  BY <1>4 DEF IInv, FQDNIndexExact, DomainRecord
<1>10. \A u \in Users, f \in FQDNs, i \in DomainIDs :
           indexUser[u][f] = i => domains[i].fqdn = f /\ (domains[i].owner = u \/ u \in domainUsers[i])
  BY DEF ListsInv, EntriesCurrent, IsUser, IsOwner
<1>11. \A i \in DomainIDs, u \in Users :
           domains[i].fqdn # Nil /\ u \in domainUsers[i] => indexUser[u][domains[i].fqdn] = i
  BY DEF ListsInv, UsersListDomain, DomainExists
<1>12. e.fqdn = d.fqdn \/ (e.fqdn = Nil /\ e.owner = Nil /\ domainUsers[id] = {})
  BY DEF NoDomain
<1>13. Transferred(e, d) <=> e.owner # Nil /\ d.owner # e.owner
  BY DEF Transferred
<1>14. TeamsAreUsers'
  BY <1>3, <1>4, <1>6, <1>13 DEF ListsInv, TeamsAreUsers
<1> HIDE DEF e, moved
<1>15. UsersListDomain'
  <2> SUFFICES ASSUME NEW i \in DomainIDs, NEW u \in Users,
                      DomainExists(i)', u \in domainUsers'[i]
               PROVE  indexUser'[u][domains'[i].fqdn] = i
    BY DEF UsersListDomain
  <2>1. CASE i = id
    <3>1. CASE u \in domainUsers[id]
      <4>1. e.fqdn = d.fqdn
        BY <1>12, <3>1
      <4>2. indexUser[u][d.fqdn] = id
        BY <1>1, <1>2, <1>11, <3>1, <4>1 DEF e
      <4> QED BY <1>1, <1>2, <1>3, <1>7, <1>13, <2>1, <4>1, <4>2
    <3>2. CASE u \notin domainUsers[id]
      <4>1. Transferred(e, d) /\ u = e.owner
        BY <1>6, <2>1, <3>2
      <4> QED BY <1>2, <1>3, <1>7, <2>1, <4>1
    <3> QED BY <3>1, <3>2
  <2>2. CASE i # id
    <3>1. domains'[i] = domains[i] /\ u \in domainUsers[i] /\ domains[i].fqdn \in FQDNs
      BY <1>2, <1>3, <2>2 DEF DomainExists, IInv, TypeOK, DomainRecord
    <3>2. indexUser[u][domains[i].fqdn] = i
      BY <1>1, <1>11, <3>1
    <3> QED BY <1>1, <1>7, <1>8, <1>9, <2>2, <3>1, <3>2
  <2> QED BY <2>1, <2>2
<1>16. EntriesCurrent'
  <2> SUFFICES ASSUME NEW u \in Users, NEW f \in FQDNs, NEW i \in DomainIDs,
                      indexUser'[u][f] = i
               PROVE  domains'[i].fqdn = f /\ (domains'[i].owner = u \/ u \in domainUsers'[i])
    BY DEF EntriesCurrent, IsUser, IsOwner
  <2>1. CASE i = id
    BY <1>1, <1>2, <1>3, <1>6, <1>7, <1>10, <1>12, <1>13, <2>1 DEF e
  <2>2. CASE i # id
    BY <1>1, <1>3, <1>7, <1>10, <2>2
  <2> QED BY <2>1, <2>2
<1> QED
  BY <1>14, <1>15, <1>16 DEF ListsInv

LEMMA DeletedDomainLists ==
    ASSUME IInv, ListsInv, NEW ref \in Refs, NEW by \in Users, DeleteDomain(ref, by)
    PROVE  ListsInv'
<1> DEFINE id == Lookup(ref)
<1>1. /\ id \in DomainIDs /\ DomainExists(id)
      /\ domains'[id] = NoDomain
      /\ \A i \in DomainIDs : i # id => domains'[i] = domains[i]
  BY DeleteDomainRecords
<1>2. /\ indexUser' = [u \in Users |-> [f \in FQDNs |->
                           IF IsUser(id, u) /\ f = domains[id].fqdn THEN Nil
                           ELSE indexUser[u][f]]]
      /\ domainUsers' = [domainUsers EXCEPT ![id] = {}]
  BY DEF DeleteDomain, ForgetUsers
<1>3. Nil \notin DomainIDs
  BY ConstantsAssumption DEF ConstantsAssumption
<1> HIDE DEF id
<1>4. /\ domainUsers'[id] = {}
      /\ \A i \in DomainIDs : i # id => domainUsers'[i] = domainUsers[i]
  BY <1>1, <1>2 DEF IInv, TypeOK
<1>5. \A i \in DomainIDs : i # id => domains[i].fqdn # domains[id].fqdn
  BY <1>1 DEF IInv, TypeOK, FQDNIndexExact, DomainRecord, DomainExists
<1>6. TeamsAreUsers'
  BY <1>4 DEF ListsInv, TeamsAreUsers
<1>7. UsersListDomain'
  <2> SUFFICES ASSUME NEW i \in DomainIDs, NEW u \in Users,
                      DomainExists(i)', u \in domainUsers'[i]
               PROVE  indexUser'[u][domains'[i].fqdn] = i
    BY DEF UsersListDomain
  <2>1. i # id /\ domains'[i] = domains[i] /\ u \in domainUsers[i]
    BY <1>1, <1>4
  <2>2. domains[i].fqdn \in FQDNs /\ indexUser[u][domains[i].fqdn] = i
    BY <2>1 DEF ListsInv, UsersListDomain, DomainExists, IInv, TypeOK, DomainRecord
  <2> QED BY <1>2, <1>5, <2>1, <2>2
<1>8. EntriesCurrent'
  <2> SUFFICES ASSUME NEW u \in Users, NEW f \in FQDNs, NEW i \in DomainIDs,
                      indexUser'[u][f] = i
               PROVE  (domains[i].fqdn = f /\ IsUser(i, u))'
    BY DEF EntriesCurrent
  <2>1. indexUser[u][f] = i /\ ~(IsUser(id, u) /\ f = domains[id].fqdn)
    BY <1>2, <1>3
  <2>2. domains[i].fqdn = f /\ IsUser(i, u)
    BY <2>1 DEF ListsInv, EntriesCurrent
  <2> QED BY <1>1, <1>4, <2>1, <2>2 DEF IsUser, IsOwner
<1> QED
  BY <1>6, <1>7, <1>8 DEF ListsInv

LEMMA TeamChangeLists ==
    ASSUME IInv, ListsInv, NEW ref \in Refs, NEW u \in Users, NEW by \in Users,
           AddUserToDomain(ref, u, by) \/ RemoveUserFromDomain(ref, u, by)
    PROVE  ListsInv'
<1> DEFINE id == Lookup(ref)
           g == domains[id].fqdn
<1>1. id \in DomainIDs /\ DomainExists(id)
  BY LookupFinds DEF AddUserToDomain, RemoveUserFromDomain, IInv
<1>2. g \in FQDNs
  BY <1>1 DEF IInv, TypeOK, DomainRecord, DomainExists
<1>3. /\ domains' = domains
      /\ \/ /\ domainUsers' = [domainUsers EXCEPT ![id] = @ \cup {u}]
            /\ indexUser' = Put(indexUser, u, g, id)
         \/ /\ domainUsers' = [domainUsers EXCEPT ![id] = @ \ {u}]
            /\ indexUser' = Drop(indexUser, u, g)
  BY DEF AddUserToDomain, RemoveUserFromDomain
<1>4. Nil \notin DomainIDs /\ Nil \notin Users /\ Nil \notin FQDNs
  BY ConstantsAssumption DEF ConstantsAssumption
<1>5. \A i \in DomainIDs : i # id => domains[i].fqdn # g
  BY <1>1, <1>2 DEF IInv, FQDNIndexExact
<1> HIDE DEF id, g
<1>6. PICK kept \in {id, Nil} :
          /\ kept = id => domainUsers'[id] = domainUsers[id] \cup {u}
          /\ kept = Nil => domainUsers'[id] = domainUsers[id] \ {u}
          /\ \A i \in DomainIDs : i # id => domainUsers'[i] = domainUsers[i]
          /\ \A v \in Users, f \in FQDNs : indexUser'[v][f] =
                 IF v = u /\ f = g THEN kept ELSE indexUser[v][f]
  <2>1. domainUsers \in [DomainIDs -> SUBSET (Users \cup FQDNs)]
    BY DEF IInv, TypeOK
  <2>2. indexUser \in [Users -> [FQDNs -> DomainIDs \cup {Nil}]]
    BY DEF IInv, TypeOK
  <2>3. CASE /\ domainUsers' = [domainUsers EXCEPT ![id] = @ \cup {u}]
             /\ indexUser' = Put(indexUser, u, g, id)
    BY <1>1, <1>2, <1>4, <2>1, <2>2, <2>3 DEF Put
  <2>4. CASE /\ domainUsers' = [domainUsers EXCEPT ![id] = @ \ {u}]
             /\ indexUser' = Drop(indexUser, u, g)
    BY <1>1, <1>2, <1>4, <2>1, <2>2, <2>4 DEF Drop
  <2> QED BY <1>3, <2>3, <2>4
<1>7. TeamsAreUsers'
  BY <1>6 DEF ListsInv, TeamsAreUsers
<1>8. UsersListDomain'
  <2> SUFFICES ASSUME NEW i \in DomainIDs, NEW v \in Users,
                      DomainExists(i)', v \in domainUsers'[i]
               PROVE  indexUser'[v][domains'[i].fqdn] = i
    BY DEF UsersListDomain
  <2>1. domains'[i] = domains[i] /\ domains[i].fqdn \in FQDNs
    BY <1>3 DEF DomainExists, IInv, TypeOK, DomainRecord
  <2>2. v \in domainUsers[i] => indexUser[v][domains[i].fqdn] = i
    BY <1>4, <2>1 DEF ListsInv, UsersListDomain, DomainExists
  <2>3. CASE i = id
    BY <1>1, <1>4, <1>6, <2>1, <2>2, <2>3 DEF g
  <2>4. CASE i # id
    BY <1>5, <1>6, <2>1, <2>2, <2>4
  <2> QED BY <2>3, <2>4
<1>9. EntriesCurrent'
  <2> SUFFICES ASSUME NEW v \in Users, NEW f \in FQDNs, NEW i \in DomainIDs,
                      indexUser'[v][f] = i
               PROVE  domains[i].fqdn = f /\ (domains[i].owner = v \/ v \in domainUsers'[i])
    BY <1>3 DEF EntriesCurrent, IsUser, IsOwner
  <2>1. CASE v = u /\ f = g
    BY <1>1, <1>4, <1>6, <2>1 DEF g
  <2>2. CASE ~(v = u /\ f = g)
    <3>1. domains[i].fqdn = f /\ (domains[i].owner = v \/ v \in domainUsers[i])
      BY <1>6, <2>2 DEF ListsInv, EntriesCurrent, IsUser, IsOwner
    <3> QED BY <1>6, <2>2, <3>1 DEF g
  <2> QED BY <2>1, <2>2
<1> QED
  BY <1>7, <1>8, <1>9 DEF ListsInv

LEMMA ListsStep == IInv /\ ListsInv /\ [Next]_vars /\ Unrenamed => ListsInv'
<1> SUFFICES ASSUME IInv, ListsInv, [Next]_vars, Unrenamed PROVE ListsInv'
  OBVIOUS
<1>1. ASSUME NEW id \in DomainIDs, NEW o \in DomainOptions, AddDomain(id, o)
      PROVE  ListsInv'
  BY <1>1, AddDomainRecords, SavedDomainLists DEF AddDomain
<1>2. ASSUME NEW ref \in Refs, NEW o \in DomainOptions, NEW by \in Users,
             UpdateDomain(ref, o, by)
      PROVE  ListsInv'
  <2> DEFINE id == Lookup(ref)
             d == UpdatedDomain(domains[id], o)
  <2>1. /\ id \in DomainIDs /\ DomainExists(id)
        /\ d \in DomainRecord
        /\ SaveDomain(id, d)
        /\ domains'[id] = d /\ domains'[id].fqdn # Nil
    BY <1>2, UpdateDomainRecords
  <2> HIDE DEF id, d
  <2>2. d.fqdn = domains[id].fqdn
    BY <2>1 DEF Unrenamed, DomainExists
  <2> QED BY <2>1, <2>2, SavedDomainLists
<1>3. ASSUME NEW ref \in Refs, NEW by \in Users, DeleteDomain(ref, by)
      PROVE  ListsInv'
  BY <1>3, DeletedDomainLists
<1>4. ASSUME NEW ref \in Refs, NEW u \in Users, NEW by \in Users,
             AddUserToDomain(ref, u, by) \/ RemoveUserFromDomain(ref, u, by)
      PROVE  ListsInv'
  BY <1>4, TeamChangeLists
<1>5. ASSUME UNCHANGED domainVars
      PROVE  ListsInv'
  BY <1>5 DEF domainVars, ListsInv, TeamsAreUsers, UsersListDomain, EntriesCurrent,
              IsUser, IsOwner, DomainExists
<1>6. ASSUME NEW pid \in PackageIDs, NEW o \in PackageOptions, NEW by \in Users,
             AddPackage(pid, o, by) \/ UpdatePackage(pid, o, by)
      PROVE  ListsInv'
  BY <1>5, <1>6 DEF AddPackage, UpdatePackage
<1>7. ASSUME NEW pid \in PackageIDs, NEW by \in Users, DeletePackage(pid, by)
      PROVE  ListsInv'
  BY <1>5, <1>7 DEF DeletePackage
<1>8. CASE UNCHANGED vars
  BY <1>5, <1>8 DEF vars
<1> QED
  BY <1>1, <1>2, <1>3, <1>4, <1>6, <1>7, <1>8 DEF Next

(***************************************************************************)
(* Until a stored domain changes its name, DomainsByUser lists to every    *)
(* user the domains of his teams and no domain he has no access to         *)
(* (domain.go: save, addUser, removeUser, delete).                         *)
(***************************************************************************)
THEOREM ListingsAreFaithful == RenamedSpec => []ListingsFaithful
<1> DEFINE RInv == IInv /\ (renamed \/ ListsInv)
<1>1. RenamedInit => RInv
  BY InitKeeps, ConstantsAssumption
     DEF ConstantsAssumption, RenamedInit, Init, ListsInv, TeamsAreUsers, UsersListDomain,
         EntriesCurrent
<1>2. RInv /\ [RenamedNext]_<<vars, renamed>> => RInv'
  <2> SUFFICES ASSUME RInv, [RenamedNext]_<<vars, renamed>> PROVE RInv'
    OBVIOUS
  <2>1. [Next]_vars /\ IInv'
    BY NextKeeps DEF RenamedNext
  <2>2. CASE renamed
    BY <2>1, <2>2 DEF RenamedNext
  <2>3. CASE ~renamed /\ RenamedNext
    BY <2>1, <2>3, ListsStep DEF RenamedNext
  <2>4. CASE ~renamed /\ UNCHANGED <<vars, renamed>>
    BY <2>1, <2>4 DEF ListsInv, TeamsAreUsers, UsersListDomain, EntriesCurrent,
                      IsUser, IsOwner, DomainExists, vars, domainVars
  <2> QED BY <2>2, <2>3, <2>4
<1>3. RInv => ListingsFaithful
  <2> SUFFICES ASSUME IInv, ListsInv PROVE UsersListDomain /\ ListingSound /\ ReportedUsersAreUsers
    BY DEF ListingsFaithful
  <2>1. Nil \notin FQDNs
    BY ConstantsAssumption DEF ConstantsAssumption
  <2>2. ListingSound
    <3> SUFFICES ASSUME NEW u \in Users, NEW id \in Listed(indexUser, u)
                 PROVE  DomainExists(id) /\ IsUser(id, u)
      BY DEF ListingSound
    <3>1. PICK f \in FQDNs : indexUser[u][f] = id /\ id \in DomainIDs
      BY DEF Listed, IInv, TypeOK
    <3> QED BY <2>1, <3>1 DEF ListsInv, EntriesCurrent, DomainExists
  <2> QED BY <2>2 DEF ListsInv, TeamsAreUsers, ReportedUsersAreUsers, ReportedUsers
<1> QED
  BY <1>1, <1>2, <1>3, PTL DEF RenamedSpec
=============================================================================
