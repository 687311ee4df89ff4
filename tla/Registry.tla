------------------------------ MODULE Registry ------------------------------
(***************************************************************************)
(* What the packages service promises its callers                          *)
(* (services/packages/packages.go), without saying how it is stored:       *)
(* domains with a unique name, an owner and a team; packages with a unique *)
(* path in their domain; and who may change what.  There is no index here: *)
(* uniqueness is a quantifier over the tables.                             *)
(***************************************************************************)
CONSTANTS Users, DomainIDs, PackageIDs, FQDNs, Paths, Repos, Flags, Nil

VARIABLES
    domains,   \* domain id -> [fqdn, owner, flags]
    team,      \* domain id -> the users with access beside the owner
    packages,  \* package id -> [domain, path, repo, disabled]
    issued     \* ids ever given out

vars == <<domains, team, packages, issued>>

Domains == [fqdn : FQDNs, owner : Users, flags : SUBSET Flags]
Packages == [domain : DomainIDs, path : Paths, repo : Repos, disabled : BOOLEAN]

NoDomain == [fqdn |-> Nil, owner |-> Nil, flags |-> {}]
NoPackage == [domain |-> Nil, path |-> Nil, repo |-> Nil, disabled |-> FALSE]

Open(id) == domains[id].fqdn # Nil
Live(pid) == packages[pid].domain # Nil
Access(id) == {domains[id].owner} \cup team[id]

Init ==
    /\ domains = [id \in DomainIDs |-> NoDomain]
    /\ team = [id \in DomainIDs |-> {}]
    /\ packages = [pid \in PackageIDs |-> NoPackage]
    /\ issued = {}

NameFree(id, f) == \A other \in DomainIDs \ {id} : domains[other].fqdn # f

PathFree(pid, p) ==
    \A other \in PackageIDs \ {pid} :
        ~(packages[other].domain = p.domain /\ packages[other].path = p.path)

\* Anyone may add a domain, for anyone.
Register(id, d) ==
    /\ id \notin issued
    /\ NameFree(id, d.fqdn)
    /\ domains' = [domains EXCEPT ![id] = d]
    /\ issued' = issued \cup {id}
    /\ UNCHANGED <<team, packages>>

\* The owner changes the record; an owner who gives the domain away joins
\* the team.
Amend(id, d) ==
    /\ Open(id)
    /\ NameFree(id, d.fqdn)
    /\ domains' = [domains EXCEPT ![id] = d]
    /\ team' = [team EXCEPT ![id] =
                    IF d.owner = domains[id].owner THEN @
                    ELSE @ \cup {domains[id].owner}]
    /\ UNCHANGED <<packages, issued>>

\* A domain goes with its team and all of its packages, and nothing else.
Close(id) ==
    /\ Open(id)
    /\ domains' = [domains EXCEPT ![id] = NoDomain]
    /\ team' = [team EXCEPT ![id] = {}]
    /\ packages' = [pid \in PackageIDs |->
                        IF packages[pid].domain = id THEN NoPackage
                        ELSE packages[pid]]
    /\ UNCHANGED issued

Grant(id, u) ==
    /\ Open(id)
    /\ u \notin Access(id)
    /\ team' = [team EXCEPT ![id] = @ \cup {u}]
    /\ UNCHANGED <<domains, packages, issued>>

\* An owner can be on the team too, when the domain was given to a member.
Revoke(id, u) ==
    /\ Open(id)
    /\ u \in team[id]
    /\ team' = [team EXCEPT ![id] = @ \ {u}]
    /\ UNCHANGED <<domains, packages, issued>>

Publish(pid, p) ==
    /\ pid \notin issued
    /\ Open(p.domain)
    /\ PathFree(pid, p)
    /\ packages' = [packages EXCEPT ![pid] = p]
    /\ issued' = issued \cup {pid}
    /\ UNCHANGED <<domains, team>>

\* A package changes its domain only by someone with access to both.
Revise(pid, p) ==
    /\ Live(pid)
    /\ Open(p.domain)
    /\ Access(packages[pid].domain) \cap Access(p.domain) # {}
    /\ PathFree(pid, p)
    /\ packages' = [packages EXCEPT ![pid] = p]
    /\ UNCHANGED <<domains, team, issued>>

Withdraw(pid) ==
    /\ Live(pid)
    /\ packages' = [packages EXCEPT ![pid] = NoPackage]
    /\ UNCHANGED <<domains, team, issued>>

Next ==
    \/ \E id \in DomainIDs, d \in Domains : Register(id, d) \/ Amend(id, d)
    \/ \E id \in DomainIDs : Close(id)
    \/ \E id \in DomainIDs, u \in Users : Grant(id, u) \/ Revoke(id, u)
    \/ \E pid \in PackageIDs, p \in Packages : Publish(pid, p) \/ Revise(pid, p)
    \/ \E pid \in PackageIDs : Withdraw(pid)

Spec == Init /\ [][Next]_vars
=============================================================================
