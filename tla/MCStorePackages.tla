-------------------------- MODULE MCStorePackages --------------------------
(***************************************************************************)
(* MCPackagesStore with the registry it implements.  The run explores the  *)
(* union of two parts of the state space: two users and packages on nested *)
(* paths, and one user and packages also on paths that change when they    *)
(* are saved again.                                                        *)
(***************************************************************************)
EXTENDS MCPackagesStore, PackagesStoreRefinement, FiniteSets

PackagesStored == {p \in PackageIDs : packages[p].domain # Nil}
PathsUsed == {packages[p].path : p \in PackagesStored}
UsersKnown ==
    {domains[id].owner : id \in {d \in DomainIDs : DomainExists(d)}}
        \cup UNION {domainUsers[id] : id \in DomainIDs}

Bound ==
    \/ PathsUsed \subseteq NestedPaths
    \/ Cardinality(UsersKnown) <= 1
=============================================================================
