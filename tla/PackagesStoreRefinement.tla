---------------------- MODULE PackagesStoreRefinement ----------------------
(***************************************************************************)
(* The store implements the registry: forget the indexes, and the names    *)
(* that save leaves among the users of a renamed domain.                   *)
(***************************************************************************)
EXTENDS PackagesStore

Team == [id \in DomainIDs |-> domainUsers[id] \cap Users]

Abstract == INSTANCE Registry WITH team <- Team, Repos <- ValidRepos

(***************************************************************************)
(* Every transaction of the packages service, which decides by its index   *)
(* buckets, is a step the index-free registry allows: names and paths stay *)
(* unique, access is kept, and a deletion takes what it should and no more.*)
(***************************************************************************)
ImplementsRegistry == Abstract!Spec
=============================================================================
