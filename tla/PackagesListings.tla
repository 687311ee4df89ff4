-------------------------- MODULE PackagesListings --------------------------
(***************************************************************************)
(* PackagesStore with a history variable: whether a stored domain has      *)
(* changed its name, which leaves the index of users behind (RenamedTeam). *)
(***************************************************************************)
EXTENDS PackagesStore

VARIABLE renamed

\* No stored domain changes its name.
Unrenamed ==
    \A id \in DomainIDs :
        DomainExists(id) /\ DomainExists(id)' => domains'[id].fqdn = domains[id].fqdn

RenamedInit == Init /\ renamed = FALSE
RenamedNext == Next /\ renamed' = (renamed \/ ~Unrenamed)
RenamedSpec == RenamedInit /\ [][RenamedNext]_<<vars, renamed>>

(***************************************************************************)
(* As long as no domain has changed its name, the lists of domains are     *)
(* faithful: a user of a domain finds it among DomainsByUser, the list has *)
(* only domains that exist and that the user has access to, and whom       *)
(* DomainUsers reports are users.                                          *)
(***************************************************************************)
ListingsFaithful ==
    renamed \/ (UsersListDomain /\ ListingSound /\ ReportedUsersAreUsers)
=============================================================================
