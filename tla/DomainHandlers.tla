--------------------------- MODULE DomainHandlers ---------------------------
(***************************************************************************)
(* The handlers that change domains, of the API (server/api_domains.go)    *)
(* and of the web interface (server/feapi_packages.go).  Adding and        *)
(* renaming a domain reads the domain, asks whether the name is taken,     *)
(* looks for a token in the DNS, and calls the packages service, each by   *)
(* itself; the service looks at the domain again.                          *)
(*                                                                         *)
(* A row is what these handlers read of a domain in PackagesStore.  Names  *)
(* of ForbiddenDomains and names that are no public domains are refused    *)
(* whatever the state is, and are no members of Names.                     *)
(***************************************************************************)
CONSTANTS
    DomainIds,
    Names,          \* names a domain may have
    Trusted,        \* those that need no token: TrustedDomains, the site's own
    Persons,
    Requests,       \* requests at the same time
    New,            \* instead of a reference: add a domain
    None

ASSUME DomainHandlersAssumption ==
    /\ Trusted \subseteq Names
    /\ {New, None} \cap (DomainIds \cup Names \cup Persons) = {}

VARIABLES
    rows,           \* domain id -> name and owner
    drawnIds,       \* ids are never drawn again
    proved,         \* history: names for which a token was found
    request         \* request -> where its handler is

handlersVars == <<rows, drawnIds, proved, request>>

NoRow == [fqdn |-> None, owner |-> None]
NoRequestYet == [step |-> "none", user |-> None, ref |-> None, fqdn |-> None, owner |-> None]

HandlersInit ==
    /\ rows = [i \in DomainIds |-> NoRow]
    /\ drawnIds = {}
    /\ proved = {}
    /\ request = [q \in Requests |-> NoRequestYet]

\* A reference is an id or a name.
Referred(ref) == {i \in DomainIds : rows[i] # NoRow /\ (i = ref \/ rows[i].fqdn = ref)}
Owned(ref, u) == {i \in Referred(ref) : rows[i].owner = u}

Steps(q, step) == request' = [request EXCEPT ![q].step = step]

----------------------------------------------------------------------------
\* Mutant: only the name of a new domain is verified.
NeedsTokenNew(ref, fqdn) == fqdn # None /\ fqdn \notin Trusted /\ ref = New

\* "New or changed domain fqdn verification"
NeedsToken(ref, fqdn) ==
    /\ fqdn \notin Trusted \cup {None}
    /\ ref = New \/ \A i \in Referred(ref) : rows[i].fqdn # fqdn

\* updateDomainAPIHandler and domainFEAPIHandler, until the name is compared with
\* the one the domain has.
UpdateDomainAPI(q, u, ref, fqdn, owner) ==
    /\ request[q] = NoRequestYet
    /\ IF ref = New THEN fqdn # None ELSE Referred(ref) # {}
    /\ request' = [request EXCEPT ![q] =
           [step |-> IF NeedsToken(ref, fqdn) THEN "find" ELSE "write",
            user |-> u, ref |-> ref, fqdn |-> fqdn, owner |-> owner]]
    /\ UNCHANGED <<rows, drawnIds, proved>>

\* domainOwnerChangeFEAPIHandler
OwnerChangeAPI(q, u, ref, owner) ==
    /\ request[q] = NoRequestYet
    /\ Owned(ref, u) # {} /\ owner # u
    /\ request' = [request EXCEPT ![q] =
           [step |-> "write", user |-> u, ref |-> ref, fqdn |-> None, owner |-> owner]]
    /\ UNCHANGED <<rows, drawnIds, proved>>

FindName(q) ==
    /\ request[q].step = "find"
    /\ Referred(request[q].fqdn) = {}
    /\ Steps(q, "verify")
    /\ UNCHANGED <<rows, drawnIds, proved>>

\* verifyDomain finds the token of the user under the name or a parent of it.
Verify(q) ==
    /\ request[q].step = "verify"
    /\ proved' = proved \cup {request[q].fqdn}
    /\ Steps(q, "write")
    /\ UNCHANGED <<rows, drawnIds>>

\* The name is taken, there is no token, or the service fails.
Refuse(q) ==
    /\ request[q].step # "none"
    /\ request' = [request EXCEPT ![q] = NoRequestYet]
    /\ UNCHANGED <<rows, drawnIds, proved>>

\* PackagesService.AddDomain
WriteNew(q, i) ==
    LET r == request[q]
    IN  /\ r.step = "write" /\ r.ref = New
        /\ i \notin drawnIds
        /\ Referred(r.fqdn) = {}
        /\ rows' = [rows EXCEPT ![i] =
               [fqdn |-> r.fqdn, owner |-> IF r.owner = None THEN r.user ELSE r.owner]]
        /\ drawnIds' = drawnIds \cup {i}
        /\ request' = [request EXCEPT ![q] = NoRequestYet]
        /\ UNCHANGED proved

\* PackagesService.UpdateDomain
WriteChange(q) ==
    LET r == request[q]
    IN  /\ r.step = "write" /\ r.ref # New
        /\ \E i \in Owned(r.ref, r.user) :
               /\ r.fqdn # None => Referred(r.fqdn) \subseteq {i}
               /\ rows' = [rows EXCEPT ![i] =
                      [fqdn |-> IF r.fqdn = None THEN @.fqdn ELSE r.fqdn,
                       owner |-> IF r.owner = None THEN @.owner ELSE r.owner]]
        /\ request' = [request EXCEPT ![q] = NoRequestYet]
        /\ UNCHANGED <<drawnIds, proved>>

\* deleteDomainAPIHandler and domainDeleteFEAPIHandler
DeleteDomainAPI(u, ref) ==
    /\ \E i \in Owned(ref, u) : rows' = [rows EXCEPT ![i] = NoRow]
    /\ UNCHANGED <<drawnIds, proved, request>>

HandlersNext ==
    \/ \E q \in Requests, u \in Persons, owner \in Persons \cup {None} :
           \/ \E ref \in DomainIds \cup Names \cup {New}, fqdn \in Names \cup {None} :
                  UpdateDomainAPI(q, u, ref, fqdn, owner)
           \/ \E ref \in DomainIds \cup Names : owner # None /\ OwnerChangeAPI(q, u, ref, owner)
    \/ \E q \in Requests : FindName(q) \/ Verify(q) \/ Refuse(q) \/ WriteChange(q)
    \/ \E q \in Requests, i \in DomainIds : WriteNew(q, i)
    \/ \E u \in Persons, ref \in DomainIds \cup Names : DeleteDomainAPI(u, ref)

HandlersSpec == HandlersInit /\ [][HandlersNext]_handlersVars

----------------------------------------------------------------------------
(***************************************************************************)
(* Properties                                                              *)
(***************************************************************************)

(***************************************************************************)
(* A domain has only a name that is trusted or for which a token was       *)
(* found, although a request acts on what it read of the domain before     *)
(* others renamed, deleted, added or transferred domains.                  *)
(***************************************************************************)
EveryNameVerified ==
    \A i \in DomainIds : rows[i].fqdn \in Trusted \cup proved \cup {None}
=============================================================================
