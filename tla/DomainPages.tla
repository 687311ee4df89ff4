----------------------------- MODULE DomainPages ----------------------------
(***************************************************************************)
(* Listings of domains and packages by pages (Domains, domainsByUser and   *)
(* PackagesByDomain of services/packages/bolt/service.go), and the pages   *)
(* about a domain, of the web interface (server/fe_packages.go) and of the *)
(* API, which walk through all domains of the user to find out whether the *)
(* domain is one of them, while domains are granted, revoked, renamed and  *)
(* deleted.                                                                *)
(*                                                                         *)
(* What moves here is the bucket of one user: names of domains, and the    *)
(* domain that each leads to.  A name is its place in the order of names.  *)
(* A rename leaves the entries of the users of the domain under its former *)
(* name (domain.go:249), so an entry may lead to a domain that has another *)
(* name by now, two entries may lead to one domain, and an entry may lead  *)
(* to a domain that was deleted under another name.                        *)
(***************************************************************************)
EXTENDS Integers, FiniteSets, Sequences

CONSTANTS
    LastDomain,     \* names of domains are 1 .. LastDomain
    PageSize,       \* 20
    Domains,        \* their ids
    NoEntry         \* nothing under a name

ASSUME DomainPagesAssumption ==
    LastDomain \in Nat /\ PageSize \in Nat \ {0} /\ NoEntry \notin Domains

DomainKeys == 1 .. LastDomain
First == 0          \* the empty token

VARIABLES
    listing,        \* the user's bucket of Index_UserID_FQDN_DomainID
    gone,           \* the domains that were deleted
    page,           \* the page he asked for
    stayed,         \* history: the entries that led to its domain ever since,
    was,            \* whether one did at some time since, and
    disturbed       \* whether the listing could not be read on at some time since

pagesVars == <<listing, gone, page, stayed, was, disturbed>>

NoPage == [kind |-> "none", domain |-> NoEntry, owner |-> FALSE, token |-> First,
           entries |-> <<>>, authorized |-> FALSE, step |-> "none"]

PagesInit ==
    /\ listing \in [DomainKeys -> Domains \cup {NoEntry}]
    /\ gone = {}
    /\ page = NoPage
    /\ stayed = {}
    /\ was = FALSE
    /\ disturbed = FALSE

----------------------------------------------------------------------------
\* The order of a cursor: as many keys as a place counts come no later.
Ascending(keys) ==
    [i \in 1 .. Cardinality(keys) |-> CHOOSE k \in keys : Cardinality({x \in keys : x <= k}) = i]

\* Mutant: the page ends where the next begins.
WalkedOneMore(keys, start, limit) ==
    LET ahead == Ascending({k \in keys : k >= start})
        n == IF Len(ahead) < limit THEN Len(ahead) ELSE limit
    IN  [keys |-> SubSeq(ahead, 1, n),
         next |-> IF Len(ahead) > n + 1 THEN ahead[n + 2] ELSE First]

\* The cursor from the start over at most limit keys, and the key behind them.
Walked(keys, start, limit) ==
    LET ahead == Ascending({k \in keys : k >= start})
        n == IF Len(ahead) < limit THEN Len(ahead) ELSE limit
    IN  [keys |-> SubSeq(ahead, 1, n),
         next |-> IF Len(ahead) > n THEN ahead[n + 1] ELSE First]

\* Previous: the cursor back over at most limit keys.
Previous(keys, start, limit) ==
    LET behind == Ascending({k \in keys : k < start})
    IN  IF start = First \/ behind = <<>> THEN First
        ELSE behind[IF Len(behind) < limit THEN 1 ELSE Len(behind) - limit + 1]

\* The names that have an entry.
Entries == {k \in DomainKeys : listing[k] # NoEntry}

\* A listing that starts at a key that is not there is an error.
ListingFails(keys, start) == start # First /\ start \notin keys

\* A deleted domain behind any entry of a page is the error of the whole page.
PageFails(keys) == \E i \in DOMAIN keys : listing[keys[i]] \in gone

\* On either error the handlers stop the walk and go on with what they have.
WalkStops ==
    \/ ListingFails(Entries, page.token)
    \/ PageFails(Walked(Entries, page.token, PageSize).keys)

----------------------------------------------------------------------------
LedTo(d) == {k \in DomainKeys : listing[k] = d}

\* What a walk that is at the token cannot get over: the entry of the token is
\* not there, or one that it has yet to read leads to a deleted domain.
Obstacle(token) ==
    \/ ListingFails(Entries, token)
    \/ \E k \in DomainKeys : k >= token /\ listing[k] \in gone

\* A handler begins with the domain, or with the package and its domain, and
\* keeps whether the user owns it; then it walks.
Ask(kind, d, owner) ==
    /\ page = NoPage
    /\ d \notin gone
    /\ page' = [NoPage EXCEPT !.kind = kind, !.domain = d, !.step = "walk",
                              !.owner = owner]
    /\ stayed' = LedTo(d)
    /\ was' = (LedTo(d) # {})
    /\ disturbed' = Obstacle(First)
    /\ UNCHANGED <<listing, gone>>

\* The handlers of the web interface, each by its name without "Handler".
DomainPackages(d) == Ask("members", d, FALSE)
DomainChangelog(d) == Ask("members", d, FALSE)
DomainTeam(d) == \E owner \in BOOLEAN : Ask("owners", d, owner)
DomainSettings(d) == \E owner \in BOOLEAN : Ask("owners", d, owner)
DomainUserGrant(d) == Ask("members", d, FALSE)
DomainUserRevoke(d) == Ask("members", d, FALSE)
DomainOwnerChange(d) == Ask("members", d, FALSE)
DomainPackageEdit(d) == Ask("members", d, FALSE)

\* Of the API; it ends its walk with the page on which it has found the domain.
PackageOfAPI(d) == Ask("api", d, FALSE)
DomainPackagesOfAPI(d) == Ask("api", d, FALSE)

\* The team and the settings are shown to the owner, and a page without them to
\* everybody else; the others to whoever lists the domain.
Answer(p) ==
    IF IF p.kind = "owners" THEN p.owner ELSE p.authorized THEN "shown" ELSE "refused"

\* One DomainsByUser of the walk, and the decision after the last one.
WalkOn ==
    LET w == Walked(Entries, page.token, PageSize)
        found == \E i \in DOMAIN w.keys : listing[w.keys[i]] = page.domain
        p == IF WalkStops THEN [page EXCEPT !.token = First]
             ELSE [page EXCEPT !.entries = @ \o w.keys, !.token = w.next,
                               !.authorized = @ \/ found]
    IN  /\ page.step = "walk"
        /\ page' = IF p.token = First \/ (p.kind = "api" /\ p.authorized)
                   THEN [p EXCEPT !.step = Answer(p)] ELSE p
        /\ UNCHANGED <<listing, gone, stayed, was, disturbed>>

----------------------------------------------------------------------------
\* What others do to the bucket while the handler is between two pages.
Meanwhile ==
    /\ UNCHANGED page
    /\ stayed' = {k \in stayed : listing'[k] = page.domain /\ page.domain \notin gone'}
    /\ was' = (was \/ (page # NoPage /\ LedTo(page.domain)' # {}))
    /\ disturbed' = (disturbed \/ (page # NoPage /\ Obstacle(page.token)'))

\* domainUserGrantFEAPIHandler of the owner: an entry at the name of the domain,
\* over the one there.  Domains come too when they are added or transferred.
UserGranted(k, d) ==
    /\ d \notin gone
    /\ listing[k] # d
    /\ listing' = [listing EXCEPT ![k] = d]
    /\ gone' = gone
    /\ Meanwhile

\* domainUserRevokeFEAPIHandler: the entry at the name of the domain goes,
\* whatever it leads to.
UserRevoked(k) ==
    /\ listing[k] # NoEntry
    /\ listing' = [listing EXCEPT ![k] = NoEntry]
    /\ gone' = gone
    /\ Meanwhile

\* The user renames a domain of his own: the entry at the former name goes and
\* one comes at the new name.  The entries of other users do not change.
DomainRenamed(d, from, to) ==
    /\ d \notin gone
    /\ from # to
    /\ listing' = [listing EXCEPT ![from] = NoEntry, ![to] = d]
    /\ gone' = gone
    /\ Meanwhile

\* A domain is deleted: the entry at its name goes, if the user is its owner or in
\* its team; those at its former names stay.
DomainDeleted(d, k) ==
    /\ d \notin gone
    /\ listing' \in {listing, [listing EXCEPT ![k] = NoEntry]}
    /\ gone' = gone \cup {d}
    /\ Meanwhile

PagesNext ==
    \/ \E d \in Domains :
           \/ DomainPackages(d) \/ DomainChangelog(d) \/ DomainTeam(d)
           \/ DomainSettings(d) \/ DomainUserGrant(d) \/ DomainUserRevoke(d)
           \/ DomainOwnerChange(d) \/ DomainPackageEdit(d)
           \/ PackageOfAPI(d) \/ DomainPackagesOfAPI(d)
    \/ \E d \in Domains, k \in DomainKeys :
           \/ UserGranted(k, d) \/ DomainDeleted(d, k)
           \/ \E to \in DomainKeys : DomainRenamed(d, k, to)
    \/ \E k \in DomainKeys : UserRevoked(k)
    \/ WalkOn

PagesSpec == PagesInit /\ [][PagesNext]_pagesVars

----------------------------------------------------------------------------
(***************************************************************************)
(* Properties                                                              *)
(***************************************************************************)

(***************************************************************************)
(* A user with an entry that leads to a domain all the time gets the page  *)
(* about it, however many pages of domains he has and whatever others do   *)
(* to them meanwhile, with two exceptions that are in the code: the very   *)
(* entry at which the next page was to start went away, or an entry yet to *)
(* be read led to a deleted domain.  Who has no such entry at any time of  *)
(* the request does not get it.  The list of domains beside the page has   *)
(* each entry once.                                                        *)
(***************************************************************************)
PagesForMembers ==
    page.kind \in {"members", "api"} =>
        /\ page.step = "refused" => stayed = {} \/ disturbed
        /\ page.step = "shown" => was
        /\ \A i, j \in DOMAIN page.entries : page.entries[i] = page.entries[j] => i = j

(***************************************************************************)
(* Going back: the page before a page ends where it began, so that what is *)
(* read forward and backward is the same list.                             *)
(***************************************************************************)
BackAndForth ==
    \A start \in Entries :
        LET p == Previous(Entries, start, PageSize)
        IN  p # First /\ Cardinality({k \in Entries : k < start}) >= PageSize
                => Walked(Entries, p, PageSize).next = start

\* Both: what a walk through the pages comes to.
PagesExact == PagesForMembers /\ BackAndForth
=============================================================================
