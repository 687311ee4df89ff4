# GopherPit in TLA+

GopherPit serves Go packages under custom import paths. A user adds a domain,
shares it with other users, and publishes packages under it; a request for
`domain/path` is answered with the repository of the package whose path is the
longest prefix of the request. This directory holds TLA+ models of that program,
the TLC configurations that check them on small instances, and theorems about
them checked by TLAPS.

## 1. The system

### Components

| component | state | operations | what is hard | what makes it correct |
|---|---|---|---|---|
| packages store (`services/packages/bolt/{service,domain,package}.go`) | one BoltDB: domain and package records and seven index buckets | add, update, delete of domains and packages, granting and revoking users, resolution, listings by pages | long sequences of renames, transfers, moves and deletions, each of which updates four or five buckets by hand | every index agrees with the records; access rules; a deletion takes all and only what belongs to it |
| changelog (`changelog.go`, second half of `service.go`) | one BoltDB per day, a bucket per domain, keys made of time and three digits | one record after each committed change; paged reading; deletion of a record | the record is written in a second transaction: failure, crash and other calls come in between; pages cross files | a returned call is logged, once, under a time after its causes; pages read as one list |
| certificates (`services/certificate`, `pkg/certificate-cache`) | certificates, an index by expiry, ACME challenges, an in-memory mark per name, a cache | obtain, renew, answer of a challenge, cached lookup | check-then-act on the mark, one challenge per name, a stale cache | an order nobody overlaps is not disturbed; nothing stale for longer than the cache allows |
| users (`services/user/bolt`) | users, indexes of e-mail and user name, passwords and their history, tokens | register, rename, e-mail change, password reset, delete, authenticate | tokens that outlive what they were issued for; addresses reserved, superseded and run out | names lead to one user, a token works once and for what it was asked |
| users through LDAP (`services/user/ldap`) | a pool of connections under a mutex | login | counting and taking an idle connection are two critical sections; broken connections | a login returns; broken connections leave the pool |
| sessions (`services/session/bolt`) | sessions with an expiry | create, read, update, delete, periodic cleanup | cleanup decides in one transaction and deletes in another | a live session is not deleted |
| API keys (`services/key/bolt`) | a key per user, an index of secrets | create, update, regenerate, delete, check of a request | two buckets by hand; a check in two calls | a secret leads to one user and from granted addresses |
| notifications (`services/notification/bolt`) | ids of sent messages, addresses that opted out | send, opt out, cleanup | marked before it is sent | a mark tells the truth |
| server (`server/`) | per request, plus the goroutines that set up a domain | API, web interface, its front end API, package resolution, git reference rewriting | check-then-act over several services, background loops | verified names, owners who exist, eventual reset of temporary flags, references rewritten truly |
| HTTP services and clients (`services/*/http`), rate limiting, configuration, `cmd/`, `api/`, templates and assets | none | translation and start-up | nothing for a model checker | - |

`PROJECT.json` lists all components with their status and, under `hazards`, the
places of the code that are hard to test, each with the properties that cover it.

### How they interact

Handlers in `server/` call the services through Go interfaces; a service runs in
the same process or behind its HTTP client. Handlers run concurrently, and what
one has read from one service may have changed when it calls the next:

- A mutating call of the packages service writes two databases, the packages
  database in one transaction and after its commit the changelog database of the
  day.
- `userDeleteFEAPIHandler` asks the users service to authenticate, the packages
  service for the domains the user owns, the users service to delete him, and the
  session service to log him out.
- `updateDomainAPIHandler` reads a domain, looks for a token in the DNS, changes
  the domain, and starts a goroutine that obtains a certificate and then resets a
  flag of the domain.
- A TLS handshake goes through the certificate cache and, for the names of the
  site itself, obtains a certificate; a periodic job renews; both use the marks of
  names and the challenges that the setup of a domain uses.
- The pages about a domain find out whether the user may see it from the listings
  of the packages service.

## 2. The modules

A bucket of BoltDB is a total function from the possible keys, with a special
value for a key that is not there. BoltDB runs read-write transactions one at a
time and all or nothing, so each method that is one transaction is one action,
and its error returns are guards that do not hold. A handler that makes several
calls is a small state machine with a record per request. Random ids and tokens
are never drawn twice; each module keeps those it has drawn.

### Packages

**`PackagesStore`** is the database half of the packages service. One variable per
bucket (`domains`, `indexFQDN`, `indexOwner`, `indexUser`, `domainUsers`,
`indexDisabled`, `packages`, `indexPackageDomain`, `indexPath`).

| action | code |
|---|---|
| `AddDomain`, `UpdateDomain` with `SaveDomain` | `Service.AddDomain`, `UpdateDomain`, `domainRecord.update`, `save` |
| `DeleteDomain` with `ForgetUsers`, `RemovePackages` | `Service.DeleteDomain`, `domainRecord.delete`, `packageRecord.delete` |
| `AddUserToDomain`, `RemoveUserFromDomain` | the methods of these names, `addUser`, `removeUser` |
| `AddPackage`, `UpdatePackage` with `SavePackage` | `Service.AddPackage`, `UpdatePackage`, `packageRecord.update`, `save` |
| `DeletePackage` with `RemovePackages` | `Service.DeletePackage`, `packageRecord.delete` |

The reading side is in operators: `ResolvedID` and `Resolves`
(`ResolvePackage` with the handler's test of `Disabled`), `ReportedUsers`
(`DomainUsers`), `Listed` (`domainsByUser`).

The model follows the code where it does not do what its comments say:

- `RenamedTeam`: on a rename the code means to move the domain in the listing of
  each of its users, but rewrites the domain's own bucket of user ids (`b0` is
  written where `b2` is meant, `domain.go:249` and `:275`), which gains the new
  *name* as if it were a user. So after a rename the users of the domain no longer
  find it in their listing, and `DomainUsers` reports a name among user ids.
- `DisabledIndexed`: no code creates the bucket of disabled domains, so nothing
  is ever written to it. (`Index_Disabled_PackageID_1` is neither created nor
  read and is left out.)
- `NormalPath`: `save` trims spaces first and slashes next. `/a /` is stored as
  `/a `; the next save of the record, whatever was to be updated, makes `/a` of
  it. `CanonicalPath` is therefore not assumed to be idempotent; `Canonical`, for
  names, is.
- An owner who gave his domain away and got it back is in its team; when he
  removes himself from the team, the domain leaves his listing although he owns it
  (`domain.go:503-530`). `UsersListDomain` is about the team and does not see it.

`ForEach` over a bucket that the callback changes (lines 249, 275 and 451 of
`domain.go`, and in `user/bolt/db.go`) is declared undefined by BoltDB. With the
vendored version the cursor walks the page as it was before the transaction's first
write to that bucket, so that every entry is visited; for 275, where the first loop
has already written, an insertion can only make the cursor see an entry again, and
the callback is idempotent. The models take these outcomes, which are those of a
bucket on one page.

A package's version control system, repository root and reference are one
abstract value of `Repos`, of which `ValidRepos` pass the validation of `save`
(`PackageForms` takes them apart). Paths have a leading slash, which the handlers
add. They are sequences of the parts between slashes.

**`Registry`** is the specification of what the service promises: records, teams
and who may do what, without any index; uniqueness is a quantifier over the
tables. **`PackagesStoreRefinement`** maps the store to it
(`INSTANCE Registry WITH team <- Team, ...`), forgetting the indexes and the
names that `RenamedTeam` leaves among the users.

**`PackagesService`** extends the store with what follows the commit. A call
(`Calls`) commits one of the store's actions, then reads the clock
(`ReadClock`), and then writes its record under a free key (`WriteRecord`) or
returns an error (`FailRecord`: opening the database or the write fails, or
no free key is drawn). Other calls run in between. `Crash` loses all calls in
progress and keeps what is committed. `commits` is a history variable: which
changes were committed, by whom, how the call ended, and which calls had
returned before it.

**`ChangelogPages`** is the reading half of the changelog: `ChangelogPage` is
`ChangelogForDomain` translated, over daily files of which some are missing and
some have no bucket of the domain, and is compared with a page of one list of all
records (`ReferencePage`). Actions add and delete records and let days pass. The
comparison excludes one situation, in which the code fails: a day whose records
of the domain were all deleted (`DeleteChangelogRecord`, which no handler calls)
keeps an empty bucket, on which a page that goes through it fails and the start of
the next page is lost.

**`DomainPages`** are the listings by pages (`Domains`, `domainsByUser`,
`PackagesByDomain`) and their main use: the handlers of ten pages about a domain
walk through all domains of the user, one transaction per page (`WalkOn`), while
domains are granted, revoked, renamed and deleted. What moves is the user's bucket
of the listing: under each name a domain or nothing. `RenamedTeam` of the store leaves
entries under former names, so one domain may be under two names (the page lists it
twice) and an entry may lead to a domain that was deleted (`gone`), which is an error of
the page that has it (`PageFails`). On that error, as when the entry at which the page
is to start is not there (`ListingFails`), the handlers stop walking and decide by what
they have read. So a user with an entry for the domain gets its page unless one of the
two happens ahead of him (`disturbed`, by `Obstacle`); where an entry of a deleted domain
stays, that is every time he asks.

**`PackageForms`** is the record of one package as the API (any field alone) and the
web form (all fields) write it, with the validations of both handlers and of
`packageRecord.save`. **`GitReferences`** is what a client is then served: the
rewriting of the repository's answer to `info/refs` (`InfoRefs`, `Altered`),
compared with what the chosen reference stands for (`Target`). What is external is the
order of the answer (`InOrder`): `HEAD`, the branches, the tags, and directly behind an
annotated tag what it points to. A package whose
branch is `master` is answered with 404, as the line of that branch is passed over
before it is compared.

**`DomainHandlers`** are the handlers that change domains, of the API and of the web
interface: read the domain, ask whether the name is taken (`FindName`), find a
token in the DNS (`Verify`), call the service (`WriteNew`, `WriteChange`). `proved`
is a history variable.

### Accounts

**`Users`** is the users service on BoltDB. `SaveUser` is `userRecord.save` with both
indexes; `RegisterUser`, `UpdateUsername`, `DeleteUser`, `SetPassword`,
`RequestPasswordReset`, `ResetPassword`, `RequestEmailChange` and `ChangeEmail` are
the methods; `CleanValidations` and `CleanResets` the goroutines of
`PeriodicCleanup`. Passwords are kept under the second in which they were set;
`StorePassword` includes the test of recently used ones.

An address has spellings, with spaces around it and without (`Trim`). `save` alone
trims it: `requestEmailChange` compares the spelling it was given with the addresses in
use and asked for, and `emailExists` the spellings asked for with the address of a new
user. So a spelling with spaces reserves nothing, and its confirmation takes the index
entry of whoever has the address (`history.padded` has such addresses). A user name may
be the id of a user (`history.aliased`): `ValidUsername` looks in the index of names
only, and `Lookup` asks that index first.

**`Accounts`** extends it with the handlers, which call users, sessions and packages
one after the other. `requests` says for every request which call comes next and
what it has learnt so far; a request may end after any call (`Fails`: an error, or
the process stops). Of a session it keeps the user, of a domain the owner.

| actions | handlers |
|---|---|
| `Login`, `Register`, `OpenSession`, `Logout` | `authLoginFEAPIHandler`, `registrationFEAPIHandler`, `logout` |
| `ChangeSettings`, `ForgotPassword`, `NewPassword` | the settings, e-mail and password reset handlers |
| `ChangePassword`, `AuthenticateChange`, `SetNewPassword` | `userPasswordFEAPIHandler` |
| `DeleteAccount`, `AuthenticateDelete`, `CheckDomains`, `DeleteChecked`, `LogoutDeleted` | `userDeleteFEAPIHandler` |
| `AddDomain`, `GiveDomain`, `StoreAdded`, `StoreGiven`, `DeleteDomain` | the domain handlers, for the owner; the API adds a domain for any owner |

`overlap` is a history variable: an account was being deleted while a domain was
being added or given.

**`Sessions`** has the sessions and their cleanup: a scan starts a goroutine per
expired session (`CleanupScan`), and `CleanupDelete` is a batch of them in one
transaction. The key a goroutine has is memory of the scanning transaction; after
`Reuse` commits, when BoltDB may have written the page again, it reads as any key.
**`Keys`** has the keys, their handlers and the check of a request's key, which asks
for the key and then for its user. **`Notifications`** has the mark, the message and
the taking away of the mark as separate steps, crashes, and the check whether an
address has opted out. **`LdapPool`** has `ldapConnection`, `ldapAuth` and
`releaseLDAPConnection`: the idle connections are counted under one lock and one is
taken under another; taking from an empty pool panics with the mutex locked
(`holder`).

### Certificates

**`Certificates`** has everybody who obtains a certificate for a name: handshakes,
renewals and setups of domains. They all run the steps `Mark`, `Present`,
`Validate`, `CleanUp`, `Store`, `Unmark` (`ObtainCertificate` with the challenge
provider and `UpdateCertificate`; `AlreadyAuthorized` goes to `Store` without a challenge,
as the ACME library does when the authority has validated the name before), and their
callers are around them: `Hello` to
`WaitedLongEnough` is `GetCertificate` of the TLS configuration with the cache
(`LookedUp`), `Renew` the goroutine per name that is due, `AddDomain` to
`SetupResets` the goroutine of a new domain, `ObtainByOwner` the request of its
owner. `AddDomainUnrecorded` is a domain that is added without its goroutine: the
changelog failed after the commit, or the site does not listen for TLS (`tlsEnabled`).
`CertificatesCrash` empties what is in memory and leaves the buckets. The
authority is external: it validates an order only when it is served its own token,
and may refuse any. History: `clash` (another order for the name overlapped this
one) and `unattended` (nobody is there to reset the flag of a domain).

### Proofs and instances

`PackagesListings` is the store with one history variable, `renamed`: a domain has
changed its name. The theorems (section 5) are in eight modules:

| module | about |
|---|---|
| `PackagesStoreProofs` | invariants of the store, resolution |
| `PackagesStoreStepProofs` | what a step of the store may do, the refinement of `Registry`, the listings of `PackagesListings` |
| `PackagesServiceProofs` | the changelog of `PackagesService` |
| `UsersProofs` (lemmas), `AccountsProofs` | users, and the handlers that call them |
| `CertificatesProofs` | orders, flags of domains, the cache |
| `ServicesProofs` | `Keys`, `Notifications`, `Sessions` |
| `ServerProofs` | `DomainHandlers`, `PackageForms`, `DomainPages`, `ChangelogPages`, `GitReferences` |

The `MC*` modules give spellings, symmetries and bounds:

- `MCPackagesStore`, `MCPackagesListings`, `MCStorePackages` (with the registry),
  `MCPackagesService`, `MCAccounts`.
- `MCServices` and `MCServer` put components that share no state side by side: the
  variable `part` is chosen at the start and only that component moves. Such a run
  is the union of the runs of its components.

## 3. The runs

| run | question | bounds |
|---|---|---|
| `StoreDomains` | Do the name indexes stay exact, does a giver keep access, and are listings faithful until a domain is renamed, over any sequence of adds, renames, transfers, grants and deletions? | 3 users, 3 domain ids, 2 names in 4 spellings: a transfer among members and strangers, a name freed and taken by another domain |
| `StorePackages` | The same for packages: path index, cascade, moves between domains, longest-prefix resolution; is every transaction a step of the registry? | 2 users, 2 domains, 2 packages, 2 names, a repository that is refused, 3 paths in 4 spellings; with 2 users only the nested paths `/a` and `/a/b`, and `/a `, which changes when it is saved again, with one (`Bound`) |
| `ServiceLog` | What does the changelog tell, with overlapping calls, failures and crashes, and does a committed call return? | 2 users, 1 domain, 1 package, 3 paths, 2 calls at a time, 3 commits, 2 clock values, 2 suffixes |
| `Accounts` | Do names and addresses lead to one user, do tokens work once and passwords as they were set last, and when is a domain orphaned? | 2 users, 2 addresses in 2 spellings each, 3 user names of which 2 are ids, 2 passwords, 3 tokens, 2 seconds, 2 sessions, 1 domain, 2 requests, in four parts (`Bound`) |
| `Services` | Sessions, API keys, notifications, LDAP logins and certificates, each by itself: see the properties of these modules. | 3 sessions over 3 seconds, reuse of a page after 2 commits; 2 users, 3 secrets, 2 addresses of which one is a proxy; 2 messages, 4 days, marks of one day; 2 logins, 2 connections, 2 restarts; 1 handshake, 1 renewal and 1 setup at a time, for the site or for a domain, 2 issued certificates, 3 moments |
| `Server` | Git references, package forms, pages about domains, pages of the changelog, verified names, each by itself. | a repository of 2 branches and a tag, with 3 hashes, in every combination and order; 4 names that lead to 2 domains or nowhere, in pages of 2; 4 days of at most 2 records in pages of 3; 2 domains, 3 names of which one is trusted, 2 users, 2 requests |
| `Finding*` | Six statements of comments and callers that the code does not keep (section 4). | the smallest instances that show them |

Why these bounds are enough.

*Store.* An index entry is wrong for one domain, at one or two names, for one or two
users; a second domain is needed to take over a freed name, a third user to tell the
old owner, the new owner and a bystander apart. A package's entry involves its old
and new domain and path and one competitor for the place. That a path changes when
it is saved again does not depend on who saves it, so one user is enough for it.

*Changelog.* Two calls are enough for every order of two commits and two records, and
a third commit makes one of them follow a call that had returned. Two suffixes and
three commits let keys run out. Four days with pages of three records give pages
that begin, end and cross in every place of a file, and days without a file, with
a file that has no bucket of the domain, and with one record or two.

*Accounts.* `Bound` cuts the states into four parts that are explored completely:
addresses, in their spellings, of two users with one password and without user names;
user names, of which two are the ids themselves; one user with passwords and reset
tokens; two users, two requests at a time and a domain. What is left out is their
product: nothing about an address depends on a password, a user name or on who owns a
domain, except what the requests carry along, and the last part has those. Ids as user
names together with a domain are `FindingLoneOrphan`.
`Deadlines = {0}` and `ResetTime = 0` make a token valid in the second in which it
was asked for and expired in the next, and two seconds show both; `NoReuse = 0` turns
off the refusal of recent passwords, which only takes behaviours away from the
properties that are checked (the theorems hold for every value). The second request
in the last part is what overlaps.

*Services and Server.* The components in one run share no variable. Three sessions are a
live one, an expired one and one that is neither; two commits are the shortest reuse
of a page. A pool of two connections and two logins has the race of the last
connection, and two restarts break connections that were dialled after the first.
Orders for different names share no record, so that one name moves in a behaviour
(`about`): the site, which a handshake and a renewal order, or a domain, which its setup
and a renewal order; handshakes of a domain only read into its entry of the cache, as
those of the site do, and are left out. Two orders at a time are those that overlap.
`TTL = 1` and `MissTTL = 0` tell hits from misses, `Validity = 1` with `RenewPeriod = 0`
makes a renewal due, and two versions tell a stale certificate from a new one.
Pages of two names out of four make walks of two pages that are both full, whose
boundary moves, with a domain under two names in one page or in both.

The symmetry sets permute identifiers that the model only compares; they are not used
in runs with liveness properties.

The runs with `CHECK_DEADLOCK FALSE` may really stop: identifiers are used up,
`MaxCommits` and the clocks reach their bounds, every message is sent, and a
repository answers once.

### Fairness

- `PackagesService`: weak fairness of each step of a call that has committed. The
  goroutine runs on, and both outcomes of a write return. Nothing makes a caller call.
- `Certificates` (in the run `Services`): weak fairness of the steps of an order and of a setup: goroutines run,
  and calls to the authority and to the services return. So a mark goes (`MarksGo`) and a
  setup ends (`SetupsEnd`) unless its domain is lost first. Handshakes, renewals,
  crashes and time are not fair.
- `LdapPool` (in the same run): weak fairness of the steps of a login and of starting one: users keep
  logging in, which is what cleans the pool (`BrokenConnectionsGo`).

## 4. Findings

| run | code | what it shows |
|---|---|---|
| `FindingListingSound` | `packages/bolt/domain.go:410-429`, `:521` | entries under former names are never removed: a listing names a domain its reader has no access to, or one that is gone, on which `domainsByUser` fails as a whole |
| `FindingDisabledDomainDoesNotResolve` | `packages/bolt/domain.go:341-357` | disabling a domain has no effect on resolution |
| `FindingOwnersExist` | `server/feapi_user.go:529` | a domain given to, or added by, an account that is deleted meanwhile is left with an owner who does not exist; `OrphansNeedOverlapOrAlias` says that but for the next finding only such an overlap does it |
| `FindingLoneOrphan` | `user/bolt/db.go:275` | a user name may be the id of another user, although the comment says that it can not: it is compared with user names only. When that other user deletes his account, `DeleteUser` finds the one with this user name first and deletes him, and his domain has no owner any more, without any overlap |
| `FindingCleanupSparesLogins` | `session/bolt/cleanup.go:32` | a cleanup goroutine uses a key after the transaction that gave it and may delete a session that has not expired; `LoginsLostToStaleKeysOnly` says that nothing else does |
| `FindingStartsAtTime` | `packages/bolt/service.go:878` | a changelog page that starts at a time is an error, as the start has to be the key of a record; the search for the previous record is never reached |

Each is paired with a property of a passing run that says what does hold. Other
behaviour of the code that the models follow and a reader should know of:

- After a rename the users of a domain do not find it in their listing, and the name is
  reported as a user; an owner in his own team who removes himself loses his listing
  entry (section 2). `ListingsFaithful` says what holds without a rename.
- An entry that a rename has left behind makes every page of the listing that has it an
  error once its domain is deleted: the pages about a domain that its user lists behind
  it answer 404, and a domain under a former and its present name is listed twice
  (`PagesExact` says when neither happens).
- An address that is asked for with spaces around it is not found to be in use or asked
  for. When it is confirmed, it is the address of two users, and its entry of the index
  leads to the last; when either is deleted or changes his address, the entry is gone.
  `NameIndexesExact` and `RequestedAddressReserved` exclude such addresses.
- A user who asks for a second reset of his password can use both tokens.
- Overlapping orders for one name overwrite and delete each other's challenge, and the
  first that ends takes the mark away (`LoneOrdersUndisturbed` is about the others).
- The goroutine that resets `CertificateIgnoreMissing`, and the request of an owner that
  does the same, try without end once the domain is deleted or given away
  (`SetupsEnd` excludes it); a failure of the changelog, or a crash, leaves the flag set,
  and so does adding a domain while the site does not listen for TLS.
- Two logins that meet over the last idle LDAP connection: one panics with the mutex
  locked, and every later login waits for ever (`LoginsReturn` excludes it).
- Logging out lengthens the row of a session: `MaxAge` -1 is taken for the default.
- The reset tokens, the passwords and the API key of a deleted account stay in their
  buckets; they lead to nobody, as ids are not drawn again.
- An empty `RefName` alone passes both validations of a package, which then sends clients
  to this server, which does not serve it (`SentToSelfIsServed` excludes it).

## 5. What is proved

Every theorem is for all values of the constants that satisfy the named assumptions of
its module. They say that special values are not members of the sets they are
distinguished from (`ConstantsAssumption`, `AbsentAssumption`, ...), what the code makes
of names and paths (`ConstantsAssumption`; `PathsAssumption`: a path is a sequence),
that a repository has finitely many references (`GitReferencesAssumption`), and that
the random ids of sessions are finitely many (`SessionsAssumption`; they are 26
characters long), where what is proved counts or picks from them. No theorem has a further
hypothesis.

**Packages store.** `PackagesStoreProofs`: `Invariance`, `Spec => []IInv`. `IInv` is the
conjunction of `TypeOK`, `RecordsComplete`, `FQDNIndexExact`, `OwnerIndexExact`,
`PathIndexExact`, `PackageDomainIndexExact`, `NoOrphanPackages` and `NoResidue`. The
parts need each other: `save` removes the index entry of the *old record's* name, which
is right only if that entry belongs to this domain (`FQDNIndexExact`); `delete` finds
the packages through the path index, which is complete only if `PathIndexExact` holds
and records have a path (`RecordsComplete`); a new domain starts without users only
because ids that were never issued have none (`NoResidue`). Lemmas say pointwise what
`Reindexed`, `SaveDomain`, `SavePackage` and `RemovePackages` make of each bucket;
`DomainSaved` and `PackageSaved` show that saving keeps `IInv`; there is one lemma per
action, and `NextKeeps` joins them. `TypeCorrect`, `NameIndexIsExact`,
`OwnerIndexIsExact`, `PathIndexIsExact`, `PackageDomainIndexIsExact` and
`NothingOutlivesItsDomain` are consequences.

So is `ResolutionIsExact`, which is about what a visitor sees: `ResolvedID` chooses the
longest of the prefixes that the path index has. That there is a longest one is
`HasGreatest`, for which a path is a sequence (`PathsAssumption`); that the index has no prefix but those of packages of the domain, and
has them all, is `FQDNIndexExact` and `PathIndexExact` (`ResolvedIDIs`,
`ResolutionFollows`).

`PackagesStoreStepProofs` proves three action properties as `IInv /\ Next => A`, over
lemmas that say what each action makes of the records: `DeletionsCascade`
(`CascadeExact`; the code finds the packages of a domain through the path index),
`MovesAllowed` (`MovesNeedCommonUser`) and `GiversKeepAccess`
(`FormerOwnerKeepsAccess`, also when the call that gives the domain away renames it).

`StoreImplementsRegistry`, `Spec => ImplementsRegistry`: `SavedDomainFits` and
`SavedPackageFits` turn the test of an index entry into the quantifier of the registry
(`NameFree`, `PathFree`), which is what the exactness of the indexes is for; then one
lemma per action names the step of the registry it maps to, the names that
`RenamedTeam` leaves among the users being cut off by `Team`.

`ListingsAreFaithful` (`ListingsFaithful`) is about the histories without a rename: a
listing has the domains whose team its reader is in, and none he has no access to. (It
may lack a domain he owns: section 2.) That
a listing has only domains its reader has access to (`ListingSound`) is not inductive:
when a domain is deleted or a user removed, the code takes away the entry under the
domain's *name*, which is the right one only if entries are under current names, and it
takes it from the users of the domain's own bucket, who are those with an entry only if
the two agree in both directions. `ListsInv` says so (`EntriesCurrent`,
`UsersListDomain`, `TeamsAreUsers`), and holds until the first rename, which can break
all three.

**Changelog.** `PackagesServiceProofs` starts from `ServiceRunsStore`,
`ServiceSpec => Spec`: a step of the service is at most one step of the store, so that
everything proved of the store holds in the service. The invariant `ServiceInv` is `IInv`
and `LogInv`: a call in progress has a pending commit of its own (`CallsPending`), a
record is of a call that has returned (`RecordsOfReturned`), a commit comes after calls
that have returned only (`AfterReturned`), and the clock a call has read is not before
the records of those (`TimesOrdered`). The last is why effects are never dated before
their causes: a call reads the clock after its commit, and what had returned by then
had read it earlier. From it follow `CallsAreLogged` (`ReturnedCallsAreLogged`),
`RecordsAreFaithful` (`RecordsFaithful`) and `RecordsAreInOrder`
(`RecordsInRealTimeOrder`), for any number of calls, failures and crashes.
`ChangesAreAttributed` (`ChangesAttributed`) and `SilentCallsAreHarmless`
(`SilentCallsChangeNothing`) are proved action by action (`CallKeeps`); in the
second a path may change by more than is told, as a save takes spaces off it.

**Accounts.** `UsersProofs` has the lemmas about the service, `AccountsProofs` the
theorems about its composition with the handlers. The invariant `UsersInv` has three
parts that are kept independently:

- `NamesInv`: both indexes exact (`NameIndexesExact`), requested addresses reserved
  (`RequestedAddressReserved`), records and requests complete, ids among the user names
  recorded (`AliasesRecorded`). The two properties need
  each other: `save` does not look up the new address of an existing user, so that it is
  free follows only from the reservation; and a registration leaves reservations alone
  only because it asks for them first. Both leave out addresses that were confirmed with
  spaces around them, as the code reserves none of these.
- `TokensInv`: a token that is in a bucket or was used has been drawn, is not in both
  buckets, and is not used and in a bucket.
- `PasswordsInv`: no password is stored under a later second than now, so that the one
  set last has the last key, two in one second included.

`ServerStep` shows that each step of a handler is at most one step of the service. So
`NameIndexes`, `AddressReserved`, `TokensOnce`, `LastPassword` and `AddressesConfirmed`
hold for any number of users, sessions and requests, whatever the deadlines and the
no-reuse period are.

`NoLoneOrphans` (`OrphansNeedOverlapOrAlias`) is about three services. Its invariant
`OwnersInv` says of states without an overlap and without an id for user name
(`Settled`) that owners exist, that a user who is about to get a domain exists, that an
account about to be deleted owns none, and that no account is being deleted while a
domain is being given: what the requests know is still true when they use it. Without
the exception for user names it is false, as `FindingLoneOrphan` shows.

**Certificates.** `CertificatesInv` is `OrdersInv` (the shape of orders, `OverlapsClash`:
of two orders for one name each knows of the other, `ExpiryIndexExact`,
`LoneOrdersUndisturbed`) and `AttendanceInv` (handshakes and setups have a name, and
`IgnoringAttended`). `OverlapsClash` is what makes the second property inductive: an
order that takes the mark or the challenge of a name away has made every other order
for it a clashing one. Theorems `ExpiryIndexIsExact`, `LoneOrders` and
`IgnoringIsAttended`. `StaleNoLongerThanTTL` (`StaleForTTLOnly`) has an invariant of its
own, `CacheInv`, as the property speaks only of entries that have not run out: no entry
lives longer than `TTL` from now, so that one whose certificate changes now ends within
`TTL` of the change.

**API keys.** `KeysInv` adds to `KeyIndexExact` that stored secrets were drawn, without
which a new secret could be in use, and that the networks of a stored key are those its
user set last. Theorems `KeysTypes`, `KeyIndexIsExact`, `RequestsFromGrantedAddresses`.

**Notifications.** `MarksAreTrue` (`MarksTellTheTruth`). `NotificationsInv` adds what is
known of messages not yet sent: one that is being sent without a mark has lost it to the
cleanup, after its days.

**Sessions.** `LoginsLostToStaleKeys` (`LoginsLostToStaleKeysOnly`): the deletion does not
look at the session again, and needs not. `FreshKeys` says that a key a goroutine got,
and whose page was not written again, is of a session that has expired or has no user;
it stays so because an id is drawn once and only a logout saves a session again.

**Server.**

- `NamesAreVerified` (`EveryNameVerified`). The invariant adds `WritesVerified`: what a
  request is about to write is trusted, proved, or a name that a domain had when the
  request read it, which by the property itself was verified. Names once proved stay so,
  which is why acting on what was read earlier does no harm.
- `SentAreServed` (`SentToSelfIsServed`). The invariant adds `NamedIsGitByHTTP`: what
  `save` asks of a record with a reference name holds of the stored record.
- `PagesAreExact` (`PagesExact`). `PagesInv` says of a walk that it has read only
  names before its token, each once (`ListedBefore`), that an entry which led to the
  domain all the time has been read or is still ahead (`FoundIfStayed`), and that a walk
  which cannot go on from its token is known to be disturbed (`HistoryKept`). The lemmas
  say what a page is (`WalkedIs`) and that the previous page ends where this one starts
  (`BackIs`); both count places in the order of names (`PlacesTaken`, `AscendingIs`), for
  any number of names and domains and any length of a page.
- `AnswersAreTrue` (`RewrittenTruly`). `UpstreamInOrder` is the external order of the
  answer. `Altered` cuts the lines at two places, which are right because `HEAD` is the
  first line and `master` comes before the tags (`HeadIsFirst`, `ScanEnds`); `ChosenIs`
  and `OneHashChosen` say that the hash is that of the chosen reference, the peeled
  one of an annotated tag included, and `RewrittenLines` what becomes of each line.

**Pages of the changelog.** `PagesReadAsOneList` (`ChangelogReadsAsOneList`), in
`ServerProofs` because it needs the same lemmas on the order of a cursor as
`PagesAreExact`. The only thing the actions have to keep is `ChangelogInv`: a record is in
a day whose file has a bucket of the domain, and days follow each other
(`RecordsInDays`). The rest is about the two loops of `ChangelogForDomain`, for any
number of days, records and files and any length of a page:

- `DownIs`, `UpIs`, `DownUnique` and `UpUnique` say what a walk of the cursor is and that
  nothing else is like it; `DownJoins` and `UpJoins` that a walk which runs out of the
  records of one day and goes on in another is one walk through both.
- The model has the loops as functions of the number of days walked. `RightPage` and
  `RightClimb` are their invariants: what has been read, or climbed, after d days is
  what one list of the records of these days has (`ReadOnIs`, `ClimbOnIs`). That they
  hold at the end of the loop is `CollectedRight` and `NextRight`.
- The induction theorems of the library cannot be used here, as they take an operator.
  `ReachesAll` takes a set instead: one that has 0, and with a number below n the next
  one, has all numbers up to n. It is used with the set of the numbers of days for which
  the loop exists as a function, and of those after which its invariant holds.

### Only model-checked

Every invariant and action property of a passing run has a theorem. Liveness
(`CallsReturn`, `MarksGo`, `SetupsEnd`, `LoginsReturn`, `BrokenConnectionsGo`) is out of the
proof system's reach and has none. The findings are runs, not theorems.

## 6. Order of work

1. `PackagesStore`, `Registry`, the refinement, `PackagesService` and their proofs.
2. `ChangelogPages`, `DomainPages`, `PackageForms`, `GitReferences`, `DomainHandlers`.
3. `Users`, `Accounts`, `Sessions`, `Keys`, `Notifications`, `LdapPool`.
4. `Certificates`.
5. Proofs of `Users` and `Accounts`, `Certificates`, `Keys`, `DomainHandlers`.
6. Proofs of `PackagesService`, of resolution and listings, of the cache, of `Sessions` and
   `Notifications`, of the rest of the server and of the pages of the changelog.

What could follow: ACME account registration.

## 7. Not modelled

- **Rendering, templates, assets, mail contents, routing, audit log, contact form,
  cookies, configuration, the command line**: pure I/O or data without state.
- **HTTP services and clients**: one call to one request; the models take a call to be
  answered or to fail. A call that fails at the client although the service ran it is an
  error after the commit, as in `PackagesService` and `Fails`.
- **Rate limiting**: a store below a third-party limiter.
- **The LDAP directory**, and the user `CreateUser` makes at a first login through it.
- Of the **users service**: `CreateUser`, `UpdateUser` with an address (no caller), the
  flags that nothing in the service reads, the handler that sends a
  validation e-mail again (it sends a token that is there and changes nothing), and the listings `UsersByID`, `UsersByEmail`,
  `UsersByUsername`.
- Of the **certificate service**: registration of the ACME account, the listings of
  certificates and challenges, a certificate put in from outside.
- Of the **session service**: `DeleteSession`, which the server does not call.
- Of the **key service**: the listing; networks as ranges of addresses.
- Of the **changelog**: `ChangelogRecord` (read-only, no caller), the texts of records,
  and the domain name in them.
- A **clock that is set back**: the models assume it is not.
- A **BoltDB transaction that fails on its own** (disk full), except where the code has a
  path for it: the changelog record, the steps of a handler, an order of a certificate.
