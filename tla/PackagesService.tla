-------------------------- MODULE PackagesService --------------------------
(***************************************************************************)
(* The packages service as its callers see it: concurrent calls, each of   *)
(* which commits its transaction (PackagesStore) and only then, in another *)
(* database, writes its changelog record (newChangelogRecord): it reads    *)
(* the clock, opens the database of that day and commits the record under  *)
(* a key made of the time and three random digits.  Between these steps    *)
(* other calls run, the write may fail, and the process may stop.          *)
(***************************************************************************)
EXTENDS PackagesStore

CONSTANTS
    Calls,       \* the calls that run at the same time
    MaxCommits,  \* bound: transactions committed in a behaviour
    MaxClock,    \* bound: readings of the clock that can be told apart
    Suffixes     \* the random digits of a changelog key

ASSUME ServiceAssumption ==
    MaxCommits \in Nat /\ MaxClock \in Nat /\ Suffixes \subseteq Nat

VARIABLES
    calls,      \* call -> the commit whose record it still has to write, or 0
    stamps,     \* call -> the time newChangelogRecord read, 0 before
    clock,
    changelog,  \* the records written: [domain, time, suffix, commit]
    commits     \* history: what was committed, in order, and how it ended

logVars == <<stamps, clock, changelog>>
serviceVars == <<vars, calls, logVars, commits>>

ServiceInit ==
    /\ Init
    /\ calls = [c \in Calls |-> 0]
    /\ stamps = [c \in Calls |-> 0]
    /\ clock = 1
    /\ changelog = {}
    /\ commits = <<>>

----------------------------------------------------------------------------
\* Mutant: a new owner is not reported.
DomainChangesNoOwner(d, o) ==
    \/ o.fqdn \notin {Unset, d.fqdn}
    \/ UpdatedDomain(d, o).flags \ {"CertificateIgnoreMissing"}
           # d.flags \ {"CertificateIgnoreMissing"}

(***************************************************************************)
(* What update reports as changes.  It compares with the spelling the      *)
(* caller sent, before save normalises it, and "internal functionality     *)
(* fields" are not logged.                                                 *)
(***************************************************************************)
DomainChanges(d, o) ==
    \/ o.fqdn \notin {Unset, d.fqdn}
    \/ o.owner \notin {Unset, d.owner}
    \/ UpdatedDomain(d, o).flags \ {"CertificateIgnoreMissing"}
           # d.flags \ {"CertificateIgnoreMissing"}

PackageChanges(p, o) ==
    \/ UpdatedPackage(p, o).domain # p.domain
    \/ o.path \notin {Unset, p.path}
    \/ o.repo \notin {Unset, p.repo}
    \/ o.disabled \notin {Unset, p.disabled}

\* The commits whose calls have returned by now.
Returned == {n \in 1..Len(commits) : commits[n].outcome \in {"ok", "error"}}

Ready(c) == calls[c] = 0 /\ Len(commits) < MaxCommits

\* A call commits; it is done when there is nothing to log.
Committed(c, action, id, pid, by, logged) ==
    /\ commits' = Append(commits,
           [action |-> action, domain |-> id, package |-> pid, user |-> by,
            logged |-> logged, after |-> Returned,
            outcome |-> IF logged THEN "pending" ELSE "ok"])
    /\ calls' = IF logged THEN [calls EXCEPT ![c] = Len(commits) + 1] ELSE calls
    /\ UNCHANGED logVars

CallAddDomain(c) ==
    /\ Ready(c)
    /\ \E id \in DomainIDs, o \in DomainOptions, by \in Users :
           /\ AddDomain(id, o)
           /\ Committed(c, "add-domain", id, Nil, by, TRUE)

CallUpdateDomain(c) ==
    /\ Ready(c)
    /\ \E ref \in Refs, o \in DomainOptions, by \in Users :
           /\ UpdateDomain(ref, o, by)
           /\ Committed(c, "update-domain", Lookup(ref), Nil, by,
                        DomainChanges(domains[Lookup(ref)], o))

CallDeleteDomain(c) ==
    /\ Ready(c)
    /\ \E ref \in Refs, by \in Users :
           /\ DeleteDomain(ref, by)
           /\ Committed(c, "delete-domain", Lookup(ref), Nil, by, TRUE)

CallAddUser(c) ==
    /\ Ready(c)
    /\ \E ref \in Refs, u, by \in Users :
           /\ AddUserToDomain(ref, u, by)
           /\ Committed(c, "domain-add-user", Lookup(ref), Nil, by, TRUE)

CallRemoveUser(c) ==
    /\ Ready(c)
    /\ \E ref \in Refs, u, by \in Users :
           /\ RemoveUserFromDomain(ref, u, by)
           /\ Committed(c, "domain-remove-user", Lookup(ref), Nil, by, TRUE)

\* A new package has a path, so there is always a change to log.
CallAddPackage(c) ==
    /\ Ready(c)
    /\ \E pid \in PackageIDs, o \in PackageOptions, by \in Users :
           /\ AddPackage(pid, o, by)
           /\ Committed(c, "add-package", Lookup(o.domain), pid, by, TRUE)

\* The record is filed under the domain the package has after the update.
CallUpdatePackage(c) ==
    /\ Ready(c)
    /\ \E pid \in PackageIDs, o \in PackageOptions, by \in Users :
           /\ UpdatePackage(pid, o, by)
           /\ Committed(c, "update-package", UpdatedPackage(packages[pid], o).domain,
                        pid, by, PackageChanges(packages[pid], o))

CallDeletePackage(c) ==
    /\ Ready(c)
    /\ \E pid \in PackageIDs, by \in Users :
           /\ DeletePackage(pid, by)
           /\ Committed(c, "delete-package", packages[pid].domain, pid, by, TRUE)

----------------------------------------------------------------------------
Ended(n, outcome) == commits' = [commits EXCEPT ![n].outcome = outcome]

\* now := time.Now(); the clock may stand still between two readings.
ReadClock(c) ==
    /\ calls[c] # 0
    /\ stamps[c] = 0
    /\ stamps' = [stamps EXCEPT ![c] = clock]
    /\ UNCHANGED <<vars, calls, clock, changelog, commits>>

Tick ==
    /\ clock < MaxClock
    /\ clock' = clock + 1
    /\ UNCHANGED <<vars, calls, stamps, changelog, commits>>

\* Mutant: the key is not looked up before it is used.
WriteRecordUnchecked(c) ==
    LET n == calls[c]
    IN  /\ stamps[c] # 0
        /\ \E s \in Suffixes : changelog' = changelog \cup
               {[domain |-> commits[n].domain, time |-> stamps[c], suffix |-> s, commit |-> n]}
        /\ Ended(n, "ok")
        /\ calls' = [calls EXCEPT ![c] = 0]
        /\ stamps' = [stamps EXCEPT ![c] = 0]
        /\ UNCHANGED <<vars, clock>>

\* The record is committed under a key that is free in the domain's bucket.
WriteRecord(c) ==
    LET n == calls[c]
        id == commits[n].domain
    IN  /\ n # 0
        /\ stamps[c] # 0
        /\ \E s \in Suffixes :
               /\ \A r \in changelog : ~(r.domain = id /\ r.time = stamps[c] /\ r.suffix = s)
               /\ changelog' = changelog \cup
                      {[domain |-> id, time |-> stamps[c], suffix |-> s, commit |-> n]}
        /\ Ended(n, "ok")
        /\ calls' = [calls EXCEPT ![c] = 0]
        /\ stamps' = [stamps EXCEPT ![c] = 0]
        /\ UNCHANGED <<vars, clock>>

\* Mutants: the error is swallowed; the time of the failed record is used for
\* the next one; a call that finds no free key tries for ever.
FailRecordSwallowed(c) ==
    /\ stamps[c] # 0
    /\ Ended(calls[c], "ok")
    /\ calls' = [calls EXCEPT ![c] = 0]
    /\ stamps' = [stamps EXCEPT ![c] = 0]
    /\ UNCHANGED <<vars, clock, changelog>>

FailRecordStale(c) ==
    /\ stamps[c] # 0
    /\ calls[c] # 0
    /\ Ended(calls[c], "error")
    /\ calls' = [calls EXCEPT ![c] = 0]
    /\ UNCHANGED <<vars, stamps, clock, changelog>>

FailRecordNever(c) == stamps[c] # 0 /\ FALSE /\ UNCHANGED serviceVars

\* NewConnection or the write fails, or no free key was drawn: the call
\* returns the error although its change is committed.
FailRecord(c) ==
    /\ calls[c] # 0
    /\ stamps[c] # 0
    /\ Ended(calls[c], "error")
    /\ calls' = [calls EXCEPT ![c] = 0]
    /\ stamps' = [stamps EXCEPT ![c] = 0]
    /\ UNCHANGED <<vars, clock, changelog>>

\* The process stops and starts again: what is committed stays, what is in
\* memory is gone.
Crash ==
    /\ \E c \in Calls : calls[c] # 0
    /\ commits' = [n \in DOMAIN commits |->
           IF commits[n].outcome = "pending"
           THEN [commits[n] EXCEPT !.outcome = "crashed"] ELSE commits[n]]
    /\ calls' = [c \in Calls |-> 0]
    /\ stamps' = [c \in Calls |-> 0]
    /\ UNCHANGED <<vars, clock, changelog>>

StoreCall(c) ==
    \/ CallAddDomain(c) \/ CallUpdateDomain(c) \/ CallDeleteDomain(c)
    \/ CallAddUser(c) \/ CallRemoveUser(c)
    \/ CallAddPackage(c) \/ CallUpdatePackage(c) \/ CallDeletePackage(c)

ServiceNext ==
    \/ \E c \in Calls :
           StoreCall(c) \/ ReadClock(c) \/ WriteRecord(c) \/ FailRecord(c)
    \/ Tick
    \/ Crash

(***************************************************************************)
(* A goroutine that has committed goes on: Go's scheduler runs it, and     *)
(* both ways the write can end return.  Nothing makes a caller call.       *)
(***************************************************************************)
ServiceFairness ==
    \A c \in Calls : WF_serviceVars(ReadClock(c))
                     /\ WF_serviceVars(WriteRecord(c) \/ FailRecord(c))

ServiceSpec == ServiceInit /\ [][ServiceNext]_serviceVars /\ ServiceFairness

----------------------------------------------------------------------------
(***************************************************************************)
(* Properties                                                              *)
(***************************************************************************)

(***************************************************************************)
(* A call that returned without an error and had something to log is in    *)
(* the changelog of its domain, and stays there through the crashes and    *)
(* failures of other calls.                                                *)
(***************************************************************************)
ReturnedCallsAreLogged ==
    \A n \in 1..Len(commits) :
        commits[n].logged /\ commits[n].outcome = "ok"
            => \E r \in changelog : r.commit = n /\ r.domain = commits[n].domain

(***************************************************************************)
(* A record stands for one committed change, a change has at most one      *)
(* record, and no record replaces another under the same key, whichever    *)
(* calls draw the same time and digits.                                    *)
(***************************************************************************)
RecordsFaithful ==
    \A r, s \in changelog :
        /\ r.commit = s.commit => r = s
        /\ r.domain = s.domain /\ r.time = s.time /\ r.suffix = s.suffix => r = s
        /\ commits[r.commit].outcome = "ok"

(***************************************************************************)
(* The changelog never shows an effect before its cause: a change that was *)
(* made after another call had returned is not dated before that call's    *)
(* record (given a clock that is not set back).  Calls that overlap may    *)
(* appear in either order.                                                 *)
(***************************************************************************)
RecordsInRealTimeOrder ==
    \A r, s \in changelog :
        r.commit \in commits[s.commit].after => r.time <= s.time

(***************************************************************************)
(* Nothing about an existing domain changes but by a committed call of its *)
(* owner, and no package but by one of somebody with access to its domain; *)
(* the call is on record under that user, before anything else can happen. *)
(***************************************************************************)
ChangeAttributed ==
    LET last == commits'[Len(commits')]
    IN  /\ \A id \in DomainIDs :
               (/\ DomainExists(id)
                /\ \/ domains'[id] # domains[id]
                   \/ domainUsers'[id] # domainUsers[id])
               => /\ Len(commits') > Len(commits)
                  /\ last.domain = id
                  /\ IsOwner(id, last.user)
        /\ \A pid \in PackageIDs :
               (PackageExists(pid) /\ packages'[pid] # packages[pid])
               => /\ Len(commits') > Len(commits)
                  /\ \/ last.package = pid
                     \/ /\ last.action = "delete-domain"
                        /\ last.domain = packages[pid].domain
                  /\ IsUser(packages[pid].domain, last.user)

\* No step of the service changes a domain or a package unattributed.
ChangesAttributed == [][ChangeAttributed]_serviceVars

(***************************************************************************)
(* What the changelog does not tell is not worth telling: a call that has  *)
(* nothing to log (update found no changes) left every record as it was,   *)
(* up to the flag that is kept out of the log and to a path that lost the  *)
(* spaces it had at its end (see ConstantsAssumption).                     *)
(***************************************************************************)
SilentCall ==
    Len(commits') > Len(commits) /\ ~commits'[Len(commits')].logged
    => /\ \A id \in DomainIDs :
              /\ domains'[id].fqdn = domains[id].fqdn
              /\ domains'[id].owner = domains[id].owner
              /\ domains'[id].flags \ {"CertificateIgnoreMissing"}
                     = domains[id].flags \ {"CertificateIgnoreMissing"}
              /\ domainUsers'[id] = domainUsers[id]
       /\ \A pid \in PackageIDs :
              packages'[pid] = [packages[pid] EXCEPT !.path = packages'[pid].path]
       /\ \A pid \in PackageIDs :
              packages'[pid].path \in {packages[pid].path, NormalPath(packages[pid].path)}

\* No step of the service changes more than that without a record to write.
SilentCallsChangeNothing == [][SilentCall]_serviceVars

(***************************************************************************)
(* A call that has committed returns, with its record written or an error. *)
(***************************************************************************)
CallsReturn == \A c \in Calls : calls[c] # 0 ~> calls[c] = 0
=============================================================================
