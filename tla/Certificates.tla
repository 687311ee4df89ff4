---------------------------- MODULE Certificates ----------------------------
(***************************************************************************)
(* Certificates: the service on BoltDB (services/certificate/bolt:         *)
(* certificate.go, challenge.go, service.go, renew.go), the cache in front *)
(* of it (pkg/certificate-cache), the TLS handshake that obtains the       *)
(* certificate of the site (newTLSConfig of server/server.go), the         *)
(* answer to a challenge (server/handlers_acme.go), and what sets up a     *)
(* domain: a goroutine when it is added (server/api_domains.go), a request *)
(* of its owner later (server/feapi_packages.go).                          *)
(*                                                                         *)
(* Everybody who obtains a certificate runs the same steps: marks the      *)
(* name, presents a challenge, has it validated, cleans it up (unless the  *)
(* authority has validated the name before), stores the certificate,       *)
(* unmarks the name.  The certificate authority is external; it validates  *)
(* when it is served the token of this very order.                         *)
(***************************************************************************)
EXTENDS Naturals

CONSTANTS
    Sites,          \* Options.Domain and its www. subdomain
    PackageDomains, \* the domains users add
    Handshakes, Renewals, Setups,   \* who obtains certificates
    TTL, MissTTL,   \* of the cache: 15 minutes, a minute
    Validity,       \* of a certificate
    RenewPeriod,
    MaxVersions,    \* bound: certificates issued for one name
    LastTime,       \* bound of the clock
    None

Hosts == Sites \cup PackageDomains
Callers == Handshakes \cup Renewals \cup Setups

ASSUME CertificatesAssumption ==
    /\ None \notin Callers \cup Hosts
    /\ {TTL, MissTTL, Validity, RenewPeriod, MaxVersions, LastTime} \subseteq Nat

VARIABLES
    certificates,   \* bucket Certificates: name -> record
    indexExpiry,    \* bucket Index_CertificateExpirationTime_FQDN
    challenges,     \* bucket ACME_Challenges: name -> whose token
    fqdnLock,       \* names being obtained, in memory
    orders,         \* caller -> where its ObtainCertificate is
    cache,          \* the cache: name -> entry
    handshakes,     \* TLS handshake -> where it is
    setups,         \* goroutine of a new domain, or request of its owner
    ignoring,       \* domains with CertificateIgnoreMissing set
    unattended,     \* history: domains whose flag nobody is there to reset
    time

orderVars == <<certificates, indexExpiry, challenges, fqdnLock, orders>>
certificateVars ==
    <<orderVars, cache, handshakes, setups, ignoring, unattended, time>>

NoCertificate == [exists |-> FALSE, version |-> 0, expires |-> 0, changed |-> 0]
NoOrder == [step |-> "idle", name |-> None, clash |-> FALSE]
NoEntry == [kind |-> "none", version |-> 0, ttl |-> 0]
NoHandshake == [step |-> "idle", name |-> None]
NoSetup == [step |-> "idle", name |-> None, gone |-> FALSE]
SetupOf(n) == [step |-> "order", name |-> n, gone |-> FALSE]

CertificatesInit ==
    /\ certificates = [n \in Hosts |-> NoCertificate]
    /\ indexExpiry = {}
    /\ challenges = [n \in Hosts |-> None]
    /\ fqdnLock = {}
    /\ orders = [c \in Callers |-> NoOrder]
    /\ cache = [n \in Hosts |-> NoEntry]
    /\ handshakes = [h \in Handshakes |-> NoHandshake]
    /\ setups = [c \in Setups |-> NoSetup]
    /\ ignoring = {}
    /\ unattended = {}
    /\ time = 0

Orders(n) == {c \in Callers : orders[c].name = n}
At(c, step) == orders[c].step = step
Goes(c, step) == orders' = [orders EXCEPT ![c].step = step]

----------------------------------------------------------------------------
(***************************************************************************)
(* ObtainCertificate.  The mark is put whether it is there or not, and     *)
(* taken away whoever else has put it too.                                 *)
(***************************************************************************)
Mark(c, n) ==
    /\ At(c, "idle")
    /\ fqdnLock' = fqdnLock \cup {n}
    /\ orders' = [x \in Callers |->
           IF x = c THEN [step |-> "present", name |-> n, clash |-> Orders(n) # {}]
           ELSE IF x \in Orders(n) THEN [orders[x] EXCEPT !.clash = TRUE]
           ELSE orders[x]]
    /\ UNCHANGED <<certificates, indexExpiry, challenges>>

\* Mutant: a record that is there stays.
PresentNew(c) ==
    /\ At(c, "present")
    /\ challenges' = [challenges EXCEPT ![orders[c].name] = IF @ = None THEN c ELSE @]
    /\ Goes(c, "validate")
    /\ UNCHANGED <<certificates, indexExpiry, fqdnLock>>

\* challengeProvider.Present: UpdateACMEChallenge, one record per name.
Present(c) ==
    /\ At(c, "present")
    /\ challenges' = [challenges EXCEPT ![orders[c].name] = c]
    /\ Goes(c, "validate")
    /\ UNCHANGED <<certificates, indexExpiry, fqdnLock>>

\* There is no account, or the authority refuses the order: no token is shown.
OrderRefused(c) ==
    /\ At(c, "present")
    /\ Goes(c, "failed")
    /\ UNCHANGED <<certificates, indexExpiry, challenges, fqdnLock>>

\* The authority still holds a valid authorization of the name: no challenge.
AlreadyAuthorized(c) ==
    /\ At(c, "present")
    /\ certificates[orders[c].name].version < MaxVersions
    /\ Goes(c, "store")
    /\ UNCHANGED <<certificates, indexExpiry, challenges, fqdnLock>>

\* The authority asks domainHandler for the token; it may refuse in any case.
Validate(c) ==
    /\ At(c, "validate")
    /\ \/ /\ challenges[orders[c].name] = c
          /\ certificates[orders[c].name].version < MaxVersions
          /\ Goes(c, "clean up valid")
       \/ Goes(c, "clean up invalid")
    /\ UNCHANGED <<certificates, indexExpiry, challenges, fqdnLock>>

\* challengeProvider.CleanUp: DeleteACMEChallenge, whosever token it is.
CleanUp(c) ==
    /\ At(c, "clean up valid") \/ At(c, "clean up invalid")
    /\ challenges' = [challenges EXCEPT ![orders[c].name] = None]
    /\ Goes(c, IF At(c, "clean up valid") THEN "store" ELSE "failed")
    /\ UNCHANGED <<certificates, indexExpiry, fqdnLock>>

\* Mutant: the entry of the old expiration time stays.
ReindexedKeepOld(n, expires) == indexExpiry \cup {<<expires, n>>}

\* certificateRecord.save: old and new time are compared as pointers, so the
\* entry is always replaced.
Reindexed(n, expires) ==
    (indexExpiry \ {<<certificates[n].expires, n>>}) \cup {<<expires, n>>}

\* UpdateCertificate, one transaction.
Store(c) ==
    LET n == orders[c].name
        expires == time + Validity
    IN  /\ At(c, "store")
        /\ certificates' = [certificates EXCEPT ![n] =
               [exists |-> TRUE, version |-> @.version + 1,
                expires |-> expires, changed |-> time]]
        /\ indexExpiry' = Reindexed(n, expires)
        /\ Goes(c, "stored")
        /\ UNCHANGED <<challenges, fqdnLock>>

\* Mutant: the mark stays when the order fails.
UnmarkStored(c) ==
    /\ At(c, "stored") \/ At(c, "failed")
    /\ fqdnLock' = IF At(c, "stored") THEN fqdnLock \ {orders[c].name} ELSE fqdnLock
    /\ orders' = [orders EXCEPT ![c] =
           [NoOrder EXCEPT !.step = IF At(c, "stored") THEN "ok" ELSE "error"]]
    /\ UNCHANGED <<certificates, indexExpiry, challenges>>

Unmark(c) ==
    /\ At(c, "stored") \/ At(c, "failed")
    /\ fqdnLock' = fqdnLock \ {orders[c].name}
    /\ orders' = [orders EXCEPT ![c] =
           [NoOrder EXCEPT !.step = IF At(c, "stored") THEN "ok" ELSE "error"]]
    /\ UNCHANGED <<certificates, indexExpiry, challenges>>

OrderStep(c) ==
    /\ \/ Present(c) \/ AlreadyAuthorized(c) \/ OrderRefused(c)
       \/ Validate(c) \/ CleanUp(c) \/ Store(c) \/ Unmark(c)
    /\ UNCHANGED <<cache, handshakes, setups, ignoring, unattended, time>>

\* The caller takes the result.
Returned(c, result) ==
    /\ At(c, result)
    /\ orders' = [orders EXCEPT ![c] = NoOrder]
    /\ UNCHANGED <<certificates, indexExpiry, challenges, fqdnLock>>

----------------------------------------------------------------------------
\* DeleteCertificate
DeleteCertificate(n) ==
    /\ certificates[n].exists
    /\ certificates' = [certificates EXCEPT ![n].exists = FALSE,
                                            ![n].changed = time]
    /\ indexExpiry' = indexExpiry \ {<<certificates[n].expires, n>>}
    /\ UNCHANGED <<challenges, fqdnLock, orders, cache, handshakes, setups,
                   ignoring, unattended, time>>

\* Renew: a goroutine for every name that is due; nobody asks whether the name
\* is being obtained.
Renew(c, n) ==
    /\ \E e \in indexExpiry : e[2] = n /\ e[1] <= time + RenewPeriod
    /\ Mark(c, n)
    /\ UNCHANGED <<cache, handshakes, setups, ignoring, unattended, time>>

Renewed(c) ==
    /\ Returned(c, "ok") \/ Returned(c, "error")
    /\ UNCHANGED <<cache, handshakes, setups, ignoring, unattended, time>>

----------------------------------------------------------------------------
(***************************************************************************)
(* Cache.Certificate: an entry that has not run out is the answer, "none"  *)
(* included; else the service is asked under the lock of the cache.        *)
(***************************************************************************)
Valid(n) == cache[n].kind # "none" /\ time <= cache[n].ttl

\* Mutant: what is found in the cache is put there again.
LookedUpProlonged(n, fails) ==
    LET hit == IF Valid(n) THEN cache[n].kind = "hit" ELSE certificates[n].exists /\ ~fails
        version == IF Valid(n) THEN cache[n].version ELSE certificates[n].version
    IN  IF hit THEN [kind |-> "hit", version |-> version, ttl |-> time + TTL]
        ELSE [kind |-> "miss", version |-> 0, ttl |-> time + MissTTL]

\* The answer, and the entry there is then; an error of the service leaves the
\* entry of a certificate that does not exist.
LookedUp(n, fails) ==
    IF Valid(n) THEN cache[n]
    ELSE IF certificates[n].exists /\ ~fails
         THEN [kind |-> "hit", version |-> certificates[n].version, ttl |-> time + TTL]
    ELSE [kind |-> "miss", version |-> 0, ttl |-> time + MissTTL]

\* GetCertificate of the TLS configuration: only a site that has none goes on.
Hello(h, n) ==
    /\ handshakes[h] = NoHandshake
    /\ \E fails \in BOOLEAN :
           /\ cache' = [cache EXCEPT ![n] = LookedUp(n, fails)]
           /\ handshakes' =
                  IF n \in Sites /\ LookedUp(n, fails).kind = "miss" /\ (Valid(n) \/ ~fails)
                  THEN [handshakes EXCEPT ![h] = [step |-> "ask", name |-> n]]
                  ELSE handshakes
    /\ UNCHANGED <<orderVars, setups, ignoring, unattended, time>>

\* IsCertificateBeingObtained, the first time: obtain it, or wait.
AskBeingObtained(h) ==
    /\ handshakes[h].step = "ask"
    /\ handshakes' = [handshakes EXCEPT ![h].step =
           IF handshakes[h].name \in fqdnLock THEN "wait" ELSE "order"]
    /\ UNCHANGED <<orderVars, cache, setups, ignoring, unattended, time>>

HandshakeOrders(h) ==
    /\ handshakes[h].step = "order"
    /\ Mark(h, handshakes[h].name)
    /\ handshakes' = [handshakes EXCEPT ![h].step = "ordered"]
    /\ UNCHANGED <<cache, setups, ignoring, unattended, time>>

\* It serves what it obtained, and cleans the empty entry out of the cache.
HandshakeObtained(h) ==
    /\ handshakes[h].step = "ordered"
    /\ Returned(h, "ok")
    /\ cache' = [cache EXCEPT ![handshakes[h].name] = NoEntry]
    /\ handshakes' = [handshakes EXCEPT ![h] = NoHandshake]
    /\ UNCHANGED <<setups, ignoring, unattended, time>>

HandshakeFailed(h) ==
    /\ handshakes[h].step = "ordered"
    /\ Returned(h, "error")
    /\ handshakes' = [handshakes EXCEPT ![h] = NoHandshake]
    /\ UNCHANGED <<cache, setups, ignoring, unattended, time>>

\* The mark is gone, or 50 times 100 ms have passed: the cache once more, which
\* may still say that there is none.
WaitedLongEnough(h) ==
    LET n == handshakes[h].name
    IN  /\ handshakes[h].step = "wait"
        /\ \E fails \in BOOLEAN : cache' = [cache EXCEPT ![n] = LookedUp(n, fails)]
        /\ handshakes' = [handshakes EXCEPT ![h] = NoHandshake]
        /\ UNCHANGED <<orderVars, setups, ignoring, unattended, time>>

----------------------------------------------------------------------------
(***************************************************************************)
(* updateDomainAPIHandler adds a domain with CertificateIgnoreMissing and  *)
(* starts a goroutine that obtains its certificate and resets the flag,    *)
(* until UpdateDomain succeeds.  It sets the flag and does not start the   *)
(* goroutine when the changelog failed after the domain was committed, and *)
(* when the site does not listen for TLS (tlsEnabled is false).            *)
(***************************************************************************)
AttendedBy(c, n) == setups[c].name = n /\ ~setups[c].gone
New(n) == n \notin ignoring /\ \A c \in Setups : ~AttendedBy(c, n)

AddDomain(c, n) ==
    /\ New(n) /\ setups[c] = NoSetup
    /\ ignoring' = ignoring \cup {n}
    /\ setups' = [setups EXCEPT ![c] = SetupOf(n)]
    /\ UNCHANGED <<orderVars, cache, handshakes, unattended, time>>

AddDomainUnrecorded(n) ==
    /\ New(n)
    /\ ignoring' = ignoring \cup {n}
    /\ unattended' = unattended \cup {n}
    /\ UNCHANGED <<orderVars, cache, handshakes, setups, time>>

\* certificateFEAPIHandler, while the flag is set: the same steps, in the request
\* of the owner.
ObtainByOwner(c, n) ==
    /\ n \in ignoring /\ setups[c] = NoSetup
    /\ setups' = [setups EXCEPT ![c] = SetupOf(n)]
    /\ UNCHANGED <<orderVars, cache, handshakes, ignoring, unattended, time>>

SetupOrders(c) ==
    /\ setups[c].step = "order"
    /\ Mark(c, setups[c].name)
    /\ setups' = [setups EXCEPT ![c].step = "ordered"]
    /\ UNCHANGED <<cache, handshakes, ignoring, unattended, time>>

\* Mutant: the flag is reset only when a certificate was obtained.
SetupOrderedStrict(c) ==
    /\ setups[c].step = "ordered"
    /\ \/ Returned(c, "ok") /\ setups' = [setups EXCEPT ![c].step = "reset"]
       \/ Returned(c, "error") /\ setups' = [setups EXCEPT ![c] = NoSetup]
    /\ UNCHANGED <<cache, handshakes, ignoring, unattended, time>>

\* Mutant: it orders until a certificate was obtained.
SetupOrderedPersistent(c) ==
    /\ setups[c].step = "ordered"
    /\ \/ Returned(c, "ok") /\ setups' = [setups EXCEPT ![c].step = "reset"]
       \/ Returned(c, "error") /\ setups' = [setups EXCEPT ![c].step = "order"]
    /\ UNCHANGED <<cache, handshakes, ignoring, unattended, time>>

\* Obtained or not, the deferred function resets the flag.
SetupOrdered(c) ==
    /\ setups[c].step = "ordered"
    /\ Returned(c, "ok") \/ Returned(c, "error")
    /\ setups' = [setups EXCEPT ![c].step = "reset"]
    /\ UNCHANGED <<cache, handshakes, ignoring, unattended, time>>

\* UpdateDomain fails for ever once the domain is deleted or given away.
SetupResets(c) ==
    /\ setups[c].step = "reset" /\ ~setups[c].gone
    /\ ignoring' = ignoring \ {setups[c].name}
    /\ unattended' = unattended \ {setups[c].name}
    /\ setups' = [setups EXCEPT ![c] = NoSetup]
    /\ UNCHANGED <<orderVars, cache, handshakes, time>>

DeleteDomain(n) ==
    /\ ~New(n)
    /\ ignoring' = ignoring \ {n}
    /\ unattended' = unattended \ {n}
    /\ setups' = [c \in Setups |->
           IF setups[c].name = n THEN [setups[c] EXCEPT !.gone = TRUE] ELSE setups[c]]
    /\ UNCHANGED <<orderVars, cache, handshakes, time>>

\* The owner gives the domain away (and does not get it back).
GiveDomainAway(n) ==
    /\ \E c \in Setups : AttendedBy(c, n)
    /\ unattended' = unattended \cup ({n} \cap ignoring)
    /\ setups' = [c \in Setups |->
           IF setups[c].name = n THEN [setups[c] EXCEPT !.gone = TRUE] ELSE setups[c]]
    /\ UNCHANGED <<orderVars, cache, handshakes, ignoring, time>>

\* The process stops: what is in memory goes, the buckets stay.
CertificatesCrash ==
    /\ fqdnLock' = {}
    /\ orders' = [c \in Callers |-> NoOrder]
    /\ cache' = [n \in Hosts |-> NoEntry]
    /\ handshakes' = [h \in Handshakes |-> NoHandshake]
    /\ unattended' = unattended \cup ({setups[c].name : c \in Setups} \cap ignoring)
    /\ setups' = [c \in Setups |-> NoSetup]
    /\ UNCHANGED <<certificates, indexExpiry, challenges, ignoring, time>>

TimePasses ==
    /\ time < LastTime
    /\ time' = time + 1
    /\ UNCHANGED <<orderVars, cache, handshakes, setups, ignoring, unattended>>

\* What happens to the given names.
StepsAbout(names) ==
    \/ \E c \in Callers : OrderStep(c)
    \/ \E n \in names : DeleteCertificate(n)
    \/ \E c \in Renewals, n \in names : Renew(c, n)
    \/ \E c \in Renewals : Renewed(c)
    \/ \E h \in Handshakes, n \in names : Hello(h, n)
    \/ \E h \in Handshakes : \/ AskBeingObtained(h) \/ HandshakeOrders(h)
                              \/ HandshakeObtained(h) \/ HandshakeFailed(h)
                              \/ WaitedLongEnough(h)
    \/ \E c \in Setups, n \in names \cap PackageDomains : AddDomain(c, n) \/ ObtainByOwner(c, n)
    \/ \E n \in names \cap PackageDomains : AddDomainUnrecorded(n) \/ DeleteDomain(n)
                                                   \/ GiveDomainAway(n)
    \/ \E c \in Setups : SetupOrders(c) \/ SetupOrdered(c) \/ SetupResets(c)
    \/ CertificatesCrash
    \/ TimePasses

CertificatesNext == StepsAbout(Hosts)

\* Goroutines run, and calls to the authority return.
CertificatesFairness ==
    /\ \A c \in Callers : WF_certificateVars(OrderStep(c))
    /\ \A c \in Setups : /\ WF_certificateVars(SetupOrders(c))
                         /\ WF_certificateVars(SetupOrdered(c))
                         /\ WF_certificateVars(SetupResets(c))

CertificatesSpec ==
    CertificatesInit /\ [][CertificatesNext]_certificateVars /\ CertificatesFairness

----------------------------------------------------------------------------
(***************************************************************************)
(* Properties                                                              *)
(***************************************************************************)

(***************************************************************************)
(* The index by expiration time, from which renewals start and which       *)
(* CertificatesInfoByExpiry follows without checking, has exactly the      *)
(* certificates there are, each under its time.                            *)
(***************************************************************************)
ExpiryIndexExact ==
    indexExpiry = {<<certificates[n].expires, n>> : n \in {m \in Hosts : certificates[m].exists}}

(***************************************************************************)
(* An order that no other order for its name overlaps is marked as being   *)
(* obtained until it ends and finds its own token when it is validated,    *)
(* whatever crashes and failures came before.                              *)
(***************************************************************************)
LoneOrdersUndisturbed ==
    \A c \in Callers : orders[c].name # None /\ ~orders[c].clash =>
        /\ orders[c].name \in fqdnLock
        /\ At(c, "validate") => challenges[orders[c].name] = c

(***************************************************************************)
(* A handshake serves a certificate that was renewed or deleted for no     *)
(* longer than TTL.                                                        *)
(***************************************************************************)
StaleForTTLOnly ==
    \A n \in Hosts : Valid(n) /\ cache[n].kind = "hit" =>
        \/ certificates[n].exists /\ cache[n].version = certificates[n].version
        \/ time <= certificates[n].changed + TTL

(***************************************************************************)
(* A domain ignores its missing certificate only while its goroutine, or a *)
(* request of its owner, is there to end that; or when the goroutine never *)
(* started (the changelog failed, or there is no TLS), was stopped with    *)
(* the process, or cannot write to the domain any more: then nothing but   *)
(* the owner ends it.                                                      *)
(***************************************************************************)
IgnoringAttended ==
    \A n \in ignoring : n \in unattended \/ \E c \in Setups : AttendedBy(c, n)

(***************************************************************************)
(* A name does not stay marked as being obtained.                          *)
(***************************************************************************)
MarksGo == \A n \in Hosts : n \in fqdnLock ~> n \notin fqdnLock

(***************************************************************************)
(* What sets up a domain ends unless the domain is lost first, whether or  *)
(* not a certificate was obtained.                                         *)
(***************************************************************************)
SetupsEnd == \A c \in Setups : setups[c] # NoSetup ~> (setups[c] = NoSetup \/ setups[c].gone)
=============================================================================
