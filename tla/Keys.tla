-------------------------------- MODULE Keys --------------------------------
(***************************************************************************)
(* API keys: the key service on BoltDB (services/key/bolt: db.go,          *)
(* service.go), the handlers that manage the key of a user                 *)
(* (server/feapi_api.go), and the check of a request's key                 *)
(* (apiKeyAuthHandler of server/handlers.go), which asks the key service   *)
(* and then the users service.                                             *)
(*                                                                         *)
(* Every mutating method is one transaction, hence one action.  Networks   *)
(* are single addresses.                                                   *)
(***************************************************************************)
EXTENDS Naturals

CONSTANTS
    Refs,           \* ids of users
    Secrets,        \* what newKeySecret may draw
    Addresses,      \* where requests come from
    Proxies,        \* APITrustedProxyCIDRs, when APIProxyRealIPHeader is set
    NoKeyRef        \* no user, no secret, no address

ASSUME KeysAssumption ==
    /\ NoKeyRef \notin Refs \cup Secrets \cup Addresses
    /\ Proxies \subseteq Addresses

VARIABLES
    keys,           \* bucket Keys: secret -> record
    indexRefSecret, \* bucket Index_Ref_Secret: ref -> secret
    drawnSecrets,   \* secrets drawn so far: random, never drawn again
    accounts,       \* the users there are (Users has the rest)
    request,        \* the API request that is being checked
    granted         \* history: the networks a user has set for the key in force

keysVars == <<keys, indexRefSecret, drawnSecrets, accounts, request, granted>>

NoKey == [ref |-> NoKeyRef, networks |-> {}]
NoRequest == [step |-> "none", secret |-> NoKeyRef, ref |-> NoKeyRef, from |-> NoKeyRef]

KeysInit ==
    /\ keys = [s \in Secrets |-> NoKey]
    /\ indexRefSecret = [r \in Refs |-> NoKeyRef]
    /\ drawnSecrets = {}
    /\ accounts = Refs
    /\ request = NoRequest
    /\ granted = [r \in Refs |-> {}]

\* getKeyRecordBySecret and getKeyRecordByRef
KeyExists(s) == s \in Secrets /\ keys[s].ref # NoKeyRef
KeyOf(ref) == IF KeyExists(indexRefSecret[ref]) THEN indexRefSecret[ref] ELSE NoKeyRef

\* Mutant: the record under the old secret stays.
SaveKeyKeepOld(old, secret, r) ==
    /\ indexRefSecret' = [indexRefSecret EXCEPT ![r.ref] = secret]
    /\ keys' = [keys EXCEPT ![secret] = r]

\* keyRecord.save of a record that was stored under old, or is new.
SaveKey(old, secret, r) ==
    /\ indexRefSecret' = [indexRefSecret EXCEPT ![r.ref] = secret]
    /\ keys' = [s \in Secrets |->
           IF s = secret THEN r ELSE IF s = old THEN NoKey ELSE keys[s]]

NewSecret(s) ==
    /\ s \notin drawnSecrets
    /\ drawnSecrets' = drawnSecrets \cup {s}

----------------------------------------------------------------------------
\* apiKeyFEAPIHandler: a key without networks; CreateKey refuses a second one.
CreateKey(ref, s) ==
    /\ ref \in accounts
    /\ KeyOf(ref) = NoKeyRef
    /\ NewSecret(s)
    /\ SaveKey(NoKeyRef, s, [ref |-> ref, networks |-> {}])
    /\ granted' = [granted EXCEPT ![ref] = {}]
    /\ UNCHANGED <<accounts, request>>

\* apiNetworksFEAPIHandler
UpdateKey(ref, networks) ==
    LET s == KeyOf(ref)
    IN  /\ ref \in accounts
        /\ s # NoKeyRef
        /\ SaveKey(s, s, [keys[s] EXCEPT !.networks = networks])
        /\ granted' = [granted EXCEPT ![ref] = networks]
        /\ UNCHANGED <<drawnSecrets, accounts, request>>

\* apiRegenerateSecretFEAPIHandler
RegenerateSecret(ref, s) ==
    LET old == KeyOf(ref)
    IN  /\ ref \in accounts
        /\ old # NoKeyRef
        /\ NewSecret(s)
        /\ SaveKey(old, s, keys[old])
        /\ UNCHANGED <<accounts, request, granted>>

\* Mutant: the entry of the index goes and the record stays.
DeleteKeyIndexOnly(ref) ==
    LET s == KeyOf(ref)
    IN  /\ ref \in accounts
        /\ s # NoKeyRef
        /\ indexRefSecret' = [indexRefSecret EXCEPT ![keys[s].ref] = NoKeyRef]
        /\ granted' = [granted EXCEPT ![ref] = {}]
        /\ UNCHANGED <<keys, drawnSecrets, accounts, request>>

\* apiKeyDeleteFEAPIHandler
DeleteKey(ref) ==
    LET s == KeyOf(ref)
    IN  /\ ref \in accounts
        /\ s # NoKeyRef
        /\ keys' = [keys EXCEPT ![s] = NoKey]
        /\ indexRefSecret' = [indexRefSecret EXCEPT ![keys[s].ref] = NoKeyRef]
        /\ granted' = [granted EXCEPT ![ref] = {}]
        /\ UNCHANGED <<drawnSecrets, accounts, request>>

\* userDeleteFEAPIHandler: the key of the account stays.
DeleteKeyOwner(ref) ==
    /\ ref \in accounts
    /\ accounts' = accounts \ {ref}
    /\ UNCHANGED <<keys, indexRefSecret, drawnSecrets, request, granted>>

----------------------------------------------------------------------------
\* The address that counts: what a trusted proxy says in its header, if anything.
RealAddress(remote, header) ==
    IF remote \in Proxies /\ header # NoKeyRef THEN header ELSE remote

\* apiKeyAuthHandler: KeyBySecret and the networks of the key it returned.
CheckKey(s, remote, header) ==
    /\ request.step = "none"
    /\ KeyExists(s)
    /\ RealAddress(remote, header) \in keys[s].networks
    /\ request' = [step |-> "key", secret |-> s, ref |-> keys[s].ref,
                   from |-> RealAddress(remote, header)]
    /\ UNCHANGED <<keys, indexRefSecret, drawnSecrets, accounts, granted>>

\* and UserByID of its ref; a key of a deleted account leads to nobody.
CheckKeyOwner ==
    /\ request.step = "key"
    /\ request' = IF request.ref \in accounts
                  THEN [request EXCEPT !.step = "accepted"] ELSE NoRequest
    /\ UNCHANGED <<keys, indexRefSecret, drawnSecrets, accounts, granted>>

RequestServed ==
    /\ request.step = "accepted"
    /\ request' = NoRequest
    /\ UNCHANGED <<keys, indexRefSecret, drawnSecrets, accounts, granted>>

KeysNext ==
    \/ \E ref \in Refs, s \in Secrets : CreateKey(ref, s)
    \/ \E ref \in Refs, networks \in SUBSET Addresses : UpdateKey(ref, networks)
    \/ \E ref \in Refs, s \in Secrets : RegenerateSecret(ref, s)
    \/ \E ref \in Refs : DeleteKey(ref)
    \/ \E ref \in Refs : DeleteKeyOwner(ref)
    \/ \E s \in Secrets, remote \in Addresses, header \in Addresses \cup {NoKeyRef} :
           CheckKey(s, remote, header)
    \/ CheckKeyOwner
    \/ RequestServed

KeysSpec == KeysInit /\ [][KeysNext]_keysVars

----------------------------------------------------------------------------
(***************************************************************************)
(* Properties                                                              *)
(***************************************************************************)

\* Every bucket holds what its Go type allows.
KeysTypeOK ==
    /\ keys \in [Secrets -> [ref : Refs \cup {NoKeyRef}, networks : SUBSET Addresses]]
    /\ indexRefSecret \in [Refs -> Secrets \cup {NoKeyRef}]
    /\ drawnSecrets \subseteq Secrets
    /\ accounts \subseteq Refs

(***************************************************************************)
(* The records and the index agree in both directions: a user has one key, *)
(* and a secret that was regenerated or deleted opens nothing, whatever    *)
(* sequence of creations, regenerations, updates and deletions ran.        *)
(***************************************************************************)
KeyIndexExact ==
    \A r \in Refs, s \in Secrets : indexRefSecret[r] = s <=> keys[s].ref = r

(***************************************************************************)
(* A request passes with a key only from an address that the user of the   *)
(* key has set for it since it was created: networks of a deleted key, or  *)
(* of an earlier secret, never come back.                                  *)
(***************************************************************************)
GrantedAddressesOnly ==
    [][request.step = "none" /\ request'.step = "key"
           => request'.from \in granted[request'.ref]]_keysVars
=============================================================================
