--------------------------- MODULE ServicesProofs ---------------------------
(***************************************************************************)
(* Proofs about Keys, Notifications and Sessions, for any number of users, *)
(* secrets, addresses, calls and sessions.                                 *)
(***************************************************************************)
EXTENDS Keys, Notifications, Sessions, FiniteSetTheorems, TLAPS

(***************************************************************************)
(* Keys.  The index is exact only because a new secret never meets a       *)
(* stored one (KeysDrawn) and because the record that a method replaces is *)
(* the one the index leads to; that a request passes from granted          *)
(* addresses only needs the networks of every record to be the granted     *)
(* ones.                                                                   *)
(***************************************************************************)

KeysDrawn == \A s \in Secrets : keys[s].ref # NoKeyRef => s \in drawnSecrets

NetworksGranted ==
    \A s \in Secrets : keys[s].ref # NoKeyRef => keys[s].networks = granted[keys[s].ref]

KeysInv ==
    /\ KeysTypeOK
    /\ granted \in [Refs -> SUBSET Addresses]
    /\ KeyIndexExact
    /\ KeysDrawn
    /\ NetworksGranted

KeyRecord == [ref : Refs \cup {NoKeyRef}, networks : SUBSET Addresses]

----------------------------------------------------------------------------
\* What the index leads to is the key of the user, if he has one.
LEMMA KeyFound ==
    ASSUME KeysInv, NEW ref \in Refs, KeyOf(ref) # NoKeyRef
    PROVE  /\ KeyOf(ref) \in Secrets
           /\ keys[KeyOf(ref)] \in KeyRecord
           /\ keys[KeyOf(ref)].ref = ref
           /\ indexRefSecret[ref] = KeyOf(ref)
BY DEF KeyOf, KeyExists, KeysInv, KeysTypeOK, KeyIndexExact, KeyRecord

\* A user without a key has none in the records.
LEMMA KeyMissing ==
    ASSUME KeysInv, NEW ref \in Refs, KeyOf(ref) = NoKeyRef
    PROVE  \A s \in Secrets : keys[s].ref # ref
BY KeysAssumption DEF KeysAssumption, KeyOf, KeyExists, KeysInv, KeysTypeOK, KeyIndexExact

LEMMA CreateKeyStep ==
    ASSUME KeysInv, NEW ref \in Refs, NEW s \in Secrets, CreateKey(ref, s)
    PROVE  KeysInv'
<1> DEFINE r == [ref |-> ref, networks |-> {}]
<1>1. /\ indexRefSecret' = [indexRefSecret EXCEPT ![ref] = s]
      /\ keys' = [x \in Secrets |-> IF x = s THEN r ELSE IF x = NoKeyRef THEN NoKey ELSE keys[x]]
      /\ drawnSecrets' = drawnSecrets \cup {s}
      /\ granted' = [granted EXCEPT ![ref] = {}]
      /\ UNCHANGED accounts
  BY DEF CreateKey, SaveKey, NewSecret
<1>2. r \in KeyRecord /\ r.ref = ref /\ r.networks = {}
  BY DEF KeyRecord
<1>3. keys' = [keys EXCEPT ![s] = r]
  BY <1>1, KeysAssumption DEF KeysAssumption, KeysInv, KeysTypeOK
<1>4. keys[s].ref = NoKeyRef /\ \A x \in Secrets : keys[x].ref # ref
  BY KeyMissing DEF CreateKey, NewSecret, KeysInv, KeysDrawn
<1> HIDE DEF r
<1>5. keys \in [Secrets -> KeyRecord] /\ indexRefSecret \in [Refs -> Secrets \cup {NoKeyRef}]
  BY DEF KeysInv, KeysTypeOK, KeyRecord
<1>6. KeysTypeOK' /\ granted' \in [Refs -> SUBSET Addresses]
  BY <1>1, <1>2, <1>3, <1>5 DEF KeysInv, KeysTypeOK, KeyRecord
<1>7. KeyIndexExact'
  BY <1>1, <1>2, <1>3, <1>4, <1>5, KeysAssumption DEF KeysAssumption, KeysInv, KeyIndexExact
<1>8. KeysDrawn'
  BY <1>1, <1>3, <1>5 DEF KeysInv, KeysDrawn
<1>9. NetworksGranted'
  <2> SUFFICES ASSUME NEW x \in Secrets, keys'[x].ref # NoKeyRef
               PROVE  keys'[x].networks = granted'[keys'[x].ref]
    BY DEF NetworksGranted
  <2>1. granted \in [Refs -> SUBSET Addresses]
    BY DEF KeysInv
  <2>2. CASE x = s
    BY <1>1, <1>2, <1>3, <1>5, <2>1, <2>2
  <2>3. CASE x # s
    <3>1. keys'[x] = keys[x] /\ keys[x].ref \in Refs \ {ref}
      BY <1>3, <1>4, <1>5, <2>3 DEF KeyRecord
    <3> QED BY <1>1, <2>1, <3>1 DEF KeysInv, NetworksGranted
  <2> QED BY <2>2, <2>3
<1> QED BY <1>6, <1>7, <1>8, <1>9 DEF KeysInv

LEMMA UpdateKeyStep ==
    ASSUME KeysInv, NEW ref \in Refs, NEW networks \in SUBSET Addresses, UpdateKey(ref, networks)
    PROVE  KeysInv'
<1> DEFINE s == KeyOf(ref)
           r == [ref |-> ref, networks |-> networks]
<1>1. /\ s \in Secrets /\ keys[s] \in KeyRecord
      /\ keys[s].ref = ref /\ indexRefSecret[ref] = s
  BY KeyFound DEF UpdateKey
<1>2. [keys[s] EXCEPT !.networks = networks] = r
  BY <1>1 DEF KeyRecord
<1>3. /\ indexRefSecret' = [indexRefSecret EXCEPT ![ref] = s]
      /\ keys' = [x \in Secrets |-> IF x = s THEN r ELSE IF x = s THEN NoKey ELSE keys[x]]
      /\ granted' = [granted EXCEPT ![ref] = networks]
      /\ UNCHANGED <<drawnSecrets, accounts>>
  BY <1>2 DEF UpdateKey, SaveKey
<1>4. r \in KeyRecord /\ r.ref = ref /\ r.networks = networks
  BY DEF KeyRecord
<1> HIDE DEF s, r
<1>5. keys \in [Secrets -> KeyRecord] /\ indexRefSecret \in [Refs -> Secrets \cup {NoKeyRef}]
  BY DEF KeysInv, KeysTypeOK, KeyRecord
<1>6. keys' = [keys EXCEPT ![s] = r] /\ UNCHANGED indexRefSecret
  BY <1>1, <1>3, <1>5
<1>7. KeysTypeOK' /\ granted' \in [Refs -> SUBSET Addresses]
  BY <1>1, <1>3, <1>4, <1>5, <1>6 DEF KeysInv, KeysTypeOK, KeyRecord
<1>8. KeyIndexExact'
  BY <1>1, <1>4, <1>5, <1>6 DEF KeysInv, KeyIndexExact
<1>9. KeysDrawn'
  BY <1>1, <1>3, <1>4, <1>5, <1>6, KeysAssumption DEF KeysAssumption, KeysInv, KeysDrawn
<1>10. \A x \in Secrets : keys[x].ref = ref => x = s
  BY <1>1 DEF KeysInv, KeyIndexExact
<1>11. NetworksGranted'
  BY <1>1, <1>3, <1>4, <1>5, <1>6, <1>10 DEF KeysInv, NetworksGranted, KeyRecord
<1> QED BY <1>7, <1>8, <1>9, <1>11 DEF KeysInv

LEMMA RegenerateSecretStep ==
    ASSUME KeysInv, NEW ref \in Refs, NEW s \in Secrets, RegenerateSecret(ref, s)
    PROVE  KeysInv'
<1> DEFINE old == KeyOf(ref)
           r == keys[old]
<1>1. /\ old \in Secrets /\ r \in KeyRecord
      /\ r.ref = ref /\ indexRefSecret[ref] = old
  BY KeyFound DEF RegenerateSecret
<1>2. keys[s].ref = NoKeyRef
  BY DEF RegenerateSecret, NewSecret, KeysInv, KeysDrawn
<1>3. ref # NoKeyRef /\ s # NoKeyRef
  BY KeysAssumption DEF KeysAssumption
<1>4. s # old
  BY <1>1, <1>2, <1>3
<1>5. /\ indexRefSecret' = [indexRefSecret EXCEPT ![ref] = s]
      /\ keys' = [x \in Secrets |-> IF x = s THEN r ELSE IF x = old THEN NoKey ELSE keys[x]]
      /\ drawnSecrets' = drawnSecrets \cup {s}
      /\ UNCHANGED <<accounts, granted>>
  BY <1>1 DEF RegenerateSecret, SaveKey, NewSecret
<1>6. NoKey \in KeyRecord /\ NoKey.ref = NoKeyRef
  BY DEF NoKey, KeyRecord
<1>7. r.networks = granted[ref]
  BY <1>1, <1>3 DEF KeysInv, NetworksGranted
<1>8. keys \in [Secrets -> KeyRecord] /\ indexRefSecret \in [Refs -> Secrets \cup {NoKeyRef}]
  BY DEF KeysInv, KeysTypeOK, KeyRecord
<1>9. \A x \in Secrets : keys[x].ref = ref => x = old
  BY <1>1 DEF KeysInv, KeyIndexExact
<1> HIDE DEF old, r
<1>10. KeysTypeOK' /\ granted' \in [Refs -> SUBSET Addresses]
  BY <1>1, <1>5, <1>6, <1>8 DEF KeysInv, KeysTypeOK, KeyRecord
<1>11. KeyIndexExact'
  BY <1>1, <1>2, <1>3, <1>4, <1>5, <1>6, <1>8, <1>9, KeysAssumption
     DEF KeysAssumption, KeysInv, KeyIndexExact
<1>12. KeysDrawn'
  BY <1>5, <1>6, <1>8 DEF KeysInv, KeysDrawn
<1>13. NetworksGranted'
  BY <1>1, <1>5, <1>6, <1>7, <1>8 DEF KeysInv, NetworksGranted
<1> QED BY <1>10, <1>11, <1>12, <1>13 DEF KeysInv

LEMMA DeleteKeyStep ==
    ASSUME KeysInv, NEW ref \in Refs, DeleteKey(ref)
    PROVE  KeysInv'
<1> DEFINE s == KeyOf(ref)
<1>1. /\ s \in Secrets /\ keys[s] \in KeyRecord
      /\ keys[s].ref = ref /\ indexRefSecret[ref] = s
  BY KeyFound DEF DeleteKey
<1>2. /\ keys' = [keys EXCEPT ![s] = NoKey]
      /\ indexRefSecret' = [indexRefSecret EXCEPT ![ref] = NoKeyRef]
      /\ granted' = [granted EXCEPT ![ref] = {}]
      /\ UNCHANGED <<drawnSecrets, accounts>>
  BY <1>1 DEF DeleteKey
<1>3. NoKey \in KeyRecord /\ NoKey.ref = NoKeyRef
  BY DEF NoKey, KeyRecord
<1>4. keys \in [Secrets -> KeyRecord] /\ indexRefSecret \in [Refs -> Secrets \cup {NoKeyRef}]
  BY DEF KeysInv, KeysTypeOK, KeyRecord
<1>5. \A x \in Secrets : keys[x].ref = ref => x = s
  BY <1>1 DEF KeysInv, KeyIndexExact
<1> HIDE DEF s
<1>6. KeysTypeOK' /\ granted' \in [Refs -> SUBSET Addresses]
  BY <1>1, <1>2, <1>3, <1>4 DEF KeysInv, KeysTypeOK, KeyRecord
<1>7. KeyIndexExact'
  BY <1>1, <1>2, <1>3, <1>4, <1>5, KeysAssumption DEF KeysAssumption, KeysInv, KeyIndexExact
<1>8. KeysDrawn'
  BY <1>1, <1>2, <1>3, <1>4 DEF KeysInv, KeysDrawn
<1>9. NetworksGranted'
  BY <1>1, <1>2, <1>3, <1>4, <1>5 DEF KeysInv, NetworksGranted, KeyRecord
<1> QED BY <1>6, <1>7, <1>8, <1>9 DEF KeysInv

\* The steps that only read the buckets.
LEMMA KeysReadStep ==
    ASSUME KeysInv, UNCHANGED <<keys, indexRefSecret, drawnSecrets, granted>>,
           accounts' \subseteq accounts
    PROVE  KeysInv'
BY DEF KeysInv, KeysTypeOK, KeyIndexExact, KeysDrawn, NetworksGranted

LEMMA KeysInvariant == KeysSpec => []KeysInv
<1>1. KeysInit => KeysInv
  BY KeysAssumption DEF KeysAssumption, KeysInit, NoKey, KeysInv, KeysTypeOK, KeyIndexExact,
                        KeysDrawn, NetworksGranted
<1>2. KeysInv /\ [KeysNext]_keysVars => KeysInv'
  <2> SUFFICES ASSUME KeysInv, [KeysNext]_keysVars PROVE KeysInv'
    OBVIOUS
  <2>1. CASE \E ref \in Refs, s \in Secrets : CreateKey(ref, s)
    BY <2>1, CreateKeyStep
  <2>2. CASE \E ref \in Refs, networks \in SUBSET Addresses : UpdateKey(ref, networks)
    BY <2>2, UpdateKeyStep
  <2>3. CASE \E ref \in Refs, s \in Secrets : RegenerateSecret(ref, s)
    BY <2>3, RegenerateSecretStep
  <2>4. CASE \E ref \in Refs : DeleteKey(ref)
    BY <2>4, DeleteKeyStep
  <2>5. CASE \E ref \in Refs : DeleteKeyOwner(ref)
    BY <2>5, KeysReadStep DEF DeleteKeyOwner
  <2>6. CASE \E s \in Secrets, remote \in Addresses, header \in Addresses \cup {NoKeyRef} :
                CheckKey(s, remote, header)
    BY <2>6, KeysReadStep DEF CheckKey
  <2>7. CASE CheckKeyOwner \/ RequestServed
    BY <2>7, KeysReadStep DEF CheckKeyOwner, RequestServed
  <2>8. CASE UNCHANGED keysVars
    BY <2>8, KeysReadStep DEF keysVars
  <2> QED BY <2>1, <2>2, <2>3, <2>4, <2>5, <2>6, <2>7, <2>8 DEF KeysNext
<1> QED BY <1>1, <1>2, PTL DEF KeysSpec

----------------------------------------------------------------------------
(***************************************************************************)
(* Every bucket keeps the type its Go code gives it.                       *)
(***************************************************************************)
THEOREM KeysTypes == KeysSpec => []KeysTypeOK
<1>1. KeysInv => KeysTypeOK
  BY DEF KeysInv
<1> QED BY <1>1, KeysInvariant, PTL

(***************************************************************************)
(* Keys and their index agree in both directions after any sequence of     *)
(* creations, updates, regenerations and deletions: a user has one key and *)
(* no earlier secret of his opens anything.                                *)
(***************************************************************************)
THEOREM KeyIndexIsExact == KeysSpec => []KeyIndexExact
<1>1. KeysInv => KeyIndexExact
  BY DEF KeysInv
<1> QED BY <1>1, KeysInvariant, PTL

(***************************************************************************)
(* A request passes with a key only from an address that is granted to the *)
(* user of the key at that moment.                                         *)
(***************************************************************************)
THEOREM RequestsFromGrantedAddresses == KeysSpec => GrantedAddressesOnly
<1>1. KeysInv /\ [KeysNext]_keysVars
          => [request.step = "none" /\ request'.step = "key"
                  => request'.from \in granted[request'.ref]]_keysVars
  <2> SUFFICES ASSUME KeysInv, KeysNext, request.step = "none", request'.step = "key"
               PROVE  request'.from \in granted[request'.ref]
    OBVIOUS
  <2>1. CASE \E s \in Secrets, remote \in Addresses, header \in Addresses \cup {NoKeyRef} :
                CheckKey(s, remote, header)
    <3>1. PICK s \in Secrets, remote \in Addresses, header \in Addresses \cup {NoKeyRef} :
              CheckKey(s, remote, header)
      BY <2>1
    <3> DEFINE from == RealAddress(remote, header)
    <3>2. /\ request' = [step |-> "key", secret |-> s, ref |-> keys[s].ref, from |-> from]
          /\ from \in keys[s].networks
          /\ keys[s].ref # NoKeyRef
      BY <3>1 DEF CheckKey, KeyExists
    <3>3. keys[s].networks = granted[keys[s].ref]
      BY <3>2 DEF KeysInv, NetworksGranted
    <3> QED BY <3>2, <3>3
  <2>2. CASE CheckKeyOwner \/ RequestServed
    BY <2>2 DEF CheckKeyOwner, RequestServed
  <2>3. CASE UNCHANGED request
    BY <2>3
  <2> QED BY <2>1, <2>2, <2>3
          DEF KeysNext, CreateKey, UpdateKey, RegenerateSecret, DeleteKey, DeleteKeyOwner
<1> QED BY <1>1, KeysInvariant, PTL DEF KeysSpec, GrantedAddressesOnly

----------------------------------------------------------------------------
(***************************************************************************)
(* Notifications.  That sent mail stays marked needs to be known of mail   *)
(* on its way, too: a mark that is cleaned up while its message is being   *)
(* sent has lasted its days, and a call that failed has sent nothing.      *)
(***************************************************************************)
NotificationsTypeOK ==
    /\ marks \in [Calls -> Nat]
    /\ sending \in [Calls -> {"new", "marked", "failed", "done"}]
    /\ day \in 0..LastDay

MarksLast == \A c \in Calls : Marked(c) => MarkDays <= marks[c] /\ marks[c] < NoMark

UnsentCalls ==
    \A c \in Calls :
        /\ sending[c] \in {"new", "marked", "failed"} => c \notin mail
        /\ sending[c] = "new" => ~Marked(c)
        /\ sending[c] = "marked" /\ ~Marked(c) => day > MarkDays

NotificationsInv ==
    NotificationsTypeOK /\ MarksLast /\ UnsentCalls /\ MarksTellTheTruth

LEMMA NotificationsStep ==
    NotificationsInv /\ [NotificationsNext]_notificationsVars => NotificationsInv'
<1> SUFFICES ASSUME NotificationsInv, [NotificationsNext]_notificationsVars
             PROVE  NotificationsInv'
  OBVIOUS
<1> USE DEF NotificationsInv, NotificationsTypeOK, MarksLast, UnsentCalls, MarksTellTheTruth,
            Marked
<1>0. MarkDays \in Nat /\ LastDay \in Nat /\ NoMark = LastDay + MarkDays + 1
  BY NotificationsAssumption DEF NotificationsAssumption, NoMark
<1>1. ASSUME NEW c \in Calls, MarkSent(c)
      PROVE  NotificationsInv'
  <2>1. /\ marks' = [marks EXCEPT ![c] = day + MarkDays]
        /\ sending' = [sending EXCEPT ![c] = "marked"]
        /\ sending[c] = "new"
        /\ UNCHANGED <<mail, crashed, day>>
    BY <1>1 DEF MarkSent
  <2>2. day + MarkDays \in Nat /\ MarkDays <= day + MarkDays /\ day + MarkDays < NoMark
    BY <1>0
  <2> QED BY <1>0, <2>1, <2>2
<1>2. ASSUME NEW c \in Calls, DialAndSend(c)
      PROVE  NotificationsInv'
  BY <1>0, <1>2 DEF DialAndSend
<1>3. ASSUME NEW c \in Calls, UnmarkSent(c)
      PROVE  NotificationsInv'
  BY <1>0, <1>3 DEF UnmarkSent
<1>4. CASE NotificationsCrash
  BY <1>0, <1>4 DEF NotificationsCrash
<1>5. CASE CleanMarks
  <2>1. /\ \A c \in Calls : marks'[c] = IF day > marks[c] THEN NoMark ELSE marks[c]
        /\ marks' \in [Calls -> Nat]
        /\ UNCHANGED <<sending, mail, crashed, day>>
    BY <1>0, <1>5 DEF CleanMarks
  <2>2. \A c \in Calls : marks'[c] # marks[c] => day > MarkDays /\ marks'[c] = NoMark
    BY <1>0, <2>1
  <2> QED BY <1>0, <2>1, <2>2
<1>6. CASE DayPasses
  <2>1. day' = day + 1 /\ day' \in 0..LastDay /\ UNCHANGED <<marks, sending, mail, crashed>>
    BY <1>0, <1>6 DEF DayPasses, sendVars
  <2> QED BY <1>0, <2>1
<1>7. CASE UNCHANGED <<sendVars, day>>
  BY <1>7 DEF sendVars, NoMark
<1>8. ASSUME NEW a \in Recipients,
             \/ OptOutEmail(a) \/ RemoveOptedOutEmail(a)
             \/ AskOptedOut(a) \/ SendResetMail(a)
      PROVE  NotificationsInv'
  BY <1>7, <1>8 DEF OptOutEmail, RemoveOptedOutEmail, AskOptedOut, SendResetMail
<1> QED
  BY <1>1, <1>2, <1>3, <1>4, <1>5, <1>6, <1>7, <1>8
     DEF NotificationsNext, notificationsVars, sendVars

(***************************************************************************)
(* Crashes, failures and cleanups in any order leave no mark behind a      *)
(* message that was refused, and no sent message without its mark before   *)
(* its days are over (SendEmail of service.go, cleanup.go).                *)
(***************************************************************************)
THEOREM MarksAreTrue == NotificationsSpec => []MarksTellTheTruth
<1>1. NotificationsInit => NotificationsInv
  BY NotificationsAssumption
     DEF NotificationsAssumption, NotificationsInit, NotificationsInv, NotificationsTypeOK,
         MarksLast, UnsentCalls, MarksTellTheTruth, Marked, NoMark
<1>2. NotificationsInv => MarksTellTheTruth
  BY DEF NotificationsInv
<1> QED BY <1>1, <1>2, NotificationsStep, PTL DEF NotificationsSpec

----------------------------------------------------------------------------
(***************************************************************************)
(* Sessions.  The deletion does not look at the session again; a session   *)
(* it was told to delete is still expired, or belongs to nobody, since an  *)
(* id is drawn once and only a logout saves a session again (FreshKeys).   *)
(***************************************************************************)
SessionsTypeOK ==
    /\ sessionRows \in [SessionIDs -> [exists : BOOLEAN, user : SessionUsers \cup {NoOne},
                                       expires : Nat]]
    /\ drawnSessions \subseteq SessionIDs
    /\ doomed \subseteq [key : SessionIDs, commits : 0..Reuse]
    /\ second \in Nat

RowsDrawn ==
    /\ \A id \in SessionIDs : sessionRows[id].exists => id \in drawnSessions
    /\ \A id \in SessionIDs : sessionRows[id].user # NoOne => sessionRows[id].exists
    /\ \A d \in doomed : d.key \in drawnSessions

FreshKeys ==
    \A d \in doomed : d.commits < Reuse /\ sessionRows[d.key].user # NoOne
        => second > sessionRows[d.key].expires

SessionsInv == SessionsTypeOK /\ RowsDrawn /\ FreshKeys

\* A commit ages the keys that goroutines hold.
LEMMA CommittedKeys ==
    ASSUME SessionsTypeOK, NEW goroutines \in SUBSET doomed, Committed(goroutines)
    PROVE  /\ doomed' \subseteq [key : SessionIDs, commits : 0..Reuse]
           /\ \A d \in doomed' : \E e \in goroutines :
                  d.key = e.key /\ (d.commits < Reuse => e.commits < Reuse)
<1>1. Reuse \in Nat \ {0}
  BY SessionsAssumption DEF SessionsAssumption
<1>2. ASSUME NEW d \in doomed'
      PROVE  /\ d \in [key : SessionIDs, commits : 0..Reuse]
             /\ \E e \in goroutines :
                    d.key = e.key /\ (d.commits < Reuse => e.commits < Reuse)
  <2>1. PICK e \in goroutines :
            d = [e EXCEPT !.commits = IF e.commits = Reuse THEN e.commits ELSE e.commits + 1]
    BY <1>2 DEF Committed
  <2>2. e \in [key : SessionIDs, commits : 0..Reuse]
    BY DEF SessionsTypeOK
  <2>3. /\ d.key = e.key
        /\ d.commits = IF e.commits = Reuse THEN e.commits ELSE e.commits + 1
        /\ d = [key |-> d.key, commits |-> d.commits]
    BY <2>1, <2>2
  <2>4. d.commits \in 0..Reuse /\ (d.commits < Reuse => e.commits < Reuse)
    BY <1>1, <2>2, <2>3
  <2> QED BY <2>2, <2>3, <2>4
<1> QED BY <1>2

LEMMA CreateSessionStep ==
    ASSUME SessionsInv, NEW id \in SessionIDs, NEW user \in SessionUsers,
           NEW maxAge \in {0, RememberMe}, CreateSession(id, user, maxAge)
    PROVE  SessionsInv'
<1> DEFINE row == [exists |-> TRUE, user |-> user, expires |-> Expires(maxAge)]
<1>1. /\ id \notin drawnSessions /\ drawnSessions' = drawnSessions \cup {id}
      /\ sessionRows' = [sessionRows EXCEPT ![id] = row]
      /\ Committed(doomed) /\ second' = second
  BY DEF CreateSession
<1>2. Expires(maxAge) \in Nat
  BY SessionsAssumption DEF SessionsAssumption, Expires, SessionsInv, SessionsTypeOK
<1>3. /\ doomed' \subseteq [key : SessionIDs, commits : 0..Reuse]
      /\ \A d \in doomed' : \E e \in doomed :
             d.key = e.key /\ (d.commits < Reuse => e.commits < Reuse)
  BY <1>1, CommittedKeys DEF SessionsInv
<1>4. row \in [exists : BOOLEAN, user : SessionUsers \cup {NoOne}, expires : Nat] /\ row.exists
  BY <1>2
<1> HIDE DEF row
<1>5. \A i \in SessionIDs : sessionRows'[i] = IF i = id THEN row ELSE sessionRows[i]
  BY <1>1 DEF SessionsInv, SessionsTypeOK
<1>6. SessionsTypeOK'
  BY <1>1, <1>3, <1>4 DEF SessionsInv, SessionsTypeOK
<1>7. RowsDrawn'
  BY <1>1, <1>3, <1>4, <1>5 DEF SessionsInv, RowsDrawn
<1>8. \A d \in doomed' : d.key # id
  BY <1>1, <1>3 DEF SessionsInv, RowsDrawn
<1>9. FreshKeys'
  BY <1>1, <1>3, <1>5, <1>8 DEF SessionsInv, FreshKeys
<1> QED BY <1>6, <1>7, <1>9 DEF SessionsInv

LEMMA LogoutStep ==
    ASSUME SessionsInv, NEW id \in SessionIDs, Logout(id)
    PROVE  SessionsInv'
<1> DEFINE row == [sessionRows[id] EXCEPT !.user = NoOne, !.expires = Expires(0)]
<1>1. /\ sessionRows[id].exists
      /\ sessionRows' = [sessionRows EXCEPT ![id] = row]
      /\ Committed(doomed) /\ drawnSessions' = drawnSessions /\ second' = second
  BY DEF Logout, SessionsInv, SessionsTypeOK
<1>2. Expires(0) \in Nat
  BY SessionsAssumption DEF SessionsAssumption, Expires, SessionsInv, SessionsTypeOK
<1>3. /\ doomed' \subseteq [key : SessionIDs, commits : 0..Reuse]
      /\ \A d \in doomed' : \E e \in doomed :
             d.key = e.key /\ (d.commits < Reuse => e.commits < Reuse)
  BY <1>1, CommittedKeys DEF SessionsInv
<1>4. /\ row \in [exists : BOOLEAN, user : SessionUsers \cup {NoOne}, expires : Nat]
      /\ row.exists /\ row.user = NoOne
  BY <1>1, <1>2 DEF SessionsInv, SessionsTypeOK
<1> HIDE DEF row
<1>5. \A i \in SessionIDs : sessionRows'[i] = IF i = id THEN row ELSE sessionRows[i]
  BY <1>1 DEF SessionsInv, SessionsTypeOK
<1>6. SessionsTypeOK'
  BY <1>1, <1>3, <1>4 DEF SessionsInv, SessionsTypeOK
<1>7. RowsDrawn'
  BY <1>1, <1>3, <1>4, <1>5 DEF SessionsInv, RowsDrawn
<1>8. FreshKeys'
  BY <1>1, <1>3, <1>4, <1>5 DEF SessionsInv, SessionsTypeOK, FreshKeys
<1> QED BY <1>6, <1>7, <1>8 DEF SessionsInv

LEMMA CleanupScanStep ==
    ASSUME SessionsInv, CleanupScan
    PROVE  SessionsInv'
<1>1. /\ doomed' = doomed \cup {[key |-> id, commits |-> 0] : id \in {i \in SessionIDs : Expired(i)}}
      /\ UNCHANGED <<sessionRows, drawnSessions, second>>
  BY DEF CleanupScan
<1>2. Reuse \in Nat \ {0}
  BY SessionsAssumption DEF SessionsAssumption
<1>3. SessionsTypeOK'
  BY <1>1, <1>2 DEF SessionsInv, SessionsTypeOK
<1>4. RowsDrawn'
  BY <1>1 DEF SessionsInv, RowsDrawn, Expired
<1>5. FreshKeys'
  BY <1>1 DEF SessionsInv, FreshKeys, Expired
<1> QED BY <1>3, <1>4, <1>5 DEF SessionsInv

LEMMA CleanupDeleteStep ==
    ASSUME SessionsInv, NEW batch \in SUBSET doomed, CleanupDelete(batch)
    PROVE  SessionsInv'
<1>1. PICK gone \in SUBSET SessionIDs :
          sessionRows' = [id \in SessionIDs |-> IF id \in gone THEN NoSession ELSE sessionRows[id]]
  <2>1. {d.key : d \in {b \in batch : b.commits < Reuse}} \subseteq SessionIDs
    BY DEF SessionsInv, SessionsTypeOK
  <2> QED BY <2>1 DEF CleanupDelete
<1>2. Committed(doomed \ batch) /\ UNCHANGED <<drawnSessions, second>>
  BY DEF CleanupDelete
<1>3. /\ doomed' \subseteq [key : SessionIDs, commits : 0..Reuse]
      /\ \A d \in doomed' : \E e \in doomed :
             d.key = e.key /\ (d.commits < Reuse => e.commits < Reuse)
  BY <1>2, CommittedKeys DEF SessionsInv
<1>4. /\ NoSession \in [exists : BOOLEAN, user : SessionUsers \cup {NoOne}, expires : Nat]
      /\ ~NoSession.exists /\ NoSession.user = NoOne
  BY DEF NoSession
<1>5. \A id \in SessionIDs :
          sessionRows'[id] = IF id \in gone THEN NoSession ELSE sessionRows[id]
  BY <1>1
<1>6. SessionsTypeOK'
  BY <1>1, <1>2, <1>3, <1>4 DEF SessionsInv, SessionsTypeOK
<1>7. RowsDrawn'
  BY <1>2, <1>3, <1>4, <1>5 DEF SessionsInv, RowsDrawn
<1>8. FreshKeys'
  BY <1>2, <1>3, <1>4, <1>5 DEF SessionsInv, SessionsTypeOK, FreshKeys
<1> QED BY <1>6, <1>7, <1>8 DEF SessionsInv

LEMMA SessionsInvariant == SessionsSpec => []SessionsInv
<1>1. SessionsInit => SessionsInv
  BY DEF SessionsInit, NoSession, SessionsInv, SessionsTypeOK, RowsDrawn, FreshKeys
<1>2. SessionsInv /\ [SessionsNext]_sessionsVars => SessionsInv'
  <2> SUFFICES ASSUME SessionsInv, [SessionsNext]_sessionsVars PROVE SessionsInv'
    OBVIOUS
  <2>1. CASE SecondPasses
    BY <2>1 DEF SecondPasses, SessionsInv, SessionsTypeOK, RowsDrawn, FreshKeys
  <2>2. CASE UNCHANGED sessionsVars
    BY <2>2 DEF sessionsVars, SessionsInv, SessionsTypeOK, RowsDrawn, FreshKeys
  <2> QED BY <2>1, <2>2, CreateSessionStep, LogoutStep, CleanupScanStep, CleanupDeleteStep
          DEF SessionsNext
<1> QED BY <1>1, <1>2, PTL DEF SessionsSpec

\* In the transaction that ends a login, a goroutine has a key that may have
\* been written again.
LEMMA LoginEndsStep ==
    ASSUME SessionsInv, SessionsNext, NEW id \in SessionIDs, LoginEnds(id)
    PROVE  \E d \in doomed : d.commits = Reuse
<1>1. /\ sessionRows[id].user # NoOne /\ sessionRows[id].exists
      /\ second <= sessionRows[id].expires
      /\ ~sessionRows'[id].exists
  BY DEF LoginEnds, SessionsInv, RowsDrawn
<1>2. ~\E i \in SessionIDs, user \in SessionUsers, maxAge \in {0, RememberMe} :
           CreateSession(i, user, maxAge)
  BY <1>1 DEF CreateSession, SessionsInv, SessionsTypeOK
<1>3. ~\E i \in SessionIDs : Logout(i)
  BY <1>1 DEF Logout, SessionsInv, SessionsTypeOK
<1>4. ~CleanupScan /\ ~SecondPasses
  BY <1>1 DEF CleanupScan, SecondPasses
<1>5. PICK batch \in SUBSET doomed : CleanupDelete(batch)
  BY <1>2, <1>3, <1>4 DEF SessionsNext
<1> DEFINE keysRead == {d.key : d \in {b \in batch : b.commits < Reuse}}
           stale == {b \in batch : b.commits = Reuse}
<1>6. PICK read \in SUBSET SessionIDs :
          /\ Cardinality(read) <= Cardinality(stale)
          /\ sessionRows' = [i \in SessionIDs |->
                 IF i \in keysRead \cup read THEN NoSession ELSE sessionRows[i]]
  BY <1>5 DEF CleanupDelete
<1>7. id \notin keysRead
  BY <1>1 DEF SessionsInv, SessionsTypeOK, FreshKeys
<1> HIDE DEF keysRead
<1>8. id \in read
  BY <1>1, <1>6, <1>7
<1>9. IsFiniteSet(read)
  BY SessionsAssumption, FS_Subset DEF SessionsAssumption
<1>10. Cardinality(read) \in Nat \ {0}
  BY <1>8, <1>9, FS_CardinalityType, FS_EmptySet
<1>11. stale # {}
  <2> HIDE DEF stale
  <2>1. Cardinality({}) = 0 /\ Cardinality(read) <= Cardinality(stale)
    BY <1>6, FS_EmptySet
  <2> QED BY <1>10, <2>1
<1> QED BY <1>11

(***************************************************************************)
(* A login ends early only through a key of the cleanup whose page was     *)
(* written again: that cleanup does not look at the session a second time  *)
(* takes no login away (cleanup.go, service.go).                           *)
(***************************************************************************)
THEOREM LoginsLostToStaleKeys == SessionsSpec => LoginsLostToStaleKeysOnly
<1>1. SessionsInv /\ [SessionsNext]_sessionsVars
          => [(\E id \in SessionIDs : LoginEnds(id))
                  => \E d \in doomed : d.commits = Reuse]_sessionsVars
  BY LoginEndsStep
<1> QED BY <1>1, SessionsInvariant, PTL DEF SessionsSpec, LoginsLostToStaleKeysOnly
=============================================================================
