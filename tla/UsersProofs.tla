----------------------------- MODULE UsersProofs ----------------------------
(***************************************************************************)
(* Invariants of Users, for any number of accounts, addresses, user names, *)
(* passwords and tokens, as lemmas about the steps of the service; module  *)
(* AccountsProofs lifts them to the server that calls it.                  *)
(*                                                                         *)
(* The index of addresses is exact, but for those confirmed under a        *)
(* spelling with spaces, only because an address that somebody has asked   *)
(* for is kept from everybody else, and that in turn only because two      *)
(* requests for one spelling are never two users': the three go together   *)
(* (NamesInv).  That a token works once needs tokens to be drawn once and  *)
(* to be of one kind (TokensInv); that the last password counts needs the  *)
(* keys of the future to be free (PasswordsInv).                           *)
(***************************************************************************)
EXTENDS Users, TLAPS

UserType == [email : Emails \cup {Nil}, username : Usernames \cup {Nil}, unvalidated : BOOLEAN]
ValidationType == [email : Spellings \cup {Nil}, user : UserIDs \cup {Nil}, expires : Nat]

HistoryType == [last : [UserIDs -> Passwords \cup {Nil}], spent : SUBSET Tokens,
                padded : SUBSET Emails, aliased : BOOLEAN]

NamesTypeOK ==
    /\ users \in [UserIDs -> UserType]
    /\ indexUsername \in [Usernames -> UserIDs \cup {Nil}]
    /\ indexEmail \in [Emails -> UserIDs \cup {Nil}]
    /\ validations \in [Tokens -> ValidationType]
    /\ history \in HistoryType
    /\ now \in Nat

\* Who has a user name, or a row, is a user with an address and was drawn.
UsersComplete ==
    \A id \in UserIDs : /\ users[id].email = Nil => users[id].username = Nil
                        /\ users[id].email # Nil => id \in drawn

\* A request has both its address and its user.
RequestsComplete == \A t \in Tokens : validations[t].user = Nil <=> validations[t].email = Nil

\* A user name that is an id is on record.
AliasesRecorded ==
    ~history.aliased => \A id \in UserIDs : users[id].username \notin UserIDs

NamesInv ==
    /\ NamesTypeOK
    /\ UsersComplete
    /\ RequestsComplete
    /\ AliasesRecorded
    /\ NameIndexesExact
    /\ RequestedAddressReserved

TokensInv ==
    /\ validations \in [Tokens -> ValidationType]
    /\ resets \in [Tokens -> [user : UserIDs \cup {Nil}, expires : Nat]]
    /\ history \in HistoryType
    /\ \A t \in Tokens : Pending(t) \/ Requested(t) \/ t \in history.spent => t \in drawn
    /\ \A t \in Tokens : ~(Pending(t) /\ Requested(t))
    /\ TokensWorkOnce

PasswordsInv ==
    /\ passwords \in [UserIDs -> [Times -> Passwords \cup {Nil}]]
    /\ history \in HistoryType
    /\ now \in Times
    /\ \A id \in UserIDs, t \in Times : t > now => passwords[id][t] = Nil
    /\ \A id \in UserIDs : Password(id) = history.last[id]

\* The steps of the service that handlers take.
RegisterStep ==
    \E id \in UserIDs, e \in Emails, n \in Usernames \cup {Nil},
       p \in Passwords, token \in Tokens, valid \in Deadlines :
        RegisterUser(id, [email |-> e, username |-> n, unvalidated |-> TRUE], p, token, valid)

PasswordStep == \/ \E ref \in Refs, p \in Passwords : SetPassword(ref, p)
                \/ \E token \in Tokens, p \in Passwords : ResetPassword(token, p)

RenameStep == \/ \E ref \in Refs, n \in Usernames \cup {Nil} : UpdateUsername(ref, n)
              \/ \E ref \in Refs, e \in Spellings, token \in Tokens, valid \in Deadlines :
                     RequestEmailChange(ref, e, token, valid)
              \/ \E ref \in Refs, token \in Tokens : ChangeEmail(ref, token)
              \/ CleanValidations

DeleteStep == \E ref \in Refs : DeleteUser(ref)

NameStep == RenameStep \/ DeleteStep

ResetStep == \/ \E ref \in Refs, token \in Tokens : RequestPasswordReset(ref, token)
             \/ CleanResets

\* The steps after which every user is still there.
KeepingStep == RegisterStep \/ PasswordStep \/ RenameStep \/ ResetStep \/ Tick \/ UNCHANGED vars

ServiceStep == RegisterStep \/ PasswordStep \/ NameStep \/ ResetStep \/ Tick \/ UNCHANGED vars

LEMMA NilApart ==
    /\ Nil \notin UserIDs /\ Nil \notin Emails /\ Nil \notin Spellings /\ Nil \notin Usernames
    /\ Emails \subseteq Spellings /\ \A s \in Spellings : Trim[s] \in Emails
    /\ \A e \in Emails : Trim[e] = e
    /\ Nil \notin Passwords /\ Nil \notin Tokens
    /\ NoReuse \in Nat /\ ResetTime \in Nat /\ MaxTime \in Nat \ {0} /\ Deadlines \subseteq Nat
BY UsersAssumption DEF UsersAssumption

----------------------------------------------------------------------------
(***************************************************************************)
(* Names.                                                                  *)
(***************************************************************************)

\* A lookup that finds somebody finds a user who exists.
LEMMA LookupFinds ==
    ASSUME NamesInv, NEW ref, Lookup(ref) # Nil
    PROVE  Lookup(ref) \in UserIDs /\ UserExists(Lookup(ref))
<1> USE NilApart DEF NamesInv, NamesTypeOK
<1>1. CASE ref \in Emails
  BY <1>1 DEF Lookup, UserExists, NameIndexesExact, EmailIndexExact
<1>2. CASE ref \notin Emails /\ ref \in Usernames /\ indexUsername[ref] # Nil
  <2>1. Lookup(ref) = indexUsername[ref] /\ Lookup(ref) \in UserIDs
    BY <1>2 DEF Lookup
  <2>2. users[Lookup(ref)].username = ref
    BY <1>2, <2>1 DEF NameIndexesExact, UsernameIndexExact
  <2> QED BY <1>2, <2>1, <2>2 DEF UsersComplete, UserExists
<1>3. CASE ref \notin Emails /\ ~(ref \in Usernames /\ indexUsername[ref] # Nil)
  BY <1>3 DEF Lookup
<1> QED BY <1>1, <1>2, <1>3

\* Saving a user keeps the indexes exact when the address is free or his, or on
\* record as confirmed with spaces.
LEMMA SaveKeepsIndexes ==
    ASSUME NamesInv, NEW id \in UserIDs, NEW r \in UserType, SaveUser(id, r),
           history.padded \subseteq history'.padded,
           r.email \in history'.padded \/ indexEmail[r.email] \in {Nil, id}
    PROVE  /\ users' = [users EXCEPT ![id] = r]
           /\ users' \in [UserIDs -> UserType]
           /\ r.email \in Emails
           /\ indexUsername' \in [Usernames -> UserIDs \cup {Nil}]
           /\ indexEmail' \in [Emails -> UserIDs \cup {Nil}]
           /\ NameIndexesExact'
           /\ \A e \in Emails : /\ indexEmail'[e] \in {Nil, id, indexEmail[e]}
                                /\ e # r.email => indexEmail'[e] \in {Nil, indexEmail[e]}
<1> USE NilApart DEF NamesInv, NamesTypeOK
<1>1. /\ users' = [users EXCEPT ![id] = r]
      /\ users' \in [UserIDs -> UserType]
      /\ r.email \in Emails /\ r.username \in Usernames \cup {Nil}
      /\ users[id] \in UserType
  BY DEF SaveUser, UserType
<1>2. \A x \in UserIDs, e \in Emails :
          /\ indexEmail[e] = x => users[x].email = e
          /\ users[x].email = e /\ e \notin history.padded => indexEmail[e] = x
  BY DEF NameIndexesExact, EmailIndexExact
<1>3. \A n \in Usernames : indexUsername[n] = id <=> users[id].username = n
  BY DEF NameIndexesExact, UsernameIndexExact
<1>4. /\ indexEmail' \in [Emails -> UserIDs \cup {Nil}]
      /\ users[id].email = r.email => indexEmail' = indexEmail
      /\ users[id].email # r.email =>
             \A e \in Emails : indexEmail'[e] = IF e = r.email THEN id
                                   ELSE IF e = users[id].email THEN Nil ELSE indexEmail[e]
  BY <1>1 DEF SaveUser, Moved
<1>5. /\ indexUsername' \in [Usernames -> UserIDs \cup {Nil}]
      /\ \A n \in Usernames : indexUsername'[n] = IF n = r.username THEN id
                                  ELSE IF indexUsername[n] = id THEN Nil ELSE indexUsername[n]
  BY <1>1, <1>3 DEF SaveUser, Moved
<1>6. r.username # Nil => indexUsername[r.username] \in {Nil, id}
  BY DEF SaveUser, ValidUsername
<1>7. EmailIndexExact'
  <2> SUFFICES ASSUME NEW x \in UserIDs, NEW e \in Emails
               PROVE  /\ indexEmail'[e] = x => users'[x].email = e
                      /\ users'[x].email = e /\ e \notin history'.padded => indexEmail'[e] = x
    BY DEF EmailIndexExact
  <2>1. /\ users'[id] = r
        /\ x # id => users'[x] = users[x]
    BY <1>1
  <2>2. CASE users[id].email = r.email
    BY <1>2, <1>4, <2>1, <2>2
  <2>3. CASE users[id].email # r.email
    <3>1. CASE x = id
      BY <1>2, <1>4, <2>1, <2>3, <3>1
    <3>2. CASE x # id
      BY <1>2, <1>4, <2>1, <2>3, <3>2
    <3> QED BY <3>1, <3>2
  <2> QED BY <2>2, <2>3
<1>8. UsernameIndexExact'
  <2> SUFFICES ASSUME NEW x \in UserIDs, NEW n \in Usernames
               PROVE  indexUsername'[n] = x <=> users'[x].username = n
    BY DEF UsernameIndexExact
  <2>1. CASE x = id
    BY <1>1, <1>5, <2>1
  <2>2. CASE x # id
    BY <1>1, <1>5, <1>6, <2>2 DEF NameIndexesExact, UsernameIndexExact
  <2> QED BY <2>1, <2>2
<1> QED BY <1>1, <1>4, <1>5, <1>7, <1>8 DEF NameIndexesExact

\* A request that was granted is the only one for its spelling.
LEMMA RequestGranted ==
    ASSUME NamesInv, NEW id \in UserIDs, NEW e \in Spellings, NEW token \in Tokens,
           NEW expires \in Nat,
           \A t \in Tokens : validations[t].email = e => validations[t].user = id,
           validations' = WithRequest(id, e, token, expires),
           users'[id].email # Nil,
           \A x \in UserIDs : users[x].email # Nil => users'[x].email # Nil,
           history'.padded = history.padded,
           e \in Emails => indexEmail'[e] \in {Nil, id},
           \A x \in Emails : x # e => indexEmail'[x] \in {Nil, indexEmail[x]}
    PROVE  /\ validations' \in [Tokens -> ValidationType]
           /\ RequestsComplete'
           /\ RequestedAddressReserved'
<1> USE NilApart DEF NamesInv, NamesTypeOK
<1>1. /\ [email |-> e, user |-> id, expires |-> expires] \in ValidationType
      /\ NoValidation \in ValidationType /\ NoValidation.user = Nil /\ NoValidation.email = Nil
  BY DEF ValidationType, NoValidation
<1>2. validations' \in [Tokens -> ValidationType]
  BY <1>1 DEF WithRequest
<1>3. \A t \in Tokens : validations'[t].user # Nil =>
          \/ t = token /\ validations'[t].email = e /\ validations'[t].user = id
          \/ t # token /\ validations'[t] = validations[t] /\ validations[t].email # e
  BY <1>1 DEF WithRequest
<1>4. RequestsComplete'
  BY <1>1 DEF RequestsComplete, WithRequest
<1>5. RequestedAddressReserved'
  <2> SUFFICES ASSUME NEW t \in Tokens, validations'[t].user # Nil
               PROVE  /\ validations'[t].email \in Emails \ history'.padded =>
                             indexEmail'[validations'[t].email] \in {Nil, validations'[t].user}
                      /\ users'[validations'[t].user].email # Nil
                      /\ \A s \in Tokens : validations'[s].email = validations'[t].email => s = t
    BY DEF RequestedAddressReserved, Pending, UserExists
  <2>1. \A s \in Tokens : validations'[s].email = validations'[t].email => validations'[s].user # Nil
    BY <1>4 DEF RequestsComplete
  <2>2. CASE t = token /\ validations'[t].email = e /\ validations'[t].user = id
    BY <1>3, <2>1, <2>2
  <2>3. CASE t # token /\ validations'[t] = validations[t] /\ validations[t].email # e
    <3>1. /\ validations[t].user \in UserIDs /\ validations[t].email \in Spellings
          /\ validations[t].email \in Emails \ history.padded =>
                 indexEmail[validations[t].email] \in {Nil, validations[t].user}
          /\ users[validations[t].user].email # Nil
          /\ \A s \in Tokens : validations[s].email = validations[t].email => s = t
      BY <2>3 DEF RequestedAddressReserved, Pending, UserExists, ValidationType, RequestsComplete
    <3> QED BY <1>3, <2>1, <2>3, <3>1
  <2> QED BY <1>3, <2>2, <2>3
<1> QED BY <1>2, <1>4, <1>5

LEMMA RegisterNames ==
    ASSUME NamesInv, RegisterStep
    PROVE  NamesInv'
<1> USE NilApart DEF NamesInv, NamesTypeOK
<1>1. PICK id \in UserIDs, e \in Emails, n \in Usernames \cup {Nil},
           p \in Passwords, token \in Tokens, valid \in Deadlines :
          RegisterUser(id, [email |-> e, username |-> n, unvalidated |-> TRUE], p, token, valid)
  BY DEF RegisterStep
<1> DEFINE r == [email |-> e, username |-> n, unvalidated |-> TRUE]
<1>2. r \in UserType /\ r.email = e /\ r.username = n
  BY DEF UserType
<1>3. /\ id \notin drawn /\ SaveUser(id, r) /\ indexEmail[e] = Nil
      /\ \A t \in Tokens : validations[t].email = e => validations[t].user = id
      /\ validations' = WithRequest(id, e, token, now + valid)
      /\ drawn' = drawn \cup {id, token}
      /\ history' = [history EXCEPT !.last[id] = p, !.aliased = @ \/ n \in UserIDs]
      /\ UNCHANGED now
  BY <1>1, <1>2 DEF RegisterUser, SaveNewUser, EmailExists, EmailAvailable
<1> HIDE DEF r
<1>4. now + valid \in Nat
  OBVIOUS
<1>5. /\ history' \in HistoryType /\ history'.padded = history.padded
      /\ ~history'.aliased => ~history.aliased /\ n \notin UserIDs
  BY <1>3 DEF HistoryType
<1>6. /\ users' = [users EXCEPT ![id] = r] /\ users' \in [UserIDs -> UserType]
      /\ indexUsername' \in [Usernames -> UserIDs \cup {Nil}]
      /\ indexEmail' \in [Emails -> UserIDs \cup {Nil}]
      /\ NameIndexesExact'
      /\ \A x \in Emails : /\ indexEmail'[x] \in {Nil, id, indexEmail[x]}
                           /\ x # e => indexEmail'[x] \in {Nil, indexEmail[x]}
  BY <1>2, <1>3, <1>5, SaveKeepsIndexes
<1>7. /\ validations' \in [Tokens -> ValidationType]
      /\ RequestsComplete' /\ RequestedAddressReserved'
  <2>1. e \in Spellings /\ users'[id].email # Nil /\ indexEmail'[e] \in {Nil, id}
    BY <1>2, <1>3, <1>6
  <2>2. \A x \in UserIDs : users[x].email # Nil => users'[x].email # Nil
    BY <1>2, <1>6
  <2> QED BY <1>3, <1>4, <1>5, <1>6, <2>1, <2>2, RequestGranted
<1>8. NamesTypeOK'
  BY <1>3, <1>5, <1>6, <1>7
<1>9. UsersComplete'
  BY <1>2, <1>3, <1>6 DEF UsersComplete
<1>10. AliasesRecorded'
  BY <1>2, <1>5, <1>6 DEF AliasesRecorded
<1> QED BY <1>6, <1>7, <1>8, <1>9, <1>10

\* UpdateUser with a new user name.
LEMMA UpdateNames ==
    ASSUME NamesInv, NEW ref, NEW n \in Usernames \cup {Nil}, UpdateUsername(ref, n)
    PROVE  NamesInv'
<1> USE NilApart DEF NamesInv, NamesTypeOK
<1> DEFINE id == Lookup(ref)
           r == [users[id] EXCEPT !.username = n]
<1>1. /\ id \in UserIDs /\ users[id].email # Nil /\ SaveUser(id, r)
      /\ history' = [history EXCEPT !.aliased = @ \/ n \in UserIDs]
      /\ UNCHANGED <<validations, now, drawn>>
  BY LookupFinds DEF UpdateUsername, UserExists
<1>2. r \in UserType /\ r.email = users[id].email /\ r.email \in Emails /\ r.username = n
  BY <1>1 DEF UserType
<1>3. /\ history' \in HistoryType /\ history'.padded = history.padded
      /\ ~history'.aliased => ~history.aliased /\ n \notin UserIDs
  BY <1>1 DEF HistoryType
<1>4. r.email \in history.padded \/ indexEmail[r.email] = id
  BY <1>1, <1>2 DEF NameIndexesExact, EmailIndexExact
<1>5. indexEmail' = indexEmail
  <2>1. indexEmail' = Moved(indexEmail, id, users[id].email, users[id].email)
    BY <1>1, <1>2 DEF SaveUser
  <2> QED BY <2>1 DEF Moved
<1> HIDE DEF id, r
<1>6. /\ users' = [users EXCEPT ![id] = r] /\ users' \in [UserIDs -> UserType]
      /\ indexUsername' \in [Usernames -> UserIDs \cup {Nil}]
      /\ NameIndexesExact'
  BY <1>1, <1>2, <1>3, <1>4, SaveKeepsIndexes
<1>7. \A x \in UserIDs : users'[x].email = users[x].email
  BY <1>2, <1>6
<1>8. UsersComplete'
  BY <1>1, <1>2, <1>6 DEF UsersComplete
<1>9. AliasesRecorded'
  BY <1>2, <1>3, <1>6 DEF AliasesRecorded
<1>10. RequestsComplete' /\ RequestedAddressReserved'
  BY <1>1, <1>3, <1>5, <1>7
     DEF RequestsComplete, RequestedAddressReserved, Pending, UserExists, ValidationType
<1> QED BY <1>1, <1>3, <1>5, <1>6, <1>8, <1>9, <1>10

LEMMA DeleteNames ==
    ASSUME NamesInv, NEW ref, DeleteUser(ref)
    PROVE  NamesInv'
<1> USE NilApart DEF NamesInv, NamesTypeOK
<1> DEFINE id == Lookup(ref)
<1>1. /\ id \in UserIDs /\ users[id].email \in Emails
      /\ users' = [users EXCEPT ![id] = NoUser]
      /\ indexEmail' = [indexEmail EXCEPT ![users[id].email] = Nil]
      /\ indexUsername' = [n \in Usernames |->
             IF n = users[id].username THEN Nil ELSE indexUsername[n]]
      /\ validations' = [t \in Tokens |->
             IF validations[t].user = id THEN NoValidation ELSE validations[t]]
      /\ UNCHANGED <<now, drawn, history>>
  BY LookupFinds DEF DeleteUser, UserExists, UserType
<1> HIDE DEF id
<1>2. /\ NoUser \in UserType /\ NoUser.email = Nil /\ NoUser.username = Nil
      /\ NoValidation \in ValidationType /\ NoValidation.user = Nil /\ NoValidation.email = Nil
  BY DEF NoUser, UserType, NoValidation, ValidationType
<1>3. NamesTypeOK'
  BY <1>1, <1>2
<1>4. EmailIndexExact'
  BY <1>1, <1>2 DEF NameIndexesExact, EmailIndexExact
<1>5. UsernameIndexExact'
  BY <1>1, <1>2 DEF NameIndexesExact, UsernameIndexExact
<1>6. UsersComplete' /\ RequestsComplete' /\ AliasesRecorded'
  BY <1>1, <1>2 DEF UsersComplete, RequestsComplete, AliasesRecorded
<1>7. RequestedAddressReserved'
  <2> SUFFICES ASSUME NEW t \in Tokens, validations'[t].user # Nil
               PROVE  /\ validations'[t].email \in Emails \ history'.padded =>
                             indexEmail'[validations'[t].email] \in {Nil, validations'[t].user}
                      /\ users'[validations'[t].user].email # Nil
                      /\ \A s \in Tokens : validations'[s].email = validations'[t].email => s = t
    BY DEF RequestedAddressReserved, Pending, UserExists
  <2>1. validations'[t] = validations[t] /\ validations[t].user # id
    BY <1>1, <1>2
  <2>2. /\ validations[t].user \in UserIDs /\ validations[t].email \in Spellings
        /\ validations[t].email \in Emails \ history.padded =>
               indexEmail[validations[t].email] \in {Nil, validations[t].user}
        /\ users[validations[t].user].email # Nil
        /\ \A s \in Tokens : validations[s].email = validations[t].email => s = t
    BY <2>1 DEF RequestedAddressReserved, Pending, UserExists, ValidationType, RequestsComplete
  <2> QED BY <1>1, <1>2, <2>1, <2>2
<1> QED BY <1>3, <1>4, <1>5, <1>6, <1>7 DEF NameIndexesExact

LEMMA RequestNames ==
    ASSUME NamesInv, NEW ref, NEW e \in Spellings, NEW token \in Tokens, NEW valid \in Deadlines,
           RequestEmailChange(ref, e, token, valid)
    PROVE  NamesInv'
<1> USE NilApart DEF NamesInv, NamesTypeOK
<1> DEFINE id == Lookup(ref)
<1>1. /\ id \in UserIDs /\ users[id].email # Nil
      /\ e \in Emails => indexEmail[e] \in {Nil, id}
      /\ \A t \in Tokens : validations[t].email = e => validations[t].user = id
      /\ validations' = WithRequest(id, e, token, now + valid)
      /\ drawn' = drawn \cup {token}
      /\ UNCHANGED <<users, indexEmail, indexUsername, now, history>>
  BY LookupFinds DEF RequestEmailChange, EmailAvailable, UserExists, accountVars
<1> HIDE DEF id
<1>2. now + valid \in Nat
  OBVIOUS
<1>3. /\ validations' \in [Tokens -> ValidationType]
      /\ RequestsComplete' /\ RequestedAddressReserved'
  BY <1>1, <1>2, RequestGranted
<1>4. NameIndexesExact' /\ UsersComplete' /\ AliasesRecorded'
  BY <1>1 DEF NameIndexesExact, EmailIndexExact, UsernameIndexExact, UsersComplete, AliasesRecorded
<1> QED BY <1>1, <1>3, <1>4

LEMMA ChangeNames ==
    ASSUME NamesInv, NEW ref, NEW token \in Tokens, ChangeEmail(ref, token)
    PROVE  NamesInv'
<1> USE NilApart DEF NamesInv, NamesTypeOK
<1> DEFINE id == Lookup(ref)
           v == validations[token]
           r == [users[id] EXCEPT !.email = Trim[v.email], !.unvalidated = FALSE]
<1>1. /\ id \in UserIDs /\ users[id].email # Nil /\ v.user = id
      /\ SaveUser(id, r)
      /\ validations' = [validations EXCEPT ![token] = NoValidation]
      /\ history' = Confirmed(token, v)
      /\ UNCHANGED <<now, drawn>>
  BY LookupFinds DEF ChangeEmail, UserExists
<1>2. /\ v.email \in Spellings /\ Trim[v.email] \in Emails
      /\ v.email \in Emails \ history.padded => indexEmail[v.email] \in {Nil, id}
      /\ \A s \in Tokens : validations[s].email = v.email => s = token
  BY <1>1 DEF RequestedAddressReserved, Pending, RequestsComplete, ValidationType
<1>3. r \in UserType /\ r.email = Trim[v.email] /\ r.username = users[id].username
  <2>1. users[id] \in UserType
    BY <1>1
  <2> HIDE DEF id, v
  <2> QED BY <1>2, <2>1 DEF UserType
<1>4. NoValidation \in ValidationType /\ NoValidation.user = Nil /\ NoValidation.email = Nil
  BY DEF NoValidation, ValidationType
<1> HIDE DEF id, r
<1>5. /\ history' \in HistoryType /\ history'.aliased = history.aliased
      /\ history'.padded = history.padded \cup (IF v.email \in Emails THEN {} ELSE {Trim[v.email]})
  BY <1>1, <1>2 DEF Confirmed, HistoryType
<1> HIDE DEF v
<1>6. /\ users' = [users EXCEPT ![id] = r] /\ users' \in [UserIDs -> UserType]
      /\ indexUsername' \in [Usernames -> UserIDs \cup {Nil}]
      /\ indexEmail' \in [Emails -> UserIDs \cup {Nil}]
      /\ NameIndexesExact'
      /\ \A e \in Emails : e # r.email => indexEmail'[e] \in {Nil, indexEmail[e]}
  <2>1. r.email \in history'.padded \/ indexEmail[r.email] \in {Nil, id}
    BY <1>2, <1>3, <1>5
  <2> QED BY <1>1, <1>3, <1>5, <2>1, SaveKeepsIndexes
<1>8. NamesTypeOK' /\ UsersComplete' /\ RequestsComplete' /\ AliasesRecorded'
  BY <1>1, <1>2, <1>3, <1>4, <1>5, <1>6 DEF UsersComplete, RequestsComplete, AliasesRecorded
<1>7. RequestedAddressReserved'
  <2> SUFFICES ASSUME NEW t \in Tokens, validations'[t].user # Nil
               PROVE  /\ validations'[t].email \in Emails \ history'.padded =>
                             indexEmail'[validations'[t].email] \in {Nil, validations'[t].user}
                      /\ users'[validations'[t].user].email # Nil
                      /\ \A s \in Tokens : validations'[s].email = validations'[t].email => s = t
    BY DEF RequestedAddressReserved, Pending, UserExists
  <2>1. t # token /\ validations'[t] = validations[t]
    BY <1>1, <1>4
  <2>2. /\ validations[t].user \in UserIDs /\ validations[t].email \in Spellings
        /\ validations[t].email \in Emails \ history.padded =>
               indexEmail[validations[t].email] \in {Nil, validations[t].user}
        /\ users[validations[t].user].email # Nil
        /\ \A s \in Tokens : validations[s].email = validations[t].email => s = t
    BY <2>1 DEF RequestedAddressReserved, Pending, UserExists, ValidationType, RequestsComplete
  <2>3. validations[t].email # v.email
    BY <1>2, <2>1
  <2>4. validations[t].email \in Emails \ history'.padded =>
            validations[t].email # r.email /\ validations[t].email \notin history.padded
    BY <1>2, <1>3, <1>5, <2>3
  <2>5. users'[validations[t].user].email # Nil
    BY <1>2, <1>3, <1>6, <2>2
  <2>6. \A s \in Tokens : validations'[s].email = validations'[t].email => s = t
    BY <1>1, <1>4, <2>1, <2>2
  <2> QED BY <1>6, <2>1, <2>2, <2>4, <2>5, <2>6
<1> QED BY <1>6, <1>7, <1>8

LEMMA CleanNames ==
    ASSUME NamesInv, CleanValidations
    PROVE  NamesInv'
<1> USE NilApart DEF NamesInv, NamesTypeOK
<1>1. /\ NoValidation \in ValidationType /\ NoValidation.user = Nil /\ NoValidation.email = Nil
  BY DEF NoValidation, ValidationType
<1>2. /\ \A t \in Tokens : validations'[t] \in {validations[t], NoValidation}
      /\ validations' \in [Tokens -> ValidationType]
      /\ UNCHANGED <<users, indexEmail, indexUsername, now, drawn, history>>
  BY <1>1 DEF CleanValidations, accountVars
<1>3. UsersComplete' /\ RequestsComplete' /\ NameIndexesExact' /\ AliasesRecorded'
  BY <1>1, <1>2
     DEF UsersComplete, RequestsComplete, NameIndexesExact, EmailIndexExact, UsernameIndexExact,
         AliasesRecorded
<1>4. RequestedAddressReserved'
  BY <1>1, <1>2 DEF RequestedAddressReserved, Pending, UserExists, RequestsComplete
<1> QED BY <1>2, <1>3, <1>4

\* The other steps do not touch names and requests.
LEMMA OtherNames ==
    ASSUME NamesInv, PasswordStep \/ ResetStep \/ Tick \/ UNCHANGED vars
    PROVE  NamesInv'
<1> USE DEF accountVars, NamesInv, NamesTypeOK
<1>1. UNCHANGED <<users, indexEmail, indexUsername, validations>> /\ now' \in Nat
      /\ drawn \subseteq drawn'
  <2>1. CASE PasswordStep
    BY <2>1 DEF PasswordStep, SetPassword, ResetPassword
  <2>2. CASE ResetStep
    BY <2>2 DEF ResetStep, RequestPasswordReset, CleanResets
  <2>3. CASE Tick
    BY <2>3 DEF Tick
  <2>4. CASE UNCHANGED vars
    BY <2>4 DEF vars
  <2> QED BY <2>1, <2>2, <2>3, <2>4
<1>2. /\ history' \in HistoryType /\ history'.padded = history.padded
      /\ history'.aliased = history.aliased
  <2>1. CASE PasswordStep
    <3>1. ASSUME NEW id, NEW p \in Passwords
          PROVE  [history.last EXCEPT ![id] = p] \in [UserIDs -> Passwords \cup {Nil}]
      BY DEF HistoryType
    <3>2. ASSUME NEW ref \in Refs, NEW p \in Passwords, SetPassword(ref, p)
          PROVE  /\ history' \in HistoryType /\ history'.padded = history.padded
                 /\ history'.aliased = history.aliased
      <4>1. history' = [history EXCEPT !.last = [history.last EXCEPT ![Lookup(ref)] = p]]
        BY <3>2 DEF SetPassword
      <4> QED BY <3>1, <4>1 DEF HistoryType
    <3>3. ASSUME NEW token \in Tokens, NEW p \in Passwords, ResetPassword(token, p)
          PROVE  /\ history' \in HistoryType /\ history'.padded = history.padded
                 /\ history'.aliased = history.aliased
      <4> DEFINE last == [history.last EXCEPT ![resets[token].user] = p]
      <4>1. history' = [history EXCEPT !.last = last, !.spent = @ \cup {token}]
        BY <3>3 DEF ResetPassword
      <4>2. last \in [UserIDs -> Passwords \cup {Nil}]
        BY <3>1
      <4> HIDE DEF last
      <4> QED BY <4>1, <4>2 DEF HistoryType
    <3> QED BY <2>1, <3>2, <3>3 DEF PasswordStep
  <2>2. CASE ResetStep \/ Tick \/ UNCHANGED vars
    BY <2>2 DEF ResetStep, RequestPasswordReset, CleanResets, Tick, vars
  <2> QED BY <2>1, <2>2
<1> QED BY <1>1, <1>2
        DEF UsersComplete, RequestsComplete, NameIndexesExact, AliasesRecorded,
            EmailIndexExact, UsernameIndexExact, RequestedAddressReserved, Pending, UserExists

LEMMA NamesStep ==
    ASSUME NamesInv, ServiceStep
    PROVE  NamesInv'
BY RegisterNames, UpdateNames, DeleteNames, RequestNames, ChangeNames, CleanNames, OtherNames
   DEF ServiceStep, NameStep, RenameStep, DeleteStep

LEMMA NamesStart == Init => NamesInv
<1> SUFFICES ASSUME Init PROVE NamesInv
  OBVIOUS
<1>1. NoUser \in UserType /\ NoValidation \in ValidationType
  BY DEF NoUser, UserType, NoValidation, ValidationType
<1> QED BY <1>1, NilApart
        DEF Init, NoUser, NoValidation, NamesInv, NamesTypeOK, UsersComplete, RequestsComplete,
            NameIndexesExact, EmailIndexExact, UsernameIndexExact, RequestedAddressReserved, Pending,
            HistoryType, AliasesRecorded

----------------------------------------------------------------------------
(***************************************************************************)
(* Tokens.                                                                 *)
(***************************************************************************)

\* A token that has not been drawn before becomes a request.
LEMMA TokenDrawn ==
    ASSUME TokensInv, NEW token \in Tokens, token \notin drawn, token \in drawn',
           drawn \subseteq drawn',
           validations' \in [Tokens -> ValidationType],
           resets' \in [Tokens -> [user : UserIDs \cup {Nil}, expires : Nat]],
           \A t \in Tokens : t # token =>
               (Pending(t)' => Pending(t)) /\ (Requested(t)' => Requested(t)),
           ~(Pending(token)' /\ Requested(token)'),
           history' \in HistoryType, history'.spent = history.spent
    PROVE  TokensInv'
BY DEF TokensInv, TokensWorkOnce, Pending, Requested, HistoryType

\* A change of address adds a request under its token and removes others.
LEMMA RequestTokens ==
    ASSUME NEW id, NEW e, NEW token \in Tokens, NEW expires,
           validations' = WithRequest(id, e, token, expires)
    PROVE  \A t \in Tokens : t # token => (Pending(t)' => Pending(t))
BY DEF WithRequest, Pending, NoValidation

LEMMA TokensStep ==
    ASSUME NamesInv, TokensInv, ServiceStep
    PROVE  TokensInv'
<1> USE NilApart
<1>0. /\ validations' \in [Tokens -> ValidationType]
      /\ resets \in [Tokens -> [user : UserIDs \cup {Nil}, expires : Nat]]
      /\ history \in HistoryType /\ history' \in HistoryType /\ now \in Nat
      /\ \A t \in Tokens : Pending(t) \/ Requested(t) => t \in drawn
  BY NamesStep DEF NamesInv, NamesTypeOK, TokensInv
<1>1. CASE RegisterStep
  <2>1. PICK id \in UserIDs, e \in Emails, n \in Usernames \cup {Nil},
             p \in Passwords, token \in Tokens, valid \in Deadlines :
            RegisterUser(id, [email |-> e, username |-> n, unvalidated |-> TRUE], p, token, valid)
    BY <1>1 DEF RegisterStep
  <2>2. /\ token \notin drawn
        /\ history'.spent = history.spent
        /\ validations' = WithRequest(id, e, token, now + valid)
        /\ drawn' = drawn \cup {id, token}
        /\ UNCHANGED resets
    BY <1>0, <2>1 DEF RegisterUser, HistoryType
  <2>3. \A t \in Tokens : t # token => (Pending(t)' => Pending(t))
    BY <2>2, RequestTokens
  <2>4. \A t \in Tokens : Requested(t)' <=> Requested(t)
    BY <2>2 DEF Requested
  <2> QED BY <1>0, <2>2, <2>3, <2>4, TokenDrawn
<1>2. ASSUME NEW ref, NEW p \in Passwords, SetPassword(ref, p) PROVE TokensInv'
  <2>1. UNCHANGED <<validations, resets, drawn>> /\ history'.spent = history.spent
    BY <1>0, <1>2 DEF SetPassword, HistoryType
  <2>2. \A t \in Tokens : (Pending(t)' <=> Pending(t)) /\ (Requested(t)' <=> Requested(t))
    BY <2>1 DEF Pending, Requested
  <2> QED BY <1>0, <2>1, <2>2 DEF TokensInv, TokensWorkOnce, HistoryType
<1>3. ASSUME NEW token \in Tokens, NEW p \in Passwords, ResetPassword(token, p) PROVE TokensInv'
  <2>1. /\ resets[token].user # Nil /\ resets[token].user \in UserIDs
        /\ resets' = [resets EXCEPT ![token] = NoReset]
        /\ UNCHANGED <<validations, drawn>>
    BY <1>0, <1>3 DEF ResetPassword
  <2>2. history' \in HistoryType /\ history'.spent = history.spent \cup {token}
    BY <1>0, <1>3 DEF ResetPassword, HistoryType
  <2>3. /\ resets' \in [Tokens -> [user : UserIDs \cup {Nil}, expires : Nat]]
        /\ \A t \in Tokens : Requested(t)' <=> Requested(t) /\ t # token
    BY <1>0, <2>1 DEF Requested, NoReset
  <2>4. Requested(token) /\ ~Pending(token)
    BY <2>1 DEF Requested, TokensInv
  <2>5. \A t \in Tokens : Pending(t)' <=> Pending(t)
    BY <2>1 DEF Pending
  <2>6. \A t \in Tokens : /\ Pending(t)' => Pending(t) /\ t # token
                          /\ Requested(t)' => Requested(t) /\ t # token
    BY <2>3, <2>4, <2>5
  <2>7. /\ validations' \in [Tokens -> ValidationType] /\ drawn \subseteq drawn'
        /\ \A t \in Tokens : t \in history'.spent => t \in history.spent \/ t = token
    BY <2>1, <2>2 DEF TokensInv
  <2> QED BY <2>2, <2>3, <2>4, <2>6, <2>7, <1>0 DEF TokensInv, TokensWorkOnce, Pending, Requested, HistoryType
<1>4. CASE NameStep
  <2>1. ASSUME NEW ref, NEW n, UpdateUsername(ref, n) \/ DeleteUser(ref) \/ CleanValidations
        PROVE  TokensInv'
    <3>1. UNCHANGED <<resets, drawn>> /\ history'.spent = history.spent
      BY <1>0, <2>1 DEF UpdateUsername, DeleteUser, CleanValidations, HistoryType
    <3>2. \A t \in Tokens : Pending(t)' => Pending(t)
      BY <2>1 DEF UpdateUsername, DeleteUser, CleanValidations, Pending, NoValidation
    <3>3. \A t \in Tokens : Requested(t)' <=> Requested(t)
      BY <3>1 DEF Requested
    <3> QED BY <1>0, <3>1, <3>2, <3>3 DEF TokensInv, TokensWorkOnce, HistoryType
  <2>2. ASSUME NEW ref, NEW e, NEW token \in Tokens, NEW valid,
               RequestEmailChange(ref, e, token, valid)
        PROVE  TokensInv'
    <3>1. /\ token \notin drawn /\ drawn' = drawn \cup {token}
          /\ validations' = WithRequest(Lookup(ref), e, token, now + valid)
          /\ UNCHANGED <<resets, history>>
      BY <2>2 DEF RequestEmailChange
    <3>2. \A t \in Tokens : t # token => (Pending(t)' => Pending(t))
      BY <3>1, RequestTokens
    <3>3. \A t \in Tokens : Requested(t)' <=> Requested(t)
      BY <3>1 DEF Requested
    <3> QED BY <1>0, <3>1, <3>2, <3>3, TokenDrawn
  <2>3. ASSUME NEW ref, NEW token \in Tokens, ChangeEmail(ref, token) PROVE TokensInv'
    <3>1. /\ Lookup(ref) # Nil /\ validations[token].user = Lookup(ref)
          /\ validations' = [validations EXCEPT ![token] = NoValidation]
          /\ UNCHANGED <<resets, drawn>>
      BY <2>3 DEF ChangeEmail
    <3>2. history' \in HistoryType /\ history'.spent = history.spent \cup {token}
      BY <1>0, <2>3 DEF ChangeEmail, Confirmed, HistoryType
    <3>3. validations \in [Tokens -> ValidationType]
      BY DEF TokensInv
    <3>4. \A t \in Tokens : Pending(t)' <=> Pending(t) /\ t # token
      BY <3>1, <3>3 DEF Pending, NoValidation
    <3>5. Pending(token) /\ ~Requested(token)
      BY <3>1 DEF Pending, TokensInv
    <3>6. \A t \in Tokens : Requested(t)' <=> Requested(t)
      BY <3>1 DEF Requested
    <3>7. \A t \in Tokens : /\ Pending(t)' => Pending(t) /\ t # token
                            /\ Requested(t)' => Requested(t) /\ t # token
      BY <3>4, <3>5, <3>6
    <3>8. /\ validations' \in [Tokens -> ValidationType] /\ drawn \subseteq drawn'
          /\ resets' \in [Tokens -> [user : UserIDs \cup {Nil}, expires : Nat]]
          /\ \A t \in Tokens : t \in history'.spent => t \in history.spent \/ t = token
      BY <3>1, <3>2, <3>3 DEF TokensInv, ValidationType, NoValidation
    <3> QED BY <1>0, <3>2, <3>5, <3>7, <3>8 DEF TokensInv, TokensWorkOnce, Pending, Requested, HistoryType
  <2> QED BY <1>4, <2>1, <2>2, <2>3 DEF NameStep, RenameStep, DeleteStep
<1>5. CASE ResetStep
  <2>1. ASSUME NEW ref, NEW token \in Tokens, RequestPasswordReset(ref, token) PROVE TokensInv'
    <3>1. /\ Lookup(ref) \in UserIDs /\ token \notin drawn /\ drawn' = drawn \cup {token}
          /\ resets' = [resets EXCEPT ![token] = [user |-> Lookup(ref), expires |-> now + ResetTime]]
          /\ UNCHANGED <<validations, history>>
      BY <2>1, LookupFinds DEF RequestPasswordReset
    <3>2. /\ resets' \in [Tokens -> [user : UserIDs \cup {Nil}, expires : Nat]]
          /\ \A t \in Tokens : t # token => (Requested(t)' => Requested(t))
      BY <1>0, <3>1 DEF Requested
    <3>3. \A t \in Tokens : Pending(t)' <=> Pending(t)
      BY <3>1 DEF Pending
    <3> QED BY <1>0, <3>1, <3>2, <3>3, TokenDrawn
  <2>2. CASE CleanResets
    <3>1. UNCHANGED <<validations, history, drawn>>
      BY <2>2 DEF CleanResets
    <3>2. /\ resets' \in [Tokens -> [user : UserIDs \cup {Nil}, expires : Nat]]
          /\ \A t \in Tokens : Requested(t)' => Requested(t)
      BY <1>0, <2>2 DEF CleanResets, Requested, NoReset
    <3>3. \A t \in Tokens : Pending(t)' <=> Pending(t)
      BY <3>1 DEF Pending
    <3> QED BY <1>0, <3>1, <3>2, <3>3 DEF TokensInv, TokensWorkOnce, HistoryType
  <2> QED BY <1>5, <2>1, <2>2 DEF ResetStep
<1>6. CASE Tick \/ UNCHANGED vars
  <2>1. UNCHANGED <<validations, resets, history, drawn>>
    BY <1>6 DEF Tick, vars
  <2> QED BY <2>1 DEF TokensInv, TokensWorkOnce, Pending, Requested
<1> QED BY <1>1, <1>2, <1>3, <1>4, <1>5, <1>6 DEF ServiceStep, PasswordStep

LEMMA TokensStart == Init => TokensInv
BY NamesStart DEF Init, TokensInv, HistoryType, NoReset, NoValidation, ValidationType, Pending,
                  Requested, TokensWorkOnce, NamesInv, NamesTypeOK

----------------------------------------------------------------------------
(***************************************************************************)
(* Passwords.                                                              *)
(***************************************************************************)

\* The password of the latest second counts.
LEMMA LatestCounts ==
    ASSUME NEW latest \in Times, NEW bucket, bucket[latest] # Nil,
           \A t \in Times : t > latest => bucket[t] = Nil
    PROVE  LastOf(bucket) = bucket[latest]
<1> DEFINE Last(t) == bucket[t] # Nil /\ \A s \in Times : bucket[s] # Nil => s <= t
<1> Times \subseteq Nat
  BY DEF Times
<1>1. Last(latest)
  OBVIOUS
<1>2. \A t \in Times : Last(t) => t = latest
  OBVIOUS
<1>3. (CHOOSE t \in Times : Last(t)) = latest
  <2> HIDE DEF Last
  <2> QED BY <1>1, <1>2
<1> QED BY <1>1, <1>3 DEF LastOf

LEMMA StoredPassword ==
    ASSUME PasswordsInv, NEW id \in UserIDs, NEW p \in Passwords, StorePassword(id, p),
           history' \in HistoryType, history'.last = [history.last EXCEPT ![id] = p],
           UNCHANGED now
    PROVE  PasswordsInv'
<1> USE NilApart DEF PasswordsInv
<1>1. passwords' = [passwords EXCEPT ![id] = [passwords[id] EXCEPT ![now] = p]]
  BY DEF StorePassword
<1>2. history.last \in [UserIDs -> Passwords \cup {Nil}]
  BY DEF HistoryType
<1>3. /\ passwords' \in [UserIDs -> [Times -> Passwords \cup {Nil}]]
      /\ \A x \in UserIDs \ {id} : passwords'[x] = passwords[x]
      /\ passwords'[id][now] = p
      /\ \A t \in Times : t > now => passwords'[id][t] = Nil
  BY <1>1 DEF Times
<1>4. now' \in Times /\ \A x \in UserIDs, t \in Times : t > now' => passwords'[x][t] = Nil
  BY <1>3
<1>5. Password(id)' = p
  BY <1>3, LatestCounts DEF Password
<1>6. \A x \in UserIDs \ {id} : Password(x)' = Password(x)
  BY <1>3 DEF Password
<1> QED BY <1>2, <1>3, <1>4, <1>5, <1>6

LEMMA PasswordsStep ==
    ASSUME NamesInv, TokensInv, PasswordsInv, ServiceStep
    PROVE  PasswordsInv'
<1>0. history \in HistoryType /\ history' \in HistoryType
  BY NamesStep DEF NamesInv, NamesTypeOK
<1>1. CASE RegisterStep
  <2>1. PICK id \in UserIDs, e \in Emails, n \in Usernames \cup {Nil},
             p \in Passwords, token \in Tokens, valid \in Deadlines :
            RegisterUser(id, [email |-> e, username |-> n, unvalidated |-> TRUE], p, token, valid)
    BY <1>1 DEF RegisterStep
  <2>2. /\ StorePassword(id, p) /\ UNCHANGED now
        /\ history'.last = [history.last EXCEPT ![id] = p]
    BY <1>0, <2>1 DEF RegisterUser, HistoryType
  <2> QED BY <1>0, <2>2, StoredPassword
<1>2. ASSUME NEW ref, NEW p \in Passwords, SetPassword(ref, p) PROVE PasswordsInv'
  <2>1. /\ Lookup(ref) \in UserIDs /\ StorePassword(Lookup(ref), p) /\ UNCHANGED now
        /\ history'.last = [history.last EXCEPT ![Lookup(ref)] = p]
    BY <1>0, <1>2, LookupFinds DEF SetPassword, HistoryType
  <2> QED BY <1>0, <2>1, StoredPassword
<1>3. ASSUME NEW token \in Tokens, NEW p \in Passwords, ResetPassword(token, p) PROVE PasswordsInv'
  <2> DEFINE id == resets[token].user
  <2>1. /\ id \in UserIDs /\ StorePassword(id, p) /\ UNCHANGED now
        /\ history'.last = [history.last EXCEPT ![id] = p]
    BY <1>0, <1>3 DEF ResetPassword, TokensInv, HistoryType
  <2> QED BY <1>0, <2>1, StoredPassword
<1>4. ASSUME UNCHANGED passwords, now' \in Times, now' >= now,
             history' \in HistoryType, history'.last = history.last
      PROVE  PasswordsInv'
  BY <1>4 DEF PasswordsInv, Password, Times
<1>5. CASE NameStep \/ ResetStep \/ UNCHANGED vars
  <2>1. UNCHANGED <<passwords, now>>
    BY <1>5 DEF NameStep, RenameStep, DeleteStep, UpdateUsername, DeleteUser, RequestEmailChange, ChangeEmail,
                CleanValidations, ResetStep, RequestPasswordReset, CleanResets, vars
  <2>2. history'.last = history.last
    <3>1. CASE \/ \E ref \in Refs, n \in Usernames \cup {Nil} : UpdateUsername(ref, n)
               \/ \E ref \in Refs, token \in Tokens : ChangeEmail(ref, token)
      BY <1>0, <3>1 DEF UpdateUsername, ChangeEmail, Confirmed, HistoryType
    <3>2. CASE \/ \E ref \in Refs, e \in Spellings, token \in Tokens, valid \in Deadlines :
                     RequestEmailChange(ref, e, token, valid)
               \/ CleanValidations \/ DeleteStep \/ ResetStep \/ UNCHANGED vars
      BY <3>2 DEF RequestEmailChange, CleanValidations, DeleteStep, DeleteUser, ResetStep,
                  RequestPasswordReset, CleanResets, vars
    <3> QED BY <1>5, <3>1, <3>2 DEF NameStep, RenameStep
  <2>3. now \in Times /\ now \in Nat
    BY DEF PasswordsInv, Times
  <2> QED BY <1>0, <1>4, <2>1, <2>2, <2>3
<1>6. CASE Tick
  <2>1. now' = now + 1 /\ now' \in Times /\ UNCHANGED <<passwords, history>>
    BY <1>6, NilApart DEF Tick, PasswordsInv, Times
  <2> QED BY <1>4, <2>1 DEF PasswordsInv, Times
<1> QED BY <1>1, <1>2, <1>3, <1>5, <1>6 DEF ServiceStep, PasswordStep

LEMMA PasswordsStart == Init => PasswordsInv
BY NilApart DEF Init, PasswordsInv, HistoryType, Times, Password, LastOf

----------------------------------------------------------------------------
(***************************************************************************)
(* Addresses and existence.                                                *)
(***************************************************************************)

\* Every step but a deletion keeps who exists.
LEMMA UsersStay ==
    ASSUME NamesInv, KeepingStep, NEW x \in UserIDs, UserExists(x)
    PROVE  UserExists(x)'
<1> USE NilApart DEF UserExists
<1>0. users \in [UserIDs -> UserType]
  BY DEF NamesInv, NamesTypeOK
<1>1. ASSUME NEW id \in UserIDs, NEW r, SaveUser(id, r) PROVE UserExists(x)'
  BY <1>0, <1>1 DEF SaveUser
<1>2. CASE RegisterStep
  BY <1>1, <1>2 DEF RegisterStep, RegisterUser, SaveNewUser
<1>3. CASE PasswordStep \/ ResetStep \/ Tick \/ UNCHANGED vars \/ CleanValidations
  <2>1. UNCHANGED users
    BY <1>3 DEF PasswordStep, SetPassword, ResetPassword, ResetStep, RequestPasswordReset,
                CleanResets, Tick, vars, accountVars, CleanValidations
  <2> QED BY <2>1
<1>4. ASSUME NEW ref, NEW n, UpdateUsername(ref, n) PROVE UserExists(x)'
  <2>1. Lookup(ref) \in UserIDs
    BY <1>4, LookupFinds DEF UpdateUsername
  <2> QED BY <1>1, <1>4, <2>1 DEF UpdateUsername
<1>5. ASSUME NEW ref, NEW token, ChangeEmail(ref, token) PROVE UserExists(x)'
  <2>1. Lookup(ref) \in UserIDs
    BY <1>5, LookupFinds DEF ChangeEmail
  <2> QED BY <1>1, <1>5, <2>1 DEF ChangeEmail
<1>6. ASSUME NEW ref, NEW e, NEW token, NEW valid, RequestEmailChange(ref, e, token, valid)
      PROVE  UserExists(x)'
  BY <1>6 DEF RequestEmailChange, accountVars
<1> QED BY <1>2, <1>3, <1>4, <1>5, <1>6 DEF KeepingStep, RenameStep

LEMMA AddressStep ==
    ASSUME NamesInv, ServiceStep
    PROVE  ConfirmedStep
<1> USE NilApart DEF NamesInv, NamesTypeOK
<1>1. ASSUME UNCHANGED users PROVE ConfirmedStep
  BY <1>1 DEF ConfirmedStep
<1>2. CASE RegisterStep
  <2>1. PICK id \in UserIDs, r \in UserType : SaveNewUser(id, r)
    <3>1. PICK id \in UserIDs, e \in Emails, n \in Usernames \cup {Nil},
               p \in Passwords, token \in Tokens, valid \in Deadlines :
              RegisterUser(id, [email |-> e, username |-> n, unvalidated |-> TRUE], p, token, valid)
      BY <1>2 DEF RegisterStep
    <3> QED BY <3>1 DEF RegisterUser, UserType
  <2>2. ~UserExists(id)
    BY <2>1 DEF SaveNewUser, UsersComplete, UserExists
  <2>3. users' = [users EXCEPT ![id] = r]
    BY <2>1 DEF SaveNewUser, SaveUser
  <2> QED BY <2>2, <2>3 DEF ConfirmedStep, UserExists
<1>3. CASE PasswordStep \/ ResetStep \/ Tick \/ UNCHANGED vars \/ CleanValidations
  <2>1. UNCHANGED users
    BY <1>3 DEF PasswordStep, SetPassword, ResetPassword, ResetStep, RequestPasswordReset,
                CleanResets, Tick, vars, accountVars, CleanValidations
  <2> QED BY <1>1, <2>1
<1>4. ASSUME NEW ref, NEW n, UpdateUsername(ref, n) PROVE ConfirmedStep
  <2>1. users' = [users EXCEPT ![Lookup(ref)] = [users[Lookup(ref)] EXCEPT !.username = n]]
    BY <1>4 DEF UpdateUsername, SaveUser
  <2>2. Lookup(ref) \in UserIDs
    BY <1>4, LookupFinds DEF UpdateUsername
  <2> QED BY <2>1, <2>2 DEF ConfirmedStep, UserType
<1>5. ASSUME NEW ref, DeleteUser(ref) PROVE ConfirmedStep
  <2>1. users' = [users EXCEPT ![Lookup(ref)] = NoUser]
    BY <1>5 DEF DeleteUser
  <2> QED BY <2>1 DEF ConfirmedStep, UserExists, NoUser
<1>6. ASSUME NEW ref, NEW e, NEW token, NEW valid, RequestEmailChange(ref, e, token, valid)
      PROVE  ConfirmedStep
  BY <1>1, <1>6 DEF RequestEmailChange, accountVars
<1>7. ASSUME NEW ref, NEW token \in Tokens, ChangeEmail(ref, token) PROVE ConfirmedStep
  <2> DEFINE id == Lookup(ref)
             v == validations[token]
  <2>1. /\ id \in UserIDs /\ v.user = id /\ now <= v.expires
        /\ validations' = [validations EXCEPT ![token] = NoValidation]
        /\ users' = [users EXCEPT ![id] = [users[id] EXCEPT !.email = Trim[v.email], !.unvalidated = FALSE]]
    BY <1>7, LookupFinds DEF ChangeEmail, SaveUser
  <2>2. Pending(token) /\ ~Pending(token)'
    BY <2>1 DEF Pending, NoValidation
  <2>3. users'[id].email = Trim[v.email]
    BY <2>1 DEF UserType
  <2>4. \A x \in UserIDs : x # id => users'[x] = users[x]
    BY <2>1
  <2> QED BY <2>1, <2>2, <2>3, <2>4 DEF ConfirmedStep
<1> QED BY <1>2, <1>3, <1>4, <1>5, <1>6, <1>7 DEF ServiceStep, NameStep, RenameStep, DeleteStep
=============================================================================
