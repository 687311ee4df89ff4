--------------------------- MODULE AccountsProofs ---------------------------
(***************************************************************************)
(* Invariants of Accounts for any number of accounts, sessions, domains    *)
(* and requests.  What the users service promises follows from module      *)
(* UsersProofs, since every step of the server makes one step of the       *)
(* service or none (ServerStep).                                           *)
(*                                                                         *)
(* That a domain is not orphaned without an overlap is inductive with what *)
(* the requests under way know (OwnersInv): a user who is to get a domain  *)
(* exists, a user about to be deleted owns none, and no account is being   *)
(* deleted while a domain is being given.  It holds until an id is taken   *)
(* for user name: from then on deleting by id may delete somebody else.    *)
(***************************************************************************)
EXTENDS Accounts, UsersProofs

UsersInv == NamesInv /\ TokensInv /\ PasswordsInv

Steps == {"idle", "session", "password-authenticate", "password", "delete-logout",
          "delete-authenticate", "delete-check", "delete", "give", "add"}

RequestType ==
    [step : Steps, user : UserIDs \cup {Nil}, email : Emails \cup {Nil},
     session : Sessions \cup {Nil}, domain : Domains \cup {Nil}, by : UserIDs \cup {Nil}]

RequestsTypeOK ==
    /\ requests \in [Requests -> RequestType]
    /\ owner \in [Domains -> UserIDs \cup {Nil}]

\* What holds as long as no deletion and no transfer overlapped.
Settled ==
    /\ OwnersExist
    /\ \A r \in Requests : requests[r].step \in Giving =>
           requests[r].user \in UserIDs /\ UserExists(requests[r].user)
    /\ \A r \in Requests : requests[r].step = "delete" =>
           \A d \in Domains : owner[d] # Nil => owner[d] # requests[r].user
    /\ \A r, q \in Requests :
           ~(requests[r].step \in Giving /\ requests[q].step \in Deleting)

OwnersInv == RequestsTypeOK /\ (overlap \/ history.aliased \/ Settled)

----------------------------------------------------------------------------
LEMMA RefsFound == ASSUME NamesInv, NEW ref, Lookup(ref) # Nil PROVE ref \in Refs
BY NilApart DEF Lookup, Refs

\* Accounts go only where userDeleteFEAPIHandler deletes one.
LEMMA ServerKeeps ==
    ASSUME NamesInv, [AccountsNext]_accountsVars
    PROVE  KeepingStep \/ \E r \in Requests : DeleteChecked(r)
<1>1. ASSUME UNCHANGED vars PROVE KeepingStep
  BY <1>1 DEF KeepingStep
<1>2. ASSUME NEW s \in Sessions, Session(s) PROVE KeepingStep
  <2>1. ASSUME NEW id \in UserIDs, ChangeSettings(s, id) PROVE KeepingStep
    BY <2>1 DEF ChangeSettings, Settings, KeepingStep, RenameStep, Refs
  <2> QED BY <1>1, <1>2, <2>1 DEF Session, Logout, SessionExpires, DeleteDomain
<1>3. ASSUME NEW r \in Requests, Request(r) PROVE KeepingStep \/ DeleteChecked(r)
  <2>1. ASSUME NEW id \in UserIDs, NEW e \in Emails, NEW n \in Usernames \cup {Nil},
               NEW p \in Passwords, NEW token \in Tokens, NEW valid \in Deadlines,
               Register(r, id, e, n, p, token, valid)
        PROVE  KeepingStep
    BY <2>1 DEF Register, KeepingStep, RegisterStep
  <2>2. ASSUME NEW p \in Passwords, SetNewPassword(r, p) PROVE KeepingStep
    <3>1. SetPassword(requests[r].user, p) /\ requests[r].user \in Refs
      BY <2>2, RefsFound DEF SetNewPassword, SetPassword
    <3> QED BY <3>1 DEF KeepingStep, PasswordStep
  <2>3. \/ UNCHANGED vars
        \/ \E id \in UserIDs, e \in Emails, n \in Usernames \cup {Nil}, p \in Passwords,
              token \in Tokens, valid \in Deadlines : Register(r, id, e, n, p, token, valid)
        \/ \E p \in Passwords : SetNewPassword(r, p)
        \/ DeleteChecked(r)
    BY <1>3 DEF Request, Fails, Login, OpenSession, ChangePassword, AuthenticateChange,
                DeleteAccount, AuthenticateDelete, CheckDomains, LogoutDeleted, AddDomain,
                GiveDomain, StoreAdded, StoreGiven
  <2> QED BY <1>1, <2>1, <2>2, <2>3
<1>4. ASSUME NEW ref \in Refs, NEW token \in Tokens, ForgotPassword(ref, token) PROVE KeepingStep
  BY <1>4, RefsFound DEF ForgotPassword, RequestPasswordReset, KeepingStep, ResetStep
<1>5. ASSUME NEW token \in Tokens, NEW p \in Passwords, NewPassword(token, p) PROVE KeepingStep
  BY <1>5 DEF NewPassword, KeepingStep, PasswordStep
<1>6. CASE Housekeeping
  BY <1>6 DEF Housekeeping, KeepingStep, RenameStep, ResetStep
<1>7. CASE UNCHANGED accountsVars
  BY <1>1, <1>7 DEF accountsVars
<1> QED BY <1>2, <1>3, <1>4, <1>5, <1>6, <1>7 DEF AccountsNext

\* A step of the server is one of the users service or none.
LEMMA ServerStep ==
    ASSUME NamesInv, [AccountsNext]_accountsVars
    PROVE  ServiceStep
<1>1. ASSUME NEW r \in Requests, DeleteChecked(r) PROVE ServiceStep
  <2>1. DeleteUser(requests[r].user) /\ requests[r].user \in Refs
    BY <1>1, RefsFound DEF DeleteChecked, DeleteUser
  <2> QED BY <2>1 DEF ServiceStep, NameStep, DeleteStep
<1> QED BY <1>1, ServerKeeps DEF KeepingStep, ServiceStep, NameStep

LEMMA UsersInvariant == AccountsSpec => []UsersInv
<1>1. AccountsInit => UsersInv
  BY NamesStart, TokensStart, PasswordsStart DEF AccountsInit, UsersInv
<1>2. UsersInv /\ [AccountsNext]_accountsVars => UsersInv'
  BY ServerStep, NamesStep, TokensStep, PasswordsStep DEF UsersInv
<1> QED BY <1>1, <1>2, PTL DEF AccountsSpec

(***************************************************************************)
(* Both name indexes agree with the records, whatever registrations,       *)
(* renames, changes of address and deletions run (users.save), but for     *)
(* users missing from that of addresses under one that was confirmed with  *)
(* spaces around it.                                                       *)
(***************************************************************************)
THEOREM NameIndexes == AccountsSpec => []NameIndexesExact
<1>1. UsersInv => NameIndexesExact
  BY DEF UsersInv, NamesInv
<1> QED BY <1>1, UsersInvariant, PTL

(***************************************************************************)
(* An address under confirmation, spelt without spaces and never confirmed *)
(* with, is nobody else's, and one token confirms a spelling               *)
(* (requestEmailChange, emailExists).                                      *)
(***************************************************************************)
THEOREM AddressReserved == AccountsSpec => []RequestedAddressReserved
<1>1. UsersInv => RequestedAddressReserved
  BY DEF UsersInv, NamesInv
<1> QED BY <1>1, UsersInvariant, PTL

(***************************************************************************)
(* A token that changed an address or a password does so no more           *)
(* (changeEmail, resetPassword).                                           *)
(***************************************************************************)
THEOREM TokensOnce == AccountsSpec => []TokensWorkOnce
<1>1. UsersInv => TokensWorkOnce
  BY DEF UsersInv, TokensInv
<1> QED BY <1>1, UsersInvariant, PTL

(***************************************************************************)
(* The password set last is the one that authenticates (setPassword,       *)
(* authenticate).                                                          *)
(***************************************************************************)
THEOREM LastPassword == AccountsSpec => []LastPasswordAuthenticates
<1>1. UsersInv => LastPasswordAuthenticates
  BY DEF UsersInv, PasswordsInv, LastPasswordAuthenticates
<1> QED BY <1>1, UsersInvariant, PTL

(***************************************************************************)
(* An address changes, and counts as confirmed, only with a token its user *)
(* was issued for it (changeEmail).                                        *)
(***************************************************************************)
THEOREM AddressesConfirmed == AccountsSpec => AddressConfirmed
<1>1. UsersInv /\ [AccountsNext]_accountsVars => [ConfirmedStep]_vars
  BY ServerStep, AddressStep DEF UsersInv
<1> QED BY <1>1, UsersInvariant, PTL DEF AccountsSpec, AddressConfirmed

----------------------------------------------------------------------------
(***************************************************************************)
(* Owners.                                                                 *)
(***************************************************************************)

LEMMA UserSets == Nil \notin UserIDs /\ LoggedOut \notin UserIDs
BY AccountsAssumption, NilApart DEF AccountsAssumption

LEMMA RequestsStep ==
    ASSUME NamesInv, RequestsTypeOK, [AccountsNext]_accountsVars
    PROVE  RequestsTypeOK'
<1> USE DEF RequestsTypeOK, RequestType, Steps
<1>0. Idle \in RequestType
  BY DEF Idle
<1>1. ASSUME UNCHANGED <<owner, requests>> PROVE RequestsTypeOK'
  BY <1>1
<1>2. ASSUME NEW s \in Sessions, Session(s) PROVE RequestsTypeOK'
  BY <1>2 DEF Session, Logout, SessionExpires, ChangeSettings, serverVars, DeleteDomain
<1>3. ASSUME NEW r \in Requests, Request(r) PROVE RequestsTypeOK'
  <2>1. ASSUME NEW about \in RequestType, requests' = [requests EXCEPT ![r] = about],
               UNCHANGED owner
        PROVE  RequestsTypeOK'
    BY <2>1
  <2>2. ASSUME NEW to \in Steps, requests' = [requests EXCEPT ![r].step = to], UNCHANGED owner
        PROVE  RequestsTypeOK'
    BY <2>2
  <2>3. ASSUME requests' = [requests EXCEPT ![r] = Idle], owner' \in [Domains -> UserIDs \cup {Nil}]
        PROVE  RequestsTypeOK'
    BY <1>0, <2>3
  <2>4. ASSUME NEW ref, Lookup(ref) # Nil PROVE Lookup(ref) \in UserIDs
    BY <2>4, LookupFinds
  <2>5. \A id \in UserIDs : users[id].email \in Emails \cup {Nil}
    BY DEF NamesInv, NamesTypeOK, UserType
  <2>6. ASSUME NEW ref, NEW p, Login(r, ref, p) PROVE RequestsTypeOK'
    BY <2>1, <2>4, <2>6, <1>0 DEF Login, Authenticates, Begins, Idle
  <2>7. ASSUME NEW id \in UserIDs, NEW e, NEW n, NEW p, NEW token, NEW valid,
               Register(r, id, e, n, p, token, valid)
        PROVE  RequestsTypeOK'
    BY <2>1, <2>7, <1>0 DEF Register, Begins, Idle
  <2>8. ASSUME NEW s \in Sessions, NEW id \in UserIDs, ChangePassword(r, s, id) \/ DeleteAccount(r, s, id)
        PROVE  RequestsTypeOK'
    BY <2>1, <2>5, <2>8, <1>0 DEF ChangePassword, DeleteAccount, Begins, Idle
  <2>9. ASSUME NEW s \in Sessions, NEW d \in Domains, NEW id \in UserIDs, NEW to \in UserIDs,
               AddDomain(r, s, d, id, to)
        PROVE  RequestsTypeOK'
    BY <2>1, <2>9, <1>0 DEF AddDomain, Begins, Idle
  <2>10. ASSUME NEW s \in Sessions, NEW d \in Domains, NEW id \in UserIDs, NEW ref,
                GiveDomain(r, s, d, id, ref)
         PROVE  RequestsTypeOK'
    BY <2>1, <2>4, <2>10, <1>0 DEF GiveDomain, Begins, Idle
  <2>11. ASSUME NEW s \in Sessions, OpenSession(r, s) PROVE RequestsTypeOK'
    BY <2>3, <2>11 DEF OpenSession, Ends
  <2>12. ASSUME NEW p, \/ AuthenticateChange(r, p) \/ SetNewPassword(r, p)
                      \/ AuthenticateDelete(r, p)
         PROVE  RequestsTypeOK'
    BY <2>2, <2>3, <2>12 DEF AuthenticateChange, SetNewPassword, AuthenticateDelete, Continues, Ends
  <2>13. CASE Fails(r) \/ CheckDomains(r) \/ DeleteChecked(r) \/ LogoutDeleted(r)
    BY <2>2, <2>3, <2>13 DEF Fails, CheckDomains, DeleteChecked, LogoutDeleted, Continues, Ends
  <2>14. CASE StoreAdded(r) \/ StoreGiven(r)
    BY <2>3, <2>14 DEF StoreAdded, StoreGiven, Ends
  <2> QED BY <1>3, <2>6, <2>7, <2>8, <2>9, <2>10, <2>11, <2>12, <2>13, <2>14 DEF Request
<1> QED BY <1>1, <1>2, <1>3 DEF AccountsNext, ForgotPassword, NewPassword, Housekeeping,
                                serverVars, accountsVars

\* A request moves on, nobody is deleted and no domain changes hands.
LEMMA RequestMoves ==
    ASSUME RequestsTypeOK, Settled, NEW r \in Requests, NEW q \in RequestType,
           requests' = [requests EXCEPT ![r] = q], UNCHANGED owner,
           \A x \in UserIDs : UserExists(x) => UserExists(x)',
           q.step \in Giving => /\ q.user \in UserIDs /\ UserExists(q.user)
                               /\ \A p \in Requests : requests[p].step \notin Deleting,
           q.step = "delete" => \A d \in Domains : owner[d] # Nil => owner[d] # q.user,
           q.step \in Deleting => \A p \in Requests : requests[p].step \notin Giving
    PROVE  Settled'
<1> USE UserSets DEF RequestsTypeOK
<1>1. /\ requests'[r] = q /\ requests' \in [Requests -> RequestType]
      /\ \A p \in Requests : p # r => requests'[p] = requests[p]
      /\ owner' = owner
  OBVIOUS
<1>2. OwnersExist'
  BY <1>1 DEF Settled, OwnersExist
<1>3. \A p \in Requests : requests'[p].step \in Giving =>
          requests'[p].user \in UserIDs /\ UserExists(requests[p].user)'
  BY <1>1 DEF Settled, UserExists
<1>4. \A p \in Requests : requests'[p].step = "delete" =>
          \A d \in Domains : owner'[d] # Nil => owner'[d] # requests'[p].user
  BY <1>1 DEF Settled
<1>5. \A p1, p2 \in Requests :
          ~(requests'[p1].step \in Giving /\ requests'[p2].step \in Deleting)
  BY <1>1 DEF Settled, Giving, Deleting
<1> QED BY <1>2, <1>3, <1>4, <1>5 DEF Settled, Giving, Deleting

LEMMA SettledStep ==
    ASSUME NamesInv, RequestsTypeOK, Settled, ~overlap', ~history'.aliased, AccountsNext
    PROVE  Settled'
<1> USE UserSets
<1>0. /\ requests \in [Requests -> RequestType] /\ owner \in [Domains -> UserIDs \cup {Nil}]
      /\ \A id \in UserIDs : users[id].email \in Emails \cup {Nil}
  BY DEF RequestsTypeOK, NamesInv, NamesTypeOK, UserType
<1>1. KeepingStep => \A x \in UserIDs : UserExists(x) => UserExists(x)'
  BY UsersStay
<1>2. ASSUME KeepingStep, UNCHANGED <<owner, requests>> PROVE Settled'
  BY <1>0, <1>1, <1>2 DEF Settled, OwnersExist
<1>3. UNCHANGED vars => KeepingStep
  BY DEF KeepingStep
<1>4. ASSUME NEW s \in Sessions, Session(s) PROVE Settled'
  <2>1. ASSUME NEW id \in UserIDs, ChangeSettings(s, id) PROVE Settled'
    <3>1. KeepingStep /\ UNCHANGED <<owner, requests>>
      BY <2>1 DEF ChangeSettings, Settings, KeepingStep, RenameStep, Refs, serverVars
    <3> QED BY <3>1, <1>2
  <2>2. ASSUME NEW d \in Domains, NEW id \in UserIDs, DeleteDomain(s, d, id) PROVE Settled'
    <3>1. /\ owner' = [owner EXCEPT ![d] = Nil] /\ requests' = requests
          /\ \A x \in UserIDs : UserExists(x) => UserExists(x)'
      BY <2>2, <1>1, <1>3 DEF DeleteDomain
    <3> QED BY <1>0, <3>1 DEF Settled, OwnersExist
  <2> QED BY <1>2, <1>3, <1>4, <2>1, <2>2 DEF Session, Logout, SessionExpires
<1>5. ASSUME NEW r \in Requests, Request(r) PROVE Settled'
  <2>0. Idle \in RequestType
    BY DEF Idle, RequestType, Steps
  \* Requests that begin.
  <2>1. ASSUME NEW q \in RequestType, requests' = [requests EXCEPT ![r] = q],
               KeepingStep, UNCHANGED owner, q.step \notin Giving \cup Deleting
        PROVE  Settled'
    BY <1>1, <2>1, RequestMoves DEF Deleting
  <2>2. ASSUME NEW ref, NEW p, Login(r, ref, p) PROVE Settled'
    <3>1. Lookup(ref) \in UserIDs
      BY <2>2, LookupFinds DEF Login, Authenticates
    <3> QED BY <1>3, <2>0, <2>1, <2>2, <3>1
            DEF Login, Begins, Idle, Giving, Deleting, RequestType, Steps
  <2>3. ASSUME NEW id \in UserIDs, NEW e \in Emails, NEW n \in Usernames \cup {Nil},
               NEW p \in Passwords, NEW token \in Tokens, NEW valid \in Deadlines,
               Register(r, id, e, n, p, token, valid)
        PROVE  Settled'
    <3>1. KeepingStep
      BY <2>3 DEF Register, KeepingStep, RegisterStep
    <3> QED BY <2>0, <2>1, <2>3, <3>1
            DEF Register, Begins, Idle, Giving, Deleting, RequestType, Steps
  <2>4. ASSUME NEW s \in Sessions, NEW id \in UserIDs, ChangePassword(r, s, id) PROVE Settled'
    BY <1>0, <1>3, <2>0, <2>1, <2>4
       DEF ChangePassword, Begins, Idle, Giving, Deleting, RequestType, Steps
  <2>5. ASSUME NEW s \in Sessions, NEW id \in UserIDs, DeleteAccount(r, s, id) PROVE Settled'
    <3> DEFINE q == [Idle EXCEPT !.step = "delete-authenticate", !.user = id,
                                 !.email = users[id].email, !.session = s]
    <3>1. /\ requests' = [requests EXCEPT ![r] = q] /\ q \in RequestType
          /\ q.step = "delete-authenticate"
          /\ \A p \in Requests : requests[p].step \notin Giving
      BY <1>0, <2>5 DEF DeleteAccount, Begins, Overlaps, Idle, RequestType, Steps
    <3>2. KeepingStep /\ UNCHANGED owner
      BY <2>5, <1>3 DEF DeleteAccount
    <3> QED BY <1>1, <3>1, <3>2, RequestMoves DEF Giving
  <2>6. ASSUME NEW q \in RequestType, requests' = [requests EXCEPT ![r] = q],
               q.step \in Giving, q.user \in UserIDs, UserExists(q.user), overlap' = Overlaps(Deleting),
               UNCHANGED vars, UNCHANGED owner
        PROVE  Settled'
    <3>1. \A p \in Requests : requests[p].step \notin Deleting
      BY <2>6 DEF Overlaps
    <3>2. q.step # "delete" /\ q.step \notin Deleting
      BY <2>6 DEF Giving, Deleting
    <3> QED BY <1>1, <1>3, <2>6, <3>1, <3>2, RequestMoves
  <2>7. ASSUME NEW s \in Sessions, NEW d \in Domains, NEW id \in UserIDs, NEW to \in UserIDs,
               AddDomain(r, s, d, id, to)
        PROVE  Settled'
    <3> DEFINE q == [Idle EXCEPT !.step = "add", !.user = to, !.domain = d]
    <3>1. UserExists(to)
      BY <2>7, LookupFinds DEF AddDomain, LoggedIn
    <3>2. /\ q \in RequestType /\ requests' = [requests EXCEPT ![r] = q]
          /\ q.step \in Giving /\ q.user = to
      BY <2>7 DEF AddDomain, Begins, Idle, RequestType, Steps, Giving
    <3> HIDE DEF q
    <3> QED BY <2>6, <2>7, <3>1, <3>2 DEF AddDomain
  <2>8. ASSUME NEW s \in Sessions, NEW d \in Domains, NEW id \in UserIDs, NEW ref,
               GiveDomain(r, s, d, id, ref)
        PROVE  Settled'
    <3> DEFINE q == [Idle EXCEPT !.step = "give", !.user = Lookup(ref), !.by = id, !.domain = d]
    <3>1. Lookup(ref) \in UserIDs /\ UserExists(Lookup(ref))
      BY <2>8, LookupFinds DEF GiveDomain
    <3>2. /\ q \in RequestType /\ requests' = [requests EXCEPT ![r] = q]
          /\ q.step \in Giving /\ q.user = Lookup(ref)
      BY <2>8, <3>1 DEF GiveDomain, Begins, Idle, RequestType, Steps, Giving
    <3> HIDE DEF q
    <3> QED BY <2>6, <2>8, <3>1, <3>2 DEF GiveDomain
  \* Requests that go on.
  <2>9. ASSUME NEW to \in Steps, requests' = [requests EXCEPT ![r].step = to], UNCHANGED owner,
               KeepingStep, to \notin Giving, to \in Deleting => requests[r].step \in Deleting,
               to = "delete" => \A d \in Domains : owner[d] # requests[r].user
        PROVE  Settled'
    <3> DEFINE q == [requests[r] EXCEPT !.step = to]
    <3>1. /\ q \in RequestType /\ requests' = [requests EXCEPT ![r] = q]
          /\ q.step = to /\ q.user = requests[r].user
      BY <1>0, <2>9 DEF RequestType
    <3>2. to \in Deleting => \A p \in Requests : requests[p].step \notin Giving
      BY <2>9 DEF Settled
    <3> HIDE DEF q
    <3> QED BY <1>1, <2>9, <3>1, <3>2, RequestMoves
  <2>10. ASSUME NEW p, AuthenticateChange(r, p) \/ AuthenticateDelete(r, p) PROVE Settled'
    BY <1>3, <2>9, <2>10 DEF AuthenticateChange, AuthenticateDelete, Continues, Steps, Giving, Deleting
  <2>11. CASE CheckDomains(r)
    BY <1>3, <2>9, <2>11 DEF CheckDomains, Continues, Steps, Giving, Deleting
  <2>12. CASE DeleteChecked(r)
    <3> DEFINE id == requests[r].user
    <3>1. /\ requests[r].step = "delete" /\ DeleteUser(id) /\ owner' = owner
          /\ requests' = [requests EXCEPT ![r].step = "delete-logout"]
      BY <2>12 DEF DeleteChecked, Continues
    <3>2. id \in UserIDs /\ Lookup(id) = id
      <4>1. Lookup(id) # Nil /\ id \in UserIDs \cup {Nil}
        BY <1>0, <3>1 DEF DeleteUser, RequestType
      <4>2. history' = history
        BY <3>1 DEF DeleteUser
      <4>3. id \in Usernames => indexUsername[id] = Nil
        BY <4>1, <4>2, NilApart
           DEF NamesInv, NamesTypeOK, AliasesRecorded, NameIndexesExact, UsernameIndexExact
      <4> QED BY <4>1, <4>3, NilApart, UsersAssumption DEF UsersAssumption, Lookup
    <3>3. users' = [users EXCEPT ![id] = NoUser]
      BY <3>1, <3>2 DEF DeleteUser
    <3>4. \A x \in UserIDs : x # id /\ UserExists(x) => UserExists(x)'
      BY <3>3 DEF UserExists
    <3>5. \A p \in Requests : requests[p].step \notin Giving
      BY <3>1 DEF Settled, Deleting
    <3>6. /\ \A p \in Requests : p # r => requests'[p] = requests[p]
          /\ requests'[r].step = "delete-logout" /\ requests'[r].user = id
      BY <1>0, <3>1 DEF RequestType
    <3>7. \A d \in Domains : owner[d] # id
      BY <3>1, <3>2 DEF Settled
    <3>8. OwnersExist'
      BY <1>0, <3>1, <3>4, <3>7 DEF Settled, OwnersExist
    <3>9. \A p \in Requests : requests'[p].step \notin Giving
      BY <3>5, <3>6 DEF Giving
    <3>10. \A p \in Requests : requests'[p].step = "delete" =>
               \A d \in Domains : owner'[d] # Nil => owner'[d] # requests'[p].user
      BY <3>1, <3>6 DEF Settled
    <3> QED BY <3>8, <3>9, <3>10 DEF Settled
  \* Requests that end.
  <2>13. ASSUME requests' = [requests EXCEPT ![r] = Idle], KeepingStep, UNCHANGED owner
         PROVE  Settled'
    BY <2>0, <2>1, <2>13 DEF Idle, Giving, Deleting
  <2>14. ASSUME NEW p \in Passwords, SetNewPassword(r, p) PROVE Settled'
    <3>1. SetPassword(requests[r].user, p) /\ requests[r].user \in Refs
      BY <2>14, RefsFound DEF SetNewPassword, SetPassword
    <3>2. KeepingStep
      BY <3>1 DEF KeepingStep, PasswordStep
    <3> QED BY <2>13, <2>14, <3>2 DEF SetNewPassword, Ends
  <2>15. ASSUME NEW s \in Sessions, OpenSession(r, s) PROVE Settled'
    BY <1>3, <2>13, <2>15 DEF OpenSession, Ends
  <2>16. CASE Fails(r) \/ LogoutDeleted(r)
    BY <1>3, <2>13, <2>16 DEF Fails, LogoutDeleted, Ends
  <2>17. CASE StoreAdded(r) \/ StoreGiven(r)
    <3>1. /\ requests[r].step \in Giving /\ requests' = [requests EXCEPT ![r] = Idle]
          /\ owner' = [owner EXCEPT ![requests[r].domain] = requests[r].user]
          /\ UNCHANGED vars
      BY <2>17 DEF StoreAdded, StoreGiven, Ends, Giving
    <3>2. /\ requests[r].user \in UserIDs /\ UserExists(requests[r].user)
          /\ \A p \in Requests : requests[p].step \notin Deleting
      BY <3>1 DEF Settled
    <3>3. \A x \in UserIDs : UserExists(x) => UserExists(x)'
      BY <3>1, <1>1, <1>3
    <3>4. /\ \A p \in Requests : p # r => requests'[p] = requests[p]
          /\ requests'[r] = Idle
      BY <1>0, <3>1
    <3>5. \A d \in Domains : owner'[d] \in {owner[d], requests[r].user}
      BY <1>0, <3>1
    <3>6. OwnersExist'
      BY <1>0, <3>2, <3>3, <3>5 DEF Settled, OwnersExist
    <3>7. \A p \in Requests : requests'[p].step \notin Deleting
      BY <3>2, <3>4 DEF Idle, Deleting
    <3>8. \A p \in Requests : requests'[p].step \in Giving =>
              requests'[p].user \in UserIDs /\ UserExists(requests[p].user)'
      BY <3>3, <3>4 DEF Settled, Idle, Giving, UserExists
    <3> QED BY <3>6, <3>7, <3>8 DEF Settled, Deleting
  <2> QED BY <1>5, <2>2, <2>3, <2>4, <2>5, <2>7, <2>8, <2>10, <2>11, <2>12, <2>14, <2>15,
             <2>16, <2>17 DEF Request
<1>6. ASSUME NEW ref \in Refs, NEW token \in Tokens, ForgotPassword(ref, token) PROVE Settled'
  <2>1. KeepingStep
    BY <1>6, RefsFound DEF ForgotPassword, RequestPasswordReset, KeepingStep, ResetStep
  <2> QED BY <1>2, <1>6, <2>1 DEF ForgotPassword, serverVars
<1>7. ASSUME NEW token \in Tokens, NEW p \in Passwords, NewPassword(token, p) PROVE Settled'
  BY <1>2, <1>7 DEF NewPassword, KeepingStep, PasswordStep, serverVars
<1>8. CASE Housekeeping
  BY <1>2, <1>8 DEF Housekeeping, KeepingStep, RenameStep, ResetStep, serverVars
<1> QED BY <1>4, <1>5, <1>6, <1>7, <1>8 DEF AccountsNext

\* An id that was a user name once is on record for good.
LEMMA AliasedStays ==
    ASSUME NamesInv, [AccountsNext]_accountsVars, history.aliased
    PROVE  history'.aliased
<1>0. history \in HistoryType
  BY DEF NamesInv, NamesTypeOK
<1>1. CASE RegisterStep
  BY <1>0, <1>1 DEF RegisterStep, RegisterUser, HistoryType
<1>2. CASE PasswordStep
  BY <1>0, <1>2 DEF PasswordStep, SetPassword, ResetPassword, HistoryType
<1>3. CASE NameStep
  BY <1>0, <1>3 DEF NameStep, RenameStep, DeleteStep, UpdateUsername, RequestEmailChange,
                    ChangeEmail, Confirmed, CleanValidations, DeleteUser, HistoryType
<1>4. CASE ResetStep \/ Tick \/ UNCHANGED vars
  BY <1>4 DEF ResetStep, RequestPasswordReset, CleanResets, Tick, vars
<1> QED BY <1>1, <1>2, <1>3, <1>4, ServerStep DEF ServiceStep

(***************************************************************************)
(* A domain loses its owner only when its transfer or addition and the     *)
(* deletion of the account overlap, or when somebody has taken an id for   *)
(* user name (userDeleteFEAPIHandler, domainOwnerChangeFEAPIHandler,       *)
(* users.save).                                                            *)
(***************************************************************************)
THEOREM NoLoneOrphans == AccountsSpec => []OrphansNeedOverlapOrAlias
<1>1. AccountsInit => OwnersInv
  BY DEF AccountsInit, Idle, OwnersInv, RequestsTypeOK, RequestType, Steps, Settled, OwnersExist,
         Giving, Deleting
<1>2. UsersInv /\ OwnersInv /\ [AccountsNext]_accountsVars => OwnersInv'
  <2> SUFFICES ASSUME UsersInv, OwnersInv, [AccountsNext]_accountsVars PROVE OwnersInv'
    OBVIOUS
  <2>1. RequestsTypeOK'
    BY RequestsStep DEF UsersInv, OwnersInv
  <2>2. ASSUME ~overlap', ~history'.aliased PROVE Settled'
    <3>0. ~history.aliased
      BY <2>2, AliasedStays DEF UsersInv
    <3>1. CASE AccountsNext
      <4>1. ~overlap
        BY <2>2, <3>1 DEF AccountsNext, Session, Request, Overlaps, Logout, SessionExpires,
           ChangeSettings, serverVars, DeleteDomain, Fails, Login, Register, OpenSession,
           ChangePassword, AuthenticateChange, SetNewPassword, DeleteAccount, AuthenticateDelete,
           CheckDomains, DeleteChecked, LogoutDeleted, AddDomain, GiveDomain, StoreAdded,
           StoreGiven, ForgotPassword, NewPassword, Housekeeping
      <4> QED BY <2>2, <3>0, <3>1, <4>1, SettledStep DEF UsersInv, OwnersInv
    <3>2. CASE UNCHANGED accountsVars
      BY <2>2, <3>2 DEF accountsVars, vars, accountVars, OwnersInv, Settled, OwnersExist, UserExists
    <3> QED BY <3>1, <3>2
  <2> QED BY <2>1, <2>2 DEF OwnersInv
<1>3. OwnersInv => OrphansNeedOverlapOrAlias
  BY DEF OwnersInv, Settled, OrphansNeedOverlapOrAlias
<1> QED BY <1>1, <1>2, <1>3, UsersInvariant, PTL DEF AccountsSpec
=============================================================================
