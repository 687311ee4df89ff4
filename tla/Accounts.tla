------------------------------ MODULE Accounts ------------------------------
(***************************************************************************)
(* Accounts as the web interface handles them (server: feapi_user.go,      *)
(* fe_user.go, context_user.go, context_session.go and the login handlers  *)
(* of handlers.go) on top of three services: users, sessions and the       *)
(* owners of domains.  A request calls one service after the other and     *)
(* works with what the earlier calls answered; other requests run in       *)
(* between, and a request may end after any of its calls (an error of the  *)
(* next one, or the process stops).                                        *)
(*                                                                         *)
(* Of a session only its user is kept (Sessions has the rest), of a domain *)
(* only its owner (PackagesStore has the rest).                            *)
(***************************************************************************)
EXTENDS Users

CONSTANTS
    Sessions,   \* session ids that newSessionID may draw
    Domains,
    Requests,   \* the requests that run at the same time
    LoggedOut   \* a session without a "user-id"

ASSUME AccountsAssumption == {Nil, LoggedOut} \cap UserIDs = {}

VARIABLES
    sessions,   \* session -> user id, LoggedOut, or Nil when there is none
    owner,      \* domain -> user id, or Nil when there is none
    requests,   \* request -> what it has learnt from the calls made so far
    overlap     \* history: a domain got an owner while an account was deleted

accountsVars == <<vars, sessions, owner, requests, overlap>>
serverVars == <<sessions, owner, requests, overlap>>

Idle == [step |-> "idle", user |-> Nil, email |-> Nil, session |-> Nil,
         domain |-> Nil, by |-> Nil]

AccountsInit ==
    /\ Init
    /\ sessions = [s \in Sessions |-> Nil]
    /\ owner = [d \in Domains |-> Nil]
    /\ requests = [r \in Requests |-> Idle]
    /\ overlap = FALSE

----------------------------------------------------------------------------
(***************************************************************************)
(* jsonLoginRequiredHandler with getRequestUser: the session leads to a    *)
(* user who exists (UserByID looks at no name); sessions of deleted users  *)
(* remain and lead to nobody.                                              *)
(***************************************************************************)
LoggedIn(s, id) == sessions[s] = id /\ UserExists(id)

Begins(r, about) ==
    /\ requests[r] = Idle
    /\ requests' = [requests EXCEPT ![r] = about]

Continues(r, from, to) ==
    /\ requests[r].step = from
    /\ requests' = [requests EXCEPT ![r].step = to]

Ends(r, from) ==
    /\ requests[r].step = from
    /\ requests' = [requests EXCEPT ![r] = Idle]

\* An error of the call that would come next; the answer is not modelled.
Fails(r) ==
    /\ requests[r] # Idle
    /\ requests' = [requests EXCEPT ![r] = Idle]
    /\ UNCHANGED <<vars, sessions, owner, overlap>>

Deleting == {"delete-authenticate", "delete-check", "delete"}
Giving == {"give", "add"}
Overlaps(steps) == overlap \/ \E r \in Requests : requests[r].step \in steps

----------------------------------------------------------------------------
\* authLoginFEAPIHandler, and the end of registrationFEAPIHandler.
Login(r, ref, p) ==
    /\ Authenticates(ref, p)
    /\ Begins(r, [Idle EXCEPT !.step = "session", !.user = Lookup(ref)])
    /\ UNCHANGED <<vars, sessions, owner, overlap>>

\* Ids are random: nobody calls himself by one that was not drawn.
Known(n) == n \in UserIDs => n \in drawn

\* registrationFEAPIHandler: what it looks up first, RegisterUser checks again.
Register(r, id, e, n, p, token, valid) ==
    /\ Known(n)
    /\ Begins(r, [Idle EXCEPT !.step = "session", !.user = id])
    /\ RegisterUser(id, [email |-> e, username |-> n, unvalidated |-> TRUE],
                    p, token, valid)
    /\ UNCHANGED <<sessions, owner, overlap>>

\* saveSession of a new session.
OpenSession(r, s) ==
    /\ Ends(r, "session")
    /\ sessions[s] = Nil
    /\ sessions' = [sessions EXCEPT ![s] = requests[r].user]
    /\ UNCHANGED <<vars, owner, overlap>>

\* logout: the session is saved without its user; its cookie expires.
Closed(s) ==
    sessions' = [sessions EXCEPT ![s] = IF @ = Nil THEN Nil ELSE LoggedOut]

Logout(s) ==
    /\ sessions[s] # Nil
    /\ Closed(s)
    /\ UNCHANGED <<vars, owner, requests, overlap>>

\* The cleanup of the sessions service.
SessionExpires(s) ==
    /\ sessions[s] # Nil
    /\ sessions' = [sessions EXCEPT ![s] = Nil]
    /\ UNCHANGED <<vars, owner, requests, overlap>>

----------------------------------------------------------------------------
(***************************************************************************)
(* Handlers with one call that changes something: the settings page, the   *)
(* confirmation of an address, a forgotten password.                       *)
(***************************************************************************)
Settings(id) ==
    \/ \E n \in Usernames \cup {Nil} : Known(n) /\ UpdateUsername(id, n)
    \/ \E e \in Spellings, token \in Tokens, valid \in Deadlines :
           RequestEmailChange(id, e, token, valid)
    \/ \E token \in Tokens : ChangeEmail(id, token)

ChangeSettings(s, id) ==
    /\ LoggedIn(s, id)
    /\ Settings(id)
    /\ UNCHANGED serverVars

\* passwordResetTokenFEAPIHandler and passwordResetFEAPIHandler need no session.
\* What User finds under the reference is looked up again by its id.
ForgotPassword(ref, token) ==
    /\ RequestPasswordReset(Lookup(ref), token)
    /\ UNCHANGED serverVars

NewPassword(token, p) ==
    /\ ResetPassword(token, p)
    /\ UNCHANGED serverVars

Housekeeping ==
    /\ CleanValidations \/ CleanResets \/ Tick
    /\ UNCHANGED serverVars

----------------------------------------------------------------------------
(***************************************************************************)
(* userPasswordFEAPIHandler and userDeleteFEAPIHandler authenticate again, *)
(* by the address read with the session; an address that is not found is   *)
(* no error here.                                                          *)
(***************************************************************************)
Reauthenticates(r, p) ==
    LET id == Lookup(requests[r].email)
    IN  id # Nil => Password(id) = p

ChangePassword(r, s, id) ==
    /\ LoggedIn(s, id)
    /\ Begins(r, [Idle EXCEPT !.step = "password-authenticate", !.user = id,
                             !.email = users[id].email])
    /\ UNCHANGED <<vars, sessions, owner, overlap>>

AuthenticateChange(r, p) ==
    /\ Reauthenticates(r, p)
    /\ Continues(r, "password-authenticate", "password")
    /\ UNCHANGED <<vars, sessions, owner, overlap>>

SetNewPassword(r, p) ==
    /\ Ends(r, "password")
    /\ SetPassword(requests[r].user, p)
    /\ UNCHANGED <<sessions, owner, overlap>>

DeleteAccount(r, s, id) ==
    /\ LoggedIn(s, id)
    /\ Begins(r, [Idle EXCEPT !.step = "delete-authenticate", !.user = id,
                             !.email = users[id].email, !.session = s])
    /\ overlap' = Overlaps(Giving)
    /\ UNCHANGED <<vars, sessions, owner>>

AuthenticateDelete(r, p) ==
    /\ Reauthenticates(r, p)
    /\ Continues(r, "delete-authenticate", "delete-check")
    /\ UNCHANGED <<vars, sessions, owner, overlap>>

\* Mutant: the owner of a domain may go.
CheckDomainsNot(r) ==
    /\ Continues(r, "delete-check", "delete")
    /\ UNCHANGED <<vars, sessions, owner, overlap>>

\* DomainsByOwner(u.ID, "", 1)
CheckDomains(r) ==
    /\ \A d \in Domains : owner[d] # requests[r].user
    /\ Continues(r, "delete-check", "delete")
    /\ UNCHANGED <<vars, sessions, owner, overlap>>

\* The id is looked up like any reference: a user name may hide it.
DeleteChecked(r) ==
    /\ Continues(r, "delete", "delete-logout")
    /\ DeleteUser(requests[r].user)
    /\ UNCHANGED <<sessions, owner, overlap>>

LogoutDeleted(r) ==
    /\ Ends(r, "delete-logout")
    /\ Closed(requests[r].session)
    /\ UNCHANGED <<vars, owner, overlap>>

----------------------------------------------------------------------------
(***************************************************************************)
(* Domains: a handler learns who asks from the session, or the new owner   *)
(* from UserService.User, and then calls the packages service.             *)
(***************************************************************************)
\* domainFEAPIHandler adds for the asker, updateDomainAPIHandler also for the
\* owner it is given a reference to.
AddDomain(r, s, d, id, to) ==
    /\ LoggedIn(s, id)
    /\ to = id \/ \E ref \in Refs : to = Lookup(ref) /\ to # Nil
    /\ Begins(r, [Idle EXCEPT !.step = "add", !.user = to, !.domain = d])
    /\ overlap' = Overlaps(Deleting)
    /\ UNCHANGED <<vars, sessions, owner>>

\* domainOwnerChangeFEAPIHandler and the owner of updateDomainAPIHandler.
GiveDomain(r, s, d, id, ref) ==
    /\ LoggedIn(s, id)
    /\ owner[d] = id
    /\ Lookup(ref) \notin {Nil, id}
    /\ Begins(r, [Idle EXCEPT !.step = "give", !.user = Lookup(ref),
                             !.by = id, !.domain = d])
    /\ overlap' = Overlaps(Deleting)
    /\ UNCHANGED <<vars, sessions, owner>>

StoreAdded(r) ==
    LET q == requests[r]
    IN  /\ Ends(r, "add")
        /\ owner[q.domain] = Nil
        /\ owner' = [owner EXCEPT ![q.domain] = q.user]
        /\ UNCHANGED <<vars, sessions, overlap>>

\* UpdateDomain checks once more that the asker is the owner.
StoreGiven(r) ==
    LET q == requests[r]
    IN  /\ Ends(r, "give")
        /\ owner[q.domain] = q.by
        /\ owner' = [owner EXCEPT ![q.domain] = q.user]
        /\ UNCHANGED <<vars, sessions, overlap>>

DeleteDomain(s, d, id) ==
    /\ LoggedIn(s, id)
    /\ owner[d] = id
    /\ owner' = [owner EXCEPT ![d] = Nil]
    /\ UNCHANGED <<vars, sessions, requests, overlap>>

----------------------------------------------------------------------------
Session(s) ==
    \/ Logout(s)
    \/ SessionExpires(s)
    \/ \E id \in UserIDs : ChangeSettings(s, id)
    \/ \E id \in UserIDs, d \in Domains : DeleteDomain(s, d, id)

Request(r) ==
    \/ Fails(r)
    \/ \E ref \in Refs, p \in Passwords : Login(r, ref, p)
    \/ \E id \in UserIDs, e \in Emails, n \in Usernames \cup {Nil}, p \in Passwords,
          token \in Tokens, valid \in Deadlines : Register(r, id, e, n, p, token, valid)
    \/ \E s \in Sessions : OpenSession(r, s)
    \/ \E s \in Sessions, id \in UserIDs : ChangePassword(r, s, id)
    \/ \E p \in Passwords : AuthenticateChange(r, p)
    \/ \E p \in Passwords : SetNewPassword(r, p)
    \/ \E s \in Sessions, id \in UserIDs : DeleteAccount(r, s, id)
    \/ \E p \in Passwords : AuthenticateDelete(r, p)
    \/ CheckDomains(r)
    \/ DeleteChecked(r)
    \/ LogoutDeleted(r)
    \/ \E s \in Sessions, d \in Domains, id, to \in UserIDs : AddDomain(r, s, d, id, to)
    \/ \E s \in Sessions, d \in Domains, id \in UserIDs, ref \in Refs :
           GiveDomain(r, s, d, id, ref)
    \/ StoreAdded(r)
    \/ StoreGiven(r)

AccountsNext ==
    \/ \E s \in Sessions : Session(s)
    \/ \E r \in Requests : Request(r)
    \/ \E ref \in Refs, token \in Tokens : ForgotPassword(ref, token)
    \/ \E token \in Tokens, p \in Passwords : NewPassword(token, p)
    \/ Housekeeping

AccountsSpec == AccountsInit /\ [][AccountsNext]_accountsVars

----------------------------------------------------------------------------
(***************************************************************************)
(* Properties                                                              *)
(***************************************************************************)

(***************************************************************************)
(* Every domain has an owner who exists: userDeleteFEAPIHandler refuses to *)
(* delete an account that owns one.                                        *)
(***************************************************************************)
OwnersExist == \A d \in Domains : owner[d] # Nil => UserExists(owner[d])

(***************************************************************************)
(* A domain loses its owner only when its transfer, or its addition, and   *)
(* the deletion of the account overlap, or when somebody has taken an id   *)
(* for user name: otherwise, one request after the other, no order of      *)
(* steps, failures and expired sessions leaves it orphaned.                *)
(***************************************************************************)
OrphansNeedOverlapOrAlias == overlap \/ history.aliased \/ OwnersExist

(***************************************************************************)
(* It would take the overlap, if no user name could be the id of a user    *)
(* ("Username can not be the same as existing ID.", save).                 *)
(***************************************************************************)
OrphansNeedOverlap == overlap \/ OwnersExist
=============================================================================
