------------------------------- MODULE Users -------------------------------
(***************************************************************************)
(* The users service on BoltDB (services/user/bolt: db.go, service.go,     *)
(* cleanup.go): accounts with their two name indexes, password histories,  *)
(* and the tokens that confirm an address or reset a password.  Every      *)
(* mutating method is one read-write transaction, hence one action, and    *)
(* its error returns are guards that do not hold.                          *)
(*                                                                         *)
(* User names are trimmed here, as save does before it looks at them, and  *)
(* addresses lower-case, as every use of one begins.  But only save trims  *)
(* an address: what a user asks to change to is compared and kept as it is *)
(* spelt, and a lookup under a spelling with spaces finds nobody.          *)
(*                                                                         *)
(* Name, Admin, NotificationsDisabled and Disabled are set by update and   *)
(* read by nothing in this service; they are left out.  Time is the number *)
(* of seconds of a key in a bucket of passwords.                           *)
(***************************************************************************)
EXTENDS Naturals

CONSTANTS
    UserIDs,        \* ids that newUserID may draw
    Emails,         \* lower-case addresses without spaces around them
    Spellings,      \* lower-case addresses, with or without
    Trim,           \* strings.TrimSpace of a spelling
    Usernames,
    Passwords,
    Tokens,         \* what the two token generators may draw
    UsernameRequired,
    NoReuse,        \* PasswordNoReuseMonths, in units of the clock; 0: no check
    ResetTime,      \* validity of a password reset (a day)
    Deadlines,      \* validities that callers give a change of address
    MaxTime,        \* bound of the clock
    Nil

ASSUME UsersAssumption ==
    /\ Nil \notin UserIDs \cup Spellings \cup Usernames \cup Passwords \cup Tokens
    /\ Spellings \cap (UserIDs \cup Usernames) = {}
    /\ Emails \subseteq Spellings
    /\ Trim \in [Spellings -> Emails]
    /\ \A e \in Emails : Trim[e] = e
    /\ UsernameRequired \in BOOLEAN
    /\ NoReuse \in Nat /\ ResetTime \in Nat /\ MaxTime \in Nat \ {0}
    /\ Deadlines \subseteq Nat

VARIABLES
    users,          \* Users: id -> record
    indexUsername,  \* Index_Users_Username
    indexEmail,     \* Index_Users_Email
    salts,          \* Salts: the ids that have one
    passwords,      \* Passwords: id -> second -> password (its salted hash)
    validations,    \* Email_Validations: token -> record
    resets,         \* Password_Resets: token -> record
    now,
    drawn,          \* ids and tokens drawn so far: random, never drawn again
    history         \* what the properties compare with: the password set last,
                    \* the tokens that have worked, the addresses confirmed under
                    \* a spelling with spaces, whether an id was a user name

accountVars == <<users, indexUsername, indexEmail, salts>>
vars == <<accountVars, passwords, validations, resets, now, drawn, history>>

Times == 0..MaxTime
NoUser == [email |-> Nil, username |-> Nil, unvalidated |-> FALSE]
NoValidation == [email |-> Nil, user |-> Nil, expires |-> 0]
NoReset == [user |-> Nil, expires |-> 0]
Refs == UserIDs \cup Emails \cup Usernames

Init ==
    /\ users = [id \in UserIDs |-> NoUser]
    /\ indexUsername = [n \in Usernames |-> Nil]
    /\ indexEmail = [e \in Emails |-> Nil]
    /\ salts = {}
    /\ passwords = [id \in UserIDs |-> [t \in Times |-> Nil]]
    /\ validations = [t \in Tokens |-> NoValidation]
    /\ resets = [t \in Tokens |-> NoReset]
    /\ now = 1
    /\ drawn = {}
    /\ history = [last |-> [id \in UserIDs |-> Nil], spent |-> {}, padded |-> {},
                   aliased |-> FALSE]

UserExists(id) == users[id].email # Nil
Pending(t) == validations[t].user # Nil
Requested(t) == resets[t].user # Nil

----------------------------------------------------------------------------
(***************************************************************************)
(* getUserRecord and getUserID: an address goes through the index of       *)
(* addresses, anything else through that of user names first, and only     *)
(* then is it taken for an id.                                             *)
(***************************************************************************)
Lookup(ref) ==
    IF ref \in Emails THEN indexEmail[ref]
    ELSE IF ref \in Usernames /\ indexUsername[ref] # Nil THEN indexUsername[ref]
    ELSE IF ref \in UserIDs /\ UserExists(ref) THEN ref
    ELSE Nil

\* emailExists: taken, or reserved by a confirmation that has not expired and
\* spells the address without spaces.
EmailExists(e) ==
    \/ indexEmail[e] # Nil
    \/ \E t \in Tokens : /\ validations[t].email = e
                         /\ now < validations[t].expires

\* The tests of save on user names; an id passes them too.
ValidUsername(id, n) ==
    IF n = Nil THEN ~UsernameRequired ELSE indexUsername[n] \in {Nil, id}

\* Mutant: the entry of the old value stays.
MovedNoDelete(index, id, old, new) ==
    [k \in DOMAIN index |-> IF old # new /\ k = new THEN id ELSE index[k]]

\* The index part of save: the old value's entry goes, the new one's is put.
Moved(index, id, old, new) ==
    [k \in DOMAIN index |->
        IF old = new THEN index[k]
        ELSE IF k = new THEN id
        ELSE IF k = old THEN Nil ELSE index[k]]

\* userRecord.save; whose entry the new address has is not asked.
SaveUser(id, r) ==
    /\ r.email # Nil
    /\ ValidUsername(id, r.username)
    /\ indexUsername' = Moved(indexUsername, id, users[id].username, r.username)
    /\ indexEmail' = Moved(indexEmail, id, users[id].email, r.email)
    /\ salts' = salts \cup {id}
    /\ users' = [users EXCEPT ![id] = r]

\* newUserID avoids the ids and the user names in use; a new user's address
\* must be free.
SaveNewUser(id, r) ==
    /\ id \notin drawn
    /\ id \in Usernames => indexUsername[id] = Nil
    /\ ~EmailExists(r.email)
    /\ SaveUser(id, r)

----------------------------------------------------------------------------
(***************************************************************************)
(* setPassword scans the keys from NoReuse ago on; a second password in    *)
(* the same second replaces the first.                                     *)
(***************************************************************************)
RecentlyUsed(id, p) ==
    \E t \in Times : t + NoReuse >= now /\ passwords[id][t] = p

\* Mutant: the first password of a second is kept.
StorePasswordOnce(id, p) ==
    /\ ~(NoReuse > 0 /\ RecentlyUsed(id, p))
    /\ passwords' = [passwords EXCEPT ![id][now] = IF @ = Nil THEN p ELSE @]

StorePassword(id, p) ==
    /\ ~(NoReuse > 0 /\ RecentlyUsed(id, p))
    /\ passwords' = [passwords EXCEPT ![id][now] = p]

\* authenticate: the password under the last key.
LastOf(bucket) ==
    IF \A t \in Times : bucket[t] = Nil THEN Nil
    ELSE LET last == CHOOSE t \in Times :
                 /\ bucket[t] # Nil
                 /\ \A s \in Times : bucket[s] # Nil => s <= t
         IN  bucket[last]

Password(id) == LastOf(passwords[id])

\* Service.Authenticate
Authenticates(ref, p) ==
    LET id == Lookup(ref)
    IN  id # Nil /\ UserExists(id) /\ id \in salts /\ Password(id) = p

----------------------------------------------------------------------------
(***************************************************************************)
(* requestEmailChange: refused while the address is another user's or any  *)
(* other user has asked for it, expired or not; the user's own request for *)
(* the same address is replaced.  The same address is one spelt the same:  *)
(* no entry of the index has spaces.                                       *)
(***************************************************************************)
EmailAvailable(id, s) ==
    /\ s \in Emails => indexEmail[s] \in {Nil, id}
    /\ \A t \in Tokens : validations[t].email = s => validations[t].user = id

WithRequest(id, s, token, expires) ==
    [t \in Tokens |->
        IF t = token THEN [email |-> s, user |-> id, expires |-> expires]
        ELSE IF validations[t].email = s /\ validations[t].user = id THEN NoValidation
        ELSE validations[t]]

----------------------------------------------------------------------------
(***************************************************************************)
(* The methods of the service.                                             *)
(***************************************************************************)
\* One transaction: account, first password and the confirmation of its address,
\* which save has trimmed in the record.  (getUserRecordByEmail finds the new user
\* itself under the address.)
RegisterUser(id, r, p, token, valid) ==
    /\ token \notin drawn
    /\ SaveNewUser(id, r)
    /\ StorePassword(id, p)
    /\ EmailAvailable(id, r.email)
    /\ validations' = WithRequest(id, r.email, token, now + valid)
    /\ drawn' = drawn \cup {id, token}
    /\ history' = [history EXCEPT !.last[id] = p, !.aliased = @ \/ r.username \in UserIDs]
    /\ UNCHANGED <<resets, now>>

\* UpdateUser with a new user name (what the settings page sends).
UpdateUsername(ref, n) ==
    LET id == Lookup(ref)
    IN  /\ id # Nil
        /\ SaveUser(id, [users[id] EXCEPT !.username = n])
        /\ history' = [history EXCEPT !.aliased = @ \/ n \in UserIDs]
        /\ UNCHANGED <<passwords, validations, resets, now, drawn>>

\* Mutant: the confirmations of the user stay.
DeleteUserKeepRequests(ref) ==
    LET id == Lookup(ref)
    IN  /\ id # Nil
        /\ users' = [users EXCEPT ![id] = NoUser]
        /\ indexEmail' = [indexEmail EXCEPT ![users[id].email] = Nil]
        /\ indexUsername' = [n \in Usernames |->
               IF n = users[id].username THEN Nil ELSE indexUsername[n]]
        /\ UNCHANGED <<salts, passwords, validations, resets, now, drawn, history>>

\* The salt, the passwords and the password resets of the user stay.
DeleteUser(ref) ==
    LET id == Lookup(ref)
    IN  /\ id # Nil
        /\ users' = [users EXCEPT ![id] = NoUser]
        /\ indexEmail' = [indexEmail EXCEPT ![users[id].email] = Nil]
        /\ indexUsername' = [n \in Usernames |->
               IF n = users[id].username THEN Nil ELSE indexUsername[n]]
        /\ validations' = [t \in Tokens |->
               IF validations[t].user = id THEN NoValidation ELSE validations[t]]
        /\ UNCHANGED <<salts, passwords, resets, now, drawn, history>>

SetPassword(ref, p) ==
    LET id == Lookup(ref)
    IN  /\ id # Nil
        /\ id \in salts
        /\ StorePassword(id, p)
        /\ history' = [history EXCEPT !.last[id] = p]
        /\ UNCHANGED <<accountVars, validations, resets, now, drawn>>

RequestPasswordReset(ref, token) ==
    LET id == Lookup(ref)
    IN  /\ id # Nil
        /\ token \notin drawn
        /\ resets' = [resets EXCEPT ![token] = [user |-> id, expires |-> now + ResetTime]]
        /\ drawn' = drawn \cup {token}
        /\ UNCHANGED <<accountVars, passwords, validations, now, history>>

\* Mutant: the token stays.
ResetPasswordKeepToken(token, p) ==
    LET r == resets[token]
    IN  /\ r.user # Nil
        /\ now <= r.expires
        /\ r.user \in salts
        /\ StorePassword(r.user, p)
        /\ history' = [history EXCEPT !.last[r.user] = p, !.spent = @ \cup {token}]
        /\ UNCHANGED <<accountVars, validations, resets, now, drawn>>

\* The user is not looked up: the salt of a deleted one is still there.
ResetPassword(token, p) ==
    LET r == resets[token]
    IN  /\ r.user # Nil
        /\ now <= r.expires
        /\ r.user \in salts
        /\ StorePassword(r.user, p)
        /\ history' = [history EXCEPT !.last[r.user] = p, !.spent = @ \cup {token}]
        /\ resets' = [resets EXCEPT ![token] = NoReset]
        /\ UNCHANGED <<accountVars, validations, now, drawn>>

RequestEmailChange(ref, s, token, valid) ==
    LET id == Lookup(ref)
    IN  /\ id # Nil
        /\ token \notin drawn
        /\ EmailAvailable(id, s)
        /\ validations' = WithRequest(id, s, token, now + valid)
        /\ drawn' = drawn \cup {token}
        /\ UNCHANGED <<accountVars, passwords, resets, now, history>>

Confirmed(token, v) ==
    [history EXCEPT !.spent = @ \cup {token},
                    !.padded = @ \cup (IF v.email \in Emails THEN {} ELSE {Trim[v.email]})]

\* Mutant: the token of another user is accepted.
ChangeEmailAnyUser(ref, token) ==
    LET id == Lookup(ref)
        v == validations[token]
    IN  /\ id # Nil
        /\ v.user # Nil
        /\ now <= v.expires
        /\ validations' = [validations EXCEPT ![token] = NoValidation]
        /\ SaveUser(id, [users[id] EXCEPT !.email = Trim[v.email], !.unvalidated = FALSE])
        /\ history' = Confirmed(token, v)
        /\ UNCHANGED <<passwords, resets, now, drawn>>

\* save trims what changeEmail has read: it may be the address of somebody else.
ChangeEmail(ref, token) ==
    LET id == Lookup(ref)
        v == validations[token]
    IN  /\ id # Nil
        /\ v.user = id
        /\ now <= v.expires
        /\ validations' = [validations EXCEPT ![token] = NoValidation]
        /\ SaveUser(id, [users[id] EXCEPT !.email = Trim[v.email], !.unvalidated = FALSE])
        /\ history' = Confirmed(token, v)
        /\ UNCHANGED <<passwords, resets, now, drawn>>

----------------------------------------------------------------------------
\* PeriodicCleanup: two goroutines, each with a transaction of its own.
Stale(expires) == now > expires

CleanValidations ==
    /\ \E t \in Tokens : Pending(t) /\ Stale(validations[t].expires)
    /\ validations' = [t \in Tokens |->
           IF Stale(validations[t].expires) THEN NoValidation ELSE validations[t]]
    /\ UNCHANGED <<accountVars, passwords, resets, now, drawn, history>>

CleanResets ==
    /\ \E t \in Tokens : Requested(t) /\ Stale(resets[t].expires)
    /\ resets' = [t \in Tokens |->
           IF Stale(resets[t].expires) THEN NoReset ELSE resets[t]]
    /\ UNCHANGED <<accountVars, passwords, validations, now, drawn, history>>

Tick ==
    /\ now < MaxTime
    /\ now' = now + 1
    /\ UNCHANGED <<accountVars, passwords, validations, resets, drawn, history>>

----------------------------------------------------------------------------
(***************************************************************************)
(* Properties                                                              *)
(***************************************************************************)

(***************************************************************************)
(* The indexes agree with the records whatever sequence of registrations,  *)
(* requested, superseded and confirmed changes, renames and deletions ran: *)
(* that of user names in both directions; that of addresses leads to users *)
(* who have the address, and to every user who has it, hence to one,       *)
(* unless the address was ever confirmed under a spelling with spaces.     *)
(* (save does not look up the address of an existing user: that it is free *)
(* follows from what requestEmailChange and emailExists refused before,    *)
(* and they refuse a spelling.)                                            *)
(***************************************************************************)
EmailIndexExact ==
    \A id \in UserIDs, e \in Emails :
        /\ indexEmail[e] = id => users[id].email = e
        /\ users[id].email = e /\ e \notin history.padded => indexEmail[e] = id

UsernameIndexExact ==
    \A id \in UserIDs, n \in Usernames :
        indexUsername[n] = id <=> users[id].username = n

NameIndexesExact == EmailIndexExact /\ UsernameIndexExact

(***************************************************************************)
(* An address somebody has asked for, without spaces, is nobody else's:    *)
(* the confirmation will not meet a user who registered or asked for it in *)
(* between, unless a spelling of it with spaces was confirmed.  At most    *)
(* one token confirms a spelling, and none is left of a user who was       *)
(* deleted.                                                                *)
(***************************************************************************)
RequestedAddressReserved ==
    \A t \in Tokens : Pending(t) =>
        LET v == validations[t]
        IN  /\ v.email \in Emails \ history.padded => indexEmail[v.email] \in {Nil, v.user}
            /\ UserExists(v.user)
            /\ \A s \in Tokens : validations[s].email = v.email => s = t

(***************************************************************************)
(* A token that has changed an address or a password does so no more.      *)
(* (Of two resets a user has asked for, both work, each once.)             *)
(***************************************************************************)
TokensWorkOnce == \A t \in history.spent : ~Pending(t) /\ ~Requested(t)

(***************************************************************************)
(* The password that authenticates is the one that was set last, by the    *)
(* user or with a token, in whatever second.                               *)
(***************************************************************************)
LastPasswordAuthenticates ==
    \A id \in UserIDs : UserExists(id) => Password(id) = history.last[id]

(***************************************************************************)
(* An existing user's address changes, and counts as confirmed, only when  *)
(* that user presents, in time, the token issued for that address.         *)
(***************************************************************************)
ConfirmedStep ==
    \A id \in UserIDs :
        (/\ UserExists(id) /\ UserExists(id)'
         /\ \/ users'[id].email # users[id].email
            \/ users[id].unvalidated /\ ~users'[id].unvalidated)
        => \E t \in Tokens : /\ Pending(t) /\ ~Pending(t)'
                            /\ validations[t].user = id
                            /\ Trim[validations[t].email] = users'[id].email
                            /\ now <= validations[t].expires

AddressConfirmed == [][ConfirmedStep]_vars
=============================================================================
