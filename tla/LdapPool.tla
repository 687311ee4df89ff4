------------------------------ MODULE LdapPool ------------------------------
(***************************************************************************)
(* Logins through LDAP (services/user/ldap/service.go): Authenticate takes *)
(* an idle connection or dials one, puts it back unless it broke, tries    *)
(* again while connections break, and falls back to the wrapped users      *)
(* service when LDAP refuses.  The pool is guarded by a read-write mutex,  *)
(* which is taken twice for one connection: to count, and to take.         *)
(*                                                                         *)
(* A connection is alive or broken; the directory itself (which names and  *)
(* groups it knows) is the outcome of a login.                             *)
(***************************************************************************)
EXTENDS Naturals, Sequences

CONSTANTS
    Logins,             \* logins at the same time
    MaxConnections,     \* Options.MaxConnections
    MaxRestarts,        \* bound: restarts of the LDAP server
    Nobody

ASSUME LdapAssumption ==
    /\ Nobody \notin Logins
    /\ MaxConnections \in Nat /\ MaxRestarts \in Nat

VARIABLES
    idle,       \* s.connections: the idle ones, TRUE when alive
    login,      \* login -> where it is, its connection, its tries
    holder,     \* the login that holds s.mu for good
    restarts,
    raced       \* history: a login counted while another was about to take

ldapVars == <<idle, login, holder, restarts, raced>>

NoLogin == [step |-> "out", alive |-> FALSE, tries |-> 0]

LdapInit ==
    /\ idle = <<>>
    /\ login = [p \in Logins |-> NoLogin]
    /\ holder = Nobody
    /\ restarts = 0
    /\ raced = FALSE

Unlocked == holder = Nobody

----------------------------------------------------------------------------
Authenticate(p) ==
    /\ login[p].step = "out"
    /\ login' = [login EXCEPT ![p] = [NoLogin EXCEPT !.step = "count"]]
    /\ UNCHANGED <<idle, holder, restarts, raced>>

\* ldapConnection, under the read lock: are there idle connections?
CountIdle(p) ==
    /\ login[p].step = "count" /\ Unlocked
    /\ login' = [login EXCEPT ![p].step = IF idle = <<>> THEN "dial" ELSE "take"]
    /\ raced' = (raced \/ \E q \in Logins \ {p} : login[q].step = "take")
    /\ UNCHANGED <<idle, holder, restarts>>

\* Dial fails with the code of a broken connection.
Dial(p) ==
    /\ login[p].step = "dial"
    /\ \E alive \in BOOLEAN :
           login' = [login EXCEPT ![p].step = IF alive THEN "use" ELSE "again",
                                  ![p].alive = alive]
    /\ UNCHANGED <<idle, holder, restarts, raced>>

\* Under the lock: s.connections[0], whatever the count was.  Without one this
\* panics, the server recovers the request, and nobody unlocks s.mu.
Take(p) ==
    /\ login[p].step = "take" /\ Unlocked
    /\ IF idle = <<>>
       THEN /\ holder' = p
            /\ login' = [login EXCEPT ![p].step = "panic"]
            /\ UNCHANGED idle
       ELSE /\ login' = [login EXCEPT ![p].step = "use", ![p].alive = Head(idle)]
            /\ idle' = Tail(idle)
            /\ UNCHANGED holder
    /\ UNCHANGED <<restarts, raced>>

\* Mutant: broken connections go back to the pool.
UseAnyReleased(p) ==
    /\ login[p].step = "use"
    /\ login' = [login EXCEPT ![p].step = "release"]
    /\ UNCHANGED <<idle, holder, restarts, raced>>

\* ldapAuthSingle: binds and searches; a connection that broke is dropped.
UseConnection(p) ==
    /\ login[p].step = "use"
    /\ login' = [login EXCEPT ![p].step = IF login[p].alive THEN "release" ELSE "again"]
    /\ UNCHANGED <<idle, holder, restarts, raced>>

\* releaseLDAPConnection; then the login is accepted, created or falls back.
Release(p) ==
    /\ login[p].step = "release" /\ Unlocked
    /\ idle' = IF Len(idle) < MaxConnections THEN Append(idle, login[p].alive) ELSE idle
    /\ login' = [login EXCEPT ![p] = NoLogin]
    /\ UNCHANGED <<holder, restarts, raced>>

\* Mutant: the tries are not counted.
TryAgainUncounted(p) ==
    /\ login[p].step = "again" /\ Unlocked
    /\ login' = [login EXCEPT ![p] = [NoLogin EXCEPT !.step = "count"]]
    /\ UNCHANGED <<idle, holder, restarts, raced>>

\* ldapAuth: after broken connection i, another try unless i > idle + 1.
TryAgain(p) ==
    /\ login[p].step = "again" /\ Unlocked
    /\ LET i == login[p].tries + 1
       IN  login' = [login EXCEPT ![p] = IF i > Len(idle) + 1 THEN NoLogin
                         ELSE [NoLogin EXCEPT !.step = "count", !.tries = i]]
    /\ UNCHANGED <<idle, holder, restarts, raced>>

\* The LDAP server restarts: every connection breaks.
LdapRestarts ==
    /\ restarts < MaxRestarts
    /\ restarts' = restarts + 1
    /\ idle' = [i \in DOMAIN idle |-> FALSE]
    /\ login' = [p \in Logins |-> [login[p] EXCEPT !.alive = FALSE]]
    /\ UNCHANGED <<holder, raced>>

LoginStep(p) ==
    \/ CountIdle(p)
    \/ Dial(p)
    \/ Take(p)
    \/ UseConnection(p)
    \/ Release(p)
    \/ TryAgain(p)

LdapNext ==
    \/ \E p \in Logins : Authenticate(p) \/ LoginStep(p)
    \/ LdapRestarts

\* Goroutines run, and users keep logging in.
LdapFairness ==
    \A p \in Logins : WF_ldapVars(LoginStep(p)) /\ WF_ldapVars(Authenticate(p))

LdapSpec == LdapInit /\ [][LdapNext]_ldapVars /\ LdapFairness

----------------------------------------------------------------------------
(***************************************************************************)
(* Properties                                                              *)
(***************************************************************************)

(***************************************************************************)
(* Every login ends, whatever connections break, unless the mutex is lost; *)
(* and that takes two logins that meet between counting the idle           *)
(* connections and taking one.                                             *)
(***************************************************************************)
LoginsReturn ==
    \A p \in Logins :
        login[p].step # "out" ~> (login[p].step = "out" \/ (raced /\ ~Unlocked))

(***************************************************************************)
(* Broken connections leave the pool: some time after the LDAP server has  *)
(* restarted logins go through it again, until the mutex is lost.          *)
(***************************************************************************)
BrokenConnectionsGo ==
    (\E i \in DOMAIN idle : ~idle[i]) ~> (~Unlocked \/ \A i \in DOMAIN idle : idle[i])
=============================================================================
