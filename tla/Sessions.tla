------------------------------ MODULE Sessions ------------------------------
(***************************************************************************)
(* The session service on BoltDB (services/session/bolt: db.go,            *)
(* service.go, cleanup.go) as the server uses it: a login creates a        *)
(* session, a logout saves it again without its user, a goroutine per      *)
(* expired session deletes what a scan has found.                          *)
(*                                                                         *)
(* Of a session's values only "user-id" is kept.  MaxAge 0 stands for a    *)
(* session without "remember me".                                          *)
(***************************************************************************)
EXTENDS Naturals, FiniteSets

CONSTANTS
    SessionIDs,         \* ids that newSessionID may draw
    SessionUsers,
    RememberMe,         \* MaxAge of a remembered login
    DefaultLifetime,    \* Service.DefaultLifetime, or 60 days
    Reuse,              \* commits after which BoltDB may write a freed page again
    LastSecond,         \* bound of the clock
    NoOne

\* An id is a string of a fixed length: there are finitely many.
ASSUME SessionsAssumption ==
    /\ IsFiniteSet(SessionIDs)
    /\ NoOne \notin SessionUsers
    /\ RememberMe \in Nat \ {0} /\ DefaultLifetime \in Nat \ {0}
    /\ Reuse \in Nat \ {0} /\ LastSecond \in Nat

VARIABLES
    sessionRows,    \* bucket Sessions: id -> record
    drawnSessions,  \* ids drawn so far: random, never drawn again
    doomed,         \* cleanup goroutines: the key each has, and the commits since
    second

sessionsVars == <<sessionRows, drawnSessions, doomed, second>>

NoSession == [exists |-> FALSE, user |-> NoOne, expires |-> 0]

SessionsInit ==
    /\ sessionRows = [id \in SessionIDs |-> NoSession]
    /\ drawnSessions = {}
    /\ doomed = {}
    /\ second = 0

Expired(id) == sessionRows[id].exists /\ second > sessionRows[id].expires

\* sessionRecord.save sets the time again on every save.
Expires(maxAge) == second + (IF maxAge > 0 THEN maxAge ELSE DefaultLifetime)

\* A read-write transaction has committed: the keys that goroutines hold point
\* into pages that one commit frees and a later one may write.
Committed(goroutines) ==
    doomed' = {[d EXCEPT !.commits = IF @ = Reuse THEN @ ELSE @ + 1] : d \in goroutines}

----------------------------------------------------------------------------
\* CreateSession, by saveSession at the end of a login or a registration.
CreateSession(id, user, maxAge) ==
    /\ id \notin drawnSessions
    /\ drawnSessions' = drawnSessions \cup {id}
    /\ sessionRows' = [sessionRows EXCEPT ![id] =
           [exists |-> TRUE, user |-> user, expires |-> Expires(maxAge)]]
    /\ Committed(doomed)
    /\ UNCHANGED second

\* Mutant: a logout shortens the session and keeps its user.
LogoutKeepUser(id) ==
    /\ sessionRows[id].exists
    /\ sessionRows' = [sessionRows EXCEPT ![id].expires = Expires(0)]
    /\ Committed(doomed)
    /\ UNCHANGED <<drawnSessions, second>>

\* logout and deleteSession: UpdateSession without "user-id" and with MaxAge -1,
\* which save takes for the default.  The row stays, and lasts longer than before.
Logout(id) ==
    /\ sessionRows[id].exists
    /\ sessionRows' = [sessionRows EXCEPT ![id].user = NoOne, ![id].expires = Expires(0)]
    /\ Committed(doomed)
    /\ UNCHANGED <<drawnSessions, second>>

----------------------------------------------------------------------------
\* cleanup, the scan: a read-only transaction that starts one goroutine for each
\* expired session with its key, which is not copied.
CleanupScan ==
    LET expired == {id \in SessionIDs : Expired(id)}
    IN  /\ expired # {}
        /\ doomed' = doomed \cup {[key |-> id, commits |-> 0] : id \in expired}
        /\ UNCHANGED <<sessionRows, drawnSessions, second>>

\* cleanup, the goroutines: DB.Batch runs some of them in one transaction; the
\* session is not looked at again.  A key whose page may have been written again
\* reads as the key of any session, or of none.
CleanupDelete(batch) ==
    LET keys == {d.key : d \in {b \in batch : b.commits < Reuse}}
        stale == {b \in batch : b.commits = Reuse}
    IN  /\ batch # {}
        /\ \E read \in SUBSET SessionIDs :
               /\ Cardinality(read) <= Cardinality(stale)
               /\ sessionRows' = [id \in SessionIDs |->
                      IF id \in keys \cup read THEN NoSession ELSE sessionRows[id]]
        /\ Committed(doomed \ batch)
        /\ UNCHANGED <<drawnSessions, second>>

SecondPasses ==
    /\ second < LastSecond
    /\ second' = second + 1
    /\ UNCHANGED <<sessionRows, drawnSessions, doomed>>

SessionsNext ==
    \/ \E id \in SessionIDs, user \in SessionUsers, maxAge \in {0, RememberMe} :
           CreateSession(id, user, maxAge)
    \/ \E id \in SessionIDs : Logout(id)
    \/ CleanupScan
    \/ \E batch \in SUBSET doomed : CleanupDelete(batch)
    \/ SecondPasses

SessionsSpec == SessionsInit /\ [][SessionsNext]_sessionsVars

----------------------------------------------------------------------------
(***************************************************************************)
(* Properties                                                              *)
(***************************************************************************)

LoginEnds(id) ==
    /\ sessionRows[id].user # NoOne
    /\ second <= sessionRows[id].expires
    /\ ~sessionRows'[id].exists

(***************************************************************************)
(* The cleanup deletes expired sessions only: somebody who is logged in    *)
(* stays logged in until the session expires.                              *)
(***************************************************************************)
CleanupSparesLogins == [][\A id \in SessionIDs : ~LoginEnds(id)]_sessionsVars

(***************************************************************************)
(* A login ends early only through a key whose page was written again      *)
(* between the scan and the deletion.  That the deletion does not look at  *)
(* the session again takes no login away: nothing extends a session that   *)
(* has a user.                                                             *)
(***************************************************************************)
LoginsLostToStaleKeysOnly ==
    [][(\E id \in SessionIDs : LoginEnds(id)) => \E d \in doomed : d.commits = Reuse]_sessionsVars
=============================================================================
