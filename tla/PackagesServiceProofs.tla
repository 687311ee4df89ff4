----------------------- MODULE PackagesServiceProofs -----------------------
(***************************************************************************)
(* Proofs about PackagesService: the changelog, for any number of calls,   *)
(* commits, readings of the clock and digits.                              *)
(*                                                                         *)
(* The three properties of the changelog are not inductive by themselves.  *)
(* That a change has one record needs to know that no two calls have the   *)
(* same commit to record and that this commit is pending until then; that  *)
(* records respect real time needs the same order between the records and  *)
(* the time that a call has read but not written yet.                      *)
(***************************************************************************)
EXTENDS PackagesService, PackagesStoreProofs, SequenceTheorems

Outcomes == {"pending", "ok", "error", "crashed"}

Actions == {"add-domain", "update-domain", "delete-domain", "domain-add-user",
            "domain-remove-user", "add-package", "update-package", "delete-package"}

CommitRecord == [action : Actions, domain : DomainIDs, package : PackageIDs \cup {Nil},
                 user : Users, logged : BOOLEAN, after : SUBSET Nat, outcome : Outcomes]

ChangelogRecord == [domain : DomainIDs, time : Nat, suffix : Suffixes, commit : Nat]

ServiceTypeOK ==
    /\ calls \in [Calls -> Nat]
    /\ stamps \in [Calls -> Nat]
    /\ clock \in Nat \ {0}
    /\ changelog \subseteq ChangelogRecord
    /\ commits \in Seq(CommitRecord)

\* A call that has not returned has a commit of its own, which is pending.
CallsPending ==
    /\ \A c \in Calls : calls[c] # 0 => /\ calls[c] \in 1..Len(commits)
                                        /\ commits[calls[c]].outcome = "pending"
    /\ \A c, d \in Calls : calls[c] # 0 /\ calls[c] = calls[d] => c = d

\* A record is about the domain of its commit, whose call has returned.
RecordsOfReturned ==
    \A r \in changelog : /\ r.commit \in Returned
                         /\ commits[r.commit].domain = r.domain
                         /\ commits[r.commit].outcome = "ok"

\* What a commit came after had returned before it.
AfterReturned == \A n \in 1..Len(commits) : commits[n].after \subseteq Returned

\* No record is from the future, and a time that was read is not before the
\* records of the calls that had returned when its call committed.
TimesOrdered ==
    /\ \A r \in changelog : r.time <= clock
    /\ \A c \in Calls : stamps[c] <= clock /\ (stamps[c] # 0 => calls[c] # 0)
    /\ \A c \in Calls, r \in changelog :
           stamps[c] # 0 /\ r.commit \in commits[calls[c]].after => r.time <= stamps[c]

LogInv ==
    /\ ServiceTypeOK
    /\ CallsPending
    /\ RecordsOfReturned
    /\ AfterReturned
    /\ TimesOrdered
    /\ ReturnedCallsAreLogged
    /\ RecordsFaithful
    /\ RecordsInRealTimeOrder

ServiceInv == IInv /\ LogInv

----------------------------------------------------------------------------
(***************************************************************************)
(* Steps of the changelog.                                                 *)
(***************************************************************************)
LEMMA LogStarts == ServiceInit => LogInv
<1> SUFFICES ASSUME ServiceInit PROVE LogInv
  OBVIOUS
<1>1. /\ calls = [c \in Calls |-> 0] /\ stamps = [c \in Calls |-> 0]
      /\ clock = 1 /\ changelog = {} /\ commits = <<>>
  BY DEF ServiceInit
<1>2. ServiceTypeOK
  BY <1>1 DEF ServiceTypeOK
<1> QED
  BY <1>1, <1>2
     DEF LogInv, CallsPending, RecordsOfReturned, AfterReturned, TimesOrdered,
         ReturnedCallsAreLogged, RecordsFaithful, RecordsInRealTimeOrder

\* What a commit adds to the history.
LEMMA CommitAppends ==
    ASSUME ServiceTypeOK, NEW c \in Calls, NEW action \in Actions, NEW id \in DomainIDs,
           NEW pid \in PackageIDs \cup {Nil}, NEW by \in Users, NEW logged \in BOOLEAN,
           Committed(c, action, id, pid, by, logged)
    PROVE  /\ Len(commits) \in Nat
           /\ commits' \in Seq(CommitRecord)
           /\ Len(commits') = Len(commits) + 1
           /\ \A n \in 1..Len(commits) : commits'[n] = commits[n]
           /\ commits'[Len(commits')] =
                  [action |-> action, domain |-> id, package |-> pid, user |-> by,
                   logged |-> logged, after |-> Returned,
                   outcome |-> IF logged THEN "pending" ELSE "ok"]
<1> DEFINE r == [action |-> action, domain |-> id, package |-> pid, user |-> by,
                 logged |-> logged, after |-> Returned,
                 outcome |-> IF logged THEN "pending" ELSE "ok"]
<1>1. commits \in Seq(CommitRecord) /\ Len(commits) \in Nat
  BY DEF ServiceTypeOK
<1>2. r \in CommitRecord
  <2>1. Returned \in SUBSET Nat
    BY <1>1 DEF Returned
  <2> QED BY <2>1 DEF CommitRecord, Outcomes
<1>3. commits' = Append(commits, r)
  BY DEF Committed
<1> HIDE DEF r
<1>4. /\ commits' \in Seq(CommitRecord)
      /\ Len(commits') = Len(commits) + 1
      /\ \A n \in 1..Len(commits) : commits'[n] = commits[n]
      /\ commits'[Len(commits) + 1] = r
  BY <1>1, <1>2, <1>3
<1> QED BY <1>1, <1>4 DEF r

LEMMA CommitKeeps ==
    ASSUME LogInv, NEW c \in Calls, Ready(c), NEW action \in Actions, NEW id \in DomainIDs,
           NEW pid \in PackageIDs \cup {Nil}, NEW by \in Users, NEW logged \in BOOLEAN,
           Committed(c, action, id, pid, by, logged)
    PROVE  LogInv'
<1> DEFINE n == Len(commits) + 1
<1>1. /\ calls \in [Calls -> Nat] /\ stamps \in [Calls -> Nat]
      /\ changelog \subseteq ChangelogRecord /\ ServiceTypeOK
  BY DEF LogInv, ServiceTypeOK
<1>2. /\ Len(commits) \in Nat
      /\ commits' \in Seq(CommitRecord)
      /\ Len(commits') = n
      /\ \A m \in 1..Len(commits) : commits'[m] = commits[m]
      /\ commits'[n].outcome = IF logged THEN "pending" ELSE "ok"
      /\ commits'[n].logged = logged
      /\ commits'[n].after = Returned
  <2>1. /\ Len(commits) \in Nat
        /\ commits' \in Seq(CommitRecord)
        /\ Len(commits') = Len(commits) + 1
        /\ \A m \in 1..Len(commits) : commits'[m] = commits[m]
        /\ commits'[Len(commits')] =
               [action |-> action, domain |-> id, package |-> pid, user |-> by,
                logged |-> logged, after |-> Returned,
                outcome |-> IF logged THEN "pending" ELSE "ok"]
    BY <1>1, CommitAppends
  <2> QED BY <2>1
<1>3. /\ stamps' = stamps /\ clock' = clock /\ changelog' = changelog
      /\ calls[c] = 0
      /\ calls' = IF logged THEN [calls EXCEPT ![c] = n] ELSE calls
  BY DEF Committed, logVars, Ready
<1>4. n \in Nat /\ n # 0 /\ n \notin 1..Len(commits) /\ 1..n = 1..Len(commits) \cup {n}
  BY <1>2
<1> HIDE DEF n
<1>5. /\ Returned \subseteq 1..Len(commits)
      /\ Returned \subseteq Returned'
      /\ \A m \in 1..Len(commits) : m \in Returned' => m \in Returned
  BY <1>2, <1>4 DEF Returned
<1>6. ServiceTypeOK'
  BY <1>1, <1>2, <1>3, <1>4 DEF ServiceTypeOK
<1>7. CallsPending'
  BY <1>1, <1>2, <1>3, <1>4 DEF LogInv, CallsPending
<1>8. \A r \in changelog : r.commit \in 1..Len(commits)
  BY <1>5 DEF LogInv, RecordsOfReturned
<1>9. RecordsOfReturned'
  BY <1>2, <1>3, <1>5, <1>8 DEF LogInv, RecordsOfReturned
<1>10. AfterReturned'
  BY <1>2, <1>4, <1>5 DEF LogInv, AfterReturned
<1>11. TimesOrdered'
  <2>1. \A d \in Calls : stamps[d] # 0 =>
            calls[d] # 0 /\ calls'[d] = calls[d] /\ calls[d] \in 1..Len(commits)
    BY <1>1, <1>3 DEF LogInv, TimesOrdered, CallsPending
  <2> QED BY <1>2, <1>3, <2>1 DEF LogInv, TimesOrdered
<1>12. ReturnedCallsAreLogged'
  BY <1>2, <1>3, <1>4 DEF LogInv, ReturnedCallsAreLogged
<1>13. RecordsFaithful'
  BY <1>2, <1>3, <1>8 DEF LogInv, RecordsFaithful
<1>14. RecordsInRealTimeOrder'
  BY <1>2, <1>3, <1>8 DEF LogInv, RecordsInRealTimeOrder
<1> QED
  BY <1>6, <1>7, <1>9, <1>10, <1>11, <1>12, <1>13, <1>14 DEF LogInv

LEMMA ReadClockKeeps ==
    ASSUME LogInv, NEW c \in Calls, ReadClock(c)
    PROVE  LogInv'
<1>1. /\ calls' = calls /\ clock' = clock /\ changelog' = changelog /\ commits' = commits
      /\ stamps' = [stamps EXCEPT ![c] = clock]
      /\ calls[c] # 0
  BY DEF ReadClock
<1>2. stamps \in [Calls -> Nat] /\ clock \in Nat \ {0} /\ changelog \subseteq ChangelogRecord
  BY DEF LogInv, ServiceTypeOK
<1>3. ServiceTypeOK'
  BY <1>1, <1>2 DEF LogInv, ServiceTypeOK
<1>4. TimesOrdered'
  BY <1>1, <1>2 DEF LogInv, TimesOrdered
<1> QED
  BY <1>1, <1>3, <1>4
     DEF LogInv, CallsPending, RecordsOfReturned, AfterReturned, Returned,
         ReturnedCallsAreLogged, RecordsFaithful, RecordsInRealTimeOrder

LEMMA TickKeeps == ASSUME LogInv, Tick PROVE LogInv'
<1>1. /\ calls' = calls /\ changelog' = changelog /\ commits' = commits /\ stamps' = stamps
      /\ clock' = clock + 1
  BY DEF Tick
<1>2. /\ clock \in Nat \ {0} /\ changelog \subseteq ChangelogRecord
      /\ stamps \in [Calls -> Nat]
  BY DEF LogInv, ServiceTypeOK
<1>3. ServiceTypeOK'
  BY <1>1, <1>2 DEF LogInv, ServiceTypeOK
<1>4. TimesOrdered'
  <2>1. \A r \in changelog : r.time <= clock + 1
    BY <1>2 DEF LogInv, TimesOrdered, ChangelogRecord
  <2>2. \A d \in Calls : stamps[d] <= clock + 1
    BY <1>2 DEF LogInv, TimesOrdered
  <2> QED BY <1>1, <2>1, <2>2 DEF LogInv, TimesOrdered
<1> QED
  BY <1>1, <1>3, <1>4
     DEF LogInv, CallsPending, RecordsOfReturned, AfterReturned, Returned,
         ReturnedCallsAreLogged, RecordsFaithful, RecordsInRealTimeOrder

\* The commit of a call ends one way or the other, and nothing else changes in
\* the history.
LEMMA CommitEnds ==
    ASSUME LogInv, NEW c \in Calls, calls[c] # 0, NEW outcome \in {"ok", "error"},
           Ended(calls[c], outcome)
    PROVE  /\ Len(commits) \in Nat
           /\ calls[c] \in 1..Len(commits)
           /\ commits[calls[c]].outcome = "pending"
           /\ commits' \in Seq(CommitRecord)
           /\ Len(commits') = Len(commits)
           /\ \A n \in 1..Len(commits) :
                  /\ commits'[n].domain = commits[n].domain
                  /\ commits'[n].logged = commits[n].logged
                  /\ commits'[n].after = commits[n].after
                  /\ commits'[n].outcome = IF n = calls[c] THEN outcome
                                           ELSE commits[n].outcome
           /\ Returned' = Returned \cup {calls[c]}
           /\ calls[c] \notin Returned
<1> DEFINE n == calls[c]
           r == [commits[n] EXCEPT !.outcome = outcome]
<1>1. commits \in Seq(CommitRecord) /\ Len(commits) \in Nat
  BY DEF LogInv, ServiceTypeOK
<1>2. n \in 1..Len(commits) /\ commits[n].outcome = "pending"
  BY DEF LogInv, CallsPending
<1>3. commits' = [commits EXCEPT ![n] = r]
  BY DEF Ended
<1>4. commits[n] \in CommitRecord
  BY <1>1, <1>2
<1>5. /\ r \in CommitRecord
      /\ r.domain = commits[n].domain /\ r.logged = commits[n].logged
      /\ r.after = commits[n].after /\ r.outcome = outcome
  BY <1>4 DEF CommitRecord, Outcomes
<1> HIDE DEF n, r
<1>6. /\ commits' \in Seq(CommitRecord)
      /\ Len(commits') = Len(commits)
      /\ commits'[n] = r
      /\ \A m \in 1..Len(commits) : m # n => commits'[m] = commits[m]
  BY <1>1, <1>2, <1>3, <1>5
<1>7. Returned' = Returned \cup {n} /\ n \notin Returned
  BY <1>1, <1>2, <1>5, <1>6 DEF Returned
<1> QED
  BY <1>1, <1>2, <1>5, <1>6, <1>7 DEF n

LEMMA WriteRecordKeeps ==
    ASSUME LogInv, NEW c \in Calls, WriteRecord(c)
    PROVE  LogInv'
<1> DEFINE n == calls[c]
           id == commits[n].domain
<1>1. PICK s \in Suffixes :
          /\ \A r \in changelog : ~(r.domain = id /\ r.time = stamps[c] /\ r.suffix = s)
          /\ changelog' = changelog \cup
                 {[domain |-> id, time |-> stamps[c], suffix |-> s, commit |-> n]}
  BY DEF WriteRecord
<1> DEFINE new == [domain |-> id, time |-> stamps[c], suffix |-> s, commit |-> n]
<1>2. /\ n # 0 /\ stamps[c] # 0
      /\ Ended(n, "ok")
      /\ calls' = [calls EXCEPT ![c] = 0]
      /\ stamps' = [stamps EXCEPT ![c] = 0]
      /\ clock' = clock
  BY DEF WriteRecord
<1>3. /\ Len(commits) \in Nat
      /\ n \in 1..Len(commits)
      /\ commits[n].outcome = "pending"
      /\ commits' \in Seq(CommitRecord)
      /\ Len(commits') = Len(commits)
      /\ \A m \in 1..Len(commits) :
             /\ commits'[m].domain = commits[m].domain
             /\ commits'[m].logged = commits[m].logged
             /\ commits'[m].after = commits[m].after
             /\ commits'[m].outcome = IF m = n THEN "ok" ELSE commits[m].outcome
      /\ Returned' = Returned \cup {n}
      /\ n \notin Returned
  BY <1>2, CommitEnds
<1>4. /\ calls \in [Calls -> Nat] /\ stamps \in [Calls -> Nat] /\ clock \in Nat \ {0}
      /\ changelog \subseteq ChangelogRecord
  BY DEF LogInv, ServiceTypeOK
<1>5. id \in DomainIDs
  <2>1. commits[n] \in CommitRecord
    BY <1>3 DEF LogInv, ServiceTypeOK
  <2> QED BY <2>1 DEF CommitRecord
<1>6. /\ new \in ChangelogRecord
      /\ new.domain = id /\ new.time = stamps[c] /\ new.suffix = s /\ new.commit = n
      /\ changelog' = changelog \cup {new}
  BY <1>1, <1>3, <1>4, <1>5 DEF ChangelogRecord
<1>7. \A r \in changelog : ~(r.domain = id /\ r.time = stamps[c] /\ r.suffix = s)
  BY <1>1
<1> HIDE DEF n, id, new
<1>8. /\ Returned \subseteq 1..Len(commits)
      /\ \A r \in changelog : r.commit \in Returned /\ r.commit # n
  BY <1>3 DEF LogInv, RecordsOfReturned, Returned
<1>9. \A m \in 1..Len(commits) : n \notin commits[m].after
  BY <1>3 DEF LogInv, AfterReturned
<1>10. /\ calls'[c] = 0 /\ stamps'[c] = 0
       /\ \A d \in Calls : d # c => calls'[d] = calls[d] /\ stamps'[d] = stamps[d]
       /\ \A d \in Calls : d # c /\ calls[d] # 0 => calls[d] # n
  BY <1>2, <1>4 DEF LogInv, CallsPending, n
<1>11. ServiceTypeOK'
  BY <1>2, <1>3, <1>4, <1>6 DEF ServiceTypeOK
<1>12. CallsPending'
  BY <1>3, <1>10 DEF LogInv, CallsPending
<1>13. RecordsOfReturned'
  BY <1>3, <1>6, <1>8 DEF LogInv, RecordsOfReturned, id
<1>14. AfterReturned'
  BY <1>3 DEF LogInv, AfterReturned
<1>15. TimesOrdered'
  <2>1. \A r \in changelog' : r.time <= clock
    BY <1>6 DEF LogInv, TimesOrdered
  <2>2. \A d \in Calls, r \in changelog' :
            stamps'[d] # 0 /\ r.commit \in commits'[calls'[d]].after => r.time <= stamps'[d]
    <3> SUFFICES ASSUME NEW d \in Calls, NEW r \in changelog',
                        stamps'[d] # 0, r.commit \in commits'[calls'[d]].after
                 PROVE  r.time <= stamps'[d]
      OBVIOUS
    <3>1. /\ d # c /\ stamps'[d] = stamps[d] /\ calls'[d] = calls[d]
          /\ calls[d] # 0 /\ calls[d] \in 1..Len(commits)
      BY <1>10 DEF LogInv, TimesOrdered, CallsPending
    <3>2. r.commit \in commits[calls[d]].after /\ r \in changelog
      BY <1>3, <1>6, <1>9, <3>1
    <3> QED BY <3>1, <3>2 DEF LogInv, TimesOrdered
  <2>3. \A d \in Calls : stamps'[d] <= clock
    BY <1>4, <1>10 DEF LogInv, TimesOrdered
  <2> QED BY <1>2, <1>10, <2>1, <2>2, <2>3 DEF LogInv, TimesOrdered
<1>16. ReturnedCallsAreLogged'
  BY <1>3, <1>6 DEF LogInv, ReturnedCallsAreLogged, id
<1>17. RecordsFaithful'
  <2> SUFFICES ASSUME NEW r \in changelog', NEW t \in changelog'
               PROVE  /\ r.commit = t.commit => r = t
                      /\ r.domain = t.domain /\ r.time = t.time /\ r.suffix = t.suffix
                             => r = t
                      /\ commits'[r.commit].outcome = "ok"
    BY DEF RecordsFaithful
  <2>1. \A x \in changelog : /\ x.commit \in 1..Len(commits) /\ x.commit # n
                             /\ commits[x.commit].outcome = "ok"
                             /\ ~(x.domain = id /\ x.time = stamps[c] /\ x.suffix = s)
    BY <1>7, <1>8 DEF LogInv, RecordsOfReturned
  <2>2. commits'[r.commit].outcome = "ok"
    BY <1>3, <1>6, <2>1
  <2>3. CASE r \in changelog /\ t \in changelog
    BY <2>2, <2>3 DEF LogInv, RecordsFaithful
  <2>4. CASE r = new \/ t = new
    BY <1>6, <2>1, <2>2, <2>4
  <2> QED BY <1>6, <2>3, <2>4
<1>18. RecordsInRealTimeOrder'
  <2> SUFFICES ASSUME NEW r \in changelog', NEW t \in changelog',
                      r.commit \in commits'[t.commit].after
               PROVE  r.time <= t.time
    BY DEF RecordsInRealTimeOrder
  <2>1. t.commit \in 1..Len(commits)
    BY <1>3, <1>6, <1>8
  <2>2. r.commit \in commits[t.commit].after /\ r \in changelog
    BY <1>3, <1>6, <1>9, <2>1
  <2>3. CASE t \in changelog
    BY <2>2, <2>3 DEF LogInv, RecordsInRealTimeOrder
  <2>4. CASE t = new
    BY <1>2, <1>6, <2>2, <2>4 DEF LogInv, TimesOrdered, n
  <2> QED BY <1>6, <2>3, <2>4
<1> QED
  BY <1>11, <1>12, <1>13, <1>14, <1>15, <1>16, <1>17, <1>18 DEF LogInv

LEMMA FailRecordKeeps ==
    ASSUME LogInv, NEW c \in Calls, FailRecord(c)
    PROVE  LogInv'
<1> DEFINE n == calls[c]
<1>1. /\ n # 0 /\ Ended(n, "error")
      /\ calls' = [calls EXCEPT ![c] = 0]
      /\ stamps' = [stamps EXCEPT ![c] = 0]
      /\ clock' = clock /\ changelog' = changelog
  BY DEF FailRecord
<1>2. /\ Len(commits) \in Nat
      /\ n \in 1..Len(commits)
      /\ commits' \in Seq(CommitRecord)
      /\ Len(commits') = Len(commits)
      /\ \A m \in 1..Len(commits) :
             /\ commits'[m].domain = commits[m].domain
             /\ commits'[m].logged = commits[m].logged
             /\ commits'[m].after = commits[m].after
             /\ commits'[m].outcome = IF m = n THEN "error" ELSE commits[m].outcome
      /\ Returned' = Returned \cup {n}
      /\ n \notin Returned
  BY <1>1, CommitEnds
<1>3. /\ calls \in [Calls -> Nat] /\ stamps \in [Calls -> Nat] /\ clock \in Nat \ {0}
      /\ changelog \subseteq ChangelogRecord
  BY DEF LogInv, ServiceTypeOK
<1> HIDE DEF n
<1>4. /\ Returned \subseteq 1..Len(commits)
      /\ \A r \in changelog : r.commit \in Returned /\ r.commit # n
  BY <1>2 DEF LogInv, RecordsOfReturned, Returned
<1>5. /\ calls'[c] = 0 /\ stamps'[c] = 0
      /\ \A d \in Calls : d # c => calls'[d] = calls[d] /\ stamps'[d] = stamps[d]
      /\ \A d \in Calls : d # c /\ calls[d] # 0 => calls[d] # n
  BY <1>1, <1>3 DEF LogInv, CallsPending, n
<1>6. ServiceTypeOK'
  BY <1>1, <1>2, <1>3 DEF ServiceTypeOK
<1>7. CallsPending'
  BY <1>2, <1>5 DEF LogInv, CallsPending
<1>8. RecordsOfReturned'
  BY <1>1, <1>2, <1>4 DEF LogInv, RecordsOfReturned
<1>9. AfterReturned'
  BY <1>2 DEF LogInv, AfterReturned
<1>10. TimesOrdered'
  <2>1. \A d \in Calls : stamps'[d] # 0 =>
            /\ d # c /\ stamps'[d] = stamps[d] /\ calls'[d] = calls[d]
            /\ calls[d] # 0 /\ calls[d] \in 1..Len(commits)
    BY <1>5 DEF LogInv, TimesOrdered, CallsPending
  <2>2. \A d \in Calls : stamps'[d] <= clock
    BY <1>3, <1>5 DEF LogInv, TimesOrdered
  <2> QED BY <1>1, <1>2, <2>1, <2>2 DEF LogInv, TimesOrdered
<1>11. ReturnedCallsAreLogged'
  BY <1>1, <1>2 DEF LogInv, ReturnedCallsAreLogged
<1>12. RecordsFaithful' /\ RecordsInRealTimeOrder'
  BY <1>1, <1>2, <1>4 DEF LogInv, RecordsFaithful, RecordsInRealTimeOrder
<1> QED
  BY <1>6, <1>7, <1>8, <1>9, <1>10, <1>11, <1>12 DEF LogInv

LEMMA CrashKeeps == ASSUME LogInv, Crash PROVE LogInv'
<1> DEFINE after(n) == IF commits[n].outcome = "pending"
                       THEN [commits[n] EXCEPT !.outcome = "crashed"] ELSE commits[n]
<1>1. /\ commits' = [n \in DOMAIN commits |-> after(n)]
      /\ calls' = [c \in Calls |-> 0]
      /\ stamps' = [c \in Calls |-> 0]
      /\ clock' = clock /\ changelog' = changelog
  BY DEF Crash
<1>2. commits \in Seq(CommitRecord) /\ Len(commits) \in Nat /\ DOMAIN commits = 1..Len(commits)
  BY DEF LogInv, ServiceTypeOK
<1>3. \A n \in 1..Len(commits) :
          /\ after(n) \in CommitRecord
          /\ after(n).domain = commits[n].domain
          /\ after(n).logged = commits[n].logged
          /\ after(n).after = commits[n].after
          /\ after(n).outcome = IF commits[n].outcome = "pending" THEN "crashed"
                                ELSE commits[n].outcome
  <2> SUFFICES ASSUME NEW n \in 1..Len(commits)
               PROVE  /\ after(n) \in CommitRecord
                      /\ after(n).domain = commits[n].domain
                      /\ after(n).logged = commits[n].logged
                      /\ after(n).after = commits[n].after
                      /\ after(n).outcome = IF commits[n].outcome = "pending" THEN "crashed"
                                            ELSE commits[n].outcome
    OBVIOUS
  <2>1. commits[n] \in CommitRecord
    BY <1>2
  <2> QED BY <2>1 DEF CommitRecord, Outcomes
<1> HIDE DEF after
<1>4. /\ commits' \in Seq(CommitRecord)
      /\ Len(commits') = Len(commits)
      /\ \A n \in 1..Len(commits) : commits'[n] = after(n)
  BY <1>1, <1>2, <1>3, IsASeq
<1>5. Returned' = Returned /\ Returned \subseteq 1..Len(commits)
  BY <1>2, <1>3, <1>4 DEF Returned
<1>6. \A r \in changelog : r.commit \in 1..Len(commits)
  BY <1>5 DEF LogInv, RecordsOfReturned
<1>7. ServiceTypeOK'
  BY <1>1, <1>4 DEF LogInv, ServiceTypeOK
<1>8. CallsPending' /\ TimesOrdered'
  <2>1. clock \in Nat
    BY DEF LogInv, ServiceTypeOK
  <2> QED BY <1>1, <2>1 DEF LogInv, CallsPending, TimesOrdered
<1>9. RecordsOfReturned'
  BY <1>1, <1>3, <1>4, <1>5, <1>6 DEF LogInv, RecordsOfReturned
<1>10. AfterReturned'
  BY <1>3, <1>4, <1>5 DEF LogInv, AfterReturned
<1>11. ReturnedCallsAreLogged'
  <2> SUFFICES ASSUME NEW n \in 1..Len(commits), after(n).logged, after(n).outcome = "ok"
               PROVE  \E r \in changelog : r.commit = n /\ r.domain = after(n).domain
    BY <1>1, <1>4 DEF ReturnedCallsAreLogged
  <2> QED BY <1>3 DEF LogInv, ReturnedCallsAreLogged
<1>12. RecordsFaithful' /\ RecordsInRealTimeOrder'
  BY <1>1, <1>3, <1>4, <1>6 DEF LogInv, RecordsFaithful, RecordsInRealTimeOrder
<1> QED
  BY <1>7, <1>8, <1>9, <1>10, <1>11, <1>12 DEF LogInv

----------------------------------------------------------------------------
(***************************************************************************)
(* Calls that commit a transaction of the store: each is a step of the     *)
(* store, appends one commit, and this commit accounts for what it did.    *)
(***************************************************************************)
CallKeeps == Next /\ LogInv' /\ ChangeAttributed /\ SilentCall

\* The commit that the step appended.
Appended(action, id, pid, by, logged) ==
    /\ Len(commits') > Len(commits)
    /\ commits'[Len(commits')].action = action
    /\ commits'[Len(commits')].domain = id
    /\ commits'[Len(commits')].package = pid
    /\ commits'[Len(commits')].user = by
    /\ commits'[Len(commits')].logged = logged

LEMMA CommitRecorded ==
    ASSUME ServiceInv, NEW c \in Calls, Ready(c), NEW action \in Actions, NEW id \in DomainIDs,
           NEW pid \in PackageIDs \cup {Nil}, NEW by \in Users, NEW logged \in BOOLEAN,
           Committed(c, action, id, pid, by, logged)
    PROVE  LogInv' /\ Appended(action, id, pid, by, logged)
<1>1. LogInv'
  BY CommitKeeps DEF ServiceInv
<1>2. ServiceTypeOK
  BY DEF ServiceInv, LogInv
<1>3. /\ Len(commits) \in Nat
      /\ Len(commits') = Len(commits) + 1
      /\ commits'[Len(commits')] =
             [action |-> action, domain |-> id, package |-> pid, user |-> by,
              logged |-> logged, after |-> Returned,
              outcome |-> IF logged THEN "pending" ELSE "ok"]
  BY <1>2, CommitAppends
<1>4. Appended(action, id, pid, by, logged)
  BY <1>3 DEF Appended
<1> QED BY <1>1, <1>4

LEMMA CallAddDomainKeeps ==
    ASSUME ServiceInv, NEW c \in Calls, CallAddDomain(c)
    PROVE  CallKeeps
<1>1. PICK id \in DomainIDs, o \in DomainOptions, by \in Users :
          AddDomain(id, o) /\ Committed(c, "add-domain", id, Nil, by, TRUE)
  BY DEF CallAddDomain
<1>2. LogInv' /\ Appended("add-domain", id, Nil, by, TRUE)
  BY <1>1, CommitRecorded DEF CallAddDomain, Actions
<1>3. /\ domains[id] = NoDomain
      /\ \A i \in DomainIDs : i # id => domains'[i] = domains[i]
      /\ packages' = packages
  BY <1>1, AddDomainRecords DEF ServiceInv
<1>4. \A i \in DomainIDs : i # id => domainUsers'[i] = domainUsers[i]
  BY <1>1 DEF AddDomain, SaveDomain, ServiceInv, IInv, TypeOK
<1>5. ChangeAttributed
  BY <1>3, <1>4 DEF ChangeAttributed, DomainExists, NoDomain
<1>6. Next
  BY <1>1 DEF Next
<1> QED BY <1>2, <1>5, <1>6 DEF CallKeeps, SilentCall, Appended

LEMMA CallUpdateDomainKeeps ==
    ASSUME ServiceInv, NEW c \in Calls, CallUpdateDomain(c)
    PROVE  CallKeeps
<1>1. PICK ref \in Refs, o \in DomainOptions, by \in Users :
          /\ UpdateDomain(ref, o, by)
          /\ Committed(c, "update-domain", Lookup(ref), Nil, by,
                       DomainChanges(domains[Lookup(ref)], o))
  BY DEF CallUpdateDomain
<1> DEFINE id == Lookup(ref)
           e == domains[id]
           d == UpdatedDomain(e, o)
           logged == DomainChanges(e, o)
<1>2. /\ id \in DomainIDs /\ DomainExists(id)
      /\ d \in DomainRecord
      /\ SaveDomain(id, d)
      /\ domains'[id] = d
      /\ \A i \in DomainIDs : i # id => domains'[i] = domains[i]
      /\ packages' = packages
  BY <1>1, UpdateDomainRecords DEF ServiceInv
<1>3. IsOwner(id, by)
  BY <1>1 DEF UpdateDomain
<1>4. logged \in BOOLEAN
  BY DEF DomainChanges
<1>5. Committed(c, "update-domain", id, Nil, by, logged)
  BY <1>1
<1>6. domainUsers' = [domainUsers EXCEPT ![id] = FormerOwnerAdded(RenamedTeam(@, e, d), e, d)]
  BY <1>2 DEF SaveDomain
<1>7. e \in DomainRecord /\ packages \in [PackageIDs -> PackageRecord]
  BY <1>2 DEF ServiceInv, IInv, TypeOK
<1>8. ~logged => /\ d.fqdn = e.fqdn /\ d.owner = e.owner
                 /\ d.flags \ {"CertificateIgnoreMissing"}
                        = e.flags \ {"CertificateIgnoreMissing"}
  <2> SUFFICES ASSUME ~logged
               PROVE  /\ d.fqdn = e.fqdn /\ d.owner = e.owner
                      /\ d.flags \ {"CertificateIgnoreMissing"}
                             = e.flags \ {"CertificateIgnoreMissing"}
    OBVIOUS
  <2>1. /\ o.fqdn \in {Unset, e.fqdn} /\ o.owner \in {Unset, e.owner}
        /\ d.flags \ {"CertificateIgnoreMissing"} = e.flags \ {"CertificateIgnoreMissing"}
    BY DEF DomainChanges
  <2>2. e.fqdn \in FQDNs
    BY <1>2, <1>7 DEF DomainExists, DomainRecord
  <2>3. Canonical[e.fqdn] = e.fqdn
    BY <2>2, ConstantsAssumption DEF ConstantsAssumption
  <2> HIDE DEF e
  <2> QED BY <2>1, <2>3 DEF UpdatedDomain
<1> HIDE DEF id, e, d, logged
<1>9. LogInv' /\ Appended("update-domain", id, Nil, by, logged)
  BY <1>1, <1>2, <1>4, <1>5, CommitRecorded DEF CallUpdateDomain, Actions
<1>10. \A i \in DomainIDs : i # id => domainUsers'[i] = domainUsers[i]
  BY <1>6 DEF ServiceInv, IInv, TypeOK
<1>11. ChangeAttributed
  BY <1>2, <1>3, <1>9, <1>10 DEF ChangeAttributed, Appended
<1>12. SilentCall
  <2> SUFFICES ASSUME ~logged PROVE SilentCall
    BY <1>9 DEF SilentCall, Appended
  <2>1. domainUsers'[id] = domainUsers[id]
    BY <1>2, <1>6, <1>8 DEF FormerOwnerAdded, RenamedTeam, Transferred, ServiceInv, IInv, TypeOK
  <2>2. \A pid \in PackageIDs :
            packages'[pid] = [packages[pid] EXCEPT !.path = packages'[pid].path]
    BY <1>2, <1>7 DEF PackageRecord
  <2> QED BY <1>2, <1>8, <1>10, <2>1, <2>2 DEF SilentCall, e
<1>13. Next
  BY <1>1 DEF Next
<1> QED BY <1>9, <1>11, <1>12, <1>13 DEF CallKeeps

LEMMA CallDeleteDomainKeeps ==
    ASSUME ServiceInv, NEW c \in Calls, CallDeleteDomain(c)
    PROVE  CallKeeps
<1>1. PICK ref \in Refs, by \in Users :
          DeleteDomain(ref, by) /\ Committed(c, "delete-domain", Lookup(ref), Nil, by, TRUE)
  BY DEF CallDeleteDomain
<1> DEFINE id == Lookup(ref)
<1>2. /\ id \in DomainIDs /\ DomainExists(id)
      /\ \A i \in DomainIDs : i # id => domains'[i] = domains[i]
      /\ \A pid \in PackageIDs : packages'[pid] =
             IF packages[pid].domain = id THEN NoPackage ELSE packages[pid]
  BY <1>1, DeleteDomainRecords DEF ServiceInv
<1>3. IsOwner(id, by) /\ domainUsers' = [domainUsers EXCEPT ![id] = {}]
  BY <1>1 DEF DeleteDomain, ForgetUsers
<1>4. Committed(c, "delete-domain", id, Nil, by, TRUE)
  BY <1>1
<1> HIDE DEF id
<1>5. LogInv' /\ Appended("delete-domain", id, Nil, by, TRUE)
  BY <1>1, <1>2, <1>4, CommitRecorded DEF CallDeleteDomain, Actions
<1>6. \A i \in DomainIDs : i # id => domainUsers'[i] = domainUsers[i]
  BY <1>3 DEF ServiceInv, IInv, TypeOK
<1>7. ChangeAttributed
  BY <1>2, <1>3, <1>5, <1>6 DEF ChangeAttributed, Appended, IsUser
<1>8. Next
  BY <1>1 DEF Next
<1> QED BY <1>5, <1>7, <1>8 DEF CallKeeps, SilentCall, Appended

LEMMA CallTeamKeeps ==
    ASSUME ServiceInv, NEW c \in Calls, CallAddUser(c) \/ CallRemoveUser(c)
    PROVE  CallKeeps
<1>1. PICK ref \in Refs, u \in Users, by \in Users, action \in Actions :
          /\ AddUserToDomain(ref, u, by) \/ RemoveUserFromDomain(ref, u, by)
          /\ Committed(c, action, Lookup(ref), Nil, by, TRUE)
  BY DEF CallAddUser, CallRemoveUser, Actions
<1> DEFINE id == Lookup(ref)
<1>2. id \in DomainIDs
  BY <1>1, LookupFinds DEF ServiceInv, IInv, AddUserToDomain, RemoveUserFromDomain
<1>3. /\ IsOwner(id, by)
      /\ \E team : domainUsers' = [domainUsers EXCEPT ![id] = team]
      /\ domains' = domains /\ packages' = packages
  BY <1>1 DEF AddUserToDomain, RemoveUserFromDomain, packageVars
<1>4. Committed(c, action, id, Nil, by, TRUE)
  BY <1>1
<1> HIDE DEF id
<1>5. LogInv' /\ Appended(action, id, Nil, by, TRUE)
  BY <1>1, <1>2, <1>4, CommitRecorded DEF CallAddUser, CallRemoveUser
<1>6. \A i \in DomainIDs : i # id => domainUsers'[i] = domainUsers[i]
  BY <1>3 DEF ServiceInv, IInv, TypeOK
<1>7. ChangeAttributed
  BY <1>3, <1>5, <1>6 DEF ChangeAttributed, Appended
<1>8. Next
  BY <1>1 DEF Next
<1> QED BY <1>5, <1>7, <1>8 DEF CallKeeps, SilentCall, Appended

LEMMA CallAddPackageKeeps ==
    ASSUME ServiceInv, NEW c \in Calls, CallAddPackage(c)
    PROVE  CallKeeps
<1>1. PICK pid \in PackageIDs, o \in PackageOptions, by \in Users :
          /\ AddPackage(pid, o, by)
          /\ Committed(c, "add-package", Lookup(o.domain), pid, by, TRUE)
  BY DEF CallAddPackage
<1>2. /\ domains' = domains
      /\ \A other \in PackageIDs : other # pid => packages'[other] = packages[other]
  BY <1>1, SavedPackageRecords DEF ServiceInv
<1>3. ~PackageExists(pid) /\ domainUsers' = domainUsers
  BY <1>1 DEF AddPackage, ServiceInv, IInv, NoResidue, domainVars
<1>4. Lookup(o.domain) \in DomainIDs
  <2>1. o.domain \in Refs /\ Lookup(o.domain) # Nil
    BY <1>1 DEF AddPackage, DomainResolves, PackageOptions
  <2> QED BY <2>1, LookupFinds DEF ServiceInv, IInv
<1>5. LogInv' /\ Appended("add-package", Lookup(o.domain), pid, by, TRUE)
  BY <1>1, <1>4, CommitRecorded DEF CallAddPackage, Actions
<1>6. ChangeAttributed
  BY <1>2, <1>3 DEF ChangeAttributed
<1>7. Next
  BY <1>1 DEF Next
<1> QED BY <1>5, <1>6, <1>7 DEF CallKeeps, SilentCall, Appended

LEMMA CallUpdatePackageKeeps ==
    ASSUME ServiceInv, NEW c \in Calls, CallUpdatePackage(c)
    PROVE  CallKeeps
<1>1. PICK pid \in PackageIDs, o \in PackageOptions, by \in Users :
          /\ UpdatePackage(pid, o, by)
          /\ Committed(c, "update-package", UpdatedPackage(packages[pid], o).domain,
                       pid, by, PackageChanges(packages[pid], o))
  BY DEF CallUpdatePackage
<1> DEFINE e == packages[pid]
           p == UpdatedPackage(e, o)
           logged == PackageChanges(e, o)
<1>2. /\ IsUser(e.domain, by) /\ p.domain # Nil
      /\ DomainResolves(o)
      /\ packages' = [packages EXCEPT ![pid] = p]
      /\ domains' = domains /\ domainUsers' = domainUsers
  BY <1>1 DEF UpdatePackage, SavePackage, domainVars
<1>3. e \in PackageRecord /\ p \in PackageRecord
  BY <1>2, UpdatedPackageIn DEF ServiceInv, IInv, TypeOK
<1>4. logged \in BOOLEAN
  BY DEF PackageChanges
<1>5. Committed(c, "update-package", p.domain, pid, by, logged)
  BY <1>1
<1>6. ~logged => p = [e EXCEPT !.path = p.path] /\ p.path = NormalPath(e.path)
  <2> SUFFICES ASSUME ~logged
               PROVE  p = [e EXCEPT !.path = p.path] /\ p.path = NormalPath(e.path)
    OBVIOUS
  <2>1. /\ p.domain = e.domain
        /\ o.path \in {Unset, e.path} /\ o.repo \in {Unset, e.repo}
        /\ o.disabled \in {Unset, e.disabled}
    BY DEF PackageChanges
  <2>2. /\ p.repo = e.repo /\ p.disabled = e.disabled /\ p.path = NormalPath(e.path)
    <3> HIDE DEF e
    <3> QED BY <2>1 DEF UpdatedPackage
  <2> HIDE DEF e, p
  <2> QED BY <1>3, <2>1, <2>2 DEF PackageRecord
<1> HIDE DEF e, p, logged
<1>7. p.domain \in DomainIDs
  BY <1>2, <1>3 DEF PackageRecord
<1>8. LogInv' /\ Appended("update-package", p.domain, pid, by, logged)
  BY <1>1, <1>4, <1>5, <1>7, CommitRecorded DEF CallUpdatePackage, Actions
<1>9. /\ packages \in [PackageIDs -> PackageRecord]
      /\ packages'[pid] = p
      /\ \A other \in PackageIDs : other # pid => packages'[other] = packages[other]
  BY <1>2 DEF ServiceInv, IInv, TypeOK
<1>10. ChangeAttributed
  BY <1>2, <1>8, <1>9 DEF ChangeAttributed, Appended, e
<1>11. SilentCall
  <2> SUFFICES ASSUME ~logged PROVE SilentCall
    BY <1>8 DEF SilentCall, Appended
  <2>1. \A other \in PackageIDs :
            /\ packages'[other] = [packages[other] EXCEPT !.path = packages'[other].path]
            /\ packages'[other].path \in {packages[other].path, NormalPath(packages[other].path)}
    BY <1>6, <1>9 DEF PackageRecord, e
  <2> QED BY <1>2, <2>1 DEF SilentCall
<1>12. Next
  BY <1>1 DEF Next
<1> QED BY <1>8, <1>10, <1>11, <1>12 DEF CallKeeps

LEMMA CallDeletePackageKeeps ==
    ASSUME ServiceInv, NEW c \in Calls, CallDeletePackage(c)
    PROVE  CallKeeps
<1>1. PICK pid \in PackageIDs, by \in Users :
          /\ DeletePackage(pid, by)
          /\ Committed(c, "delete-package", packages[pid].domain, pid, by, TRUE)
  BY DEF CallDeletePackage
<1>2. /\ domains' = domains
      /\ \A other \in PackageIDs :
             packages'[other] = IF other = pid THEN NoPackage ELSE packages[other]
  BY <1>1, DeletePackageRecords DEF ServiceInv
<1>3. /\ IsUser(packages[pid].domain, by) /\ domainUsers' = domainUsers
      /\ PackageExists(pid)
  BY <1>1 DEF DeletePackage, domainVars
<1>4. packages[pid].domain \in DomainIDs
  BY <1>3 DEF PackageExists, ServiceInv, IInv, TypeOK, PackageRecord
<1>5. LogInv' /\ Appended("delete-package", packages[pid].domain, pid, by, TRUE)
  BY <1>1, <1>4, CommitRecorded DEF CallDeletePackage, Actions
<1>6. ChangeAttributed
  BY <1>2, <1>3, <1>5 DEF ChangeAttributed, Appended
<1>7. Next
  BY <1>1 DEF Next
<1> QED BY <1>5, <1>6, <1>7 DEF CallKeeps, SilentCall, Appended

----------------------------------------------------------------------------
LEMMA ServiceStep ==
    ServiceInv /\ [ServiceNext]_serviceVars
        => ServiceInv' /\ [Next]_vars /\ [ChangeAttributed /\ SilentCall]_serviceVars
<1> SUFFICES ASSUME ServiceInv, [ServiceNext]_serviceVars
             PROVE  ServiceInv' /\ [Next]_vars /\ [ChangeAttributed /\ SilentCall]_serviceVars
  OBVIOUS
<1>1. ASSUME NEW c \in Calls, StoreCall(c)
      PROVE  CallKeeps
  BY <1>1, CallAddDomainKeeps, CallUpdateDomainKeeps, CallDeleteDomainKeeps, CallTeamKeeps,
     CallAddPackageKeeps, CallUpdatePackageKeeps, CallDeletePackageKeeps DEF StoreCall
<1>2. ASSUME UNCHANGED vars, Len(commits') = Len(commits)
      PROVE  ChangeAttributed /\ SilentCall
  <2>1. Len(commits) \in Nat
    BY DEF ServiceInv, LogInv, ServiceTypeOK
  <2> QED BY <1>2, <2>1 DEF ChangeAttributed, SilentCall, vars, domainVars, packageVars
<1>3. ASSUME NEW c \in Calls, ReadClock(c) \/ WriteRecord(c) \/ FailRecord(c)
      PROVE  LogInv' /\ UNCHANGED vars /\ Len(commits') = Len(commits)
  <2>1. LogInv'
    BY <1>3, ReadClockKeeps, WriteRecordKeeps, FailRecordKeeps DEF ServiceInv
  <2>2. CASE ReadClock(c)
    BY <2>1, <2>2 DEF ReadClock
  <2>3. CASE WriteRecord(c) \/ FailRecord(c)
    <3>1. /\ Ended(calls[c], "ok") \/ Ended(calls[c], "error")
          /\ UNCHANGED vars
      BY <2>3 DEF WriteRecord, FailRecord
    <3>2. calls[c] # 0
      BY <2>3 DEF WriteRecord, FailRecord
    <3> QED BY <2>1, <3>1, <3>2, CommitEnds DEF ServiceInv
  <2> QED BY <1>3, <2>2, <2>3
<1>4. ASSUME Tick
      PROVE  LogInv' /\ UNCHANGED vars /\ Len(commits') = Len(commits)
  BY <1>4, TickKeeps DEF ServiceInv, Tick
<1>5. ASSUME Crash
      PROVE  LogInv' /\ UNCHANGED vars /\ Len(commits') = Len(commits)
  <2>1. commits \in Seq(CommitRecord)
    BY DEF ServiceInv, LogInv, ServiceTypeOK
  <2>2. LogInv' /\ UNCHANGED vars
    BY <1>5, CrashKeeps DEF ServiceInv, Crash
  <2>3. commits' \in Seq(CommitRecord) /\ DOMAIN commits' = DOMAIN commits
    BY <1>5, <2>2 DEF Crash, LogInv, ServiceTypeOK
  <2> QED BY <2>1, <2>2, <2>3
<1>6. ASSUME UNCHANGED serviceVars
      PROVE  LogInv' /\ UNCHANGED vars
  BY <1>6 DEF serviceVars, logVars, ServiceInv, LogInv, ServiceTypeOK, CallsPending,
              RecordsOfReturned, AfterReturned, TimesOrdered, Returned,
              ReturnedCallsAreLogged, RecordsFaithful, RecordsInRealTimeOrder
<1>7. LogInv' /\ [Next]_vars /\ [ChangeAttributed /\ SilentCall]_serviceVars
  <2>1. CASE \E c \in Calls : StoreCall(c)
    BY <1>1, <2>1 DEF CallKeeps
  <2>2. CASE UNCHANGED serviceVars
    BY <1>6, <2>2
  <2>3. CASE \/ \E c \in Calls : ReadClock(c) \/ WriteRecord(c) \/ FailRecord(c)
             \/ Tick
             \/ Crash
    BY <1>2, <1>3, <1>4, <1>5, <2>3
  <2> QED BY <2>1, <2>2, <2>3 DEF ServiceNext
<1>8. IInv'
  BY <1>7, NextKeeps DEF ServiceInv
<1> QED BY <1>7, <1>8 DEF ServiceInv

LEMMA ServiceInvariance == ServiceSpec => []ServiceInv
<1>1. ServiceInit => ServiceInv
  BY InitKeeps, LogStarts DEF ServiceInit, ServiceInv
<1> QED
  BY <1>1, ServiceStep, PTL DEF ServiceSpec

(***************************************************************************)
(* Whatever calls overlap, fail or are cut off by a crash, the service     *)
(* runs the transactions of the store one after the other (s.DB.Update),   *)
(* so that what is proved of the store holds for it.                       *)
(***************************************************************************)
THEOREM ServiceRunsStore == ServiceSpec => Spec
<1>1. ServiceInit => Init
  BY DEF ServiceInit
<1> QED
  BY <1>1, ServiceStep, ServiceInvariance, PTL DEF ServiceSpec, Spec

(***************************************************************************)
(* A call that returned without an error is in the changelog               *)
(* (newChangelogRecord).                                                   *)
(***************************************************************************)
THEOREM CallsAreLogged == ServiceSpec => []ReturnedCallsAreLogged
<1>1. ServiceInv => ReturnedCallsAreLogged
  BY DEF ServiceInv, LogInv
<1> QED
  BY <1>1, ServiceInvariance, PTL

(***************************************************************************)
(* A record stands for one committed change, has its key to itself, and no *)
(* change has two (newChangelogRecord, changelogRecord.save).              *)
(***************************************************************************)
THEOREM RecordsAreFaithful == ServiceSpec => []RecordsFaithful
<1>1. ServiceInv => RecordsFaithful
  BY DEF ServiceInv, LogInv
<1> QED
  BY <1>1, ServiceInvariance, PTL

(***************************************************************************)
(* No effect is dated before its cause, as long as the clock is not set    *)
(* back (newChangelogRecord reads it after the commit).                    *)
(***************************************************************************)
THEOREM RecordsAreInOrder == ServiceSpec => []RecordsInRealTimeOrder
<1>1. ServiceInv => RecordsInRealTimeOrder
  BY DEF ServiceInv, LogInv
<1> QED
  BY <1>1, ServiceInvariance, PTL

(***************************************************************************)
(* Every change of a domain is committed by its owner, and every change of *)
(* a package by somebody with access to its domain (the checks of isOwner  *)
(* and isUser in service.go).                                              *)
(***************************************************************************)
THEOREM ChangesAreAttributed == ServiceSpec => ChangesAttributed
<1>1. ServiceInv /\ [ServiceNext]_serviceVars => [ChangeAttributed]_serviceVars
  BY ServiceStep
<1> QED
  BY <1>1, ServiceInvariance, PTL DEF ServiceSpec, ChangesAttributed

(***************************************************************************)
(* An update that reports no changes has made none that count              *)
(* (domainRecord.update, packageRecord.update).                            *)
(***************************************************************************)
THEOREM SilentCallsAreHarmless == ServiceSpec => SilentCallsChangeNothing
<1>1. ServiceInv /\ [ServiceNext]_serviceVars => [SilentCall]_serviceVars
  BY ServiceStep
<1> QED
  BY <1>1, ServiceInvariance, PTL DEF ServiceSpec, SilentCallsChangeNothing
=============================================================================
