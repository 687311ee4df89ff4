--------------------------- MODULE ChangelogPages ---------------------------
(***************************************************************************)
(* Reading the changelog of a domain (ChangelogForDomain of                *)
(* services/packages/bolt/service.go): records are in one BoltDB file per  *)
(* day, in a bucket per domain; a page starts at a record, or at the       *)
(* latest one, goes back in time over as many files as it takes, and says  *)
(* where the pages before and behind it start.                             *)
(*                                                                         *)
(* A record is its place in time; day m has the places of Day(m).          *)
(* A page is read at one moment.                                           *)
(***************************************************************************)
EXTENDS Integers, FiniteSets, Sequences, SequencesExt

CONSTANTS
    LastDate,
    PerDay,         \* bound: records of a day
    PageLimit       \* 20 as the web interface asks

ASSUME ChangelogPagesAssumption ==
    /\ {LastDate, PerDay, PageLimit} \subseteq Nat \ {0}

Day(m) == (m - 1) * PerDay + 1 .. m * PerDay
DayOf(r) == CHOOSE m \in 1 .. LastDate : r \in Day(m)
Blank == 0          \* no start, no previous or next page

VARIABLES
    today,
    files,          \* days with a file: timed databases
    buckets,        \* days whose file has a bucket of the domain
    records         \* the records of the domain

changelogVars == <<today, files, buckets, records>>

ChangelogInit ==
    /\ today = 1
    /\ files = {} /\ buckets = {} /\ records = {}

In(m) == records \cap Day(m)

----------------------------------------------------------------------------
\* newChangelogRecord, of this domain or of another one
RecordAdded(r) ==
    /\ r \in Day(today)
    /\ \A x \in records : x < r
    /\ files' = files \cup {today}
    /\ buckets' = buckets \cup {today}
    /\ records' = records \cup {r}
    /\ UNCHANGED today

OtherRecordAdded ==
    /\ files' = files \cup {today}
    /\ UNCHANGED <<today, buckets, records>>

\* DeleteChangelogRecord: the bucket stays when its last record goes.
DeleteChangelogRecord(r) ==
    /\ r \in records
    /\ records' = records \ {r}
    /\ UNCHANGED <<today, files, buckets>>

DayEnds ==
    /\ today < LastDate
    /\ today' = today + 1
    /\ UNCHANGED <<files, buckets, records>>

ChangelogNext ==
    \/ \E r \in Day(today) : RecordAdded(r)
    \/ OtherRecordAdded
    \/ \E r \in records : DeleteChangelogRecord(r)
    \/ DayEnds

ChangelogSpec == ChangelogInit /\ [][ChangelogNext]_changelogVars

----------------------------------------------------------------------------
(***************************************************************************)
(* ChangelogForDomain                                                      *)
(***************************************************************************)

Newest(S) == IF S = {} THEN Blank ELSE CHOOSE r \in S : \A x \in S : x <= r

\* The cursor back from the newest record of S, over at most n.
Down(S, n) ==
    [i \in 1 .. Min({Cardinality(S), n}) |-> CHOOSE r \in S : Cardinality({x \in S : x >= r}) = i]

\* The last of n steps of the cursor up through S.
Up(S, n) ==
    IF S = {} THEN Blank
    ELSE CHOOSE r \in S : Cardinality({x \in S : x <= r}) = Min({Cardinality(S), n})

\* The file of the start, or the closest earlier one; then the start is dropped.
FirstFile(start) ==
    LET m == IF start = Blank THEN today ELSE DayOf(start)
    IN  IF m \in files THEN m ELSE Newest({x \in files : x < m})

\* The records of the first file, and the next older one.
ReadFirst(m, k) ==
    LET got == Down({r \in In(m) : r <= k}, PageLimit)
    IN  [got |-> got, file |-> m, fails |-> FALSE,
         previous |-> IF got = <<>> THEN Blank ELSE Newest({r \in In(m) : r < Last(got)})]

\* While there are too few, those of an earlier file with a bucket of the domain,
\* and the next older record of the file that was read last.
ReadOn(page, m) ==
    IF m \notin buckets \/ Len(page.got) >= PageLimit THEN page
    ELSE IF In(m) = {} THEN [page EXCEPT !.fails = TRUE]
    ELSE LET got == page.got \o Down(In(m), PageLimit - Len(page.got))
         IN  [got |-> got, file |-> m, fails |-> page.fails,
              previous |-> Newest({r \in In(m) : r < Last(got)})]

\* The loop of conn.Prev(): what has been read d days back.
Collected(m, k) ==
    LET read[d \in 0 .. m - 1] ==
            IF d = 0 THEN ReadFirst(m, k) ELSE ReadOn(read[d - 1], m - d)
    IN  read[m - 1]

\* Without an older record in that file, the latest one of the earlier files.
PreviousStart(c) ==
    IF c.previous # Blank THEN c.previous
    ELSE Newest(UNION {In(x) : x \in {y \in buckets : y < c.file}})

\* Mutant: only the file of the start is looked at for newer records.
NextStartSameFile(m, start) == Up({r \in In(m) : r > start}, PageLimit)

\* PageLimit steps up from the start ...
ClimbFirst(m, start) ==
    LET above == {r \in In(m) : r > start}
    IN  [steps |-> Cardinality(above), next |-> Up(above, PageLimit)]

\* ... through later files as well.  A file whose bucket is empty blanks what was
\* found before it.
ClimbOn(climb, m) ==
    IF m \notin buckets \/ climb.steps >= PageLimit THEN climb
    ELSE [steps |-> climb.steps + Cardinality(In(m)),
          next |-> Up(In(m), PageLimit - climb.steps)]

\* The loop of conn.Next(): where the climb is d days later.
NextStart(m, start) ==
    LET climb[d \in 0 .. LastDate - m] ==
            IF d = 0 THEN ClimbFirst(m, start) ELSE ClimbOn(climb[d - 1], m + d)
    IN  IF start = Blank THEN Blank ELSE climb[LastDate - m].next

NoChangelogPage == [status |-> "not found", records |-> <<>>, previous |-> Blank, next |-> Blank]

\* A start is the id of a record or a time; a time is brought into the layout of
\* ids without their last digits, and then compared with ids for equality.
ChangelogPage(asked, isID) ==
    LET m == FirstFile(asked)
        start == IF asked # Blank /\ m = DayOf(asked) THEN asked ELSE Blank
        c == Collected(m, IF start = Blank THEN Newest(In(m)) ELSE start)
        missing == start # Blank /\ m \in buckets /\ ~(isID /\ start \in In(m))
    IN  IF m = 0 THEN NoChangelogPage
        ELSE IF missing \/ c.fails THEN [NoChangelogPage EXCEPT !.status = "error"]
        ELSE [status |-> "ok", records |-> c.got, previous |-> PreviousStart(c),
              next |-> NextStart(m, start)]

----------------------------------------------------------------------------
(***************************************************************************)
(* Properties                                                              *)
(***************************************************************************)

\* The page over one list of all records.
ReferencePage(start) ==
    LET got == Down({r \in records : r <= IF start = Blank THEN Newest(records) ELSE start},
                    PageLimit)
    IN  [status |-> "ok", records |-> got,
         previous |-> IF got = <<>> THEN Blank ELSE Newest({r \in records : r < Last(got)}),
         next |-> IF start = Blank THEN Blank
                  ELSE Up({r \in records : r > start}, PageLimit)]

(***************************************************************************)
(* A page is the page of one list of all records, wherever the days end    *)
(* and whichever days have no file or no record: reading back from the     *)
(* latest page shows every record once, and each page leads to the one it  *)
(* was reached from.  Where a day lost all its records a page may fail     *)
(* or lose its next page.                                                  *)
(***************************************************************************)
ChangelogReadsAsOneList ==
    (\A m \in buckets : In(m) # {}) =>
        /\ \A r \in records : ChangelogPage(r, TRUE) = ReferencePage(r)
        /\ files # {} => ChangelogPage(Blank, TRUE) = ReferencePage(Blank)

(***************************************************************************)
(* "if the record at the exact time does not exist find the previous"      *)
(* (service.go:882): a page that starts at a time begins with the latest   *)
(* record up to then.                                                      *)
(***************************************************************************)
StartsAtTime ==
    \A t \in UNION {Day(m) : m \in 1 .. today} :
        LET before == {r \in records : r <= t}
        IN  before # {} =>
                /\ ChangelogPage(t, FALSE).records # <<>>
                /\ Head(ChangelogPage(t, FALSE).records) = Newest(before)
=============================================================================
