---------------------------- MODULE ServerProofs ----------------------------
(***************************************************************************)
(* Theorems about the parts of the server: the handlers that change        *)
(* domains, for any number of domains, names, users and requests at the    *)
(* same time; the record of a package, for any sequence of updates; the    *)
(* pages of listings, for any number of domains and any length of a page;  *)
(* the rewriting of references, for any repository; the pages of the       *)
(* changelog, for any number of days and records and any length of a       *)
(* page.  The last is a component of the packages service, but its proof   *)
(* needs the lemmas on the order of a cursor that the pages of listings    *)
(* need.                                                                   *)
(***************************************************************************)
EXTENDS DomainHandlers, PackageForms, DomainPages, ChangelogPages, GitReferences,
        FiniteSetTheorems, SequenceTheorems, TLAPS

(***************************************************************************)
(* Handlers that change domains.                                           *)
(*                                                                         *)
(* The inductive invariant says what a request has established by the time *)
(* it writes: the name it will write was found verified, or belonged to    *)
(* the domain it referred to, and then it had been verified before.        *)
(***************************************************************************)
RowType == [fqdn : Names \cup {None}, owner : Persons \cup {None}]
RequestType == [step : {"none", "find", "verify", "write"}, user : Persons \cup {None},
                ref : DomainIds \cup Names \cup {New, None},
                fqdn : Names \cup {None}, owner : Persons \cup {None}]

HandlersTypeOK ==
    /\ rows \in [DomainIds -> RowType]
    /\ proved \subseteq Names \cup {None}
    /\ request \in [Requests -> RequestType]

Verified == Trusted \cup proved \cup {None}

WritesVerified == \A q \in Requests : request[q].step = "write" => request[q].fqdn \in Verified

HandlersInv == HandlersTypeOK /\ EveryNameVerified /\ WritesVerified

----------------------------------------------------------------------------
\* What updateDomainAPIHandler does without looking for a token writes a name that
\* needs none, or the one the domain has.
LEMMA UncheckedNames ==
    ASSUME HandlersInv, NEW ref, NEW fqdn \in Names \cup {None}, ~NeedsToken(ref, fqdn)
    PROVE  fqdn \in Verified
<1>1. CASE fqdn \in Trusted \cup {None}
  BY <1>1 DEF Verified
<1>2. CASE fqdn \notin Trusted \cup {None}
  <2>1. PICK i \in DomainIds : rows[i].fqdn = fqdn
    BY <1>2 DEF NeedsToken, Referred
  <2> QED BY <2>1 DEF HandlersInv, EveryNameVerified, Verified
<1> QED BY <1>1, <1>2

LEMMA UpdateDomainAPIStep ==
    ASSUME HandlersInv,
           NEW q \in Requests, NEW u \in Persons, NEW owner \in Persons \cup {None},
           NEW ref \in DomainIds \cup Names \cup {New}, NEW fqdn \in Names \cup {None},
           UpdateDomainAPI(q, u, ref, fqdn, owner)
    PROVE  HandlersInv'
<1> DEFINE step == IF NeedsToken(ref, fqdn) THEN "find" ELSE "write"
<1> DEFINE r == [step |-> step, user |-> u, ref |-> ref, fqdn |-> fqdn, owner |-> owner]
<1>1. request' = [request EXCEPT ![q] = r] /\ UNCHANGED <<rows, proved>>
  BY DEF UpdateDomainAPI
<1>2. r \in RequestType
  BY DEF RequestType
<1>3. step = "write" => fqdn \in Verified
  BY UncheckedNames
<1>4. r.step = step /\ r.fqdn = fqdn
  OBVIOUS
<1> HIDE DEF r, step
<1>5. HandlersTypeOK'
  BY <1>1, <1>2 DEF HandlersInv, HandlersTypeOK
<1>6. WritesVerified'
  BY <1>1, <1>3, <1>4 DEF HandlersInv, HandlersTypeOK, WritesVerified, Verified
<1>7. EveryNameVerified'
  BY <1>1 DEF HandlersInv, EveryNameVerified
<1> QED BY <1>5, <1>6, <1>7 DEF HandlersInv

LEMMA OwnerChangeAPIStep ==
    ASSUME HandlersInv,
           NEW q \in Requests, NEW u \in Persons, NEW owner \in Persons,
           NEW ref \in DomainIds \cup Names, OwnerChangeAPI(q, u, ref, owner)
    PROVE  HandlersInv'
<1> DEFINE r == [step |-> "write", user |-> u, ref |-> ref, fqdn |-> None, owner |-> owner]
<1>1. request' = [request EXCEPT ![q] = r] /\ UNCHANGED <<rows, proved>>
  BY DEF OwnerChangeAPI
<1>2. r \in RequestType /\ r.fqdn = None
  BY DEF RequestType
<1> HIDE DEF r
<1>3. HandlersTypeOK'
  BY <1>1, <1>2 DEF HandlersInv, HandlersTypeOK
<1>4. WritesVerified'
  BY <1>1, <1>2 DEF HandlersInv, HandlersTypeOK, WritesVerified, Verified
<1>5. EveryNameVerified'
  BY <1>1 DEF HandlersInv, EveryNameVerified
<1> QED BY <1>3, <1>4, <1>5 DEF HandlersInv

\* The steps of a request before it writes, or instead.
LEMMA RequestStep ==
    ASSUME HandlersInv, NEW q \in Requests, FindName(q) \/ Verify(q) \/ Refuse(q)
    PROVE  HandlersInv'
<1>1. CASE FindName(q)
  BY <1>1 DEF FindName, Steps, HandlersInv, HandlersTypeOK, RequestType,
              EveryNameVerified, WritesVerified, Verified
<1>2. CASE Verify(q)
  BY <1>2 DEF Verify, Steps, HandlersInv, HandlersTypeOK, RequestType,
              EveryNameVerified, WritesVerified, Verified
<1>3. CASE Refuse(q)
  BY <1>3 DEF Refuse, NoRequestYet, HandlersInv, HandlersTypeOK, RequestType,
              EveryNameVerified, WritesVerified, Verified
<1> QED BY <1>1, <1>2, <1>3

LEMMA WriteNewStep ==
    ASSUME HandlersInv, NEW q \in Requests, NEW i \in DomainIds, WriteNew(q, i)
    PROVE  HandlersInv'
<1>1. request[q] \in RequestType /\ request[q].fqdn \in Verified
  BY DEF WriteNew, HandlersInv, HandlersTypeOK, WritesVerified
<1>2. NoRequestYet \in RequestType /\ NoRequestYet.step # "write"
  BY DEF NoRequestYet, RequestType
<1>3. HandlersTypeOK'
  BY <1>1, <1>2 DEF WriteNew, HandlersInv, HandlersTypeOK, RequestType, RowType
<1>4. EveryNameVerified'
  BY <1>1 DEF WriteNew, HandlersInv, HandlersTypeOK, EveryNameVerified, Verified
<1>5. WritesVerified'
  BY <1>2 DEF WriteNew, HandlersInv, HandlersTypeOK, WritesVerified, Verified
<1> QED BY <1>3, <1>4, <1>5 DEF HandlersInv

LEMMA WriteChangeStep ==
    ASSUME HandlersInv, NEW q \in Requests, WriteChange(q)
    PROVE  HandlersInv'
<1> DEFINE r == request[q]
<1>1. r \in RequestType /\ r.fqdn \in Verified
  BY DEF WriteChange, HandlersInv, HandlersTypeOK, WritesVerified
<1>2. NoRequestYet \in RequestType /\ NoRequestYet.step # "write"
  BY DEF NoRequestYet, RequestType
<1>3. PICK i \in Owned(r.ref, r.user) :
          rows' = [rows EXCEPT ![i] =
                      [fqdn |-> IF r.fqdn = None THEN rows[i].fqdn ELSE r.fqdn,
                       owner |-> IF r.owner = None THEN rows[i].owner ELSE r.owner]]
  BY DEF WriteChange
<1>4. i \in DomainIds
  BY DEF Owned, Referred
<1>5. request' = [request EXCEPT ![q] = NoRequestYet] /\ UNCHANGED proved
  BY DEF WriteChange
<1> HIDE DEF r
<1>6. rows' \in [DomainIds -> RowType]
  <2>1. rows \in [DomainIds -> RowType] /\ rows[i] \in RowType
    BY <1>4 DEF HandlersInv, HandlersTypeOK
  <2> QED BY <1>1, <1>3, <1>4, <2>1 DEF RowType, RequestType
<1>7. HandlersTypeOK'
  BY <1>2, <1>5, <1>6 DEF HandlersInv, HandlersTypeOK
<1>8. EveryNameVerified'
  BY <1>1, <1>3, <1>4, <1>5 DEF HandlersInv, HandlersTypeOK, RowType, EveryNameVerified, Verified
<1>9. WritesVerified'
  BY <1>2, <1>5 DEF HandlersInv, HandlersTypeOK, WritesVerified, Verified
<1> QED BY <1>7, <1>8, <1>9 DEF HandlersInv

LEMMA DeleteDomainAPIStep ==
    ASSUME HandlersInv, NEW u \in Persons, NEW ref, DeleteDomainAPI(u, ref)
    PROVE  HandlersInv'
<1>1. PICK i \in DomainIds : rows' = [rows EXCEPT ![i] = NoRow]
  BY DEF DeleteDomainAPI, Owned, Referred
<1>2. NoRow \in RowType /\ NoRow.fqdn = None
  BY DEF NoRow, RowType
<1>3. HandlersTypeOK'
  BY <1>1, <1>2 DEF DeleteDomainAPI, HandlersInv, HandlersTypeOK
<1>4. EveryNameVerified'
  BY <1>1, <1>2 DEF DeleteDomainAPI, HandlersInv, HandlersTypeOK, EveryNameVerified
<1>5. WritesVerified'
  BY DEF DeleteDomainAPI, HandlersInv, WritesVerified, Verified
<1> QED BY <1>3, <1>4, <1>5 DEF HandlersInv

----------------------------------------------------------------------------
(***************************************************************************)
(* No request writes a name that needed a token without one having been    *)
(* found, however many requests rename, transfer, delete and add domains   *)
(* between its reading the domain and its writing.                         *)
(***************************************************************************)
THEOREM NamesAreVerified == HandlersSpec => []EveryNameVerified
<1>1. HandlersInit => HandlersInv
  BY DEF HandlersInit, NoRow, NoRequestYet, HandlersInv, HandlersTypeOK, RowType,
         RequestType, EveryNameVerified, WritesVerified, Verified
<1>2. HandlersInv /\ [HandlersNext]_handlersVars => HandlersInv'
  <2> SUFFICES ASSUME HandlersInv, [HandlersNext]_handlersVars PROVE HandlersInv'
    OBVIOUS
  <2>1. CASE \E q \in Requests, u \in Persons, owner \in Persons \cup {None},
                ref \in DomainIds \cup Names \cup {New}, fqdn \in Names \cup {None} :
                UpdateDomainAPI(q, u, ref, fqdn, owner)
    BY <2>1, UpdateDomainAPIStep
  <2>2. CASE \E q \in Requests, u \in Persons, owner \in Persons, ref \in DomainIds \cup Names :
                OwnerChangeAPI(q, u, ref, owner)
    BY <2>2, OwnerChangeAPIStep
  <2>3. CASE \E q \in Requests : FindName(q) \/ Verify(q) \/ Refuse(q)
    BY <2>3, RequestStep
  <2>4. CASE \E q \in Requests : WriteChange(q)
    BY <2>4, WriteChangeStep
  <2>5. CASE \E q \in Requests, i \in DomainIds : WriteNew(q, i)
    BY <2>5, WriteNewStep
  <2>6. CASE \E u \in Persons, ref \in DomainIds \cup Names : DeleteDomainAPI(u, ref)
    BY <2>6, DeleteDomainAPIStep
  <2>7. CASE UNCHANGED handlersVars
    BY <2>7 DEF handlersVars, HandlersInv, HandlersTypeOK, EveryNameVerified,
                WritesVerified, Verified
  <2> QED
    BY <2>1, <2>2, <2>3, <2>4, <2>5, <2>6, <2>7 DEF HandlersNext
<1>3. HandlersInv => EveryNameVerified
  BY DEF HandlersInv
<1> QED BY <1>1, <1>2, <1>3, PTL DEF HandlersSpec

----------------------------------------------------------------------------
(***************************************************************************)
(* The record of a package.                                                *)
(*                                                                         *)
(* What save asks of a record with a reference name holds of the record    *)
(* that is stored, so that the property speaks of the names alone.         *)
(***************************************************************************)
NamedIsGitByHTTP == package.refName # "" => package.vcs = "git" /\ package.root = "https"

FormsInv == NamedIsGitByHTTP /\ SentToSelfIsServed

LEMMA PackageAPIStep ==
    ASSUME FormsInv,
           NEW o \in [vcs : Systems \cup {"", Absent}, root : Schemes \cup {"", Absent},
                      refType : RefTypes \cup {"", Absent}, refName : RefNames \cup {"", Absent}],
           PackageAPI(o)
    PROVE  FormsInv'
<1>1. package' = Updated(o) /\ NamedIsGitByHTTP'
  BY DEF PackageAPI, Saved, NamedIsGitByHTTP
<1>2. /\ package'.refType = IF o.refType = Absent THEN package.refType ELSE o.refType
      /\ package'.refName = IF o.refName = Absent THEN package.refName ELSE o.refName
  BY <1>1 DEF Updated, Fields
<1>3. Given(o.refType) => Given(o.refName)
  BY DEF PackageAPI, APIAccepts
<1>4. ASSUME package'.refType # "", package'.refName = ""
      PROVE  cleared'
  <2>1. o.refType = Absent
    BY <1>2, <1>3, <1>4 DEF Given
  <2>2. CASE o.refName = Absent
    BY <1>2, <1>4, <2>1, <2>2 DEF PackageAPI, FormsInv, SentToSelfIsServed, SentToSelf, ServedBySelf
  <2>3. CASE o.refName # Absent
    BY <1>2, <1>4, <2>1, <2>3 DEF PackageAPI
  <2> QED BY <2>2, <2>3
<1> QED
  BY <1>1, <1>4 DEF FormsInv, NamedIsGitByHTTP, SentToSelfIsServed, SentToSelf, ServedBySelf

LEMMA PackageFormStep ==
    ASSUME NEW o \in [vcs : Systems \cup {""}, root : Schemes \cup {""},
                      refType : RefTypes \cup {""}, refName : RefNames \cup {""}],
           PackageForm(o)
    PROVE  FormsInv'
<1>1. package' = o /\ NamedIsGitByHTTP'
  BY DEF PackageForm, Saved, NamedIsGitByHTTP
<1>2. o.refType # "" => o.refName # ""
  BY AbsentAssumption DEF PackageForm, FormAccepts, Given
<1> QED
  BY <1>1, <1>2 DEF FormsInv, NamedIsGitByHTTP, SentToSelfIsServed, SentToSelf, ServedBySelf

(***************************************************************************)
(* Whoever is sent to this server for a package finds it served, unless    *)
(* the reference name was emptied by itself: by induction over any         *)
(* sequence of updates of the API, forms and deletions.                    *)
(***************************************************************************)
THEOREM SentAreServed == FormsSpec => []SentToSelfIsServed
<1>1. FormsInit => FormsInv
  BY DEF FormsInit, NoPackageForm, Fields, FormsInv, NamedIsGitByHTTP,
         SentToSelfIsServed, SentToSelf, ServedBySelf
<1>2. FormsInv /\ [FormsNext]_formsVars => FormsInv'
  <2> SUFFICES ASSUME FormsInv, [FormsNext]_formsVars PROVE FormsInv'
    OBVIOUS
  <2>1. CASE DeletePackageForm
    BY <2>1 DEF DeletePackageForm, NoPackageForm, Fields, FormsInv, NamedIsGitByHTTP,
                SentToSelfIsServed, SentToSelf, ServedBySelf
  <2>2. CASE UNCHANGED formsVars
    BY <2>2 DEF formsVars, FormsInv, NamedIsGitByHTTP, SentToSelfIsServed, SentToSelf,
                ServedBySelf
  <2> QED
    BY <2>1, <2>2, PackageAPIStep, PackageFormStep DEF FormsNext
<1>3. FormsInv => SentToSelfIsServed
  BY DEF FormsInv
<1> QED
  BY <1>1, <1>2, <1>3, PTL DEF FormsSpec

----------------------------------------------------------------------------
(***************************************************************************)
(* The order of a cursor.                                                  *)
(*                                                                         *)
(* A key has as many keys no later than itself as its place counts; these  *)
(* numbers grow with the keys, so that they are different, and then they   *)
(* are all the numbers up to the number of keys.                           *)
(***************************************************************************)
UpTo(keys, k) == {x \in keys : x <= k}

LEMMA MoreKeys ==
    ASSUME NEW keys, IsFiniteSet(keys), NEW T \in SUBSET keys, NEW U \in SUBSET T, U # T
    PROVE  Cardinality(U) < Cardinality(T)
<1>1. IsFiniteSet(T) /\ IsFiniteSet(U)
  BY FS_Subset
<1>2. Cardinality(T) \in Nat /\ Cardinality(U) \in Nat
  BY <1>1, FS_CardinalityType
<1>3. Cardinality(U) <= Cardinality(T) /\ Cardinality(U) # Cardinality(T)
  BY <1>1, FS_Subset
<1> QED
  BY <1>2, <1>3

LEMMA UpToGrows ==
    ASSUME NEW keys \in SUBSET Nat, IsFiniteSet(keys), NEW k \in keys, NEW l \in keys
    PROVE  /\ Cardinality(UpTo(keys, k)) \in 1 .. Cardinality(keys)
           /\ k < l <=> Cardinality(UpTo(keys, k)) < Cardinality(UpTo(keys, l))
<1>1. \A x \in keys : x \in Int
  OBVIOUS
<1>2. \A x \in keys : Cardinality(UpTo(keys, x)) \in 1 .. Cardinality(keys)
  <2> TAKE x \in keys
  <2>1. UpTo(keys, x) \in SUBSET keys /\ {} \in SUBSET UpTo(keys, x) /\ x \in UpTo(keys, x)
    BY <1>1 DEF UpTo
  <2>2. Cardinality(UpTo(keys, x)) \in Nat /\ Cardinality(keys) \in Nat
    BY <2>1, FS_Subset, FS_CardinalityType
  <2>3. 0 < Cardinality(UpTo(keys, x))
    <3>1. {} # UpTo(keys, x) /\ Cardinality({}) = 0
      BY <2>1, FS_EmptySet
    <3> QED BY <2>1, <3>1, MoreKeys
  <2>4. Cardinality(UpTo(keys, x)) <= Cardinality(keys)
    BY <2>1, FS_Subset
  <2> QED BY <2>2, <2>3, <2>4
<1>3. \A x, y \in keys : x < y => Cardinality(UpTo(keys, x)) < Cardinality(UpTo(keys, y))
  <2> SUFFICES ASSUME NEW x \in keys, NEW y \in keys, x < y
               PROVE  Cardinality(UpTo(keys, x)) < Cardinality(UpTo(keys, y))
    OBVIOUS
  <2>1. UpTo(keys, y) \subseteq keys /\ UpTo(keys, x) \subseteq UpTo(keys, y)
    <3>1. \A z \in keys : z <= x => z <= y
      BY <1>1
    <3> QED BY <3>1 DEF UpTo
  <2>2. y \in UpTo(keys, y) /\ y \notin UpTo(keys, x)
    BY <1>1 DEF UpTo
  <2> QED BY <2>1, <2>2, MoreKeys
<1>4. k = l \/ k < l \/ l < k
  BY <1>1
<1>5. Cardinality(UpTo(keys, k)) \in Int /\ Cardinality(UpTo(keys, l)) \in Int
  BY <1>2
<1> QED
  BY <1>1, <1>2, <1>3, <1>4, <1>5

\* Every place is the place of one key.
LEMMA PlacesTaken ==
    ASSUME NEW keys \in SUBSET Nat, IsFiniteSet(keys), NEW i \in 1 .. Cardinality(keys)
    PROVE  \E k \in keys : Cardinality(UpTo(keys, k)) = i
<1> DEFINE n == Cardinality(keys)
           place == [k \in keys |-> Cardinality(UpTo(keys, k))]
<1>1. n \in Nat
  BY FS_CardinalityType
<1>2. IsFiniteSet(1..n) /\ Cardinality(1..n) = n
  BY <1>1, FS_Interval
<1>3. place \in [keys -> 1..n]
  BY UpToGrows
<1>4. ASSUME NEW k \in keys, NEW l \in keys, place[k] = place[l]
      PROVE  k = l
  <2>1. Cardinality(UpTo(keys, k)) = Cardinality(UpTo(keys, l))
    BY <1>4
  <2>2. Cardinality(UpTo(keys, k)) \in Int
    BY UpToGrows
  <2>3. ~(k < l) /\ ~(l < k)
    BY <2>1, <2>2, UpToGrows
  <2>4. k \in Int /\ l \in Int
    OBVIOUS
  <2> QED BY <2>3, <2>4
<1>5. place \in Injection(keys, 1..n)
  BY <1>3, <1>4 DEF Injection, IsInjective
<1>6. place \in Surjection(keys, 1..n)
  <2> DEFINE T == 1..n
  <2>1. IsFiniteSet(T) /\ Cardinality(T) = Cardinality(keys) /\ place \in Injection(keys, T)
    BY <1>2, <1>5
  <2> HIDE DEF place, n, T
  <2>2. place \in Surjection(keys, T)
    BY <2>1, FS_Injection
  <2> QED BY <2>2 DEF T
<1> QED
  BY <1>6 DEF Surjection

\* The domains of a listing are such keys.
LEMMA KeysAreNumbers == \A k \in DomainKeys : k \in Nat /\ k >= 1 /\ k # First
  BY DomainPagesAssumption DEF DomainKeys, First

LEMMA KeysFinite ==
    ASSUME NEW keys \in SUBSET DomainKeys
    PROVE  keys \in SUBSET Nat /\ IsFiniteSet(keys) /\ Cardinality(keys) \in Nat
<1>1. IsFiniteSet(DomainKeys)
  BY DomainPagesAssumption, FS_Interval DEF DomainKeys
<1>2. IsFiniteSet(keys)
  BY <1>1, FS_Subset
<1> QED
  BY <1>2, KeysAreNumbers, FS_CardinalityType

LEMMA AscendingIs ==
    ASSUME NEW keys \in SUBSET DomainKeys
    PROVE  /\ Cardinality(keys) \in Nat
           /\ Ascending(keys) \in Seq(keys)
           /\ Len(Ascending(keys)) = Cardinality(keys)
           /\ \A i \in 1 .. Cardinality(keys) :
                  /\ Ascending(keys)[i] \in keys
                  /\ Cardinality(UpTo(keys, Ascending(keys)[i])) = i
           /\ \A k \in keys : /\ Cardinality(UpTo(keys, k)) \in 1 .. Cardinality(keys)
                              /\ Ascending(keys)[Cardinality(UpTo(keys, k))] = k
<1> DEFINE n == Cardinality(keys)
           a == Ascending(keys)
<1>1. n \in Nat
  BY KeysFinite
<1>2. a = [i \in 1..n |-> CHOOSE k \in keys : Cardinality(UpTo(keys, k)) = i]
  BY DEF Ascending, UpTo
<1>3. \A i \in 1..n : a[i] \in keys /\ Cardinality(UpTo(keys, a[i])) = i
  <2> TAKE i \in 1..n
  <2>1. a[i] = CHOOSE k \in keys : Cardinality(UpTo(keys, k)) = i
    BY <1>2
  <2> HIDE DEF a
  <2>2. \E k \in keys : Cardinality(UpTo(keys, k)) = i
    BY KeysFinite, PlacesTaken
  <2> QED BY <2>1, <2>2
<1>4. a \in [1..n -> keys]
  BY <1>2, <1>3
<1>5. a \in Seq(keys) /\ Len(a) = n
  <2> HIDE DEF a, n
  <2>1. a \in Seq(keys)
    BY <1>1, <1>4, SeqDef
  <2> QED BY <1>1, <1>4, <2>1, LenProperties
<1>6. ASSUME NEW k \in keys
      PROVE  Cardinality(UpTo(keys, k)) \in 1..n /\ a[Cardinality(UpTo(keys, k))] = k
  <2> DEFINE i == Cardinality(UpTo(keys, k))
  <2>1. i \in 1..n
    BY KeysFinite, UpToGrows
  <2>2. a[i] \in keys /\ Cardinality(UpTo(keys, a[i])) = i
    BY <1>3, <2>1
  <2>3. ~(k < a[i]) /\ ~(a[i] < k)
    <3> HIDE DEF a
    <3>1. i \in Int
      BY <2>1
    <3> QED BY <2>2, <3>1, KeysFinite, UpToGrows
  <2>4. k \in Int /\ a[i] \in Int
    <3> HIDE DEF a, i
    <3> QED BY <2>2, KeysAreNumbers
  <2> QED BY <2>1, <2>3, <2>4
<1> QED
  BY <1>1, <1>3, <1>5, <1>6

LEMMA AscendingGrows ==
    ASSUME NEW keys \in SUBSET DomainKeys,
           NEW i \in 1 .. Cardinality(keys), NEW j \in 1 .. Cardinality(keys)
    PROVE  i < j <=> Ascending(keys)[i] < Ascending(keys)[j]
<1>1. /\ Ascending(keys)[i] \in keys /\ Cardinality(UpTo(keys, Ascending(keys)[i])) = i
      /\ Ascending(keys)[j] \in keys /\ Cardinality(UpTo(keys, Ascending(keys)[j])) = j
  BY AscendingIs
<1> QED
  BY <1>1, KeysFinite, UpToGrows

(***************************************************************************)
(* A page of a listing has the keys from its start to its next, in their   *)
(* order; without a next all keys from its start.                          *)
(***************************************************************************)
InPage(s, k) == \E i \in 1 .. Len(s) : s[i] = k

LEMMA WalkedIs ==
    ASSUME NEW keys \in SUBSET DomainKeys, NEW start \in Nat, NEW limit \in Nat \ {0}
    PROVE  LET w == Walked(keys, start, limit)
           IN  /\ w.keys \in Seq(keys) /\ w.next \in keys \cup {First}
               /\ \A i \in 1 .. Len(w.keys) :
                      w.keys[i] >= start /\ (w.next # First => w.keys[i] < w.next)
               /\ \A i, j \in 1 .. Len(w.keys) : i < j => w.keys[i] < w.keys[j]
               /\ w.next # First => w.next >= start
               /\ \A k \in keys : k >= start =>
                      InPage(w.keys, k) \/ (w.next # First /\ k >= w.next)
<1> DEFINE A == {k \in keys : k >= start}
           ahead == Ascending(A)
           m == Cardinality(A)
           n == IF Len(ahead) < limit THEN Len(ahead) ELSE limit
           w == Walked(keys, start, limit)
<1>1. w = [keys |-> SubSeq(ahead, 1, n), next |-> IF Len(ahead) > n THEN ahead[n + 1] ELSE First]
  BY DEF Walked
<1>2. A \in SUBSET DomainKeys /\ A \subseteq keys /\ \A k \in keys : k >= start <=> k \in A
  OBVIOUS
<1>3. \A k \in A : k \in Nat /\ k >= start /\ k # First
  BY KeysAreNumbers
<1> HIDE DEF A
<1>4. /\ m \in Nat /\ ahead \in Seq(A) /\ Len(ahead) = m
      /\ \A i \in 1..m : ahead[i] \in A
      /\ \A k \in A : \E p \in 1..m : ahead[p] = k
  BY <1>2, AscendingIs
<1>5. \A i, j \in 1..m : i < j <=> ahead[i] < ahead[j]
  BY <1>2, AscendingGrows
<1> HIDE DEF ahead, m, w
<1>6. n \in 0..m /\ n = IF m < limit THEN m ELSE limit
  BY <1>4
<1> HIDE DEF n
<1>7. /\ w.keys \in Seq(A) /\ Len(w.keys) = n
      /\ \A i \in 1..n : w.keys[i] = ahead[i]
      /\ w.next = IF m > n THEN ahead[n + 1] ELSE First
  <2>1. \A i \in 1..n : ahead[i] \in A
    BY <1>4, <1>6
  <2>2. /\ SubSeq(ahead, 1, n) \in Seq(A)
        /\ Len(SubSeq(ahead, 1, n)) = IF 1 <= n THEN n - 1 + 1 ELSE 0
        /\ \A i \in 1 .. n - 1 + 1 : SubSeq(ahead, 1, n)[i] = ahead[1 + i - 1]
    BY <1>6, <2>1, SubSeqProperties
  <2>3. w.keys = SubSeq(ahead, 1, n) /\ w.next = IF m > n THEN ahead[n + 1] ELSE First
    BY <1>1, <1>4
  <2> QED BY <1>6, <2>2, <2>3
<1>8. w.keys \in Seq(keys)
  BY <1>2, <1>7, SeqMonotonic
<1>9. w.next \in A \cup {First} /\ (w.next # First => m > n /\ w.next = ahead[n + 1])
  BY <1>4, <1>6, <1>7
<1>10. \A i \in 1..n : w.keys[i] \in A /\ (w.next # First => w.keys[i] < w.next)
  <2> SUFFICES ASSUME NEW i \in 1..n
               PROVE  w.keys[i] \in A /\ (w.next # First => w.keys[i] < w.next)
    OBVIOUS
  <2>1. i \in 1..m /\ w.keys[i] = ahead[i] /\ ahead[i] \in A
    BY <1>4, <1>6, <1>7
  <2>2. ASSUME w.next # First PROVE w.keys[i] < w.next
    <3>1. m > n /\ w.next = ahead[n + 1]
      BY <1>9, <2>2
    <3>2. n + 1 \in 1..m /\ i < n + 1
      BY <1>4, <1>6, <3>1
    <3>3. ahead[i] < ahead[n + 1]
      BY <1>5, <2>1, <3>2
    <3> QED BY <2>1, <3>1, <3>3
  <2> QED BY <2>1, <2>2
<1>11. \A i, j \in 1..n : i < j => w.keys[i] < w.keys[j]
  <2> TAKE i, j \in 1..n
  <2>1. i \in 1..m /\ j \in 1..m
    BY <1>4, <1>6
  <2>2. w.keys[i] = ahead[i] /\ w.keys[j] = ahead[j]
    BY <1>7
  <2> QED BY <1>5, <2>1, <2>2
<1>12. ASSUME NEW k \in A
       PROVE  InPage(w.keys, k) \/ (w.next # First /\ k >= w.next)
  <2>1. PICK p \in 1..m : ahead[p] = k
    BY <1>4
  <2>2. CASE p <= n
    BY <1>6, <1>7, <2>1, <2>2 DEF InPage
  <2>3. CASE p > n
    <3>1. m > n /\ n + 1 \in 1..m /\ w.next = ahead[n + 1] /\ ahead[n + 1] \in A
      BY <1>4, <1>6, <1>7, <2>1, <2>3
    <3>2. p = n + 1 \/ n + 1 < p
      BY <1>4, <1>6, <2>1, <2>3
    <3>3. ahead[n + 1] <= k /\ ahead[n + 1] # First
      BY <1>3, <1>5, <2>1, <3>1, <3>2
    <3> QED BY <1>3, <3>1, <3>3
  <2> QED BY <1>4, <1>6, <2>1, <2>2, <2>3
<1> QED
  BY <1>2, <1>3, <1>7, <1>8, <1>9, <1>10, <1>11, <1>12 DEF w

(***************************************************************************)
(* Going back.  Of the keys before the start the page before it begins     *)
(* with the one that as many as the limit are not before.                  *)
(***************************************************************************)
LEMMA BackIs ==
    ASSUME NEW keys \in SUBSET DomainKeys, NEW start \in keys, NEW limit \in Nat \ {0},
           Cardinality({k \in keys : k < start}) >= limit
    PROVE  Walked(keys, Previous(keys, start, limit), limit).next = start
<1> DEFINE B == {k \in keys : k < start}
           m == Cardinality(B)
           p == Previous(keys, start, limit)
           between == {k \in B : k >= p}
           A == {k \in keys : k >= p}
<1>1. /\ B \in SUBSET DomainKeys /\ start \in Nat /\ start # First /\ \A k \in keys : k \in Nat
      /\ start \notin B /\ m >= limit /\ B \subseteq keys
      /\ \A k \in keys : k \in B <=> k < start
  BY KeysAreNumbers
<1>2. /\ m \in Nat /\ Ascending(B) \in Seq(B) /\ Len(Ascending(B)) = m
      /\ \A i \in 1..m : Ascending(B)[i] \in B /\ Cardinality(UpTo(B, Ascending(B)[i])) = i
  <2> HIDE DEF B
  <2> QED BY <1>1, AscendingIs
<1>3. p = Ascending(B)[m - limit + 1]
  <2>1. Ascending(B) # <<>>
    <3> HIDE DEF B
    <3> QED BY <1>1, <1>2, EmptySeq
  <2> QED BY <1>1, <1>2, <2>1 DEF Previous
<1> HIDE DEF p
<1>4. p \in B /\ Cardinality(UpTo(B, p)) = m - limit + 1 /\ p \in keys /\ p \in Nat /\ p < start
  <2>1. m - limit + 1 \in 1..m
    <3> HIDE DEF m
    <3> QED BY <1>1, <1>2
  <2> HIDE DEF B, m
  <2>2. p \in B /\ Cardinality(UpTo(B, p)) = m - limit + 1
    BY <1>2, <1>3, <2>1
  <2> QED BY <1>1, <2>2
<1>5. IsFiniteSet(B) /\ IsFiniteSet(keys) /\ IsFiniteSet(A) /\ IsFiniteSet(between)
  <2>1. /\ B \in SUBSET DomainKeys /\ keys \in SUBSET DomainKeys /\ A \in SUBSET DomainKeys
        /\ between \in SUBSET DomainKeys
    BY <1>1
  <2> HIDE DEF B, A, between
  <2> QED BY <2>1, KeysFinite
<1>6. Cardinality(between) = limit
  <2>1. between = (B \ UpTo(B, p)) \cup {p} /\ p \notin B \ UpTo(B, p)
    <3>1. \A k \in B : k \in Nat /\ (k >= p <=> ~(k <= p) \/ k = p)
      BY <1>1, <1>4
    <3> HIDE DEF B
    <3> QED BY <1>4, <3>1 DEF UpTo
  <2>2. UpTo(B, p) \in SUBSET B /\ B \cap UpTo(B, p) = UpTo(B, p)
    BY DEF UpTo
  <2> HIDE DEF B, between
  <2>3. /\ IsFiniteSet(B \ UpTo(B, p))
        /\ Cardinality(B \ UpTo(B, p)) = m - (m - limit + 1)
    <3>1. IsFiniteSet(UpTo(B, p))
      BY <1>5, <2>2, FS_Subset
    <3>2. /\ IsFiniteSet(B \ UpTo(B, p))
          /\ Cardinality(B \ UpTo(B, p)) = Cardinality(B) - Cardinality(B \cap UpTo(B, p))
      BY <1>5, <3>1, FS_Difference
    <3> QED BY <1>4, <2>2, <3>2
  <2>4. Cardinality((B \ UpTo(B, p)) \cup {p}) = Cardinality(B \ UpTo(B, p)) + 1
    BY <2>1, <2>3, FS_AddElement
  <2> QED BY <1>2, <2>1, <2>3, <2>4
<1>7. Cardinality(UpTo(A, start)) = limit + 1
  <2>1. UpTo(A, start) = between \cup {start} /\ start \notin between
    <3>1. \A k \in keys : k <= start <=> k \in B \/ k = start
      BY <1>1
    <3>2. start >= p /\ B \subseteq keys /\ start \notin B
      BY <1>1, <1>4
    <3> HIDE DEF B
    <3>3. \A k : k \in UpTo(A, start) <=> k \in keys /\ k >= p /\ k <= start
      BY DEF UpTo
    <3> QED BY <3>1, <3>2, <3>3
  <2> HIDE DEF between, A
  <2> QED BY <1>5, <1>6, <2>1, FS_AddElement
<1>8. start \in A /\ A \in SUBSET DomainKeys
  <2>1. start >= p
    BY <1>1, <1>4
  <2> QED BY <2>1
<1>9. /\ Cardinality(A) \in Nat /\ limit + 1 \in 1 .. Cardinality(A)
      /\ Len(Ascending(A)) = Cardinality(A) /\ Ascending(A)[limit + 1] = start
  <2> HIDE DEF A
  <2> QED BY <1>7, <1>8, AscendingIs
<1>10. limit + 1 > limit /\ Cardinality(A) > limit /\ ~(Cardinality(A) < limit)
  BY <1>9
<1>11. Walked(keys, p, limit).next = Ascending(A)[limit + 1]
  <2> DEFINE ahead == Ascending(A)
             n == IF Len(ahead) < limit THEN Len(ahead) ELSE limit
  <2>1. n = limit /\ Len(ahead) > n
    BY <1>9, <1>10
  <2>2. Walked(keys, p, limit) =
            [keys |-> SubSeq(ahead, 1, n), next |-> IF Len(ahead) > n THEN ahead[n + 1] ELSE First]
    BY DEF Walked
  <2> HIDE DEF ahead, n
  <2>3. Walked(keys, p, limit).next = ahead[limit + 1]
    BY <2>1, <2>2
  <2> QED BY <2>3 DEF ahead
<1> QED
  BY <1>9, <1>11 DEF p

----------------------------------------------------------------------------
(***************************************************************************)
(* Pages about a domain.                                                   *)
(*                                                                         *)
(* The inductive invariant says how far a walk has come: it has read       *)
(* entries before its token only, each once; an entry that led to the      *)
(* domain all the time was read, or is still ahead; and if the walk cannot *)
(* go on from here, then the history says so.                              *)
(***************************************************************************)
PageType == [kind : {"none", "members", "owners", "api"}, domain : Domains \cup {NoEntry},
             owner : BOOLEAN, token : DomainKeys \cup {First}, entries : Seq(DomainKeys),
             authorized : BOOLEAN, step : {"none", "walk", "shown", "refused"}]

PagesTypeOK ==
    /\ listing \in [DomainKeys -> Domains \cup {NoEntry}]
    /\ gone \in SUBSET Domains
    /\ page \in PageType
    /\ stayed \in SUBSET DomainKeys
    /\ was \in BOOLEAN
    /\ disturbed \in BOOLEAN

EachOnce(s) == \A i, j \in 1 .. Len(s) : i < j => s[i] < s[j]

ListedBefore(p) ==
    /\ EachOnce(p.entries)
    /\ p.step = "walk" => \A i \in 1 .. Len(p.entries) : p.entries[i] < p.token

HistoryKept ==
    /\ \A k \in stayed : listing[k] = page.domain
    /\ page # NoPage /\ LedTo(page.domain) # {} => was
    /\ page.step = "walk" /\ Obstacle(page.token) => disturbed

FoundIfStayed(p) ==
    /\ p.authorized => was
    /\ p.step = "walk" => \A k \in stayed : p.authorized \/ k >= p.token

AnswersRight(p) ==
    /\ p.step = "none" <=> p = NoPage
    /\ p.step # "none" => p.kind # "none" /\ p.domain \in Domains
    /\ p.kind \in {"members", "api"} =>
           /\ p.step = "refused" => stayed = {} \/ disturbed
           /\ p.step = "shown" => was

PagesInv ==
    /\ PagesTypeOK
    /\ HistoryKept
    /\ ListedBefore(page)
    /\ FoundIfStayed(page)
    /\ AnswersRight(page)

LEMMA NoPageIs ==
    /\ NoPage \in PageType /\ NoPage.step = "none" /\ NoPage.kind = "none"
    /\ NoPage.entries = <<>> /\ NoPage.domain = NoEntry /\ NoPage.token = First
    /\ NoPage.authorized = FALSE /\ Len(NoPage.entries) = 0
<1> DEFINE empty == <<>>
<1>1. empty \in Seq(DomainKeys) /\ Len(empty) = 0
  BY EmptySeq
<1>2. NoPage = [kind |-> "none", domain |-> NoEntry, owner |-> FALSE, token |-> First,
                entries |-> empty, authorized |-> FALSE, step |-> "none"]
  BY DEF NoPage
<1> HIDE DEF empty
<1>3. [kind |-> "none", domain |-> NoEntry, owner |-> FALSE, token |-> First,
       entries |-> empty, authorized |-> FALSE, step |-> "none"] \in PageType
  BY <1>1 DEF PageType
<1>4. /\ NoPage.step = "none" /\ NoPage.kind = "none" /\ NoPage.entries = empty
      /\ NoPage.domain = NoEntry /\ NoPage.token = First /\ NoPage.authorized = FALSE
  BY <1>2
<1> QED
  BY <1>1, <1>2, <1>3, <1>4 DEF empty

LEMMA PagesInitially == PagesInit => PagesInv
<1> SUFFICES ASSUME PagesInit PROVE PagesInv
  OBVIOUS
<1>1. /\ page = NoPage /\ stayed = {} /\ was = FALSE /\ disturbed = FALSE /\ gone = {}
      /\ listing \in [DomainKeys -> Domains \cup {NoEntry}]
  BY DEF PagesInit
<1>2. \A i \in 1 .. Len(NoPage.entries) : FALSE
  BY NoPageIs
<1> QED
  BY <1>1, <1>2, NoPageIs
  DEF PagesInv, PagesTypeOK, HistoryKept, ListedBefore, EachOnce, FoundIfStayed, AnswersRight

LEMMA AskStep ==
    ASSUME PagesInv, NEW kind \in {"members", "owners", "api"}, NEW d \in Domains,
           NEW owner \in BOOLEAN, Ask(kind, d, owner)
    PROVE  PagesInv'
<1> DEFINE p == [NoPage EXCEPT !.kind = kind, !.domain = d, !.step = "walk", !.owner = owner]
<1>1. /\ page' = p /\ stayed' = LedTo(d) /\ was' = (LedTo(d) # {})
      /\ disturbed' = Obstacle(First) /\ listing' = listing /\ gone' = gone
  BY DEF Ask
<1>2. /\ p \in PageType /\ p.kind = kind /\ p.domain = d /\ p.step = "walk"
      /\ p.token = First /\ p.authorized = FALSE /\ Len(p.entries) = 0
  <2>1. <<>> \in Seq(DomainKeys) /\ Len(<<>>) = 0
    BY EmptySeq
  <2> QED BY <2>1 DEF NoPage, PageType, First
<1> HIDE DEF p
<1>3. p # NoPage /\ \A i \in 1 .. Len(p.entries) : FALSE
  BY <1>2, NoPageIs
<1>4. LedTo(d)' = LedTo(d) /\ Obstacle(First)' = Obstacle(First)
  BY <1>1 DEF LedTo, Obstacle, ListingFails, Entries
<1>5. \A k \in LedTo(d) : k \in DomainKeys /\ listing[k] = d /\ k >= First
  BY KeysAreNumbers DEF LedTo, First
<1>6. PagesTypeOK'
  <2>1. LedTo(d) \in SUBSET DomainKeys /\ Obstacle(First) \in BOOLEAN
    BY DEF LedTo, Obstacle, ListingFails
  <2> QED BY <1>1, <1>2, <2>1 DEF PagesInv, PagesTypeOK
<1>7. HistoryKept'
  <2>1. page'.domain = d /\ page'.token = First
    BY <1>1, <1>2
  <2>2. LedTo(page.domain)' = LedTo(d) /\ Obstacle(page.token)' = Obstacle(First)
    BY <1>1, <2>1 DEF LedTo, Obstacle, ListingFails, Entries
  <2> QED BY <1>1, <1>5, <2>1, <2>2 DEF HistoryKept
<1> QED
  BY <1>1, <1>2, <1>3, <1>5, <1>6, <1>7
  DEF PagesInv, ListedBefore, EachOnce, FoundIfStayed, AnswersRight

(***************************************************************************)
(* Whatever others do to the bucket, the history takes note of it.         *)
(***************************************************************************)
LEMMA MeanwhileStep ==
    ASSUME PagesInv, Meanwhile,
           listing' \in [DomainKeys -> Domains \cup {NoEntry}], gone' \in SUBSET Domains
    PROVE  PagesInv'
<1>1. /\ page' = page /\ stayed' \subseteq stayed /\ (was => was') /\ (disturbed => disturbed')
      /\ \A k \in stayed' : listing'[k] = page.domain
      /\ (page # NoPage /\ LedTo(page.domain)' # {} => was')
      /\ (page # NoPage /\ Obstacle(page.token)' => disturbed')
  BY DEF Meanwhile
<1>2. was' \in BOOLEAN /\ disturbed' \in BOOLEAN
  BY DEF Meanwhile, PagesInv, PagesTypeOK
<1>3. PagesTypeOK'
  BY <1>1, <1>2 DEF PagesInv, PagesTypeOK
<1>4. HistoryKept'
  BY <1>1, NoPageIs DEF HistoryKept
<1> QED
  BY <1>1, <1>3, <1>4 DEF PagesInv, ListedBefore, FoundIfStayed, AnswersRight

LEMMA OthersStep ==
    ASSUME PagesInv, NEW d \in Domains, NEW k \in DomainKeys, NEW to \in DomainKeys,
           UserGranted(k, d) \/ UserRevoked(k) \/ DomainRenamed(d, k, to) \/ DomainDeleted(d, k)
    PROVE  PagesInv'
<1>1. listing \in [DomainKeys -> Domains \cup {NoEntry}] /\ gone \in SUBSET Domains
  BY DEF PagesInv, PagesTypeOK
<1>2. /\ Meanwhile
      /\ listing' \in [DomainKeys -> Domains \cup {NoEntry}] /\ gone' \in SUBSET Domains
  BY <1>1 DEF UserGranted, UserRevoked, DomainRenamed, DomainDeleted
<1> QED
  BY <1>2, MeanwhileStep

LEMMA WalkOnStep ==
    ASSUME PagesInv, WalkOn
    PROVE  PagesInv'
<1> DEFINE w == Walked(Entries, page.token, PageSize)
           found == \E i \in DOMAIN w.keys : listing[w.keys[i]] = page.domain
           p == IF WalkStops THEN [page EXCEPT !.token = First]
                ELSE [page EXCEPT !.entries = @ \o w.keys, !.token = w.next,
                                  !.authorized = @ \/ found]
           over == p.token = First \/ (p.kind = "api" /\ p.authorized)
           q == IF over THEN [p EXCEPT !.step = Answer(p)] ELSE p
<1>1. /\ page.step = "walk" /\ page' = q /\ listing' = listing /\ gone' = gone
      /\ stayed' = stayed /\ was' = was /\ disturbed' = disturbed
  BY DEF WalkOn
<1>2. /\ page \in PageType /\ Entries \in SUBSET DomainKeys /\ PageSize \in Nat \ {0}
      /\ page.domain \in Domains /\ page.token \in Nat /\ page.kind # "none"
      /\ page.entries \in Seq(DomainKeys) /\ page # NoPage
      /\ page.token \in DomainKeys \cup {First}
      /\ stayed \in SUBSET DomainKeys /\ was \in BOOLEAN /\ disturbed \in BOOLEAN
  <2>1. page.step # "none"
    BY <1>1
  <2> QED BY <2>1, KeysAreNumbers, DomainPagesAssumption
          DEF PagesInv, PagesTypeOK, PageType, AnswersRight, First, Entries
<1>3. /\ w.keys \in Seq(Entries) /\ w.next \in Entries \cup {First}
      /\ \A i \in 1 .. Len(w.keys) :
             w.keys[i] >= page.token /\ (w.next # First => w.keys[i] < w.next)
      /\ \A i, j \in 1 .. Len(w.keys) : i < j => w.keys[i] < w.keys[j]
      /\ w.next # First => w.next >= page.token
      /\ \A k \in Entries : k >= page.token =>
             InPage(w.keys, k) \/ (w.next # First /\ k >= w.next)
  BY <1>2, WalkedIs
<1>4. DOMAIN w.keys = 1 .. Len(w.keys) /\ \A i \in DOMAIN w.keys : w.keys[i] \in Entries
  BY <1>3, LenProperties, ElementOfSeq
\* An entry of the page leads to the domain only if one does; one that stayed does.
<1>5. found => was
  BY <1>2, <1>4 DEF PagesInv, HistoryKept, LedTo, Entries
<1>6. ASSUME NEW k \in stayed
      PROVE  k \in Entries /\ listing[k] = page.domain /\ (page.authorized \/ k >= page.token)
  BY <1>1, <1>2, DomainPagesAssumption DEF PagesInv, HistoryKept, FoundIfStayed, Entries
<1>7. ASSUME NEW k \in stayed, InPage(w.keys, k)
      PROVE  found
  BY <1>4, <1>6, <1>7 DEF InPage
\* What ends a walk is an obstacle.
<1>8. WalkStops => disturbed
  <2>1. ASSUME NEW i \in DOMAIN w.keys, listing[w.keys[i]] \in gone
        PROVE  Obstacle(page.token)
    <3>1. w.keys[i] \in DomainKeys /\ w.keys[i] >= page.token
      BY <1>2, <1>3, <1>4
    <3> QED BY <2>1, <3>1 DEF Obstacle
  <2>2. WalkStops => Obstacle(page.token)
    BY <2>1 DEF WalkStops, PageFails, Obstacle
  <2> QED BY <1>1, <2>2 DEF PagesInv, HistoryKept
<1>9. w.next # First /\ Obstacle(w.next) => disturbed
  <2>1. SUFFICES ASSUME w.next # First, Obstacle(w.next) PROVE Obstacle(page.token)
    BY <1>1 DEF PagesInv, HistoryKept
  <2>2. PICK k \in DomainKeys : k >= w.next /\ listing[k] \in gone
    BY <1>3, <2>1 DEF Obstacle, ListingFails
  <2>3. k \in Nat /\ w.next \in Nat /\ w.next >= page.token
    BY <1>2, <1>3, <2>1, KeysAreNumbers
  <2>4. k >= page.token
    BY <1>2, <2>2, <2>3
  <2> QED BY <2>2, <2>4 DEF Obstacle
<1> HIDE DEF w, found
<1>10. /\ p \in PageType /\ p.kind = page.kind /\ p.domain = page.domain /\ p.step = "walk"
       /\ EachOnce(p.entries)
       /\ p.token # First => \A i \in 1 .. Len(p.entries) : p.entries[i] < p.token
       /\ p.authorized => was
       /\ p.token # First => \A k \in stayed : p.authorized \/ k >= p.token
       /\ p.token # First /\ Obstacle(p.token) => disturbed
       /\ p.token = First => p.authorized \/ stayed = {} \/ disturbed
  \* The walk is broken off: what is listed stays as it is.
  <2>1. CASE WalkStops
    <3>1. /\ p \in PageType /\ p.token = First /\ p.kind = page.kind
          /\ p.domain = page.domain /\ p.entries = page.entries /\ p.step = "walk"
          /\ p.authorized = page.authorized
      BY <1>1, <1>2, <2>1 DEF PageType
    <3>2. EachOnce(page.entries) /\ (page.authorized => was)
      BY DEF PagesInv, ListedBefore, FoundIfStayed
    <3> HIDE DEF p
    <3> QED BY <1>8, <2>1, <3>1, <3>2
  \* One more page behind what is listed.
  <2>2. CASE ~WalkStops
    <3> DEFINE old == page.entries
               new == w.keys
               authorized == page.authorized \/ found
    <3>1. p = [page EXCEPT !.entries = old \o new, !.token = w.next, !.authorized = authorized]
      BY <2>2
    <3>2. /\ old \in Seq(DomainKeys) /\ new \in Seq(DomainKeys)
          /\ old \o new \in Seq(DomainKeys) /\ w.next \in DomainKeys \cup {First}
      BY <1>2, <1>3, SeqMonotonic, ConcatProperties
    <3>3. /\ p \in PageType /\ p.kind = page.kind /\ p.domain = page.domain /\ p.step = "walk"
          /\ p.entries = old \o new /\ p.token = w.next /\ p.authorized = authorized
      <4>1. authorized \in BOOLEAN
        BY <1>2 DEF PageType, found
      <4> HIDE DEF p, old, new, authorized
      <4> QED BY <1>1, <1>2, <3>1, <3>2, <4>1 DEF PageType
    <3>4. /\ Len(old) \in Nat /\ Len(new) \in Nat /\ Len(old \o new) = Len(old) + Len(new)
          /\ \A i \in 1 .. Len(old) + Len(new) :
                 (old \o new)[i] = IF i <= Len(old) THEN old[i] ELSE new[i - Len(old)]
      BY <3>2, LenProperties, ConcatProperties
    <3>5. /\ \A i \in 1 .. Len(old) : old[i] \in Nat
          /\ \A i \in 1 .. Len(new) : new[i] \in Nat
      BY <1>2, <1>3, <3>2, ElementOfSeq, KeysAreNumbers
    <3>6. /\ EachOnce(old) /\ \A i \in 1 .. Len(old) : old[i] < page.token
      BY <1>1 DEF PagesInv, ListedBefore
    <3> HIDE DEF p, old, new
    <3>7. EachOnce(old \o new)
      <4> SUFFICES ASSUME NEW i \in 1 .. Len(old) + Len(new), NEW j \in 1 .. Len(old) + Len(new),
                          i < j
                   PROVE  (old \o new)[i] < (old \o new)[j]
        BY <3>4 DEF EachOnce
      <4>1. CASE j <= Len(old)
        BY <3>4, <3>6, <4>1 DEF EachOnce
      <4>2. CASE i <= Len(old) /\ j > Len(old)
        <5>1. old[i] < page.token /\ new[j - Len(old)] >= page.token
          BY <1>3, <3>4, <3>6, <4>2 DEF new
        <5>2. old[i] \in Nat /\ new[j - Len(old)] \in Nat
          BY <3>4, <3>5, <4>2
        <5> QED BY <1>2, <3>4, <4>2, <5>1, <5>2
      <4>3. CASE i > Len(old)
        <5>1. i - Len(old) \in 1 .. Len(new) /\ j - Len(old) \in 1 .. Len(new)
              /\ i - Len(old) < j - Len(old)
          BY <3>4, <4>3
        <5>2. new[i - Len(old)] < new[j - Len(old)]
          BY <1>3, <5>1 DEF new
        <5> QED BY <3>4, <4>3, <5>2
      <4> QED BY <3>4, <4>1, <4>2, <4>3
    <3>8. w.next # First => \A i \in 1 .. Len(old \o new) : (old \o new)[i] < w.next
      <4> SUFFICES ASSUME w.next # First, NEW i \in 1 .. Len(old) + Len(new)
                   PROVE  (old \o new)[i] < w.next
        BY <3>4
      <4>1. CASE i <= Len(old)
        <5>1. old[i] \in Nat /\ old[i] < page.token /\ w.next >= page.token /\ w.next \in Nat
          BY <1>3, <3>2, <3>4, <3>5, <3>6, <4>1, KeysAreNumbers
        <5> QED BY <1>2, <3>4, <4>1, <5>1
      <4>2. CASE i > Len(old)
        <5>1. i - Len(old) \in 1 .. Len(new)
          BY <3>4, <4>2
        <5> QED BY <1>3, <3>4, <4>2, <5>1 DEF new
      <4> QED BY <3>4, <4>1, <4>2
    <3>9. authorized => was
      BY <1>5 DEF PagesInv, FoundIfStayed
    <3>10. \A k \in stayed : authorized \/ (w.next # First /\ k >= w.next)
      BY <1>3, <1>6, <1>7
    <3> QED BY <1>9, <3>3, <3>7, <3>8, <3>9, <3>10
  <2> QED BY <2>1, <2>2
<1> HIDE DEF p
<1>11. PagesTypeOK' /\ ListedBefore(page') /\ FoundIfStayed(page)' /\ AnswersRight(page)'
  \* The last page: the decision.
  <2>1. CASE over
    <3>1. Answer(p) \in {"shown", "refused"}
      BY DEF Answer
    <3>2. /\ page' \in PageType /\ page'.kind = p.kind /\ page'.domain = p.domain
          /\ page'.step = Answer(p) /\ page'.entries = p.entries
          /\ page'.authorized = p.authorized
      BY <1>1, <1>10, <2>1, <3>1 DEF PageType
    <3>3. page'.step # "none" /\ page' # NoPage
      BY <3>1, <3>2, NoPageIs
    <3>4. ASSUME p.kind \in {"members", "api"}
          PROVE  /\ Answer(p) = "refused" => stayed = {} \/ disturbed
                 /\ Answer(p) = "shown" => was
      <4>1. Answer(p) = IF p.authorized THEN "shown" ELSE "refused"
        BY <3>4 DEF Answer
      <4> QED BY <1>10, <2>1, <4>1
    <3> QED
      BY <1>1, <1>2, <1>10, <3>1, <3>2, <3>3, <3>4
      DEF PagesInv, PagesTypeOK, ListedBefore, FoundIfStayed, AnswersRight
  <2>2. CASE ~over
    <3>1. page' = p /\ p.token # First
      BY <1>1, <2>2
    <3>2. p # NoPage
      BY <1>10, NoPageIs
    <3> QED
      BY <1>1, <1>2, <1>10, <3>1, <3>2
      DEF PagesInv, PagesTypeOK, ListedBefore, FoundIfStayed, AnswersRight
  <2> QED BY <2>1, <2>2
<1>12. HistoryKept'
  <2>1. page'.domain = page.domain
    BY <1>1, <1>10 DEF PageType
  <2>2. LedTo(page.domain)' = LedTo(page.domain) /\ Obstacle(page.token)' = Obstacle(page'.token)
    BY <1>1, <2>1 DEF LedTo, Obstacle, ListingFails, Entries
  <2>3. page'.step = "walk" => page' = p /\ p.token # First
    <3>1. CASE over
      <4>1. page'.step = Answer(p)
        BY <1>1, <1>10, <3>1 DEF PageType
      <4> QED BY <4>1 DEF Answer
    <3>2. CASE ~over
      BY <1>1, <3>2
    <3> QED BY <3>1, <3>2
  <2> QED BY <1>1, <1>2, <1>10, <2>1, <2>2, <2>3 DEF PagesInv, HistoryKept
<1> QED
  BY <1>11, <1>12 DEF PagesInv

LEMMA PageAskedStep ==
    ASSUME PagesInv, NEW d \in Domains,
           \/ DomainPackages(d) \/ DomainChangelog(d) \/ DomainTeam(d)
           \/ DomainSettings(d) \/ DomainUserGrant(d) \/ DomainUserRevoke(d)
           \/ DomainOwnerChange(d) \/ DomainPackageEdit(d)
           \/ PackageOfAPI(d) \/ DomainPackagesOfAPI(d)
    PROVE  PagesInv'
<1>1. \E kind \in {"members", "owners", "api"}, owner \in BOOLEAN : Ask(kind, d, owner)
  BY DEF DomainPackages, DomainChangelog, DomainTeam, DomainSettings,
         DomainUserGrant, DomainUserRevoke, DomainOwnerChange, DomainPackageEdit,
         PackageOfAPI, DomainPackagesOfAPI
<1> QED
  BY <1>1, AskStep

\* What the invariant says of a page is the property, and going back does not
\* depend on the page at all.
LEMMA PagesFollow == PagesInv => PagesExact
<1> SUFFICES ASSUME PagesInv PROVE PagesForMembers /\ BackAndForth
  BY DEF PagesExact
<1>1. PagesForMembers
  <2>1. page.entries \in Seq(DomainKeys)
    BY DEF PagesInv, PagesTypeOK, PageType
  <2>2. /\ Len(page.entries) \in Nat /\ DOMAIN page.entries = 1 .. Len(page.entries)
        /\ \A i \in 1 .. Len(page.entries) : page.entries[i] \in Nat
    BY <2>1, LenProperties, ElementOfSeq, KeysAreNumbers
  <2>3. ASSUME NEW i \in DOMAIN page.entries, NEW j \in DOMAIN page.entries,
               page.entries[i] = page.entries[j]
        PROVE  i = j
    <3>1. ~(i < j) /\ ~(j < i)
      BY <2>2, <2>3 DEF PagesInv, ListedBefore, EachOnce
    <3> QED BY <2>2, <3>1
  <2> QED BY <2>3 DEF PagesForMembers, PagesInv, AnswersRight
<1>2. BackAndForth
  <2>1. Entries \in SUBSET DomainKeys /\ PageSize \in Nat \ {0}
    BY DomainPagesAssumption DEF Entries
  <2> QED BY <2>1, BackIs DEF BackAndForth
<1> QED
  BY <1>1, <1>2

(***************************************************************************)
(* A user with an entry that leads to a domain all the time gets the pages *)
(* about it, unless the walk meets an entry that it cannot get over;       *)
(* whoever has none at any time does not, and the pages of a listing are   *)
(* one list forward and backward: for any number of names and domains, any *)
(* length of a page, and grants, revocations, renames and deletions at any *)
(* time of the walk.                                                       *)
(***************************************************************************)
THEOREM PagesAreExact == PagesSpec => []PagesExact
<1>1. PagesInv /\ [PagesNext]_pagesVars => PagesInv'
  <2> SUFFICES ASSUME PagesInv, [PagesNext]_pagesVars PROVE PagesInv'
    OBVIOUS
  <2>1. CASE UNCHANGED pagesVars
    BY <2>1 DEF pagesVars, PagesInv, PagesTypeOK, HistoryKept, ListedBefore, FoundIfStayed,
                AnswersRight, LedTo, Obstacle, ListingFails, Entries
  <2>2. CASE \E d \in Domains, k \in DomainKeys :
                 \/ UserGranted(k, d) \/ DomainDeleted(d, k)
                 \/ \E to \in DomainKeys : DomainRenamed(d, k, to)
    BY <2>2, OthersStep
  <2>3. CASE \E k \in DomainKeys : UserRevoked(k)
    <3>1. PICK k \in DomainKeys : UserRevoked(k)
      BY <2>3
    <3>2. listing \in [DomainKeys -> Domains \cup {NoEntry}] /\ gone \in SUBSET Domains
      BY DEF PagesInv, PagesTypeOK
    <3>3. Meanwhile /\ listing' \in [DomainKeys -> Domains \cup {NoEntry}] /\ gone' = gone
      BY <3>1, <3>2 DEF UserRevoked
    <3> QED BY <3>2, <3>3, MeanwhileStep
  <2> QED
    BY <2>1, <2>2, <2>3, PageAskedStep, WalkOnStep DEF PagesNext
<1> QED
  BY <1>1, PagesInitially, PagesFollow, PTL DEF PagesSpec


----------------------------------------------------------------------------
(***************************************************************************)
(* References rewritten for "go get".                                      *)
(***************************************************************************)
Lines == [ref : References, hash : Hashes]

\* The line of a reference among the first n, if there is one.
Selected(s, n, ref) == SelectInSeq(SubSeq(s, 1, n), LAMBDA l : l.ref = ref)

LEMMA SelectedLine ==
    ASSUME NEW s \in Seq(Lines), NEW n \in 0 .. Len(s), NEW ref,
           \A i, j \in 1 .. Len(s) : s[i].ref = s[j].ref => i = j
    PROVE  LET found == Selected(s, n, ref)
           IN  \/ found = 0 /\ \A i \in 1..n : s[i].ref # ref
               \/ found \in 1..n /\ s[found].ref = ref
<1> DEFINE part == SubSeq(s, 1, n)
           I == {i \in 1 .. Len(part) : part[i].ref = ref}
           found == Selected(s, n, ref)
<1>1. Len(s) \in Nat /\ n \in Nat /\ \A i \in 1..n : i \in 1 .. Len(s) /\ s[i] \in Lines
  BY LenProperties, ElementOfSeq
<1>2. Len(part) = n /\ \A i \in 1..n : part[i] = s[i]
  <2>1. /\ Len(part) = IF 1 <= n THEN n - 1 + 1 ELSE 0
        /\ \A i \in 1 .. n - 1 + 1 : part[i] = s[1 + i - 1]
    BY <1>1, SubSeqProperties
  <2> QED BY <1>1, <2>1
<1>3. found = IF I # {} THEN CHOOSE x \in I : \A y \in I : x <= y ELSE 0
  BY DEF Selected, SelectInSeq, Min
<1>4. I = {i \in 1..n : s[i].ref = ref}
  BY <1>2
<1> HIDE DEF part, found, I
<1>5. \A x, y \in I : x = y
  BY <1>1, <1>4
<1>6. I # {} => found \in I
  <2> SUFFICES ASSUME I # {} PROVE found \in I
    OBVIOUS
  <2>1. \A x, y \in I : x <= y
    BY <1>1, <1>4, <1>5
  <2> QED BY <1>3, <2>1
<1> QED
  BY <1>3, <1>4, <1>6 DEF found, part

(***************************************************************************)
(* What the proof needs of the order of git: no reference twice, HEAD      *)
(* before all others and the branch master before the tags, so that the    *)
(* scan, wherever it ends, has passed both.                                *)
(***************************************************************************)
UpstreamInOrder ==
    /\ upstream \in Seq(Lines)
    /\ \A i, j \in 1 .. Len(upstream) : i < j =>
           /\ upstream[i].ref # upstream[j].ref
           /\ Rank[upstream[i].ref.kind] <= Rank[upstream[j].ref.kind]

Peeled == [kind |-> "peeled", name |-> chosen.name]
Plain == [kind |-> chosen.type, name |-> chosen.name]

\* A line with the reference is found, or there is none.
FoundAt(ref, i) ==
    \/ i = 0 /\ \A j \in 1 .. Len(upstream) : upstream[j].ref # ref
    \/ i \in 1 .. Len(upstream) /\ upstream[i].ref = ref

LEMMA NoLineTwice ==
    ASSUME UpstreamInOrder
    PROVE  /\ Len(upstream) \in Nat
           /\ \A i \in 1 .. Len(upstream) : upstream[i] \in Lines
           /\ \A i, j \in 1 .. Len(upstream) : upstream[i].ref = upstream[j].ref => i = j
<1>1. Len(upstream) \in Nat /\ \A i \in 1 .. Len(upstream) : upstream[i] \in Lines
  BY LenProperties, ElementOfSeq DEF UpstreamInOrder
<1>2. ASSUME NEW i \in 1 .. Len(upstream), NEW j \in 1 .. Len(upstream),
             upstream[i].ref = upstream[j].ref
      PROVE  i = j
  <2>1. ~(i < j) /\ ~(j < i)
    BY <1>2 DEF UpstreamInOrder
  <2> QED BY <1>1, <2>1
<1> QED
  BY <1>1, <1>2

LEMMA ScanEnds ==
    ASSUME UpstreamInOrder
    PROVE  \/ /\ chosen.type = "tag" /\ LastScanned \in 1 .. Len(upstream)
              /\ upstream[LastScanned].ref = Peeled
           \/ /\ chosen.type = "tag" => \A i \in 1 .. Len(upstream) : upstream[i].ref # Peeled
              /\ LastScanned = Len(upstream)
<1> DEFINE n == Len(upstream)
<1>1. upstream \in Seq(Lines) /\ n \in 0..n /\ SubSeq(upstream, 1, n) = upstream
      /\ DOMAIN upstream = 1..n
  BY NoLineTwice, SubSeqFull, LenProperties DEF UpstreamInOrder
<1>2. LET found == Selected(upstream, n, Peeled)
      IN  \/ found = 0 /\ \A i \in 1..n : upstream[i].ref # Peeled
          \/ found \in 1..n /\ upstream[found].ref = Peeled
  BY <1>1, NoLineTwice, SelectedLine
<1>3. LET found == SelectInSeq(upstream, LAMBDA l : l.ref = Peeled)
      IN  \/ found = 0 /\ \A i \in 1..n : upstream[i].ref # Peeled
          \/ found \in 1..n /\ upstream[found].ref = Peeled
  BY <1>1, <1>2 DEF Selected
<1>4. LastScanned = IF chosen.type = "tag" /\ \E i \in 1..n : upstream[i].ref = Peeled
                    THEN SelectInSeq(upstream, LAMBDA l : l.ref = Peeled) ELSE n
  BY <1>1 DEF LastScanned, Peeled
<1> QED
  BY <1>3, <1>4

LEMMA LineIsFound ==
    ASSUME UpstreamInOrder,
           NEW ref, LastScanned = Len(upstream) \/ ref \in {HeadLine, Master, Peeled}
    PROVE  FoundAt(ref, LineOf(ref))
<1> DEFINE n == LastScanned
           found == LineOf(ref)
<1>1. n \in 0 .. Len(upstream) /\ upstream \in Seq(Lines) /\ Len(upstream) \in Nat
  BY NoLineTwice, ScanEnds DEF UpstreamInOrder
<1>2. \/ found = 0 /\ \A i \in 1..n : upstream[i].ref # ref
      \/ found \in 1..n /\ upstream[found].ref = ref
  <2> HIDE DEF n
  <2>1. LET x == Selected(upstream, n, ref)
        IN  \/ x = 0 /\ \A i \in 1..n : upstream[i].ref # ref
            \/ x \in 1..n /\ upstream[x].ref = ref
    BY <1>1, NoLineTwice, SelectedLine
  <2> QED BY <2>1 DEF LineOf, n, Selected
<1> HIDE DEF found
<1>3. CASE n = Len(upstream)
  BY <1>2, <1>3 DEF FoundAt, found
<1>4. CASE n # Len(upstream)
  <2>1. n \in 1 .. Len(upstream) /\ upstream[n].ref = Peeled
    BY <1>4, ScanEnds
  <2>2. ref \in {HeadLine, Master, Peeled}
    BY <1>4
  <2>3. ASSUME NEW j \in 1 .. Len(upstream), upstream[j].ref = ref
        PROVE  j \in 1..n
    <3>1. CASE ref = Peeled
      BY <1>1, <2>1, <2>3, <3>1, NoLineTwice
    <3>2. CASE ref \in {HeadLine, Master}
      <4>1. ref.kind \in {"head", "branch"} /\ Peeled.kind = "peeled"
        BY <3>2 DEF HeadLine, Master, Peeled
      <4>2. ~(Rank[Peeled.kind] <= Rank[ref.kind])
        BY <4>1 DEF Rank
      <4>3. ~(n < j)
        BY <2>1, <2>3, <4>2 DEF UpstreamInOrder
      <4> QED BY <1>1, <2>1, <4>3
    <3> QED BY <2>2, <3>1, <3>2
  <2> HIDE DEF n
  <2> QED BY <1>1, <1>2, <2>3 DEF FoundAt, found
<1> QED
  BY <1>3, <1>4

LEMMA HeadIsFirst ==
    ASSUME UpstreamInOrder, NEW i \in 1 .. Len(upstream), upstream[i].ref = HeadLine
    PROVE  i = 1
<1>1. Len(upstream) \in Nat
  BY NoLineTwice
<1>2. ASSUME 1 < i
      PROVE  FALSE
  <2>1. 1 \in 1 .. Len(upstream)
    BY <1>1
  <2>2. upstream[1] \in Lines /\ upstream[1].ref \in References
    BY <2>1, NoLineTwice DEF Lines
  <2>3. Rank[upstream[1].ref.kind] <= 0
    BY <1>2, <2>1 DEF UpstreamInOrder, HeadLine, Rank
  <2>4. upstream[1].ref = HeadLine
    BY <2>2, <2>3 DEF References, Master, Rank
  <2> QED BY <1>2, <2>1, <2>4 DEF UpstreamInOrder
<1> QED
  BY <1>1, <1>2

(***************************************************************************)
(* The chosen hash is that of the reference the package has, and none if   *)
(* the repository has it not, or if it is the branch master.               *)
(***************************************************************************)
LEMMA HashOfLine ==
    ASSUME UpstreamInOrder, NEW ref, NEW i, FoundAt(ref, i)
    PROVE  HashAt(i) = HashIn(upstream, ref)
<1>1. DOMAIN upstream = 1 .. Len(upstream)
  BY LenProperties DEF UpstreamInOrder
<1>2. CASE i = 0 /\ \A j \in 1 .. Len(upstream) : upstream[j].ref # ref
  BY <1>1, <1>2 DEF HashAt, HashIn
<1>3. CASE i \in 1 .. Len(upstream) /\ upstream[i].ref = ref
  <2>1. {j \in DOMAIN upstream : upstream[j].ref = ref} = {i}
    BY <1>1, <1>3, NoLineTwice
  <2>2. i # 0
    BY <1>3, NoLineTwice
  <2> QED BY <2>1, <2>2 DEF HashAt, HashIn
<1> QED
  BY <1>2, <1>3 DEF FoundAt

LEMMA ChosenIs ==
    ASSUME UpstreamInOrder, chosen.type \in {"branch", "tag"}
    PROVE  ChosenHash = IF chosen.type = "branch" /\ chosen.name = "master" THEN {} ELSE Target
<1>1. FoundAt(Peeled, LineOf(Peeled))
  BY LineIsFound
<1>2. CASE chosen.type = "branch"
  <2>1. FoundAt(Plain, LineOf(Plain))
    BY <1>2, ScanEnds, LineIsFound
  <2>2. HashAt(LineOf(Plain)) = HashIn(upstream, Plain)
    BY <2>1, HashOfLine
  <2> QED BY <1>2, <2>2 DEF ChosenHash, Target, Plain
<1>3. CASE chosen.type = "tag" /\ LineOf(Peeled) # 0
  <2>1. HashAt(LineOf(Peeled)) = HashIn(upstream, Peeled)
    BY <1>1, HashOfLine
  <2>2. HashAt(LineOf(Peeled)) # {}
    BY <1>3 DEF HashAt
  <2> QED BY <1>3, <2>1, <2>2 DEF ChosenHash, Target, Peeled
<1>4. CASE chosen.type = "tag" /\ LineOf(Peeled) = 0
  <2>1. HashIn(upstream, Peeled) = {}
    BY <1>1, <1>4, HashOfLine DEF HashAt
  <2>2. \A j \in 1 .. Len(upstream) : upstream[j].ref # Peeled
    BY <1>1, <1>4, NoLineTwice DEF FoundAt
  <2>3. LastScanned = Len(upstream)
    BY <2>2, ScanEnds
  <2>4. HashAt(LineOf(Plain)) = HashIn(upstream, Plain)
    BY <2>3, LineIsFound, HashOfLine
  <2> QED BY <1>4, <2>1, <2>4 DEF ChosenHash, Target, Peeled, Plain
<1> QED
  BY <1>2, <1>3, <1>4

LEMMA OneHashChosen ==
    ASSUME UpstreamInOrder, chosen.type \in {"branch", "tag"}, ChosenHash # {}
    PROVE  \E h \in Hashes : ChosenHash = {h}
<1>1. FoundAt(Peeled, LineOf(Peeled))
  BY LineIsFound
<1>2. (chosen.type = "tag" /\ LineOf(Peeled) # 0) \/ FoundAt(Plain, LineOf(Plain))
  <2>1. CASE chosen.type = "branch"
    BY <2>1, ScanEnds, LineIsFound
  <2>2. CASE chosen.type = "tag" /\ LineOf(Peeled) = 0
    <3>1. \A j \in 1 .. Len(upstream) : upstream[j].ref # Peeled
      BY <1>1, <2>2, NoLineTwice DEF FoundAt
    <3> QED BY <3>1, ScanEnds, LineIsFound
  <2> QED BY <2>1, <2>2
<1>3. \A ref, i : FoundAt(ref, i) /\ i # 0 => \E h \in Hashes : HashAt(i) = {h}
  BY NoLineTwice DEF FoundAt, HashAt, Lines
<1>4. HashAt(0) = {}
  BY DEF HashAt
<1> QED
  BY <1>1, <1>2, <1>3, <1>4 DEF ChosenHash, Peeled, Plain

(***************************************************************************)
(* The rewritten lines: HEAD and master with the chosen hash, and then all *)
(* other lines of the repository in their order.                           *)
(***************************************************************************)
Place(m, i) == IF m = 0 \/ i < m - 1 THEN i + 1 ELSE i + 2

KeptLines(rest, m) ==
    /\ rest \in Seq(Lines)
    /\ Len(rest) = IF m = 0 THEN Len(upstream) - 1 ELSE Len(upstream) - 2
    /\ \A i \in 1 .. Len(rest) : rest[i] = upstream[Place(m, i)]

LEMMA LinesKept ==
    ASSUME UpstreamInOrder, Len(upstream) >= 1, NEW m \in {0} \cup 2 .. Len(upstream)
    PROVE  LET n == Len(upstream)
               rest == IF m = 0 THEN SubSeq(upstream, 2, n)
                       ELSE SubSeq(upstream, 2, m - 1) \o SubSeq(upstream, m + 1, n)
           IN  KeptLines(rest, m)
<1> DEFINE n == Len(upstream)
<1>0. n \in Nat \ {0}
  BY NoLineTwice
<1>1. n \in Nat \ {0} /\ \A i \in 1..n : upstream[i] \in Lines
  BY NoLineTwice
<1>2. ASSUME NEW a \in 1 .. n + 1, NEW b \in 0..n
      PROVE  /\ SubSeq(upstream, a, b) \in Seq(Lines)
             /\ Len(SubSeq(upstream, a, b)) = IF a <= b THEN b - a + 1 ELSE 0
             /\ \A i \in 1 .. b - a + 1 : SubSeq(upstream, a, b)[i] = upstream[a + i - 1]
  <2>1. \A i \in a..b : upstream[i] \in Lines
    BY <1>1
  <2> QED BY <1>1, <2>1, SubSeqProperties
<1>3. CASE m = 0
  <2>1. /\ SubSeq(upstream, 2, n) \in Seq(Lines)
        /\ Len(SubSeq(upstream, 2, n)) = n - 1
        /\ \A i \in 1 .. n - 1 : SubSeq(upstream, 2, n)[i] = upstream[i + 1]
    <3>1. 2 \in 1 .. n + 1 /\ n \in 0..n /\ \A i \in 1 .. n - 1 : i \in 1 .. n - 2 + 1 /\ 2 + i - 1 = i + 1
      BY <1>1
    <3> DEFINE s == SubSeq(upstream, 2, n)
    <3>2. /\ s \in Seq(Lines) /\ Len(s) = IF 2 <= n THEN n - 2 + 1 ELSE 0
          /\ \A i \in 1 .. n - 2 + 1 : s[i] = upstream[2 + i - 1]
      BY <1>2, <3>1
    <3> HIDE DEF s
    <3>3. Len(s) = n - 1
      <4>1. Len(s) = IF 2 <= n THEN n - 2 + 1 ELSE 0
        BY <3>2
      <4> QED BY <1>0, <4>1
    <3> QED BY <3>1, <3>2, <3>3 DEF s
  <2> QED BY <1>3, <2>1 DEF KeptLines, Place
<1>4. CASE m \in 2..n
  <2> DEFINE s == SubSeq(upstream, 2, m - 1)
             t == SubSeq(upstream, m + 1, n)
  <2>1. /\ s \in Seq(Lines) /\ Len(s) = m - 2
        /\ \A i \in 1 .. m - 2 : s[i] = upstream[i + 1]
    BY <1>1, <1>2, <1>4
  <2>2. /\ t \in Seq(Lines) /\ Len(t) = n - m
        /\ \A i \in 1 .. n - m : t[i] = upstream[m + i]
    BY <1>1, <1>2, <1>4
  <2> HIDE DEF s, t
  <2>3. /\ s \o t \in Seq(Lines) /\ Len(s \o t) = Len(s) + Len(t)
        /\ \A i \in 1 .. Len(s) + Len(t) :
               (s \o t)[i] = IF i <= Len(s) THEN s[i] ELSE t[i - Len(s)]
    BY <2>1, <2>2, ConcatProperties
  <2>4. Len(s \o t) = n - 2
    BY <1>1, <1>4, <2>1, <2>2, <2>3
  <2>5. ASSUME NEW i \in 1 .. n - 2
        PROVE  (s \o t)[i] = upstream[IF i < m - 1 THEN i + 1 ELSE i + 2]
    <3>1. CASE i < m - 1
      BY <1>1, <1>4, <2>1, <2>2, <2>3, <3>1
    <3>2. CASE ~(i < m - 1)
      <4>1. i - Len(s) \in 1 .. n - m /\ m + (i - Len(s)) = i + 2
        BY <1>1, <1>4, <2>1, <3>2
      <4>2. (s \o t)[i] = t[i - Len(s)]
        BY <1>1, <1>4, <2>1, <2>2, <2>3, <3>2
      <4> QED BY <2>2, <3>2, <4>1, <4>2
    <3> QED BY <3>1, <3>2
  <2>6. m # 0
    BY <1>4
  <2> QED BY <2>3, <2>4, <2>5, <2>6 DEF s, t, KeptLines, Place
<1> QED
  BY <1>3, <1>4

\* The property, of an answer.
Truly(a) ==
    /\ a.status = 200 =>
           /\ \A r \in {HeadLine, Master} : HashIn(a.lines, r) = Target
           /\ \A r \in References \ {HeadLine, Master} :
                  HashIn(a.lines, r) = HashIn(upstream, r)
           /\ \A i, j \in DOMAIN a.lines : a.lines[i].ref = a.lines[j].ref => i = j
           /\ a.symref # "none" => a.symref = "master"
    /\ a.status = 404 =>
           \/ Target = {} \/ HashIn(upstream, HeadLine) = {}
           \/ chosen.type = "branch" /\ chosen.name = "master"

\* Where the lines of the rewritten answer, from the third on, come from, and
\* where the other lines of the repository go to.
OldPlace(m, i) == Place(m, i - 2)
NewPlace(m, j) == IF m = 0 \/ j < m THEN j + 1 ELSE j

LEMMA PlacesMatch ==
    ASSUME NEW n \in Nat \ {0}, NEW m \in {0} \cup 2..n,
           NEW l, l = IF m = 0 THEN n + 1 ELSE n
    PROVE  /\ \A i \in 3..l : OldPlace(m, i) \in 2..n /\ OldPlace(m, i) # m
           /\ \A i, j \in 3..l : OldPlace(m, i) = OldPlace(m, j) => i = j
           /\ \A j \in 2..n : j # m => NewPlace(m, j) \in 3..l /\ OldPlace(m, NewPlace(m, j)) = j
<1>1. CASE m = 0
  BY <1>1 DEF OldPlace, NewPlace, Place
<1>2. CASE m \in 2..n
  BY <1>2 DEF OldPlace, NewPlace, Place
<1> QED
  BY <1>1, <1>2

RewrittenFrom(lines, h, m) ==
    /\ DOMAIN lines = 1 .. Len(lines)
    /\ Len(lines) = IF m = 0 THEN Len(upstream) + 1 ELSE Len(upstream)
    /\ {1, 2} \subseteq 1 .. Len(lines)
    /\ lines[1] = [ref |-> HeadLine, hash |-> h]
    /\ lines[2] = [ref |-> Master, hash |-> h]
    /\ \A i \in 3 .. Len(lines) : lines[i] = upstream[OldPlace(m, i)]

LEMMA LinesRewritten ==
    ASSUME UpstreamInOrder, Len(upstream) >= 1, NEW m \in {0} \cup 2 .. Len(upstream),
           NEW h \in Hashes, NEW rest, KeptLines(rest, m)
    PROVE  RewrittenFrom(<<[ref |-> HeadLine, hash |-> h], [ref |-> Master, hash |-> h]>> \o rest,
                         h, m)
<1> DEFINE first == [ref |-> HeadLine, hash |-> h]
           second == [ref |-> Master, hash |-> h]
           pair == <<first, second>>
           lines == pair \o rest
<1>1. Len(upstream) \in Nat
  BY NoLineTwice
<1>2. first \in Lines /\ second \in Lines
  BY DEF Lines, References
<1> HIDE DEF first, second
<1>3. /\ pair \in Seq(Lines) /\ Len(pair) = 2 /\ pair[1] = first /\ pair[2] = second
  BY <1>2
<1>4. rest \in Seq(Lines) /\ Len(rest) \in Nat
  BY LenProperties DEF KeptLines
<1> HIDE DEF pair
<1>5. /\ lines \in Seq(Lines) /\ Len(lines) = Len(pair) + Len(rest)
      /\ \A i \in 1 .. Len(pair) + Len(rest) :
             lines[i] = IF i <= Len(pair) THEN pair[i] ELSE rest[i - Len(pair)]
  BY <1>3, <1>4, ConcatProperties
<1> HIDE DEF lines
<1>6. Len(lines) = 2 + Len(rest) /\ DOMAIN lines = 1 .. Len(lines)
  BY <1>3, <1>5, LenProperties
<1>7. lines[1] = first /\ lines[2] = second
  BY <1>3, <1>4, <1>5
<1>8. ASSUME NEW i \in 3 .. Len(lines)
      PROVE  lines[i] = upstream[OldPlace(m, i)]
  <2>1. i - 2 \in 1 .. Len(rest) /\ i \in 1 .. Len(pair) + Len(rest) /\ ~(i <= Len(pair))
    BY <1>3, <1>4, <1>6
  <2>2. lines[i] = rest[i - Len(pair)] /\ i - Len(pair) = i - 2
    BY <1>3, <1>5, <2>1
  <2> QED BY <2>1, <2>2 DEF KeptLines, OldPlace
<1>9. Len(lines) = IF m = 0 THEN Len(upstream) + 1 ELSE Len(upstream)
  BY <1>1, <1>6 DEF KeptLines
<1> QED
  BY <1>4, <1>6, <1>7, <1>8, <1>9 DEF lines, pair, first, second, RewrittenFrom

LEMMA RewrittenLines ==
    ASSUME UpstreamInOrder, NEW h \in Hashes, NEW m \in {0} \cup 2 .. Len(upstream),
           1 \in 1 .. Len(upstream), upstream[1].ref = HeadLine, FoundAt(Master, m),
           NEW lines, RewrittenFrom(lines, h, m)
    PROVE  /\ \A r \in {HeadLine, Master} : HashIn(lines, r) = {h}
           /\ \A r \in References \ {HeadLine, Master} :
                  HashIn(lines, r) = HashIn(upstream, r)
           /\ \A i, j \in DOMAIN lines : lines[i].ref = lines[j].ref => i = j
<1> DEFINE n == Len(upstream)
           l == Len(lines)
<1>1. n \in Nat \ {0} /\ DOMAIN upstream = 1..n
  BY NoLineTwice, LenProperties DEF UpstreamInOrder
<1>2. \A i, j \in 1..n : upstream[i].ref = upstream[j].ref => i = j
  BY NoLineTwice
<1>3. l = IF m = 0 THEN n + 1 ELSE n
  BY DEF RewrittenFrom
<1>4. /\ DOMAIN lines = 1..l /\ {1, 2} \subseteq 1..l
      /\ \A i \in 1..l : i = 1 \/ i = 2 \/ i \in 3..l
      /\ \A i \in 3..l : i \in 1..l
  BY <1>1, <1>3 DEF RewrittenFrom
<1>5. /\ lines[1].ref = HeadLine /\ lines[2].ref = Master
      /\ lines[1].hash = h /\ lines[2].hash = h /\ HeadLine # Master
  BY DEF RewrittenFrom, HeadLine, Master
<1>6. \A i \in 3..l : lines[i] = upstream[OldPlace(m, i)]
  BY DEF RewrittenFrom
<1>7. /\ \A i \in 3..l : OldPlace(m, i) \in 2..n /\ OldPlace(m, i) # m
      /\ \A i, j \in 3..l : OldPlace(m, i) = OldPlace(m, j) => i = j
      /\ \A j \in 2..n : j # m => NewPlace(m, j) \in 3..l /\ OldPlace(m, NewPlace(m, j)) = j
  BY <1>1, <1>3, PlacesMatch
<1>8. \A i \in 2..n : i \in 1..n /\ i # 1
  BY <1>1
<1>9. \A j \in 1..n : upstream[j].ref = Master <=> j = m
  BY <1>1, <1>2 DEF FoundAt
<1> HIDE DEF n, l
<1>10. ASSUME NEW i \in 3..l
       PROVE  lines[i].ref # HeadLine /\ lines[i].ref # Master
  <2>1. OldPlace(m, i) \in 1..n /\ OldPlace(m, i) # m /\ OldPlace(m, i) # 1
    BY <1>7, <1>8
  <2>2. upstream[OldPlace(m, i)].ref # HeadLine
    BY <1>2, <2>1 DEF n
  <2>3. upstream[OldPlace(m, i)].ref # Master
    BY <1>9, <2>1
  <2> QED BY <1>6, <2>2, <2>3
<1>11. \A r \in {HeadLine, Master} : HashIn(lines, r) = {h}
  BY <1>4, <1>5, <1>10 DEF HashIn
<1>12. ASSUME NEW r \in References \ {HeadLine, Master}
       PROVE  HashIn(lines, r) = HashIn(upstream, r)
  <2>1. ASSUME NEW i \in 1..l, lines[i].ref = r
        PROVE  \E j \in 1..n : upstream[j].ref = r /\ upstream[j].hash = lines[i].hash
    <3>1. i \in 3..l
      BY <1>4, <1>5, <2>1
    <3> QED BY <1>6, <1>7, <1>8, <2>1, <3>1
  <2>2. ASSUME NEW j \in 1..n, upstream[j].ref = r
        PROVE  \E i \in 1..l : lines[i].ref = r /\ lines[i].hash = upstream[j].hash
    <3>1. j # 1 /\ j # m
      BY <1>9, <2>2
    <3>2. j \in 2..n
      BY <1>1, <3>1
    <3>3. NewPlace(m, j) \in 3..l /\ lines[NewPlace(m, j)] = upstream[j]
      BY <1>6, <1>7, <3>1, <3>2
    <3> QED BY <1>4, <2>2, <3>3
  <2>3. /\ \A x : x \in HashIn(lines, r) <=> \E i \in 1..l : lines[i].ref = r /\ x = lines[i].hash
        /\ \A x : x \in HashIn(upstream, r) <=>
                  \E j \in 1..n : upstream[j].ref = r /\ x = upstream[j].hash
    BY <1>1, <1>4 DEF HashIn
  <2>4. ASSUME NEW x \in HashIn(lines, r) PROVE x \in HashIn(upstream, r)
    <3>1. PICK i \in 1..l : lines[i].ref = r /\ x = lines[i].hash
      BY <2>3, <2>4
    <3> QED BY <2>1, <2>3, <3>1
  <2>5. ASSUME NEW x \in HashIn(upstream, r) PROVE x \in HashIn(lines, r)
    <3>1. PICK j \in 1..n : upstream[j].ref = r /\ x = upstream[j].hash
      BY <2>3, <2>5
    <3> QED BY <2>2, <2>3, <3>1
  <2> QED BY <2>4, <2>5
<1>13. ASSUME NEW i \in 1..l, NEW j \in 1..l, lines[i].ref = lines[j].ref
       PROVE  i = j
  <2>1. CASE i \in 3..l /\ j \in 3..l
    BY <1>2, <1>6, <1>7, <1>8, <1>13, <2>1
  <2>2. CASE i \in {1, 2} \/ j \in {1, 2}
    BY <1>4, <1>5, <1>10, <1>13, <2>2
  <2> QED BY <1>4, <2>1, <2>2
<1> QED
  BY <1>4, <1>11, <1>12, <1>13

(***************************************************************************)
(* What writeAlteredGitInfoRef answers.                                    *)
(***************************************************************************)
LEMMA AlteredIsTrue ==
    ASSUME UpstreamInOrder, chosen.type \in {"branch", "tag", "none"}
    PROVE  Truly(Altered)
<1> DEFINE head == LineOf(HeadLine)
           master == LineOf(Master)
           n == Len(upstream)
<1>0. \A code : code \notin {200, 404} => Truly(Status(code))
  BY DEF Truly, Status
<1>1. FoundAt(HeadLine, head) /\ FoundAt(Master, master)
  BY LineIsFound
<1>2. CASE chosen.type = "none"
  <2>1. Altered = Status(500)
    BY <1>2 DEF Altered
  <2> QED BY <1>0, <2>1
<1>3. CASE chosen.type # "none" /\ (head = 0 \/ ChosenHash = {})
  <2>1. Altered = Status(404)
    BY <1>3 DEF Altered
  <2>2. head = 0 => HashIn(upstream, HeadLine) = {}
    BY <1>1, HashOfLine DEF HashAt
  <2>3. ChosenHash = {} => Target = {} \/ (chosen.type = "branch" /\ chosen.name = "master")
    BY <1>3, ChosenIs
  <2>4. Altered.status = 404
    BY <2>1 DEF Status
  <2> HIDE DEF head
  <2> QED BY <1>3, <2>2, <2>3, <2>4 DEF Truly
<1>4. CASE chosen.type # "none" /\ head # 0 /\ ChosenHash # {}
  <2> DEFINE h == CHOOSE x \in ChosenHash : TRUE
             rest == IF master = 0 THEN SubSeq(upstream, head + 1, n)
                     ELSE SubSeq(upstream, head + 1, master - 1) \o SubSeq(upstream, master + 1, n)
             pair == <<[ref |-> HeadLine, hash |-> h], [ref |-> Master, hash |-> h]>>
             lines == SubSeq(upstream, 1, head - 1) \o pair \o rest
  <2>1. Altered = [status |-> 200, symref |-> IF chosen.type = "branch" THEN "master" ELSE "none",
                   lines |-> lines]
    BY <1>4 DEF Altered
  <2>2. n \in Nat /\ head \in 1..n /\ upstream[head].ref = HeadLine
    BY <1>1, <1>4, NoLineTwice DEF FoundAt
  <2>3. head = 1
    BY <2>2, HeadIsFirst
  <2>4. master \in {0} \cup 2..n
    <3>1. master \in {0} \cup 1..n /\ (master # 0 => upstream[master].ref = Master)
      BY <1>1 DEF FoundAt
    <3>2. master # 1
      BY <2>2, <2>3, <3>1 DEF HeadLine, Master
    <3> QED BY <2>2, <3>1, <3>2
  <2>5. h \in Hashes /\ ChosenHash = {h} /\ Target = {h}
    <3>1. PICK x \in Hashes : ChosenHash = {x}
      BY <1>4, OneHashChosen
    <3>2. ChosenHash = Target
      BY <1>4, ChosenIs
    <3> QED BY <3>1, <3>2
  <2> HIDE DEF h
  <2>6. KeptLines(rest, master)
    <3> DEFINE m == master
    <3> HIDE DEF m
    <3>1. KeptLines(IF m = 0 THEN SubSeq(upstream, 2, n)
                    ELSE SubSeq(upstream, 2, m - 1) \o SubSeq(upstream, m + 1, n), m)
      BY <2>2, <2>4, LinesKept DEF m
    <3> QED BY <2>3, <3>1 DEF m
  <2> HIDE DEF rest
  <2>7. lines = pair \o rest
    <3>1. SubSeq(upstream, 1, head - 1) = <<>>
      BY <2>3, SubSeqEmpty
    <3>2. pair \in Seq(Lines) /\ rest \in Seq(Lines)
      BY <2>5, <2>6 DEF Lines, References, KeptLines
    <3> HIDE DEF pair
    <3> QED BY <3>1, <3>2, ConcatEmptySeq
  <2>8. RewrittenFrom(lines, h, master)
    <3> HIDE DEF lines
    <3> QED BY <2>2, <2>4, <2>5, <2>6, <2>7, LinesRewritten
  <2> HIDE DEF lines
  <2>9. /\ \A r \in {HeadLine, Master} : HashIn(lines, r) = {h}
        /\ \A r \in References \ {HeadLine, Master} : HashIn(lines, r) = HashIn(upstream, r)
        /\ \A i, j \in DOMAIN lines : lines[i].ref = lines[j].ref => i = j
    BY <1>1, <2>2, <2>3, <2>4, <2>5, <2>8, RewrittenLines
  <2>10. Altered.status = 200 /\ Altered.lines = lines
         /\ (Altered.symref # "none" => Altered.symref = "master")
    BY <2>1
  <2> QED BY <2>5, <2>9, <2>10 DEF Truly
<1> QED
  BY <1>2, <1>3, <1>4

GitInv == UpstreamInOrder /\ chosen.type \in {"branch", "tag", "none"} /\ RewrittenTruly

LEMMA ReferencesFinite == IsFiniteSet(References)
<1> DEFINE Named(kind, N) == {[kind |-> kind, name |-> x] : x \in N}
<1>1. ASSUME NEW N, IsFiniteSet(N), NEW kind
      PROVE  IsFiniteSet(Named(kind, N))
  <2> DEFINE f == [x \in N |-> [kind |-> kind, name |-> x]]
  <2>1. f \in Surjection(N, Named(kind, N))
    BY DEF Surjection
  <2> HIDE DEF f, Named
  <2> QED BY <1>1, <2>1, FS_Surjection
<1>2. /\ IsFiniteSet(Named("branch", Branches)) /\ IsFiniteSet(Named("tag", Tags))
      /\ IsFiniteSet(Named("peeled", Tags)) /\ IsFiniteSet({HeadLine}) /\ IsFiniteSet({Master})
  <2> HIDE DEF Named
  <2> QED BY <1>1, GitReferencesAssumption, FS_Singleton DEF GitReferencesAssumption
<1>3. References = Named("branch", Branches) \cup Named("tag", Tags) \cup Named("peeled", Tags)
                   \cup {HeadLine} \cup {Master}
  BY DEF References
<1> HIDE DEF Named
<1> QED
  BY <1>2, <1>3, FS_Union

LEMMA GitInitially == GitInit => GitInv
<1> SUFFICES ASSUME GitInit PROVE GitInv
  OBVIOUS
<1>0. PICK known \in SUBSET References :
           \E sent \in [1 .. Cardinality(known) -> known], hash \in [known -> Hashes] :
               /\ InOrder(sent)
               /\ upstream = [i \in DOMAIN sent |-> [ref |-> sent[i], hash |-> hash[sent[i]]]]
  BY DEF GitInit
<1>1. PICK sent \in [1 .. Cardinality(known) -> known], hash \in [known -> Hashes] :
               /\ InOrder(sent)
               /\ upstream = [i \in DOMAIN sent |-> [ref |-> sent[i], hash |-> hash[sent[i]]]]
  BY <1>0
<1> DEFINE n == Cardinality(known)
<1>2. n \in Nat
  BY ReferencesFinite, FS_Subset, FS_CardinalityType
<1>3. upstream \in [1..n -> Lines] /\ \A i \in 1..n : upstream[i].ref = sent[i]
  BY <1>1 DEF Lines
<1>4. upstream \in Seq(Lines) /\ Len(upstream) = n
  <2> HIDE DEF n
  <2>1. upstream \in Seq(Lines)
    BY <1>2, <1>3, SeqDef
  <2> QED BY <1>2, <1>3, <2>1, LenProperties
<1>5. UpstreamInOrder
  <2>1. \A i, j \in 1..n : i < j => sent[i] # sent[j] /\ Rank[sent[i].kind] <= Rank[sent[j].kind]
    BY <1>1 DEF InOrder
  <2> HIDE DEF n
  <2> QED BY <1>3, <1>4, <2>1 DEF UpstreamInOrder
<1>6. answer.status = 0
  BY DEF GitInit, Unanswered
<1> QED
  BY <1>5, <1>6 DEF GitInit, GitInv, RewrittenTruly

(***************************************************************************)
(* The answer that "go get" sees is true to the repository, for any number *)
(* of branches, tags and lines: what was found in the lines it came from   *)
(* was all there was, wherever the scan ended.                             *)
(***************************************************************************)
THEOREM AnswersAreTrue == GitSpec => []RewrittenTruly
<1>1. GitInv /\ [GitNext]_gitVars => GitInv'
  <2> SUFFICES ASSUME GitInv, [GitNext]_gitVars PROVE GitInv'
    OBVIOUS
  <2>1. UNCHANGED <<upstream, chosen>> /\ Target' = Target
    BY DEF GitNext, InfoRefs, gitVars, Target
  <2>2. CASE InfoRefs
    <3>1. answer' \in {Altered, Status(401), Status(500)}
      BY <2>2 DEF InfoRefs
    <3>2. Truly(Status(401)) /\ Truly(Status(500))
      BY DEF Truly, Status
    <3>3. Truly(answer')
      BY <3>1, <3>2, AlteredIsTrue DEF GitInv
    <3>4. RewrittenTruly'
      BY <2>1, <3>3 DEF Truly, RewrittenTruly
    <3> QED BY <2>1, <3>4 DEF GitInv, UpstreamInOrder
  <2>3. CASE UNCHANGED gitVars
    BY <2>1, <2>3 DEF gitVars, GitInv, UpstreamInOrder, RewrittenTruly
  <2> QED BY <2>2, <2>3 DEF GitNext
<1>2. GitInv => RewrittenTruly
  BY DEF GitInv
<1> QED
  BY <1>1, <1>2, GitInitially, PTL DEF GitSpec
----------------------------------------------------------------------------
\* The key at the last place is the greatest.
LEMMA GreatestKey ==
    ASSUME NEW keys \in SUBSET Nat, IsFiniteSet(keys), keys # {}
    PROVE  \E k \in keys : \A x \in keys : x <= k
<1>1. Cardinality(keys) \in Nat /\ Cardinality(keys) # 0
  BY FS_CardinalityType, FS_EmptySet
<1>2. PICK k \in keys : Cardinality(UpTo(keys, k)) = Cardinality(keys)
  BY <1>1, PlacesTaken
<1>3. UpTo(keys, k) = keys
  BY <1>2, FS_Subset DEF UpTo
<1> QED
  BY <1>3 DEF UpTo

\* Counted from the other end.
DownTo(keys, k) == {x \in keys : x >= k}

LEMMA BothWays ==
    ASSUME NEW keys \in SUBSET Nat, IsFiniteSet(keys), NEW k \in keys
    PROVE  Cardinality(DownTo(keys, k)) = Cardinality(keys) + 1 - Cardinality(UpTo(keys, k))
<1>1. IsFiniteSet(UpTo(keys, k)) /\ IsFiniteSet(DownTo(keys, k))
  BY FS_Subset DEF UpTo, DownTo
<1>2. UpTo(keys, k) \cup DownTo(keys, k) = keys /\ UpTo(keys, k) \cap DownTo(keys, k) = {k}
  <2>1. \A x \in keys : (x <= k \/ x >= k) /\ (x <= k /\ x >= k <=> x = k)
    OBVIOUS
  <2> QED BY <2>1 DEF UpTo, DownTo
<1>3. Cardinality(keys) = Cardinality(UpTo(keys, k)) + Cardinality(DownTo(keys, k))
                              - Cardinality({k})
  BY <1>1, <1>2, FS_Union
<1>4. Cardinality({k}) = 1
  BY FS_Singleton
<1>5. Cardinality(UpTo(keys, k)) \in Nat /\ Cardinality(DownTo(keys, k)) \in Nat
      /\ Cardinality(keys) \in Nat
  BY <1>1, FS_CardinalityType
<1> QED
  BY <1>3, <1>4, <1>5

\* What counts from above: every place is the place of one key.
LEMMA PlacesFromAbove ==
    ASSUME NEW keys \in SUBSET Nat, IsFiniteSet(keys)
    PROVE  /\ Cardinality(keys) \in Nat
           /\ \A i \in 1 .. Cardinality(keys) : \E k \in keys : Cardinality(DownTo(keys, k)) = i
           /\ \A k \in keys : Cardinality(DownTo(keys, k)) \in 1 .. Cardinality(keys)
           /\ \A k, l \in keys :
                  Cardinality(DownTo(keys, k)) = Cardinality(DownTo(keys, l)) => k = l
<1>1. Cardinality(keys) \in Nat
  BY FS_CardinalityType
<1>2. \A k \in keys : Cardinality(UpTo(keys, k)) \in 1 .. Cardinality(keys)
  BY UpToGrows
<1>3. \A k \in keys : Cardinality(DownTo(keys, k))
                          = Cardinality(keys) + 1 - Cardinality(UpTo(keys, k))
  BY BothWays
<1>4. \A i \in 1 .. Cardinality(keys) : \E k \in keys : Cardinality(DownTo(keys, k)) = i
  <2> TAKE i \in 1 .. Cardinality(keys)
  <2>1. Cardinality(keys) + 1 - i \in 1 .. Cardinality(keys)
    BY <1>1
  <2>2. PICK k \in keys : Cardinality(UpTo(keys, k)) = Cardinality(keys) + 1 - i
    BY <2>1, PlacesTaken
  <2> QED BY <1>1, <1>3, <2>2
<1>5. \A k \in keys : Cardinality(DownTo(keys, k)) \in 1 .. Cardinality(keys)
  BY <1>1, <1>2, <1>3
<1>6. ASSUME NEW k \in keys, NEW l \in keys,
             Cardinality(DownTo(keys, k)) = Cardinality(DownTo(keys, l))
      PROVE  k = l
  <2>1. Cardinality(UpTo(keys, k)) = Cardinality(UpTo(keys, l))
    BY <1>1, <1>2, <1>3, <1>6
  <2>2. ~(k < l) /\ ~(l < k)
    BY <1>2, <2>1, UpToGrows
  <2> QED BY <2>2
<1> QED
  BY <1>1, <1>4, <1>5, <1>6

\* Numbers that begin with 0 and go on from each are all of them.
LEMMA ReachesAll ==
    ASSUME NEW N \in Nat, NEW T, 0 \in T, \A n \in 0 .. N : n \in T /\ n < N => n + 1 \in T
    PROVE  \A n \in 0 .. N : n \in T
<1> DEFINE reached == {n \in 0 .. N : \A i \in 0 .. n : i \in T}
<1>1. IsFiniteSet(reached) /\ reached \in SUBSET Nat /\ 0 \in reached
  <2>1. IsFiniteSet(0 .. N)
    BY FS_Interval
  <2>2. reached \in SUBSET (0 .. N)
    OBVIOUS
  <2>3. IsFiniteSet(reached)
    BY <2>1, <2>2, FS_Subset
  <2> QED BY <2>3
<1>2. PICK n \in reached : \A x \in reached : x <= n
  <2> HIDE DEF reached
  <2> QED BY <1>1, GreatestKey
<1>3. CASE n = N
  BY <1>3
<1>4. CASE n < N
  <2>1. n + 1 \in reached
    BY <1>4
  <2> QED BY <1>2, <2>1
<1> QED
  BY <1>3, <1>4

----------------------------------------------------------------------------
\* FirstOf(S, n) records are a page of S.
FirstOf(S, n) == IF Cardinality(S) < n THEN Cardinality(S) ELSE n

LEMMA LeastOfTwo ==
    ASSUME NEW S, IsFiniteSet(S), NEW n \in Nat
    PROVE  /\ Cardinality(S) \in Nat
           /\ Min({Cardinality(S), n}) = FirstOf(S, n)
<1>1. Cardinality(S) \in Nat
  BY FS_CardinalityType
<1> DEFINE c == Cardinality(S)
           f == FirstOf(S, n)
<1>2. f \in {c, n} /\ \A y \in {c, n} : f <= y
  BY <1>1 DEF FirstOf
<1>3. \A x \in {c, n} : (\A y \in {c, n} : x <= y) => x = f
  BY <1>1 DEF FirstOf
<1> QED
  BY <1>1, <1>2, <1>3 DEF Min

LEMMA DownIs ==
    ASSUME NEW S \in SUBSET Nat, IsFiniteSet(S), NEW n \in Nat
    PROVE  /\ Down(S, n) \in Seq(S)
           /\ Len(Down(S, n)) = FirstOf(S, n)
           /\ FirstOf(S, n) \in 0 .. Cardinality(S)
           /\ \A i \in 1 .. FirstOf(S, n) : /\ Down(S, n)[i] \in S
                                           /\ Cardinality(DownTo(S, Down(S, n)[i])) = i
<1> DEFINE c == FirstOf(S, n)
           d == Down(S, n)
<1>1. Cardinality(S) \in Nat /\ c \in 0 .. Cardinality(S)
  <2>1. Cardinality(S) \in Nat
    BY LeastOfTwo
  <2> QED BY <2>1 DEF FirstOf
<1>2. d = [i \in 1 .. c |-> CHOOSE k \in S : Cardinality(DownTo(S, k)) = i]
  BY LeastOfTwo DEF Down, DownTo
<1> HIDE DEF c, d
<1>3. \A i \in 1 .. c : d[i] \in S /\ Cardinality(DownTo(S, d[i])) = i
  <2> TAKE i \in 1 .. c
  <2>1. d[i] = CHOOSE k \in S : Cardinality(DownTo(S, k)) = i
    BY <1>2
  <2>2. \E k \in S : Cardinality(DownTo(S, k)) = i
    BY <1>1, PlacesFromAbove
  <2> QED BY <2>1, <2>2
<1>4. d \in [1 .. c -> S]
  BY <1>2, <1>3
<1>5. d \in Seq(S)
  BY <1>1, <1>4, SeqDef
<1>6. Len(d) = c
  BY <1>1, <1>4, <1>5, LenProperties
<1> QED
  BY <1>1, <1>3, <1>5, <1>6 DEF c, d

\* A sequence whose members have their places is the page.
LEMMA DownUnique ==
    ASSUME NEW S \in SUBSET Nat, IsFiniteSet(S), NEW n \in Nat,
           NEW d \in Seq(S), Len(d) = FirstOf(S, n),
           \A i \in 1 .. Len(d) : Cardinality(DownTo(S, d[i])) = i
    PROVE  d = Down(S, n)
<1> DEFINE e == Down(S, n)
<1>1. e \in Seq(S) /\ Len(e) = Len(d) /\ Len(d) \in Nat
  BY DownIs, LenProperties
<1>2. \A i \in 1 .. Len(d) : e[i] \in S /\ Cardinality(DownTo(S, e[i])) = i
  BY DownIs
<1> HIDE DEF e
<1>3. \A i \in 1 .. Len(d) : d[i] \in S
  BY ElementOfSeq
<1>4. \A i \in 1 .. Len(d) : d[i] = e[i]
  <2> TAKE i \in 1 .. Len(d)
  <2> DEFINE k == d[i]
             l == e[i]
  <2>1. k \in S /\ l \in S
    BY <1>2, <1>3
  <2>2. Cardinality(DownTo(S, k)) = Cardinality(DownTo(S, l))
    BY <1>2
  <2> HIDE DEF k, l
  <2>3. k = l
    BY <2>1, <2>2, PlacesFromAbove
  <2> QED BY <2>3 DEF k, l
<1>5. d = e
  BY <1>1, <1>4, SeqEqual
<1> QED BY <1>5 DEF e

LEMMA UpIs ==
    ASSUME NEW S \in SUBSET Nat, IsFiniteSet(S), S # {}, NEW n \in Nat \ {0}
    PROVE  /\ Up(S, n) \in S
           /\ Cardinality(UpTo(S, Up(S, n))) = FirstOf(S, n)
           /\ FirstOf(S, n) \in 1 .. Cardinality(S)
<1>1. Cardinality(S) \in Nat \ {0}
  BY FS_CardinalityType, FS_EmptySet
<1>2. FirstOf(S, n) \in 1 .. Cardinality(S)
  BY <1>1 DEF FirstOf
<1>3. Up(S, n) = CHOOSE k \in S : Cardinality(UpTo(S, k)) = FirstOf(S, n)
  BY LeastOfTwo DEF Up, UpTo
<1>4. \E k \in S : Cardinality(UpTo(S, k)) = FirstOf(S, n)
  BY <1>2, PlacesTaken
<1> QED
  BY <1>2, <1>3, <1>4

LEMMA UpUnique ==
    ASSUME NEW S \in SUBSET Nat, IsFiniteSet(S), NEW n \in Nat \ {0}, NEW k \in S,
           Cardinality(UpTo(S, k)) = FirstOf(S, n)
    PROVE  k = Up(S, n)
<1>1. Up(S, n) \in S /\ Cardinality(UpTo(S, Up(S, n))) = Cardinality(UpTo(S, k))
  BY UpIs
<1>2. Cardinality(UpTo(S, k)) \in Int
  BY UpToGrows
<1> DEFINE l == Up(S, n)
<1> HIDE DEF l
<1>3. l \in S /\ Cardinality(UpTo(S, l)) = Cardinality(UpTo(S, k))
  BY <1>1 DEF l
<1>4. ~(k < l) /\ ~(l < k)
  BY <1>2, <1>3, UpToGrows
<1>5. k \in Int /\ l \in Int
  BY <1>3
<1> QED
  BY <1>4, <1>5 DEF l

LEMMA NewestIs ==
    ASSUME NEW S \in SUBSET Nat, IsFiniteSet(S)
    PROVE  /\ S = {} => Newest(S) = Blank
           /\ S # {} => Newest(S) \in S /\ \A x \in S : x <= Newest(S)
           /\ \A k \in S : (\A x \in S : x <= k) => Newest(S) = k
<1>1. S # {} => Newest(S) \in S /\ \A x \in S : x <= Newest(S)
  <2> SUFFICES ASSUME S # {}
               PROVE  Newest(S) \in S /\ \A x \in S : x <= Newest(S)
    OBVIOUS
  <2>1. \E k \in S : \A x \in S : x <= k
    BY GreatestKey
  <2> QED BY <2>1 DEF Newest
<1>2. ASSUME NEW k \in S, \A x \in S : x <= k
      PROVE  Newest(S) = k
  <2> DEFINE l == Newest(S)
  <2>1. l \in S /\ k <= l /\ l <= k
    BY <1>1, <1>2
  <2> HIDE DEF l
  <2>2. l \in Int /\ k \in Int
    BY <2>1
  <2>3. l = k
    BY <2>1, <2>2
  <2> QED BY <2>3 DEF l
<1> QED
  BY <1>1, <1>2 DEF Newest

----------------------------------------------------------------------------
\* A page over two sets, one before the other.
LEMMA Together ==
    ASSUME NEW A \in SUBSET Nat, IsFiniteSet(A), NEW B \in SUBSET Nat, IsFiniteSet(B),
           \A a \in A, b \in B : b < a
    PROVE  /\ A \cup B \in SUBSET Nat /\ IsFiniteSet(A \cup B)
           /\ Cardinality(A) \in Nat /\ Cardinality(B) \in Nat
           /\ Cardinality(A \cup B) = Cardinality(A) + Cardinality(B)
           /\ \A a \in A : DownTo(A \cup B, a) = DownTo(A, a)
           /\ \A b \in B : Cardinality(DownTo(A \cup B, b))
                                = Cardinality(A) + Cardinality(DownTo(B, b))
           /\ \A b \in B : UpTo(A \cup B, b) = UpTo(B, b)
           /\ \A a \in A : Cardinality(UpTo(A \cup B, a))
                                = Cardinality(B) + Cardinality(UpTo(A, a))
<1>1. \A a \in A, b \in B : a \in Int /\ b \in Int /\ a # b /\ ~(a <= b) /\ ~(b >= a)
                              /\ a >= b /\ b <= a
  OBVIOUS
<1>2. A \cap B = {}
  BY <1>1
<1>3. ASSUME NEW X, NEW Y, IsFiniteSet(X), IsFiniteSet(Y), X \cap Y = {}
      PROVE  /\ Cardinality(X) \in Nat /\ Cardinality(Y) \in Nat
             /\ Cardinality(X \cup Y) = Cardinality(X) + Cardinality(Y)
  <2>1. Cardinality(X) \in Nat /\ Cardinality(Y) \in Nat
    BY <1>3, FS_CardinalityType
  <2>2. Cardinality(X \cup Y) = Cardinality(X) + Cardinality(Y) - Cardinality({})
    BY <1>3, FS_Union
  <2> QED BY <2>1, <2>2, FS_EmptySet
<1>4. \A a \in A : DownTo(A \cup B, a) = DownTo(A, a)
  BY <1>1 DEF DownTo
<1>5. \A b \in B : UpTo(A \cup B, b) = UpTo(B, b)
  BY <1>1 DEF UpTo
<1>6. ASSUME NEW b \in B
      PROVE  Cardinality(DownTo(A \cup B, b)) = Cardinality(A) + Cardinality(DownTo(B, b))
  <2>1. DownTo(A \cup B, b) = A \cup DownTo(B, b)
    BY <1>1 DEF DownTo
  <2>2. IsFiniteSet(DownTo(B, b)) /\ A \cap DownTo(B, b) = {}
    BY <1>2, FS_Subset DEF DownTo
  <2> QED BY <1>3, <2>1, <2>2
<1>7. ASSUME NEW a \in A
      PROVE  Cardinality(UpTo(A \cup B, a)) = Cardinality(B) + Cardinality(UpTo(A, a))
  <2>1. UpTo(A \cup B, a) = B \cup UpTo(A, a)
    BY <1>1 DEF UpTo
  <2>2. IsFiniteSet(UpTo(A, a)) /\ B \cap UpTo(A, a) = {}
    BY <1>2, FS_Subset DEF UpTo
  <2> QED BY <1>3, <2>1, <2>2
<1>8. IsFiniteSet(A \cup B)
  BY FS_Union
<1> QED
  BY <1>2, <1>3, <1>4, <1>5, <1>6, <1>7, <1>8

LEMMA DownJoins ==
    ASSUME NEW A \in SUBSET Nat, IsFiniteSet(A), NEW B \in SUBSET Nat, IsFiniteSet(B),
           \A a \in A, b \in B : b < a, NEW n \in Nat
    PROVE  Down(A \cup B, n) = IF Len(Down(A, n)) >= n THEN Down(A, n)
                               ELSE Down(A, n) \o Down(B, n - Len(Down(A, n)))
<1> DEFINE S == A \cup B
           d == Down(A, n)
<1>1. /\ S \in SUBSET Nat /\ IsFiniteSet(S)
      /\ Cardinality(A) \in Nat /\ Cardinality(B) \in Nat
      /\ Cardinality(S) = Cardinality(A) + Cardinality(B)
      /\ \A a \in A : DownTo(S, a) = DownTo(A, a)
      /\ \A b \in B : Cardinality(DownTo(S, b)) = Cardinality(A) + Cardinality(DownTo(B, b))
  BY Together
<1>2. /\ d \in Seq(A) /\ Len(d) = FirstOf(A, n)
      /\ \A i \in 1 .. Len(d) : d[i] \in A /\ Cardinality(DownTo(A, d[i])) = i
  BY DownIs
<1>3. A \subseteq S /\ B \subseteq S
  OBVIOUS
<1> HIDE DEF S, d
<1>4. \A i \in 1 .. Len(d) : Cardinality(DownTo(S, d[i])) = i
  BY <1>1, <1>2
<1>5. CASE Len(d) >= n
  <2>1. Len(d) = FirstOf(S, n)
    BY <1>1, <1>2, <1>5 DEF FirstOf
  <2>2. d \in Seq(S)
    BY <1>2, <1>3, SeqMonotonic
  <2>3. d = Down(S, n)
    BY <1>1, <1>4, <2>1, <2>2, DownUnique
  <2> QED BY <1>5, <2>3 DEF S, d
<1>6. CASE ~(Len(d) >= n)
  <2> DEFINE k == n - Len(d)
             e == Down(B, k)
             f == d \o e
  <2>1. Len(d) = Cardinality(A) /\ k \in Nat /\ k = n - Cardinality(A)
    BY <1>1, <1>2, <1>6 DEF FirstOf
  <2> HIDE DEF k
  <2>2. /\ e \in Seq(B) /\ Len(e) = FirstOf(B, k)
        /\ \A i \in 1 .. Len(e) : e[i] \in B /\ Cardinality(DownTo(B, e[i])) = i
    <3>1. /\ e \in Seq(B) /\ Len(e) = FirstOf(B, k)
          /\ \A i \in 1 .. FirstOf(B, k) : e[i] \in B /\ Cardinality(DownTo(B, e[i])) = i
      BY <2>1, DownIs
    <3> QED BY <3>1
  <2> HIDE DEF e
  <2>3. d \in Seq(S) /\ e \in Seq(S)
    BY <1>2, <1>3, <2>2, SeqMonotonic
  <2>4. /\ f \in Seq(S) /\ Len(f) = Len(d) + Len(e) /\ Len(d) \in Nat /\ Len(e) \in Nat
        /\ \A i \in 1 .. Len(f) : f[i] = IF i <= Len(d) THEN d[i] ELSE e[i - Len(d)]
    BY <2>3, ConcatProperties, LenProperties
  <2> HIDE DEF f
  <2>5. Len(f) = FirstOf(S, n)
    BY <1>1, <2>1, <2>2, <2>4 DEF FirstOf
  <2>6. ASSUME NEW i \in 1 .. Len(f)
        PROVE  Cardinality(DownTo(S, f[i])) = i
    <3>1. CASE i <= Len(d)
      BY <1>4, <2>4, <3>1
    <3>2. CASE ~(i <= Len(d))
      <4>1. i - Len(d) \in 1 .. Len(e)
        BY <2>4, <3>2
      <4>2. e[i - Len(d)] \in B /\ Cardinality(DownTo(B, e[i - Len(d)])) = i - Len(d)
        BY <2>2, <4>1
      <4>3. Cardinality(DownTo(S, f[i])) = Cardinality(A) + (i - Len(d))
        BY <1>1, <2>4, <3>2, <4>2
      <4> QED BY <1>1, <2>1, <4>3
    <3> QED BY <3>1, <3>2
  <2>7. f = Down(S, n)
    BY <1>1, <2>4, <2>5, <2>6, DownUnique
  <2> QED BY <1>6, <2>7 DEF S, d, k, e, f
<1> QED BY <1>5, <1>6

LEMMA UpJoins ==
    ASSUME NEW A \in SUBSET Nat, IsFiniteSet(A), NEW B \in SUBSET Nat, IsFiniteSet(B),
           \A a \in A, b \in B : b < a, NEW n \in Nat \ {0}
    PROVE  /\ Cardinality(B) >= n => Up(A \cup B, n) = Up(B, n)
           /\ Cardinality(B) < n /\ A # {} => Up(A \cup B, n) = Up(A, n - Cardinality(B))
<1> DEFINE S == A \cup B
<1>1. /\ S \in SUBSET Nat /\ IsFiniteSet(S)
      /\ Cardinality(A) \in Nat /\ Cardinality(B) \in Nat
      /\ Cardinality(S) = Cardinality(A) + Cardinality(B)
      /\ \A b \in B : UpTo(S, b) = UpTo(B, b)
      /\ \A a \in A : Cardinality(UpTo(S, a)) = Cardinality(B) + Cardinality(UpTo(A, a))
  BY Together
<1>2. A \subseteq S /\ B \subseteq S
  OBVIOUS
<1> HIDE DEF S
<1>3. ASSUME Cardinality(B) >= n
      PROVE  Up(S, n) = Up(B, n)
  <2>1. B # {}
    BY <1>3, FS_EmptySet
  <2>2. Up(B, n) \in B /\ Cardinality(UpTo(B, Up(B, n))) = FirstOf(B, n)
    BY <2>1, UpIs
  <2>3. FirstOf(B, n) = FirstOf(S, n)
    BY <1>1, <1>3 DEF FirstOf
  <2>4. Up(B, n) \in S /\ Cardinality(UpTo(S, Up(B, n))) = FirstOf(S, n)
    BY <1>1, <1>2, <2>2, <2>3
  <2> QED BY <1>1, <2>4, UpUnique
<1>4. ASSUME Cardinality(B) < n, A # {}
      PROVE  Up(S, n) = Up(A, n - Cardinality(B))
  <2> DEFINE k == n - Cardinality(B)
  <2>1. k \in Nat \ {0}
    BY <1>1, <1>4
  <2>2. Up(A, k) \in A /\ Cardinality(UpTo(A, Up(A, k))) = FirstOf(A, k)
    BY <1>4, <2>1, UpIs
  <2>3. Cardinality(B) + FirstOf(A, k) = FirstOf(S, n)
    BY <1>1, <1>4 DEF FirstOf
  <2>4. Up(A, k) \in S /\ Cardinality(UpTo(S, Up(A, k))) = FirstOf(S, n)
    BY <1>1, <1>2, <2>2, <2>3
  <2> HIDE DEF k
  <2>5. Up(A, k) = Up(S, n)
    BY <1>1, <2>4, UpUnique
  <2> QED BY <2>5 DEF k
<1> QED BY <1>3, <1>4 DEF S

----------------------------------------------------------------------------
(***************************************************************************)
(* Records and days.  The days follow each other; a record is in a         *)
(* day whose file has a bucket of the domain.                              *)
(***************************************************************************)
Days == 1 .. LastDate

LEMMA DaysFollow ==
    ASSUME NEW x \in Days, NEW y \in Days, NEW r \in Day(x), NEW s \in Day(y)
    PROVE  /\ r \in Nat \ {0} /\ s \in Nat \ {0}
           /\ x < y => r < s
           /\ x # y => r # s
<1>1. PerDay \in Nat \ {0} /\ LastDate \in Nat \ {0}
  BY ChangelogPagesAssumption DEF ChangelogPagesAssumption
<1>2. x \in Nat \ {0} /\ y \in Nat \ {0}
  BY <1>1 DEF Days
<1>3. ASSUME NEW a \in Nat, NEW b \in Nat \ {0}, a < b
      PROVE  a * PerDay <= (b - 1) * PerDay
  <2>1. (b - 1) * PerDay = a * PerDay + (b - 1 - a) * PerDay
    BY <1>1
  <2>2. (b - 1 - a) * PerDay \in Nat
    BY <1>1, <1>3
  <2>3. a * PerDay \in Nat
    BY <1>1
  <2> QED BY <2>1, <2>2, <2>3
<1>4. /\ 0 <= (x - 1) * PerDay /\ 0 <= (y - 1) * PerDay
      /\ (x - 1) * PerDay \in Nat /\ x * PerDay \in Nat
      /\ (y - 1) * PerDay \in Nat /\ y * PerDay \in Nat
  BY <1>1, <1>2
<1>5. r \in Nat \ {0} /\ (x - 1) * PerDay < r /\ r <= x * PerDay
  BY <1>4 DEF Day
<1>6. s \in Nat \ {0} /\ (y - 1) * PerDay < s /\ s <= y * PerDay
  BY <1>4 DEF Day
<1>7. x < y => r < s
  <2>1. x < y => x * PerDay <= (y - 1) * PerDay
    BY <1>2, <1>3
  <2> QED BY <1>4, <1>5, <1>6, <2>1
<1>8. y < x => s < r
  <2>1. y < x => y * PerDay <= (x - 1) * PerDay
    BY <1>2, <1>3
  <2> QED BY <1>4, <1>5, <1>6, <2>1
<1> QED
  BY <1>2, <1>5, <1>6, <1>7, <1>8

ChangelogInv ==
    /\ today \in Days
    /\ files \in SUBSET (1 .. today)
    /\ buckets \in SUBSET files
    /\ records \in SUBSET Nat
    /\ IsFiniteSet(records)
    /\ \A r \in records : \E m \in buckets : r \in Day(m)

LEMMA ChangelogStarts == ChangelogInit => ChangelogInv
<1> SUFFICES ASSUME ChangelogInit PROVE ChangelogInv
  OBVIOUS
<1>1. LastDate \in Nat \ {0}
  BY ChangelogPagesAssumption DEF ChangelogPagesAssumption
<1>2. 1 \in Days
  BY <1>1 DEF Days
<1> QED BY <1>2, FS_EmptySet DEF ChangelogInit, ChangelogInv

LEMMA ChangelogStep ==
    ASSUME ChangelogInv, [ChangelogNext]_changelogVars
    PROVE  ChangelogInv'
<1>1. LastDate \in Nat \ {0} /\ today \in Nat
  BY ChangelogPagesAssumption DEF ChangelogPagesAssumption, ChangelogInv, Days
<1>2. ASSUME NEW r \in Day(today), RecordAdded(r)
      PROVE  ChangelogInv'
  <2>1. r \in Nat
    BY <1>2, DaysFollow DEF ChangelogInv
  <2>2. IsFiniteSet(records \cup {r})
    BY FS_AddElement DEF ChangelogInv
  <2>3. today \in 1 .. today
    BY <1>1 DEF ChangelogInv, Days
  <2> QED BY <1>2, <2>1, <2>2, <2>3 DEF RecordAdded, ChangelogInv
<1>3. ASSUME OtherRecordAdded
      PROVE  ChangelogInv'
  <2>1. today \in 1 .. today
    BY <1>1 DEF ChangelogInv, Days
  <2> QED BY <1>3, <2>1 DEF OtherRecordAdded, ChangelogInv
<1>4. ASSUME NEW r \in records, DeleteChangelogRecord(r)
      PROVE  ChangelogInv'
  <2>1. IsFiniteSet(records \ {r})
    BY FS_RemoveElement DEF ChangelogInv
  <2> QED BY <1>4, <2>1 DEF DeleteChangelogRecord, ChangelogInv
<1>5. ASSUME DayEnds
      PROVE  ChangelogInv'
  <2>1. today' \in Days /\ 1 .. today \subseteq 1 .. today'
    BY <1>1, <1>5 DEF DayEnds, Days, ChangelogInv
  <2> QED BY <1>5, <2>1 DEF DayEnds, ChangelogInv
<1>6. CASE UNCHANGED changelogVars
  BY <1>6 DEF changelogVars, ChangelogInv
<1> QED
  BY <1>2, <1>3, <1>4, <1>5, <1>6 DEF ChangelogNext

\* What the proofs below use of it.
LEMMA RecordsInDays ==
    ASSUME ChangelogInv
    PROVE  /\ files \subseteq Days /\ buckets \subseteq Days
           /\ \A S \in SUBSET records : S \in SUBSET Nat /\ IsFiniteSet(S)
           /\ \A m \in Days : In(m) \in SUBSET records /\ (m \notin buckets => In(m) = {})
           /\ \A r \in records : r \in Nat /\ r # Blank /\ \E m \in buckets : r \in In(m)
           /\ \A m, n \in Days : \A r \in In(m), s \in In(n) :
                  (m < n => r < s) /\ (m # n => r # s)
<1>1. LastDate \in Nat /\ today \in Nat /\ today <= LastDate
  BY ChangelogPagesAssumption DEF ChangelogPagesAssumption, ChangelogInv, Days
<1>2. files \subseteq Days /\ buckets \subseteq Days
  BY <1>1 DEF ChangelogInv, Days
<1>3. \A S \in SUBSET records : S \in SUBSET Nat /\ IsFiniteSet(S)
  BY FS_Subset DEF ChangelogInv
<1>4. \A m, n \in Days : \A r \in In(m), s \in In(n) : (m < n => r < s) /\ (m # n => r # s)
  BY DaysFollow DEF In
<1>5. \A r \in records : r \in Nat /\ r # Blank /\ \E m \in buckets : r \in In(m)
  <2> TAKE r \in records
  <2>1. PICK m \in buckets : r \in Day(m)
    BY DEF ChangelogInv
  <2>2. r \in Nat /\ r # 0
    BY <1>2, <2>1, DaysFollow
  <2> QED BY <2>1, <2>2 DEF In, Blank
<1>6. \A m \in Days : In(m) \in SUBSET records /\ (m \notin buckets => In(m) = {})
  <2> SUFFICES ASSUME NEW m \in Days, m \notin buckets, NEW r \in In(m)
               PROVE  FALSE
    BY DEF In
  <2>1. PICK n \in buckets : r \in In(n)
    BY <1>5 DEF In
  <2> QED BY <1>2, <1>4, <2>1
<1> QED
  BY <1>2, <1>3, <1>4, <1>5, <1>6

----------------------------------------------------------------------------
(***************************************************************************)
(* The loops: a function of how many days were walked exists, as it        *)
(* exists up to any number of them.                                        *)
(***************************************************************************)
LEMMA CollectedIs ==
    ASSUME NEW m \in Nat \ {0}, NEW k
    PROVE  \E read : /\ read = [d \in 0 .. m - 1 |->
                                  IF d = 0 THEN ReadFirst(m, k) ELSE ReadOn(read[d - 1], m - d)]
                     /\ Collected(m, k) = read[m - 1]
<1> DEFINE Reads(f, n) == f = [d \in 0 .. n |->
                                   IF d = 0 THEN ReadFirst(m, k) ELSE ReadOn(f[d - 1], m - d)]
           T == {n \in 0 .. m - 1 : \E f : Reads(f, n)}
<1>1. 0 \in T
  <2> DEFINE f == [d \in 0 .. 0 |-> ReadFirst(m, k)]
  <2>1. Reads(f, 0)
    OBVIOUS
  <2> HIDE DEF Reads
  <2> QED BY <2>1
<1>2. ASSUME NEW n \in 0 .. m - 1, n \in T, n < m - 1
      PROVE  n + 1 \in T
  <2>1. PICK f : Reads(f, n)
    BY <1>2
  <2> DEFINE g == [d \in 0 .. n + 1 |-> IF d <= n THEN f[d] ELSE ReadOn(f[n], m - (n + 1))]
  <2>2. \A d \in 0 .. n : f[d] = IF d = 0 THEN ReadFirst(m, k) ELSE ReadOn(f[d - 1], m - d)
    BY <2>1
  <2>3. \A d \in 0 .. n : g[d] = f[d]
    OBVIOUS
  <2>4. g[n + 1] = ReadOn(g[n], m - (n + 1))
    OBVIOUS
  <2>5. \A d \in 0 .. n + 1 :
            g[d] = IF d = 0 THEN ReadFirst(m, k) ELSE ReadOn(g[d - 1], m - d)
    <3> SUFFICES ASSUME NEW d \in 0 .. n + 1
                 PROVE  g[d] = IF d = 0 THEN ReadFirst(m, k) ELSE ReadOn(g[d - 1], m - d)
      OBVIOUS
    <3> HIDE DEF g
    <3>1. CASE d = n + 1
      BY <2>4, <3>1
    <3>2. CASE d # n + 1
      <4>1. d \in 0 .. n /\ (d # 0 => d - 1 \in 0 .. n)
        BY <3>2
      <4> QED BY <2>2, <2>3, <4>1
    <3> QED BY <3>1, <3>2
  <2>6. Reads(g, n + 1)
    BY <2>5
  <2> HIDE DEF Reads
  <2> QED BY <1>2, <2>6
<1>3. m - 1 \in T
  <2> HIDE DEF T
  <2>1. m - 1 \in Nat
    OBVIOUS
  <2> QED BY <1>1, <1>2, <2>1, ReachesAll
<1>4. \E f : Reads(f, m - 1)
  BY <1>3
<1> DEFINE read == CHOOSE f : Reads(f, m - 1)
<1>5. Reads(read, m - 1)
  <2> HIDE DEF Reads
  <2> QED BY <1>4
<1>6. Collected(m, k) = read[m - 1]
  BY DEF Collected
<1> QED
  BY <1>5, <1>6

LEMMA NextStartIs ==
    ASSUME NEW m \in Days, NEW start, start # Blank
    PROVE  \E climb : /\ climb = [d \in 0 .. LastDate - m |->
                             IF d = 0 THEN ClimbFirst(m, start) ELSE ClimbOn(climb[d - 1], m + d)]
                      /\ NextStart(m, start) = climb[LastDate - m].next
<1> DEFINE N == LastDate - m
           Climbs(f, n) == f = [d \in 0 .. n |->
                             IF d = 0 THEN ClimbFirst(m, start) ELSE ClimbOn(f[d - 1], m + d)]
           T == {n \in 0 .. N : \E f : Climbs(f, n)}
<1>0. N \in Nat
  BY ChangelogPagesAssumption DEF ChangelogPagesAssumption, Days
<1>1. 0 \in T
  <2> DEFINE f == [d \in 0 .. 0 |-> ClimbFirst(m, start)]
  <2>1. Climbs(f, 0)
    OBVIOUS
  <2> HIDE DEF Climbs, N
  <2> QED BY <1>0, <2>1
<1>2. ASSUME NEW n \in 0 .. N, n \in T, n < N
      PROVE  n + 1 \in T
  <2>1. PICK f : Climbs(f, n)
    BY <1>2
  <2> DEFINE g == [d \in 0 .. n + 1 |-> IF d <= n THEN f[d] ELSE ClimbOn(f[n], m + (n + 1))]
  <2> HIDE DEF N
  <2>2. \A d \in 0 .. n : f[d] = IF d = 0 THEN ClimbFirst(m, start) ELSE ClimbOn(f[d - 1], m + d)
    BY <2>1
  <2>3. \A d \in 0 .. n : g[d] = f[d]
    OBVIOUS
  <2>4. g[n + 1] = ClimbOn(g[n], m + (n + 1))
    OBVIOUS
  <2>5. \A d \in 0 .. n + 1 :
            g[d] = IF d = 0 THEN ClimbFirst(m, start) ELSE ClimbOn(g[d - 1], m + d)
    <3> SUFFICES ASSUME NEW d \in 0 .. n + 1
                 PROVE  g[d] = IF d = 0 THEN ClimbFirst(m, start) ELSE ClimbOn(g[d - 1], m + d)
      OBVIOUS
    <3> HIDE DEF g
    <3>1. CASE d = n + 1
      BY <2>4, <3>1
    <3>2. CASE d # n + 1
      <4>1. d \in 0 .. n /\ (d # 0 => d - 1 \in 0 .. n)
        BY <3>2
      <4> QED BY <2>2, <2>3, <4>1
    <3> QED BY <3>1, <3>2
  <2>6. Climbs(g, n + 1)
    BY <2>5
  <2> HIDE DEF Climbs
  <2> QED BY <1>0, <1>2, <2>6
<1>3. N \in T
  <2> HIDE DEF T, N
  <2> QED BY <1>0, <1>1, <1>2, ReachesAll
<1>4. \E f : Climbs(f, N)
  BY <1>3
<1> DEFINE climb == CHOOSE f : Climbs(f, N)
<1>5. Climbs(climb, N)
  <2> HIDE DEF Climbs
  <2> QED BY <1>4
<1>6. NextStart(m, start) = climb[N].next
  BY DEF NextStart
<1> QED
  BY <1>5, <1>6

----------------------------------------------------------------------------
(***************************************************************************)
(* The way back.  What has been read is the page of the records passed,    *)
(* and its oldest record is in the file read last.                         *)
(***************************************************************************)
NoBucketEmpty == \A m \in buckets : In(m) # {}

RightPage(p, m, S) ==
    /\ p.got = Down(S, PageLimit)
    /\ p.fails = FALSE
    /\ S = {} => p.previous = Blank /\ p.file = m
    /\ S # {} => /\ p.file \in Days
                 /\ Last(p.got) \in In(p.file)
                 /\ p.previous = Newest({r \in In(p.file) : r < Last(p.got)})

\* A page of some records has some, and the last of them is one of them.
LEMMA PageOfSome ==
    ASSUME ChangelogInv, NEW S \in SUBSET records, NEW n \in Nat \ {0}
    PROVE  /\ Down(S, n) \in Seq(S) /\ Len(Down(S, n)) \in 0 .. n
           /\ S = {} => Down(S, n) = <<>>
           /\ S # {} => Down(S, n) # <<>> /\ Len(Down(S, n)) > 0 /\ Last(Down(S, n)) \in S
<1> DEFINE d == Down(S, n)
<1>1. S \in SUBSET Nat /\ IsFiniteSet(S)
  BY RecordsInDays
<1>2. Cardinality(S) \in Nat /\ (Cardinality(S) = 0 <=> S = {})
  BY <1>1, FS_CardinalityType, FS_EmptySet
<1>3. d \in Seq(S) /\ Len(d) = FirstOf(S, n)
  BY <1>1, DownIs
<1> HIDE DEF d
<1>4. Len(d) \in 0 .. n /\ (S = {} <=> Len(d) = 0)
  BY <1>2, <1>3 DEF FirstOf
<1>5. S = {} => d = <<>>
  BY <1>3, <1>4, EmptySeq
<1>6. S # {} => d # <<>> /\ Len(d) > 0
  BY <1>4, EmptySeq
<1>7. S # {} => Last(d) \in S
  <2> SUFFICES ASSUME S # {} PROVE Last(d) \in S
    OBVIOUS
  <2>1. Len(d) \in 1 .. Len(d)
    BY <1>4
  <2>2. d[Len(d)] \in S
    BY <1>3, <2>1, ElementOfSeq
  <2> QED BY <2>2 DEF Last
<1> QED
  BY <1>3, <1>4, <1>5, <1>6, <1>7 DEF d

LEMMA ReadFirstIs ==
    ASSUME ChangelogInv, NEW m \in Days, NEW k
    PROVE  RightPage(ReadFirst(m, k), m, {r \in In(m) : r <= k})
<1> DEFINE S == {r \in In(m) : r <= k}
<1>1. PageLimit \in Nat \ {0}
  BY ChangelogPagesAssumption DEF ChangelogPagesAssumption
<1>2. S \in SUBSET records /\ S \subseteq In(m)
  BY DEF In
<1>3. ReadFirst(m, k) =
          [got |-> Down(S, PageLimit), file |-> m, fails |-> FALSE,
           previous |-> IF Down(S, PageLimit) = <<>> THEN Blank
                        ELSE Newest({r \in In(m) : r < Last(Down(S, PageLimit))})]
  BY DEF ReadFirst
<1> HIDE DEF S
<1>4. RightPage(ReadFirst(m, k), m, S)
  BY <1>1, <1>2, <1>3, PageOfSome DEF RightPage
<1> QED BY <1>4 DEF S

LEMMA ReadOnIs ==
    ASSUME ChangelogInv, NoBucketEmpty, NEW m \in Days, NEW x \in Days,
           NEW S \in SUBSET records, \A a \in S, b \in In(x) : b < a,
           NEW p, RightPage(p, m, S)
    PROVE  RightPage(ReadOn(p, x), m, S \cup In(x))
<1> DEFINE got == Down(S, PageLimit)
           k == PageLimit - Len(got)
           more == Down(In(x), k)
<1>1. PageLimit \in Nat \ {0}
  BY ChangelogPagesAssumption DEF ChangelogPagesAssumption
<1>2. /\ S \in SUBSET Nat /\ IsFiniteSet(S) /\ In(x) \in SUBSET records
      /\ In(x) \in SUBSET Nat /\ IsFiniteSet(In(x))
  BY RecordsInDays
<1>3. Down(S \cup In(x), PageLimit) = IF Len(got) >= PageLimit THEN got ELSE got \o more
  BY <1>1, <1>2, DownJoins
<1>4. p.got = got /\ got \in Seq(S) /\ Len(got) \in Nat
  BY <1>1, PageOfSome DEF RightPage
<1>5. CASE x \notin buckets
  <2>1. S \cup In(x) = S /\ ReadOn(p, x) = p
    BY <1>5, RecordsInDays DEF ReadOn
  <2> QED BY <2>1
<1>6. CASE x \in buckets /\ Len(got) >= PageLimit
  <2>1. ReadOn(p, x) = p
    BY <1>4, <1>6 DEF ReadOn
  <2>2. S # {}
    <3>1. Len(got) # 0
      BY <1>1, <1>4, <1>6
    <3>2. got # <<>>
      BY <3>1, EmptySeq
    <3> QED BY <1>1, <3>2, PageOfSome
  <2> HIDE DEF got, more
  <2>3. Down(S \cup In(x), PageLimit) = p.got
    BY <1>3, <1>4, <1>6
  <2> QED BY <2>1, <2>2, <2>3 DEF RightPage
<1>7. CASE x \in buckets /\ ~(Len(got) >= PageLimit)
  <2> DEFINE all == got \o more
  <2>1. k \in Nat \ {0} /\ In(x) # {}
    BY <1>1, <1>4, <1>7 DEF NoBucketEmpty
  <2> HIDE DEF k, got
  <2>2. more \in Seq(In(x)) /\ Len(more) > 0 /\ Last(more) \in In(x)
    BY <1>2, <2>1, PageOfSome
  <2>3. ReadOn(p, x) = [got |-> all, file |-> x, fails |-> p.fails,
                        previous |-> Newest({r \in In(x) : r < Last(all)})]
    BY <1>4, <1>7, <2>1 DEF ReadOn, k
  <2> HIDE DEF more
  <2>4. Last(all) \in In(x)
    <3>1. got \in Seq(records) /\ more \in Seq(records)
      BY <1>2, <1>4, <2>2, SeqMonotonic
    <3>2. /\ Len(all) = Len(got) + Len(more)
          /\ \A i \in 1 .. Len(got) + Len(more) :
                 all[i] = IF i <= Len(got) THEN got[i] ELSE more[i - Len(got)]
      BY <3>1, ConcatProperties
    <3>3. Len(got) \in Nat /\ Len(more) \in Nat
      BY <3>1, LenProperties
    <3> HIDE DEF all
    <3>4. all[Len(all)] = more[Len(more)]
      BY <2>2, <3>2, <3>3
    <3> QED BY <2>2, <3>4 DEF Last
  <2>5. all = Down(S \cup In(x), PageLimit)
    BY <1>3, <1>7
  <2>6. S \cup In(x) # {}
    BY <2>1
  <2> HIDE DEF all
  <2> QED BY <2>3, <2>4, <2>5, <2>6 DEF RightPage
<1> QED
  BY <1>5, <1>6, <1>7

\* The records passed after d days: those of the first file up to the start.
Passed(m, k, d) ==
    {r \in In(m) : r <= k}
    \cup {r \in records : \E x \in Days : m - d <= x /\ x < m /\ r \in In(x)}

LEMMA CollectedRight ==
    ASSUME ChangelogInv, NoBucketEmpty, NEW m \in Days, NEW k
    PROVE  RightPage(Collected(m, k), m, Passed(m, k, m - 1))
<1>1. m \in Nat \ {0} /\ m - 1 \in Nat /\ LastDate \in Nat /\ m <= LastDate
  BY ChangelogPagesAssumption DEF ChangelogPagesAssumption, Days
<1>2. PICK read : /\ read = [d \in 0 .. m - 1 |->
                              IF d = 0 THEN ReadFirst(m, k) ELSE ReadOn(read[d - 1], m - d)]
                  /\ Collected(m, k) = read[m - 1]
  BY <1>1, CollectedIs
<1>3. \A d \in 0 .. m - 1 :
          read[d] = IF d = 0 THEN ReadFirst(m, k) ELSE ReadOn(read[d - 1], m - d)
  BY <1>2
<1> DEFINE T == {d \in 0 .. m - 1 : RightPage(read[d], m, Passed(m, k, d))}
<1>4. 0 \in T
  <2>1. Passed(m, k, 0) = {r \in In(m) : r <= k}
    <3>1. \A x \in Days : ~(m - 0 <= x /\ x < m)
      BY <1>1 DEF Days
    <3> QED BY <3>1 DEF Passed
  <2>2. read[0] = ReadFirst(m, k)
    BY <1>1, <1>3
  <2> QED BY <1>1, <2>1, <2>2, ReadFirstIs
<1>5. ASSUME NEW d \in 0 .. m - 1, d \in T, d < m - 1
      PROVE  d + 1 \in T
  <2> DEFINE x == m - (d + 1)
             S == Passed(m, k, d)
  <2>1. x \in Days /\ x < m /\ d + 1 \in 0 .. m - 1
    BY <1>1, <1>5 DEF Days
  <2>2. read[d + 1] = ReadOn(read[d], x)
    BY <1>1, <1>3, <1>5
  <2>3. S \in SUBSET records
    BY DEF Passed, In
  <2>4. \A a \in S, b \in In(x) : b < a
    <3> SUFFICES ASSUME NEW a \in S, NEW b \in In(x) PROVE b < a
      OBVIOUS
    <3>1. PICK y \in Days : m - d <= y /\ a \in In(y)
      <4>1. m - d <= m
        BY <1>1
      <4> QED BY <4>1 DEF Passed
    <3>2. x < y
      BY <1>1, <3>1 DEF Days
    <3> HIDE DEF x
    <3> QED BY <2>1, <3>1, <3>2, RecordsInDays
  <2>5. Passed(m, k, d + 1) = S \cup In(x)
    <3>1. \A y \in Days : m - (d + 1) <= y /\ y < m <=> (m - d <= y /\ y < m) \/ y = x
      BY <1>1, <1>5 DEF Days
    <3>2. In(x) \subseteq records
      BY DEF In
    <3> HIDE DEF x
    <3> QED BY <2>1, <3>1, <3>2 DEF Passed
  <2>6. RightPage(read[d], m, S)
    BY <1>5
  <2> HIDE DEF x, S
  <2>7. RightPage(ReadOn(read[d], x), m, S \cup In(x))
    BY <2>1, <2>3, <2>4, <2>6, ReadOnIs
  <2> QED BY <2>1, <2>2, <2>5, <2>7
<1>6. m - 1 \in T
  <2> HIDE DEF T
  <2> QED BY <1>1, <1>4, <1>5, ReachesAll
<1> QED
  BY <1>2, <1>6

\* Without an older record in the file read last, the newest of the earlier files is it.
LEMMA PreviousRight ==
    ASSUME ChangelogInv, NEW m \in Days, NEW k, NEW c, RightPage(c, m, Passed(m, k, m - 1))
    PROVE  PreviousStart(c) = IF c.got = <<>> THEN Blank
                              ELSE Newest({r \in records : r < Last(c.got)})
<1> DEFINE R == Passed(m, k, m - 1)
           earlier == UNION {In(x) : x \in {y \in buckets : y < c.file}}
<1>1. PageLimit \in Nat \ {0} /\ LastDate \in Nat
  BY ChangelogPagesAssumption DEF ChangelogPagesAssumption
<1>2. R \in SUBSET records
  BY DEF Passed, In
<1>3. PreviousStart(c) = IF c.previous # Blank THEN c.previous ELSE Newest(earlier)
  BY DEF PreviousStart
<1>4. CASE R = {}
  <2>1. c.got = <<>> /\ c.previous = Blank /\ c.file = m
    BY <1>1, <1>2, <1>4, PageOfSome DEF RightPage
  <2>2. earlier = {}
    <3> SUFFICES ASSUME NEW x \in buckets, x < m, NEW r \in In(x) PROVE FALSE
      BY <2>1
    <3>1. x \in Days /\ r \in records /\ m - (m - 1) <= x
      BY <1>1, RecordsInDays DEF Days, In
    <3>2. r \in R
      BY <3>1 DEF Passed
    <3> QED BY <1>4, <3>2
  <2>3. Newest(earlier) = Blank
    BY <2>2 DEF Newest
  <2> QED BY <1>3, <2>1, <2>3
<1>5. CASE R # {}
  <2> DEFINE f == c.file
             l == Last(c.got)
             older == {r \in In(f) : r < l}
             all == {r \in records : r < l}
  <2>1. c.got # <<>> /\ f \in Days /\ l \in In(f) /\ c.previous = Newest(older)
    BY <1>1, <1>2, <1>5, PageOfSome DEF RightPage
  <2>2. earlier = UNION {In(x) : x \in {y \in buckets : y < f}}
    OBVIOUS
  <2> HIDE DEF f, l
  <2>3. /\ older \in SUBSET records /\ older \in SUBSET Nat /\ IsFiniteSet(older)
        /\ all \in SUBSET records /\ all \in SUBSET Nat /\ IsFiniteSet(all)
        /\ older \subseteq all
    <3>1. older \in SUBSET records /\ all \in SUBSET records /\ older \subseteq all
      BY DEF In
    <3> HIDE DEF older, all
    <3> QED BY <3>1, RecordsInDays
  <2>4. \A r \in all : r \in older \/ \E x \in buckets : x < f /\ r \in In(x)
    <3> TAKE r \in all
    <3>1. PICK x \in buckets : r \in In(x)
      BY <2>3, RecordsInDays
    <3>2. x \in Days /\ x \in Int /\ f \in Int
      BY <1>1, <2>1, RecordsInDays DEF Days
    <3>3. r < l /\ r \in Int /\ l \in Int
      BY <2>1, <2>3, RecordsInDays
    <3>4. ~(f < x)
      <4>1. f < x => l < r
        BY <2>1, <3>1, <3>2, RecordsInDays
      <4> QED BY <3>3, <4>1
    <3> QED BY <3>1, <3>2, <3>3, <3>4
  <2>5. \A x \in buckets : x < f => \A r \in In(x) : r \in all /\ \A s \in In(f) : r < s
    BY <2>1, RecordsInDays DEF In
  <2>6. CASE older # {}
    <3> DEFINE n == Newest(older)
    <3>1. n \in older /\ \A x \in older : x <= n
      BY <2>3, <2>6, NewestIs
    <3> HIDE DEF n
    <3>2. n # Blank
      BY <2>3, <3>1, RecordsInDays
    <3>3. \A r \in all : r <= n
      <4> TAKE r \in all
      <4>1. CASE r \in older
        BY <3>1, <4>1
      <4>2. CASE r \notin older
        <5>1. r < n /\ r \in Int /\ n \in Int
          BY <2>3, <2>4, <2>5, <3>1, <4>2
        <5> QED BY <5>1
      <4> QED BY <4>1, <4>2
    <3>4. Newest(all) = n
      <4> HIDE DEF older, all
      <4> QED BY <2>3, <3>1, <3>3, NewestIs
    <3>5. c.previous = n
      BY <2>1 DEF n
    <3> QED BY <1>3, <2>1, <3>2, <3>4, <3>5 DEF l
  <2>7. CASE older = {}
    <3>1. c.previous = Blank
      <4>1. Newest(older) = Blank
        BY <2>7 DEF Newest
      <4> QED BY <2>1, <4>1
    <3>2. earlier = all
      <4>1. all \subseteq earlier
        BY <2>2, <2>4, <2>7
      <4>2. earlier \subseteq all
        BY <2>2, <2>5
      <4> QED BY <4>1, <4>2
    <3> HIDE DEF earlier
    <3> QED BY <1>3, <2>1, <3>1, <3>2 DEF l
  <2> QED BY <2>6, <2>7
<1> QED BY <1>4, <1>5

----------------------------------------------------------------------------
(***************************************************************************)
(* The way up.  The climb is at the last of its steps through the records  *)
(* behind the start, and counts them until it has enough.                  *)
(***************************************************************************)
RightClimb(c, S) ==
    /\ c.next = Up(S, PageLimit)
    /\ c.steps \in Nat
    /\ IF c.steps >= PageLimit THEN Cardinality(S) >= PageLimit ELSE Cardinality(S) = c.steps

LEMMA ClimbOnIs ==
    ASSUME ChangelogInv, NoBucketEmpty, NEW x \in Days, NEW S \in SUBSET records,
           \A a \in In(x), b \in S : b < a, NEW c, RightClimb(c, S)
    PROVE  RightClimb(ClimbOn(c, x), In(x) \cup S)
<1>1. PageLimit \in Nat \ {0}
  BY ChangelogPagesAssumption DEF ChangelogPagesAssumption
<1>2. /\ S \in SUBSET Nat /\ IsFiniteSet(S)
      /\ In(x) \in SUBSET Nat /\ IsFiniteSet(In(x))
  BY RecordsInDays
<1>3. /\ Cardinality(In(x)) \in Nat /\ Cardinality(S) \in Nat
      /\ Cardinality(In(x) \cup S) = Cardinality(In(x)) + Cardinality(S)
  BY <1>2, Together
<1>4. /\ Cardinality(S) >= PageLimit => Up(In(x) \cup S, PageLimit) = Up(S, PageLimit)
      /\ Cardinality(S) < PageLimit /\ In(x) # {} =>
             Up(In(x) \cup S, PageLimit) = Up(In(x), PageLimit - Cardinality(S))
  BY <1>1, <1>2, UpJoins
<1>5. CASE x \notin buckets
  <2>1. In(x) \cup S = S /\ ClimbOn(c, x) = c
    BY <1>5, RecordsInDays DEF ClimbOn
  <2> QED BY <2>1
<1>6. CASE x \in buckets /\ c.steps >= PageLimit
  <2>1. ClimbOn(c, x) = c
    BY <1>6 DEF ClimbOn
  <2>2. Cardinality(In(x) \cup S) >= PageLimit
    BY <1>1, <1>3, <1>6 DEF RightClimb
  <2> QED BY <1>4, <1>6, <2>1, <2>2 DEF RightClimb
<1>7. CASE x \in buckets /\ ~(c.steps >= PageLimit)
  <2> DEFINE n == c.steps + Cardinality(In(x))
             up == Up(In(x), PageLimit - c.steps)
  <2>1. ClimbOn(c, x) = [steps |-> n, next |-> up]
    BY <1>7 DEF ClimbOn
  <2>2. c.steps = Cardinality(S) /\ Cardinality(S) < PageLimit /\ In(x) # {}
    BY <1>1, <1>3, <1>7 DEF RightClimb, NoBucketEmpty
  <2>3. up = Up(In(x) \cup S, PageLimit)
    BY <1>4, <2>2
  <2>4. n = Cardinality(In(x) \cup S) /\ n \in Nat
    BY <1>3, <2>2
  <2> HIDE DEF n, up
  <2> QED BY <2>1, <2>3, <2>4 DEF RightClimb
<1> QED BY <1>5, <1>6, <1>7

\* The records behind the start, d days later.
Climbed(m, start, d) ==
    {r \in records : r > start /\ \E x \in Days : m <= x /\ x <= m + d /\ r \in In(x)}

LEMMA NextRight ==
    ASSUME ChangelogInv, NoBucketEmpty, NEW m \in Days, NEW start \in In(m)
    PROVE  NextStart(m, start) = Up({r \in records : r > start}, PageLimit)
<1>1. /\ PageLimit \in Nat \ {0} /\ LastDate \in Nat /\ m \in Nat
      /\ LastDate - m \in Nat /\ start \in records /\ start # Blank /\ start \in Nat
  BY ChangelogPagesAssumption, RecordsInDays DEF ChangelogPagesAssumption, Days, In
<1>2. PICK climb :
          /\ climb = [d \in 0 .. LastDate - m |->
                         IF d = 0 THEN ClimbFirst(m, start) ELSE ClimbOn(climb[d - 1], m + d)]
          /\ NextStart(m, start) = climb[LastDate - m].next
  BY <1>1, NextStartIs
<1>3. \A d \in 0 .. LastDate - m :
          climb[d] = IF d = 0 THEN ClimbFirst(m, start) ELSE ClimbOn(climb[d - 1], m + d)
  BY <1>2
<1> DEFINE T == {d \in 0 .. LastDate - m : RightClimb(climb[d], Climbed(m, start, d))}
<1>4. 0 \in T
  <2> DEFINE above == {r \in In(m) : r > start}
  <2>1. Climbed(m, start, 0) = above
    <3>1. \A x \in Days : m <= x /\ x <= m + 0 <=> x = m
      BY <1>1 DEF Days
    <3> QED BY <3>1 DEF Climbed, In
  <2>2. climb[0] = [steps |-> Cardinality(above), next |-> Up(above, PageLimit)]
    BY <1>1, <1>3 DEF ClimbFirst
  <2>3. Cardinality(above) \in Nat
    <3>1. above \in SUBSET records
      BY DEF In
    <3> HIDE DEF above
    <3> QED BY <3>1, RecordsInDays, FS_CardinalityType
  <2> HIDE DEF above
  <2> QED BY <1>1, <2>1, <2>2, <2>3 DEF RightClimb
<1>5. ASSUME NEW d \in 0 .. LastDate - m, d \in T, d < LastDate - m
      PROVE  d + 1 \in T
  <2> DEFINE x == m + (d + 1)
             S == Climbed(m, start, d)
  <2>1. x \in Days /\ m < x /\ d + 1 \in 0 .. LastDate - m
    BY <1>1, <1>5 DEF Days
  <2>2. climb[d + 1] = ClimbOn(climb[d], x)
    BY <1>1, <1>3, <1>5
  <2>3. S \in SUBSET records
    BY DEF Climbed
  <2>4. \A a \in In(x), b \in S : b < a
    <3> SUFFICES ASSUME NEW a \in In(x), NEW b \in S PROVE b < a
      OBVIOUS
    <3>1. PICK y \in Days : y <= m + d /\ b \in In(y)
      BY DEF Climbed
    <3>2. y < x
      BY <1>1, <3>1 DEF Days
    <3> HIDE DEF x
    <3> QED BY <2>1, <3>1, <3>2, RecordsInDays
  <2>5. Climbed(m, start, d + 1) = In(x) \cup S
    <3>1. \A y \in Days : m <= y /\ y <= m + (d + 1) <=> (m <= y /\ y <= m + d) \/ y = x
      BY <1>1, <1>5 DEF Days
    <3>2. In(x) \subseteq records
      BY DEF In
    <3> HIDE DEF x
    <3>3. \A r \in In(x) : r > start
      <4> TAKE r \in In(x)
      <4>1. start < r
        BY <2>1, RecordsInDays
      <4>2. r \in Int
        BY <3>2, RecordsInDays
      <4> QED BY <1>1, <4>1, <4>2
    <3> QED BY <2>1, <3>1, <3>2, <3>3 DEF Climbed
  <2>6. RightClimb(climb[d], S)
    BY <1>5
  <2> HIDE DEF x, S
  <2>7. RightClimb(ClimbOn(climb[d], x), In(x) \cup S)
    BY <2>1, <2>3, <2>4, <2>6, ClimbOnIs
  <2> QED BY <2>1, <2>2, <2>5, <2>7
<1>6. LastDate - m \in T
  <2> HIDE DEF T
  <2> QED BY <1>1, <1>4, <1>5, ReachesAll
<1>7. Climbed(m, start, LastDate - m) = {r \in records : r > start}
  <2> SUFFICES ASSUME NEW r \in records, r > start
               PROVE  \E x \in Days : m <= x /\ x <= m + (LastDate - m) /\ r \in In(x)
    BY DEF Climbed
  <2>1. PICK x \in buckets : r \in In(x)
    BY RecordsInDays
  <2>2. x \in Days /\ x \in Nat /\ x <= m + (LastDate - m) /\ r \in Int
    BY <1>1, RecordsInDays DEF Days
  <2>3. ~(x < m)
    <3>1. x < m => r < start
      BY <2>1, <2>2, RecordsInDays
    <3> QED BY <1>1, <2>2, <3>1
  <2> QED BY <1>1, <2>1, <2>2, <2>3
<1> QED
  BY <1>2, <1>6, <1>7 DEF RightClimb

----------------------------------------------------------------------------
(***************************************************************************)
(* The pages.                                                              *)
(***************************************************************************)
LEMMA PageFromRecord ==
    ASSUME ChangelogInv, NoBucketEmpty, NEW r \in records
    PROVE  ChangelogPage(r, TRUE) = ReferencePage(r)
<1> DEFINE upTo == {x \in records : x <= r}
<1>1. PICK m \in buckets : r \in In(m)
  BY RecordsInDays
<1>2. m \in Days /\ m \in files /\ m # 0 /\ m \in Nat /\ r # Blank /\ r \in Int
  BY <1>1, RecordsInDays, ChangelogPagesAssumption
     DEF ChangelogInv, ChangelogPagesAssumption, Days
<1>3. DayOf(r) = m
  <2>1. r \in Day(m) /\ m \in 1 .. LastDate
    BY <1>1, <1>2 DEF In, Days
  <2>2. \A x \in 1 .. LastDate : r \in Day(x) => x = m
    BY <1>1, <1>2, RecordsInDays DEF In, Days
  <2> QED BY <2>1, <2>2 DEF DayOf
<1>4. FirstFile(r) = m
  BY <1>2, <1>3 DEF FirstFile
<1> DEFINE c == Collected(m, r)
<1>5. RightPage(c, m, Passed(m, r, m - 1))
  BY <1>2, CollectedRight
<1>6. Passed(m, r, m - 1) = upTo
  <2>1. Passed(m, r, m - 1) \subseteq upTo
    <3> SUFFICES ASSUME NEW x \in Days, x < m, NEW s \in In(x) PROVE s \in upTo
      BY DEF Passed, In
    <3>1. s < r /\ s \in records /\ s \in Int
      BY <1>1, <1>2, RecordsInDays DEF In
    <3> QED BY <1>2, <3>1
  <2>2. upTo \subseteq Passed(m, r, m - 1)
    <3> SUFFICES ASSUME NEW s \in records, s <= r, s \notin In(m)
                 PROVE  s \in Passed(m, r, m - 1)
      BY DEF Passed
    <3>1. PICK x \in buckets : s \in In(x)
      BY RecordsInDays
    <3>2. x \in Days /\ x \in Nat \ {0} /\ x # m /\ s \in Int
      BY <3>1, RecordsInDays DEF Days
    <3>3. ~(m < x)
      <4>1. m < x => r < s
        BY <1>1, <1>2, <3>1, <3>2, RecordsInDays
      <4> QED BY <1>2, <3>2, <4>1
    <3>4. m - (m - 1) <= x /\ x < m
      BY <1>2, <3>2, <3>3
    <3> QED BY <3>1, <3>2, <3>4 DEF Passed
  <2> QED BY <2>1, <2>2
<1>7. c.got = Down(upTo, PageLimit) /\ c.fails = FALSE
  BY <1>5, <1>6 DEF RightPage
<1>8. PreviousStart(c) = IF c.got = <<>> THEN Blank ELSE Newest({x \in records : x < Last(c.got)})
  BY <1>2, <1>5, PreviousRight
<1>9. NextStart(m, r) = Up({x \in records : x > r}, PageLimit)
  BY <1>1, <1>2, NextRight
<1>10. ChangelogPage(r, TRUE) = [status |-> "ok", records |-> c.got,
                                 previous |-> PreviousStart(c), next |-> NextStart(m, r)]
  BY <1>1, <1>2, <1>3, <1>4, <1>7 DEF ChangelogPage
<1>11. ReferencePage(r) =
           [status |-> "ok", records |-> Down(upTo, PageLimit),
            previous |-> IF Down(upTo, PageLimit) = <<>> THEN Blank
                         ELSE Newest({x \in records : x < Last(Down(upTo, PageLimit))}),
            next |-> Up({x \in records : x > r}, PageLimit)]
  BY <1>2 DEF ReferencePage
<1> HIDE DEF c, upTo
<1> QED BY <1>7, <1>8, <1>9, <1>10, <1>11

LEMMA LatestPage ==
    ASSUME ChangelogInv, NoBucketEmpty, files # {}
    PROVE  ChangelogPage(Blank, TRUE) = ReferencePage(Blank)
<1> DEFINE m == FirstFile(Blank)
           k == Newest(In(m))
           c == Collected(m, k)
<1>1. m \in files /\ \A x \in files : x <= m
  <2>1. today \in Nat /\ LastDate \in Nat
    BY ChangelogPagesAssumption DEF ChangelogPagesAssumption, ChangelogInv, Days
  <2>2. \A x \in files : x \in Nat /\ x <= today
    BY <2>1 DEF ChangelogInv
  <2>3. CASE today \in files
    BY <2>2, <2>3 DEF FirstFile
  <2>4. CASE today \notin files
    <3>1. {x \in files : x < today} = files
      BY <2>1, <2>2, <2>4
    <3>2. m = Newest(files)
      BY <2>4, <3>1 DEF FirstFile
    <3>3. files \in SUBSET Nat /\ IsFiniteSet(files)
      BY <2>1, <2>2, FS_BoundedSetOfNaturals
    <3> QED BY <3>2, <3>3, NewestIs
  <2> QED BY <2>3, <2>4
<1>2. m \in Days /\ m # 0 /\ m \in Nat
  BY <1>1, RecordsInDays, ChangelogPagesAssumption DEF ChangelogPagesAssumption, Days
<1> HIDE DEF m
<1>3. RightPage(c, m, Passed(m, k, m - 1))
  BY <1>2, CollectedRight
<1>4. Passed(m, k, m - 1) = records
  <2>1. Passed(m, k, m - 1) \subseteq records
    BY DEF Passed, In
  <2>2. \A r \in In(m) : r <= k
    <3>1. In(m) \in SUBSET Nat /\ IsFiniteSet(In(m))
      BY <1>2, RecordsInDays
    <3> QED BY <3>1, NewestIs
  <2>3. ASSUME NEW r \in records
        PROVE  r \in Passed(m, k, m - 1)
    <3>1. PICK x \in buckets : r \in In(x)
      BY RecordsInDays
    <3>2. x \in Days /\ x \in Nat \ {0} /\ x <= m
      BY <1>1, <3>1, RecordsInDays DEF ChangelogInv, Days
    <3>3. m - (m - 1) <= x
      BY <1>2, <3>2
    <3>4. x = m \/ x < m
      BY <1>2, <3>2
    <3> HIDE DEF k
    <3> QED BY <2>2, <3>1, <3>2, <3>3, <3>4 DEF Passed
  <2> QED BY <2>1, <2>3
<1>5. c.got = Down(records, PageLimit) /\ c.fails = FALSE
  BY <1>3, <1>4 DEF RightPage
<1>6. PreviousStart(c) = IF c.got = <<>> THEN Blank ELSE Newest({x \in records : x < Last(c.got)})
  BY <1>2, <1>3, PreviousRight
<1>7. NextStart(m, Blank) = Blank
  BY DEF NextStart
<1>8. ChangelogPage(Blank, TRUE) = [status |-> "ok", records |-> c.got,
                                    previous |-> PreviousStart(c), next |-> Blank]
  BY <1>2, <1>5, <1>7 DEF ChangelogPage, m
<1>9. {r \in records : r <= Newest(records)} = records
  <2>1. records \in SUBSET Nat /\ IsFiniteSet(records)
    BY RecordsInDays
  <2> QED BY <2>1, NewestIs
<1>10. ReferencePage(Blank) =
           [status |-> "ok", records |-> Down(records, PageLimit),
            previous |-> IF Down(records, PageLimit) = <<>> THEN Blank
                         ELSE Newest({x \in records : x < Last(Down(records, PageLimit))}),
            next |-> Blank]
  BY <1>9 DEF ReferencePage
<1> HIDE DEF c
<1> QED BY <1>5, <1>6, <1>8, <1>10

(***************************************************************************)
(* ChangelogForDomain reads the files of the days as one list: for any     *)
(* number of days, records and files, and any length of a page.            *)
(***************************************************************************)
THEOREM PagesReadAsOneList == ChangelogSpec => []ChangelogReadsAsOneList
<1>1. ChangelogInv /\ [ChangelogNext]_changelogVars => ChangelogInv'
  BY ChangelogStep
<1>2. ChangelogInv => ChangelogReadsAsOneList
  BY PageFromRecord, LatestPage DEF ChangelogReadsAsOneList, NoBucketEmpty
<1> QED
  BY <1>1, <1>2, ChangelogStarts, PTL DEF ChangelogSpec
=============================================================================
