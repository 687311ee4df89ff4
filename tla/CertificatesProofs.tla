------------------------ MODULE CertificatesProofs --------------------------
(***************************************************************************)
(* Proofs of the invariants of Certificates, for any number of names,      *)
(* handshakes, renewals and set-ups.                                       *)
(*                                                                         *)
(* That a lone order is undisturbed needs more than the order itself: an   *)
(* order's end takes away the mark of its name, so every two orders that   *)
(* run for one name must know of each other (OverlapsClash), and an order  *)
(* must have a name exactly while it runs (OrdersShape).                   *)
(***************************************************************************)
EXTENDS Certificates, TLAPS

CertificateType == [exists : BOOLEAN, version : Nat, expires : Nat, changed : Nat]
Running == {"present", "validate", "clean up valid", "clean up invalid", "store", "stored", "failed"}
OrderType == [step : Running \cup {"idle", "ok", "error"}, name : Hosts \cup {None}, clash : BOOLEAN]
SetupType == [step : {"idle", "order", "ordered", "reset"}, name : Hosts \cup {None}, gone : BOOLEAN]

\* Every bucket holds what its Go type allows, and so does the memory.
CertificatesTypeOK ==
    /\ certificates \in [Hosts -> CertificateType]
    /\ challenges \in [Hosts -> Callers \cup {None}]
    /\ orders \in [Callers -> OrderType]
    /\ setups \in [Setups -> SetupType]
    /\ handshakes \in [Handshakes -> [step : {"idle", "ask", "order", "ordered", "wait"},
                                      name : Hosts \cup {None}]]
    /\ ignoring \subseteq Hosts
    /\ time \in Nat

\* An order has a name exactly while it runs.
OrdersShape == \A c \in Callers : orders[c].name = None <=> orders[c].step \notin Running

\* Of two orders for one name each knows that there was another.
OverlapsClash ==
    \A c, d \in Callers :
        orders[c].name # None /\ orders[c].name = orders[d].name /\ c # d => orders[c].clash

\* A handshake knows its name from the first to the last step.
HandshakesNamed == \A h \in Handshakes : handshakes[h].step # "idle" => handshakes[h].name \in Hosts
SetupsNamed == \A c \in Setups : setups[c].step # "idle" => setups[c].name \in Hosts

CertificatesInv ==
    /\ CertificatesTypeOK
    /\ OrdersShape
    /\ OverlapsClash
    /\ HandshakesNamed
    /\ SetupsNamed
    /\ ExpiryIndexExact
    /\ LoneOrdersUndisturbed
    /\ IgnoringAttended

\* The part of the invariant about the service.
OrdersInv ==
    /\ certificates \in [Hosts -> CertificateType]
    /\ challenges \in [Hosts -> Callers \cup {None}]
    /\ orders \in [Callers -> OrderType]
    /\ OrdersShape
    /\ OverlapsClash
    /\ ExpiryIndexExact
    /\ LoneOrdersUndisturbed

\* The part about who is there to look after names.
AttendanceInv ==
    /\ setups \in [Setups -> SetupType]
    /\ handshakes \in [Handshakes -> [step : {"idle", "ask", "order", "ordered", "wait"},
                                      name : Hosts \cup {None}]]
    /\ ignoring \subseteq Hosts
    /\ time \in Nat
    /\ HandshakesNamed
    /\ SetupsNamed
    /\ IgnoringAttended

LEMMA InvParts == CertificatesInv <=> OrdersInv /\ AttendanceInv
BY DEF CertificatesInv, CertificatesTypeOK, OrdersInv, AttendanceInv

LEMMA InvPartsNext == CertificatesInv' <=> OrdersInv' /\ AttendanceInv'
BY DEF CertificatesInv, CertificatesTypeOK, OrdersInv, AttendanceInv

LEMMA OrdersKept == OrdersInv /\ UNCHANGED orderVars => OrdersInv'
BY DEF orderVars, OrdersInv, OrdersShape, OverlapsClash, ExpiryIndexExact,
       LoneOrdersUndisturbed, At

----------------------------------------------------------------------------
\* The index keeps up with one certificate that changes.
LEMMA IndexFollows ==
    ASSUME certificates \in [Hosts -> CertificateType], ExpiryIndexExact,
           NEW n \in Hosts, NEW r \in CertificateType,
           certificates' = [certificates EXCEPT ![n] = r],
           indexExpiry' = (indexExpiry \ {<<certificates[n].expires, n>>})
                              \cup (IF r.exists THEN {<<r.expires, n>>} ELSE {})
    PROVE  ExpiryIndexExact'
<1>1. \A m \in Hosts : certificates'[m] = IF m = n THEN r ELSE certificates[m]
  OBVIOUS
<1>2. indexExpiry = {<<certificates[m].expires, m>> : m \in {m \in Hosts : certificates[m].exists}}
  BY DEF ExpiryIndexExact
<1>3. ASSUME NEW e \in indexExpiry'
      PROVE  \E m \in Hosts : certificates'[m].exists /\ e = <<certificates'[m].expires, m>>
  <2>1. CASE e \in indexExpiry /\ e # <<certificates[n].expires, n>>
    <3>1. PICK m \in Hosts : certificates[m].exists /\ e = <<certificates[m].expires, m>>
      BY <1>2, <2>1
    <3>2. m # n
      BY <2>1, <3>1
    <3> QED BY <1>1, <3>1, <3>2
  <2>2. CASE r.exists /\ e = <<r.expires, n>>
    BY <1>1, <2>2
  <2> QED BY <1>3, <2>1, <2>2
<1>4. ASSUME NEW m \in Hosts, certificates'[m].exists
      PROVE  <<certificates'[m].expires, m>> \in indexExpiry'
  <2>1. CASE m = n
    BY <1>1, <1>4, <2>1
  <2>2. CASE m # n
    <3>1. <<certificates[m].expires, m>> \in indexExpiry
      BY <1>1, <1>2, <1>4, <2>2
    <3>2. <<certificates[m].expires, m>> # <<certificates[n].expires, n>>
      BY <2>2
    <3> QED BY <1>1, <2>2, <3>1, <3>2
  <2> QED BY <2>1, <2>2
<1>5. indexExpiry' = {<<certificates'[m].expires, m>> : m \in {m \in Hosts : certificates'[m].exists}}
  BY <1>3, <1>4
<1> QED BY <1>5 DEF ExpiryIndexExact

\* A step of a running order that stays one, keeps its name and leaves the mark.
LEMMA OrderGoesOn ==
    ASSUME OrdersInv, NEW c \in Callers, NEW step \in Running,
           orders[c].step \in Running, Goes(c, step), UNCHANGED fqdnLock,
           certificates' \in [Hosts -> CertificateType],
           ExpiryIndexExact',
           NEW token \in Callers \cup {None},
           \/ UNCHANGED challenges
           \/ challenges' = [challenges EXCEPT ![orders[c].name] = token],
           step = "validate" => challenges' = [challenges EXCEPT ![orders[c].name] = c]
    PROVE  OrdersInv'
<1> USE DEF OrdersInv
<1>1. /\ orders[c].name \in Hosts
      /\ None \notin Hosts /\ None \notin Callers
  BY CertificatesAssumption DEF CertificatesAssumption, OrdersShape, OrderType
<1>2. \A d \in Callers : orders'[d] = IF d = c THEN [orders[c] EXCEPT !.step = step] ELSE orders[d]
  BY DEF Goes
<1>3. \A d \in Callers : orders'[d].name = orders[d].name /\ orders'[d].clash = orders[d].clash
  BY <1>2 DEF OrderType
<1>4. orders'[c].step = step /\ \A d \in Callers \ {c} : orders'[d] = orders[d]
  BY <1>2 DEF OrderType
<1>5. orders' \in [Callers -> OrderType]
  BY DEF Goes, OrderType
<1>6. challenges' \in [Hosts -> Callers \cup {None}]
  BY <1>1
<1>7. OrdersShape'
  BY <1>3, <1>4 DEF OrdersShape
<1>8. OverlapsClash'
  BY <1>3 DEF OverlapsClash
<1>9. LoneOrdersUndisturbed'
  <2> SUFFICES ASSUME NEW d \in Callers, orders[d].name # None, ~orders[d].clash
               PROVE  /\ orders[d].name \in fqdnLock
                      /\ orders'[d].step = "validate" => challenges'[orders[d].name] = d
    BY <1>3 DEF LoneOrdersUndisturbed, At
  <2>1. orders[d].name \in fqdnLock
    BY DEF LoneOrdersUndisturbed
  <2>2. CASE d = c
    BY <1>1, <1>4, <2>1, <2>2
  <2>3. CASE d # c
    <3>1. orders[d].name # orders[c].name
      BY <1>1, <2>3 DEF OverlapsClash
    <3>2. challenges'[orders[d].name] = challenges[orders[d].name]
      BY <1>1, <3>1 DEF OrderType
    <3> QED BY <1>4, <2>1, <2>3, <3>2 DEF LoneOrdersUndisturbed, At
  <2> QED BY <2>2, <2>3
<1> QED BY <1>5, <1>6, <1>7, <1>8, <1>9

LEMMA MarkStep ==
    ASSUME OrdersInv, NEW c \in Callers, NEW n \in Hosts, Mark(c, n)
    PROVE  OrdersInv'
<1> USE DEF OrdersInv
<1> DEFINE order == [step |-> "present", name |-> n, clash |-> Orders(n) # {}]
<1>1. /\ orders[c].step = "idle"
      /\ fqdnLock' = fqdnLock \cup {n}
      /\ UNCHANGED <<certificates, indexExpiry, challenges>>
      /\ orders' = [x \in Callers |-> IF x = c THEN order
                        ELSE IF x \in Orders(n) THEN [orders[x] EXCEPT !.clash = TRUE]
                        ELSE orders[x]]
  BY DEF Mark, At
<1>2. order \in OrderType /\ order.step = "present" /\ order.name = n
      /\ (order.clash <=> Orders(n) # {})
  BY DEF OrderType, Running
<1> HIDE DEF order
<1>3. \A x \in Callers : x \in Orders(n) <=> orders[x].name = n
  BY DEF Orders
<1>4. orders[c].name = None /\ None # n
  BY <1>1, CertificatesAssumption DEF CertificatesAssumption, OrdersShape, Running
<1>5. \A x \in Callers \ {c} : /\ orders'[x].step = orders[x].step
                               /\ orders'[x].name = orders[x].name
                               /\ orders'[x].clash = (orders[x].clash \/ orders[x].name = n)
                               /\ orders'[x] \in OrderType
  BY <1>1, <1>3 DEF OrderType
<1>6. orders'[c] = order
  BY <1>1
<1>7. orders' \in [Callers -> OrderType]
  BY <1>1, <1>2, <1>5, <1>6
<1>8. OrdersShape'
  BY <1>2, <1>4, <1>5, <1>6 DEF OrdersShape, Running
<1>9. OverlapsClash'
  <2> SUFFICES ASSUME NEW x \in Callers, NEW y \in Callers, x # y,
                      orders'[x].name # None, orders'[x].name = orders'[y].name
               PROVE  orders'[x].clash
    BY DEF OverlapsClash
  <2>1. CASE x = c
    <3>1. orders[y].name = n
      BY <1>2, <1>5, <1>6, <2>1
    <3> QED BY <1>2, <1>3, <1>6, <2>1, <3>1
  <2>2. CASE y = c
    BY <1>2, <1>5, <1>6, <2>2
  <2>3. CASE x # c /\ y # c
    BY <1>5, <2>3 DEF OverlapsClash
  <2> QED BY <2>1, <2>2, <2>3
<1>10. LoneOrdersUndisturbed'
  BY <1>1, <1>2, <1>5, <1>6 DEF LoneOrdersUndisturbed, At
<1>11. ExpiryIndexExact'
  BY <1>1 DEF ExpiryIndexExact
<1> QED BY <1>1, <1>7, <1>8, <1>9, <1>10, <1>11

\* An order that ends, and a caller that takes the result.
LEMMA OrderEnds ==
    ASSUME OrdersInv, NEW c \in Callers,
           UNCHANGED fqdnLock \/ fqdnLock' = fqdnLock \ {orders[c].name},
           NEW order \in OrderType, order.name = None, order.step \notin Running,
           orders' = [orders EXCEPT ![c] = order],
           UNCHANGED <<certificates, indexExpiry, challenges>>
    PROVE  OrdersInv'
<1> USE DEF OrdersInv
<1>1. orders'[c] = order /\ \A d \in Callers \ {c} : orders'[d] = orders[d]
  OBVIOUS
<1>2. orders' \in [Callers -> OrderType]
  OBVIOUS
<1>3. OrdersShape'
  BY <1>1 DEF OrdersShape
<1>4. OverlapsClash'
  BY <1>1 DEF OverlapsClash
<1>5. LoneOrdersUndisturbed'
  <2> SUFFICES ASSUME NEW d \in Callers \ {c}, orders[d].name # None, ~orders[d].clash
               PROVE  /\ orders[d].name \in fqdnLock'
                      /\ orders[d].step = "validate" => challenges[orders[d].name] = d
    BY <1>1 DEF LoneOrdersUndisturbed, At
  <2>1. orders[d].name # orders[c].name
    BY DEF OverlapsClash
  <2> QED BY <2>1 DEF LoneOrdersUndisturbed, At
<1>6. ExpiryIndexExact'
  BY DEF ExpiryIndexExact
<1> QED BY <1>2, <1>3, <1>4, <1>5, <1>6

\* The steps of ObtainCertificate.
LEMMA OrderStepKeeps ==
    ASSUME OrdersInv, NEW c \in Callers,
           Present(c) \/ AlreadyAuthorized(c) \/ OrderRefused(c) \/ Validate(c)
             \/ CleanUp(c) \/ Store(c) \/ Unmark(c),
           time \in Nat
    PROVE  OrdersInv'
<1> USE DEF At
<1>0. orders[c] \in OrderType /\ (orders[c].step \in Running => orders[c].name \in Hosts)
  BY DEF OrdersInv, OrdersShape, OrderType
<1>1. CASE Present(c)
  <2>1. certificates' \in [Hosts -> CertificateType] /\ ExpiryIndexExact'
    BY <1>1 DEF Present, OrdersInv, ExpiryIndexExact
  <2> QED BY <1>1, <2>1, OrderGoesOn DEF Present, Running
<1>2. CASE Validate(c)
  <2>1. certificates' \in [Hosts -> CertificateType] /\ ExpiryIndexExact'
    BY <1>2 DEF Validate, OrdersInv, ExpiryIndexExact
  <2>2. CASE Goes(c, "clean up valid")
    BY <1>2, <2>1, <2>2, OrderGoesOn DEF Validate, Running
  <2>3. CASE Goes(c, "clean up invalid")
    BY <1>2, <2>1, <2>3, OrderGoesOn DEF Validate, Running
  <2> QED BY <1>2, <2>2, <2>3 DEF Validate
<1>3. CASE CleanUp(c)
  <2>1. certificates' \in [Hosts -> CertificateType] /\ ExpiryIndexExact'
    BY <1>3 DEF CleanUp, OrdersInv, ExpiryIndexExact
  <2>2. CASE Goes(c, "store")
    BY <1>3, <2>1, <2>2, OrderGoesOn DEF CleanUp, Running
  <2>3. CASE Goes(c, "failed")
    BY <1>3, <2>1, <2>3, OrderGoesOn DEF CleanUp, Running
  <2> QED BY <1>3, <2>2, <2>3 DEF CleanUp
<1>4. CASE Store(c)
  <2> DEFINE n == orders[c].name
             r == [exists |-> TRUE, version |-> certificates[n].version + 1,
                   expires |-> time + Validity, changed |-> time]
  <2>1. n \in Hosts
    BY <1>0, <1>4 DEF Store, Running
  <2>2. /\ certificates' = [certificates EXCEPT ![n] = r]
        /\ indexExpiry' = (indexExpiry \ {<<certificates[n].expires, n>>}) \cup {<<r.expires, n>>}
        /\ Goes(c, "stored")
        /\ UNCHANGED <<challenges, fqdnLock>>
        /\ orders[c].step \in Running
    BY <1>4 DEF Store, Reindexed, Running
  <2>3. r \in CertificateType /\ r.exists
    BY <2>1, CertificatesAssumption DEF CertificatesAssumption, OrdersInv, CertificateType
  <2> HIDE DEF n, r
  <2>4. ExpiryIndexExact'
    BY <2>1, <2>2, <2>3, IndexFollows DEF OrdersInv
  <2>5. certificates' \in [Hosts -> CertificateType]
    BY <2>1, <2>2, <2>3 DEF OrdersInv
  <2>6. "stored" \in Running
    BY DEF Running
  <2> QED BY <2>2, <2>4, <2>5, <2>6, OrderGoesOn
<1>5. CASE Unmark(c)
  <2> DEFINE order == [NoOrder EXCEPT !.step = IF orders[c].step = "stored" THEN "ok" ELSE "error"]
  <2>1. order \in OrderType /\ order.name = None /\ order.step \notin Running
    BY DEF NoOrder, OrderType, Running
  <2>2. /\ orders' = [orders EXCEPT ![c] = order]
        /\ fqdnLock' = fqdnLock \ {orders[c].name}
        /\ UNCHANGED <<certificates, indexExpiry, challenges>>
    BY <1>5 DEF Unmark
  <2> HIDE DEF order
  <2> QED BY <2>1, <2>2, OrderEnds
<1>6. CASE OrderRefused(c)
  <2>1. certificates' \in [Hosts -> CertificateType] /\ ExpiryIndexExact'
    BY <1>6 DEF OrderRefused, OrdersInv, ExpiryIndexExact
  <2> QED BY <1>6, <2>1, OrderGoesOn DEF OrderRefused, Running
<1>7. CASE AlreadyAuthorized(c)
  <2>1. certificates' \in [Hosts -> CertificateType] /\ ExpiryIndexExact'
    BY <1>7 DEF AlreadyAuthorized, OrdersInv, ExpiryIndexExact
  <2> QED BY <1>7, <2>1, OrderGoesOn DEF AlreadyAuthorized, Running
<1> QED BY <1>1, <1>2, <1>3, <1>4, <1>5, <1>6, <1>7

LEMMA ReturnedStep ==
    ASSUME OrdersInv, NEW c \in Callers, Returned(c, "ok") \/ Returned(c, "error")
    PROVE  OrdersInv'
<1>1. NoOrder \in OrderType /\ NoOrder.name = None /\ NoOrder.step \notin Running
  BY DEF NoOrder, OrderType, Running
<1>2. /\ orders' = [orders EXCEPT ![c] = NoOrder]
      /\ UNCHANGED <<fqdnLock, certificates, indexExpiry, challenges>>
  BY DEF Returned, At
<1> QED BY <1>1, <1>2, OrderEnds

LEMMA DeleteCertificateStep ==
    ASSUME OrdersInv, time \in Nat, NEW n \in Hosts, DeleteCertificate(n)
    PROVE  OrdersInv'
<1> DEFINE r == [certificates[n] EXCEPT !.exists = FALSE, !.changed = time]
<1>1. /\ certificates' = [certificates EXCEPT ![n] = r]
      /\ indexExpiry' = indexExpiry \ {<<certificates[n].expires, n>>}
      /\ UNCHANGED <<challenges, fqdnLock, orders>>
  BY DEF DeleteCertificate, OrdersInv
<1>2. r \in CertificateType /\ ~r.exists
  BY DEF OrdersInv, CertificateType
<1> HIDE DEF r
<1>3. ExpiryIndexExact'
  BY <1>1, <1>2, IndexFollows DEF OrdersInv
<1>4. certificates' \in [Hosts -> CertificateType]
  BY <1>1, <1>2 DEF OrdersInv
<1> QED BY <1>1, <1>3, <1>4 DEF OrdersInv, OrdersShape, OverlapsClash, LoneOrdersUndisturbed, At

\* A crash leaves the buckets, and no order.
LEMMA OrdersCrash ==
    ASSUME OrdersInv, CertificatesCrash
    PROVE  OrdersInv'
<1>1. NoOrder \in OrderType /\ NoOrder.name = None /\ NoOrder.step \notin Running
  BY DEF NoOrder, OrderType, Running
<1>2. orders' = [c \in Callers |-> NoOrder] /\ UNCHANGED <<certificates, indexExpiry, challenges>>
  BY DEF CertificatesCrash
<1> QED BY <1>1, <1>2 DEF OrdersInv, OrdersShape, OverlapsClash, LoneOrdersUndisturbed,
                          ExpiryIndexExact, At

----------------------------------------------------------------------------
(***************************************************************************)
(* The memory of those who call.                                           *)
(***************************************************************************)
HandshakeType == [step : {"idle", "ask", "order", "ordered", "wait"}, name : Hosts \cup {None}]

LEMMA HandshakeMoves ==
    ASSUME AttendanceInv, NEW h \in Handshakes, NEW r \in HandshakeType,
           r.step # "idle" => r.name \in Hosts,
           handshakes' = [handshakes EXCEPT ![h] = r],
           UNCHANGED <<setups, ignoring, unattended, time>>
    PROVE  AttendanceInv'
BY DEF AttendanceInv, HandshakeType, HandshakesNamed, SetupsNamed, IgnoringAttended, AttendedBy

LEMMA AttendanceKept ==
    ASSUME AttendanceInv, UNCHANGED <<handshakes, setups, ignoring, unattended>>, time' \in Nat
    PROVE  AttendanceInv'
BY DEF AttendanceInv, HandshakesNamed, SetupsNamed, IgnoringAttended, AttendedBy

\* A set-up that keeps its name.
LEMMA SetupMoves ==
    ASSUME AttendanceInv, NEW c \in Setups, NEW step \in {"order", "ordered", "reset"},
           setups[c].step # "idle",
           setups' = [setups EXCEPT ![c].step = step],
           UNCHANGED <<handshakes, ignoring, unattended, time>>
    PROVE  AttendanceInv'
<1>1. /\ setups' \in [Setups -> SetupType]
      /\ \A d \in Setups : setups'[d].name = setups[d].name /\ setups'[d].gone = setups[d].gone
      /\ \A d \in Setups : setups'[d].step # "idle" => setups[d].step # "idle"
  BY DEF AttendanceInv, SetupType
<1> QED BY <1>1 DEF AttendanceInv, HandshakesNamed, SetupsNamed, IgnoringAttended, AttendedBy

\* A set-up that begins, for a name that somebody has to look after.
LEMMA SetupBegins ==
    ASSUME AttendanceInv, NEW c \in Setups, NEW n \in Hosts, setups[c] = NoSetup,
           setups' = [setups EXCEPT ![c] = SetupOf(n)],
           ignoring' \subseteq ignoring \cup {n},
           UNCHANGED <<handshakes, unattended, time>>
    PROVE  AttendanceInv'
<1>1. SetupOf(n).name = n /\ ~SetupOf(n).gone
  BY DEF SetupOf
<1>2. SetupOf(n) \in SetupType
  BY DEF SetupType, SetupOf
<1>3. setups' \in [Setups -> SetupType] /\ SetupsNamed'
  BY <1>1, <1>2 DEF AttendanceInv, SetupsNamed
<1>4. \A m \in ignoring : ~AttendedBy(c, m)
  BY CertificatesAssumption DEF CertificatesAssumption, AttendedBy, NoSetup, AttendanceInv
<1>5. \A d \in Setups \ {c}, m \in ignoring : AttendedBy(d, m) => AttendedBy(d, m)'
  BY DEF AttendedBy, AttendanceInv
<1>6. AttendedBy(c, n)'
  BY <1>1, <1>3 DEF AttendedBy, AttendanceInv
<1>7. IgnoringAttended'
  BY <1>4, <1>5, <1>6 DEF AttendanceInv, IgnoringAttended
<1> QED BY <1>3, <1>7 DEF AttendanceInv, HandshakesNamed

\* The end of a set-up takes the flag of its name with it.
LEMMA SetupEnds ==
    ASSUME AttendanceInv, NEW c \in Setups, SetupResets(c)
    PROVE  AttendanceInv'
<1>1. /\ ignoring' = ignoring \ {setups[c].name}
      /\ unattended' = unattended \ {setups[c].name}
      /\ setups' = [setups EXCEPT ![c] = NoSetup]
      /\ UNCHANGED <<handshakes, time>>
  BY DEF SetupResets
<1>2. NoSetup \in SetupType /\ NoSetup.step = "idle"
  BY DEF NoSetup, SetupType
<1>3. setups' \in [Setups -> SetupType] /\ SetupsNamed'
  BY <1>1, <1>2 DEF AttendanceInv, SetupsNamed
<1>4. IgnoringAttended'
  BY <1>1 DEF AttendanceInv, IgnoringAttended, AttendedBy
<1> QED BY <1>1, <1>3, <1>4 DEF AttendanceInv, HandshakesNamed

\* The domain is lost: deleted with its flag, or given away.
LEMMA SetupsAbandoned ==
    ASSUME AttendanceInv, NEW n \in Hosts,
           setups' = [c \in Setups |->
               IF setups[c].name = n THEN [setups[c] EXCEPT !.gone = TRUE] ELSE setups[c]],
           ignoring' \subseteq ignoring,
           n \in ignoring' => n \in unattended',
           unattended \ {n} \subseteq unattended',
           UNCHANGED <<handshakes, time>>
    PROVE  AttendanceInv'
<1>1. /\ setups' \in [Setups -> SetupType]
      /\ \A d \in Setups : setups'[d].name = setups[d].name /\ setups'[d].step = setups[d].step
      /\ \A d \in Setups : setups[d].name # n => setups'[d].gone = setups[d].gone
  BY DEF AttendanceInv, SetupType
<1>2. IgnoringAttended'
  BY <1>1 DEF AttendanceInv, IgnoringAttended, AttendedBy
<1> QED BY <1>1, <1>2 DEF AttendanceInv, HandshakesNamed, SetupsNamed

LEMMA AttendanceCrash ==
    ASSUME AttendanceInv, CertificatesCrash
    PROVE  AttendanceInv'
<1>1. NoSetup \in SetupType /\ NoSetup.step = "idle" /\ NoHandshake \in HandshakeType
      /\ NoHandshake.step = "idle"
  BY DEF NoSetup, SetupType, NoHandshake, HandshakeType
<1>2. /\ setups' = [c \in Setups |-> NoSetup]
      /\ handshakes' = [h \in Handshakes |-> NoHandshake]
      /\ unattended' = unattended \cup ({setups[c].name : c \in Setups} \cap ignoring)
      /\ UNCHANGED <<ignoring, time>>
  BY DEF CertificatesCrash
<1>3. IgnoringAttended'
  BY <1>2 DEF AttendanceInv, IgnoringAttended, AttendedBy
<1> QED BY <1>1, <1>2, <1>3 DEF AttendanceInv, HandshakeType, HandshakesNamed, SetupsNamed

----------------------------------------------------------------------------
(***************************************************************************)
(* One step of each kind.                                                  *)
(***************************************************************************)
LEMMA OrderAndRenewalSteps ==
    ASSUME CertificatesInv,
           \/ \E c \in Callers : OrderStep(c)
           \/ \E n \in Hosts : DeleteCertificate(n)
           \/ \E c \in Renewals, n \in Hosts : Renew(c, n)
           \/ \E c \in Renewals : Renewed(c)
           \/ TimePasses
    PROVE  CertificatesInv'
<1> OrdersInv /\ AttendanceInv /\ time \in Nat
  BY InvParts DEF AttendanceInv
<1> Renewals \subseteq Callers
  BY DEF Callers
<1>1. ASSUME NEW c \in Callers, OrderStep(c) PROVE CertificatesInv'
  BY <1>1, OrderStepKeeps, AttendanceKept, InvPartsNext DEF OrderStep
<1>2. ASSUME NEW n \in Hosts, DeleteCertificate(n) PROVE CertificatesInv'
  <2>1. OrdersInv'
    BY <1>2, DeleteCertificateStep
  <2>2. AttendanceInv'
    BY <1>2, AttendanceKept DEF DeleteCertificate
  <2> QED BY <2>1, <2>2, InvPartsNext
<1>3. ASSUME NEW c \in Renewals, NEW n \in Hosts, Renew(c, n) PROVE CertificatesInv'
  BY <1>3, MarkStep, AttendanceKept, InvPartsNext DEF Renew
<1>4. ASSUME NEW c \in Renewals, Renewed(c) PROVE CertificatesInv'
  BY <1>4, ReturnedStep, AttendanceKept, InvPartsNext DEF Renewed
<1>5. CASE TimePasses
  BY <1>5, OrdersKept, AttendanceKept, InvPartsNext DEF TimePasses
<1> QED BY <1>1, <1>2, <1>3, <1>4, <1>5

LEMMA HandshakeSteps ==
    ASSUME CertificatesInv, NEW h \in Handshakes,
           \/ \E n \in Hosts : Hello(h, n)
           \/ AskBeingObtained(h) \/ HandshakeOrders(h) \/ HandshakeObtained(h)
           \/ HandshakeFailed(h) \/ WaitedLongEnough(h)
    PROVE  CertificatesInv'
<1> OrdersInv /\ AttendanceInv /\ time \in Nat
  BY InvParts DEF AttendanceInv
<1> h \in Callers
  BY DEF Callers
<1>0. /\ handshakes[h] \in HandshakeType /\ handshakes \in [Handshakes -> HandshakeType]
      /\ handshakes[h].step # "idle" => handshakes[h].name \in Hosts
      /\ NoHandshake \in HandshakeType /\ NoHandshake.step = "idle"
  BY DEF AttendanceInv, HandshakeType, HandshakesNamed, NoHandshake
<1>1. ASSUME NEW n \in Hosts, Hello(h, n) PROVE CertificatesInv'
  <2> DEFINE r == [step |-> "ask", name |-> n]
  <2>1. r \in HandshakeType /\ r.name = n
    BY DEF HandshakeType
  <2>2. OrdersInv' /\ UNCHANGED <<setups, ignoring, unattended, time>>
    BY <1>1, OrdersKept DEF Hello
  <2>3. handshakes' = [handshakes EXCEPT ![h] = r] \/ UNCHANGED handshakes
    BY <1>1 DEF Hello
  <2> HIDE DEF r
  <2>4. AttendanceInv'
    BY <2>1, <2>2, <2>3, HandshakeMoves, AttendanceKept
  <2> QED BY <2>2, <2>4, InvPartsNext
<1>2. ASSUME NEW step \in {"wait", "order", "ordered"},
             handshakes[h].step # "idle", handshakes' = [handshakes EXCEPT ![h].step = step],
             UNCHANGED <<setups, ignoring, unattended, time>>
      PROVE  AttendanceInv'
  <2> DEFINE r == [handshakes[h] EXCEPT !.step = step]
  <2>1. r \in HandshakeType /\ r.name \in Hosts
    BY <1>0, <1>2 DEF HandshakeType
  <2>2. handshakes' = [handshakes EXCEPT ![h] = r]
    BY <1>0, <1>2
  <2> HIDE DEF r
  <2> QED BY <1>2, <2>1, <2>2, HandshakeMoves
<1>3. CASE AskBeingObtained(h)
  BY <1>2, <1>3, OrdersKept, InvPartsNext DEF AskBeingObtained
<1>4. CASE HandshakeOrders(h)
  BY <1>0, <1>2, <1>4, MarkStep, InvPartsNext DEF HandshakeOrders
<1>5. CASE HandshakeObtained(h) \/ HandshakeFailed(h)
  <2>1. /\ Returned(h, "ok") \/ Returned(h, "error")
        /\ handshakes' = [handshakes EXCEPT ![h] = NoHandshake]
        /\ UNCHANGED <<setups, ignoring, unattended, time>>
    BY <1>5 DEF HandshakeObtained, HandshakeFailed
  <2> QED BY <1>0, <2>1, ReturnedStep, HandshakeMoves, InvPartsNext
<1>6. CASE WaitedLongEnough(h)
  <2>1. /\ handshakes' = [handshakes EXCEPT ![h] = NoHandshake]
        /\ UNCHANGED <<orderVars, setups, ignoring, unattended, time>>
    BY <1>6 DEF WaitedLongEnough
  <2> QED BY <1>0, <2>1, OrdersKept, HandshakeMoves, InvPartsNext
<1> QED BY <1>1, <1>3, <1>4, <1>5, <1>6

LEMMA SetupSteps ==
    ASSUME CertificatesInv,
           \/ \E c \in Setups, n \in PackageDomains : AddDomain(c, n) \/ ObtainByOwner(c, n)
           \/ \E n \in PackageDomains : AddDomainUnrecorded(n) \/ DeleteDomain(n) \/ GiveDomainAway(n)
           \/ \E c \in Setups : SetupOrders(c) \/ SetupOrdered(c) \/ SetupResets(c)
           \/ CertificatesCrash
    PROVE  CertificatesInv'
<1> OrdersInv /\ AttendanceInv /\ time \in Nat
  BY InvParts DEF AttendanceInv
<1> Setups \subseteq Callers /\ PackageDomains \subseteq Hosts
  BY DEF Callers, Hosts
<1>1. ASSUME NEW c \in Setups, NEW n \in PackageDomains, AddDomain(c, n) \/ ObtainByOwner(c, n)
      PROVE  CertificatesInv'
  <2>1. OrdersInv'
    BY <1>1, OrdersKept DEF AddDomain, ObtainByOwner
  <2>2. /\ setups[c] = NoSetup
        /\ setups' = [setups EXCEPT ![c] = SetupOf(n)]
        /\ ignoring' \subseteq ignoring \cup {n}
        /\ UNCHANGED <<handshakes, unattended, time>>
    BY <1>1 DEF AddDomain, ObtainByOwner
  <2> QED BY <2>1, <2>2, SetupBegins, InvPartsNext
<1>2. ASSUME NEW n \in PackageDomains, AddDomainUnrecorded(n) PROVE CertificatesInv'
  <2>1. OrdersInv'
    BY <1>2, OrdersKept DEF AddDomainUnrecorded
  <2>2. /\ ignoring' = ignoring \cup {n} /\ unattended' = unattended \cup {n}
        /\ UNCHANGED <<handshakes, setups, time>>
    BY <1>2 DEF AddDomainUnrecorded
  <2>3. AttendanceInv'
    BY <2>2 DEF AttendanceInv, HandshakesNamed, SetupsNamed, IgnoringAttended, AttendedBy
  <2> QED BY <2>1, <2>3, InvPartsNext
<1>3. ASSUME NEW n \in PackageDomains, DeleteDomain(n) \/ GiveDomainAway(n)
      PROVE  CertificatesInv'
  <2>1. OrdersInv'
    BY <1>3, OrdersKept DEF DeleteDomain, GiveDomainAway
  <2>2. /\ setups' = [c \in Setups |->
               IF setups[c].name = n THEN [setups[c] EXCEPT !.gone = TRUE] ELSE setups[c]]
        /\ ignoring' \subseteq ignoring
        /\ n \in ignoring' => n \in unattended'
        /\ unattended \ {n} \subseteq unattended'
        /\ UNCHANGED <<handshakes, time>>
    BY <1>3 DEF DeleteDomain, GiveDomainAway
  <2> QED BY <2>1, <2>2, SetupsAbandoned, InvPartsNext
<1>4. ASSUME NEW c \in Setups, SetupOrders(c) PROVE CertificatesInv'
  <2>1. setups[c].step = "order" /\ setups[c].name \in Hosts
    BY <1>4 DEF SetupOrders, AttendanceInv, SetupsNamed
  <2>2. OrdersInv'
    BY <1>4, <2>1, MarkStep DEF SetupOrders
  <2>3. AttendanceInv'
    BY <1>4, <2>1, SetupMoves DEF SetupOrders
  <2> QED BY <2>2, <2>3, InvPartsNext
<1>5. ASSUME NEW c \in Setups, SetupOrdered(c) PROVE CertificatesInv'
  <2>1. OrdersInv'
    BY <1>5, ReturnedStep DEF SetupOrdered
  <2>2. AttendanceInv'
    BY <1>5, SetupMoves DEF SetupOrdered
  <2> QED BY <2>1, <2>2, InvPartsNext
<1>6. ASSUME NEW c \in Setups, SetupResets(c) PROVE CertificatesInv'
  <2>1. OrdersInv'
    BY <1>6, OrdersKept DEF SetupResets
  <2> QED BY <1>6, <2>1, SetupEnds, InvPartsNext
<1>7. CASE CertificatesCrash
  BY <1>7, OrdersCrash, AttendanceCrash, InvPartsNext
<1> QED BY <1>1, <1>2, <1>3, <1>4, <1>5, <1>6, <1>7

LEMMA CertificatesInvariant == CertificatesSpec => []CertificatesInv
<1>1. CertificatesInit => CertificatesInv
  <2> SUFFICES ASSUME CertificatesInit PROVE OrdersInv /\ AttendanceInv
    BY InvParts
  <2>1. OrdersInv
    BY DEF CertificatesInit, NoCertificate, NoOrder, OrdersInv, CertificateType, OrderType,
           OrdersShape, Running, OverlapsClash, ExpiryIndexExact, LoneOrdersUndisturbed
  <2>2. AttendanceInv
    BY DEF CertificatesInit, NoSetup, NoHandshake, AttendanceInv, SetupType,
           HandshakesNamed, SetupsNamed, IgnoringAttended
  <2> QED BY <2>1, <2>2
<1>2. CertificatesInv /\ [CertificatesNext]_certificateVars => CertificatesInv'
  <2> SUFFICES ASSUME CertificatesInv, [CertificatesNext]_certificateVars PROVE CertificatesInv'
    OBVIOUS
  <2>1. CASE CertificatesNext
    <3> Hosts \cap PackageDomains = PackageDomains
      BY DEF Hosts
    <3> QED BY <2>1, OrderAndRenewalSteps, HandshakeSteps, SetupSteps
            DEF CertificatesNext, StepsAbout
  <2>2. CASE UNCHANGED certificateVars
    <3>1. OrdersInv /\ AttendanceInv
      BY InvParts
    <3>2. UNCHANGED orderVars /\ UNCHANGED <<handshakes, setups, ignoring, unattended, time>>
      BY <2>2 DEF certificateVars
    <3> QED BY <3>1, <3>2, OrdersKept, AttendanceKept, InvPartsNext DEF AttendanceInv
  <2> QED BY <2>1, <2>2
<1> QED BY <1>1, <1>2, PTL DEF CertificatesSpec

----------------------------------------------------------------------------
(***************************************************************************)
(* The index by expiration time has exactly the certificates there are.    *)
(***************************************************************************)
THEOREM ExpiryIndexIsExact == CertificatesSpec => []ExpiryIndexExact
<1>1. CertificatesInv => ExpiryIndexExact
  BY DEF CertificatesInv
<1> QED BY <1>1, CertificatesInvariant, PTL

(***************************************************************************)
(* However many orders run, an order that met no other for its name has    *)
(* its mark and its token.                                                 *)
(***************************************************************************)
THEOREM LoneOrders == CertificatesSpec => []LoneOrdersUndisturbed
<1>1. CertificatesInv => LoneOrdersUndisturbed
  BY DEF CertificatesInv
<1> QED BY <1>1, CertificatesInvariant, PTL

(***************************************************************************)
(* A domain ignores its missing certificate only while somebody is there   *)
(* to end that, or after one of the known accidents.                       *)
(***************************************************************************)
THEOREM IgnoringIsAttended == CertificatesSpec => []IgnoringAttended
<1>1. CertificatesInv => IgnoringAttended
  BY DEF CertificatesInv
<1> QED BY <1>1, CertificatesInvariant, PTL

----------------------------------------------------------------------------
(***************************************************************************)
(* The cache.  StaleForTTLOnly speaks of entries that have not run out; it *)
(* is kept because no entry lives longer than TTL from now, so that an     *)
(* entry whose certificate changes now ends within TTL of the change.      *)
(***************************************************************************)
EntryType == [kind : {"none", "hit", "miss"}, version : Nat, ttl : Nat]

CacheInv ==
    /\ cache \in [Hosts -> EntryType]
    /\ \A n \in Hosts : cache[n].kind = "hit" =>
           /\ cache[n].ttl <= time + TTL
           /\ \/ certificates[n].exists /\ cache[n].version = certificates[n].version
              \/ cache[n].ttl <= certificates[n].changed + TTL

\* A step of those who do not look names up; time may go on.
LEMMA CacheRests ==
    ASSUME CacheInv, time \in Nat, UNCHANGED <<certificates, cache>>, time' \in {time, time + 1}
    PROVE  CacheInv'
BY CertificatesAssumption DEF CertificatesAssumption, CacheInv, EntryType

\* A certificate that changes now.
LEMMA CacheOutlivesChange ==
    ASSUME CacheInv, time \in Nat, NEW n \in Hosts, NEW r \in CertificateType,
           certificates \in [Hosts -> CertificateType],
           certificates' = [certificates EXCEPT ![n] = r], r.changed = time,
           UNCHANGED <<cache, time>>
    PROVE  CacheInv'
<1>1. \A m \in Hosts : certificates'[m] = IF m = n THEN r ELSE certificates[m]
  OBVIOUS
<1> QED BY <1>1, CertificatesAssumption DEF CertificatesAssumption, CacheInv, EntryType

\* A name that is looked up, or whose entry is taken away.
LEMMA CacheChanges ==
    ASSUME CacheInv, time \in Nat, NEW n \in Hosts,
           certificates \in [Hosts -> CertificateType],
           NEW entry,
           \/ entry = NoEntry
           \/ \E fails \in BOOLEAN : entry = LookedUp(n, fails),
           cache' = [cache EXCEPT ![n] = entry],
           UNCHANGED <<certificates, time>>
    PROVE  CacheInv'
<1>1. TTL \in Nat /\ MissTTL \in Nat
  BY CertificatesAssumption DEF CertificatesAssumption
<1>2. /\ cache[n] \in EntryType
      /\ cache[n].kind = "hit" =>
             /\ cache[n].ttl <= time + TTL
             /\ \/ certificates[n].exists /\ cache[n].version = certificates[n].version
                \/ cache[n].ttl <= certificates[n].changed + TTL
  BY DEF CacheInv
<1>3. certificates[n].version \in Nat /\ certificates[n].changed \in Nat
  BY DEF CertificateType
<1>4. /\ entry \in EntryType
      /\ entry.kind = "hit" =>
             /\ entry.ttl <= time + TTL
             /\ \/ certificates[n].exists /\ entry.version = certificates[n].version
                \/ entry.ttl <= certificates[n].changed + TTL
  <2>1. CASE entry = NoEntry
    BY <2>1 DEF NoEntry, EntryType
  <2>2. CASE entry = cache[n]
    BY <1>2, <2>2
  <2>3. CASE /\ certificates[n].exists
             /\ entry = [kind |-> "hit", version |-> certificates[n].version, ttl |-> time + TTL]
    BY <1>1, <1>3, <2>3 DEF EntryType
  <2>4. CASE entry = [kind |-> "miss", version |-> 0, ttl |-> time + MissTTL]
    BY <1>1, <2>4 DEF EntryType
  <2> QED BY <2>1, <2>2, <2>3, <2>4 DEF LookedUp
<1>5. \A m \in Hosts : cache'[m] = IF m = n THEN entry ELSE cache[m]
  BY DEF CacheInv
<1>6. cache' \in [Hosts -> EntryType]
  BY <1>4 DEF CacheInv
<1> QED BY <1>4, <1>5, <1>6 DEF CacheInv

LEMMA CacheStep == CertificatesInv /\ CacheInv /\ [CertificatesNext]_certificateVars => CacheInv'
<1> SUFFICES ASSUME CertificatesInv, CacheInv, [CertificatesNext]_certificateVars
             PROVE  CacheInv'
  OBVIOUS
<1>0. /\ certificates \in [Hosts -> CertificateType] /\ time \in Nat
      /\ PackageDomains \subseteq Hosts
      /\ \A h \in Handshakes : handshakes[h].step # "idle" => handshakes[h].name \in Hosts
  BY DEF CertificatesInv, CertificatesTypeOK, HandshakesNamed, Hosts
<1>1. ASSUME NEW c \in Callers, OrderStep(c)
      PROVE  CacheInv'
  <2>1. UNCHANGED <<cache, time>>
    BY <1>1 DEF OrderStep
  <2>2. CASE UNCHANGED certificates
    BY <1>0, <2>1, <2>2, CacheRests
  <2>3. CASE Store(c)
    <3> DEFINE n == orders[c].name
               r == [exists |-> TRUE, version |-> certificates[n].version + 1,
                     expires |-> time + Validity, changed |-> time]
    <3>1. n \in Hosts
      BY <2>3 DEF CertificatesInv, CertificatesTypeOK, OrdersShape, OrderType, Store, At, Running
    <3>2. certificates' = [certificates EXCEPT ![n] = r]
      BY <2>3 DEF Store
    <3>3. r \in CertificateType /\ r.changed = time
      BY <1>0, <3>1, CertificatesAssumption DEF CertificatesAssumption, CertificateType
    <3> HIDE DEF n, r
    <3> QED BY <1>0, <2>1, <3>1, <3>2, <3>3, CacheOutlivesChange
  <2> QED BY <1>1, <2>2, <2>3
      DEF OrderStep, Present, AlreadyAuthorized, OrderRefused, Validate, CleanUp, Unmark
<1>2. ASSUME NEW n \in Hosts, DeleteCertificate(n)
      PROVE  CacheInv'
  <2> DEFINE r == [certificates[n] EXCEPT !.exists = FALSE, !.changed = time]
  <2>1. certificates' = [certificates EXCEPT ![n] = r] /\ UNCHANGED <<cache, time>>
    BY <1>0, <1>2 DEF DeleteCertificate
  <2>2. r \in CertificateType /\ r.changed = time
    BY <1>0 DEF CertificateType
  <2> HIDE DEF r
  <2> QED BY <1>0, <2>1, <2>2, CacheOutlivesChange
<1>3. ASSUME UNCHANGED <<certificates, cache, time>>
      PROVE  CacheInv'
  BY <1>0, <1>3, CacheRests
<1>4. ASSUME NEW c \in Renewals, NEW n \in Hosts, Renew(c, n)
      PROVE  CacheInv'
  BY <1>3, <1>4 DEF Renew, Mark
<1>5. ASSUME NEW c \in Renewals, Renewed(c)
      PROVE  CacheInv'
  BY <1>3, <1>5 DEF Renewed, Returned
<1>6. ASSUME NEW h \in Handshakes, NEW n \in Hosts, Hello(h, n)
      PROVE  CacheInv'
  <2>1. UNCHANGED <<certificates, time>>
    BY <1>6 DEF Hello, orderVars
  <2>2. PICK fails \in BOOLEAN : cache' = [cache EXCEPT ![n] = LookedUp(n, fails)]
    BY <1>6 DEF Hello
  <2> QED BY <1>0, <2>1, <2>2, CacheChanges
<1>7. ASSUME NEW h \in Handshakes, AskBeingObtained(h) \/ HandshakeOrders(h) \/ HandshakeFailed(h)
      PROVE  CacheInv'
  BY <1>3, <1>7 DEF AskBeingObtained, HandshakeOrders, HandshakeFailed, Mark, Returned, orderVars
<1>8. ASSUME NEW h \in Handshakes, HandshakeObtained(h)
      PROVE  CacheInv'
  <2>1. UNCHANGED <<certificates, time>> /\ handshakes[h].name \in Hosts
    BY <1>0, <1>8 DEF HandshakeObtained, Returned
  <2>2. cache' = [cache EXCEPT ![handshakes[h].name] = NoEntry]
    BY <1>8 DEF HandshakeObtained
  <2> QED BY <1>0, <2>1, <2>2, CacheChanges
<1>9. ASSUME NEW h \in Handshakes, WaitedLongEnough(h)
      PROVE  CacheInv'
  <2>1. UNCHANGED <<certificates, time>> /\ handshakes[h].name \in Hosts
    BY <1>0, <1>9 DEF WaitedLongEnough, orderVars
  <2>2. PICK fails \in BOOLEAN :
            cache' = [cache EXCEPT ![handshakes[h].name] = LookedUp(handshakes[h].name, fails)]
    BY <1>9 DEF WaitedLongEnough
  <2> QED BY <1>0, <2>1, <2>2, CacheChanges
<1>10. ASSUME NEW c \in Setups, NEW n \in PackageDomains, AddDomain(c, n) \/ ObtainByOwner(c, n)
       PROVE  CacheInv'
  BY <1>3, <1>10 DEF AddDomain, ObtainByOwner, orderVars
<1>11. ASSUME NEW n \in PackageDomains,
              AddDomainUnrecorded(n) \/ DeleteDomain(n) \/ GiveDomainAway(n)
       PROVE  CacheInv'
  BY <1>3, <1>11 DEF AddDomainUnrecorded, DeleteDomain, GiveDomainAway, orderVars
<1>12. ASSUME NEW c \in Setups, SetupOrders(c) \/ SetupOrdered(c) \/ SetupResets(c)
       PROVE  CacheInv'
  BY <1>3, <1>12 DEF SetupOrders, SetupOrdered, SetupResets, Mark, Returned, orderVars
<1>13. CASE CertificatesCrash
  BY <1>13, CertificatesAssumption
     DEF CertificatesAssumption, CertificatesCrash, CacheInv, EntryType, NoEntry
<1>14. CASE TimePasses
  BY <1>0, <1>14, CacheRests DEF TimePasses, orderVars
<1>15. CASE UNCHANGED certificateVars
  BY <1>3, <1>15 DEF certificateVars, orderVars
<1>16. Hosts \cap PackageDomains = PackageDomains
  BY <1>0
<1> QED BY <1>1, <1>2, <1>4, <1>5, <1>6, <1>7, <1>8, <1>9, <1>10, <1>11, <1>12, <1>13,
           <1>14, <1>15, <1>16 DEF CertificatesNext, StepsAbout

(***************************************************************************)
(* Whatever is renewed, deleted, looked up or in flight, a handshake is    *)
(* answered with an old certificate for no longer than the time to live of *)
(* the cache after the change (pkg/certificate-cache).                     *)
(***************************************************************************)
THEOREM StaleNoLongerThanTTL == CertificatesSpec => []StaleForTTLOnly
<1>1. CertificatesInit => CacheInv
  BY CertificatesAssumption
     DEF CertificatesAssumption, CertificatesInit, NoEntry, CacheInv, EntryType
<1>2. CertificatesInv /\ CacheInv => StaleForTTLOnly
  BY CertificatesAssumption
     DEF CertificatesAssumption, CertificatesInv, CertificatesTypeOK, CertificateType,
         CacheInv, EntryType, StaleForTTLOnly, Valid
<1> QED BY <1>1, <1>2, CacheStep, CertificatesInvariant, PTL DEF CertificatesSpec
=============================================================================
