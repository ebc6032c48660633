------------------------------ MODULE HealthProofs ------------------------------
(***************************************************************************)
(* Health: the health rows follow the reports, for any number of devices,  *)
(* capabilities, reports and refreshes and however they compete for the    *)
(* write lock.                                                             *)
(***************************************************************************)
EXTENDS Health, FiniteSetTheorems, WellFoundedInduction, TLAPS

-----------------------------------------------------------------------------
(* Least and greatest numbers *)

\* Every set of naturals that is not empty has a least element.
LEMMA SmallestOf ==
  ASSUME NEW S \in SUBSET Nat, S # {}
  PROVE  \E n \in S : \A m \in S : n <= m
<1> DEFINE R == {p \in Nat \X Nat : p[1] < p[2]}
<1>1. IsWellFoundedOn(R, Nat)
  BY NatLessThanWellFounded DEF OpToRel
<1>2. PICK n \in S : \A m \in S : ~(<<m, n>> \in R)
  BY <1>1, WFMin
<1>3. ASSUME NEW m \in S PROVE n <= m
  <2>1. <<m, n>> \in Nat \X Nat /\ <<m, n>>[1] = m /\ <<m, n>>[2] = n
    OBVIOUS
  <2>2. ~(<<m, n>>[1] < <<m, n>>[2])
    BY <1>2, <2>1
  <2> QED BY <2>1, <2>2
<1> QED BY <1>3

\* One with an upper bound has a greatest.
LEMMA LargestOf ==
  ASSUME NEW n \in Nat, NEW S \in SUBSET (0..n), S # {}
  PROVE  \E t \in S : \A u \in S : u <= t
<1> DEFINE Rest == {n - t : t \in S}
<1>1. Rest \in SUBSET Nat /\ Rest # {}
  <2>1. \A t \in S : n - t \in Nat
    OBVIOUS
  <2> QED BY <2>1
<1>2. PICK r \in Rest : \A q \in Rest : r <= q
  <2> HIDE DEF Rest
  <2> QED BY <1>1, SmallestOf
<1>3. PICK t \in S : r = n - t
  BY <1>2
<1>4. ASSUME NEW u \in S PROVE u <= t
  <2>1. n - u \in Rest
    OBVIOUS
  <2> QED BY <1>2, <1>3, <2>1
<1> QED BY <1>4

-----------------------------------------------------------------------------
(* update_capability_health *)

\* None is none of the requests, and no row.
LEMMA NoneIsNoRequest == None \notin Reports
<1>1. None \notin Int
  BY NoneIsFresh
<1>2. \A r \in Reports : r \in Int
  BY ReportsAreNumbered
<1> QED BY <1>1, <1>2

ReportTables == [Reports -> ReportType \cup {None}]

\* The latest report of a device is a stored one of the device.
LEMMA LatestIsStored ==
  ASSUME NEW reports \in ReportTables, NEW latest \in LatestPerDevice(reports), NEW d \in DeviceIds
  PROVE  /\ latest[d] # None => Latest(reports, d, latest[d]) /\ latest[d] \in Stored(reports)
                                /\ reports[latest[d]] \in ReportType /\ reports[latest[d]].device = d
         /\ From(reports, d) # {} => latest[d] # None
<1>1. /\ latest \in [DeviceIds -> Reports \cup {None}]
      /\ IF From(reports, d) = {} THEN latest[d] = None ELSE Latest(reports, d, latest[d])
  BY DEF LatestPerDevice
<1>2. From(reports, d) \subseteq Stored(reports) /\ Stored(reports) \subseteq Reports /\ None \notin Reports
  BY NoneIsNoRequest DEF From, Stored
<1>3. ASSUME NEW r \in Stored(reports) PROVE reports[r] \in ReportType
  BY DEF ReportTables, Stored
<1>4. ASSUME From(reports, d) # {}
      PROVE  latest[d] # None /\ latest[d] \in From(reports, d) /\ Latest(reports, d, latest[d])
  BY <1>1, <1>2, <1>4 DEF Latest
<1>5. \A r \in From(reports, d) : reports[r].device = d
  BY DEF From
<1> QED BY <1>1, <1>2, <1>3, <1>4, <1>5

\* What is said of a capability there is a status.
LEMMA SaidIsStatus ==
  ASSUME NEW reports \in ReportTables, NEW latest \in LatestPerDevice(reports), NEW c \in Caps,
         NEW k \in Checking(reports, latest, c)
  PROVE  /\ k \in Nat /\ Devices[k] \in DeviceIds /\ latest[Devices[k]] # None
         /\ Said(reports, latest, k, c) \in Statuses
         /\ reports[latest[Devices[k]]].created \in Times
<1>1. k \in DOMAIN Devices /\ latest[Devices[k]] # None /\ Said(reports, latest, k, c) # NoCheck
  BY DEF Checking
<1>2. k \in Nat /\ Devices[k] \in DeviceIds
  BY <1>1, InOrder DEF DeviceIds
<1>3. reports[latest[Devices[k]]] \in ReportType
  BY <1>1, <1>2, LatestIsStored
<1>4. Said(reports, latest, k, c) \in Statuses \cup {NoCheck}
  BY <1>3, ContentsAreChecks DEF Said, ReportType
<1> QED BY <1>1, <1>2, <1>3, <1>4 DEF ReportType

\* max finds the first of the entries that count most.
LEMMA WorstExists ==
  ASSUME NEW reports \in ReportTables, NEW latest \in LatestPerDevice(reports), NEW c \in Caps,
         Checking(reports, latest, c) # {}
  PROVE  \E k \in Checking(reports, latest, c) : Worst(reports, latest, c, k)
<1> DEFINE Ks   == Checking(reports, latest, c)
           P(k) == Priority[Said(reports, latest, k, c)]
           Ps   == {P(k) : k \in Ks}
<1>1. \A k \in Ks : k \in Nat /\ P(k) \in 0..3
  BY SaidIsStatus, PriorityIsNumber
<1>2. PICK p \in Ps : \A q \in Ps : q <= p
  <2>1. Ps \in SUBSET (0..3) /\ Ps # {}
    BY <1>1
  <2> HIDE DEF Ps
  <2> QED BY <2>1, LargestOf, 3 \in Nat
<1> DEFINE Firsts == {k \in Ks : P(k) = p}
<1>3. PICK k \in Firsts : \A j \in Firsts : k <= j
  <2>1. Firsts \in SUBSET Nat /\ Firsts # {}
    BY <1>1
  <2> HIDE DEF Firsts
  <2> QED BY <2>1, SmallestOf
<1>4. ASSUME NEW j \in Ks
      PROVE  P(j) <= P(k) /\ (j < k => P(j) < P(k))
  <2>1. P(j) \in Ps /\ P(k) = p /\ P(j) \in 0..3 /\ p \in 0..3 /\ j \in Nat /\ k \in Nat
    BY <1>1
  <2>2. P(j) <= p
    BY <1>2, <2>1
  <2>3. j < k => P(j) # p
    BY <1>3, <2>1
  <2> HIDE DEF P
  <2> QED BY <2>1, <2>2, <2>3
<1> QED BY <1>4 DEF Worst

\* The row of a capability is the worst that is said, and the last time.
LEMMA RowIsWorstAndLast ==
  ASSUME NEW reports \in ReportTables, NEW latest \in LatestPerDevice(reports), NEW c \in Caps,
         Checking(reports, latest, c) # {}
  PROVE  /\ \E k \in Checking(reports, latest, c) :
              WorstStatus(reports, latest, c) = Said(reports, latest, k, c)
         /\ \E k \in Checking(reports, latest, c) :
              LastChecked(reports, latest, c) = reports[latest[Devices[k]]].created
         /\ \A k \in Checking(reports, latest, c) :
              /\ Priority[Said(reports, latest, k, c)] <= Priority[WorstStatus(reports, latest, c)]
              /\ reports[latest[Devices[k]]].created <= LastChecked(reports, latest, c)
         /\ Row(WorstStatus(reports, latest, c), LastChecked(reports, latest, c)) \in RowType
<1> DEFINE Ks == Checking(reports, latest, c)
           created == {reports[latest[Devices[k]]].created : k \in Ks}
           first == CHOOSE k \in Ks : Worst(reports, latest, c, k)
<1>1. first \in Ks /\ Worst(reports, latest, c, first)
  BY WorstExists
<1>2. WorstStatus(reports, latest, c) = Said(reports, latest, first, c)
  BY DEF WorstStatus
<1>3. created \in SUBSET (0..MaxTime) /\ created # {}
  BY SaidIsStatus DEF Times
<1>4. LastChecked(reports, latest, c) \in created
      /\ \A u \in created : u <= LastChecked(reports, latest, c)
  <2>1. \E t \in created : \A u \in created : u <= t
    <3> HIDE DEF created
    <3> QED BY <1>3, LargestOf, Bounds
  <2>2. LastChecked(reports, latest, c) = CHOOSE t \in created : \A u \in created : u <= t
    BY DEF LastChecked
  <2> HIDE DEF created
  <2> QED BY <2>1, <2>2
<1>5. Said(reports, latest, first, c) \in Statuses
  BY <1>1, SaidIsStatus
<1> HIDE DEF first
<1>6. \A k \in Ks : Priority[Said(reports, latest, k, c)] <= Priority[WorstStatus(reports, latest, c)]
  BY <1>1, <1>2 DEF Worst
<1>7. Row(WorstStatus(reports, latest, c), LastChecked(reports, latest, c)) \in RowType
  BY <1>2, <1>3, <1>4, <1>5 DEF Row, RowType, Times
<1> QED BY <1>1, <1>2, <1>4, <1>6, <1>7

\* The rows after an update have the type of rows.
LEMMA RecomputedType ==
  ASSUME NEW reports \in ReportTables, NEW latest \in LatestPerDevice(reports),
         adapter_health \in [Caps -> RowType]
  PROVE  Recomputed(reports, latest) \in [Caps -> RowType]
<1>1. ASSUME NEW c \in Caps, Checking(reports, latest, c) # {}
      PROVE  Row(WorstStatus(reports, latest, c), LastChecked(reports, latest, c)) \in RowType
  BY <1>1, RowIsWorstAndLast
<1> QED BY <1>1 DEF Recomputed

\* If no latest report is malformed, the row of a capability somebody checks is
\* computed anew.
LEMMA RecomputedRow ==
  ASSUME NEW reports \in ReportTables, NEW latest \in LatestPerDevice(reports), NEW c \in Caps,
         Checking(reports, latest, c) # {},
         \A e \in Caps : \A k \in Checking(reports, latest, e) : Said(reports, latest, k, e) # Malformed
  PROVE  Recomputed(reports, latest)[c]
           = Row(WorstStatus(reports, latest, c), LastChecked(reports, latest, c))
<1>1. \A j \in DOMAIN Capabilities : Capabilities[j] \in Caps
  BY DEF Caps
<1> QED BY <1>1 DEF Recomputed

\* An update makes the rows follow the reports, whatever they were before.
LEMMA UpdateIsCurrent ==
  ASSUME NEW reports \in ReportTables, NEW latest \in LatestPerDevice(reports)
  PROVE  Current(reports, Recomputed(reports, latest))
<1> DEFINE health == Recomputed(reports, latest)
           current == {latest[d] : d \in {e \in DeviceIds : latest[e] # None}}
           Saying(c) == {r \in current : reports[r].checks[c] # NoCheck}
<1>1. current \in SUBSET Stored(reports)
  BY LatestIsStored
<1>2. ASSUME NEW s \in Stored(reports)
      PROVE  \E r \in current : reports[r].device = reports[s].device
                                /\ reports[r].created >= reports[s].created
  <2> DEFINE d == reports[s].device
  <2>1. reports[s] \in ReportType /\ d \in DeviceIds /\ s \in From(reports, d)
    BY DEF ReportTables, Stored, From, ReportType
  <2>2. latest[d] \in current /\ Latest(reports, d, latest[d]) /\ reports[latest[d]] \in ReportType
        /\ reports[latest[d]].device = d
    BY <2>1, LatestIsStored
  <2>3. reports[s].created <= reports[latest[d]].created
    BY <2>1, <2>2 DEF Latest
  <2>4. reports[s].created \in Int /\ reports[latest[d]].created \in Int
    BY <2>1, <2>2, Bounds DEF ReportType, Times
  <2>5. reports[latest[d]].created >= reports[s].created
    BY <2>3, <2>4
  <2> QED BY <2>2, <2>5
<1>3. ASSUME NEW r \in current, NEW s \in current, reports[r].device = reports[s].device
      PROVE  r = s
  BY <1>3, LatestIsStored
<1>4. ASSUME ~ \E r \in current, c \in Caps : reports[r].checks[c] = Malformed,
             NEW c \in Caps, Saying(c) # {}
      PROVE  /\ \E r \in Saying(c) : reports[r].checks[c] = health[c].status
             /\ \E r \in Saying(c) : reports[r].created = health[c].checked
             /\ \A r \in Saying(c) :
                  /\ Priority[reports[r].checks[c]] <= Priority[health[c].status]
                  /\ reports[r].created <= health[c].checked
  <2>1. ASSUME NEW e \in Caps, NEW k \in Checking(reports, latest, e)
        PROVE  /\ Said(reports, latest, k, e) = reports[latest[Devices[k]]].checks[e]
               /\ latest[Devices[k]] \in current
               /\ Said(reports, latest, k, e) # Malformed
               /\ Said(reports, latest, k, e) # NoCheck
    BY <1>4, SaidIsStatus DEF Said, Checking
  <2>2. ASSUME NEW r \in Saying(c)
        PROVE  \E k \in Checking(reports, latest, c) : r = latest[Devices[k]]
    BY DEF Checking, Said, DeviceIds
  <2>3. Checking(reports, latest, c) # {}
    BY <1>4, <2>2
  <2>4. health[c] = Row(WorstStatus(reports, latest, c), LastChecked(reports, latest, c))
    BY <2>1, <2>3, RecomputedRow
  <2>5. /\ health[c].status = WorstStatus(reports, latest, c)
        /\ health[c].checked = LastChecked(reports, latest, c)
    BY <2>4 DEF Row
  <2>6. /\ \E k \in Checking(reports, latest, c) :
             WorstStatus(reports, latest, c) = Said(reports, latest, k, c)
        /\ \E k \in Checking(reports, latest, c) :
             LastChecked(reports, latest, c) = reports[latest[Devices[k]]].created
        /\ \A k \in Checking(reports, latest, c) :
             /\ Priority[Said(reports, latest, k, c)] <= Priority[WorstStatus(reports, latest, c)]
             /\ reports[latest[Devices[k]]].created <= LastChecked(reports, latest, c)
    BY <2>3, RowIsWorstAndLast
  <2>7. \A k \in Checking(reports, latest, c) : latest[Devices[k]] \in Saying(c)
    BY <2>1
  <2> HIDE DEF Saying, current
  <2> QED BY <2>1, <2>2, <2>5, <2>6, <2>7
<1> HIDE DEF current
<1> QED BY <1>1, <1>2, <1>3, <1>4 DEF Current

-----------------------------------------------------------------------------
(* Storing a report *)

\* The reports stored are finitely many.
LEMMA StoredIsFinite ==
  ASSUME NEW reports
  PROVE  IsFiniteSet(Stored(reports)) /\ Cardinality(Stored(reports)) \in Nat
<1>1. Stored(reports) \in SUBSET Reports
  BY DEF Stored
<1> QED BY <1>1, ReportsAreNumbered, FS_Subset, FS_CardinalityType

\* Storing a report adds one row and leaves the others as they are.
LEMMA InsertStores ==
  ASSUME TypeOK, ReportsInStep, NEW r \in Reports, Insert(r)
  PROVE  /\ ReportRow(r) \in ReportType
         /\ device_reports' = [device_reports EXCEPT ![r] = ReportRow(r)]
         /\ device_reports' \in ReportTables
         /\ r \notin Stored(device_reports)
         /\ Stored(device_reports)' = Stored(device_reports) \cup {r}
         /\ Cardinality(Stored(device_reports)') = Cardinality(Stored(device_reports)) + 1
         /\ device_reports'[r].rowid = Cardinality(Stored(device_reports)) + 1
         /\ \A s \in Stored(device_reports) : device_reports'[s] = device_reports[s]
<1>1. request[r] \in RequestType /\ pc[r] = "inserting" /\ device_reports[r] = None
  BY DEF TypeOK, ReportsInStep, Insert
<1>2. Cardinality(Stored(device_reports)) + 1 \in Nat
  BY StoredIsFinite
<1>3. ReportRow(r) \in ReportType
  BY <1>1, <1>2 DEF ReportRow, ReportType, RequestType
<1>4. ReportRow(r) # None
  BY <1>3, NoneIsFresh
<1>5. device_reports' = [device_reports EXCEPT ![r] = ReportRow(r)]
  BY DEF Insert
<1>6. device_reports \in ReportTables /\ device_reports' \in ReportTables
  BY <1>3, <1>5 DEF TypeOK, ReportTables
<1>7. r \notin Stored(device_reports) /\ Stored(device_reports') = Stored(device_reports) \cup {r}
  BY <1>1, <1>4, <1>5, <1>6 DEF Stored, ReportTables
<1>8. Cardinality(Stored(device_reports')) = Cardinality(Stored(device_reports)) + 1
  BY <1>7, StoredIsFinite, FS_AddElement
<1>9. device_reports'[r].rowid = Cardinality(Stored(device_reports)) + 1
  BY <1>5, <1>6 DEF ReportRow, ReportTables
<1>10. \A s \in Stored(device_reports) : device_reports'[s] = device_reports[s]
  BY <1>5, <1>6, <1>7 DEF Stored, ReportTables
<1>11. Stored(device_reports)' = Stored(device_reports')
  BY DEF Stored
<1> QED BY <1>3, <1>5, <1>6, <1>7, <1>8, <1>9, <1>10, <1>11

\* What agrees with the stored reports still does when another has been stored.
LEMMA StillAgrees ==
  ASSUME TypeOK, ReportsInStep, NEW r \in Reports, Insert(r), NEW i, NEW status, NEW b \in BasisType,
         b.rows <= Cardinality(Stored(device_reports)), Agrees(i, status, b)
  PROVE  Agrees(i, status, b)'
<1>1. From(device_reports, i) \subseteq From(device_reports, i)'
  BY InsertStores DEF From
<1>2. Earlier(i, b)' \subseteq Earlier(i, b)
  <2>1. SUFFICES ASSUME NEW s \in Earlier(i, b)' PROVE s \in Earlier(i, b)
    OBVIOUS
  <2>2. s \in Stored(device_reports)' /\ device_reports'[s].device = i /\ device_reports'[s].rowid <= b.rows
    BY DEF Earlier, From
  <2>3. s # r
    BY <2>2, InsertStores, StoredIsFinite DEF BasisType
  <2> QED BY <2>2, <2>3, InsertStores DEF Earlier, From
<1>3. \A s \in From(device_reports, i) : Recent(s, b)' <=> Recent(s, b)
  BY InsertStores DEF From, Recent
<1>4. Earlier(i, b) \subseteq From(device_reports, i)
  BY DEF Earlier
<1> QED BY <1>1, <1>2, <1>3, <1>4 DEF Agrees

\* Agreement is about stored reports only.
LEMMA AgreesUnlessStored ==
  ASSUME UNCHANGED device_reports
  PROVE  /\ \A i, status, b : Agrees(i, status, b)' <=> Agrees(i, status, b)
         /\ Stored(device_reports)' = Stored(device_reports)
BY DEF Agrees, Earlier, Recent, From, Stored

\* What rule c finds agrees with the reports, as of the beginning of the refresh.
LEMMA FreshnessAgrees ==
  ASSUME TypeOK, NEW i, NEW b \in BasisType, NEW s \in Freshness(i, b.began)
  PROVE  s \in {"ok", "error", "unknown"} /\ Agrees(i, s, b)
<1>1. CASE From(device_reports, i) = {}
  BY <1>1 DEF Freshness, Agrees, Earlier
<1>2. CASE From(device_reports, i) # {}
  <2>1. PICK r \in Reports : Latest(device_reports, i, r)
                             /\ s = IF b.began - device_reports[r].created < Fresh THEN "ok" ELSE "error"
    BY <1>2 DEF Freshness
  <2>2. \A q \in From(device_reports, i) : device_reports[q].created \in Int
    BY Bounds DEF TypeOK, From, Stored, ReportType, Times
  <2>3. \A q \in From(device_reports, i) : device_reports[q].created <= device_reports[r].created
    BY <2>1 DEF Latest
  <2>4. r \in From(device_reports, i) /\ b.began \in Int /\ Fresh \in Int
    BY <2>1, Bounds DEF Latest, BasisType, Times
  <2>5. CASE b.began - device_reports[r].created < Fresh
    BY <2>1, <2>4, <2>5 DEF Agrees, Recent
  <2>6. CASE ~(b.began - device_reports[r].created < Fresh)
    <3>1. \A q \in From(device_reports, i) : ~Recent(q, b)
      BY <2>2, <2>3, <2>4, <2>6 DEF Recent
    <3> QED BY <2>1, <2>6, <3>1, <1>2 DEF Agrees, Earlier
  <2> QED BY <2>5, <2>6
<1> QED BY <1>1, <1>2

-----------------------------------------------------------------------------
(* The invariant *)

\* The invariant holds of the seeded tables.
LEMMA HealthInvInit == Init => HealthInv
<1> SUFFICES ASSUME Init PROVE HealthInv
  OBVIOUS
<1>1. Stored(device_reports) = {} /\ Cardinality(Stored(device_reports)) = 0
  BY FS_EmptySet DEF Init, Stored
<1>2. 0 \in Times /\ 0 \in Nat
  BY Bounds DEF Times
<1>3. Row("unknown", None) \in RowType
  BY StatusesAreKnown DEF Row, RowType
<1>4. TypeOK
  BY <1>2, <1>3 DEF Init, TypeOK, NothingWritten
<1>5. HealthIsCurrent
  BY <1>1 DEF HealthIsCurrent, Current
<1>6. DeviceRowsMatchReports /\ RefreshesInStep
  BY DEF Init, DeviceRowsMatchReports, RefreshesInStep, NothingWritten
<1>7. ReportsInStep
  BY <1>1, <1>2 DEF Init, ReportsInStep
<1> QED BY <1>4, <1>5, <1>6, <1>7 DEF HealthInv

\* A report that is stored.
LEMMA InsertKeeps ==
  ASSUME HealthInv, NEW r \in Reports, Insert(r)
  PROVE  HealthInv'
<1> USE DEF HealthInv
<1>1. PICK latest \in LatestPerDevice(device_reports') : adapter_health' = Recomputed(device_reports', latest)
  BY DEF Insert, LatestPerDevice, From, Stored, Latest
<1>2. HealthIsCurrent'
  BY <1>1, InsertStores, UpdateIsCurrent DEF HealthIsCurrent
<1>3. TypeOK'
  <2>1. adapter_health' \in [Caps -> RowType]
    BY <1>1, InsertStores, RecomputedType DEF TypeOK
  <2> QED BY <2>1, InsertStores DEF TypeOK, Insert, Replies, refreshVars, ReportTables
<1>4. ReportsInStep'
  <2>1. Cardinality(Stored(device_reports)) \in Nat
    BY StoredIsFinite
  <2>2. request' = [request EXCEPT ![r] = None] /\ pc' = [pc EXCEPT ![r] = "accepted"]
        /\ UNCHANGED <<rows, basis>>
    BY DEF Insert, Replies, refreshVars
  <2>3. \A s \in Reports : s # r => device_reports'[s] = device_reports[s]
    BY InsertStores DEF TypeOK
  <2>4. \A f \in Refreshes : rows'[f] <= Cardinality(Stored(device_reports)')
    BY <2>1, <2>2, InsertStores DEF ReportsInStep, TypeOK
  <2>5. \A i \in Integrations : basis'[i] # None => basis'[i].rows <= Cardinality(Stored(device_reports)')
    BY <2>1, <2>2, InsertStores DEF ReportsInStep, TypeOK, BasisType
  <2>6. \A s \in Reports : device_reports'[s] # None =>
          device_reports'[s].rowid <= Cardinality(Stored(device_reports)')
    BY <2>1, <2>3, InsertStores DEF ReportsInStep, TypeOK, ReportType
  <2>7. \A s \in Reports : /\ request'[s] # None <=> pc'[s] = "inserting"
                           /\ device_reports'[s] # None => pc'[s] = "accepted"
    BY <2>2, <2>3 DEF ReportsInStep, TypeOK
  <2> QED BY <2>4, <2>5, <2>6, <2>7 DEF ReportsInStep
<1>5. DeviceRowsMatchReports'
  <2>1. ASSUME NEW i \in Integrations \ Probed, basis[i] # None
        PROVE  Agrees(i, integrations[i].status, basis[i])'
    <3>1. basis[i] \in BasisType /\ basis[i].rows <= Cardinality(Stored(device_reports))
      BY <2>1 DEF TypeOK, ReportsInStep
    <3>2. UNCHANGED <<basis, integrations>>
      BY DEF Insert, refreshVars
    <3> QED BY <2>1, <3>1, <3>2, StillAgrees DEF DeviceRowsMatchReports, Agrees, Earlier, Recent
  <2> QED BY <2>1 DEF DeviceRowsMatchReports, Insert, refreshVars
<1>6. RefreshesInStep'
  <2> SUFFICES ASSUME NEW f \in Refreshes
               PROVE  RefreshesInStep!(f)'
    BY DEF RefreshesInStep
  <2> DEFINE b == [began |-> began[f], rows |-> rows[f]]
  <2>1. b \in BasisType /\ b.rows <= Cardinality(Stored(device_reports))
    BY DEF TypeOK, BasisType, ReportsInStep
  <2>2. UNCHANGED <<rpc, began, rows, probe, buffer>>
    BY DEF Insert, refreshVars
  <2>3. ASSUME NEW i, NEW status, Agrees(i, status, b)
        PROVE  Agrees(i, status, b)'
    BY <2>1, <2>2, <2>3, StillAgrees DEF Agrees, Earlier, Recent
  <2> QED BY <2>2, <2>3 DEF RefreshesInStep
<1> QED BY <1>2, <1>3, <1>4, <1>5, <1>6

\* A step of a report that stores none, and a tick.
LEMMA OthersKeep ==
  ASSUME HealthInv, UNCHANGED refreshVars, UNCHANGED <<device_reports, adapter_health>>,
         \/ now' \in Times /\ UNCHANGED <<pc, request>>
         \/ /\ UNCHANGED now
            /\ \E r \in Reports :
                 \/ Refuse(r) \/ InsertFails(r)
                 \/ \E d \in DeviceIds, checks \in Contents : Authorize(r, d, checks)
  PROVE  HealthInv'
<1> USE DEF HealthInv
<1>1. TypeOK' /\ ReportsInStep'
  <2>1. CASE now' \in Times /\ UNCHANGED <<pc, request>>
    BY <2>1, AgreesUnlessStored DEF TypeOK, ReportsInStep, refreshVars
  <2>2. ASSUME NEW r \in Reports, Refuse(r), UNCHANGED now PROVE TypeOK' /\ ReportsInStep'
    BY <2>2, AgreesUnlessStored DEF Refuse, Arrives, Replies, TypeOK, ReportsInStep, refreshVars
  <2>3. ASSUME NEW r \in Reports, InsertFails(r), UNCHANGED now PROVE TypeOK' /\ ReportsInStep'
    BY <2>3, AgreesUnlessStored DEF InsertFails, Replies, TypeOK, ReportsInStep, refreshVars
  <2>4. ASSUME NEW r \in Reports, NEW d \in DeviceIds, NEW checks \in Contents,
               Authorize(r, d, checks), UNCHANGED now
        PROVE  TypeOK' /\ ReportsInStep'
    <3>1. [device |-> d, checks |-> checks, created |-> now] \in RequestType
      BY DEF TypeOK, RequestType
    <3>2. [device |-> d, checks |-> checks, created |-> now] # None
      BY <3>1, NoneIsFresh
    <3> QED BY <2>4, <3>1, <3>2, AgreesUnlessStored
            DEF Authorize, Arrives, Replies, TypeOK, ReportsInStep, refreshVars
  <2> QED BY <2>1, <2>2, <2>3, <2>4
<1>2. HealthIsCurrent'
  BY DEF HealthIsCurrent
<1>3. DeviceRowsMatchReports'
  BY AgreesUnlessStored DEF DeviceRowsMatchReports, refreshVars
<1>4. RefreshesInStep'
  BY AgreesUnlessStored DEF RefreshesInStep, refreshVars
<1> QED BY <1>1, <1>2, <1>3, <1>4

\* A step of a refresh does not touch the reports.
LEMMA RefreshKeepsReports ==
  ASSUME HealthInv, UNCHANGED <<now, reportVars>>,
         rows' \in [Refreshes -> Nat], basis' \in [Integrations -> BasisType \cup {None}],
         \A f \in Refreshes : rows'[f] <= Cardinality(Stored(device_reports)),
         \A i \in Integrations :
           basis'[i] # None => basis'[i].rows <= Cardinality(Stored(device_reports))
  PROVE  HealthIsCurrent' /\ ReportsInStep'
<1>1. HealthIsCurrent'
  BY DEF HealthInv, HealthIsCurrent, reportVars
<1>2. ReportsInStep'
  BY AgreesUnlessStored DEF HealthInv, ReportsInStep, reportVars
<1> QED BY <1>1, <1>2

\* A request for the integration rows.
LEMMA StartRefreshKeeps ==
  ASSUME HealthInv, NEW f \in Refreshes, StartRefresh(f)
  PROVE  HealthInv'
<1> USE DEF HealthInv
<1>1. TypeOK'
  BY StoredIsFinite DEF TypeOK, StartRefresh, reportVars
<1>2. HealthIsCurrent' /\ ReportsInStep'
  <2>1. \A g \in Refreshes : rows'[g] <= Cardinality(Stored(device_reports))
    BY StoredIsFinite DEF TypeOK, StartRefresh, ReportsInStep
  <2> QED BY <1>1, <2>1, RefreshKeepsReports DEF TypeOK, StartRefresh, ReportsInStep
<1>3. DeviceRowsMatchReports'
  BY AgreesUnlessStored DEF DeviceRowsMatchReports, StartRefresh, reportVars
<1>4. RefreshesInStep'
  <2> SUFFICES ASSUME NEW g \in Refreshes
               PROVE  RefreshesInStep!(g)'
    BY DEF RefreshesInStep
  <2>1. CASE g # f
    BY <2>1, AgreesUnlessStored DEF RefreshesInStep, StartRefresh, reportVars, TypeOK
  <2>2. CASE g = f
    BY <2>2 DEF RefreshesInStep, StartRefresh, NothingWritten, TypeOK
  <2> QED BY <2>1, <2>2
<1> QED BY <1>1, <1>2, <1>3, <1>4

\* One probe.
LEMMA ProbeKeeps ==
  ASSUME HealthInv, NEW f \in Refreshes, Probe(f)
  PROVE  HealthInv'
<1> USE DEF HealthInv
<1>1. PICK i \in todo[f] :
        \E s \in IF i \in Probed THEN {"ok", "error"} ELSE Freshness(i, began[f]) :
          probe' = [probe EXCEPT ![f] = [adapter |-> i, row |-> Row(s, now)]]
  BY DEF Probe
<1>2. PICK s \in IF i \in Probed THEN {"ok", "error"} ELSE Freshness(i, began[f]) :
        probe' = [probe EXCEPT ![f] = [adapter |-> i, row |-> Row(s, now)]]
  BY <1>1
<1> DEFINE b == [began |-> began[f], rows |-> rows[f]]
<1>3. b \in BasisType /\ b.began = began[f] /\ i \in Integrations
  BY DEF TypeOK, BasisType
<1>4. s \in {"ok", "error", "unknown"} /\ (i \notin Probed => Agrees(i, s, b))
  BY <1>3, FreshnessAgrees
<1>5. [adapter |-> i, row |-> Row(s, now)] \in ProbeType
  BY <1>3, <1>4, StatusesAreKnown DEF ProbeType, RowType, Row, TypeOK
<1>6. [adapter |-> i, row |-> Row(s, now)] # None
  BY <1>5, NoneIsFresh
<1>7. TypeOK'
  BY <1>2, <1>5 DEF TypeOK, Probe, reportVars
<1>8. HealthIsCurrent' /\ ReportsInStep'
  BY <1>7, RefreshKeepsReports DEF TypeOK, Probe, ReportsInStep
<1>9. DeviceRowsMatchReports'
  BY AgreesUnlessStored DEF DeviceRowsMatchReports, Probe, reportVars
<1>10. RefreshesInStep'
  <2> SUFFICES ASSUME NEW g \in Refreshes
               PROVE  RefreshesInStep!(g)'
    BY DEF RefreshesInStep
  <2>1. CASE g # f
    BY <1>2, <2>1, AgreesUnlessStored DEF RefreshesInStep, Probe, reportVars, TypeOK
  <2>2. CASE g = f
    <3>1. probe'[f] = [adapter |-> i, row |-> Row(s, now)] /\ rpc'[f] = "update"
          /\ probe'[f].adapter = i /\ probe'[f].row.status = s
      BY <1>2 DEF Probe, TypeOK, Row
    <3>2. UNCHANGED <<device_reports, began, rows, buffer>>
      BY DEF Probe, reportVars
    <3>3. rpc[f] = "probing"
      BY DEF Probe
    <3> QED BY <1>4, <1>6, <2>2, <3>1, <3>2, <3>3, AgreesUnlessStored DEF RefreshesInStep
  <2> QED BY <2>1, <2>2
<1> QED BY <1>7, <1>8, <1>9, <1>10

\* A row written, or given up.
LEMMA UpdateKeeps ==
  ASSUME HealthInv, NEW f \in Refreshes, Update(f) \/ UpdateFails(f)
  PROVE  HealthInv'
<1> USE DEF HealthInv
<1>1. rpc[f] = "update" /\ probe[f] \in ProbeType
  BY DEF Update, UpdateFails, TypeOK, RefreshesInStep
<1>2. probe[f].adapter \in Integrations /\ probe[f].row \in RowType
  BY <1>1 DEF ProbeType
<1>3. TypeOK'
  <2>1. CASE Update(f)
    BY <1>2, <2>1 DEF TypeOK, Update, DoneWith, reportVars
  <2>2. CASE UpdateFails(f)
    BY <2>2 DEF TypeOK, UpdateFails, DoneWith, reportVars
  <2> QED BY <2>1, <2>2
<1>4. HealthIsCurrent' /\ ReportsInStep'
  BY <1>3, RefreshKeepsReports DEF TypeOK, Update, UpdateFails, ReportsInStep
<1>5. DeviceRowsMatchReports'
  BY AgreesUnlessStored DEF DeviceRowsMatchReports, Update, UpdateFails, reportVars
<1>6. RefreshesInStep'
  <2> SUFFICES ASSUME NEW g \in Refreshes
               PROVE  RefreshesInStep!(g)'
    BY DEF RefreshesInStep
  <2>1. UNCHANGED <<device_reports, began, rows>>
        /\ probe' = [probe EXCEPT ![f] = None] /\ rpc' = [rpc EXCEPT ![f] = "probing"]
        /\ buffer' \in {buffer, [buffer EXCEPT ![f][probe[f].adapter] = probe[f].row]}
    BY DEF Update, UpdateFails, DoneWith, reportVars
  <2>2. CASE g # f
    <3>1. probe'[g] = probe[g] /\ rpc'[g] = rpc[g] /\ buffer'[g] = buffer[g]
      BY <2>1, <2>2 DEF TypeOK
    <3> QED BY <2>1, <3>1, AgreesUnlessStored DEF RefreshesInStep
  <2>3. CASE g = f
    <3>1. probe'[f] = None /\ rpc'[f] = "probing"
      BY <2>1 DEF TypeOK
    <3>2. \A i \in Integrations \ Probed : buffer'[f][i] # None =>
            \/ buffer'[f][i] = buffer[f][i]
            \/ i = probe[f].adapter /\ buffer'[f][i] = probe[f].row
      BY <2>1, <1>2 DEF TypeOK
    <3> QED BY <1>1, <2>1, <2>3, <3>1, <3>2, NoneIsFresh, AgreesUnlessStored DEF RefreshesInStep
  <2> QED BY <2>2, <2>3
<1> QED BY <1>3, <1>4, <1>5, <1>6

\* The end of a refresh, one way or the other.
LEMMA EndKeeps ==
  ASSUME HealthInv, NEW f \in Refreshes, CommitRefresh(f) \/ RefreshFails(f)
  PROVE  HealthInv'
<1> USE DEF HealthInv
<1>1. Ends(f) /\ UNCHANGED <<now, reportVars>>
  BY DEF CommitRefresh, RefreshFails
<1>2. ASSUME NEW i \in Integrations
      PROVE  \/ integrations'[i] = integrations[i] /\ basis'[i] = basis[i]
             \/ /\ buffer[f][i] # None /\ integrations'[i] = buffer[f][i]
                /\ basis'[i] = [began |-> began[f], rows |-> rows[f]]
  BY DEF CommitRefresh, RefreshFails, Written
<1>3. 0 \in Times
  BY Bounds DEF Times
<1>4. /\ integrations' \in [Integrations -> RowType]
      /\ basis' \in [Integrations -> BasisType \cup {None}]
  <2>1. CASE RefreshFails(f)
    BY <2>1 DEF RefreshFails, TypeOK
  <2>2. CASE CommitRefresh(f)
    <3>1. [began |-> began[f], rows |-> rows[f]] \in BasisType
      BY DEF TypeOK, BasisType
    <3> QED BY <2>2, <3>1 DEF CommitRefresh, TypeOK, Written
  <2> QED BY <2>1, <2>2
<1>5. TypeOK'
  BY <1>1, <1>3, <1>4 DEF TypeOK, Ends, NothingWritten, reportVars
<1>6. HealthIsCurrent' /\ ReportsInStep'
  <2>1. \A g \in Refreshes : rows'[g] <= Cardinality(Stored(device_reports))
    BY <1>1, StoredIsFinite DEF TypeOK, Ends, ReportsInStep
  <2>2. \A i \in Integrations : basis'[i] # None => basis'[i].rows <= Cardinality(Stored(device_reports))
    BY <1>2 DEF ReportsInStep
  <2> QED BY <1>1, <1>5, <2>1, <2>2, RefreshKeepsReports DEF TypeOK
<1>7. DeviceRowsMatchReports'
  BY <1>1, <1>2, AgreesUnlessStored DEF DeviceRowsMatchReports, RefreshesInStep, reportVars
<1>8. RefreshesInStep'
  <2> SUFFICES ASSUME NEW g \in Refreshes
               PROVE  RefreshesInStep!(g)'
    BY DEF RefreshesInStep
  <2>1. CASE g # f
    BY <1>1, <2>1, AgreesUnlessStored DEF RefreshesInStep, Ends, reportVars, TypeOK
  <2>2. CASE g = f
    BY <1>1, <2>2 DEF RefreshesInStep, Ends, NothingWritten, TypeOK
  <2> QED BY <2>1, <2>2
<1> QED BY <1>5, <1>6, <1>7, <1>8

\* Every step keeps the invariant.
LEMMA HealthInvStep == HealthInv /\ [Next]_vars => HealthInv'
<1> SUFFICES ASSUME HealthInv, [Next]_vars PROVE HealthInv'
  OBVIOUS
<1>1. CASE UNCHANGED vars
  BY <1>1, OthersKeep DEF vars, reportVars, HealthInv, TypeOK
<1>2. ASSUME NEW r \in Reports, ReportStep(r) PROVE HealthInv'
  <2>1. CASE Insert(r)
    BY <2>1, InsertKeeps
  <2>2. CASE ~Insert(r)
    BY <1>2, <2>2, OthersKeep DEF ReportStep, Refuse, InsertFails, Authorize
  <2> QED BY <2>1, <2>2
<1>3. ASSUME NEW f \in Refreshes, StartRefresh(f) \/ RefreshStep(f) \/ RefreshFails(f) PROVE HealthInv'
  BY <1>3, StartRefreshKeeps, ProbeKeeps, UpdateKeeps, EndKeeps DEF RefreshStep
<1>4. CASE Tick
  <2>1. now' \in Times
    BY <1>4, Bounds DEF Tick, HealthInv, TypeOK, Times
  <2> QED BY <1>4, <2>1, OthersKeep DEF Tick, reportVars
<1> QED BY <1>1, <1>2, <1>3, <1>4 DEF Next

-----------------------------------------------------------------------------
(* The theorems *)

\* The inductive invariant holds, however reports and refreshes interleave.
THEOREM HealthInvariance == Spec => []HealthInv
BY HealthInvInit, HealthInvStep, PTL DEF Spec

\* The capability rows follow the reports that are newest by created_at.
THEOREM HealthFollowsReports == Spec => []HealthIsCurrent
<1> HealthInv => HealthIsCurrent
  BY DEF HealthInv
<1> QED BY HealthInvariance, PTL

\* The rows of devices agree with the reports they were judged by.
THEOREM DeviceRowsAgree == Spec => []DeviceRowsMatchReports
<1> HealthInv => DeviceRowsMatchReports
  BY DEF HealthInv
<1> QED BY HealthInvariance, PTL
=============================================================================
