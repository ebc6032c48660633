-------------------------------- MODULE Health --------------------------------
(***************************************************************************)
(* The health the control plane shows.  A device's report is stored and, in  *)
(* the same transaction, the capability rows of adapter_health are computed  *)
(* anew from the latest report of each device (update_capability_health).    *)
(* A request for the integration rows first probes the stale ones, one after *)
(* another, and writes what it finds in a transaction that stays open while  *)
(* it probes on (refresh_integrations).  Both need SQLite's only write lock. *)
(***************************************************************************)
EXTENDS Integers, Sequences, FiniteSets

CONSTANTS
  Reports,      \* POSTs of a report, numbered as they arrive
  Devices,      \* the devices as a sequence, in the order of their ids
  Capabilities, \* _CAPABILITY_NAMES, in order
  Contents,     \* what a report can say: [Capabilities -> Statuses \cup {NoCheck}]
  Statuses,     \* statuses a report can contain
  Priority,     \* _STATUS_PRIORITY: what a status counts
  Malformed,    \* a status that cannot be ranked: a list or an object
  NoCheck,      \* the report has no check of the capability
  Refreshes,    \* threads that answer requests for the integration rows
  Integrations, \* adapters of kind "integration"
  Probed,       \* those with a URL to probe; the others are named after a device
  Ttl,          \* ttl_seconds
  Fresh,        \* _DEVICE_FRESHNESS_SECONDS
  None,
  MaxTime       \* bound: the clock

DeviceIds == {Devices[k] : k \in DOMAIN Devices}
Caps      == {Capabilities[k] : k \in DOMAIN Capabilities}
Times     == 0..MaxTime

RequestType == [device : DeviceIds, checks : Contents, created : Times]
ReportType  == [device : DeviceIds, checks : Contents, created : Times, rowid : Nat]
RowType     == [status : Statuses, checked : Times \cup {None}]
ProbeType   == [adapter : Integrations, row : RowType]
BasisType   == [began : Times, rows : Nat]

ASSUME ContentsAreChecks == Contents \subseteq [Caps -> Statuses \cup {NoCheck}]
ASSUME InOrder == Devices \in Seq(DeviceIds) /\ Capabilities \in Seq(Caps)
ASSUME PriorityIsNumber == Priority \in [Statuses -> 0..3]
ASSUME StatusesAreKnown == {"ok", "unknown", "error", Malformed} \subseteq Statuses /\ NoCheck \notin Statuses
ASSUME ReportsAreNumbered == Reports \subseteq Nat /\ IsFiniteSet(Reports)
ASSUME Bounds == {Ttl, Fresh, MaxTime} \subseteq Nat
ASSUME NoneIsFresh ==
  None \notin Int \cup Refreshes \cup RequestType \cup ReportType \cup RowType \cup ProbeType \cup BasisType

VARIABLES
  now,             \* time.time()
  device_reports,  \* rows by request
  adapter_health,  \* the capability rows
  integrations,    \* the integration rows
  lock,            \* the refresh whose transaction holds the write lock, or None
  pc,              \* where each report request is
  request,         \* its device, content and created_at
  rpc,             \* what each such thread is doing
  began,           \* refresh: `now`, read once
  rows,            \* history: how many reports were stored then
  todo,            \* refresh: stale rows not yet dealt with
  probe,           \* refresh: the row it is about to write
  buffer,          \* refresh: what its open transaction has written
  basis            \* history: `now` and rows of the refresh that wrote a row

reportVars  == <<device_reports, adapter_health, pc, request>>
refreshVars == <<integrations, lock, rpc, began, rows, todo, probe, buffer, basis>>
vars == <<now, reportVars, refreshVars>>

NothingWritten == [i \in Integrations |-> None]

Row(status, checked) == [status |-> status, checked |-> checked]

-----------------------------------------------------------------------------
(* update_capability_health *)

Stored(reports) == {r \in Reports : reports[r] # None}

From(reports, d) == {r \in Stored(reports) : reports[r].device = d}

\* Mutant: the report stored last, whatever its created_at.
LastStored(reports, d, r) ==
  /\ r \in From(reports, d)
  /\ \A s \in From(reports, d) : reports[s].rowid <= reports[r].rowid

\* ORDER BY device_id, created_at DESC: r comes first among d's reports.  Which
\* of two with the same created_at comes first is up to SQLite.
Latest(reports, d, r) ==
  /\ r \in From(reports, d)
  /\ \A s \in From(reports, d) : reports[s].created <= reports[r].created

LatestPerDevice(reports) ==
  {latest \in [DeviceIds -> Reports \cup {None}] :
     \A d \in DeviceIds :
       IF From(reports, d) = {} THEN latest[d] = None ELSE Latest(reports, d, latest[d])}

\* What the latest report of the device at position k says of c.
Said(reports, latest, k, c) == reports[latest[Devices[k]]].checks[c]

\* agg: the positions of the devices whose latest report checks c.
Checking(reports, latest, c) ==
  {k \in DOMAIN Devices : latest[Devices[k]] # None /\ Said(reports, latest, k, c) # NoCheck}

\* max: the first of the entries that count most.
Worst(reports, latest, c, k) ==
  \A j \in Checking(reports, latest, c) :
    /\ Priority[Said(reports, latest, j, c)] <= Priority[Said(reports, latest, k, c)]
    /\ j < k => Priority[Said(reports, latest, j, c)] < Priority[Said(reports, latest, k, c)]

WorstStatus(reports, latest, c) ==
  Said(reports, latest, CHOOSE k \in Checking(reports, latest, c) : Worst(reports, latest, c, k), c)

LastChecked(reports, latest, c) ==
  LET created == {reports[latest[Devices[k]]].created : k \in Checking(reports, latest, c)}
  IN  CHOOSE t \in created : \A u \in created : u <= t

\* The rows after an update with these latest reports.  A malformed status
\* raises: capabilities from that one on are left as they were, and the caller
\* keeps what was updated before it.  A status that is ranked (as 1) but cannot
\* be stored, which raises only where it is the worst, is not modelled.
Recomputed(reports, latest) ==
  LET Raises(c)  == \E k \in Checking(reports, latest, c) : Said(reports, latest, k, c) = Malformed
      Reached(c) == \A j, k \in DOMAIN Capabilities :
                      Capabilities[k] = c /\ j <= k => ~Raises(Capabilities[j])
  IN  [c \in Caps |->
         IF Checking(reports, latest, c) = {} \/ ~Reached(c) THEN adapter_health[c]
         ELSE Row(WorstStatus(reports, latest, c), LastChecked(reports, latest, c))]

-----------------------------------------------------------------------------
TypeOK ==
  /\ now \in Times
  /\ device_reports \in [Reports -> ReportType \cup {None}]
  /\ adapter_health \in [Caps -> RowType]
  /\ integrations \in [Integrations -> RowType]
  /\ lock \in Refreshes \cup {None}
  /\ pc \in [Reports -> {"idle", "inserting", "accepted", "rejected"}]
  /\ request \in [Reports -> RequestType \cup {None}]
  /\ rpc \in [Refreshes -> {"idle", "probing", "update"}]
  /\ began \in [Refreshes -> Times]
  /\ rows \in [Refreshes -> Nat]
  /\ todo \in [Refreshes -> SUBSET Integrations]
  /\ probe \in [Refreshes -> ProbeType \cup {None}]
  /\ buffer \in [Refreshes -> [Integrations -> RowType \cup {None}]]
  /\ basis \in [Integrations -> BasisType \cup {None}]

\* _ADAPTER_SEEDS and the defaults of adapter_health.
Init ==
  /\ now = 0
  /\ device_reports = [r \in Reports |-> None]
  /\ adapter_health = [c \in Caps |-> Row("unknown", None)]
  /\ integrations = [i \in Integrations |-> Row("unknown", None)]
  /\ lock = None
  /\ pc = [r \in Reports |-> "idle"]
  /\ request = [r \in Reports |-> None]
  /\ rpc = [f \in Refreshes |-> "idle"]
  /\ began = [f \in Refreshes |-> 0]
  /\ rows = [f \in Refreshes |-> 0]
  /\ todo = [f \in Refreshes |-> {}]
  /\ probe = [f \in Refreshes |-> None]
  /\ buffer = [f \in Refreshes |-> NothingWritten]
  /\ basis = [i \in Integrations |-> None]

Replies(r, answer) == pc' = [pc EXCEPT ![r] = answer]

-----------------------------------------------------------------------------
(* POST /api/v1/devices/{device_id}/reports *)

\* Requests are numbered as they come.
Arrives(r) == pc[r] = "idle" /\ \A s \in Reports : s < r => pc[s] # "idle"

\* 401, 422 for secret-shaped data, 403 for a token of another device.
Refuse(r) ==
  /\ Arrives(r)
  /\ Replies(r, "rejected")
  /\ UNCHANGED <<now, device_reports, adapter_health, request, refreshVars>>

\* The token is looked up, and the parameters of the INSERT, time.time() among
\* them, are computed, before the INSERT waits for the write lock.
Authorize(r, d, checks) ==
  /\ Arrives(r)
  /\ request' = [request EXCEPT ![r] = [device |-> d, checks |-> checks, created |-> now]]
  /\ Replies(r, "inserting")
  /\ UNCHANGED <<now, device_reports, adapter_health, refreshVars>>

ReportRow(r) ==
  [device |-> request[r].device, checks |-> request[r].checks,
   created |-> request[r].created, rowid |-> Cardinality(Stored(device_reports)) + 1]

\* INSERT, update_capability_health and commit: one transaction.  An UPDATE that
\* fails for another reason, and is swallowed like the exception in Recomputed,
\* is not modelled.
Insert(r) ==
  LET reports == [device_reports EXCEPT ![r] = ReportRow(r)]
  IN  /\ pc[r] = "inserting"
      /\ lock = None
      /\ device_reports' = reports
      /\ \E latest \in LatestPerDevice(reports) : adapter_health' = Recomputed(reports, latest)
      /\ request' = [request EXCEPT ![r] = None]
      /\ Replies(r, "accepted")
      /\ UNCHANGED <<now, refreshVars>>

\* "database is locked" after five seconds, or any other failure up to and
\* including the commit: rolled back and answered 500.
InsertFails(r) ==
  /\ pc[r] = "inserting"
  /\ request' = [request EXCEPT ![r] = None]
  /\ Replies(r, "rejected")
  /\ UNCHANGED <<now, device_reports, adapter_health, refreshVars>>

-----------------------------------------------------------------------------
(* GET /api/v1/integrations/status: refresh_integrations *)

StartRefresh(f) ==
  /\ rpc[f] = "idle"
  /\ began' = [began EXCEPT ![f] = now]
  /\ rows' = [rows EXCEPT ![f] = Cardinality(Stored(device_reports))]
  /\ todo' = [todo EXCEPT ![f] =
                {i \in Integrations :
                   integrations[i].checked = None \/ now - integrations[i].checked >= Ttl}]
  /\ rpc' = [rpc EXCEPT ![f] = "probing"]
  /\ UNCHANGED <<now, reportVars, integrations, lock, probe, buffer, basis>>

\* Mutant: any report of the device counts, not its latest.
FreshnessOfAny(i, t) ==
  IF From(device_reports, i) = {} THEN {"unknown"}
  ELSE {IF t - device_reports[r].created < Fresh THEN "ok" ELSE "error" :
          r \in From(device_reports, i)}

\* Mutant: no default status.
FreshnessUnset(i, t) ==
  IF From(device_reports, i) = {} THEN {None}
  ELSE {IF t - device_reports[r].created < Fresh THEN "ok" ELSE "error" :
          r \in {s \in Reports : Latest(device_reports, i, s)}}

\* Rule c: the age of the latest report of the device the row is named after.
Freshness(i, t) ==
  IF From(device_reports, i) = {} THEN {"unknown"}
  ELSE {IF t - device_reports[r].created < Fresh THEN "ok" ELSE "error" :
          r \in {s \in Reports : Latest(device_reports, i, s)}}

\* Probe one row: a GET (rules a and b) that may find anything, or rule c.
Probe(f) ==
  /\ rpc[f] = "probing"
  /\ \E i \in todo[f] :
       \E s \in IF i \in Probed THEN {"ok", "error"} ELSE Freshness(i, began[f]) :
         probe' = [probe EXCEPT ![f] = [adapter |-> i, row |-> Row(s, now)]]
  /\ rpc' = [rpc EXCEPT ![f] = "update"]
  /\ UNCHANGED <<now, reportVars, integrations, lock, began, rows, todo, buffer, basis>>

DoneWith(f, i) ==
  /\ todo' = [todo EXCEPT ![f] = @ \ {i}]
  /\ probe' = [probe EXCEPT ![f] = None]
  /\ rpc' = [rpc EXCEPT ![f] = "probing"]

\* The first UPDATE takes the write lock; the commit is at the very end.
Update(f) ==
  /\ rpc[f] = "update"
  /\ lock \in {None, f}
  /\ lock' = f
  /\ buffer' = [buffer EXCEPT ![f][probe[f].adapter] = probe[f].row]
  /\ DoneWith(f, probe[f].adapter)
  /\ UNCHANGED <<now, reportVars, integrations, began, rows, basis>>

\* Mutant: the row is tried again.
UpdateFailsAgain(f) ==
  /\ rpc[f] = "update"
  /\ rpc' = [rpc EXCEPT ![f] = "probing"]
  /\ UNCHANGED <<now, reportVars, integrations, lock, began, rows, todo, probe, buffer, basis>>

\* The UPDATE raises, mostly because the lock stays taken: logged, next row.
UpdateFails(f) ==
  /\ rpc[f] = "update"
  /\ DoneWith(f, probe[f].adapter)
  /\ UNCHANGED <<now, reportVars, integrations, lock, began, rows, buffer, basis>>

\* The transaction is over, one way or the other, and the call with it.
Ends(f) ==
  /\ rpc' = [rpc EXCEPT ![f] = "idle"]
  /\ lock' = IF lock = f THEN None ELSE lock
  /\ began' = [began EXCEPT ![f] = 0]
  /\ rows' = [rows EXCEPT ![f] = 0]
  /\ todo' = [todo EXCEPT ![f] = {}]
  /\ probe' = [probe EXCEPT ![f] = None]
  /\ buffer' = [buffer EXCEPT ![f] = NothingWritten]

Written(f) == {i \in Integrations : buffer[f][i] # None}

\* The end of the with block commits.
CommitRefresh(f) ==
  /\ rpc[f] = "probing"
  /\ todo[f] = {}
  /\ integrations' = [i \in Integrations |->
                        IF i \in Written(f) THEN buffer[f][i] ELSE integrations[i]]
  /\ basis' = [i \in Integrations |->
                 IF i \in Written(f) THEN [began |-> began[f], rows |-> rows[f]] ELSE basis[i]]
  /\ Ends(f)
  /\ UNCHANGED <<now, reportVars>>

\* The SELECT or the commit raises although refresh_integrations "NEVER raises"
\* (the endpoint logs it and answers with the old rows), or the process dies.
RefreshFails(f) ==
  /\ rpc[f] \in {"probing", "update"}
  /\ Ends(f)
  /\ UNCHANGED <<now, reportVars, integrations, basis>>

-----------------------------------------------------------------------------
Tick ==
  /\ now < MaxTime
  /\ now' = now + 1
  /\ UNCHANGED <<reportVars, refreshVars>>

ReportStep(r) ==
  \/ Refuse(r)
  \/ \E d \in DeviceIds, checks \in Contents : Authorize(r, d, checks)
  \/ Insert(r) \/ InsertFails(r)

\* One step of a refresh under way.
RefreshStep(f) ==
  Probe(f) \/ Update(f) \/ UpdateFails(f) \/ CommitRefresh(f)

Next ==
  \/ \E r \in Reports : ReportStep(r)
  \/ \E f \in Refreshes : StartRefresh(f) \/ RefreshStep(f) \/ RefreshFails(f)
  \/ Tick

\* The server's threads run; probes and waits for the lock time out.
Spec == Init /\ [][Next]_vars /\ \A f \in Refreshes : WF_vars(RefreshStep(f))

-----------------------------------------------------------------------------
\* Rows that show one latest report of each device: the worst status any of
\* them gives, and the time of the last that checked the capability.  Nothing
\* is said of the rows while one of the reports is malformed.
Current(reports, health) ==
  \E current \in SUBSET Stored(reports) :
    LET Saying(c) == {r \in current : reports[r].checks[c] # NoCheck}
    IN  /\ \A s \in Stored(reports) :
             \E r \in current :
               reports[r].device = reports[s].device /\ reports[r].created >= reports[s].created
        /\ \A r, s \in current : reports[r].device = reports[s].device => r = s
        /\ \/ \E r \in current, c \in Caps : reports[r].checks[c] = Malformed
           \/ \A c \in Caps : Saying(c) # {} =>
                /\ \E r \in Saying(c) : reports[r].checks[c] = health[c].status
                /\ \E r \in Saying(c) : reports[r].created = health[c].checked
                /\ \A r \in Saying(c) :
                     /\ Priority[reports[r].checks[c]] <= Priority[health[c].status]
                     /\ reports[r].created <= health[c].checked

\* In whatever order reports get hold of the write lock, the capability rows
\* show the reports that are newest by created_at (update_capability_health).
HealthIsCurrent == Current(device_reports, adapter_health)

\* The reports that were stored when a refresh began, or fresh then.
Earlier(i, b) == {r \in From(device_reports, i) : device_reports[r].rowid <= b.rows}
Recent(r, b)  == b.began - device_reports[r].created < Fresh

Agrees(i, status, b) ==
  /\ status = "ok" => \E r \in From(device_reports, i) : Recent(r, b)
  /\ status = "error" => From(device_reports, i) # {} /\ \A r \in Earlier(i, b) : ~Recent(r, b)
  /\ status = "unknown" => Earlier(i, b) = {}

\* A row judged by a device's reports agrees with them: "ok" and "error" rest
\* on a stored report, "ok" on one that was fresh when the refresh began;
\* "error" overlooked no fresh report, and "unknown" no report at all, that had
\* been stored by then (refresh_integrations, rule c).
DeviceRowsMatchReports ==
  \A i \in Integrations \ Probed :
    basis[i] # None => Agrees(i, integrations[i].status, basis[i])

\* A report is stored once it is accepted, and rows are counted as they come.
ReportsInStep ==
  /\ \A r \in Reports :
       /\ request[r] # None <=> pc[r] = "inserting"
       /\ device_reports[r] # None => pc[r] = "accepted"
       /\ device_reports[r] # None => device_reports[r].rowid <= Cardinality(Stored(device_reports))
  /\ \A f \in Refreshes : rows[f] <= Cardinality(Stored(device_reports))
  /\ \A i \in Integrations :
       basis[i] # None => basis[i].rows <= Cardinality(Stored(device_reports))

\* What a refresh has found and not yet committed agrees with the reports, too.
RefreshesInStep ==
  \A f \in Refreshes :
    /\ probe[f] # None <=> rpc[f] = "update"
    /\ rpc[f] = "idle" => buffer[f] = NothingWritten
    /\ probe[f] # None /\ probe[f].adapter \notin Probed =>
         Agrees(probe[f].adapter, probe[f].row.status, [began |-> began[f], rows |-> rows[f]])
    /\ \A i \in Integrations \ Probed : buffer[f][i] # None =>
         Agrees(i, buffer[f][i].status, [began |-> began[f], rows |-> rows[f]])

\* The inductive invariant of reports and refreshes.
HealthInv ==
  TypeOK /\ HealthIsCurrent /\ DeviceRowsMatchReports /\ ReportsInStep /\ RefreshesInStep

\* A refresh lets go of the write lock in the end, so reports get their turn.
WriteLockIsReleased == \A f \in Refreshes : lock = f ~> lock # f
=============================================================================
