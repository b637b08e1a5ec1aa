------------------------------ MODULE Console ------------------------------
(***************************************************************************)
(* The administration endpoints of api-gateway with the audit middleware:  *)
(* devices are listed and deleted, alerts acknowledged, networks created,  *)
(* and the audit log, the alerts, the peers of a device and the statistics *)
(* read in several queries, while other requests change what the next      *)
(* query sees.                                                             *)
(***************************************************************************)
EXTENDS Integers, FiniteSets

CONSTANTS
  Editors,      \* requests in progress that change something
  Viewers,      \* and requests that only read
  Enrolled,     \* the devices there at the start
  Devices, Alerts, Networks,
  Admins,       \* who acknowledges
  Orgs,         \* organizations an audit record can belong to
  Sessions,     \* the pairs of devices that have had a session
  Listings,     \* what is walked through: "logs", "alerts"
  Limits,       \* page sizes that are asked for; 0: no limit
  Offsets,      \* offsets into the list of devices
  CanLose,      \* whether an audit record may fail to be stored
  CanFail,      \* whether a query whose error is passed over may fail
  MaxClock,     \* bound: the changes requested and the alerts raised
  Null

ASSUME ConsoleAssumption ==
  /\ Enrolled \subseteq Devices /\ Editors \cap Viewers = {}
  /\ IsFiniteSet(Devices) /\ IsFiniteSet(Alerts) /\ \A s \in Sessions : s \subseteq Devices
  /\ Listings \subseteq {"logs", "alerts"} /\ Limits \subseteq Nat /\ Offsets \subseteq Int
  /\ CanLose \subseteq BOOLEAN /\ CanFail \subseteq BOOLEAN /\ MaxClock \in Nat

Calls == Editors \cup Viewers

VARIABLES
  devices,    \* the device rows
  alerts,     \* the row of each alert, Null when there is none
  networks,   \* the network rows
  auditLog,   \* the audit records
  job,        \* what each request does
  clock,      \* the time of the last change requested or alert raised
  deleted,    \* history: the devices deleted
  lost        \* history: the records that could not be stored

tables  == <<devices, alerts, networks, deleted>>
conVars == <<tables, auditLog, job, clock, lost>>

NoJob == [op |-> Null, at |-> "idle"]

ConInit ==
  /\ devices = Enrolled /\ alerts = [a \in Alerts |-> Null] /\ networks = {}
  /\ auditLog = {} /\ job = [r \in Calls |-> NoJob]
  /\ clock = 0 /\ deleted = {} /\ lost = {}

Become(r, j) == job' = [job EXCEPT ![r] = j]

-----------------------------------------------------------------------------
(* The audit middleware notes the time of a change, lets the handler carry *)
(* it out, and records it.                                                 *)
Begin(r, op, target, who, org) ==
  /\ job[r] = NoJob /\ clock < MaxClock
  /\ clock' = clock + 1
  /\ Become(r, [op |-> op, at |-> "handle", target |-> target, who |-> who, org |-> org,
                start |-> clock + 1, ok |-> FALSE])
  /\ UNCHANGED <<tables, auditLog, lost>>

Requested(r, op) == job[r].at = "handle" /\ job[r].op = op
Handled(r, ok)   == Become(r, [job[r] EXCEPT !.at = "audit", !.ok = ok])

(* DeleteDevice looks for the row ...                                      *)
FindDevice(r) ==
  /\ Requested(r, "delete")
  /\ IF job[r].target \in devices THEN Become(r, [job[r] EXCEPT !.at = "delete"])
                                  ELSE Handled(r, FALSE)
  /\ UNCHANGED <<tables, auditLog, clock, lost>>

(* ... and deletes it, one that is gone meanwhile with the same success. A *)
(* statement whose answer is lost has been carried out or not.             *)
DeleteDevice(r, ok, done) ==
  /\ job[r].at = "delete" /\ (ok => done)
  /\ devices' = IF done THEN devices \ {job[r].target} ELSE devices
  /\ deleted' = IF done THEN deleted \cup {job[r].target} ELSE deleted
  /\ Handled(r, ok)
  /\ UNCHANGED <<alerts, networks, auditLog, clock, lost>>

(* AcknowledgeAlert is one UPDATE that asks for no status; an alert that   *)
(* is not there is acknowledged with success.                              *)
AcknowledgeAlert(r, ok, done) ==
  LET a == job[r].target IN
  /\ Requested(r, "acknowledge") /\ (ok => done)
  /\ alerts' = IF done /\ alerts[a] # Null
               THEN [alerts EXCEPT ![a].status = "acknowledged", ![a].by = job[r].who]
               ELSE alerts
  /\ Handled(r, ok)
  /\ UNCHANGED <<devices, networks, deleted, auditLog, clock, lost>>

(* CreateVirtualNetwork fails for an address range that is taken.          *)
CreateVirtualNetwork(r, ok, done) ==
  /\ Requested(r, "create") /\ (ok => done) /\ (done => job[r].target \notin networks)
  /\ networks' = IF done THEN networks \cup {job[r].target} ELSE networks
  /\ Handled(r, ok)
  /\ UNCHANGED <<devices, alerts, deleted, auditLog, clock, lost>>

(* extractResourceInfo finds the resource in the path's parameters; the    *)
(* prefixes it compares the path with never have the length it cuts out.   *)
HasNoAlert(op)  == op = "delete"
HasResource(op) == op \in {"delete", "acknowledge"}

(* The record has the time, the request (who acknowledges is in its body)  *)
(* and the answer; the organization is the one named in the query, or the  *)
(* default.                                                                *)
RecordAt(t, j) == [at |-> t, action |-> j.op, target |-> j.target, who |-> j.who, org |-> j.org,
                   ok |-> j.ok]
Record(j) == RecordAt(j.start, j)

(* It is stored with the context of the request: when that is cancelled,   *)
(* or the insert fails, there is none.                                     *)
CreateAuditLog(r, lose) ==
  /\ job[r].at = "audit"
  /\ IF ~HasResource(job[r].op) THEN UNCHANGED <<auditLog, lost>>
     ELSE /\ auditLog' = IF lose THEN auditLog ELSE auditLog \cup {Record(job[r])}
          /\ lost' = IF lose THEN lost \cup {Record(job[r])} ELSE lost
  /\ Become(r, NoJob)
  /\ UNCHANGED <<tables, clock>>

Change(r) ==
  \/ \E d \in Devices, o \in Orgs : Begin(r, "delete", d, Null, o)
  \/ \E a \in Alerts, w \in Admins, o \in Orgs : Begin(r, "acknowledge", a, w, o)
  \/ \E n \in Networks, o \in Orgs : Begin(r, "create", n, Null, o)
  \/ FindDevice(r)
  \/ \E ok, done \in BOOLEAN :
       DeleteDevice(r, ok, done) \/ AcknowledgeAlert(r, ok, done) \/ CreateVirtualNetwork(r, ok, done)
  \/ \E lose \in CanLose : CreateAuditLog(r, lose)

-----------------------------------------------------------------------------
(* What happens beside the administrators: devices register (each with an  *)
(* id of its own), alerts are raised and resolved.  A service that has     *)
(* read a row writes it with Save, which inserts a row that is gone.       *)
RegisterDevice(d) ==
  /\ d \notin devices \cup deleted
  /\ devices' = devices \cup {d}
  /\ UNCHANGED <<alerts, networks, deleted, auditLog, job, clock, lost>>

SaveDevice(d) ==
  /\ d \in deleted
  /\ devices' = devices \cup {d}
  /\ UNCHANGED <<alerts, networks, deleted, auditLog, job, clock, lost>>

RaiseAlert(a, severity) ==
  /\ alerts[a] = Null /\ clock < MaxClock
  /\ clock' = clock + 1
  /\ alerts' = [alerts EXCEPT ![a] = [at |-> clock + 1, status |-> "active", severity |-> severity,
                                      by |-> Null]]
  /\ UNCHANGED <<devices, networks, deleted, auditLog, job, lost>>

ResolveAlert(a) ==
  /\ alerts[a] # Null /\ alerts[a].status # "resolved"
  /\ alerts' = [alerts EXCEPT ![a].status = "resolved"]
  /\ UNCHANGED <<devices, networks, deleted, auditLog, job, clock, lost>>

Beside ==
  \/ \E d \in Devices : RegisterDevice(d) \/ SaveDevice(d)
  \/ \E a \in Alerts : ResolveAlert(a) \/ \E s \in {"critical", "high"} : RaiseAlert(a, s)

-----------------------------------------------------------------------------
(* FindByFilters counts the rows it is asked for, then reads one page of   *)
(* them, newest first.                                                     *)
OfOrg(S, o) == {x \in S : x.org = o}

Open == {a \in Alerts : alerts[a] # Null /\ alerts[a].status = "active"}
Rows(listing, o) == IF listing = "logs" THEN OfOrg(auditLog, o) ELSE {alerts[a] : a \in Open}

Least(m, n) == IF m < n THEN m ELSE n
Newer(x, S) == {y \in S : y.at > x.at}
Ranked(S, lo, hi) == {x \in S : Cardinality(Newer(x, S)) \in lo .. hi}
Page(S, offset, limit) == Ranked(S, offset, offset + limit - 1)

(* GetAuditLogs and GetAlerts, asked for page after page until one is not  *)
(* full.                                                                   *)
Walk(r, listing, o, limit) ==
  /\ job[r] = NoJob /\ limit > 0 /\ listing \in Listings
  /\ Become(r, [op |-> listing, at |-> "count", org |-> o, limit |-> limit, offset |-> 0,
                total |-> 0, got |-> 0, seen |-> {}, owed |-> Rows(listing, o)])
  /\ UNCHANGED <<tables, auditLog, clock, lost>>

GetAuditLogs(r, o, limit) == Walk(r, "logs", o, limit)
GetAlerts(r, o, limit)    == Walk(r, "alerts", o, limit)

CountRows(r) ==
  /\ job[r].at = "count"
  /\ Become(r, [job[r] EXCEPT !.at = "page",
                              !.total = Cardinality(Rows(job[r].op, job[r].org))])
  /\ UNCHANGED <<tables, auditLog, clock, lost>>

FindRows(r) ==
  LET page == Page(Rows(job[r].op, job[r].org), job[r].offset, job[r].limit) IN
  /\ job[r].at = "page"
  /\ Become(r, [job[r] EXCEPT !.at = "shown", !.got = Cardinality(page), !.seen = @ \cup page])
  /\ UNCHANGED <<tables, auditLog, clock, lost>>

Walked(r) == job[r].at = "shown" /\ job[r].op \in {"logs", "alerts"} /\ job[r].got < job[r].limit

NextPage(r) ==
  /\ job[r].at = "shown" /\ job[r].op \in {"logs", "alerts"} /\ ~Walked(r)
  /\ Become(r, [job[r] EXCEPT !.at = "count", !.offset = @ + job[r].limit])
  /\ UNCHANGED <<tables, auditLog, clock, lost>>

(* GetDevices reads all rows and takes a slice, which a negative offset    *)
(* makes panic.                                                            *)
GetDevices(r, offset, limit) ==
  LET total == Cardinality(devices)
      left  == IF offset < total THEN total - offset ELSE 0
      got   == IF limit > 0 THEN Least(left, limit) ELSE left
  IN
  /\ job[r] = NoJob
  /\ Become(r, [op |-> "devices", at |-> IF offset < 0 THEN "panicked" ELSE "shown", limit |-> limit,
                offset |-> offset, total |-> total, got |-> got])
  /\ UNCHANGED <<tables, auditLog, clock, lost>>

-----------------------------------------------------------------------------
(* GetDevicePeers reads the device's sessions, which go with the rows of   *)
(* either device ...                                                       *)
SessionRows == {s \in Sessions : s \subseteq devices}

GetDevicePeers(r, d) ==
  LET peers == UNION {s \ {d} : s \in {t \in SessionRows : d \in t}} IN
  /\ job[r] = NoJob
  /\ Become(r, [op |-> "peers", at |-> "peers", owed |-> peers, todo |-> peers, seen |-> {},
                failed |-> {}])
  /\ UNCHANGED <<tables, auditLog, clock, lost>>

(* ... and looks for the row of each peer, passing over one that is gone   *)
(* and, in the same way, one whose query fails.                            *)
SkipPeer(j, p)   == [j EXCEPT !.todo = @ \ {p}]
StopAtPeer(j, p) == [j EXCEPT !.todo = {}]
PassOver(j, p)   == SkipPeer(j, p)

FindPeer(r, p, fails) ==
  /\ job[r].at = "peers" /\ p \in job[r].todo
  /\ \/ /\ fails
        /\ Become(r, PassOver([job[r] EXCEPT !.failed = @ \cup {p}], p))
     \/ /\ ~fails /\ p \notin devices
        /\ Become(r, PassOver(job[r], p))
     \/ /\ ~fails /\ p \in devices
        /\ Become(r, [job[r] EXCEPT !.todo = @ \ {p}, !.seen = @ \cup {p}])
  /\ UNCHANGED <<tables, auditLog, clock, lost>>

PeersFound(r) ==
  /\ job[r].at = "peers" /\ job[r].todo = {}
  /\ Become(r, [job[r] EXCEPT !.at = "shown"])
  /\ UNCHANGED <<tables, auditLog, clock, lost>>

(* GetAuditStats: the total, then the groups by action, by resource and by *)
(* hour, each in a query of its own; what counts of each is its sum.       *)
GetAuditStats(r, o) ==
  /\ job[r] = NoJob
  /\ Become(r, [op |-> "stats", at |-> "groups", org |-> o, total |-> Cardinality(OfOrg(auditLog, o)),
                sum |-> 0])
  /\ UNCHANGED <<tables, auditLog, clock, lost>>

GroupLogs(r) ==
  /\ job[r].at = "groups"
  /\ Become(r, [job[r] EXCEPT !.at = "shown", !.sum = Cardinality(OfOrg(auditLog, job[r].org))])
  /\ UNCHANGED <<tables, auditLog, clock, lost>>

(* GetDashboardStats counts the devices twice, by the same query, then the *)
(* active alerts, then the critical ones of any status; a count after the  *)
(* first that fails is 0.                                                  *)
GetDashboardStats(r) ==
  /\ job[r] = NoJob
  /\ Become(r, [op |-> "dashboard", at |-> "online", total |-> Cardinality(devices), online |-> 0,
                active |-> 0, critical |-> 0])
  /\ UNCHANGED <<tables, auditLog, clock, lost>>

Critical == {a \in Alerts : alerts[a] # Null /\ alerts[a].severity = "critical"}

CountNext(r, fails) ==
  LET counted(S) == IF fails THEN 0 ELSE Cardinality(S) IN
  /\ job[r].at \in {"online", "active", "critical"}
  /\ Become(r, CASE job[r].at = "online" ->
                      [job[r] EXCEPT !.at = "active", !.online = counted(devices)]
                 [] job[r].at = "active" ->
                      [job[r] EXCEPT !.at = "critical", !.active = counted(Open)]
                 [] job[r].at = "critical" ->
                      [job[r] EXCEPT !.at = "shown", !.critical = counted(Critical)])
  /\ UNCHANGED <<tables, auditLog, clock, lost>>

Finish(r) ==
  /\ job[r].at \in {"panicked", "shown"} /\ (job[r].op \in {"logs", "alerts"} => Walked(r))
  /\ Become(r, NoJob)
  /\ UNCHANGED <<tables, auditLog, clock, lost>>

Look(r) ==
  \/ \E o \in Orgs, n \in Limits : GetAuditLogs(r, o, n) \/ GetAlerts(r, o, n)
  \/ \E n \in Limits, k \in Offsets : GetDevices(r, k, n)
  \/ \E d \in Devices : GetDevicePeers(r, d) \/ \E fails \in CanFail : FindPeer(r, d, fails)
  \/ \E o \in Orgs : GetAuditStats(r, o)
  \/ CountRows(r) \/ FindRows(r) \/ NextPage(r) \/ PeersFound(r) \/ GroupLogs(r)
  \/ GetDashboardStats(r) \/ \E fails \in CanFail : CountNext(r, fails)
  \/ Finish(r)

ConNext == (\E r \in Editors : Change(r)) \/ (\E r \in Viewers : Look(r)) \/ Beside

ConSpec == ConInit /\ [][ConNext]_conVars

-----------------------------------------------------------------------------
ConTypeOK ==
  /\ devices \subseteq Devices /\ deleted \subseteq Devices
  /\ \A a \in Alerts : alerts[a] = Null \/ alerts[a].status \in {"active", "acknowledged", "resolved"}
  /\ \A x \in auditLog \cup lost : x.at \in 0 .. clock /\ x.action \in {"delete", "acknowledge"}

Tells(x, op, target, who) == x.action = op /\ x.target = target /\ x.who = who

(* A change is recorded, or will be when its request ends.                 *)
Recorded(op, target, who) ==
  \/ \E x \in auditLog : Tells(x, op, target, who)
  \/ \E r \in Calls :
       job[r].at = "audit" /\ job[r].op = op /\ job[r].target = target /\ job[r].who = who

InsertFailed(op, target, who) == \E x \in lost : Tells(x, op, target, who)

(* A deletion or an acknowledgement that the audit log does not tell of,   *)
(* with its target and its administrator, lost its record to an insert     *)
(* that failed or was cancelled: no other step, and no answer that was an  *)
(* error although the change was made, loses one.                          *)
MissingForCause ==
  /\ \A d \in deleted : Recorded("delete", d, Null) \/ InsertFailed("delete", d, Null)
  /\ \A a \in Alerts : alerts[a] # Null /\ alerts[a].by # Null =>
       Recorded("acknowledge", a, alerts[a].by) \/ InsertFailed("acknowledge", a, alerts[a].by)

(* A walk through the audit log shows every record that was there when it  *)
(* began, although records are added meanwhile, some of them out of order. *)
WalkMissesNothing == \A r \in Calls : job[r].op = "logs" /\ Walked(r) => job[r].owed \subseteq job[r].seen

(* A page of the audit log or of the devices has all rows its total        *)
(* promises at its offset, although the total is counted before.           *)
PageFull ==
  \A r \in Calls : job[r].at = "shown" /\ job[r].op \in {"logs", "devices"} =>
    LET left == job[r].total - job[r].offset IN
    job[r].got >= IF job[r].limit = 0 THEN left ELSE Least(job[r].limit, left)

(* The groups of the statistics add up to at least the total.              *)
StatsNested == \A r \in Calls : job[r].op = "stats" /\ job[r].at = "shown" => job[r].sum >= job[r].total

(* The list of peers lacks only peers that are gone and peers whose own    *)
(* query failed: passing over one hides no other.                          *)
PeersListed ==
  \A r \in Calls : job[r].op = "peers" /\ job[r].at = "shown" =>
    job[r].owed \ job[r].seen \subseteq deleted \cup job[r].failed

(* A listing put together from several queries lacks nothing that was there *)
(* from its first query to its last, whatever is added and removed beside, *)
(* but what the failure of a query of its own leaves out.                  *)
ListingsComplete == WalkMissesNothing /\ PageFull /\ StatsNested /\ PeersListed

-----------------------------------------------------------------------------
(* Every deletion and acknowledgement is recorded (FR-019).                *)
AllRecorded ==
  /\ \A d \in deleted : Recorded("delete", d, Null)
  /\ \A a \in Alerts : alerts[a] # Null /\ alerts[a].by # Null => Recorded("acknowledge", a, alerts[a].by)

(* The list of peers lacks only peers that are gone.                       *)
EveryPeerListed ==
  \A r \in Calls : job[r].op = "peers" /\ job[r].at = "shown" => job[r].owed \ job[r].seen \subseteq deleted

(* A walk through the active alerts shows every alert that stays active.   *)
AlertWalkMissesNothing ==
  \A r \in Calls : job[r].op = "alerts" /\ Walked(r) =>
    job[r].owed \cap {alerts[a] : a \in Open} \subseteq job[r].seen

(* No number of the dashboard is negative.                                 *)
DashboardInRange ==
  \A r \in Calls : job[r].op = "dashboard" /\ job[r].at = "shown" =>
    job[r].total - job[r].online >= 0 /\ job[r].active - job[r].critical >= 0

(* A network that is there leaves a record as well.                        *)
NetworksAudited == \A n \in networks : Recorded("create", n, Null)

(* No request panics.                                                      *)
NoPanic == \A r \in Calls : job[r].at # "panicked"
=============================================================================
