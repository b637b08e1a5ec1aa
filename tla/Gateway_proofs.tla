---------------------------- MODULE Gateway_proofs ----------------------------
(***************************************************************************)
(* Proofs about the administration endpoints and the rate limiters of      *)
(* api-gateway: for any number of requests in progress, devices, alerts,   *)
(* administrators and organizations, and any limits and windows.           *)
(***************************************************************************)
EXTENDS Console, RateLimiter, FiniteSetTheorems, SequenceTheorems, TLAPS

(* What the tables hold, and the jobs of requests that change something.   *)
Targets    == Devices \cup Alerts \cup Networks
Who        == Admins \cup {Null}
AlertRecs  == [at : Nat, status : {"active", "acknowledged", "resolved"},
               severity : {"critical", "high"}, by : Who]
AuditRecs  == [at : Nat, action : {"delete", "acknowledge"}, target : Targets, who : Who,
               org : Orgs, ok : BOOLEAN]
Changing   == {"handle", "delete", "audit"}
ChangeJobs == [op : {"delete", "acknowledge", "create"}, at : Changing, target : Targets,
               who : Who, org : Orgs, start : Nat, ok : BOOLEAN]

(* A deletion names nobody, an acknowledgement its administrator.          *)
ChangeShaped(j) ==
  /\ j \in ChangeJobs /\ j.start <= clock
  /\ j.at = "delete" => j.op = "delete"
  /\ j.op = "delete" => j.target \in Devices /\ j.who = Null
  /\ j.op = "acknowledge" => j.target \in Alerts

(* The jobs of requests that read.                                         *)
Shown      == SUBSET (AuditRecs \cup AlertRecs \cup {Null})
WalkJobs   == [op : {"logs", "alerts"}, at : {"count", "page", "shown"}, org : Orgs, limit : Nat \ {0},
               offset : Nat, total : Nat, got : Nat, seen : Shown, owed : Shown]
DeviceJobs == [op : {"devices"}, at : {"panicked", "shown"}, limit : Nat, offset : Int, total : Nat,
               got : Nat]
PeerJobs   == [op : {"peers"}, at : {"peers", "shown"}, owed : SUBSET Devices, todo : SUBSET Devices,
               seen : SUBSET Devices, failed : SUBSET Devices]
StatsJobs  == [op : {"stats"}, at : {"groups", "shown"}, org : Orgs, total : Nat, sum : Nat]
DashJobs   == [op : {"dashboard"}, at : {"online", "active", "critical", "shown"}, total : Nat,
               online : Nat, active : Nat, critical : Nat]

(* What a walk through the audit log owes and has not shown is ranked      *)
(* behind the rows it has passed, and nothing is left behind a short page. *)
Logs(o) == OfOrg(auditLog, o)
Left(j) == j.total - j.offset
WalkShaped(j) ==
  /\ j \in WalkJobs
  /\ j.op = "logs" =>
       /\ j.owed \subseteq Logs(j.org)
       /\ \A x \in j.owed \ j.seen :
            Cardinality(Newer(x, Logs(j.org))) >= IF j.at = "shown" THEN j.offset + j.limit ELSE j.offset
       /\ j.at = "page" => j.total <= Cardinality(Logs(j.org))
       /\ j.at = "shown" => j.got >= Least(j.limit, Left(j)) /\ (j.got < j.limit => j.owed \subseteq j.seen)

DevicesShaped(j) ==
  /\ j \in DeviceJobs
  /\ j.at = "shown" => j.got >= IF j.limit = 0 THEN Left(j) ELSE Least(j.limit, Left(j))

(* A peer still to be looked for has a row, or is deleted.                 *)
PeersShaped(j) ==
  /\ j \in PeerJobs /\ j.todo \subseteq devices \cup deleted
  /\ j.owed \ j.seen \subseteq deleted \cup j.todo \cup j.failed
  /\ j.at = "shown" => j.todo = {}

StatsShaped(j) ==
  /\ j \in StatsJobs
  /\ j.at = "groups" => j.total <= Cardinality(Logs(j.org))
  /\ j.at = "shown" => j.total <= j.sum

ViewShaped(j) ==
  WalkShaped(j) \/ DevicesShaped(j) \/ PeersShaped(j) \/ StatsShaped(j) \/ j \in DashJobs

JobsOK ==
  /\ DOMAIN job = Calls
  /\ \A r \in Editors : job[r] = NoJob \/ ChangeShaped(job[r])
  /\ \A r \in Viewers : job[r] = NoJob \/ ViewShaped(job[r])

TablesOK ==
  /\ clock \in Nat /\ devices \subseteq Devices /\ deleted \subseteq Devices
  /\ alerts \in [Alerts -> AlertRecs \cup {Null}]
  /\ auditLog \subseteq AuditRecs /\ IsFiniteSet(auditLog) /\ lost \subseteq AuditRecs

(* The clock stamps every change, and no two alike.                        *)
Records == auditLog \cup lost
StampsApart ==
  /\ \A x \in Records : x.at <= clock
  /\ \A x, y \in Records : x.at = y.at => x = y
  /\ \A r \in Editors : job[r] # NoJob => \A x \in Records : x.at # job[r].start
  /\ \A r, q \in Editors : job[r] # NoJob /\ job[q] # NoJob /\ r # q => job[r].start # job[q].start

(* A change is in the log, about to be, or its record was lost.            *)
Accounted(op, target, who) == Recorded(op, target, who) \/ InsertFailed(op, target, who)

ConInv == TablesOK /\ JobsOK /\ StampsApart /\ MissingForCause

-----------------------------------------------------------------------------
(* One UPDATE sets the status of an alert and who acknowledged it.         *)
LEMMA AlertEdited ==
  ASSUME TablesOK, NEW a \in Alerts, alerts[a] # Null, NEW w \in Who,
         alerts' = [alerts EXCEPT ![a].status = "acknowledged", ![a].by = w]
  PROVE  /\ alerts' \in [Alerts -> AlertRecs \cup {Null}] /\ alerts'[a].by = w
         /\ \A b \in Alerts \ {a} : alerts'[b] = alerts[b]
<1>0. alerts \in [Alerts -> AlertRecs \cup {Null}] /\ alerts[a] \in AlertRecs
  BY DEF TablesOK
<1>1. PICK e : e = [alerts[a] EXCEPT !.status = "acknowledged"]
  OBVIOUS
<1>2. e \in AlertRecs
  BY <1>0, <1>1 DEF AlertRecs
<1>3. PICK h : h = [alerts EXCEPT ![a] = e]
  OBVIOUS
<1>4. h \in [Alerts -> AlertRecs \cup {Null}] /\ h[a] = e /\ \A b \in Alerts \ {a} : h[b] = alerts[b]
  BY <1>0, <1>2, <1>3
<1>5. PICK d : d = [e EXCEPT !.by = w]
  OBVIOUS
<1>6. d \in AlertRecs /\ d.by = w
  BY <1>2, <1>5 DEF AlertRecs, Who
<1>7. alerts' = [h EXCEPT ![a] = d]
  BY <1>0, <1>1, <1>3, <1>4, <1>5
<1> QED BY <1>4, <1>6, <1>7

LEMMA TablesFinite ==
  ASSUME TablesOK
  PROVE  /\ IsFiniteSet(devices) /\ Cardinality(devices) \in Nat
         /\ \A o : IsFiniteSet(Logs(o)) /\ Cardinality(Logs(o)) \in Nat
         /\ IsFiniteSet(Open) /\ Cardinality(Open) \in Nat
         /\ IsFiniteSet(Critical) /\ Cardinality(Critical) \in Nat
         /\ \A listing, o : /\ IsFiniteSet(Rows(listing, o)) /\ Cardinality(Rows(listing, o)) \in Nat
                            /\ Rows(listing, o) \subseteq AuditRecs \cup AlertRecs \cup {Null}
<1>1. IsFiniteSet(devices)
  BY ConsoleAssumption, FS_Subset DEF TablesOK
<1>2. ASSUME NEW o PROVE IsFiniteSet(Logs(o)) /\ Logs(o) \subseteq AuditRecs
  BY FS_Subset DEF TablesOK, Logs, OfOrg
<1>3. IsFiniteSet(Open) /\ IsFiniteSet(Critical) /\ Open \subseteq Alerts
  BY ConsoleAssumption, FS_Subset DEF Open, Critical
<1>4. IsFiniteSet({alerts[a] : a \in Open}) /\ {alerts[a] : a \in Open} \subseteq AlertRecs \cup {Null}
  <2>1. PICK f : f = [a \in Open |-> alerts[a]]
    OBVIOUS
  <2> DEFINE T == {alerts[a] : a \in Open}
  <2>2. f \in Surjection(Open, T)
    BY <2>1 DEF Surjection
  <2>3. IsFiniteSet(T)
    BY <1>3, <2>2, FS_Surjection
  <2> QED BY <1>3, <2>3 DEF TablesOK
<1>5. ASSUME NEW listing, NEW o
      PROVE  IsFiniteSet(Rows(listing, o)) /\ Rows(listing, o) \subseteq AuditRecs \cup AlertRecs \cup {Null}
  BY <1>2, <1>4 DEF Rows, Logs
<1> QED BY <1>1, <1>2, <1>3, <1>5, FS_CardinalityType

(* Adding records ranks no record higher.                                  *)
LEMMA RankGrows ==
  ASSUME NEW S, NEW T, S \subseteq T, IsFiniteSet(T), NEW x
  PROVE  /\ Cardinality(Newer(x, S)) \in Nat /\ Cardinality(Newer(x, T)) \in Nat
         /\ Cardinality(Newer(x, S)) <= Cardinality(Newer(x, T))
<1>1. Newer(x, S) \subseteq Newer(x, T) /\ Newer(x, T) \subseteq T
  BY DEF Newer
<1>2. IsFiniteSet(Newer(x, T))
  BY <1>1, FS_Subset
<1> QED BY <1>1, <1>2, FS_Subset, FS_CardinalityType

(* Records with different times have the ranks 0, 1, 2 ... : a page is     *)
(* full as long as there are enough records.                               *)
LEMMA RanksDistinct ==
  ASSUME NEW S, IsFiniteSet(S), \A x \in S : x.at \in Nat, \A x, y \in S : x.at = y.at => x = y
  PROVE  /\ \A x \in S : Cardinality(Newer(x, S)) \in 0 .. Cardinality(S) - 1
         /\ \A k \in 0 .. Cardinality(S) - 1 : \E x \in S : Cardinality(Newer(x, S)) = k
<1>0. Cardinality(S) \in Nat
  BY FS_CardinalityType
<1>1. ASSUME NEW x \in S PROVE Cardinality(Newer(x, S)) \in 0 .. Cardinality(S) - 1
  <2>1. Newer(x, S) \subseteq S /\ x \notin Newer(x, S)
    BY DEF Newer
  <2>2. /\ IsFiniteSet(Newer(x, S)) /\ Cardinality(Newer(x, S)) \in Nat
        /\ Cardinality(Newer(x, S)) <= Cardinality(S)
        /\ Cardinality(Newer(x, S)) = Cardinality(S) => Newer(x, S) = S
    BY <2>1, FS_Subset, FS_CardinalityType
  <2> QED BY <1>0, <2>1, <2>2
<1>2. ASSUME NEW x \in S, NEW y \in S, x.at < y.at
      PROVE  Cardinality(Newer(y, S)) < Cardinality(Newer(x, S))
  <2>1. Newer(y, S) \subseteq Newer(x, S) /\ y \in Newer(x, S) /\ y \notin Newer(y, S)
    BY <1>2 DEF Newer
  <2>2. IsFiniteSet(Newer(x, S))
    BY FS_Subset DEF Newer
  <2> QED BY <2>1, <2>2, FS_Subset, FS_CardinalityType
<1>3. PICK f : f = [x \in S |-> Cardinality(Newer(x, S))]
  OBVIOUS
<1>4. PICK n \in Nat : n = Cardinality(S)
  BY <1>0
<1>5. f \in Injection(S, 0 .. n - 1)
  <2>1. ASSUME NEW x \in S, NEW y \in S, f[x] = f[y] PROVE x = y
    <3>1. x.at \in Nat /\ y.at \in Nat /\ f[x] \in Int /\ f[y] \in Int
      BY <1>1, <1>3
    <3> QED BY <1>2, <1>3, <2>1, <3>1
  <2> QED BY <1>1, <1>3, <1>4, <2>1 DEF Injection, IsInjective
<1>6. IsFiniteSet(0 .. n - 1) /\ Cardinality(0 .. n - 1) = n
  <2>1. 0 \in Int /\ n - 1 \in Int
    OBVIOUS
  <2>2. IsFiniteSet(0 .. n - 1) /\ Cardinality(0 .. n - 1) = IF 0 > n - 1 THEN 0 ELSE (n - 1) - 0 + 1
    BY <2>1, FS_Interval
  <2> QED BY <2>2
<1>7. ASSUME NEW k \in 0 .. n - 1 PROVE \E x \in S : f[x] = k
  <2>1. f \in Surjection(S, 0 .. n - 1)
    BY <1>4, <1>5, <1>6, FS_Injection
  <2> QED BY <2>1 DEF Surjection
<1> QED BY <1>1, <1>3, <1>4, <1>7
LEMMA PageOfRows ==
  ASSUME NEW S, IsFiniteSet(S), \A x \in S : x.at \in Nat, \A x, y \in S : x.at = y.at => x = y,
         NEW o \in Nat, NEW l \in Nat \ {0}
  PROVE  /\ Page(S, o, l) \subseteq S /\ Cardinality(Page(S, o, l)) \in Nat
         /\ Cardinality(Page(S, o, l)) >= Least(l, Cardinality(S) - o)
         /\ \A x \in S : Cardinality(Newer(x, S)) >= o =>
              x \in Page(S, o, l) \/ Cardinality(Newer(x, S)) >= o + l
         /\ Cardinality(Page(S, o, l)) < l => \A x \in S : Cardinality(Newer(x, S)) < o + l
<1>1. PICK n \in Nat : n = Cardinality(S)
  BY FS_CardinalityType
<1>2. /\ \A x \in S : Cardinality(Newer(x, S)) \in 0 .. n - 1
      /\ \A k \in 0 .. n - 1 : \E x \in S : Cardinality(Newer(x, S)) = k
  BY <1>1, RanksDistinct
<1>3. PICK P : P = Page(S, o, l)
  OBVIOUS
<1>4. P = {x \in S : Cardinality(Newer(x, S)) \in o .. o + l - 1}
  BY <1>3 DEF Page, Ranked
<1>5. P \subseteq S /\ IsFiniteSet(P) /\ Cardinality(P) \in Nat
  BY <1>4, FS_Subset, FS_CardinalityType
<1>6. Cardinality(P) >= Least(l, n - o)
  <2>1. CASE n <= o
    BY <1>5, <2>1 DEF Least
  <2>2. CASE o < n
    <3>1. PICK hi \in Int : hi = o + Least(l, n - o) - 1
      BY <2>2 DEF Least
    <3>2. o <= hi /\ hi <= n - 1 /\ hi <= o + l - 1 /\ (hi = n - 1 \/ hi = o + l - 1)
          /\ hi - o + 1 = Least(l, n - o)
      BY <2>2, <3>1 DEF Least
    <3>3. PICK f : f = [x \in P |-> Cardinality(Newer(x, S))]
      OBVIOUS
    <3>4. \A x \in P : f[x] \in o .. hi
      <4> SUFFICES ASSUME NEW x \in P PROVE f[x] \in o .. hi
        OBVIOUS
      <4>1. f[x] \in 0 .. n - 1 /\ f[x] \in o .. o + l - 1
        BY <1>2, <1>4, <3>3
      <4> QED BY <3>2, <4>1
    <3>5. \A k \in o .. hi : \E x \in P : f[x] = k
      <4> SUFFICES ASSUME NEW k \in o .. hi PROVE \E x \in P : f[x] = k
        OBVIOUS
      <4>1. k \in 0 .. n - 1 /\ k \in o .. o + l - 1
        BY <3>2
      <4>2. PICK x \in S : Cardinality(Newer(x, S)) = k
        BY <1>2, <4>1
      <4> QED BY <1>4, <3>3, <4>1, <4>2
    <3>6. f \in Surjection(P, o .. hi)
      BY <3>3, <3>4, <3>5 DEF Surjection
    <3>7. Cardinality(o .. hi) = hi - o + 1
      BY <3>2, FS_Interval
    <3>8. Cardinality(o .. hi) <= Cardinality(P)
      BY <1>5, <3>6, FS_Surjection
    <3> QED BY <1>5, <3>2, <3>7, <3>8
  <2> QED BY <2>1, <2>2
<1>7. ASSUME NEW x \in S, Cardinality(Newer(x, S)) >= o
      PROVE  x \in P \/ Cardinality(Newer(x, S)) >= o + l
  <2>1. PICK k \in 0 .. n - 1 : k = Cardinality(Newer(x, S))
    BY <1>2
  <2>2. k \in o .. o + l - 1 \/ k >= o + l
    BY <1>7, <2>1
  <2> QED BY <1>4, <2>1, <2>2
<1>8. ASSUME Cardinality(P) < l, NEW x \in S PROVE Cardinality(Newer(x, S)) < o + l
  <2>1. PICK k \in 0 .. n - 1 : k = Cardinality(Newer(x, S))
    BY <1>2
  <2>2. Least(l, n - o) < l
    BY <1>5, <1>6, <1>8 DEF Least
  <2>3. n - o < l
    BY <2>2 DEF Least
  <2> QED BY <2>1, <2>3
<1> QED BY <1>1, <1>3, <1>5, <1>6, <1>7, <1>8
-----------------------------------------------------------------------------
(* Nothing another request does leaves a listing with less than it owes:   *)
(* records are only added, and a device that loses its row is deleted.     *)
Growing ==
  /\ auditLog \subseteq auditLog' /\ IsFiniteSet(auditLog') /\ lost \subseteq lost'
  /\ deleted \subseteq deleted' /\ devices \cup deleted \subseteq devices' \cup deleted'
  /\ clock <= clock'

LEMMA WalkKept == ASSUME NEW j, WalkShaped(j), Growing PROVE WalkShaped(j)'
<1>1. PICK S : S = Logs(j.org)
  OBVIOUS
<1>2. PICK T : T = Logs(j.org)'
  OBVIOUS
<1>3. S \subseteq T /\ IsFiniteSet(T)
  BY <1>1, <1>2, FS_Subset DEF Growing, Logs, OfOrg
<1>4. ASSUME NEW x PROVE /\ Cardinality(Newer(x, S)) \in Nat /\ Cardinality(Newer(x, T)) \in Nat
                         /\ Cardinality(Newer(x, S)) <= Cardinality(Newer(x, T))
  BY <1>3, RankGrows
<1>5. j \in WalkJobs
  BY DEF WalkShaped
<1>6. j.offset \in Nat /\ j.limit \in Nat /\ j.total \in Nat /\ j.offset + j.limit \in Nat
  BY <1>5 DEF WalkJobs
<1>7. Cardinality(S) \in Nat /\ Cardinality(T) \in Nat /\ Cardinality(S) <= Cardinality(T)
  BY <1>3, FS_Subset, FS_CardinalityType
<1>8. ASSUME j.op = "logs"
      PROVE  /\ j.owed \subseteq T
             /\ \A x \in j.owed \ j.seen :
                  Cardinality(Newer(x, T)) >= IF j.at = "shown" THEN j.offset + j.limit ELSE j.offset
             /\ j.at = "page" => j.total <= Cardinality(T)
  <2>1. /\ j.owed \subseteq S
        /\ \A x \in j.owed \ j.seen :
             Cardinality(Newer(x, S)) >= IF j.at = "shown" THEN j.offset + j.limit ELSE j.offset
        /\ j.at = "page" => j.total <= Cardinality(S)
    BY <1>1, <1>8 DEF WalkShaped
  <2>2. ASSUME NEW x \in j.owed \ j.seen
        PROVE  Cardinality(Newer(x, T)) >= IF j.at = "shown" THEN j.offset + j.limit ELSE j.offset
    BY <1>4, <1>6, <2>1
  <2> QED BY <1>3, <1>6, <1>7, <2>1, <2>2
<1> QED BY <1>2, <1>5, <1>8 DEF WalkShaped, Newer

LEMMA ViewKept == ASSUME NEW j, ViewShaped(j), Growing PROVE ViewShaped(j)'
<1>1. CASE WalkShaped(j)
  BY <1>1, WalkKept DEF ViewShaped
<1>2. CASE DevicesShaped(j) \/ j \in DashJobs
  BY <1>2 DEF ViewShaped, DevicesShaped
<1>3. CASE PeersShaped(j)
  BY <1>3 DEF ViewShaped, PeersShaped, Growing
<1>4. CASE StatsShaped(j)
  <2>1. Logs(j.org) \subseteq Logs(j.org)' /\ IsFiniteSet(Logs(j.org)')
    BY FS_Subset DEF Growing, Logs, OfOrg
  <2>2. PICK S : S = Logs(j.org)
    OBVIOUS
  <2>3. PICK T : T = Logs(j.org)'
    OBVIOUS
  <2>4. Cardinality(S) \in Nat /\ Cardinality(T) \in Nat /\ Cardinality(S) <= Cardinality(T)
    BY <2>1, <2>2, <2>3, FS_Subset, FS_CardinalityType
  <2>5. j.total \in Nat
    BY <1>4 DEF StatsShaped, StatsJobs
  <2>6. j.at = "groups" => j.total <= Cardinality(T)
    BY <1>4, <2>2, <2>4, <2>5 DEF StatsShaped
  <2> QED BY <1>4, <2>3, <2>6 DEF StatsShaped, ViewShaped
<1> QED BY <1>1, <1>2, <1>3, <1>4 DEF ViewShaped

LEMMA ChangeKept ==
  ASSUME NEW j, ChangeShaped(j), clock \in Nat, clock' \in Nat, clock <= clock'
  PROVE  ChangeShaped(j)'
<1>1. j.start \in Nat /\ j.start <= clock
  BY DEF ChangeShaped, ChangeJobs
<1> QED BY <1>1 DEF ChangeShaped
(* Where a job can be.                                                     *)
LEMMA JobPlaces ==
  ASSUME JobsOK, NEW r \in Calls
  PROVE  /\ r \in Viewers => job[r].at \notin Changing
         /\ r \in Editors => job[r] = NoJob \/ (job[r].at \in Changing /\ job[r] # NoJob)
<1>0. NoJob.at = "idle"
  BY DEF NoJob
<1>1. ASSUME r \in Viewers PROVE job[r].at \notin Changing
  <2>1. job[r] = NoJob \/ ViewShaped(job[r])
    BY <1>1 DEF JobsOK
  <2>2. CASE job[r] = NoJob
    BY <1>0, <2>2 DEF Changing
  <2>3. CASE ViewShaped(job[r])
    <3>1. \/ job[r] \in WalkJobs \/ job[r] \in DeviceJobs \/ job[r] \in PeerJobs
          \/ job[r] \in StatsJobs \/ job[r] \in DashJobs
      BY <2>3 DEF ViewShaped, WalkShaped, DevicesShaped, PeersShaped, StatsShaped
    <3> QED BY <3>1 DEF WalkJobs, DeviceJobs, PeerJobs, StatsJobs, DashJobs, Changing
  <2> QED BY <2>1, <2>2, <2>3
<1>2. ASSUME r \in Editors PROVE job[r] = NoJob \/ (job[r].at \in Changing /\ job[r] # NoJob)
  <2>1. CASE ChangeShaped(job[r])
    BY <1>0, <2>1 DEF ChangeShaped, ChangeJobs, Changing
  <2> QED BY <1>2, <2>1 DEF JobsOK
<1> QED BY <1>1, <1>2

LEMMA JobStep ==
  ASSUME TablesOK, JobsOK, Growing, clock' \in Nat, NEW r \in Calls, NEW j, Become(r, j),
         r \in Editors => j = NoJob \/ ChangeShaped(j)',
         r \in Viewers => j = NoJob \/ ViewShaped(j)'
  PROVE  JobsOK' /\ job'[r] = j /\ \A q \in Calls \ {r} : job'[q] = job[q]
<1>1. DOMAIN job' = Calls /\ job'[r] = j /\ \A q \in Calls \ {r} : job'[q] = job[q]
  BY DEF JobsOK, Become
<1>2. ASSUME NEW q \in Editors, NEW k, k = job'[q] PROVE k = NoJob \/ ChangeShaped(k)'
  <2>1. CASE q = r
    BY <1>1, <1>2, <2>1
  <2>2. CASE q # r
    BY <1>1, <1>2, <2>2, ChangeKept DEF JobsOK, TablesOK, Growing, Calls
  <2> QED BY <2>1, <2>2
<1>3. ASSUME NEW q \in Viewers, NEW k, k = job'[q] PROVE k = NoJob \/ ViewShaped(k)'
  <2>1. CASE q = r
    BY <1>1, <1>3, <2>1
  <2>2. CASE q # r
    BY <1>1, <1>3, <2>2, ViewKept DEF JobsOK, Calls
  <2> QED BY <2>1, <2>2
<1>4. JobsOK'
  <2>1. ASSUME NEW q \in Editors PROVE (job[q] = NoJob \/ ChangeShaped(job[q]))'
    <3>1. PICK k : k = job'[q]
      OBVIOUS
    <3> QED BY <1>2, <3>1 DEF ChangeShaped
  <2>2. ASSUME NEW q \in Viewers PROVE (job[q] = NoJob \/ ViewShaped(job[q]))'
    <3>1. PICK k : k = job'[q]
      OBVIOUS
    <3>2. k = NoJob \/ ViewShaped(k)'
      BY <1>3, <3>1
    <3> QED BY <3>1, <3>2 DEF ViewShaped, WalkShaped, DevicesShaped, PeersShaped, StatsShaped, Logs, Left
  <2> QED BY <1>1, <2>1, <2>2 DEF JobsOK
<1> QED BY <1>1, <1>4

LEMMA JobsKept ==
  ASSUME TablesOK, JobsOK, Growing, clock' \in Nat, job' = job
  PROVE  JobsOK'
<1>1. ASSUME NEW q \in Editors PROVE (job[q] = NoJob \/ ChangeShaped(job[q]))'
  <2>1. PICK k : k = job[q]
    OBVIOUS
  <2>2. k = NoJob \/ ChangeShaped(k)'
    BY <2>1, ChangeKept DEF JobsOK, TablesOK, Growing
  <2> QED BY <2>1, <2>2 DEF ChangeShaped
<1>2. ASSUME NEW q \in Viewers PROVE (job[q] = NoJob \/ ViewShaped(job[q]))'
  <2>1. PICK k : k = job[q]
    OBVIOUS
  <2>2. k = NoJob \/ ViewShaped(k)'
    BY <2>1, ViewKept DEF JobsOK
  <2> QED BY <2>1, <2>2 DEF ViewShaped, WalkShaped, DevicesShaped, PeersShaped, StatsShaped, Logs, Left
<1> QED BY <1>1, <1>2 DEF JobsOK

(* No two changes bear the same time.                                      *)
LEMMA StampTypes ==
  ASSUME TablesOK, JobsOK
  PROVE  /\ clock \in Nat /\ \A x \in Records : x.at \in Nat
         /\ \A r \in Editors : job[r] # NoJob => job[r].start \in Nat /\ job[r].start <= clock
  BY DEF TablesOK, JobsOK, ChangeShaped, ChangeJobs, Records, AuditRecs

LEMMA StampsKept ==
  ASSUME TablesOK, JobsOK, StampsApart, auditLog' = auditLog, lost' = lost, clock' \in Nat, clock <= clock',
         \A r \in Editors : \/ job'[r] = job[r] \/ job'[r] = NoJob
                            \/ job[r] # NoJob /\ job'[r].start = job[r].start
  PROVE  StampsApart'
<1>1. /\ clock \in Nat /\ \A x \in Records : x.at \in Nat
      /\ \A r \in Editors : job[r] # NoJob => job[r].start \in Nat /\ job[r].start <= clock
  BY StampTypes
<1>2. \A r \in Editors : job'[r] # NoJob => job[r] # NoJob /\ job'[r].start = job[r].start
  OBVIOUS
<1>3. Records' = Records
  BY DEF Records
<1>4. \A x \in Records : x.at <= clock'
  BY <1>1 DEF StampsApart
<1> QED BY <1>2, <1>3, <1>4 DEF StampsApart

-----------------------------------------------------------------------------
(* What has been recorded stays so.                                        *)
LEMMA RecordedKept ==
  ASSUME Growing, NEW op, NEW t, NEW w, Accounted(op, t, w),
         \A r \in Calls : job[r].at = "audit" /\ job[r].op = op =>
            job'[r] = job[r] \/ Record(job[r]) \in auditLog' \cup lost'
  PROVE  Accounted(op, t, w)'
<1>1. ASSUME NEW x \in auditLog \cup lost, x.action = op, x.target = t, x.who = w
      PROVE  Accounted(op, t, w)'
  BY <1>1 DEF Growing, Accounted, Recorded, InsertFailed, Tells
<1>2. ASSUME NEW r \in Calls, job[r].at = "audit", job[r].op = op, job[r].target = t, job[r].who = w
      PROVE  Accounted(op, t, w)'
  <2>1. CASE job'[r] = job[r]
    BY <1>2, <2>1 DEF Accounted, Recorded, InsertFailed, Tells
  <2>2. CASE Record(job[r]) \in auditLog' \cup lost'
    <3>1. PICK x : x = Record(job[r])
      OBVIOUS
    <3>2. x.action = op /\ x.target = t /\ x.who = w
      BY <1>2, <3>1 DEF Record, RecordAt
    <3> QED BY <2>2, <3>1, <3>2 DEF Accounted, Recorded, InsertFailed, Tells
  <2> QED BY <1>2, <2>1, <2>2
<1> QED BY <1>1, <1>2 DEF Accounted, Recorded, InsertFailed, Tells

LEMMA AuditedStep ==
  ASSUME MissingForCause,
         \A t, w : Accounted("delete", t, w) => Accounted("delete", t, w)',
         \A t, w : Accounted("acknowledge", t, w) => Accounted("acknowledge", t, w)',
         \A d \in deleted' : d \in deleted \/ Accounted("delete", d, Null)',
         \A a \in Alerts : \A w : alerts'[a] # Null /\ alerts'[a].by = w /\ w # Null =>
            (alerts[a] # Null /\ alerts[a].by = w) \/ Accounted("acknowledge", a, w)'
  PROVE  MissingForCause'
<1>1. \A d \in deleted' : Accounted("delete", d, Null)'
  BY DEF MissingForCause, Accounted
<1>2. ASSUME NEW a \in Alerts, alerts'[a] # Null, alerts'[a].by # Null
      PROVE  Accounted("acknowledge", a, alerts[a].by)'
  <2>1. PICK w : w = alerts'[a].by
    OBVIOUS
  <2>2. Accounted("acknowledge", a, w)'
    BY <1>2, <2>1 DEF MissingForCause, Accounted
  <2> QED BY <2>1, <2>2 DEF Accounted, Recorded, InsertFailed, Tells
<1> QED BY <1>1, <1>2 DEF MissingForCause, Accounted
-----------------------------------------------------------------------------
(* Changes.                                                                *)
LEMMA EditorAlone == ASSUME NEW r \in Editors PROVE r \in Calls /\ r \notin Viewers
  BY ConsoleAssumption DEF Calls

(* A request whose handler has ended is about to be recorded.              *)
LEMMA HandledStep ==
  ASSUME ConInv, NEW r \in Editors, ChangeShaped(job[r]), NEW ok \in BOOLEAN, Handled(r, ok),
         auditLog' = auditLog, lost' = lost, clock' = clock, deleted \subseteq deleted',
         devices \cup deleted \subseteq devices' \cup deleted'
  PROVE  /\ JobsOK' /\ StampsApart'
         /\ \A op, t, w : Accounted(op, t, w) => Accounted(op, t, w)'
         /\ \A op, t, w : op = job[r].op /\ t = job[r].target /\ w = job[r].who => Accounted(op, t, w)'
<1>0. PICK e : e = [job[r] EXCEPT !.at = "audit", !.ok = ok]
  OBVIOUS
<1>1. job[r] \in ChangeJobs
  BY DEF ChangeShaped
<1>2. e \in ChangeJobs
  BY <1>0, <1>1 DEF ChangeJobs, Changing
<1>3. /\ e.at = "audit" /\ e.op = job[r].op /\ e.target = job[r].target /\ e.who = job[r].who
      /\ e.start = job[r].start
  BY <1>0, <1>1 DEF ChangeJobs
<1>4. Become(r, e)
  BY <1>0 DEF Handled
<1>5. ChangeShaped(e)'
  BY <1>2, <1>3, clock' = clock DEF ChangeShaped
<1>6. Growing /\ clock' \in Nat
  BY DEF Growing, ConInv, TablesOK
<1>7. JobsOK' /\ job'[r] = e /\ \A q \in Calls \ {r} : job'[q] = job[q]
  BY <1>4, <1>5, <1>6, EditorAlone, JobStep DEF ConInv
<1>8. job[r] # NoJob
  BY EditorAlone, JobPlaces, <1>1 DEF ConInv, ChangeJobs, NoJob, Changing
<1>9. StampsApart'
  BY <1>3, <1>6, <1>7, <1>8, StampsKept DEF ConInv, Calls, Growing
<1>10. \A op, t, w : op = job[r].op /\ t = job[r].target /\ w = job[r].who => Accounted(op, t, w)'
  BY <1>3, <1>7, EditorAlone DEF Accounted, Recorded, InsertFailed, Tells
<1>11. ASSUME NEW op, NEW t, NEW w, Accounted(op, t, w) PROVE Accounted(op, t, w)'
  <2>1. CASE \E x \in auditLog \cup lost : x.action = op /\ x.target = t /\ x.who = w
    BY <2>1 DEF Accounted, Recorded, InsertFailed, Tells
  <2>2. ASSUME NEW q \in Calls,
               job[q].at = "audit" /\ job[q].op = op /\ job[q].target = t /\ job[q].who = w
        PROVE  Accounted(op, t, w)'
    <3>1. job'[q].at = "audit" /\ job'[q].op = op /\ job'[q].target = t /\ job'[q].who = w
      BY <1>3, <1>7, <2>2
    <3> QED BY <3>1 DEF Accounted, Recorded, InsertFailed, Tells
  <2> QED BY <1>11, <2>1, <2>2 DEF Accounted, Recorded, InsertFailed, Tells
<1> QED BY <1>7, <1>9, <1>10, <1>11

LEMMA EditorAt ==
  ASSUME ConInv, NEW r \in Editors, job[r].at \in Changing
  PROVE  ChangeShaped(job[r]) /\ job[r] # NoJob
<1>1. NoJob.at = "idle"
  BY DEF NoJob
<1> QED BY <1>1 DEF ConInv, JobsOK, Changing

LEMMA BeginInv ==
  ASSUME ConInv, NEW r \in Editors, NEW op \in {"delete", "acknowledge", "create"}, NEW t \in Targets,
         NEW w \in Who, NEW o \in Orgs, Begin(r, op, t, w, o),
         op = "delete" => t \in Devices /\ w = Null, op = "acknowledge" => t \in Alerts
  PROVE  ConInv'
<1>1. PICK j : j = [op |-> op, at |-> "handle", target |-> t, who |-> w, org |-> o,
                    start |-> clock + 1, ok |-> FALSE]
  OBVIOUS
<1>2. /\ job[r] = NoJob /\ Become(r, j) /\ clock' = clock + 1 /\ UNCHANGED <<tables, auditLog, lost>>
  BY <1>1 DEF Begin
<1>3. clock \in Nat /\ clock' \in Nat /\ clock <= clock' /\ TablesOK'
  BY <1>2 DEF ConInv, TablesOK, tables
<1>4. Growing
  BY <1>2, <1>3 DEF Growing, ConInv, TablesOK, tables
<1>5. ChangeShaped(j)' /\ j.start = clock + 1
  BY <1>1, <1>2, <1>3 DEF ChangeShaped, ChangeJobs, Changing
<1>6. JobsOK' /\ job'[r] = j /\ \A q \in Calls \ {r} : job'[q] = job[q]
  BY <1>2, <1>3, <1>4, <1>5, EditorAlone, JobStep DEF ConInv
<1>7. StampsApart'
  <2>1. /\ \A x \in Records : x.at \in Nat /\ x.at <= clock
        /\ \A q \in Editors : job[q] # NoJob => job[q].start \in Nat /\ job[q].start <= clock
    BY StampTypes DEF ConInv, StampsApart
  <2>2. Records' = Records
    BY <1>2 DEF Records
  <2>3. \A x \in Records : x.at <= clock' /\ x.at # j.start
    BY <1>2, <1>3, <1>5, <2>1
  <2>4. \A q \in Editors \ {r} : job'[q] # NoJob => job'[q].start # j.start
    BY <1>3, <1>5, <1>6, <2>1 DEF Calls
  <2>5. \A q \in Editors \ {r} : job'[q] = job[q]
    BY <1>6 DEF Calls
  <2> QED BY <1>6, <2>2, <2>3, <2>4, <2>5 DEF ConInv, StampsApart
<1>8. MissingForCause'
  <2>1. NoJob.at # "audit"
    BY DEF NoJob
  <2>2. \A q \in Calls : job[q].at = "audit" => job'[q] = job[q]
    BY <1>2, <1>6, <2>1
  <2>3. \A p, x, y : Accounted(p, x, y) => Accounted(p, x, y)'
    BY <1>4, <2>2, RecordedKept
  <2> QED BY <1>2, <2>3, AuditedStep DEF ConInv, tables
<1> QED BY <1>3, <1>6, <1>7, <1>8 DEF ConInv

LEMMA FindDeviceInv == ASSUME ConInv, NEW r \in Editors, FindDevice(r) PROVE ConInv'
<1>1. ChangeShaped(job[r]) /\ job[r] # NoJob /\ job[r].op = "delete"
  BY EditorAt DEF FindDevice, Requested, Changing
<1>2. UNCHANGED <<tables, auditLog, clock, lost>>
  BY DEF FindDevice
<1>3. TablesOK' /\ Growing /\ clock' \in Nat /\ clock <= clock'
  BY <1>2 DEF ConInv, TablesOK, Growing, tables
<1>4. CASE job[r].target \in devices
  <2>1. PICK j \in ChangeJobs : j = job[r]
    BY <1>1 DEF ChangeShaped
  <2>2. PICK e : e = [j EXCEPT !.at = "delete"]
    OBVIOUS
  <2>3. e \in ChangeJobs /\ e.at = "delete" /\ e.op = j.op /\ e.target = j.target /\ e.who = j.who
        /\ e.start = j.start
    BY <2>1, <2>2 DEF ChangeJobs, Changing
  <2>4. ChangeShaped(e)'
    BY <1>1, <1>2, <2>1, <2>3 DEF ChangeShaped
  <2>5. Become(r, e)
    BY <1>4, <2>1, <2>2 DEF FindDevice
  <2>6. JobsOK' /\ job'[r] = e /\ \A q \in Calls \ {r} : job'[q] = job[q]
    BY <1>3, <2>4, <2>5, EditorAlone, JobStep DEF ConInv
  <2>7. StampsApart'
    BY <1>1, <1>2, <1>3, <2>1, <2>3, <2>6, StampsKept DEF ConInv, Calls
  <2>8. job[r].at # "audit"
    BY DEF FindDevice, Requested
  <2>9. \A p, x, y : Accounted(p, x, y) => Accounted(p, x, y)'
    BY <1>3, <2>6, <2>8, RecordedKept
  <2>10. MissingForCause'
    BY <1>2, <2>9, AuditedStep DEF ConInv, tables
  <2> QED BY <1>3, <2>6, <2>7, <2>10 DEF ConInv
<1>5. CASE job[r].target \notin devices
  <2>1. Handled(r, FALSE)
    BY <1>5 DEF FindDevice
  <2>2. JobsOK' /\ StampsApart' /\ \A p, x, y : Accounted(p, x, y) => Accounted(p, x, y)'
    BY <1>1, <1>2, <2>1, HandledStep DEF tables
  <2>3. MissingForCause'
    BY <1>2, <2>2, AuditedStep DEF ConInv, tables
  <2> QED BY <1>3, <2>2, <2>3 DEF ConInv
<1> QED BY <1>4, <1>5

LEMMA DeleteDeviceInv ==
  ASSUME ConInv, NEW r \in Editors, NEW ok \in BOOLEAN, NEW done \in BOOLEAN, DeleteDevice(r, ok, done)
  PROVE  ConInv'
<1>1. ChangeShaped(job[r]) /\ job[r].op = "delete" /\ job[r].target \in Devices /\ job[r].who = Null
  BY EditorAt DEF DeleteDevice, Changing, ChangeShaped
<1>2. /\ devices' \subseteq devices /\ devices \subseteq devices' \cup {job[r].target}
      /\ deleted \subseteq deleted' /\ deleted' \subseteq deleted \cup {job[r].target}
      /\ devices \cup deleted \subseteq devices' \cup deleted'
      /\ Handled(r, ok) /\ UNCHANGED <<alerts, networks, auditLog, clock, lost>>
  BY DEF DeleteDevice
<1>3. TablesOK'
  BY <1>1, <1>2 DEF ConInv, TablesOK
<1>4. /\ JobsOK' /\ StampsApart' /\ \A p, x, y : Accounted(p, x, y) => Accounted(p, x, y)'
      /\ \A p, x, y : p = job[r].op /\ x = job[r].target /\ y = job[r].who => Accounted(p, x, y)'
  BY <1>1, <1>2, HandledStep
<1>5. PICK t : t = job[r].target /\ Accounted("delete", t, Null)'
  BY <1>1, <1>4
<1>6. MissingForCause'
  BY <1>2, <1>4, <1>5, AuditedStep DEF ConInv
<1> QED BY <1>3, <1>4, <1>6 DEF ConInv

LEMMA AcknowledgeInv ==
  ASSUME ConInv, NEW r \in Editors, NEW ok \in BOOLEAN, NEW done \in BOOLEAN, AcknowledgeAlert(r, ok, done)
  PROVE  ConInv'
<1>1. ChangeShaped(job[r]) /\ job[r].op = "acknowledge"
  BY EditorAt DEF AcknowledgeAlert, Requested, Changing, ChangeShaped
<1>2. PICK a \in Alerts : a = job[r].target
  BY <1>1 DEF ChangeShaped
<1>3. PICK w \in Who : w = job[r].who
  BY <1>1 DEF ChangeShaped, ChangeJobs
<1>4. Handled(r, ok) /\ UNCHANGED <<devices, networks, deleted, auditLog, clock, lost>>
  BY DEF AcknowledgeAlert
<1>5. /\ JobsOK' /\ StampsApart' /\ \A p, x, y : Accounted(p, x, y) => Accounted(p, x, y)'
      /\ \A p, x, y : p = job[r].op /\ x = job[r].target /\ y = job[r].who => Accounted(p, x, y)'
  BY <1>1, <1>4, HandledStep
<1>6. /\ alerts' \in [Alerts -> AlertRecs \cup {Null}]
      /\ \A b \in Alerts : alerts'[b] = alerts[b] \/ (b = a /\ alerts'[b].by = w)
  <2>1. alerts \in [Alerts -> AlertRecs \cup {Null}]
    BY DEF ConInv, TablesOK
  <2>2. CASE alerts' = alerts
    BY <2>1, <2>2
  <2>3. CASE done /\ alerts[a] # Null
    <3>1. alerts' = [alerts EXCEPT ![a].status = "acknowledged", ![a].by = w]
      BY <1>2, <1>3, <2>3 DEF AcknowledgeAlert
    <3> QED BY <2>3, <3>1, AlertEdited DEF ConInv
  <2> QED BY <1>2, <2>2, <2>3 DEF AcknowledgeAlert
<1>7. TablesOK'
  BY <1>4, <1>6 DEF ConInv, TablesOK
<1>8. Accounted("acknowledge", a, w)'
  BY <1>1, <1>2, <1>3, <1>5
<1>9. MissingForCause'
  BY <1>4, <1>5, <1>6, <1>8, AuditedStep DEF ConInv
<1> QED BY <1>5, <1>7, <1>9 DEF ConInv

LEMMA CreateNetworkInv ==
  ASSUME ConInv, NEW r \in Editors, NEW ok \in BOOLEAN, NEW done \in BOOLEAN,
         CreateVirtualNetwork(r, ok, done)
  PROVE  ConInv'
<1>1. ChangeShaped(job[r])
  BY EditorAt DEF CreateVirtualNetwork, Requested, Changing
<1>2. Handled(r, ok) /\ UNCHANGED <<devices, alerts, deleted, auditLog, clock, lost>>
  BY DEF CreateVirtualNetwork
<1>3. JobsOK' /\ StampsApart' /\ \A p, x, y : Accounted(p, x, y) => Accounted(p, x, y)'
  BY <1>1, <1>2, HandledStep
<1>4. TablesOK' /\ MissingForCause'
  BY <1>2, <1>3, AuditedStep DEF ConInv, TablesOK
<1> QED BY <1>3, <1>4 DEF ConInv

LEMMA CreateAuditLogInv ==
  ASSUME ConInv, NEW r \in Editors, NEW lose \in BOOLEAN, CreateAuditLog(r, lose)
  PROVE  ConInv'
<1>1. ChangeShaped(job[r]) /\ job[r] # NoJob
  BY EditorAt DEF CreateAuditLog, Changing
<1>2. Become(r, NoJob) /\ UNCHANGED <<tables, clock>>
  BY DEF CreateAuditLog
<1>3. PICK y : y = Record(job[r])
  OBVIOUS
<1>4. HasResource(job[r].op) => y \in AuditRecs /\ y.at = job[r].start
  BY <1>1, <1>3 DEF ChangeShaped, ChangeJobs, HasResource, AuditRecs, Record, RecordAt
<1>5. /\ Records \subseteq Records' /\ Records' \subseteq Records \cup {y}
      /\ HasResource(job[r].op) => y \in Records'
      /\ ~HasResource(job[r].op) => Records' = Records
      /\ auditLog \subseteq auditLog' /\ auditLog' \subseteq auditLog \cup {y} /\ lost \subseteq lost'
  BY <1>3 DEF CreateAuditLog, Records
<1>6. TablesOK'
  <2>1. IsFiniteSet(auditLog \cup {y})
    BY FS_AddElement DEF ConInv, TablesOK
  <2>2. IsFiniteSet(auditLog')
    BY <1>5, <2>1, FS_Subset
  <2>3. auditLog' \subseteq AuditRecs /\ lost' \subseteq AuditRecs
    BY <1>4, <1>5 DEF ConInv, TablesOK, Records
  <2> QED BY <1>2, <2>2, <2>3 DEF ConInv, TablesOK, tables
<1>7. Growing /\ clock' \in Nat
  BY <1>2, <1>5, <1>6 DEF Growing, TablesOK, tables
<1>8. JobsOK' /\ job'[r] = NoJob /\ \A q \in Calls \ {r} : job'[q] = job[q]
  BY <1>2, <1>7, EditorAlone, JobStep DEF ConInv
<1>9. StampsApart'
  <2>1. \A q \in Editors \ {r} : job'[q] = job[q]
    BY <1>8 DEF Calls
  <2>2. \A x \in Records' : x \in Records \/ (x = y /\ x.at = job[r].start)
    BY <1>4, <1>5
  <2>3. /\ clock' = clock /\ job[r].start <= clock
    BY <1>1, <1>2 DEF ChangeShaped
  <2>4. \A x \in Records' : x.at <= clock'
    BY <2>2, <2>3 DEF ConInv, StampsApart
  <2>5. \A x, z \in Records' : x.at = z.at => x = z
    BY <1>1, <2>2 DEF ConInv, StampsApart
  <2>6. \A q \in Editors : job'[q] # NoJob => q # r /\ job'[q] = job[q]
    BY <1>8, <2>1
  <2>7. ASSUME NEW q \in Editors, job'[q] # NoJob, NEW x \in Records' PROVE x.at # job'[q].start
    BY <1>1, <2>2, <2>6, <2>7 DEF ConInv, StampsApart
  <2>8. ASSUME NEW p \in Editors, NEW q \in Editors, job'[p] # NoJob, job'[q] # NoJob, p # q
        PROVE  job'[p].start # job'[q].start
    BY <2>6, <2>8 DEF ConInv, StampsApart
  <2> QED BY <2>4, <2>5, <2>7, <2>8 DEF StampsApart
<1>10. MissingForCause'
  <2>1. ASSUME NEW op \in {"delete", "acknowledge"}, NEW t, NEW w, Accounted(op, t, w)
        PROVE  Accounted(op, t, w)'
    <3>1. ASSUME NEW q \in Calls, job[q].at = "audit" /\ job[q].op = op
          PROVE  job'[q] = job[q] \/ Record(job[q]) \in auditLog' \cup lost'
      <4>1. CASE q = r
        BY <1>3, <1>5, <3>1, <4>1 DEF HasResource, Records
      <4>2. CASE q # r
        BY <1>8, <4>2
      <4> QED BY <4>1, <4>2
    <3> QED BY <1>7, <2>1, <3>1, RecordedKept
  <2> QED BY <1>2, <2>1, AuditedStep DEF ConInv, tables
<1> QED BY <1>6, <1>8, <1>9, <1>10 DEF ConInv
-----------------------------------------------------------------------------
(* What happens beside the administrators.                                 *)
LEMMA BesideInv == ASSUME ConInv, Beside PROVE ConInv'
<1>0. /\ clock \in Nat /\ auditLog' = auditLog /\ lost' = lost /\ job' = job
      /\ deleted' = deleted
  BY DEF Beside, RegisterDevice, SaveDevice, RaiseAlert, ResolveAlert, ConInv, TablesOK
<1>1. /\ clock' \in Nat /\ clock <= clock' /\ devices \subseteq devices' /\ devices' \subseteq Devices
      /\ alerts' \in [Alerts -> AlertRecs \cup {Null}]
      /\ \A a \in Alerts : \A w : alerts'[a] # Null /\ alerts'[a].by = w /\ w # Null =>
            alerts[a] # Null /\ alerts[a].by = w
  <2>0. alerts \in [Alerts -> AlertRecs \cup {Null}] /\ devices \subseteq Devices
    BY DEF ConInv, TablesOK
  <2>1. ASSUME NEW d \in Devices, RegisterDevice(d) \/ SaveDevice(d)
        PROVE  clock' = clock /\ alerts' = alerts /\ devices' = devices \cup {d}
    BY <2>1 DEF RegisterDevice, SaveDevice
  <2>2. ASSUME NEW a \in Alerts, NEW sv \in {"critical", "high"}, RaiseAlert(a, sv)
        PROVE  /\ clock' = clock + 1 /\ devices' = devices
               /\ alerts' \in [Alerts -> AlertRecs \cup {Null}]
               /\ \A b \in Alerts : alerts'[b] = alerts[b] \/ alerts'[b].by = Null
    <3>1. PICK e : e = [at |-> clock + 1, status |-> "active", severity |-> sv, by |-> Null]
      OBVIOUS
    <3>2. e \in AlertRecs /\ e.by = Null
      BY <1>0, <3>1 DEF AlertRecs, Who
    <3>3. clock' = clock + 1 /\ devices' = devices /\ alerts' = [alerts EXCEPT ![a] = e]
      BY <2>2, <3>1 DEF RaiseAlert
    <3> QED BY <2>0, <3>2, <3>3
  <2>3. ASSUME NEW a \in Alerts, ResolveAlert(a)
        PROVE  /\ clock' = clock /\ devices' = devices
               /\ alerts' \in [Alerts -> AlertRecs \cup {Null}]
               /\ \A b \in Alerts : alerts'[b] = alerts[b]
                                    \/ (alerts[b] # Null /\ alerts'[b].by = alerts[b].by)
    <3>1. PICK e : e = [alerts[a] EXCEPT !.status = "resolved"]
      OBVIOUS
    <3>2. alerts[a] \in AlertRecs /\ alerts[a] # Null
      BY <2>0, <2>3 DEF ResolveAlert
    <3>3. e \in AlertRecs /\ e.by = alerts[a].by
      BY <3>1, <3>2 DEF AlertRecs
    <3>4. clock' = clock /\ devices' = devices /\ alerts' = [alerts EXCEPT ![a] = e]
      BY <2>3, <3>1 DEF ResolveAlert
    <3> QED BY <2>0, <3>2, <3>3, <3>4
  <2>4. CASE \E d \in Devices : RegisterDevice(d) \/ SaveDevice(d)
    BY <1>0, <2>0, <2>1, <2>4
  <2>5. CASE \E a \in Alerts, sv \in {"critical", "high"} : RaiseAlert(a, sv)
    BY <1>0, <2>0, <2>2, <2>5
  <2>6. CASE \E a \in Alerts : ResolveAlert(a)
    BY <1>0, <2>0, <2>3, <2>6
  <2> QED BY <2>4, <2>5, <2>6 DEF Beside
<1>2. TablesOK' /\ Growing
  BY <1>0, <1>1 DEF ConInv, TablesOK, Growing
<1>3. JobsOK' /\ StampsApart'
  BY <1>0, <1>1, <1>2, JobsKept, StampsKept DEF ConInv
<1>4. \A p, x, y : Accounted(p, x, y) => Accounted(p, x, y)'
  BY <1>0, <1>2, RecordedKept
<1>5. MissingForCause'
  BY <1>0, <1>1, <1>4, AuditedStep DEF ConInv
<1> QED BY <1>2, <1>3, <1>5 DEF ConInv

-----------------------------------------------------------------------------
(* Requests that read change nothing but their own progress.               *)
LEMMA ViewStep ==
  ASSUME ConInv, NEW r \in Viewers, NEW j, Become(r, j), j = NoJob \/ ViewShaped(j),
         UNCHANGED <<tables, auditLog, clock, lost>>
  PROVE  ConInv'
<1>1. r \in Calls /\ r \notin Editors
  BY ConsoleAssumption DEF Calls
<1>2. TablesOK' /\ Growing /\ clock' \in Nat /\ clock <= clock'
  BY DEF ConInv, TablesOK, Growing, tables
<1>3. j = NoJob \/ ViewShaped(j)'
  BY <1>2, ViewKept
<1>4. JobsOK' /\ job'[r] = j /\ \A q \in Calls \ {r} : job'[q] = job[q]
  BY <1>1, <1>2, <1>3, JobStep DEF ConInv
<1>5. StampsApart'
  BY <1>1, <1>2, <1>4, StampsKept DEF ConInv, Calls
<1>6. job[r].at # "audit"
  BY <1>1, JobPlaces DEF ConInv, Changing
<1>7. \A p, x, y : Accounted(p, x, y) => Accounted(p, x, y)'
  BY <1>2, <1>4, <1>6, RecordedKept
<1>8. MissingForCause'
  BY <1>7, AuditedStep DEF ConInv, tables
<1> QED BY <1>2, <1>4, <1>5, <1>8 DEF ConInv

LEMMA ViewAt ==
  ASSUME ConInv, NEW r \in Viewers, job[r] # NoJob
  PROVE  ViewShaped(job[r])
  BY DEF ConInv, JobsOK

LEMMA WalkInv ==
  ASSUME ConInv, NEW r \in Viewers, NEW o \in Orgs, NEW n \in Limits,
         NEW listing \in {"logs", "alerts"}, Walk(r, listing, o, n)
  PROVE  ConInv'
<1>1. PICK j : j = [op |-> listing, at |-> "count", org |-> o, limit |-> n, offset |-> 0,
                    total |-> 0, got |-> 0, seen |-> {}, owed |-> Rows(listing, o)]
  OBVIOUS
<1>2. Become(r, j) /\ UNCHANGED <<tables, auditLog, clock, lost>> /\ n \in Nat \ {0}
  BY <1>1, ConsoleAssumption DEF Walk
<1>3. Rows(listing, o) \in Shown
  BY TablesFinite DEF ConInv, Shown
<1>4. j \in WalkJobs
  BY <1>1, <1>2, <1>3 DEF WalkJobs, Shown
<1>5. /\ j.op = listing /\ j.at = "count" /\ j.org = o /\ j.offset = 0 /\ j.owed = Rows(listing, o)
  BY <1>1
<1>6. ASSUME listing = "logs" PROVE j.owed \subseteq Logs(o)
  BY <1>5, <1>6 DEF Rows, Logs
<1>7. ASSUME NEW x PROVE Cardinality(Newer(x, Logs(o))) >= 0
  BY TablesFinite, RankGrows DEF ConInv
<1>8. WalkShaped(j)
  BY <1>4, <1>5, <1>6, <1>7 DEF WalkShaped
<1> QED BY <1>2, <1>8, ViewStep DEF ViewShaped

LEMMA WalkAt ==
  ASSUME ConInv, NEW r \in Viewers
  PROVE  /\ job[r].at = "count" => WalkShaped(job[r])
         /\ job[r].at = "page" => WalkShaped(job[r])
         /\ job[r].at = "shown" /\ job[r].op \in {"logs", "alerts"} => WalkShaped(job[r])
<1>1. NoJob.at = "idle"
  BY DEF NoJob
<1>2. job[r] # NoJob => ViewShaped(job[r])
  BY ViewAt
<1> QED BY <1>1, <1>2 DEF ViewShaped, DevicesShaped, PeersShaped, StatsShaped, DeviceJobs, PeerJobs,
                          StatsJobs, DashJobs

LEMMA CountRowsInv == ASSUME ConInv, NEW r \in Viewers, CountRows(r) PROVE ConInv'
<1>1. PICK j \in WalkJobs : j = job[r] /\ WalkShaped(j) /\ j.at = "count"
  <2>1. WalkShaped(job[r]) /\ job[r].at = "count"
    <3>1. job[r].at = "count"
      BY DEF CountRows
    <3> QED BY <3>1, WalkAt
  <2>2. job[r] \in WalkJobs
    BY <2>1 DEF WalkShaped
  <2> QED BY <2>1, <2>2
<1>2. PICK n \in Nat : n = Cardinality(Rows(j.op, j.org))
  BY TablesFinite DEF ConInv
<1>3. PICK e : e = [j EXCEPT !.at = "page", !.total = n]
  OBVIOUS
<1>4. e \in WalkJobs
  BY <1>3 DEF WalkJobs
<1>5. /\ e.at = "page" /\ e.total = n /\ e.op = j.op /\ e.org = j.org /\ e.limit = j.limit
      /\ e.offset = j.offset /\ e.seen = j.seen /\ e.owed = j.owed
  BY <1>3 DEF WalkJobs
<1>6. Become(r, e) /\ UNCHANGED <<tables, auditLog, clock, lost>>
  BY <1>1, <1>2, <1>3 DEF CountRows
<1>7. e.op = "logs" => e.total <= Cardinality(Logs(e.org))
  BY <1>2, <1>5 DEF Rows, Logs
<1>8. WalkShaped(e)
  <2>1. j.op = "logs" =>
          /\ j.owed \subseteq Logs(j.org)
          /\ \A x \in j.owed \ j.seen : Cardinality(Newer(x, Logs(j.org))) >= j.offset
    BY <1>1 DEF WalkShaped
  <2>2. e.op = "logs" =>
          /\ e.owed \subseteq Logs(e.org)
          /\ \A x \in e.owed \ e.seen : Cardinality(Newer(x, Logs(e.org))) >= e.offset
    BY <1>5, <2>1
  <2> QED BY <1>4, <1>5, <1>7, <2>2 DEF WalkShaped
<1> QED BY <1>6, <1>8, ViewStep DEF ViewShaped

LEMMA FindRowsInv == ASSUME ConInv, NEW r \in Viewers, FindRows(r) PROVE ConInv'
<1>1. PICK j \in WalkJobs : j = job[r] /\ WalkShaped(j) /\ j.at = "page"
  <2>1. WalkShaped(job[r]) /\ job[r].at = "page"
    <3>1. job[r].at = "page"
      BY DEF FindRows
    <3> QED BY <3>1, WalkAt
  <2>2. job[r] \in WalkJobs
    BY <2>1 DEF WalkShaped
  <2> QED BY <2>1, <2>2
<1>2. PICK P : P = Page(Rows(j.op, j.org), j.offset, j.limit)
  OBVIOUS
<1>3. P \in Shown /\ Cardinality(P) \in Nat
  <2>1. P \subseteq Rows(j.op, j.org)
    BY <1>2 DEF Page, Ranked
  <2> QED BY <2>1, TablesFinite, FS_Subset, FS_CardinalityType DEF ConInv, Shown
<1>4. PICK n \in Nat : n = Cardinality(P)
  BY <1>3
<1>5. PICK sn \in Shown : sn = j.seen \cup P
  BY <1>3 DEF WalkJobs, Shown
<1>6. PICK e : e = [j EXCEPT !.at = "shown", !.got = n, !.seen = sn]
  OBVIOUS
<1>7. e \in WalkJobs
  BY <1>6 DEF WalkJobs
<1>8. /\ e.at = "shown" /\ e.got = n /\ e.op = j.op /\ e.org = j.org /\ e.limit = j.limit
      /\ e.offset = j.offset /\ e.seen = sn /\ e.owed = j.owed /\ e.total = j.total
  BY <1>6 DEF WalkJobs
<1>9. Become(r, e) /\ UNCHANGED <<tables, auditLog, clock, lost>>
  BY <1>1, <1>2, <1>4, <1>5, <1>6 DEF FindRows
<1>10. WalkShaped(e)
  <2> SUFFICES ASSUME j.op = "logs"
               PROVE  /\ j.owed \subseteq Logs(j.org)
                      /\ \A x \in j.owed \ sn : Cardinality(Newer(x, Logs(j.org))) >= j.offset + j.limit
                      /\ n >= Least(j.limit, Left(j)) /\ (n < j.limit => j.owed \subseteq sn)
    BY <1>7, <1>8 DEF WalkShaped, Left
  <2>1. PICK S : S = Logs(j.org)
    OBVIOUS
  <2>2. IsFiniteSet(S) /\ S \subseteq Records /\ P = Page(S, j.offset, j.limit)
    BY <1>2, <2>1, TablesFinite DEF ConInv, Rows, Logs, OfOrg, Records
  <2>3. \A x \in S : x.at \in Nat
    BY <2>2, StampTypes DEF ConInv
  <2>4. \A x, y \in S : x.at = y.at => x = y
    BY <2>2 DEF ConInv, StampsApart
  <2>5. j.offset \in Nat /\ j.limit \in Nat \ {0} /\ j.total \in Nat
    BY DEF WalkJobs
  <2>6. /\ n >= Least(j.limit, Cardinality(S) - j.offset)
        /\ \A x \in S : Cardinality(Newer(x, S)) >= j.offset =>
             x \in P \/ Cardinality(Newer(x, S)) >= j.offset + j.limit
        /\ n < j.limit => \A x \in S : Cardinality(Newer(x, S)) < j.offset + j.limit
    BY <1>4, <2>2, <2>3, <2>4, <2>5, PageOfRows
  <2>7. /\ j.owed \subseteq S /\ j.total <= Cardinality(S)
        /\ \A x \in j.owed \ j.seen : Cardinality(Newer(x, S)) >= j.offset
    BY <1>1, <2>1 DEF WalkShaped
  <2>8. \A x \in j.owed \ sn : Cardinality(Newer(x, S)) >= j.offset + j.limit
    BY <1>5, <2>6, <2>7
  <2>9. n >= Least(j.limit, Left(j))
    <3>1. Cardinality(S) \in Nat
      BY <2>2, FS_CardinalityType
    <3> QED BY <2>5, <2>6, <2>7, <3>1 DEF Least, Left
  <2>10. ASSUME n < j.limit, NEW x \in j.owed PROVE x \in sn
    <3>1. Cardinality(Newer(x, S)) \in Nat /\ Cardinality(Newer(x, S)) < j.offset + j.limit
      BY <2>2, <2>6, <2>7, <2>10, RankGrows
    <3> QED BY <2>5, <2>8, <3>1
  <2> QED BY <2>1, <2>7, <2>8, <2>9, <2>10
<1> QED BY <1>9, <1>10, ViewStep DEF ViewShaped

LEMMA NextPageInv == ASSUME ConInv, NEW r \in Viewers, NextPage(r) PROVE ConInv'
<1>1. PICK j \in WalkJobs : j = job[r] /\ WalkShaped(j) /\ j.at = "shown"
  <2>1. WalkShaped(job[r]) /\ job[r].at = "shown"
    <3>1. job[r].at = "shown" /\ job[r].op \in {"logs", "alerts"}
      BY DEF NextPage
    <3> QED BY <3>1, WalkAt
  <2>2. job[r] \in WalkJobs
    BY <2>1 DEF WalkShaped
  <2> QED BY <2>1, <2>2
<1>2. PICK n \in Nat : n = j.offset + j.limit
  BY DEF WalkJobs
<1>3. PICK e : e = [j EXCEPT !.at = "count", !.offset = n]
  OBVIOUS
<1>4. e \in WalkJobs
  BY <1>3 DEF WalkJobs
<1>5. /\ e.at = "count" /\ e.op = j.op /\ e.org = j.org
      /\ e.offset = j.offset + j.limit /\ e.seen = j.seen /\ e.owed = j.owed
  BY <1>2, <1>3 DEF WalkJobs
<1>6. Become(r, e) /\ UNCHANGED <<tables, auditLog, clock, lost>>
  BY <1>1, <1>2, <1>3 DEF NextPage
<1>7. WalkShaped(e)
  BY <1>1, <1>4, <1>5 DEF WalkShaped
<1> QED BY <1>6, <1>7, ViewStep DEF ViewShaped
LEMMA GetDevicesInv ==
  ASSUME ConInv, NEW r \in Viewers, NEW n \in Limits, NEW k \in Offsets, GetDevices(r, k, n)
  PROVE  ConInv'
<1>1. PICK t \in Nat : t = Cardinality(devices)
  BY TablesFinite DEF ConInv
<1>2. PICK left : left = IF k < t THEN t - k ELSE 0
  OBVIOUS
<1>3. PICK got : got = IF n > 0 THEN Least(left, n) ELSE left
  OBVIOUS
<1>4. PICK j : j = [op |-> "devices", at |-> IF k < 0 THEN "panicked" ELSE "shown", limit |-> n,
                    offset |-> k, total |-> t, got |-> got]
  OBVIOUS
<1>5. Become(r, j) /\ UNCHANGED <<tables, auditLog, clock, lost>>
  BY <1>1, <1>2, <1>3, <1>4 DEF GetDevices
<1>6. n \in Nat /\ k \in Int
  BY ConsoleAssumption
<1>7. left \in Nat /\ got \in Nat /\ left >= t - k
  BY <1>2, <1>3, <1>6 DEF Least
<1>8. got >= IF n = 0 THEN t - k ELSE Least(n, t - k)
  BY <1>3, <1>6, <1>7 DEF Least
<1>9. DevicesShaped(j)
  BY <1>4, <1>6, <1>7, <1>8 DEF DevicesShaped, DeviceJobs, Left
<1> QED BY <1>5, <1>9, ViewStep DEF ViewShaped

LEMMA GetDevicePeersInv ==
  ASSUME ConInv, NEW r \in Viewers, NEW d \in Devices, GetDevicePeers(r, d)
  PROVE  ConInv'
<1>1. PICK P : P = UNION {s \ {d} : s \in {t \in SessionRows : d \in t}}
  OBVIOUS
<1>2. P \subseteq devices /\ devices \subseteq Devices
  BY <1>1 DEF SessionRows, ConInv, TablesOK
<1>3. PICK j : j = [op |-> "peers", at |-> "peers", owed |-> P, todo |-> P, seen |-> {}, failed |-> {}]
  OBVIOUS
<1>4. Become(r, j) /\ UNCHANGED <<tables, auditLog, clock, lost>>
  BY <1>1, <1>3 DEF GetDevicePeers
<1>5. PeersShaped(j)
  BY <1>2, <1>3 DEF PeersShaped, PeerJobs
<1> QED BY <1>4, <1>5, ViewStep DEF ViewShaped

LEMMA PeersAt ==
  ASSUME ConInv, NEW r \in Viewers, job[r].at = "peers"
  PROVE  PeersShaped(job[r]) /\ job[r] \in PeerJobs
<1>1. NoJob.at = "idle"
  BY DEF NoJob
<1>2. ViewShaped(job[r])
  BY <1>1, ViewAt
<1> QED BY <1>2 DEF ViewShaped, WalkShaped, DevicesShaped, StatsShaped, PeersShaped, DeviceJobs,
                    WalkJobs, StatsJobs, DashJobs

LEMMA FindPeerInv ==
  ASSUME ConInv, NEW r \in Viewers, NEW p \in Devices, NEW fails \in BOOLEAN, FindPeer(r, p, fails)
  PROVE  ConInv'
<1>1. job[r].at = "peers" /\ p \in job[r].todo /\ UNCHANGED <<tables, auditLog, clock, lost>>
  BY DEF FindPeer
<1>2. PICK j \in PeerJobs : j = job[r] /\ PeersShaped(j)
  BY <1>1, PeersAt
<1>3. PICK todo : todo = j.todo \ {p}
  OBVIOUS
<1>4. PICK seen : seen = j.seen \cup {p}
  OBVIOUS
<1>5. PICK failed : failed = j.failed \cup {p}
  OBVIOUS
<1>6. todo \subseteq Devices /\ seen \subseteq Devices /\ failed \subseteq Devices
  BY <1>3, <1>4, <1>5 DEF PeerJobs
<1>7. CASE ~fails /\ p \in devices
  <2>1. PICK e : e = [j EXCEPT !.todo = todo, !.seen = seen]
    OBVIOUS
  <2>2. e \in PeerJobs
    BY <1>6, <2>1 DEF PeerJobs
  <2>3. e.todo = todo /\ e.seen = seen /\ e.failed = j.failed /\ e.owed = j.owed /\ e.at = j.at
    BY <2>1 DEF PeerJobs
  <2>4. Become(r, e)
    BY <1>2, <1>3, <1>4, <1>7, <2>1 DEF FindPeer
  <2>5. PeersShaped(e)
    BY <1>1, <1>2, <1>3, <1>4, <2>2, <2>3 DEF PeersShaped
  <2> QED BY <1>1, <2>4, <2>5, ViewStep DEF ViewShaped
<1>8. CASE ~fails /\ p \notin devices
  <2>1. PICK e : e = [j EXCEPT !.todo = todo]
    OBVIOUS
  <2>2. e \in PeerJobs
    BY <1>6, <2>1 DEF PeerJobs
  <2>3. e.todo = todo /\ e.seen = j.seen /\ e.failed = j.failed /\ e.owed = j.owed /\ e.at = j.at
    BY <2>1 DEF PeerJobs
  <2>4. Become(r, e)
    BY <1>2, <1>3, <1>8, <2>1 DEF FindPeer, PassOver, SkipPeer
  <2>5. p \in deleted
    BY <1>1, <1>2, <1>8 DEF PeersShaped
  <2>6. PeersShaped(e)
    BY <1>1, <1>2, <1>3, <2>2, <2>3, <2>5 DEF PeersShaped
  <2> QED BY <1>1, <2>4, <2>6, ViewStep DEF ViewShaped
<1>9. CASE fails
  <2>1. PICK m : m = [j EXCEPT !.failed = failed]
    OBVIOUS
  <2>2. PICK e : e = [m EXCEPT !.todo = todo]
    OBVIOUS
  <2>3. m \in PeerJobs /\ m.todo = j.todo
    BY <1>6, <2>1 DEF PeerJobs
  <2>4. e \in PeerJobs
    BY <1>6, <2>2, <2>3 DEF PeerJobs
  <2>5. e.todo = todo /\ e.seen = j.seen /\ e.failed = failed /\ e.owed = j.owed /\ e.at = j.at
    BY <2>1, <2>2 DEF PeerJobs
  <2>6. Become(r, PassOver([job[r] EXCEPT !.failed = @ \cup {p}], p))
    BY <1>9 DEF FindPeer
  <2>7. m = [job[r] EXCEPT !.failed = @ \cup {p}]
    BY <1>2, <1>5, <2>1
  <2>8. e = PassOver([job[r] EXCEPT !.failed = @ \cup {p}], p)
    BY <1>3, <2>2, <2>3, <2>7 DEF PassOver, SkipPeer
  <2>9. PeersShaped(e)
    BY <1>1, <1>2, <1>3, <1>5, <2>4, <2>5 DEF PeersShaped
  <2> QED BY <1>1, <2>6, <2>8, <2>9, ViewStep DEF ViewShaped
<1> QED BY <1>7, <1>8, <1>9

LEMMA PeersFoundInv == ASSUME ConInv, NEW r \in Viewers, PeersFound(r) PROVE ConInv'
<1>1. job[r].at = "peers" /\ job[r].todo = {} /\ UNCHANGED <<tables, auditLog, clock, lost>>
  BY DEF PeersFound
<1>2. PICK j \in PeerJobs : j = job[r] /\ PeersShaped(j)
  BY <1>1, PeersAt
<1>3. PICK e : e = [j EXCEPT !.at = "shown"]
  OBVIOUS
<1>4. e \in PeerJobs
  BY <1>3 DEF PeerJobs
<1>5. e.at = "shown" /\ e.todo = j.todo /\ e.seen = j.seen /\ e.failed = j.failed /\ e.owed = j.owed
  BY <1>3 DEF PeerJobs
<1>6. Become(r, e)
  BY <1>2, <1>3 DEF PeersFound
<1>7. PeersShaped(e)
  BY <1>1, <1>2, <1>4, <1>5 DEF PeersShaped
<1> QED BY <1>1, <1>6, <1>7, ViewStep DEF ViewShaped

LEMMA GetAuditStatsInv ==
  ASSUME ConInv, NEW r \in Viewers, NEW o \in Orgs, GetAuditStats(r, o)
  PROVE  ConInv'
<1>1. PICK t \in Nat : t = Cardinality(Logs(o))
  BY TablesFinite DEF ConInv
<1>2. PICK j : j = [op |-> "stats", at |-> "groups", org |-> o, total |-> t, sum |-> 0]
  OBVIOUS
<1>3. Become(r, j) /\ UNCHANGED <<tables, auditLog, clock, lost>>
  BY <1>1, <1>2 DEF GetAuditStats, Logs
<1>4. StatsShaped(j)
  BY <1>1, <1>2 DEF StatsShaped, StatsJobs
<1> QED BY <1>3, <1>4, ViewStep DEF ViewShaped

LEMMA GroupLogsInv == ASSUME ConInv, NEW r \in Viewers, GroupLogs(r) PROVE ConInv'
<1>1. job[r].at = "groups" /\ UNCHANGED <<tables, auditLog, clock, lost>>
  BY DEF GroupLogs
<1>2. PICK j \in StatsJobs : j = job[r] /\ StatsShaped(j)
  <2>1. NoJob.at = "idle"
    BY DEF NoJob
  <2>2. ViewShaped(job[r])
    BY <1>1, <2>1, ViewAt
  <2>3. StatsShaped(job[r])
    BY <1>1, <2>2 DEF ViewShaped, WalkShaped, DevicesShaped, PeersShaped, WalkJobs, DeviceJobs, PeerJobs,
                      DashJobs
  <2> QED BY <2>3 DEF StatsShaped
<1>3. PICK n \in Nat : n = Cardinality(Logs(j.org))
  BY TablesFinite DEF ConInv
<1>4. PICK e : e = [j EXCEPT !.at = "shown", !.sum = n]
  OBVIOUS
<1>5. e \in StatsJobs
  BY <1>4 DEF StatsJobs
<1>6. e.at = "shown" /\ e.sum = n /\ e.total = j.total
  BY <1>4 DEF StatsJobs
<1>7. Become(r, e)
  BY <1>2, <1>3, <1>4 DEF GroupLogs, Logs
<1>8. StatsShaped(e)
  <2>1. j.total <= n
    BY <1>1, <1>2, <1>3 DEF StatsShaped
  <2> QED BY <1>5, <1>6, <2>1 DEF StatsShaped
<1> QED BY <1>1, <1>7, <1>8, ViewStep DEF ViewShaped

LEMMA DashboardInv ==
  ASSUME ConInv, NEW r \in Viewers,
         GetDashboardStats(r) \/ \E fails \in CanFail : CountNext(r, fails)
  PROVE  ConInv'
<1>1. CASE GetDashboardStats(r)
  <2>1. PICK t \in Nat : t = Cardinality(devices)
    BY TablesFinite DEF ConInv
  <2>2. PICK j : j = [op |-> "dashboard", at |-> "online", total |-> t, online |-> 0, active |-> 0,
                      critical |-> 0]
    OBVIOUS
  <2>3. Become(r, j) /\ UNCHANGED <<tables, auditLog, clock, lost>>
    BY <1>1, <2>1, <2>2 DEF GetDashboardStats
  <2>4. j \in DashJobs
    BY <2>2 DEF DashJobs
  <2> QED BY <2>3, <2>4, ViewStep DEF ViewShaped
<1>2. ASSUME NEW fails \in CanFail, CountNext(r, fails) PROVE ConInv'
  <2>1. job[r].at \in {"online", "active", "critical"} /\ UNCHANGED <<tables, auditLog, clock, lost>>
    BY <1>2 DEF CountNext
  <2>2. PICK j \in DashJobs : j = job[r]
    <3>1. NoJob.at = "idle"
      BY DEF NoJob
    <3>2. ViewShaped(job[r])
      BY <2>1, <3>1, ViewAt
    <3> QED BY <2>1, <3>2 DEF ViewShaped, WalkShaped, DevicesShaped, PeersShaped, StatsShaped, WalkJobs,
                              DeviceJobs, PeerJobs, StatsJobs
  <2>3. PICK x \in Nat : x = IF fails THEN 0 ELSE Cardinality(devices)
    BY TablesFinite DEF ConInv
  <2>4. PICK y \in Nat : y = IF fails THEN 0 ELSE Cardinality(Open)
    BY TablesFinite DEF ConInv
  <2>5. PICK z \in Nat : z = IF fails THEN 0 ELSE Cardinality(Critical)
    BY TablesFinite DEF ConInv
  <2>6. CASE j.at = "online"
    <3>1. PICK e : e = [j EXCEPT !.at = "active", !.online = x]
      OBVIOUS
    <3>2. e \in DashJobs
      BY <3>1 DEF DashJobs
    <3>3. Become(r, e)
      BY <1>2, <2>2, <2>3, <2>6, <3>1 DEF CountNext
    <3> QED BY <2>1, <3>2, <3>3, ViewStep DEF ViewShaped
  <2>7. CASE j.at = "active"
    <3>1. PICK e : e = [j EXCEPT !.at = "critical", !.active = y]
      OBVIOUS
    <3>2. e \in DashJobs
      BY <3>1 DEF DashJobs
    <3>3. Become(r, e)
      BY <1>2, <2>2, <2>4, <2>7, <3>1 DEF CountNext
    <3> QED BY <2>1, <3>2, <3>3, ViewStep DEF ViewShaped
  <2>8. CASE j.at = "critical"
    <3>1. PICK e : e = [j EXCEPT !.at = "shown", !.critical = z]
      OBVIOUS
    <3>2. e \in DashJobs
      BY <3>1 DEF DashJobs
    <3>3. Become(r, e)
      BY <1>2, <2>2, <2>5, <2>8, <3>1 DEF CountNext
    <3> QED BY <2>1, <3>2, <3>3, ViewStep DEF ViewShaped
  <2> QED BY <2>1, <2>2, <2>6, <2>7, <2>8
<1> QED BY <1>1, <1>2

LEMMA FinishInv == ASSUME ConInv, NEW r \in Viewers, Finish(r) PROVE ConInv'
<1>1. Become(r, NoJob) /\ UNCHANGED <<tables, auditLog, clock, lost>>
  BY DEF Finish
<1> QED BY <1>1, ViewStep

LEMMA ChangeInv == ASSUME ConInv, NEW r \in Editors, Change(r) PROVE ConInv'
<1>1. ASSUME NEW d \in Devices, NEW o \in Orgs, Begin(r, "delete", d, Null, o) PROVE ConInv'
  BY <1>1, BeginInv DEF Targets, Who
<1>2. ASSUME NEW a \in Alerts, NEW w \in Admins, NEW o \in Orgs, Begin(r, "acknowledge", a, w, o)
      PROVE  ConInv'
  BY <1>2, BeginInv DEF Targets, Who
<1>3. ASSUME NEW n \in Networks, NEW o \in Orgs, Begin(r, "create", n, Null, o) PROVE ConInv'
  BY <1>3, BeginInv DEF Targets, Who
<1>4. ASSUME NEW ok \in BOOLEAN, NEW done \in BOOLEAN,
             DeleteDevice(r, ok, done) \/ AcknowledgeAlert(r, ok, done) \/ CreateVirtualNetwork(r, ok, done)
      PROVE  ConInv'
  BY <1>4, DeleteDeviceInv, AcknowledgeInv, CreateNetworkInv
<1>5. ASSUME NEW lose \in CanLose, CreateAuditLog(r, lose) PROVE ConInv'
  BY <1>5, CreateAuditLogInv, ConsoleAssumption
<1> QED BY <1>1, <1>2, <1>3, <1>4, <1>5, FindDeviceInv DEF Change

LEMMA LookInv == ASSUME ConInv, NEW r \in Viewers, Look(r) PROVE ConInv'
<1>1. ASSUME NEW o \in Orgs, NEW n \in Limits, GetAuditLogs(r, o, n) \/ GetAlerts(r, o, n) PROVE ConInv'
  BY <1>1, WalkInv DEF GetAuditLogs, GetAlerts
<1>2. ASSUME NEW d \in Devices, GetDevicePeers(r, d) \/ \E fails \in CanFail : FindPeer(r, d, fails)
      PROVE  ConInv'
  BY <1>2, GetDevicePeersInv, FindPeerInv, ConsoleAssumption
<1>3. ASSUME NEW n \in Limits, NEW k \in Offsets, GetDevices(r, k, n) PROVE ConInv'
  BY <1>3, GetDevicesInv
<1>4. ASSUME NEW o \in Orgs, GetAuditStats(r, o) PROVE ConInv'
  BY <1>4, GetAuditStatsInv
<1> QED BY <1>1, <1>2, <1>3, <1>4, CountRowsInv, FindRowsInv, NextPageInv, PeersFoundInv, GroupLogsInv,
           DashboardInv, FinishInv DEF Look

-----------------------------------------------------------------------------
LEMMA ConInvInit == ASSUME ConInit PROVE ConInv
<1>1. TablesOK
  BY ConsoleAssumption, FS_EmptySet DEF ConInit, TablesOK
<1>2. JobsOK
  BY DEF ConInit, JobsOK, Calls
<1>3. StampsApart
  <2>1. Records = {} /\ \A r \in Editors : job[r] = NoJob
    BY DEF ConInit, Records, Calls
  <2> QED BY <2>1 DEF StampsApart
<1>4. MissingForCause
  BY DEF ConInit, MissingForCause
<1> QED BY <1>1, <1>2, <1>3, <1>4 DEF ConInv

(* No request that changes or reads something, and nothing that happens    *)
(* beside them, breaks the invariant ...                                   *)
THEOREM ConInvStep == ASSUME ConInv, [ConNext]_conVars PROVE ConInv'
<1>1. ASSUME UNCHANGED conVars PROVE ConInv'
  <2>1. TablesOK' /\ Growing /\ clock' \in Nat /\ clock <= clock'
    BY <1>1 DEF ConInv, TablesOK, Growing, conVars, tables
  <2>2. JobsOK' /\ StampsApart'
    BY <1>1, <2>1, JobsKept, StampsKept DEF ConInv, conVars
  <2>3. \A p, x, y : Accounted(p, x, y) => Accounted(p, x, y)'
    BY <1>1, <2>1, RecordedKept DEF conVars
  <2>4. MissingForCause'
    BY <1>1, <2>3, AuditedStep DEF ConInv, conVars, tables
  <2> QED BY <2>1, <2>2, <2>4 DEF ConInv
<1> QED BY <1>1, ChangeInv, LookInv, BesideInv DEF ConNext

(* ... which therefore holds in every state of the endpoints.              *)
THEOREM ConInvariant == ConSpec => []ConInv
<1>1. ConInit => ConInv
  BY ConInvInit
<1>2. ConInv /\ [ConNext]_conVars => ConInv'
  BY ConInvStep
<1> QED BY <1>1, <1>2, PTL DEF ConSpec

(* A deletion or an acknowledgement that is not told by the audit log once *)
(* its request is over has lost its record to an insert that failed: a     *)
(* handler that changed the row and answered with an error, and requests   *)
(* that change the same row at once, lose none.                            *)
THEOREM ChangesAudited == ConSpec => []MissingForCause
<1>1. ConInv => MissingForCause
  BY DEF ConInv
<1> QED BY <1>1, ConInvariant, PTL

(* FindByFilters page after page, GetDevices, GetAuditStats and            *)
(* GetDevicePeers lack nothing that was there from their first query to    *)
(* their last, however many requests change the tables meanwhile, but the  *)
(* peers whose own query fails.                                            *)
THEOREM ConsoleListingsComplete == ConSpec => []ListingsComplete
<1>1. ConInv => ListingsComplete
  <2> SUFFICES ASSUME ConInv PROVE ListingsComplete
    OBVIOUS
  <2>1. ASSUME NEW r \in Calls, job[r].at = "shown"
        PROVE  /\ ViewShaped(job[r])
               /\ job[r].op \in {"logs", "alerts"} => WalkShaped(job[r])
    <3>1. r \in Viewers
      <4>1. r \in Editors => job[r] = NoJob \/ ChangeShaped(job[r])
        BY DEF ConInv, JobsOK
      <4> QED BY <2>1, <4>1 DEF Calls, NoJob, ChangeShaped, ChangeJobs, Changing
    <3>2. job[r] # NoJob
      BY <2>1 DEF NoJob
    <3> QED BY <2>1, <3>1, <3>2, ViewAt, WalkAt
  <2>2. WalkMissesNothing
    <3> SUFFICES ASSUME NEW r \in Calls, job[r].op = "logs", Walked(r)
                 PROVE  job[r].owed \subseteq job[r].seen
      BY DEF WalkMissesNothing
    <3>1. WalkShaped(job[r]) /\ job[r].at = "shown" /\ job[r].got < job[r].limit
      BY <2>1 DEF Walked
    <3> QED BY <3>1 DEF WalkShaped
  <2>3. PageFull
    <3> SUFFICES ASSUME NEW r \in Calls, NEW j, j = job[r], j.at = "shown", j.op \in {"logs", "devices"}
                 PROVE  j.got >= IF j.limit = 0 THEN Left(j) ELSE Least(j.limit, Left(j))
      BY DEF PageFull, Left
    <3>1. CASE j.op = "logs"
      <4>1. WalkShaped(j)
        BY <2>1, <3>1
      <4>2. j.limit # 0
        BY <4>1 DEF WalkShaped, WalkJobs
      <4> QED BY <3>1, <4>1, <4>2 DEF WalkShaped
    <3>2. CASE j.op = "devices"
      <4>1. ViewShaped(j)
        BY <2>1
      <4>2. DevicesShaped(j)
        BY <3>2, <4>1 DEF ViewShaped, WalkShaped, PeersShaped, StatsShaped, WalkJobs, PeerJobs, StatsJobs,
                          DashJobs
      <4> QED BY <4>2 DEF DevicesShaped
    <3> QED BY <3>1, <3>2
  <2>4. StatsNested
    <3> SUFFICES ASSUME NEW r \in Calls, NEW j, j = job[r], j.at = "shown", j.op = "stats"
                 PROVE  j.sum >= j.total
      BY DEF StatsNested
    <3>1. ViewShaped(j)
      BY <2>1
    <3>2. StatsShaped(j)
      BY <3>1 DEF ViewShaped, WalkShaped, PeersShaped, DevicesShaped, WalkJobs, PeerJobs, DeviceJobs, DashJobs
    <3> QED BY <3>2 DEF StatsShaped, StatsJobs
  <2>5. PeersListed
    <3> SUFFICES ASSUME NEW r \in Calls, NEW j, j = job[r], j.at = "shown", j.op = "peers"
                 PROVE  j.owed \ j.seen \subseteq deleted \cup j.failed
      BY DEF PeersListed
    <3>1. ViewShaped(j)
      BY <2>1
    <3>2. PeersShaped(j)
      BY <3>1 DEF ViewShaped, WalkShaped, StatsShaped, DevicesShaped, WalkJobs, StatsJobs, DeviceJobs, DashJobs
    <3> QED BY <3>2 DEF PeersShaped
  <2> QED BY <2>2, <2>3, <2>4, <2>5 DEF ListingsComplete
<1> QED BY <1>1, ConInvariant, PTL
-----------------------------------------------------------------------------
(* The rows are of devices there are, and the records of changes made.     *)
THEOREM ConsoleTypes == ConSpec => []ConTypeOK
<1>1. ConInv => ConTypeOK
  <2> SUFFICES ASSUME ConInv PROVE ConTypeOK
    OBVIOUS
  <2>1. \A a \in Alerts : alerts[a] = Null \/ alerts[a].status \in {"active", "acknowledged", "resolved"}
    BY DEF ConInv, TablesOK, AlertRecs
  <2>2. ASSUME NEW x \in auditLog \cup lost
        PROVE  x.at \in 0 .. clock /\ x.action \in {"delete", "acknowledge"}
    <3>1. x \in AuditRecs /\ x.at <= clock /\ clock \in Nat
      BY DEF ConInv, TablesOK, StampsApart, Records
    <3> QED BY <3>1 DEF AuditRecs
  <2> QED BY <2>1, <2>2 DEF ConTypeOK, ConInv, TablesOK
<1> QED BY <1>1, ConInvariant, PTL

-----------------------------------------------------------------------------
(* The rate limiters.  Members(f) has a member for each request that f     *)
(* counts, so Total grows by one with one request, and does not grow when  *)
(* the requests get older.                                                 *)
Counts == [Ages -> Nat]

LEMMA MembersFinite ==
  ASSUME NEW f \in Counts
  PROVE  IsFiniteSet(Members(f)) /\ Total(f) \in Nat
<1> DEFINE row == [a \in Ages |-> {a} \X (1 .. f[a])]
           rows == {{a} \X (1 .. f[a]) : a \in Ages}
<1>1. IsFiniteSet(Ages)
  BY FS_Interval, LimiterAssumption DEF Ages, LimiterAssumption
<1>2. row \in Surjection(Ages, rows)
  BY DEF Surjection
<1>3. IsFiniteSet(rows)
  <2> HIDE DEF row, rows
  <2> QED BY <1>1, <1>2, FS_Surjection
<1>4. \A T \in rows : IsFiniteSet(T)
  <2> SUFFICES ASSUME NEW a \in Ages PROVE IsFiniteSet({a} \X (1 .. f[a]))
    OBVIOUS
  <2>1. f[a] \in Nat
    BY DEF Counts
  <2>2. IsFiniteSet(1 .. f[a])
    BY <2>1, FS_Interval
  <2>3. IsFiniteSet({a})
    BY FS_Singleton
  <2> QED BY <2>2, <2>3, FS_Product
<1>5. IsFiniteSet(UNION rows)
  <2> HIDE DEF rows
  <2> QED BY <1>3, <1>4, FS_UNION
<1>6. IsFiniteSet(Members(f))
  BY <1>5 DEF Members
<1> QED BY <1>6, FS_CardinalityType DEF Total

LEMMA InMembers ==
  ASSUME NEW f, NEW a, NEW i
  PROVE  <<a, i>> \in Members(f) <=> a \in Ages /\ i \in 1 .. f[a]
BY DEF Members

LEMMA MembersArePairs ==
  ASSUME NEW f, NEW x \in Members(f)
  PROVE  \E a \in Ages : \E i \in 1 .. f[a] : x = <<a, i>>
BY DEF Members

(* One request more of one age.                                            *)
LEMMA TotalGrows ==
  ASSUME NEW f \in Counts, NEW a \in Ages
  PROVE  /\ [f EXCEPT ![a] = @ + 1] \in Counts
         /\ Total([f EXCEPT ![a] = @ + 1]) = Total(f) + 1
<1>1. PICK g : g = [f EXCEPT ![a] = @ + 1]
  OBVIOUS
<1>2. f[a] \in Nat /\ g \in Counts /\ g[a] = f[a] + 1 /\ \A b \in Ages : b # a => g[b] = f[b]
  BY <1>1 DEF Counts
<1>3. PICK n \in Nat : n = f[a]
  BY <1>2
<1>4. 1 .. g[a] = (1 .. f[a]) \cup {n + 1} /\ n + 1 \notin 1 .. f[a] /\ n + 1 \in 1 .. g[a]
  BY <1>2, <1>3
<1>5. <<a, n + 1>> \notin Members(f) /\ <<a, n + 1>> \in Members(g)
  BY <1>4, InMembers
<1>6. Members(g) = Members(f) \cup {<<a, n + 1>>}
  <2>1. ASSUME NEW x \in Members(g) PROVE x \in Members(f) \cup {<<a, n + 1>>}
    <3>1. PICK b \in Ages : \E i \in 1 .. g[b] : x = <<b, i>>
      BY MembersArePairs
    <3>2. PICK i \in 1 .. g[b] : x = <<b, i>>
      BY <3>1
    <3>3. i \in 1 .. f[b] \/ (b = a /\ i = n + 1)
      BY <1>2, <1>4
    <3> QED BY <3>2, <3>3, InMembers
  <2>2. ASSUME NEW x \in Members(f) PROVE x \in Members(g)
    <3>1. PICK b \in Ages : \E i \in 1 .. f[b] : x = <<b, i>>
      BY MembersArePairs
    <3>2. PICK i \in 1 .. f[b] : x = <<b, i>>
      BY <3>1
    <3>3. i \in 1 .. g[b]
      BY <1>2, <1>4
    <3> QED BY <3>2, <3>3, InMembers
  <2> QED BY <1>5, <2>1, <2>2
<1>7. Total(g) = Total(f) + 1
  BY <1>5, <1>6, MembersFinite, FS_AddElement DEF Total
<1> QED BY <1>1, <1>2, <1>7

LEMMA OlderType ==
  ASSUME NEW f \in Counts
  PROVE  /\ Older(f) \in Counts
         /\ \A a \in Ages : Older(f)[a] > 0 => a # 0 /\ a - 1 \in Ages /\ f[a - 1] > 0
<1>1. ASSUME NEW a \in Ages, a # 0 PROVE a - 1 \in Ages /\ f[a - 1] \in Nat
  BY <1>1, LimiterAssumption DEF Ages, Counts, LimiterAssumption
<1> QED BY <1>1 DEF Older, Counts

(* No request is counted anew because time passes.                         *)
LEMMA TotalAges ==
  ASSUME NEW f \in Counts
  PROVE  Total(Older(f)) <= Total(f)
<1>1. PICK g : g = Older(f)
  OBVIOUS
<1>2. g \in Counts
  BY <1>1, OlderType
<1>3. PICK younger : younger = [x \in Members(g) |-> <<x[1] - 1, x[2]>>]
  OBVIOUS
<1>4. ASSUME NEW x \in Members(g)
      PROVE  /\ younger[x] \in Members(f)
             /\ x[1] \in Ages /\ x = <<x[1], x[2]>> /\ younger[x] = <<x[1] - 1, x[2]>>
  <2>1. PICK a \in Ages : \E i \in 1 .. g[a] : x = <<a, i>>
    BY MembersArePairs
  <2>2. PICK i \in 1 .. g[a] : x = <<a, i>>
    BY <2>1
  <2>3. g[a] \in Nat /\ g[a] > 0
    BY <1>2, <2>2 DEF Counts
  <2>4. a # 0 /\ a - 1 \in Ages /\ g[a] = f[a - 1]
    <3>1. a # 0 /\ a - 1 \in Ages
      BY <1>1, <2>3, OlderType
    <3> QED BY <1>1, <3>1 DEF Older
  <2>5. <<a - 1, i>> \in Members(f)
    BY <2>2, <2>4, InMembers
  <2> QED BY <1>3, <2>2, <2>5
<1>5. younger \in Injection(Members(g), Members(f))
  <2>1. younger \in [Members(g) -> Members(f)]
    BY <1>3, <1>4
  <2>2. ASSUME NEW x \in Members(g), NEW y \in Members(g), younger[x] = younger[y] PROVE x = y
    <3>1. x[1] - 1 = y[1] - 1 /\ x[2] = y[2]
      BY <1>4, <2>2
    <3>2. x[1] = y[1]
      BY <1>4, <3>1 DEF Ages
    <3> QED BY <1>4, <3>1, <3>2
  <2> QED BY <2>1, <2>2 DEF Injection, IsInjective
<1> QED BY <1>1, <1>5, MembersFinite, FS_Injection DEF Total

LEMMA TotalNothing ==
  ASSUME NEW f \in Counts, \A a \in Ages : f[a] = 0
  PROVE  Total(f) = 0
<1>1. Members(f) = {}
  <2> SUFFICES ASSUME NEW x \in Members(f) PROVE FALSE
    OBVIOUS
  <2>1. PICK a \in Ages : \E i \in 1 .. f[a] : x = <<a, i>>
    BY MembersArePairs
  <2> QED BY <2>1
<1> QED BY <1>1, FS_EmptySet DEF Total

(* A request knows which keys it must still be counted under.              *)
Stages == Midway \cup {"idle", "count", "add", "blind", "failed", "limited", "handled"}
RequestRecs == [at : Stages, keys : Seq(Keys), age : 0 .. Window]
KeyedOK(s)  == s.at \in Midway \cup {"count"} => s.keys # << >>
RequestsOK  == request \in [Requests -> RequestRecs] /\ \A r \in Requests : KeyedOK(request[r])

TypesInv == LimTypeOK /\ RequestsOK

(* What a key let pass in the window and is about to let pass is counted   *)
(* in its counter, or belongs to requests that found an earlier counter;   *)
(* and what it let pass leaves the window no later than the counter        *)
(* expires.                                                                *)
Within(k) == {r \in Requests : request[r].at = "within" /\ Key(r) = k}
KeyFits(k, c, g, w) ==
  /\ Total(g) + w <= Limit[k] + Cardinality(Requests)
  /\ Total(g) + w <= c.count + Cardinality(Requests)
  /\ c.count > 0 => \A a \in Ages : g[a] > 0 => a + c.ttl >= Window
GrantedOK == \A k \in Keys : KeyFits(k, counter[k], granted[k], Cardinality(Within(k)))

(* A counter that is there was used less than a window ago, or waits for   *)
(* an EXPIRE, or has lost it.                                              *)
RestFits(k, c, n, used) ==
  \/ c.count = 0
  \/ c.ttl = Never /\ used
  \/ c.ttl # Never /\ n + c.ttl <= Window
RestOK == \A k \in Keys : RestFits(k, counter[k], rested[k], Using(k) # {} \/ k \in bare)

(* The requests that found room and are not recorded yet are counted with  *)
(* those recorded.                                                         *)
Adding     == {r \in Requests : request[r].at = "add"}
RecordedOK == Total(zset) + Cardinality(Adding) < SlidingLimit + Cardinality(Requests)

LimInv == TypesInv /\ GrantedOK /\ RecordedOK /\ RestOK

-----------------------------------------------------------------------------
LEMMA RequestsCounted ==
  ASSUME NEW S \in SUBSET Requests
  PROVE  /\ IsFiniteSet(S) /\ Cardinality(S) \in Nat /\ Cardinality(Requests) \in Nat
         /\ Cardinality(S) <= Cardinality(Requests)
<1>1. IsFiniteSet(Requests)
  BY LimiterAssumption DEF LimiterAssumption
<1> QED BY <1>1, FS_Subset, FS_CardinalityType

LEMMA LimitsTyped == /\ Window \in Nat \ {0} /\ SlidingLimit \in Nat \ {0}
                     /\ \A k \in Keys : Limit[k] \in Nat \ {0}
                     /\ Never = Window + 1 /\ Never \in Nat /\ 0 \in Ages /\ Ages \subseteq Nat
BY LimiterAssumption DEF LimiterAssumption, Never, Ages

LEMMA NobodyTyped == Nobody \in RequestRecs /\ Nobody.at = "idle" /\ Nobody.age = 0
<1>1. << >> \in Seq(Keys) /\ 0 \in 0 .. Window
  BY LimitsTyped
<1> QED BY <1>1 DEF Nobody, RequestRecs, Stages

LEMMA LimInvInit == ASSUME LimInit PROVE LimInv
<1>1. \A k \in Keys : granted[k] \in Counts /\ \A a \in Ages : granted[k][a] = 0
  BY DEF LimInit, Counts
<1>2. zset \in Counts /\ (\A a \in Ages : zset[a] = 0) /\ unseen \in Counts
  BY DEF LimInit, Counts
<1>3. \A r \in Requests : request[r].at = "idle"
  BY DEF LimInit, Nobody
<1>4. LimTypeOK
  <2>1. counter \in [Keys -> [count : Nat, ttl : 0 .. Never]]
    BY LimitsTyped DEF LimInit, NoKey
  <2>2. granted \in [Keys -> Counts] /\ rested \in [Keys -> 0 .. Window] /\ bare \subseteq Keys
    BY LimitsTyped DEF LimInit, Counts
  <2>3. \A k \in Keys : counter[k].count <= Limit[k] + 1 /\ (counter[k].count = 0 <=> counter[k].ttl = 0)
    BY LimitsTyped DEF LimInit, NoKey
  <2> QED BY <1>2, <1>3, <2>1, <2>2, <2>3 DEF LimTypeOK, Counts
<1>5. RequestsOK
  BY <1>3, NobodyTyped DEF LimInit, RequestsOK, KeyedOK, Midway
<1>6. GrantedOK
  <2> SUFFICES ASSUME NEW k \in Keys
               PROVE  KeyFits(k, counter[k], granted[k], Cardinality(Within(k)))
    BY DEF GrantedOK
  <2>1. Within(k) = {} /\ Cardinality({}) = 0
    BY <1>3, FS_EmptySet DEF Within
  <2>2. Total(granted[k]) = 0 /\ counter[k].count = 0
    BY <1>1, TotalNothing DEF LimInit, NoKey
  <2>3. Cardinality(Requests) \in Nat
    BY RequestsCounted
  <2> QED BY <2>1, <2>2, <2>3, LimitsTyped DEF KeyFits
<1>7. RecordedOK
  <2>1. Adding = {} /\ Cardinality({}) = 0
    BY <1>3, FS_EmptySet DEF Adding
  <2>2. Cardinality(Requests) \in Nat
    BY RequestsCounted
  <2> QED BY <1>2, <2>1, <2>2, TotalNothing, LimitsTyped DEF RecordedOK
<1>8. RestOK
  BY DEF LimInit, RestOK, RestFits, NoKey
<1> QED BY <1>4, <1>5, <1>6, <1>7, <1>8 DEF LimInv, TypesInv

(* One request goes on.                                                    *)
LEMMA RequestGoesOn ==
  ASSUME RequestsOK, NEW r \in Requests, NEW s \in RequestRecs, KeyedOK(s), Becomes(r, s)
  PROVE  /\ RequestsOK'
         /\ request'[r] = s /\ \A q \in Requests : q # r => request'[q] = request[q]
<1>1. request'[r] = s /\ \A q \in Requests : q # r => request'[q] = request[q]
  BY DEF Becomes, RequestsOK
<1>2. request' \in [Requests -> RequestRecs]
  BY DEF Becomes, RequestsOK
<1> QED BY <1>1, <1>2 DEF RequestsOK

LEMMA Waiting ==
  ASSUME RequestsOK, NEW r \in Requests, NEW s \in RequestRecs, KeyedOK(s), Becomes(r, s), NEW k
  PROVE  /\ s.at = "within" /\ Head(s.keys) = k => Within(k)' = Within(k) \cup {r}
         /\ s.at # "within" \/ Head(s.keys) # k => Within(k)' = Within(k) \ {r}
         /\ s.at \in Midway /\ Head(s.keys) = k => r \in Using(k)'
         /\ Using(k) \ {r} \subseteq Using(k)'
<1>1. request'[r] = s /\ \A q \in Requests : q # r => request'[q] = request[q]
  BY RequestGoesOn
<1> QED BY <1>1 DEF Within, Using, Key

(* The stage that a request reaches keeps its keys.                        *)
LEMMA StageReached ==
  ASSUME RequestsOK, NEW r \in Requests, NEW stage \in Stages, Reaches(r, stage),
         stage \in Midway \cup {"count"} => request[r].keys # << >>
  PROVE  \E s \in RequestRecs : /\ KeyedOK(s) /\ Becomes(r, s)
                                /\ s.at = stage /\ s.keys = request[r].keys
<1>1. PICK s : s = [request[r] EXCEPT !.at = stage]
  OBVIOUS
<1>2. request[r] \in RequestRecs
  BY DEF RequestsOK
<1>3. s \in RequestRecs /\ s.at = stage /\ s.keys = request[r].keys
  BY <1>1, <1>2 DEF RequestRecs
<1> QED BY <1>1, <1>3 DEF Reaches, KeyedOK

LEMMA KeyOfRequest ==
  ASSUME RequestsOK, NEW r \in Requests, request[r].at \in Midway \cup {"count"}
  PROVE  Key(r) \in Keys /\ request[r].keys # << >> /\ Tail(request[r].keys) \in Seq(Keys)
<1>1. request[r] \in RequestRecs /\ request[r].keys # << >>
  BY DEF RequestsOK, KeyedOK
<1> QED BY <1>1, HeadTailProperties DEF RequestRecs, Key

-----------------------------------------------------------------------------
(* Steps of a request that use no key.                                     *)
LEMMA NoKeyUsed ==
  ASSUME TypesInv, GrantedOK, RestOK, NEW r \in Requests, request[r].at \notin Midway,
         NEW s \in RequestRecs, KeyedOK(s), s.at \notin Midway, Becomes(r, s),
         UNCHANGED <<counter, granted, rested, bare>>
  PROVE  GrantedOK' /\ RestOK' /\ RequestsOK'
<1>1. RequestsOK'
  BY RequestGoesOn DEF TypesInv
<1>2. \A k \in Keys : Within(k)' = Within(k)
  <2>1. \A k \in Keys : r \notin Within(k) /\ Within(k)' = Within(k) \ {r}
    BY Waiting DEF TypesInv, Within, Midway
  <2> QED BY <2>1
<1>3. \A k \in Keys : Using(k) # {} => Using(k)' # {}
  <2>1. \A k \in Keys : r \notin Using(k) /\ Using(k) \ {r} \subseteq Using(k)'
    BY Waiting DEF TypesInv, Using
  <2> QED BY <2>1
<1>4. GrantedOK'
  BY <1>2 DEF GrantedOK
<1>5. RestOK'
  BY <1>3 DEF RestOK, RestFits
<1> QED BY <1>1, <1>4, <1>5

LEMMA RecordedStep ==
  ASSUME TypesInv, RecordedOK, NEW r \in Requests, NEW s \in RequestRecs, KeyedOK(s),
         s.at # "add", Becomes(r, s), UNCHANGED zset
  PROVE  RecordedOK'
<1>1. request'[r] = s /\ \A q \in Requests : q # r => request'[q] = request[q]
  BY RequestGoesOn DEF TypesInv
<1>2. Adding' \subseteq Adding
  BY <1>1 DEF Adding
<1>3. Adding \in SUBSET Requests
  BY DEF Adding
<1>4. IsFiniteSet(Adding) /\ Cardinality(Adding) \in Nat /\ Cardinality(Requests) \in Nat
  BY <1>3, RequestsCounted
<1>5. Cardinality(Adding') <= Cardinality(Adding) /\ Cardinality(Adding') \in Nat
  BY <1>2, <1>4, FS_Subset, FS_CardinalityType
<1>6. Total(zset) \in Nat /\ Total(zset)' = Total(zset)
  BY MembersFinite DEF TypesInv, LimTypeOK, Counts, Total, Members
<1> QED BY <1>4, <1>5, <1>6, LimitsTyped DEF RecordedOK

(* A step that touches only the request.                                   *)
LEMMA OnlyRequest ==
  ASSUME LimInv, NEW r \in Requests, request[r].at \notin Midway,
         NEW s \in RequestRecs, KeyedOK(s), s.at \notin Midway, s.at # "add",
         Becomes(r, s), UNCHANGED <<counter, zset, unseen, granted, rested, bare>>
  PROVE  LimInv'
<1>1. GrantedOK' /\ RestOK' /\ RequestsOK' /\ RecordedOK'
  BY NoKeyUsed, RecordedStep DEF LimInv
<1>2. LimTypeOK'
  BY <1>1 DEF LimInv, TypesInv, LimTypeOK, RequestsOK, RequestRecs, Stages
<1> QED BY <1>1, <1>2 DEF LimInv, TypesInv

LEMMA LimInvMiddleware ==
  ASSUME LimInv, NEW r \in Requests, NEW c \in Clients, Middleware(r, c)
  PROVE  LimInv'
<1>1. PICK s : s = [Nobody EXCEPT !.at = "count", !.keys = KeysOf[c]]
  OBVIOUS
<1>2. KeysOf[c] \in Seq(Keys) /\ KeysOf[c] # << >>
  BY LimiterAssumption DEF LimiterAssumption, Middleware
<1>3. s = [at |-> "count", keys |-> KeysOf[c], age |-> 0]
  BY <1>1 DEF Nobody
<1>4. "count" \in Stages /\ 0 \in 0 .. Window
  BY LimitsTyped DEF Stages
<1>5. s \in RequestRecs /\ s.at = "count" /\ KeyedOK(s)
  BY <1>2, <1>3, <1>4 DEF RequestRecs, KeyedOK
<1>6. request[r].at \notin Midway
  BY NobodyTyped DEF Middleware, Midway
<1>7. Becomes(r, s) /\ UNCHANGED <<counter, zset, unseen, granted, rested, bare>>
  BY <1>1 DEF Middleware
<1>8. s.at \notin Midway /\ s.at # "add"
  BY <1>5 DEF Midway
<1> QED BY <1>5, <1>6, <1>7, <1>8, OnlyRequest

LEMMA LimInvAnswer ==
  ASSUME LimInv, NEW r \in Requests, Answer(r)
  PROVE  LimInv'
<1>1. KeyedOK(Nobody) /\ Nobody.at \notin Midway /\ Nobody.at # "add" /\ request[r].at \notin Midway
  BY NobodyTyped DEF KeyedOK, Midway, Answer
<1> QED BY <1>1, NobodyTyped, OnlyRequest DEF Answer

(* A check that is not lost has found fewer than the limit.                *)
LEMMA LimInvSlidingCheck ==
  ASSUME LimInv, NEW r \in Requests, NEW bad \in Errors, SlidingCheck(r, bad)
  PROVE  LimInv'
<1>1. PICK stage \in {"add", "blind"} : stage = IF bad THEN "blind" ELSE "add"
  OBVIOUS
<1>2. PICK s : s = [Nobody EXCEPT !.at = stage]
  OBVIOUS
<1>3. s \in RequestRecs /\ s.at = stage /\ KeyedOK(s) /\ s.at \notin Midway
  BY <1>2, NobodyTyped DEF Nobody, RequestRecs, Stages, KeyedOK, Midway
<1>4. Becomes(r, s) /\ UNCHANGED <<counter, zset, unseen, granted, rested, bare>>
  BY <1>1, <1>2 DEF SlidingCheck
<1>5. request[r].at \notin Midway
  BY NobodyTyped DEF SlidingCheck, Midway
<1>6. GrantedOK' /\ RestOK' /\ RequestsOK'
  BY <1>3, <1>4, <1>5, NoKeyUsed DEF LimInv
<1>7. LimTypeOK'
  BY <1>4, <1>6 DEF LimInv, TypesInv, LimTypeOK, RequestsOK, RequestRecs, Stages
<1>8. RecordedOK'
  <2>1. CASE stage = "blind"
    BY <1>3, <1>4, <2>1, RecordedStep DEF LimInv
  <2>2. CASE stage = "add"
    <3>1. ~(Total(zset) + Total(unseen) >= SlidingLimit)
      BY <1>1, <2>2 DEF SlidingCheck, Full
    <3>2. Adding' \in SUBSET Requests
      BY DEF Adding
    <3>3. Cardinality(Adding') <= Cardinality(Requests) /\ Cardinality(Adding') \in Nat
          /\ Cardinality(Requests) \in Nat
      BY <3>2, RequestsCounted
    <3>4. Total(zset)' = Total(zset) /\ Total(zset) \in Nat /\ Total(unseen) \in Nat
      BY <1>4, MembersFinite DEF Total, Members, LimInv, TypesInv, LimTypeOK, Counts
    <3> QED BY <3>1, <3>3, <3>4, LimitsTyped DEF RecordedOK
  <2> QED BY <2>1, <2>2
<1> QED BY <1>6, <1>7, <1>8 DEF LimInv, TypesInv

LEMMA EntryCounted ==
  ASSUME NEW f \in Counts, NEW r \in Requests
  PROVE  /\ Entered(f, r) \in Counts
         /\ Total(Entered(f, r)) \in Nat /\ Total(f) \in Nat /\ Total(Entered(f, r)) <= Total(f) + 1
<1>1. Total(f) \in Nat
  BY MembersFinite
<1>2. CASE request[r].age \in Ages
  <2>1. PICK a \in Ages : a = request[r].age
    BY <1>2
  <2>2. PICK g : g = [f EXCEPT ![a] = @ + 1]
    OBVIOUS
  <2>3. Entered(f, r) = g
    BY <2>1, <2>2 DEF Entered
  <2>4. g \in Counts /\ Total(g) = Total(f) + 1
    BY <2>2, TotalGrows
  <2> QED BY <1>1, <2>3, <2>4
<1>3. CASE request[r].age \notin Ages
  BY <1>1, <1>3 DEF Entered
<1> QED BY <1>2, <1>3

(* Recording a request moves it from those that add to those recorded.     *)
LEMMA LimInvSlidingAdd ==
  ASSUME LimInv, NEW r \in Requests, NEW bad \in Errors, SlidingAdd(r, bad)
  PROVE  LimInv'
<1>1. Becomes(r, Nobody) /\ UNCHANGED <<counter, granted, rested, bare>>
  BY DEF SlidingAdd
<1>2. KeyedOK(Nobody) /\ Nobody.at \notin Midway /\ Nobody.at # "add" /\ request[r].at \notin Midway
  BY NobodyTyped DEF KeyedOK, Midway, SlidingAdd
<1>3. GrantedOK' /\ RestOK' /\ RequestsOK'
  BY <1>1, <1>2, NobodyTyped, NoKeyUsed DEF LimInv
<1>4. zset \in Counts /\ unseen \in Counts
  BY DEF LimInv, TypesInv, LimTypeOK, Counts
<1>5. zset' = zset \/ (zset' = Entered(zset, r) /\ request[r].at = "add")
  BY DEF SlidingAdd
<1>6. unseen' = unseen \/ unseen' = Entered(unseen, r)
  BY DEF SlidingAdd
<1>7. zset' \in Counts /\ unseen' \in Counts
  BY <1>4, <1>5, <1>6, EntryCounted
<1>8. LimTypeOK'
  BY <1>1, <1>3, <1>7 DEF LimInv, TypesInv, LimTypeOK, RequestsOK, RequestRecs, Stages, Counts
<1>9. RecordedOK'
  <2>1. CASE zset' = zset
    BY <1>1, <1>2, <2>1, NobodyTyped, RecordedStep DEF LimInv
  <2>2. CASE zset' = Entered(zset, r) /\ request[r].at = "add"
    <3>1. \A q \in Requests : request'[q] = IF q = r THEN Nobody ELSE request[q]
      BY <1>1 DEF Becomes, LimInv, TypesInv, RequestsOK
    <3>2. Adding' = Adding \ {r} /\ r \in Adding /\ Adding \in SUBSET Requests
      BY <2>2, <3>1, NobodyTyped DEF Adding
    <3>3. IsFiniteSet(Adding) /\ Cardinality(Adding) \in Nat /\ Cardinality(Requests) \in Nat
      BY <3>2, RequestsCounted
    <3>4. Cardinality(Adding') = Cardinality(Adding) - 1
      BY <3>2, <3>3, FS_RemoveElement
    <3>5. Total(zset) + Cardinality(Adding) < SlidingLimit + Cardinality(Requests)
      BY DEF LimInv, RecordedOK
    <3>6. Total(zset') \in Nat /\ Total(zset) \in Nat /\ Total(zset') <= Total(zset) + 1
      BY <1>4, <2>2, EntryCounted
    <3>7. Total(zset') + Cardinality(Adding') < SlidingLimit + Cardinality(Requests)
      BY <3>3, <3>4, <3>5, <3>6, LimitsTyped
    <3> QED BY <3>7 DEF RecordedOK, Total, Members
  <2> QED BY <1>5, <2>1, <2>2
<1> QED BY <1>3, <1>8, <1>9 DEF LimInv, TypesInv

-----------------------------------------------------------------------------
(* INCR: a request within the limit counts with those the key let pass;    *)
(* a counter is never left behind by what it counts.                       *)
LEMMA LimInvIncr ==
  ASSUME LimInv, NEW r \in Requests, Incr(r)
  PROVE  LimInv'
<1>1. PICK k : k = Key(r)
  OBVIOUS
<1>2. k \in Keys /\ request[r].keys # << >> /\ request[r].at = "count"
  BY <1>1, KeyOfRequest DEF LimInv, TypesInv, Incr
<1>3. PICK stage \in Midway : stage = IF Exceeds(counter[k].count + 1, k) THEN "over" ELSE "within"
  BY DEF Midway
<1>4. PICK s \in RequestRecs : KeyedOK(s) /\ Becomes(r, s) /\ s.at = stage /\ s.keys = request[r].keys
  <2>1. Reaches(r, stage) /\ stage \in Stages
    BY <1>1, <1>3 DEF Incr, Stages
  <2> QED BY <1>2, <2>1, StageReached DEF LimInv, TypesInv
<1>5. Head(s.keys) = k
  BY <1>1, <1>4 DEF Key
<1>6. RequestsOK' /\ RecordedOK'
  <2>1. s.at # "add" /\ UNCHANGED zset
    BY <1>4 DEF Midway, Incr
  <2> QED BY <1>4, <2>1, RequestGoesOn, RecordedStep DEF LimInv, TypesInv
<1>7. counter[k] \in [count : Nat, ttl : 0 .. Never] /\ counter[k].count <= Limit[k] + 1
      /\ (counter[k].count = 0 <=> counter[k].ttl = 0)
  BY <1>2 DEF LimInv, TypesInv, LimTypeOK
<1>8. PICK n \in Nat : n = counter[k].count
  BY <1>7
<1>9. PICK lim \in Nat : lim = Limit[k]
  BY <1>2, LimitsTyped
<1>10. PICK m \in Nat : m = Capped(counter[k].count + 1, k)
  BY <1>8, <1>9 DEF Capped
<1>11. m > 0 /\ m >= n /\ m <= lim + 1 /\ (n + 1 <= lim => m = n + 1)
  BY <1>7, <1>8, <1>9, <1>10 DEF Capped
<1>12. PICK ttl \in 1 .. Never : ttl = OldTTL(k)
  BY <1>7, LimitsTyped DEF OldTTL
<1>13. PICK c : c = [count |-> m, ttl |-> ttl]
  OBVIOUS
<1>14. c \in [count : Nat, ttl : 0 .. Never] /\ c.count = m /\ c.ttl = ttl
  BY <1>13
<1>15. counter' = [counter EXCEPT ![k] = c] /\ rested' = [rested EXCEPT ![k] = 0]
       /\ UNCHANGED <<zset, unseen, granted, bare>>
  BY <1>1, <1>10, <1>12, <1>13 DEF Incr
<1>16. counter'[k] = c /\ rested'[k] = 0
       /\ \A j \in Keys : j # k => counter'[j] = counter[j] /\ rested'[j] = rested[j]
  BY <1>2, <1>15 DEF LimInv, TypesInv, LimTypeOK
<1>17. LimTypeOK'
  <2>1. counter' \in [Keys -> [count : Nat, ttl : 0 .. Never]]
    BY <1>14, <1>15 DEF LimInv, TypesInv, LimTypeOK
  <2>2. rested' \in [Keys -> 0 .. Window]
    <3>1. 0 \in 0 .. Window /\ rested \in [Keys -> 0 .. Window]
      BY LimitsTyped DEF LimInv, TypesInv, LimTypeOK
    <3> QED BY <1>15, <3>1
  <2>3. \A j \in Keys : counter'[j].count <= Limit[j] + 1 /\ (counter'[j].count = 0 <=> counter'[j].ttl = 0)
    <3> SUFFICES ASSUME NEW j \in Keys
                 PROVE  counter'[j].count <= Limit[j] + 1 /\ (counter'[j].count = 0 <=> counter'[j].ttl = 0)
      OBVIOUS
    <3>1. CASE j = k
      BY <1>9, <1>11, <1>14, <1>16, <3>1
    <3>2. CASE j # k
      BY <1>16, <3>2 DEF LimInv, TypesInv, LimTypeOK
    <3> QED BY <3>1, <3>2
  <2>4. \A q \in Requests : request'[q].at \in Stages
    BY <1>6 DEF RequestsOK, RequestRecs
  <2> QED BY <1>15, <2>1, <2>2, <2>3, <2>4 DEF LimInv, TypesInv, LimTypeOK, Stages
<1>18. ASSUME NEW j \in Keys, j # k
       PROVE  KeyFits(j, counter[j], granted[j], Cardinality(Within(j)))'
  <2>1. r \notin Within(j) /\ Within(j)' = Within(j) \ {r}
    BY <1>2, <1>4, <1>5, <1>18, Waiting DEF LimInv, TypesInv, Within
  <2>2. Within(j)' = Within(j)
    BY <2>1
  <2>3. KeyFits(j, counter[j], granted[j], Cardinality(Within(j)))
    BY DEF LimInv, GrantedOK
  <2> QED BY <1>15, <1>16, <1>18, <2>2, <2>3 DEF KeyFits, Total, Members
<1>19. KeyFits(k, counter[k], granted[k], Cardinality(Within(k)))'
  <2>1. PICK w \in Nat : w = Cardinality(Within(k))
    BY RequestsCounted DEF Within
  <2>2. PICK t \in Nat : t = Total(granted[k])
    BY <1>2, MembersFinite DEF LimInv, TypesInv, LimTypeOK, Counts
  <2>3. PICK all \in Nat : all = Cardinality(Requests)
    BY RequestsCounted
  <2>4. /\ t + w <= lim + all /\ t + w <= n + all
        /\ n > 0 => \A a \in Ages : granted[k][a] > 0 => a + counter[k].ttl >= Window
    BY <1>2, <1>8, <1>9, <2>1, <2>2, <2>3 DEF LimInv, GrantedOK, KeyFits
  <2>5. PICK v : v = Cardinality(Within(k)')
    OBVIOUS
  <2>6. v \in Nat /\ t + v <= lim + all /\ t + v <= m + all
    <3>1. r \notin Within(k) /\ IsFiniteSet(Within(k))
      BY <1>2, RequestsCounted DEF Within
    <3>2. CASE stage = "over"
      <4>1. Within(k)' = Within(k) \ {r}
        BY <1>4, <3>2, Waiting DEF LimInv, TypesInv
      <4>2. v = w
        BY <2>1, <2>5, <3>1, <4>1
      <4> QED BY <1>11, <2>4, <4>2
    <3>3. CASE stage = "within"
      <4>1. Within(k)' = Within(k) \cup {r}
        BY <1>4, <1>5, <3>3, Waiting DEF LimInv, TypesInv
      <4>2. v = w + 1
        BY <2>1, <2>5, <3>1, <4>1, FS_AddElement
      <4>3. n + 1 <= lim
        BY <1>3, <1>8, <1>9, <3>3 DEF Exceeds
      <4> QED BY <1>11, <2>4, <4>2, <4>3
    <3> QED BY <3>2, <3>3 DEF Midway
  <2>7. ASSUME NEW a \in Ages, granted[k][a] > 0 PROVE a + ttl >= Window
    <3>1. CASE n = 0
      <4>1. ttl = Never
        BY <1>8, <1>12, <3>1 DEF OldTTL
      <4> QED BY <4>1, LimitsTyped
    <3>2. CASE n > 0
      <4>1. ttl = counter[k].ttl
        BY <1>8, <1>12, <3>2 DEF OldTTL
      <4> QED BY <2>4, <2>7, <3>2, <4>1
    <3> QED BY <3>1, <3>2
  <2>8. KeyFits(k, c, granted[k], v)
    BY <1>9, <1>14, <2>2, <2>3, <2>6, <2>7 DEF KeyFits
  <2> QED BY <1>15, <1>16, <2>5, <2>8 DEF KeyFits, Total, Members
<1>20. GrantedOK'
  BY <1>18, <1>19 DEF GrantedOK
<1>21. RestOK'
  <2> SUFFICES ASSUME NEW j \in Keys
               PROVE  RestFits(j, counter[j], rested[j], Using(j) # {} \/ j \in bare)'
    BY DEF RestOK
  <2>1. RestFits(j, counter[j], rested[j], Using(j) # {} \/ j \in bare)
    BY DEF LimInv, RestOK
  <2>2. CASE j # k
    <3>1. r \notin Using(j) /\ Using(j) \ {r} \subseteq Using(j)'
      BY <1>2, <1>4, Waiting DEF LimInv, TypesInv, Using, Midway
    <3> QED BY <1>15, <1>16, <2>1, <2>2, <3>1 DEF RestFits
  <2>3. CASE j = k
    <3>1. r \in Using(k)'
      BY <1>4, <1>5, Waiting DEF LimInv, TypesInv
    <3>2. ttl = Never \/ ttl <= Window
      BY LimitsTyped
    <3>3. ttl \in Nat /\ rested'[k] + ttl = ttl
      BY <1>16, LimitsTyped
    <3>4. c.ttl = Never \/ (c.ttl # Never /\ rested'[k] + c.ttl <= Window)
      BY <1>14, <3>2, <3>3
    <3> QED BY <1>16, <2>3, <3>1, <3>4 DEF RestFits
  <2> QED BY <2>2, <2>3
<1> QED BY <1>6, <1>17, <1>20, <1>21 DEF LimInv, TypesInv

(* What the end of a pipeline leaves of a key: the counter with its old    *)
(* expiry or a new one.                                                    *)
Ended(k) ==
  \/ /\ UNCHANGED <<counter, rested>>
     /\ \/ bare' = bare /\ counter[k].count = 0
        \/ bare' = IF counter[k].ttl = Never THEN bare \cup {k} ELSE bare
  \/ /\ counter[k].count # 0
     /\ counter' = [counter EXCEPT ![k].ttl = Window]
     /\ rested' = [rested EXCEPT ![k] = 0]
     /\ bare' = bare \ {k}

LEMMA ExpireEnds ==
  ASSUME NEW r \in Requests, Expire(r)
  PROVE  Ended(Key(r))
BY DEF Expire, ExpireTTL, Ended

(* A request leaves the pipeline; if its key lets it pass, it is counted   *)
(* among those it let pass from now on.                                    *)
LEMMA PipelineEnds ==
  ASSUME LimInv, NEW r \in Requests, request[r].at \in Midway, Ended(Key(r)),
         NEW s \in RequestRecs, KeyedOK(s), s.at \notin Midway, s.at # "add", Becomes(r, s),
         UNCHANGED <<zset, unseen>>,
         \/ granted' = granted
         \/ /\ request[r].at = "within" /\ Expire(r)
            /\ granted' = [granted EXCEPT ![Key(r)][0] = @ + 1]
  PROVE  LimInv'
<1>1. PICK k : k = Key(r)
  OBVIOUS
<1>2. k \in Keys
  BY <1>1, KeyOfRequest DEF LimInv, TypesInv
<1>3. RequestsOK' /\ RecordedOK'
  BY RequestGoesOn, RecordedStep DEF LimInv, TypesInv
<1>4. counter[k] \in [count : Nat, ttl : 0 .. Never] /\ (counter[k].count = 0 <=> counter[k].ttl = 0)
      /\ counter[k].count <= Limit[k] + 1
  BY <1>2 DEF LimInv, TypesInv, LimTypeOK
<1>5. PICK n \in Nat : n = counter[k].count
  BY <1>4
<1>6. PICK ttl \in 0 .. Never : ttl = IF counter' = counter THEN counter[k].ttl ELSE Window
  BY <1>4, LimitsTyped
<1>7. PICK c : c = [count |-> n, ttl |-> ttl]
  OBVIOUS
<1>8. c \in [count : Nat, ttl : 0 .. Never] /\ c.count = n /\ c.ttl = ttl
  BY <1>7
<1>9. counter' = [counter EXCEPT ![k] = c]
  <2>1. CASE counter' = counter
    <3>1. counter[k] = c
      BY <1>4, <1>5, <1>6, <1>7, <2>1
    <3> QED BY <1>2, <2>1, <3>1 DEF LimInv, TypesInv, LimTypeOK
  <2>2. CASE counter' # counter
    <3>1. counter' = [counter EXCEPT ![k].ttl = Window]
      BY <1>1, <2>2 DEF Ended
    <3>2. [counter[k] EXCEPT !.ttl = Window] = c
      BY <1>4, <1>5, <1>6, <1>7, <2>2
    <3> QED BY <1>2, <3>1, <3>2 DEF LimInv, TypesInv, LimTypeOK
  <2> QED BY <2>1, <2>2
<1>10. counter'[k] = c /\ \A j \in Keys : j # k => counter'[j] = counter[j]
  BY <1>2, <1>9 DEF LimInv, TypesInv, LimTypeOK
<1>11. rested' \in [Keys -> 0 .. Window] /\ bare' \subseteq Keys
       /\ \A j \in Keys : j # k => rested'[j] = rested[j] /\ (j \in bare => j \in bare')
  BY <1>1, <1>2, LimitsTyped DEF Ended, LimInv, TypesInv, LimTypeOK
<1>12. PICK g : g = granted'[k]
  OBVIOUS
<1>13. granted \in [Keys -> Counts]
  BY DEF LimInv, TypesInv, LimTypeOK, Counts
<1>14. \/ g = granted[k]
       \/ g = [granted[k] EXCEPT ![0] = @ + 1] /\ request[r].at = "within" /\ Expire(r)
  BY <1>1, <1>2, <1>12, <1>13
<1>15. g \in Counts
  BY <1>2, <1>13, <1>14, TotalGrows, LimitsTyped
<1>16. granted' \in [Keys -> Counts] /\ \A j \in Keys : j # k => granted'[j] = granted[j]
  BY <1>1, <1>2, <1>12, <1>13, <1>15
<1>17. LimTypeOK'
  <2>1. counter' \in [Keys -> [count : Nat, ttl : 0 .. Never]]
    BY <1>8, <1>9 DEF LimInv, TypesInv, LimTypeOK
  <2>2. \A j \in Keys : counter'[j].count <= Limit[j] + 1 /\ (counter'[j].count = 0 <=> counter'[j].ttl = 0)
    <3> SUFFICES ASSUME NEW j \in Keys
                 PROVE  counter'[j].count <= Limit[j] + 1 /\ (counter'[j].count = 0 <=> counter'[j].ttl = 0)
      OBVIOUS
    <3>1. CASE j = k
      <4>1. n = 0 <=> ttl = 0
        <5>1. CASE counter' = counter
          BY <1>4, <1>5, <1>6, <5>1
        <5>2. CASE counter' # counter
          <6>1. counter[k].count # 0
            BY <1>1, <5>2 DEF Ended
          <6> QED BY <1>5, <1>6, <5>2, <6>1, LimitsTyped
        <5> QED BY <5>1, <5>2
      <4> QED BY <1>4, <1>5, <1>8, <1>10, <3>1, <4>1
    <3>2. CASE j # k
      BY <1>10, <3>2 DEF LimInv, TypesInv, LimTypeOK
    <3> QED BY <3>1, <3>2
  <2>3. \A q \in Requests : request'[q].at \in Stages
    BY <1>3 DEF RequestsOK, RequestRecs
  <2>4. zset' \in [Ages -> Nat] /\ unseen' \in [Ages -> Nat]
    BY DEF LimInv, TypesInv, LimTypeOK
  <2>5. granted' \in [Keys -> [Ages -> Nat]]
    BY <1>16 DEF Counts
  <2>6. rested' \in [Keys -> 0 .. Window] /\ bare' \subseteq Keys
    BY <1>11
  <2> QED BY <2>1, <2>2, <2>3, <2>4, <2>5, <2>6 DEF LimTypeOK, Stages
<1>18. \A j \in Keys : Within(j)' = Within(j) \ {r}
  BY Waiting DEF LimInv, TypesInv, Midway
<1>19. ASSUME NEW j \in Keys, j # k
       PROVE  KeyFits(j, counter[j], granted[j], Cardinality(Within(j)))'
  <2>1. r \notin Within(j)
    BY <1>1, <1>19 DEF Within
  <2>2. Within(j)' = Within(j)
    BY <1>18, <2>1
  <2>3. KeyFits(j, counter[j], granted[j], Cardinality(Within(j)))
    BY DEF LimInv, GrantedOK
  <2>4. counter'[j] = counter[j] /\ granted'[j] = granted[j]
    BY <1>10, <1>16, <1>19
  <2>5. KeyFits(j, counter'[j], granted'[j], Cardinality(Within(j)'))
    BY <2>2, <2>3, <2>4
  <2> QED BY <2>5 DEF KeyFits, Total, Members
<1>20. KeyFits(k, counter[k], granted[k], Cardinality(Within(k)))'
  <2>1. PICK w \in Nat : w = Cardinality(Within(k))
    BY RequestsCounted DEF Within
  <2>2. PICK t \in Nat : t = Total(granted[k])
    BY <1>2, MembersFinite DEF LimInv, TypesInv, LimTypeOK, Counts
  <2>3. PICK all \in Nat : all = Cardinality(Requests)
    BY RequestsCounted
  <2>4. PICK lim \in Nat : lim = Limit[k]
    BY <1>2, LimitsTyped
  <2>5. /\ t + w <= lim + all /\ t + w <= n + all
        /\ n > 0 => \A a \in Ages : granted[k][a] > 0 => a + counter[k].ttl >= Window
    BY <1>2, <1>5, <2>1, <2>2, <2>3, <2>4 DEF LimInv, GrantedOK, KeyFits
  <2>6. PICK v : v = Cardinality(Within(k)')
    OBVIOUS
  <2>7. v \in Nat /\ v <= w /\ (request[r].at = "within" => v = w - 1)
    <3>1. IsFiniteSet(Within(k)) /\ (request[r].at = "within" => r \in Within(k))
      BY <1>1, RequestsCounted DEF Within
    <3>2. Within(k)' = Within(k) \ {r}
      BY <1>2, <1>18
    <3>3. Cardinality(Within(k) \ {r}) \in Nat /\ Cardinality(Within(k) \ {r}) <= w
          /\ (r \in Within(k) => Cardinality(Within(k) \ {r}) = w - 1)
      BY <2>1, <3>1, FS_Subset, FS_CardinalityType, FS_RemoveElement
    <3> QED BY <2>6, <3>1, <3>2, <3>3
  <2>8. Total(g) \in Nat /\ Total(g) + v <= t + w
    <3>1. CASE g = granted[k]
      BY <2>1, <2>2, <2>7, <3>1
    <3>2. CASE g = [granted[k] EXCEPT ![0] = @ + 1] /\ request[r].at = "within"
      <4>1. Total(g) = t + 1
        BY <1>2, <1>13, <2>2, <3>2, TotalGrows, LimitsTyped
      <4> QED BY <2>1, <2>2, <2>7, <3>2, <4>1
    <3> QED BY <1>14, <3>1, <3>2
  <2>9. ASSUME n > 0, NEW a \in Ages, g[a] > 0 PROVE a + ttl >= Window
    <3>1. CASE g = granted[k]
      <4>1. CASE counter' = counter
        BY <1>6, <2>5, <2>9, <3>1, <4>1
      <4>2. CASE counter' # counter
        BY <1>6, <4>2, LimitsTyped
      <4> QED BY <4>1, <4>2
    <3>2. CASE Expire(r)
      <4>1. counter' = [counter EXCEPT ![k].ttl = Window]
        BY <1>1, <1>5, <2>9, <3>2 DEF Expire, ExpireTTL
      <4>2. counter'[k].ttl = Window
        BY <1>2, <4>1 DEF LimInv, TypesInv, LimTypeOK
      <4>3. ttl = Window
        BY <1>8, <1>10, <4>2
      <4> QED BY <4>3, LimitsTyped
    <3> QED BY <1>14, <3>1, <3>2
  <2>10. KeyFits(k, c, g, v)
    BY <1>8, <2>3, <2>4, <2>5, <2>7, <2>8, <2>9 DEF KeyFits
  <2> QED BY <1>10, <1>12, <2>6, <2>10 DEF KeyFits, Total, Members
<1>21. GrantedOK'
  BY <1>19, <1>20 DEF GrantedOK
<1>22. RestOK'
  <2> SUFFICES ASSUME NEW j \in Keys
               PROVE  RestFits(j, counter[j], rested[j], Using(j) # {} \/ j \in bare)'
    BY DEF RestOK
  <2>1. RestFits(j, counter[j], rested[j], Using(j) # {} \/ j \in bare)
    BY DEF LimInv, RestOK
  <2>2. CASE j # k
    <3>1. r \notin Using(j) /\ Using(j) \ {r} \subseteq Using(j)'
      BY <1>1, <2>2, Waiting DEF LimInv, TypesInv, Using
    <3> QED BY <1>10, <1>11, <2>1, <2>2, <3>1 DEF RestFits
  <2>3. CASE j = k
    <3>1. CASE UNCHANGED <<counter, rested>> /\ bare' = bare /\ counter[k].count = 0
      BY <2>3, <3>1 DEF RestFits
    <3>2. CASE UNCHANGED <<counter, rested>>
               /\ bare' = IF counter[k].ttl = Never THEN bare \cup {k} ELSE bare
      BY <2>1, <2>3, <3>2 DEF RestFits
    <3>3. CASE counter' = [counter EXCEPT ![k].ttl = Window] /\ rested' = [rested EXCEPT ![k] = 0]
      <4>1. counter'[k].ttl = Window /\ rested'[k] = 0
        BY <1>2, <3>3 DEF LimInv, TypesInv, LimTypeOK
      <4>2. counter'[k].ttl # Never /\ rested'[k] + counter'[k].ttl <= Window
        BY <4>1, LimitsTyped
      <4> QED BY <2>3, <4>2 DEF RestFits
    <3> QED BY <1>1, <3>1, <3>2, <3>3 DEF Ended
  <2> QED BY <2>2, <2>3
<1> QED BY <1>3, <1>17, <1>21, <1>22 DEF LimInv, TypesInv

LEMMA LimInvCounted ==
  ASSUME LimInv, NEW r \in Requests, Counted(r)
  PROVE  LimInv'
<1>1. PICK rest : rest = Tail(request[r].keys)
  OBVIOUS
<1>2. rest \in Seq(Keys) /\ request[r] \in RequestRecs
  BY <1>1, KeyOfRequest DEF LimInv, TypesInv, RequestsOK, Counted
<1>3. Ended(Key(r)) /\ request[r].at \in Midway /\ Expire(r) /\ UNCHANGED <<zset, unseen>>
  BY ExpireEnds DEF Counted
<1>4. CASE request[r].at = "over"
  <2>1. Reaches(r, "limited") /\ granted' = granted
    BY <1>4 DEF Counted
  <2>2. PICK s \in RequestRecs : KeyedOK(s) /\ Becomes(r, s) /\ s.at = "limited"
    BY <2>1, StageReached DEF LimInv, TypesInv, Stages, Midway
  <2>3. s.at \notin Midway /\ s.at # "add"
    BY <2>2 DEF Midway
  <2> QED BY <1>3, <2>1, <2>2, <2>3, PipelineEnds
<1>5. CASE request[r].at = "within"
  <2>1. PICK stage \in {"handled", "count"} : stage = IF rest = << >> THEN "handled" ELSE "count"
    OBVIOUS
  <2>2. PICK s : s = [request[r] EXCEPT !.at = stage, !.keys = rest]
    OBVIOUS
  <2>3. s \in RequestRecs /\ s.at = stage /\ s.keys = rest
    BY <1>2, <2>1, <2>2 DEF RequestRecs, Stages
  <2>4. KeyedOK(s) /\ s.at \notin Midway /\ s.at # "add"
    BY <2>1, <2>3 DEF KeyedOK, Midway
  <2>5. Becomes(r, s) /\ granted' = [granted EXCEPT ![Key(r)][0] = @ + 1]
    BY <1>1, <1>5, <2>1, <2>2 DEF Counted
  <2> QED BY <1>3, <1>5, <2>3, <2>4, <2>5, PipelineEnds
<1> QED BY <1>3, <1>4, <1>5 DEF Midway

LEMMA LimInvFailed ==
  ASSUME LimInv, NEW r \in Requests, NEW reply \in Replies, Failed(r, reply)
  PROVE  LimInv'
<1>1. PICK stage \in {"count", "failed"} : Reaches(r, stage)
  BY DEF Failed
<1>2. request[r].keys # << >>
  BY KeyOfRequest DEF LimInv, TypesInv, Failed
<1>3. stage \in Stages
  BY DEF Stages
<1>4. PICK s \in RequestRecs : KeyedOK(s) /\ Becomes(r, s) /\ s.at = stage
  BY <1>1, <1>2, <1>3, StageReached DEF LimInv, TypesInv
<1>5. s.at \notin Midway /\ s.at # "add" /\ UNCHANGED <<zset, unseen, granted>>
  BY <1>4 DEF Midway, Failed
<1>6. CASE request[r].at = "count" /\ UNCHANGED <<counter, rested, bare>>
  <2>1. request[r].at \notin Midway
    BY <1>6 DEF Midway
  <2> QED BY <1>4, <1>5, <1>6, <2>1, OnlyRequest
<1>7. CASE request[r].at \in Midway /\ Expire(r)
  BY <1>4, <1>5, <1>7, ExpireEnds, PipelineEnds
<1>8. CASE request[r].at \in Midway /\ UNCHANGED <<counter, rested>>
           /\ bare' = IF counter[Key(r)].ttl = Never THEN bare \cup {Key(r)} ELSE bare
  <2>1. Ended(Key(r))
    BY <1>8 DEF Ended
  <2> QED BY <1>4, <1>5, <1>8, <2>1, PipelineEnds
<1> QED BY <1>6, <1>7, <1>8 DEF Failed
(* Time passes: a key expires when all that it let pass has left the       *)
(* window; only requests that found it before can then pass uncounted.     *)
LEMMA LimInvTick == ASSUME LimInv, Tick PROVE LimInv'
<1>1. Window \in Nat \ {0}
  BY LimitsTyped
<1>2. ASSUME NEW k \in Keys
      PROVE  /\ counter'[k] \in [count : Nat, ttl : 0 .. Never]
             /\ counter'[k].count <= Limit[k] + 1 /\ (counter'[k].count = 0 <=> counter'[k].ttl = 0)
             /\ counter[k].ttl = Never => counter'[k] = counter[k]
             /\ counter[k].ttl \in {0, 1} => counter'[k] = NoKey
             /\ counter[k].ttl \notin {0, 1, Never} =>
                  counter'[k].count = counter[k].count /\ counter'[k].ttl = counter[k].ttl - 1
  <2>1. counter[k] \in [count : Nat, ttl : 0 .. Never] /\ counter[k].count <= Limit[k] + 1
        /\ (counter[k].count = 0 <=> counter[k].ttl = 0) /\ Limit[k] \in Nat
    BY LimitsTyped DEF LimInv, TypesInv, LimTypeOK
  <2>2. counter'[k] = CASE counter[k].ttl = Never -> counter[k]
                        [] counter[k].ttl \in {0, 1} -> NoKey
                        [] OTHER -> [counter[k] EXCEPT !.ttl = @ - 1]
    BY DEF Tick
  <2>3. CASE counter[k].ttl = Never
    BY <1>1, <2>1, <2>2, <2>3 DEF Never
  <2>4. CASE counter[k].ttl \in {0, 1}
    <3>1. counter'[k] = NoKey
      BY <1>1, <2>1, <2>2, <2>4 DEF Never
    <3> QED BY <1>1, <2>1, <2>4, <3>1 DEF NoKey, Never
  <2>5. CASE counter[k].ttl \notin {0, 1, Never}
    <3>1. PICK t : t = counter[k].ttl - 1
      OBVIOUS
    <3>2. t \in 1 .. Never
      BY <1>1, <2>1, <2>5, <3>1 DEF Never
    <3>3. counter'[k] = [counter[k] EXCEPT !.ttl = t]
      BY <2>2, <2>5, <3>1
    <3> QED BY <2>1, <2>5, <3>1, <3>2, <3>3
  <2> QED BY <2>3, <2>4, <2>5
<1>3. zset \in Counts /\ unseen \in Counts /\ zset' = Older(zset) /\ unseen' = Older(unseen)
  BY DEF LimInv, TypesInv, LimTypeOK, Counts, Tick
<1>4. ASSUME NEW k \in Keys PROVE granted[k] \in Counts /\ granted'[k] = Older(granted[k])
  BY DEF LimInv, TypesInv, LimTypeOK, Counts, Tick
<1>5. ASSUME NEW k \in Keys PROVE rested'[k] = Older1(rested[k]) /\ rested[k] \in 0 .. Window
  BY DEF LimInv, TypesInv, LimTypeOK, Tick
<1>6. RequestsOK' /\ \A r \in Requests : request'[r].at = request[r].at /\ request'[r].keys = request[r].keys
  <2>1. ASSUME NEW r \in Requests
        PROVE  /\ request'[r] \in RequestRecs /\ request'[r].at = request[r].at
               /\ request'[r].keys = request[r].keys
    <3>1. request[r] \in RequestRecs
      BY DEF LimInv, TypesInv, RequestsOK
    <3>2. PICK older : older = Older1(request[r].age)
      OBVIOUS
    <3>3. older \in 0 .. Window
      BY <1>1, <3>1, <3>2 DEF Older1, RequestRecs
    <3>4. request'[r] = request[r] \/ request'[r] = [request[r] EXCEPT !.age = older]
      BY <3>2 DEF Tick
    <3> QED BY <3>1, <3>3, <3>4 DEF RequestRecs
  <2>2. request' \in [Requests -> RequestRecs]
    BY <2>1 DEF Tick
  <2>3. RequestsOK'
    BY <2>1, <2>2 DEF LimInv, TypesInv, RequestsOK, KeyedOK
  <2> QED BY <2>1, <2>3
<1>7. Adding' = Adding /\ \A k : Within(k)' = Within(k) /\ Using(k)' = Using(k)
  BY <1>6 DEF Adding, Within, Using, Key
<1>8. LimTypeOK'
  <2>1. counter' \in [Keys -> [count : Nat, ttl : 0 .. Never]]
    BY <1>2 DEF Tick
  <2>2. zset' \in [Ages -> Nat] /\ unseen' \in [Ages -> Nat]
    BY <1>3, OlderType DEF Counts
  <2>3. granted' \in [Keys -> [Ages -> Nat]]
    BY <1>4, OlderType DEF Counts, Tick
  <2>4. rested' \in [Keys -> 0 .. Window] /\ bare' \subseteq Keys
    BY <1>1, <1>5 DEF Tick, Older1, LimInv, TypesInv, LimTypeOK
  <2>5. \A r \in Requests : request'[r].at \in Stages
    BY <1>6 DEF RequestsOK, RequestRecs
  <2> QED BY <1>2, <2>1, <2>2, <2>3, <2>4, <2>5 DEF LimTypeOK, Stages
<1>9. GrantedOK'
  <2> SUFFICES ASSUME NEW k \in Keys
               PROVE  KeyFits(k, counter[k], granted[k], Cardinality(Within(k)))'
    BY DEF GrantedOK
  <2>1. PICK w \in Nat : w = Cardinality(Within(k))
    BY RequestsCounted DEF Within
  <2>2. PICK t \in Nat : t = Total(granted[k])
    BY <1>4, MembersFinite
  <2>3. PICK all \in Nat : all = Cardinality(Requests)
    BY RequestsCounted
  <2>4. PICK lim \in Nat : lim = Limit[k]
    BY LimitsTyped
  <2>5. PICK ttl \in 0 .. Never : ttl = counter[k].ttl
    BY DEF LimInv, TypesInv, LimTypeOK
  <2>6. PICK n \in Nat : n = counter[k].count
    BY DEF LimInv, TypesInv, LimTypeOK
  <2>7. /\ t + w <= lim + all /\ t + w <= n + all /\ (n = 0 <=> ttl = 0)
        /\ n > 0 => \A a \in Ages : granted[k][a] > 0 => a + ttl >= Window
    BY <2>1, <2>2, <2>3, <2>4, <2>5, <2>6 DEF LimInv, TypesInv, LimTypeOK, GrantedOK, KeyFits
  <2>8. PICK g : g = granted'[k]
    OBVIOUS
  <2>9. g \in Counts /\ Total(g) \in Nat /\ Total(g) <= t
    BY <1>4, <2>2, <2>8, OlderType, TotalAges, MembersFinite
  <2>10. ASSUME n > 0, NEW a \in Ages, g[a] > 0
         PROVE  a - 1 \in Nat /\ a < Window /\ a - 1 + ttl >= Window
    <3>1. a # 0 /\ a - 1 \in Ages /\ granted[k][a - 1] > 0
      BY <1>4, <2>8, <2>10, OlderType
    <3>2. a - 1 + ttl >= Window
      BY <2>7, <2>10, <3>1
    <3> QED BY <1>1, <3>1, <3>2 DEF Ages
  <2>11. w <= all
    BY <2>1, <2>3, RequestsCounted DEF Within
  <2>12. KeyFits(k, counter'[k], g, w)
    <3>1. CASE ttl = 0
      <4>1. counter'[k] = NoKey /\ n = 0
        BY <1>2, <2>5, <2>7, <3>1
      <4> QED BY <2>3, <2>4, <2>6, <2>7, <2>9, <4>1 DEF KeyFits, NoKey
    <3>2. CASE ttl = 1
      <4>0. counter[k].ttl \in {0, 1}
        BY <2>5, <3>2
      <4>1. n > 0 /\ counter'[k] = NoKey
        <5>1. counter'[k] = NoKey
          BY <1>2, <4>0
        <5>2. n # 0
          BY <2>7, <3>2
        <5> QED BY <5>1, <5>2
      <4>2. \A a \in Ages : g[a] = 0
        <5> SUFFICES ASSUME NEW a \in Ages, g[a] # 0 PROVE FALSE
          OBVIOUS
        <5>1. g[a] > 0
          BY <2>9 DEF Counts
        <5>2. a - 1 \in Nat /\ a < Window /\ a - 1 + 1 >= Window
          BY <2>10, <3>2, <4>1, <5>1
        <5> QED BY <1>1, <5>2, LimitsTyped
      <4>3. Total(g) = 0
        BY <2>9, <4>2, TotalNothing
      <4> QED BY <2>3, <2>4, <2>11, <4>1, <4>3 DEF KeyFits, NoKey
    <3>3. CASE ttl \notin {0, 1}
      <4>1. counter'[k].count = n /\ (counter'[k].ttl = ttl \/ counter'[k].ttl = ttl - 1)
        BY <1>2, <2>5, <2>6, <3>3
      <4>2. ASSUME n > 0, NEW a \in Ages, g[a] > 0 PROVE a + counter'[k].ttl >= Window
        <5>1. a - 1 \in Nat /\ a - 1 + ttl >= Window
          BY <2>10, <4>2
        <5> QED BY <1>1, <4>1, <5>1, LimitsTyped
      <4>3. Total(g) + w <= lim + all /\ Total(g) + w <= n + all
        BY <2>7, <2>9
      <4> QED BY <2>3, <2>4, <4>1, <4>2, <4>3 DEF KeyFits
    <3> QED BY <3>1, <3>2, <3>3
  <2>13. Cardinality(Within(k)') = w
    <3>1. Within(k)' = Within(k)
      BY <1>7
    <3> QED BY <2>1, <3>1
  <2>14. KeyFits(k, counter'[k], granted'[k], Cardinality(Within(k)'))
    BY <2>8, <2>12, <2>13
  <2> QED BY <2>14 DEF KeyFits, Total, Members
<1>10. RecordedOK'
  <2>1. Total(zset) + Cardinality(Adding) < SlidingLimit + Cardinality(Requests)
    BY DEF LimInv, RecordedOK
  <2>2. Total(zset') \in Nat /\ Total(zset) \in Nat /\ Total(zset') <= Total(zset)
    BY <1>3, OlderType, TotalAges, MembersFinite
  <2>3. Cardinality(Adding) \in Nat /\ Cardinality(Requests) \in Nat
    BY RequestsCounted DEF Adding
  <2>4. Total(zset') + Cardinality(Adding') < SlidingLimit + Cardinality(Requests)
    BY <1>7, <2>1, <2>2, <2>3, LimitsTyped
  <2> QED BY <2>4 DEF RecordedOK, Total, Members
<1>11. RestOK'
  <2> SUFFICES ASSUME NEW k \in Keys
               PROVE  RestFits(k, counter[k], rested[k], Using(k) # {} \/ k \in bare)'
    BY DEF RestOK
  <2>1. RestFits(k, counter[k], rested[k], Using(k) # {} \/ k \in bare)
        /\ counter[k].ttl \in 0 .. Never /\ rested[k] \in 0 .. Window
        /\ (counter[k].count = 0 <=> counter[k].ttl = 0)
    BY DEF LimInv, RestOK, TypesInv, LimTypeOK
  <2>2. rested'[k] = IF rested[k] < Window THEN rested[k] + 1 ELSE Window
    BY <1>5 DEF Older1
  <2>3. bare' = bare
    BY DEF Tick
  <2>4. CASE counter[k].ttl = Never
    BY <1>2, <1>7, <2>1, <2>3, <2>4, LimitsTyped DEF RestFits
  <2>5. CASE counter[k].ttl \in {0, 1}
    BY <1>2, <2>5 DEF RestFits, NoKey
  <2>6. CASE counter[k].ttl \notin {0, 1, Never}
    <3>1. counter'[k].ttl = counter[k].ttl - 1
      BY <1>2, <2>6
    <3>2. rested[k] + counter[k].ttl <= Window /\ counter[k].ttl > 0
      BY <2>1, <2>6, LimitsTyped DEF RestFits
    <3>3. counter'[k].ttl # Never /\ rested'[k] + counter'[k].ttl <= Window
      BY <2>1, <2>2, <3>1, <3>2, LimitsTyped
    <3> QED BY <3>3 DEF RestFits
  <2> QED BY <2>4, <2>5, <2>6
<1> QED BY <1>6, <1>8, <1>9, <1>10, <1>11 DEF LimInv, TypesInv

LEMMA LimInvStutters == ASSUME LimInv, UNCHANGED limVars PROVE LimInv'
<1>1. UNCHANGED <<counter, zset, unseen, request, granted, rested, bare>>
  BY DEF limVars
<1>2. TypesInv'
  BY <1>1 DEF LimInv, TypesInv, LimTypeOK, RequestsOK
<1>3. GrantedOK'
  BY <1>1 DEF LimInv, GrantedOK, KeyFits, Within, Key, Total, Members
<1>4. RecordedOK'
  BY <1>1 DEF LimInv, RecordedOK, Adding, Total, Members
<1>5. RestOK'
  BY <1>1 DEF LimInv, RestOK, RestFits, Using, Key
<1> QED BY <1>2, <1>3, <1>4, <1>5 DEF LimInv

(* Every step of the limiters keeps their inductive invariant.             *)
THEOREM LimInvStep == LimInv /\ [LimNext]_limVars => LimInv'
<1> SUFFICES ASSUME LimInv, [LimNext]_limVars PROVE LimInv'
  OBVIOUS
<1>1. ASSUME NEW r \in Requests, Answer(r) PROVE LimInv'
  BY <1>1, LimInvAnswer
<1>2. ASSUME NEW r \in Requests, NEW c \in Clients, Middleware(r, c) PROVE LimInv'
  BY <1>2, LimInvMiddleware
<1>3. ASSUME NEW r \in Requests, Incr(r) PROVE LimInv'
  BY <1>3, LimInvIncr
<1>4. ASSUME NEW r \in Requests, Counted(r) PROVE LimInv'
  BY <1>4, LimInvCounted
<1>5. ASSUME NEW r \in Requests, NEW reply \in Replies, Failed(r, reply) PROVE LimInv'
  BY <1>5, LimInvFailed
<1>6. ASSUME NEW r \in Requests, NEW bad \in Errors, SlidingCheck(r, bad) PROVE LimInv'
  BY <1>6, LimInvSlidingCheck
<1>7. ASSUME NEW r \in Requests, NEW bad \in Errors, SlidingAdd(r, bad) PROVE LimInv'
  BY <1>7, LimInvSlidingAdd
<1>8. CASE Tick
  BY <1>8, LimInvTick
<1>9. CASE UNCHANGED limVars
  BY <1>9, LimInvStutters
<1> QED BY <1>1, <1>2, <1>3, <1>4, <1>5, <1>6, <1>7, <1>8, <1>9 DEF LimNext, KeysNext, SlidingNext

(* The inductive invariant of the limiters: what a key let pass and is     *)
(* about to let pass is counted, but for those that found an earlier       *)
(* counter, and expires with its counter; what is admitted on a count is   *)
(* recorded or about to be.                                                *)
THEOREM LimInvariant == LimSpec => []LimInv
<1>1. LimInit => LimInv
  BY LimInvInit
<1> QED BY <1>1, LimInvStep, PTL DEF LimSpec

(* Every request is at a stage of its limiter, and no counter or record is *)
(* out of its range.                                                       *)
THEOREM LimiterTypes == LimSpec => []LimTypeOK
<1>1. LimInv => LimTypeOK
  BY DEF LimInv, TypesInv
<1> QED BY <1>1, LimInvariant, PTL

(* No key lets more pass in a window than its limit and one more for each  *)
(* request that can be between INCR and EXPIRE (IncrementRateLimit); and   *)
(* what the second limiter admits on a count and records exceeds its limit *)
(* by fewer requests than are in progress.  Neither needs that any command *)
(* of Redis succeeds.                                                      *)
THEOREM LimiterRespectsLimits == LimSpec => []LimitsRespected
<1>1. LimInv => LimitsRespected
  <2> SUFFICES ASSUME LimInv PROVE LimitsRespected
    OBVIOUS
  <2>1. WindowRespected
    <3> SUFFICES ASSUME NEW k \in Keys PROVE Total(granted[k]) <= Limit[k] + Cardinality(Requests)
      BY DEF WindowRespected
    <3>1. PICK t \in Nat : t = Total(granted[k])
      BY MembersFinite DEF LimInv, TypesInv, LimTypeOK, Counts
    <3>2. PICK w \in Nat : w = Cardinality(Within(k))
      BY RequestsCounted DEF Within
    <3>3. PICK all \in Nat : all = Cardinality(Requests)
      BY RequestsCounted
    <3>4. t + w <= Limit[k] + all /\ Limit[k] \in Nat
      BY <3>1, <3>2, <3>3, LimitsTyped DEF LimInv, GrantedOK, KeyFits
    <3> QED BY <3>1, <3>2, <3>3, <3>4
  <2>2. Total(zset) + Cardinality(Adding) < SlidingLimit + Cardinality(Requests)
    BY DEF LimInv, RecordedOK
  <2>3. Total(zset) \in Nat
    BY MembersFinite DEF LimInv, TypesInv, LimTypeOK, Counts
  <2>4. Cardinality(Adding) \in Nat /\ Cardinality(Requests) \in Nat
    BY RequestsCounted DEF Adding
  <2>5. SlidingBound
    BY <2>2, <2>3, <2>4, LimitsTyped DEF SlidingBound
  <2> QED BY <2>1, <2>5 DEF LimitsRespected
<1> QED BY <1>1, LimInvariant, PTL

(* A request is found over the limit of a key only when the key was used   *)
(* less than a window ago, or another has yet to set its expiry, or the    *)
(* EXPIRE was lost: a counter never outlives its window for another cause. *)
THEOREM LimiterRefusesForCause == LimSpec => OverForCause
<1> DEFINE caused == \A r \in Requests : request[r].at = "count" /\ request'[r].at = "over" =>
                       rested[Key(r)] < Window \/ Using(Key(r)) # {} \/ Key(r) \in bare
<1>1. ASSUME LimInv, [LimNext]_limVars PROVE caused
  <2> SUFFICES ASSUME NEW r \in Requests, request[r].at = "count", request'[r].at = "over"
               PROVE  rested[Key(r)] < Window \/ Using(Key(r)) # {} \/ Key(r) \in bare
    OBVIOUS
  <2> USE <1>1
  <2>1. request \in [Requests -> RequestRecs]
    BY DEF LimInv, TypesInv, RequestsOK
  <2>2. Incr(r)
    <3>1. \A q \in Requests : \A s : Becomes(q, s) => request'[r] = IF q = r THEN s ELSE request[r]
      BY <2>1 DEF Becomes
    <3>2. request'[r] # request[r]
      OBVIOUS
    <3>3. ASSUME NEW q \in Requests, Answer(q) \/ (\E bad \in Errors : SlidingAdd(q, bad)) PROVE FALSE
      <4>1. Becomes(q, Nobody)
        BY <3>3 DEF Answer, SlidingAdd
      <4> QED BY <3>1, <3>2, <4>1, NobodyTyped
    <3>4. ASSUME NEW q \in Requests, (\E c \in Clients : Middleware(q, c))
                                     \/ (\E bad \in Errors : SlidingCheck(q, bad)) PROVE FALSE
      <4>1. CASE \E c \in Clients : Middleware(q, c)
        <5>1. PICK c \in Clients : Middleware(q, c)
          BY <4>1
        <5>2. request'[r].at = "count" \/ request'[r] = request[r]
          BY <3>1, <5>1 DEF Middleware, Nobody
        <5> QED BY <3>2, <5>2
      <4>2. CASE \E bad \in Errors : SlidingCheck(q, bad)
        <5>1. PICK stage \in {"add", "blind"} : Becomes(q, [Nobody EXCEPT !.at = stage])
          BY <4>2 DEF SlidingCheck
        <5>2. request'[r].at = stage \/ request'[r] = request[r]
          BY <3>1, <5>1 DEF Nobody
        <5> QED BY <3>2, <5>2
      <4> QED BY <3>4, <4>1, <4>2
    <3>5. ASSUME NEW q \in Requests, Counted(q) PROVE FALSE
      <4>1. q # r
        BY <3>5 DEF Counted, Midway
      <4> QED BY <3>1, <3>2, <3>5, <4>1 DEF Counted, Reaches
    <3>6. ASSUME NEW q \in Requests, NEW reply \in Replies, Failed(q, reply) PROVE FALSE
      <4>1. request'[r] = request[r] \/ request'[r].at \in {"count", "failed"}
        BY <2>1, <3>1, <3>6 DEF Failed, Reaches, RequestRecs
      <4> QED BY <3>2, <4>1
    <3>7. ~Tick
      <4> SUFFICES ASSUME Tick PROVE FALSE
        OBVIOUS
      <4>1. request'[r] = request[r]
        BY DEF Tick
      <4> QED BY <4>1
    <3>8. PICK q \in Requests : Incr(q)
      BY <3>2, <3>3, <3>4, <3>5, <3>6, <3>7 DEF LimNext, KeysNext, SlidingNext, limVars
    <3>9. q = r
      BY <3>1, <3>2, <3>8 DEF Incr, Reaches
    <3> QED BY <3>8, <3>9
  <2>3. PICK k \in Keys : k = Key(r)
    BY KeyOfRequest DEF LimInv, TypesInv
  <2>4. PICK n \in Nat : n = counter[k].count
    BY DEF LimInv, TypesInv, LimTypeOK
  <2>5. Exceeds(n + 1, k)
    <3> SUFFICES ASSUME ~Exceeds(n + 1, k) PROVE FALSE
      OBVIOUS
    <3>1. Becomes(r, [request[r] EXCEPT !.at = "within"])
      BY <2>2, <2>3, <2>4 DEF Incr, Reaches
    <3>2. request'[r] = [request[r] EXCEPT !.at = "within"]
      BY <2>1, <3>1 DEF Becomes
    <3> QED BY <2>1, <3>2 DEF RequestRecs
  <2>6. n # 0
    BY <2>5, LimitsTyped DEF Exceeds
  <2>7. counter[k].ttl \in 0 .. Never /\ (counter[k].count = 0 <=> counter[k].ttl = 0) /\ rested[k] \in 0 .. Window
    BY DEF LimInv, TypesInv, LimTypeOK
  <2>8. RestFits(k, counter[k], rested[k], Using(k) # {} \/ k \in bare)
    BY DEF LimInv, RestOK
  <2>9. rested[k] < Window \/ Using(k) # {} \/ k \in bare
    BY <2>4, <2>6, <2>7, <2>8, LimitsTyped DEF RestFits
  <2> QED BY <2>3, <2>9
<1>2. LimInv /\ [LimNext]_limVars => [caused]_limVars
  BY <1>1
<1>3. LimInit => LimInv
  BY LimInvInit
<1>4. LimSpec => [][caused]_limVars
  <2> HIDE DEF caused
  <2> QED BY <1>2, <1>3, LimInvStep, PTL DEF LimSpec
<1> QED BY <1>4 DEF OverForCause
=============================================================================
