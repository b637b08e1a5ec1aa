----------------------------- MODULE AlertDedup -----------------------------
(***************************************************************************)
(* Alert deduplication: the alert-service generator and its Redis manager, *)
(* the background-worker tasks and the admin acknowledgement, for ONE      *)
(* AlertKey (device, alert type).  Every Redis key and every SQL predicate *)
(* the code uses contains the key, so distinct keys do not interact.       *)
(*                                                                         *)
(* An instance is the goroutine of runCheckLoop in one alert-service       *)
(* process; its program counter names the next Redis or database call.     *)
(* Redis holds three entries per key: the dedupe record, the lock and the  *)
(* silent mark.  The lock and the mark are represented by the time at      *)
(* which they expire, 0 when absent: the code stores the value "1" in      *)
(* both, so nothing in Redis says who holds the lock.                      *)
(***************************************************************************)
EXTENDS Naturals, FiniteSets

CONSTANTS
  Instances,       \* alert-service processes
  Tasks,           \* background-worker runs of a health or latency task
  AlertIds,        \* identifiers uuid.New() can return
  Null,            \* no alert / no creator
  IssueSeverities, \* severities the checker gives to issues of this key
  Window,          \* DedupeWindow
  SilentPeriod,
  LockTimeout,
  Threshold,       \* EscalationThreshold
  Faults,          \* which of "redis", "db", "lost", "crash", "stall" may happen; "db":
                   \* a statement fails and does nothing; "lost": it commits and its
                   \* answer is an error; "stall": a process may be held up between
                   \* two calls while time passes
  MaxNow,          \* bound: last tick of the clock
  MaxDetections    \* bound: checks that get past the silent period

Severity == {"low", "medium", "high", "critical"}
Status   == {"none", "active", "acknowledged", "resolved"}

ASSUME DedupAssumption ==
  /\ Null \notin AlertIds \cup Instances \cup Tasks
  /\ Instances \cap Tasks = {}
  /\ IssueSeverities \subseteq Severity
  /\ Window \in Nat \ {0} /\ SilentPeriod \in Nat \ {0} /\ LockTimeout \in Nat \ {0}
  /\ Threshold \in Nat /\ MaxNow \in Nat /\ MaxDetections \in Nat
  /\ Faults \subseteq {"redis", "db", "lost", "crash", "stall"}

VARIABLES
  alerts,      \* the alerts table
  dedupe,      \* alert:dedupe:{hash}
  lock,        \* alert:lock:{hash}: expiry time, 0 when free
  silent,      \* alert:silent:{hash}: expiry time, 0 when absent
  pc, loc,     \* next call and local variables of every process
  now,         \* the wall clock all processes and Redis share
  detections,  \* bound: checks started so far
  spoiled      \* history: a Redis failure, a removal, a crash or the lost answer
               \* of an INSERT has cost the key a dedupe record it should have had

redis == <<dedupe, lock, silent>>
vars  == <<alerts, redis, pc, loc, now, detections, spoiled>>

-----------------------------------------------------------------------------
Procs == Instances \cup Tasks

InstancePC == {"idle", "lock", "get", "release", "create", "record", "count",
               "update", "touchGet", "touchSet", "escalate", "markGet", "markSet",
               "remove", "silence", "panicked", "down"}
TaskPC     == {"idle", "insert", "down"}

DedupeRecord == [id : AlertIds \cup {Null}, count : Nat, last : Nat,
                 escalated : BOOLEAN, exp : Nat]
NoDedupe     == [id |-> Null, count |-> 0, last |-> 0, escalated |-> FALSE, exp |-> 0]

AlertRow == [status : Status, sev : Severity, count : Nat, at : Nat,
             by : Procs \cup {Null}]
NoRow    == [status |-> "none", sev |-> "low", count |-> 0, at |-> 0, by |-> Null]

Locals  == [sev : Severity, id : AlertIds \cup {Null}, esc : BOOLEAN,
            count : Nat, at : Nat, copy : DedupeRecord]
NoLocal == [sev |-> "low", id |-> Null, esc |-> FALSE, count |-> 0, at |-> 0,
            copy |-> NoDedupe]

Exists(a)  == alerts[a].status # "none"
Present    == dedupe.id # Null
ShortWindow == Present /\ now - dedupe.last < Window
InWindow    == Present /\ now - dedupe.last <= Window
RedisFails  == "redis" \in Faults
DBFails     == "db" \in Faults
AnswerLost  == "lost" \in Faults

(* RecordAlert and MarkEscalated keep the record for two windows.          *)
ShortTTL  == Window
RecordTTL == 2 * Window

(* acquireLock gives its key a TTL.                                        *)
LockForever == now + MaxNow + LockTimeout
LockUntil   == now + LockTimeout

(* escalateSeverity: one step up, from the severity of the ISSUE. *)
UnknownSeverity(s) == IF s = "low" THEN "medium" ELSE "urgent"
EscalateSeverity(s) ==
  CASE s = "low" -> "medium" [] s = "medium" -> "high" [] OTHER -> "critical"

Init ==
  /\ alerts = [a \in AlertIds |-> NoRow]
  /\ dedupe = NoDedupe /\ lock = 0 /\ silent = 0
  /\ pc  = [p \in Procs |-> "idle"]
  /\ loc = [p \in Procs |-> NoLocal]
  /\ now = 0 /\ detections = 0 /\ spoiled = FALSE

-----------------------------------------------------------------------------
(* A step of p that continues at label l with local variables v; at "idle" *)
(* the locals are gone.                                                    *)
Goto(p, l, v) ==
  /\ pc'  = [pc EXCEPT ![p] = l]
  /\ loc' = [loc EXCEPT ![p] = IF l = "idle" THEN NoLocal ELSE v]

Stay == UNCHANGED <<now, detections>>

(* GenerateAlert up to IsInSilentPeriod: inside the silent period it       *)
(* returns (nil, nil), which changes nothing; an error is only logged.     *)
IgnoresSilence == TRUE
NotSilenced    == silent = 0 \/ RedisFails

Detect(i, s) ==
  /\ pc[i] = "idle"
  /\ NotSilenced
  /\ detections < MaxDetections
  /\ detections' = detections + 1
  /\ Goto(i, "lock", [NoLocal EXCEPT !.sev = s])
  /\ UNCHANGED <<alerts, redis, now, spoiled>>

(* acquireLock.  When SETNX finds the key, ShouldCreateAlert returns       *)
(* (false, nil, false, nil) and GenerateAlert dereferences the nil id.  An *)
(* error makes GenerateAlert create the alert without deduplication; the   *)
(* key may have been set all the same.                                     *)
Acquire(i) ==
  /\ pc[i] = "lock"
  /\ \/ /\ lock = 0
        /\ lock' = LockUntil
        /\ Goto(i, "get", loc[i])
        /\ UNCHANGED spoiled
     \/ /\ lock # 0
        /\ Goto(i, "panicked", NoLocal)
        /\ UNCHANGED <<lock, spoiled>>
     \/ /\ RedisFails
        /\ Goto(i, "create", [loc[i] EXCEPT !.at = now])
        /\ spoiled' = TRUE
        /\ lock' = lock \/ (lock = 0 /\ lock' = LockUntil)
  /\ UNCHANGED <<alerts, dedupe, silent>> /\ Stay

(* shouldEscalate: the record is not marked yet and has reached the        *)
(* threshold before this occurrence.                                       *)
EscalatesEarly(sev) ==
  ~dedupe.escalated /\ dedupe.count + 1 >= Threshold /\ sev # "critical"
ShouldEscalate(sev) ==
  ~dedupe.escalated /\ dedupe.count >= Threshold /\ sev # "critical"

(* The decision of ShouldCreateAlert; id = Null stands for shouldCreate.   *)
Get(i) ==
  /\ pc[i] = "get"
  /\ \/ /\ InWindow
        /\ Goto(i, "release",
                [loc[i] EXCEPT !.id  = dedupe.id,
                               !.esc = ShouldEscalate(loc[i].sev)])
        /\ UNCHANGED spoiled
     \/ /\ ~InWindow
        /\ Goto(i, "release", loc[i])
        /\ UNCHANGED spoiled
     \/ /\ RedisFails
        /\ Goto(i, "release", loc[i])
        /\ spoiled' = TRUE
  /\ UNCHANGED <<alerts, redis>> /\ Stay

(* The deferred releaseLock: an unconditional DEL whose error is dropped.  *)
(* GenerateAlert then reads the clock and takes one of its two branches.   *)
Release(i) ==
  /\ pc[i] = "release"
  /\ lock' = 0 \/ (RedisFails /\ lock' = lock)
  /\ Goto(i, IF loc[i].id = Null THEN "create" ELSE "count",
          [loc[i] EXCEPT !.at = now])
  /\ UNCHANGED <<alerts, dedupe, silent, spoiled>> /\ Stay

(* createNewAlert: the INSERT.  An error returns before RecordAlert, also  *)
(* when the row has been committed.                                        *)
RecordsAnyway(i) ==
  /\ pc[i] = "create"
  /\ \E a \in AlertIds :
       /\ ~Exists(a)
       /\ \/ alerts' = [alerts EXCEPT ![a] =
                          [status |-> "active", sev |-> loc[i].sev, count |-> 1,
                           at |-> loc[i].at, by |-> i]]
          \/ DBFails /\ alerts' = alerts
       /\ Goto(i, "record", [loc[i] EXCEPT !.id = a])
  /\ UNCHANGED <<redis, spoiled>> /\ Stay

Create(i) ==
  /\ pc[i] = "create"
  /\ \/ \E a \in AlertIds :
          /\ ~Exists(a)
          /\ alerts' = [alerts EXCEPT ![a] =
                          [status |-> "active", sev |-> loc[i].sev, count |-> 1,
                           at |-> loc[i].at, by |-> i]]
          /\ \/ Goto(i, "record", [loc[i] EXCEPT !.id = a]) /\ UNCHANGED spoiled
             \/ AnswerLost /\ Goto(i, "idle", NoLocal) /\ spoiled' = TRUE
     \/ /\ DBFails
        /\ Goto(i, "idle", NoLocal)
        /\ UNCHANGED <<alerts, spoiled>>
  /\ UNCHANGED redis /\ Stay

(* RecordAlert(isNew): an error is only logged, the row stays unrecorded.  *)
Record(i) ==
  /\ pc[i] = "record"
  /\ \/ /\ dedupe' = [id |-> loc[i].id, count |-> 1, last |-> now,
                      escalated |-> FALSE, exp |-> now + RecordTTL]
        /\ UNCHANGED spoiled
     \/ /\ RedisFails
        /\ spoiled' = TRUE
        /\ UNCHANGED dedupe
  /\ Goto(i, "idle", NoLocal)
  /\ UNCHANGED <<alerts, lock, silent>> /\ Stay

(* GetOccurrenceCount, then occurrenceCount++: 1 without a record, 2 after *)
(* an error, whatever the table says.                                      *)
CountsNothing(i) ==
  /\ pc[i] = "count"
  /\ Goto(i, "update", [loc[i] EXCEPT !.count = dedupe.count])
  /\ UNCHANGED <<alerts, redis, spoiled>> /\ Stay

Count(i) ==
  /\ pc[i] = "count"
  /\ \/ Goto(i, "update", [loc[i] EXCEPT !.count = dedupe.count + 1])
     \/ RedisFails /\ Goto(i, "update", [loc[i] EXCEPT !.count = 2])
  /\ UNCHANGED <<alerts, redis, spoiled>> /\ Stay

(* UpdateOccurrence by id, whatever the row's status; an error returns.    *)
Update(i) ==
  /\ pc[i] = "update"
  /\ \/ /\ alerts' = [alerts EXCEPT ![loc[i].id].count = loc[i].count]
        /\ Goto(i, "touchGet", loc[i]) \/ (AnswerLost /\ Goto(i, "idle", NoLocal))
     \/ /\ DBFails
        /\ Goto(i, "idle", NoLocal)
        /\ UNCHANGED alerts
  /\ UNCHANGED <<redis, spoiled>> /\ Stay

(* Where updateExistingAlert goes when RecordAlert has returned.           *)
AfterTouch(i) == IF loc[i].esc THEN "escalate" ELSE "idle"

(* RecordAlert(update) is a GET and a SET, without the lock: the record is *)
(* copied, changed in memory and written back whole.                       *)
TouchGet(i) ==
  /\ pc[i] = "touchGet"
  /\ \/ /\ Present
        /\ Goto(i, "touchSet",
                [loc[i] EXCEPT !.copy = [dedupe EXCEPT !.last = now,
                                                       !.count = dedupe.count + 1]])
     \/ /\ ~Present \/ RedisFails
        /\ Goto(i, AfterTouch(i), loc[i])
  /\ UNCHANGED <<alerts, redis, spoiled>> /\ Stay

TouchSet(i) ==
  /\ pc[i] = "touchSet"
  /\ \/ dedupe' = [loc[i].copy EXCEPT !.exp = now + RecordTTL]
     \/ RedisFails /\ dedupe' = dedupe
  /\ Goto(i, AfterTouch(i), [loc[i] EXCEPT !.copy = NoDedupe])
  /\ UNCHANGED <<alerts, lock, silent, spoiled>> /\ Stay

(* EscalateSeverity in the table; MarkEscalated only if its answer was     *)
(* not an error.                                                           *)
Escalate(i) ==
  /\ pc[i] = "escalate"
  /\ \/ /\ alerts' = [alerts EXCEPT ![loc[i].id].sev = EscalateSeverity(loc[i].sev)]
        /\ Goto(i, "markGet", loc[i]) \/ (AnswerLost /\ Goto(i, "idle", NoLocal))
     \/ /\ DBFails
        /\ Goto(i, "idle", NoLocal)
        /\ UNCHANGED alerts
  /\ UNCHANGED <<redis, spoiled>> /\ Stay

(* MarkEscalated: again a GET and a SET without the lock.                  *)
MarksNothing(i) ==
  /\ pc[i] = "markGet"
  /\ Goto(i, "idle", NoLocal)
  /\ UNCHANGED <<alerts, redis, spoiled>> /\ Stay

MarkGet(i) ==
  /\ pc[i] = "markGet"
  /\ \/ /\ Present
        /\ Goto(i, "markSet", [loc[i] EXCEPT !.copy = [dedupe EXCEPT !.escalated = TRUE]])
     \/ /\ ~Present \/ RedisFails
        /\ Goto(i, "idle", NoLocal)
  /\ UNCHANGED <<alerts, redis, spoiled>> /\ Stay

MarkSet(i) ==
  /\ pc[i] = "markSet"
  /\ \/ dedupe' = [loc[i].copy EXCEPT !.exp = now + RecordTTL]
     \/ RedisFails /\ dedupe' = dedupe
  /\ Goto(i, "idle", NoLocal)
  /\ UNCHANGED <<alerts, lock, silent, spoiled>> /\ Stay

-----------------------------------------------------------------------------
(* ResolveDeviceAlerts, called by an instance when the device is back.     *)
(* ResolveByDeviceAndType touches active rows only; an error returns, also *)
(* when the rows have been updated, and leaves the record where it is.     *)
Resolve(i) ==
  /\ pc[i] = "idle"
  /\ alerts' = [a \in AlertIds |-> IF alerts[a].status = "active"
                                   THEN [alerts[a] EXCEPT !.status = "resolved"]
                                   ELSE alerts[a]]
  /\ Goto(i, "remove", NoLocal) \/ (AnswerLost /\ Goto(i, "idle", NoLocal))
  /\ UNCHANGED <<redis, spoiled>> /\ Stay

KeepsRecord(i) ==
  /\ pc[i] = "remove"
  /\ Goto(i, "silence", NoLocal)
  /\ UNCHANGED <<alerts, redis, spoiled>> /\ Stay

RemoveDedupeInfo(i) ==
  /\ pc[i] = "remove"
  /\ \/ dedupe' = NoDedupe /\ spoiled' = TRUE
     \/ RedisFails /\ UNCHANGED <<dedupe, spoiled>>
  /\ Goto(i, "silence", NoLocal)
  /\ UNCHANGED <<alerts, lock, silent>> /\ Stay

SetSilentPeriod(i) ==
  /\ pc[i] = "silence"
  /\ silent' = now + SilentPeriod \/ (RedisFails /\ silent' = silent)
  /\ Goto(i, "idle", NoLocal)
  /\ UNCHANGED <<alerts, dedupe, lock, spoiled>> /\ Stay

-----------------------------------------------------------------------------
(* A health or latency task: it looks for an active alert of the key and   *)
(* inserts one when there is none, without lock or dedupe record.  Cron    *)
(* starts each run in a goroutine of its own, so runs may overlap.  It     *)
(* ends with the INSERT, whether the answer arrives or not.                *)
TaskCheck(t, s) ==
  /\ pc[t] = "idle" /\ detections < MaxDetections
  /\ \A a \in AlertIds : alerts[a].status # "active"
  /\ detections' = detections + 1
  /\ Goto(t, "insert", [NoLocal EXCEPT !.sev = s, !.at = now])
  /\ UNCHANGED <<alerts, redis, now, spoiled>>

TaskInsert(t) ==
  /\ pc[t] = "insert"
  /\ \/ \E a \in AlertIds :
          /\ ~Exists(a)
          /\ alerts' = [alerts EXCEPT ![a] =
                          [status |-> "active", sev |-> loc[t].sev, count |-> 1,
                           at |-> loc[t].at, by |-> t]]
     \/ DBFails /\ UNCHANGED alerts
  /\ Goto(t, "idle", NoLocal)
  /\ UNCHANGED <<redis, spoiled>> /\ Stay

(* AdminHandler.AcknowledgeAlert: an UPDATE by id, whatever the status.    *)
Acknowledge(a) ==
  /\ Exists(a)
  /\ alerts' = [alerts EXCEPT ![a].status = "acknowledged"]
  /\ UNCHANGED <<redis, pc, loc, spoiled>> /\ Stay

(* A process dies between two calls; what it held in Redis stays there.    *)
Crash(p) ==
  /\ "crash" \in Faults
  /\ pc[p] \notin {"idle", "down", "panicked"}
  /\ Goto(p, "down", NoLocal)
  /\ spoiled' = (spoiled \/ pc[p] = "record")
  /\ UNCHANGED <<alerts, redis>> /\ Stay

(* The supervisor starts a dead process again: its check loop is idle.     *)
Restart(p) ==
  /\ pc[p] \in {"down", "panicked"}
  /\ Goto(p, "idle", NoLocal)
  /\ UNCHANGED <<alerts, redis, spoiled>> /\ Stay

(* Time passes and Redis drops the keys that have reached their TTL.  A    *)
(* tick is minutes long and a check milliseconds, so one falls inside a    *)
(* check only when the process stalls.                                     *)
Tick ==
  /\ now < MaxNow
  /\ "stall" \in Faults \/ \A p \in Procs : pc[p] \in {"idle", "down", "panicked"}
  /\ now'    = now + 1
  /\ lock'   = IF lock > now + 1 THEN lock ELSE 0
  /\ silent' = IF silent > now + 1 THEN silent ELSE 0
  /\ dedupe' = IF dedupe.exp > now + 1 THEN dedupe ELSE NoDedupe
  /\ UNCHANGED <<alerts, pc, loc, detections, spoiled>>

Work(i) ==
  \/ Acquire(i) \/ Get(i) \/ Release(i) \/ Create(i) \/ Record(i) \/ Count(i)
  \/ Update(i) \/ TouchGet(i) \/ TouchSet(i) \/ Escalate(i) \/ MarkGet(i)
  \/ MarkSet(i) \/ RemoveDedupeInfo(i) \/ SetSilentPeriod(i)

Next ==
  \/ \E i \in Instances :
       \/ \E s \in IssueSeverities : Detect(i, s)
       \/ Resolve(i)
       \/ Work(i)
  \/ \E t \in Tasks : (\E s \in IssueSeverities : TaskCheck(t, s)) \/ TaskInsert(t)
  \/ \E a \in AlertIds : Acknowledge(a)
  \/ \E p \in Procs : Crash(p) \/ Restart(p)
  \/ Tick

Spec == Init /\ [][Next]_vars

(* A live process goes on to its next call: the Go scheduler runs every    *)
(* goroutine and each call returns or fails.  The check loop and cron wait *)
(* for a minute between two runs, so time passes however often a process   *)
(* is busy (strong fairness: without "stall" a tick needs them idle).      *)
Fairness ==
  /\ SF_vars(Tick)
  /\ \A i \in Instances : WF_vars(Work(i))
  /\ \A t \in Tasks : WF_vars(TaskInsert(t))
FairSpec == Spec /\ Fairness

-----------------------------------------------------------------------------
TypeOK ==
  /\ alerts \in [AlertIds -> AlertRow]
  /\ dedupe \in DedupeRecord /\ lock \in Nat /\ silent \in Nat
  /\ pc \in [Procs -> InstancePC \cup TaskPC]
  /\ loc \in [Procs -> Locals]
  /\ now \in Nat /\ detections \in Nat /\ spoiled \in BOOLEAN

(* The dedupe record, and the alert an instance is about to update, name a *)
(* row that exists: the row is inserted before its record is written, and  *)
(* no failed insert, crash or stale write-back ever leaves the record      *)
(* pointing at an alert an administrator cannot find.                      *)
DedupeNamesAlert ==
  /\ Present => Exists(dedupe.id)
  /\ \A i \in Instances : loc[i].id # Null => Exists(loc[i].id)
  /\ \A i \in Instances : loc[i].copy.id # Null => Exists(loc[i].copy.id)

(* As long as nothing has cost the key its record and the first window has *)
(* not passed, an instance creates at most one alert of the key, however   *)
(* the instances and the tasks interleave: n instances that race make at   *)
(* most n duplicates, never a stream of them.                              *)
BurstBound ==
  ~spoiled /\ now <= Window =>
    \A a, b \in AlertIds : alerts[a].by \in Instances /\ alerts[a].by = alerts[b].by
                              => a = b

(* Config.DedupeWindow: within the window an alert is kept once.  Two      *)
(* active alerts of the key were created more than a window apart.         *)
OnePerWindow ==
  \A a, b \in AlertIds :
    (a # b /\ alerts[a].status = "active" /\ alerts[b].status = "active")
      => alerts[a].at > alerts[b].at + Window \/ alerts[b].at > alerts[a].at + Window

(* The occurrence count of the table and the one of the record, kept by    *)
(* two separate writes, never drift apart by more than the one occurrence  *)
(* being written, even when the process dies between the two.              *)
CountsAgree ==
  Present => alerts[dedupe.id].count \in {dedupe.count, dedupe.count + 1}

(* A detection is never merged into an alert that is already resolved:     *)
(* the device would be unhealthy and no alert open.                        *)
MergedIntoOpen ==
  \A i \in Instances :
    pc[i] \in {"count", "update"} => alerts[loc[i].id].status # "resolved"

(* alert:lock: two instances never decide about the key at the same time,  *)
(* although the lock does not say who holds it and each deletes whatever   *)
(* is there.                                                               *)
Deciding      == {"get", "release"}
LockExclusive == \A i, j \in Instances : pc[i] \in Deciding /\ pc[j] \in Deciding => i = j

(* ShouldCreateAlert that does not get the lock skips the check; the       *)
(* check loop survives it.                                                 *)
NoPanic == \A i \in Instances : pc[i] # "panicked"

SevRank(s) == CASE s = "low" -> 1 [] s = "medium" -> 2 [] s = "high" -> 3 [] OTHER -> 4

(* Escalation goes up only: no step lowers the severity of a stored alert. *)
SeverityNeverLowered ==
  [][\A a \in AlertIds : Exists(a) => SevRank(alerts'[a].sev) >= SevRank(alerts[a].sev)]_vars

(* The severity of a stored alert changes only after more than Threshold   *)
(* occurrences have been written to its row.                               *)
EscalatedAfterThreshold ==
  [][\A a \in AlertIds :
       Exists(a) /\ alerts'[a].sev # alerts[a].sev => alerts[a].count > Threshold]_vars

(* No alert of the key is created by an instance while its silent mark is  *)
(* in Redis.                                                               *)
SilentRespected ==
  [][\A a \in AlertIds :
       ~Exists(a) /\ alerts'[a].by \in Instances => silent = 0]_vars

(* A lock whose holder died between SETNX and DEL is freed by its TTL, so  *)
(* a later check of the key gets it (for a lock old enough to expire       *)
(* before the bounded clock stops).                                        *)
LockFreed == lock # 0 /\ now + LockTimeout <= MaxNow ~> lock = 0

(* Nothing is lost on the way: a check that found the device unhealthy     *)
(* outside the silent period ends with an alert of the key open.           *)
DetectionReported ==
  \A i \in Instances :
    pc[i] = "lock" ~> \E a \in AlertIds : alerts[a].status \in {"active", "acknowledged"}
=============================================================================
