------------------------- MODULE AlertDedup_proofs -------------------------
(***************************************************************************)
(* Proofs about AlertDedup for every set of instances, tasks and alert     *)
(* ids, every timing constant and every set of faults; in the second half, *)
(* for one instance (Alone) and the faults each theorem names.             *)
(***************************************************************************)
EXTENDS AlertDedup, TLAPS

(* The two steps every action is made of. *)
LEMMA GotoType ==
  ASSUME TypeOK, NEW p \in Procs, NEW l \in InstancePC \cup TaskPC,
         NEW v \in Locals, Goto(p, l, v)
  PROVE  /\ pc' \in [Procs -> InstancePC \cup TaskPC]
         /\ loc' \in [Procs -> Locals]
<1>1. NoLocal \in Locals
  BY DEF NoLocal, NoDedupe, Locals, DedupeRecord, Severity
<1>2. QED
  BY <1>1 DEF Goto, TypeOK

LEMMA NullTypes ==
  /\ NoLocal \in Locals /\ NoDedupe \in DedupeRecord /\ NoRow \in AlertRow
BY DEF NoLocal, NoDedupe, NoRow, Locals, DedupeRecord, AlertRow, Severity, Status

LEMMA EscalateType == ASSUME NEW s PROVE EscalateSeverity(s) \in Severity
BY DEF EscalateSeverity, Severity

LEMMA TouchedRecord ==
  ASSUME NEW d \in DedupeRecord, NEW m \in Nat, NEW n \in Nat
  PROVE  [d EXCEPT !.last = m, !.count = n] \in DedupeRecord
BY DEF DedupeRecord

LEMMA InitType == Init => TypeOK
<1> SUFFICES ASSUME Init PROVE TypeOK
  OBVIOUS
<1>1. "idle" \in InstancePC \cup TaskPC
  BY DEF InstancePC
<1>2. alerts \in [AlertIds -> AlertRow] /\ dedupe \in DedupeRecord
  BY NullTypes DEF Init
<1>3. pc \in [Procs -> InstancePC \cup TaskPC] /\ loc \in [Procs -> Locals]
  BY <1>1, NullTypes DEF Init
<1>4. QED
  BY <1>2, <1>3 DEF Init, TypeOK

(* Steps of the check, one lemma for each group of actions. *)
LEMMA CheckType ==
  ASSUME TypeOK, NEW i \in Instances, NEW s \in IssueSeverities, Detect(i, s)
  PROVE  TypeOK'
<1> USE DedupAssumption DEF Procs
<1>0. i \in Procs /\ loc[i] \in Locals /\ NoLocal \in Locals
  BY NullTypes DEF TypeOK
<1>1. [NoLocal EXCEPT !.sev = s] \in Locals
  BY <1>0 DEF Locals
<1>2. /\ pc' \in [Procs -> InstancePC \cup TaskPC] /\ loc' \in [Procs -> Locals]
  BY <1>0, <1>1, GotoType DEF Detect, InstancePC
<1>3. QED
  BY <1>2 DEF Detect, TypeOK, redis

LEMMA ReleaseType ==
  ASSUME TypeOK, NEW i \in Instances, Acquire(i) \/ Get(i) \/ Release(i)
  PROVE  TypeOK'
<1> USE DedupAssumption DEF Procs
<1>0. i \in Procs /\ loc[i] \in Locals /\ NoLocal \in Locals
  BY NullTypes DEF TypeOK
<1>2. CASE Acquire(i)
  <2>1. [loc[i] EXCEPT !.at = now] \in Locals
    BY <1>0 DEF Locals, TypeOK
  <2>2. /\ pc' \in [Procs -> InstancePC \cup TaskPC] /\ loc' \in [Procs -> Locals]
    BY <1>2, <1>0, <2>1, GotoType DEF Acquire, InstancePC
  <2>3. \/ lock' = lock
        \/ lock' = now + LockTimeout
    BY <1>2 DEF Acquire, LockUntil
  <2>5. spoiled' = spoiled \/ spoiled' = TRUE
    BY <1>2, Zenon DEF Acquire
  <2>6. lock' \in Nat
    BY <2>3 DEF TypeOK
  <2>7. spoiled' \in BOOLEAN
    BY <2>5, Zenon DEF TypeOK
  <2>4. QED
    BY <1>2, <2>2, <2>6, <2>7 DEF Acquire, TypeOK, Stay
<1>3. CASE Get(i)
  <2>1. [loc[i] EXCEPT !.id  = dedupe.id,
                       !.esc = ShouldEscalate(loc[i].sev)] \in Locals
    BY <1>0 DEF Locals, TypeOK, DedupeRecord, ShouldEscalate
  <2>2. /\ pc' \in [Procs -> InstancePC \cup TaskPC] /\ loc' \in [Procs -> Locals]
    BY <1>3, <1>0, <2>1, GotoType DEF Get, InstancePC
  <2>3. QED
    BY <1>3, <2>2 DEF Get, TypeOK, Stay, redis
<1>4. CASE Release(i)
  <2>1. [loc[i] EXCEPT !.at = now] \in Locals
    BY <1>0 DEF Locals, TypeOK
  <2>2. /\ pc' \in [Procs -> InstancePC \cup TaskPC] /\ loc' \in [Procs -> Locals]
    <3>1. (IF loc[i].id = Null THEN "create" ELSE "count") \in InstancePC \cup TaskPC
      BY DEF InstancePC
    <3>2. QED
      BY <1>4, <1>0, <2>1, <3>1, GotoType DEF Release
  <2>3. QED
    BY <1>4, <2>2 DEF Release, TypeOK, Stay
<1>5. QED
  BY <1>2, <1>3, <1>4

LEMMA CreateType ==
  ASSUME TypeOK, NEW i \in Instances, Create(i) \/ Record(i)
  PROVE  TypeOK'
<1> USE DedupAssumption DEF Procs
<1>0. /\ i \in Procs /\ loc[i] \in Locals /\ loc[i].copy \in DedupeRecord
      /\ NoLocal \in Locals /\ NoDedupe \in DedupeRecord
      /\ dedupe \in DedupeRecord /\ now \in Nat /\ now + RecordTTL \in Nat
  BY NullTypes DEF TypeOK, Locals, RecordTTL
<1>1. CASE Create(i)
  <2>1. \A a \in AlertIds : [loc[i] EXCEPT !.id = a] \in Locals
    BY <1>0 DEF Locals
  <2>2. /\ pc' \in [Procs -> InstancePC \cup TaskPC] /\ loc' \in [Procs -> Locals]
    BY <1>1, <1>0, <2>1, GotoType DEF Create, InstancePC
  <2>3. [status |-> "active", sev |-> loc[i].sev, count |-> 1, at |-> loc[i].at, by |-> i]
          \in AlertRow
    BY <1>0 DEF AlertRow, Locals, Status
  <2>4. alerts' \in [AlertIds -> AlertRow]
    BY <1>1, <2>3 DEF Create, TypeOK
  <2>5. QED
    BY <1>1, <2>2, <2>4 DEF Create, TypeOK, Stay, redis
<1>2. CASE Record(i)
  <2>1. /\ pc' \in [Procs -> InstancePC \cup TaskPC] /\ loc' \in [Procs -> Locals]
    BY <1>2, <1>0, GotoType DEF Record, InstancePC
  <2>2. dedupe' \in DedupeRecord
    <3>1. [id |-> loc[i].id, count |-> 1, last |-> now, escalated |-> FALSE,
           exp |-> now + RecordTTL] \in DedupeRecord
      BY <1>0 DEF Locals, DedupeRecord
    <3>2. QED
      BY <1>2, <1>0, <3>1 DEF Record
  <2>3. spoiled' \in BOOLEAN
    BY <1>2, Zenon DEF Record, TypeOK
  <2>4. QED
    BY <1>2, <2>1, <2>2, <2>3 DEF Record, TypeOK, Stay, redis
<1>3. QED
  BY <1>1, <1>2

LEMMA UpdateType ==
  ASSUME TypeOK, NEW i \in Instances, Count(i) \/ Update(i) \/ TouchGet(i) \/ TouchSet(i)
  PROVE  TypeOK'
<1> USE DedupAssumption DEF Procs
<1>0. /\ i \in Procs /\ loc[i] \in Locals /\ loc[i].copy \in DedupeRecord
      /\ NoLocal \in Locals /\ NoDedupe \in DedupeRecord
      /\ dedupe \in DedupeRecord /\ now \in Nat /\ now + RecordTTL \in Nat
  BY NullTypes DEF TypeOK, Locals, RecordTTL
<1>1. CASE Count(i)
  <2>1. [loc[i] EXCEPT !.count = dedupe.count + 1] \in Locals
    BY <1>1, <1>0 DEF Locals, TypeOK, DedupeRecord
  <2>2. [loc[i] EXCEPT !.count = 2] \in Locals
    BY <1>1, <1>0 DEF Locals, TypeOK, DedupeRecord
  <2>3. /\ pc' \in [Procs -> InstancePC \cup TaskPC] /\ loc' \in [Procs -> Locals]
    BY <1>1, <1>0, <2>1, <2>2, GotoType DEF Count, InstancePC
  <2>4. QED
    BY <1>1, <2>3 DEF Count, TypeOK, Stay, redis
<1>2. CASE Update(i)
  <2>1. /\ pc' \in [Procs -> InstancePC \cup TaskPC] /\ loc' \in [Procs -> Locals]
    BY <1>2, <1>0, GotoType DEF Update, InstancePC
  <2>2. alerts' \in [AlertIds -> AlertRow]
    <3>1. loc[i].count \in Nat
      BY <1>0 DEF Locals
    <3>2. \/ alerts' = [alerts EXCEPT ![loc[i].id].count = loc[i].count]
          \/ alerts' = alerts
      BY <1>2 DEF Update
    <3>3. QED
      BY <3>1, <3>2 DEF TypeOK, AlertRow
  <2>3. QED
    BY <1>2, <2>1, <2>2 DEF Update, TypeOK, Stay, redis
<1>3. CASE TouchGet(i)
  <2>1. [dedupe EXCEPT !.last = now, !.count = dedupe.count + 1] \in DedupeRecord
    <3>1. dedupe.count + 1 \in Nat
      BY <1>0 DEF DedupeRecord
    <3>2. QED
      BY <1>0, <3>1, TouchedRecord
  <2>2. [loc[i] EXCEPT !.copy = [dedupe EXCEPT !.last = now, !.count = dedupe.count + 1]] \in Locals
    BY <1>0, <2>1 DEF Locals
  <2>3. /\ pc' \in [Procs -> InstancePC \cup TaskPC] /\ loc' \in [Procs -> Locals]
    BY <1>3, <1>0, <2>1, <2>2, GotoType DEF TouchGet, AfterTouch, InstancePC
  <2>4. QED
    BY <1>3, <2>3 DEF TouchGet, TypeOK, Stay, redis
<1>4. CASE TouchSet(i)
  <2>1. [loc[i] EXCEPT !.copy = NoDedupe] \in Locals
    BY <1>4, <1>0 DEF Locals, TypeOK, DedupeRecord
  <2>2. /\ pc' \in [Procs -> InstancePC \cup TaskPC] /\ loc' \in [Procs -> Locals]
    BY <1>4, <1>0, <2>1, GotoType DEF TouchSet, AfterTouch, InstancePC
  <2>3. dedupe' \in DedupeRecord
    BY <1>4, <1>0 DEF TouchSet, TypeOK, DedupeRecord
  <2>4. QED
    BY <1>4, <2>2, <2>3 DEF TouchSet, TypeOK, Stay, redis
<1>5. QED
  BY <1>1, <1>2, <1>3, <1>4

LEMMA EscalationType ==
  ASSUME TypeOK, NEW i \in Instances, Escalate(i) \/ MarkGet(i) \/ MarkSet(i)
  PROVE  TypeOK'
<1> USE DedupAssumption DEF Procs
<1>0. /\ i \in Procs /\ loc[i] \in Locals /\ loc[i].copy \in DedupeRecord
      /\ NoLocal \in Locals /\ NoDedupe \in DedupeRecord
      /\ dedupe \in DedupeRecord /\ now \in Nat /\ now + RecordTTL \in Nat
  BY NullTypes DEF TypeOK, Locals, RecordTTL
<1>1. CASE Escalate(i)
  <2>1. /\ pc' \in [Procs -> InstancePC \cup TaskPC] /\ loc' \in [Procs -> Locals]
    BY <1>1, <1>0, GotoType DEF Escalate, InstancePC
  <2>2. alerts' \in [AlertIds -> AlertRow]
    BY <1>1, EscalateType DEF Escalate, TypeOK, AlertRow
  <2>3. QED
    BY <1>1, <2>1, <2>2 DEF Escalate, TypeOK, Stay, redis
<1>2. CASE MarkGet(i)
  <2>1. [loc[i] EXCEPT !.copy = [dedupe EXCEPT !.escalated = TRUE]] \in Locals
    BY <1>2, <1>0 DEF Locals, TypeOK, DedupeRecord
  <2>2. /\ pc' \in [Procs -> InstancePC \cup TaskPC] /\ loc' \in [Procs -> Locals]
    BY <1>2, <1>0, <2>1, GotoType DEF MarkGet, InstancePC
  <2>3. QED
    BY <1>2, <2>2 DEF MarkGet, TypeOK, Stay, redis
<1>3. CASE MarkSet(i)
  <2>1. /\ pc' \in [Procs -> InstancePC \cup TaskPC] /\ loc' \in [Procs -> Locals]
    BY <1>3, <1>0, GotoType DEF MarkSet, InstancePC
  <2>2. dedupe' \in DedupeRecord
    BY <1>3, <1>0 DEF MarkSet, TypeOK, DedupeRecord
  <2>3. QED
    BY <1>3, <2>1, <2>2 DEF MarkSet, TypeOK, Stay, redis
<1>4. QED
  BY <1>1, <1>2, <1>3

LEMMA ResolveType ==
  ASSUME TypeOK, NEW i \in Instances, Resolve(i) \/ RemoveDedupeInfo(i) \/ SetSilentPeriod(i)
  PROVE  TypeOK'
<1> USE DedupAssumption DEF Procs
<1>0. /\ i \in Procs /\ loc[i] \in Locals /\ loc[i].copy \in DedupeRecord
      /\ NoLocal \in Locals /\ NoDedupe \in DedupeRecord
      /\ dedupe \in DedupeRecord /\ now \in Nat /\ now + RecordTTL \in Nat
  BY NullTypes DEF TypeOK, Locals, RecordTTL
<1>1. CASE Resolve(i)
  <2>1. /\ pc' \in [Procs -> InstancePC \cup TaskPC] /\ loc' \in [Procs -> Locals]
    BY <1>1, <1>0, GotoType DEF Resolve, InstancePC
  <2>2. alerts' \in [AlertIds -> AlertRow]
    BY <1>1 DEF Resolve, TypeOK, AlertRow, Status
  <2>3. QED
    BY <1>1, <2>1, <2>2 DEF Resolve, TypeOK, Stay, redis
<1>2. CASE RemoveDedupeInfo(i)
  <2>1. /\ pc' \in [Procs -> InstancePC \cup TaskPC] /\ loc' \in [Procs -> Locals]
    BY <1>2, <1>0, GotoType DEF RemoveDedupeInfo, InstancePC
  <2>2. dedupe' \in DedupeRecord
    BY <1>2, <1>0 DEF RemoveDedupeInfo, TypeOK
  <2>3. spoiled' \in BOOLEAN
    BY <1>2, Zenon DEF RemoveDedupeInfo, TypeOK
  <2>4. QED
    BY <1>2, <2>1, <2>2, <2>3 DEF RemoveDedupeInfo, TypeOK, Stay, redis
<1>3. CASE SetSilentPeriod(i)
  <2>1. /\ pc' \in [Procs -> InstancePC \cup TaskPC] /\ loc' \in [Procs -> Locals]
    BY <1>3, <1>0, GotoType DEF SetSilentPeriod, InstancePC
  <2>2. silent' \in Nat
    BY <1>3 DEF SetSilentPeriod, TypeOK
  <2>3. QED
    BY <1>3, <2>1, <2>2 DEF SetSilentPeriod, TypeOK, Stay, redis
<1>4. QED
  BY <1>1, <1>2, <1>3

LEMMA TaskType ==
  ASSUME TypeOK, NEW t \in Tasks,
         (\E s \in IssueSeverities : TaskCheck(t, s)) \/ TaskInsert(t)
  PROVE  TypeOK'
<1> USE DedupAssumption DEF Procs
<1>0. t \in Procs /\ loc[t] \in Locals /\ NoLocal \in Locals
  BY NullTypes DEF TypeOK
<1>1. ASSUME NEW s \in IssueSeverities, TaskCheck(t, s) PROVE TypeOK'
  <2>1. [NoLocal EXCEPT !.sev = s, !.at = now] \in Locals
    BY <1>0 DEF Locals, TypeOK
  <2>2. /\ pc' \in [Procs -> InstancePC \cup TaskPC] /\ loc' \in [Procs -> Locals]
    BY <1>1, <1>0, <2>1, GotoType DEF TaskCheck, TaskPC
  <2>3. detections' \in Nat
    <3>1. detections' = detections + 1
      BY <1>1, Zenon DEF TaskCheck
    <3>2. detections \in Nat
      BY DEF TypeOK
    <3>3. QED
      BY <3>1, <3>2
  <2>4. UNCHANGED <<alerts, redis, now, spoiled>>
    BY <1>1 DEF TaskCheck
  <2>5. QED
    BY <2>2, <2>3, <2>4 DEF TypeOK, redis
<1>2. CASE TaskInsert(t)
  <2>1. /\ pc' \in [Procs -> InstancePC \cup TaskPC] /\ loc' \in [Procs -> Locals]
    BY <1>2, <1>0, GotoType DEF TaskInsert, TaskPC
  <2>2. [status |-> "active", sev |-> loc[t].sev, count |-> 1, at |-> loc[t].at, by |-> t]
          \in AlertRow
    BY <1>0 DEF AlertRow, Locals, Status
  <2>3. alerts' \in [AlertIds -> AlertRow]
    BY <1>2, <2>2 DEF TaskInsert, TypeOK
  <2>4. QED
    BY <1>2, <2>1, <2>3 DEF TaskInsert, TypeOK, Stay, redis
<1>3. QED
  BY <1>1, <1>2

LEMMA LifeType ==
  ASSUME TypeOK, NEW p \in Procs, Crash(p) \/ Restart(p)
  PROVE  TypeOK'
<1>0. NoLocal \in Locals
  BY NullTypes
<1>1. /\ pc' \in [Procs -> InstancePC \cup TaskPC] /\ loc' \in [Procs -> Locals]
  BY <1>0, GotoType DEF Crash, Restart, TaskPC
<1>2. spoiled' \in BOOLEAN
  BY Zenon DEF Crash, Restart, TypeOK
<1>3. QED
  BY <1>1, <1>2 DEF Crash, Restart, TypeOK, Stay, redis

LEMMA AcknowledgeType ==
  ASSUME TypeOK, NEW a \in AlertIds, Acknowledge(a)
  PROVE  TypeOK'
<1>1. alerts' \in [AlertIds -> AlertRow]
  BY DEF Acknowledge, TypeOK, AlertRow, Status
<1>2. QED
  BY <1>1 DEF Acknowledge, TypeOK, Stay, redis

LEMMA TickType == ASSUME TypeOK, Tick PROVE TypeOK'
<1>1. dedupe' \in DedupeRecord
  BY NullTypes DEF Tick, TypeOK
<1>2. lock' \in Nat /\ silent' \in Nat /\ now' \in Nat
  BY DEF Tick, TypeOK
<1>3. QED
  BY <1>1, <1>2 DEF Tick, TypeOK

LEMMA StepType == ASSUME TypeOK, [Next]_vars PROVE TypeOK'
<1>1. CASE \E i \in Instances : \/ \E s \in IssueSeverities : Detect(i, s)
                               \/ Resolve(i)
                               \/ Work(i)
  <2>1. PICK i \in Instances : \/ \E s \in IssueSeverities : Detect(i, s)
                               \/ Resolve(i)
                               \/ Work(i)
    BY <1>1
  <2>2. CASE \E s \in IssueSeverities : Detect(i, s)
    BY <2>2, CheckType
  <2>3. CASE Acquire(i) \/ Get(i) \/ Release(i)
    BY <2>3, ReleaseType
  <2>4. CASE Create(i) \/ Record(i)
    BY <2>4, CreateType
  <2>5. CASE Count(i) \/ Update(i) \/ TouchGet(i) \/ TouchSet(i)
    BY <2>5, UpdateType
  <2>6. CASE Escalate(i) \/ MarkGet(i) \/ MarkSet(i)
    BY <2>6, EscalationType
  <2>7. CASE Resolve(i) \/ RemoveDedupeInfo(i) \/ SetSilentPeriod(i)
    BY <2>7, ResolveType
  <2>8. QED
    BY <2>1, <2>2, <2>3, <2>4, <2>5, <2>6, <2>7 DEF Work
<1>2. CASE \E t \in Tasks : (\E s \in IssueSeverities : TaskCheck(t, s)) \/ TaskInsert(t)
  BY <1>2, TaskType
<1>3. CASE \E a \in AlertIds : Acknowledge(a)
  BY <1>3, AcknowledgeType
<1>4. CASE \E p \in Procs : Crash(p) \/ Restart(p)
  BY <1>4, LifeType
<1>5. CASE Tick
  BY <1>5, TickType
<1>6. CASE UNCHANGED vars
  BY <1>6 DEF vars, redis, TypeOK
<1>7. QED
  BY <1>1, <1>2, <1>3, <1>4, <1>5, <1>6 DEF Next

(* Every value the processes, Redis and the alerts table hold is one the   *)
(* code can hold: type correctness of the deduplication protocol.          *)
THEOREM TypeCorrect == Spec => []TypeOK
BY InitType, StepType, PTL DEF Spec

-----------------------------------------------------------------------------
(* What Goto leaves in every process. *)
LEMMA GotoEffect ==
  ASSUME TypeOK, NEW p \in Procs, NEW l, NEW v, Goto(p, l, v), NEW q \in Procs
  PROVE  /\ pc'[q]  = IF q = p THEN l ELSE pc[q]
         /\ loc'[q] = IF q # p THEN loc[q] ELSE IF l = "idle" THEN NoLocal ELSE v
BY DEF Goto, TypeOK

(* Rows are never removed from the alerts table. *)
LEMMA RowsStay ==
  ASSUME TypeOK, [Next]_vars
  PROVE  \A a \in AlertIds : Exists(a) => Exists(a)'
<1> USE DEF Exists, Stay, redis, TypeOK
<1>1. CASE \E i \in Instances : \/ \E s \in IssueSeverities : Detect(i, s)
                               \/ Resolve(i)
                               \/ Work(i)
  <2>1. PICK i \in Instances : \/ \E s \in IssueSeverities : Detect(i, s)
                               \/ Resolve(i)
                               \/ Work(i)
    BY <1>1
  <2>2. CASE \E s \in IssueSeverities : Detect(i, s)
    BY <2>2 DEF Detect
  <2>3. CASE Acquire(i) \/ Get(i) \/ Release(i) \/ Record(i) \/ Count(i)
    BY <2>3 DEF Acquire, Get, Release, Record, Count
  <2>4. CASE Create(i)
    BY <2>4 DEF Create
  <2>5. CASE Update(i)
    BY <2>5 DEF Update, AlertRow
  <2>6. CASE TouchGet(i) \/ TouchSet(i) \/ MarkGet(i) \/ MarkSet(i)
    BY <2>6 DEF TouchGet, TouchSet, MarkGet, MarkSet
  <2>7. CASE Escalate(i)
    BY <2>7 DEF Escalate, AlertRow
  <2>8. CASE Resolve(i)
    BY <2>8 DEF Resolve, AlertRow
  <2>9. CASE RemoveDedupeInfo(i) \/ SetSilentPeriod(i)
    BY <2>9 DEF RemoveDedupeInfo, SetSilentPeriod
  <2>10. QED
    BY <2>1, <2>2, <2>3, <2>4, <2>5, <2>6, <2>7, <2>8, <2>9 DEF Work
<1>2. CASE \E t \in Tasks : (\E s \in IssueSeverities : TaskCheck(t, s)) \/ TaskInsert(t)
  BY <1>2 DEF TaskCheck, TaskInsert
<1>3. CASE \E a \in AlertIds : Acknowledge(a)
  BY <1>3 DEF Acknowledge, AlertRow
<1>4. CASE \E p \in Procs : Crash(p) \/ Restart(p)
  BY <1>4 DEF Crash, Restart
<1>5. CASE Tick
  BY <1>5 DEF Tick
<1>6. CASE UNCHANGED vars
  BY <1>6 DEF vars
<1>7. QED
  BY <1>1, <1>2, <1>3, <1>4, <1>5, <1>6 DEF Next

(* A step of process p keeps DedupeNamesAlert when the record and the      *)
(* locals it leaves name rows.                                             *)
RowNext(id) == id # Null => alerts'[id].status # "none"

LEMMA NamesAfterStep ==
  ASSUME TypeOK, DedupeNamesAlert,
         \A a \in AlertIds : Exists(a) => Exists(a)',
         NEW p \in Procs, NEW l, NEW v, Goto(p, l, v),
         l = "idle" \/ p \in Tasks \/ (RowNext(v.id) /\ RowNext(v.copy.id)),
         RowNext(dedupe'.id)
  PROVE  DedupeNamesAlert'
<1>1. (Present => Exists(dedupe.id))'
  BY DEF RowNext, Present, Exists
<1>2. ASSUME NEW j \in Instances
      PROVE  RowNext(loc'[j].id) /\ RowNext(loc'[j].copy.id)
  <2>0. j \in Procs /\ j \notin Tasks
    BY DedupAssumption DEF Procs
  <2>1. CASE j # p
    <3>1. loc'[j] = loc[j]
      BY <2>0, <2>1, GotoEffect
    <3>2. loc[j].id \in AlertIds \cup {Null} /\ loc[j].copy.id \in AlertIds \cup {Null}
      BY <2>0 DEF TypeOK, Locals, DedupeRecord
    <3>3. QED
      BY <3>1, <3>2 DEF DedupeNamesAlert, RowNext, Exists
  <2>2. CASE j = p /\ l = "idle"
    <3>1. loc'[j] = NoLocal
      BY <2>0, <2>2, GotoEffect
    <3>2. QED
      BY <3>1 DEF NoLocal, NoDedupe, RowNext
  <2>3. CASE j = p /\ l # "idle"
    <3>1. loc'[j] = v
      BY <2>0, <2>3, GotoEffect
    <3>2. QED
      BY <2>0, <2>3, <3>1
  <2>4. QED
    BY <2>1, <2>2, <2>3
<1>3. QED
  BY <1>1, <1>2 DEF DedupeNamesAlert, RowNext, Exists

LEMMA NamesStep == ASSUME TypeOK, DedupeNamesAlert, [Next]_vars PROVE DedupeNamesAlert'
<1> DEFINE Kept == \A a \in AlertIds : Exists(a) => Exists(a)'
<1>0. Kept /\ RowNext(dedupe.id) /\ NoLocal.id = Null /\ NoLocal.copy.id = Null
  <2>1. Kept
    BY RowsStay
  <2>2. dedupe.id \in AlertIds \cup {Null}
    BY DEF TypeOK, DedupeRecord
  <2>3. QED
    BY <2>1, <2>2 DEF DedupeNamesAlert, Present, RowNext, Exists, NoLocal, NoDedupe
<1>a. \A i \in Instances : i \in Procs /\ loc[i] \in Locals
                           /\ RowNext(loc[i].id) /\ RowNext(loc[i].copy.id)
  BY <1>0 DEF DedupeNamesAlert, RowNext, Exists, TypeOK, Locals, DedupeRecord, Procs
<1>1. ASSUME NEW i \in Instances, Work(i) PROVE DedupeNamesAlert'
  <2> DEFINE Safe(v) == RowNext(v.id) /\ RowNext(v.copy.id)
  <2>0. i \in Procs /\ loc[i] \in Locals /\ Safe(loc[i]) /\ Safe(NoLocal)
    BY <1>0, <1>a DEF RowNext
  <2>1. ASSUME NEW l, NEW v, Goto(i, l, v), l = "idle" \/ Safe(v), dedupe' = dedupe
        PROVE  DedupeNamesAlert'
    BY <2>0, <2>1, <1>0, NamesAfterStep
  <2>2. CASE Acquire(i)
    <3>1. Safe([loc[i] EXCEPT !.at = now])
      BY <2>0 DEF Locals
    <3>2. dedupe' = dedupe
      BY <2>2 DEF Acquire
    <3>3. QED
      BY <2>0, <2>1, <2>2, <3>1, <3>2 DEF Acquire
  <2>3. CASE Get(i)
    <3>1. Safe([loc[i] EXCEPT !.id = dedupe.id, !.esc = ShouldEscalate(loc[i].sev)])
      BY <2>0, <1>0 DEF Locals
    <3>2. dedupe' = dedupe
      BY <2>3 DEF Get, redis
    <3>3. QED
      BY <2>0, <2>1, <2>3, <3>1, <3>2 DEF Get
  <2>4. CASE Release(i)
    <3>1. Safe([loc[i] EXCEPT !.at = now])
      BY <2>0 DEF Locals
    <3>2. dedupe' = dedupe
      BY <2>4 DEF Release
    <3>3. QED
      BY <2>1, <2>4, <3>1, <3>2 DEF Release
  <2>5. CASE Create(i)
    <3>1. dedupe' = dedupe
      BY <2>5 DEF Create, redis
    <3>2. CASE Goto(i, "idle", NoLocal)
      BY <2>0, <2>1, <3>1, <3>2
    <3>3. ASSUME NEW a \in AlertIds,
                 alerts' = [alerts EXCEPT ![a] =
                             [status |-> "active", sev |-> loc[i].sev, count |-> 1,
                              at |-> loc[i].at, by |-> i]],
                 Goto(i, "record", [loc[i] EXCEPT !.id = a])
          PROVE  DedupeNamesAlert'
      <4>1. Safe([loc[i] EXCEPT !.id = a])
        BY <2>0, <3>3 DEF Locals, RowNext, TypeOK
      <4>2. QED
        BY <2>1, <3>1, <3>3, <4>1
    <3>4. QED
      BY <2>5, <3>2, <3>3 DEF Create
  <2>6. CASE Record(i)
    <3>1. Goto(i, "idle", NoLocal)
      BY <2>6 DEF Record
    <3>2. RowNext(dedupe'.id)
      BY <2>6, <2>0, <1>0 DEF Record
    <3>3. QED
      BY <2>0, <3>1, <3>2, <1>0, NamesAfterStep
  <2>7. CASE Count(i)
    <3>1. Safe([loc[i] EXCEPT !.count = dedupe.count + 1]) /\ Safe([loc[i] EXCEPT !.count = 2])
      BY <2>0 DEF Locals
    <3>2. dedupe' = dedupe
      BY <2>7 DEF Count, redis
    <3>3. QED
      BY <2>1, <2>7, <3>1, <3>2 DEF Count
  <2>8. CASE Update(i) \/ Escalate(i)
    <3>1. dedupe' = dedupe
      BY <2>8 DEF Update, Escalate, redis
    <3>2. QED
      BY <2>0, <2>1, <2>8, <3>1 DEF Update, Escalate
  <2>9. CASE TouchGet(i)
    <3>1. Safe([loc[i] EXCEPT !.copy = [dedupe EXCEPT !.last = now,
                                                      !.count = dedupe.count + 1]])
      BY <2>0, <1>0 DEF Locals, TypeOK, DedupeRecord
    <3>2. dedupe' = dedupe
      BY <2>9 DEF TouchGet, redis
    <3>3. QED
      BY <2>0, <2>1, <2>9, <3>1, <3>2 DEF TouchGet
  <2>10. CASE MarkGet(i)
    <3>1. Safe([loc[i] EXCEPT !.copy = [dedupe EXCEPT !.escalated = TRUE]])
      BY <2>0, <1>0 DEF Locals, TypeOK, DedupeRecord
    <3>2. dedupe' = dedupe
      BY <2>10 DEF MarkGet, redis
    <3>3. QED
      BY <2>0, <2>1, <2>10, <3>1, <3>2 DEF MarkGet
  <2>11. CASE TouchSet(i) \/ MarkSet(i)
    <3>1. RowNext(dedupe'.id)
      BY <2>11, <2>0, <1>0 DEF TouchSet, MarkSet, Locals, DedupeRecord
    <3>2. Safe([loc[i] EXCEPT !.copy = NoDedupe])
      BY <2>0 DEF Locals, NoDedupe, RowNext
    <3>3. PICK l, v : Goto(i, l, v) /\ (l = "idle" \/ Safe(v))
      BY <2>0, <2>11, <3>2 DEF TouchSet, MarkSet
    <3>4. QED
      BY <2>0, <3>1, <3>3, <1>0, NamesAfterStep
  <2>12. CASE RemoveDedupeInfo(i)
    <3>1. Goto(i, "silence", NoLocal)
      BY <2>12 DEF RemoveDedupeInfo
    <3>2. RowNext(dedupe'.id)
      BY <2>12, <1>0 DEF RemoveDedupeInfo, NoDedupe, RowNext
    <3>3. QED
      BY <2>0, <3>1, <3>2, <1>0, NamesAfterStep
  <2>13. CASE SetSilentPeriod(i)
    BY <2>0, <2>1, <2>13 DEF SetSilentPeriod
  <2>14. QED
    BY <1>1, <2>2, <2>3, <2>4, <2>5, <2>6, <2>7, <2>8, <2>9, <2>10, <2>11, <2>12, <2>13 DEF Work
<1>2. ASSUME NEW i \in Instances, (\E s \in IssueSeverities : Detect(i, s)) \/ Resolve(i)
      PROVE  DedupeNamesAlert'
  <2>1. dedupe' = dedupe /\ i \in Procs
    BY <1>2 DEF Detect, Resolve, redis, Procs
  <2>2. CASE Resolve(i)
    <3>1. Goto(i, "remove", NoLocal) \/ Goto(i, "idle", NoLocal)
      BY <2>2 DEF Resolve
    <3>2. QED
      BY <2>1, <3>1, <1>0, NamesAfterStep DEF RowNext
  <2>3. ASSUME NEW s \in IssueSeverities, Detect(i, s) PROVE DedupeNamesAlert'
    <3>1. Goto(i, "lock", [NoLocal EXCEPT !.sev = s])
      BY <2>3 DEF Detect
    <3>2. [NoLocal EXCEPT !.sev = s].id = Null /\ [NoLocal EXCEPT !.sev = s].copy.id = Null
      BY DEF NoLocal, NoDedupe
    <3>3. QED
      BY <2>1, <3>1, <3>2, <1>0, NamesAfterStep DEF RowNext
  <2>4. QED
    BY <1>2, <2>2, <2>3
<1>3. ASSUME NEW t \in Tasks, (\E s \in IssueSeverities : TaskCheck(t, s)) \/ TaskInsert(t)
      PROVE  DedupeNamesAlert'
  <2>1. dedupe' = dedupe /\ t \in Procs
    BY <1>3 DEF TaskCheck, TaskInsert, redis, Procs
  <2>2. \E l, v : Goto(t, l, v)
    BY <1>3 DEF TaskCheck, TaskInsert
  <2>3. QED
    BY <2>1, <2>2, <1>0, NamesAfterStep
<1>4. ASSUME NEW p \in Procs, Crash(p) \/ Restart(p) PROVE DedupeNamesAlert'
  <2>1. dedupe' = dedupe /\ (Goto(p, "down", NoLocal) \/ Goto(p, "idle", NoLocal))
    BY <1>4 DEF Crash, Restart, redis
  <2>2. QED
    BY <2>1, <1>0, NamesAfterStep DEF RowNext
<1>5. CASE Tick \/ (\E a \in AlertIds : Acknowledge(a)) \/ UNCHANGED vars
  <2>1. loc' = loc /\ (dedupe' = dedupe \/ dedupe' = NoDedupe)
    BY <1>5 DEF Tick, Acknowledge, vars, redis
  <2>2. QED
    BY <2>1, <1>0, <1>a DEF DedupeNamesAlert, RowNext, Present, Exists, NoDedupe
<1>6. QED
  BY <1>1, <1>2, <1>3, <1>4, <1>5 DEF Next

(* The dedupe record and every alert an instance is about to update are    *)
(* rows of the alerts table, whatever fails and whoever crashes.           *)
THEOREM NamesCorrect == Spec => []DedupeNamesAlert
<1>1. Init => DedupeNamesAlert
  BY DEF Init, DedupeNamesAlert, NoDedupe, NoLocal, Present, Procs
<1>2. QED
  BY <1>1, NamesStep, TypeCorrect, PTL DEF Spec

-----------------------------------------------------------------------------
Fresh    == ~spoiled /\ now <= Window
Owner(i) == \E a \in AlertIds : alerts[a].by = i
Single   == \A a, b \in AlertIds :
              alerts[a].by \in Instances /\ alerts[a].by = alerts[b].by => a = b

(* While the key is fresh an instance that owns an alert is on its way to  *)
(* write the record, or the record is in Redis and in its window: it can   *)
(* not get to the INSERT again.                                            *)
CannotCreate ==
  \A i \in Instances :
    Owner(i) => /\ pc[i] # "create"
                /\ pc[i] = "record" \/ Present
                /\ pc[i] = "release" => loc[i].id # Null

(* A record in Redis has two windows to live, and what is about to be      *)
(* written is a record with an id.                                         *)
GoodRecords ==
  /\ Present => dedupe.exp >= RecordTTL
  /\ \A i \in Instances :
       /\ pc[i] = "record" => loc[i].id # Null
       /\ pc[i] \in {"touchSet", "markSet"} => loc[i].copy.id # Null

BurstInv == GoodRecords /\ (Fresh => CannotCreate /\ Single)

LEMMA RecordsAfterStep ==
  ASSUME TypeOK, GoodRecords, NEW p \in Procs, NEW l, NEW v, Goto(p, l, v),
         l = "record" => v.id # Null,
         l \in {"touchSet", "markSet"} => v.copy.id # Null,
         Present' => dedupe'.exp >= RecordTTL
  PROVE  GoodRecords'
<1>1. ASSUME NEW j \in Instances
      PROVE  /\ pc'[j] = "record" => loc'[j].id # Null
             /\ pc'[j] \in {"touchSet", "markSet"} => loc'[j].copy.id # Null
  <2>1. j \in Procs
    BY DEF Procs
  <2>2. /\ pc'[j]  = IF j = p THEN l ELSE pc[j]
        /\ loc'[j] = IF j # p THEN loc[j] ELSE IF l = "idle" THEN NoLocal ELSE v
    BY <2>1, GotoEffect
  <2>3. QED
    BY <2>2 DEF GoodRecords
<1>2. QED
  BY <1>1 DEF GoodRecords, RecordTTL

(* A step of p that inserts no row keeps CannotCreate and Single, if it    *)
(* does not lose the record unnoticed and p itself stays away from INSERT. *)
LEMMA BurstAfterStep ==
  ASSUME TypeOK, Fresh => CannotCreate /\ Single,
         NEW p \in Procs, NEW l, NEW v, Goto(p, l, v),
         Fresh' => Fresh /\ (Present => Present'),
         \A a \in AlertIds : alerts'[a].by = alerts[a].by,
         p \in Instances /\ Owner(p) /\ Fresh' =>
           l # "create" /\ (l = "record" \/ Present') /\ (l = "release" => v.id # Null)
  PROVE  (Fresh => CannotCreate /\ Single)'
<1> SUFFICES ASSUME Fresh' PROVE CannotCreate' /\ Single'
  OBVIOUS
<1>0. Fresh /\ CannotCreate /\ Single
  OBVIOUS
<1>1. ASSUME NEW j \in Instances, Owner(j)'
      PROVE  /\ pc'[j] # "create"
             /\ pc'[j] = "record" \/ Present'
             /\ pc'[j] = "release" => loc'[j].id # Null
  <2>1. j \in Procs
    BY DEF Procs
  <2>2. Owner(j)
    BY <1>1 DEF Owner
  <2>3. /\ pc'[j]  = IF j = p THEN l ELSE pc[j]
        /\ loc'[j] = IF j # p THEN loc[j] ELSE IF l = "idle" THEN NoLocal ELSE v
    BY <2>1, GotoEffect
  <2>4. CASE j = p
    BY <2>2, <2>3, <2>4
  <2>5. CASE j # p
    BY <1>0, <2>2, <2>3, <2>5 DEF CannotCreate
  <2>6. QED
    BY <2>4, <2>5
<1>2. CannotCreate'
  BY <1>1 DEF CannotCreate
<1>3. Single'
  BY <1>0 DEF Single
<1>4. QED
  BY <1>2, <1>3

(* An instance at its INSERT owns nothing yet, so the new row is its only one. *)
LEMMA CreateKeepsBurst ==
  ASSUME TypeOK, BurstInv, NEW i \in Instances, NEW a \in AlertIds, NEW r \in AlertRow,
         r.by = i, pc[i] = "create", alerts' = [alerts EXCEPT ![a] = r],
         dedupe' = dedupe, now' = now, spoiled' = spoiled,
         Goto(i, "record", [loc[i] EXCEPT !.id = a])
  PROVE  (Fresh => CannotCreate /\ Single)'
<1> SUFFICES ASSUME Fresh' PROVE CannotCreate' /\ Single'
  OBVIOUS
<1>0. Fresh
  BY Zenon DEF Fresh
<1>1. CannotCreate /\ Single
  BY <1>0 DEF BurstInv
<1>2. ~Owner(i)
  BY <1>1 DEF CannotCreate
<1>3. /\ alerts'[a] = r
      /\ \A b \in AlertIds : b # a => alerts'[b] = alerts[b]
  BY DEF TypeOK
<1>4. \A j \in Instances : j # i => (Owner(j)' => Owner(j))
  BY <1>3 DEF Owner
<1>5. \A j \in Instances : pc'[j] = (IF j = i THEN "record" ELSE pc[j])
                           /\ (j # i => loc'[j] = loc[j])
  BY GotoEffect DEF Procs
<1>6. CannotCreate'
  BY <1>1, <1>4, <1>5 DEF CannotCreate, Present
<1>7. Single'
  BY <1>1, <1>2, <1>3 DEF Single, Owner
<1>8. QED
  BY <1>6, <1>7

LEMMA BurstStep == ASSUME TypeOK, TypeOK', BurstInv, [Next]_vars PROVE BurstInv'
<1> DEFINE Goal == (Fresh => CannotCreate /\ Single)'
<1>0. GoodRecords /\ (Fresh => CannotCreate /\ Single)
  BY DEF BurstInv
<1>a. \A i \in Instances : i \in Procs /\ loc[i] \in Locals
  BY DEF TypeOK, Procs
<1>b. /\ now \in Nat /\ RecordTTL \in Nat /\ Window \in Nat /\ now + RecordTTL >= RecordTTL
      /\ dedupe \in DedupeRecord /\ alerts \in [AlertIds -> AlertRow]
      /\ NoDedupe.id = Null /\ NoLocal.id = Null /\ NoLocal.copy.id = Null
  BY DedupAssumption DEF TypeOK, RecordTTL, NoDedupe, NoLocal
<1>1. ASSUME NEW i \in Instances, Work(i) PROVE BurstInv'
  <2>0. i \in Procs /\ loc[i] \in Locals /\ loc[i].copy \in DedupeRecord
    BY <1>a DEF Locals
  <2>1. ASSUME NEW l, NEW v, Goto(i, l, v), l \notin {"record", "touchSet", "markSet"},
               dedupe' = dedupe
        PROVE  GoodRecords'
    <3>1. Present' => dedupe'.exp >= RecordTTL
      BY <2>1, <1>0 DEF Present, GoodRecords
    <3>2. QED
      BY <2>0, <2>1, <3>1, <1>0, RecordsAfterStep
  <2>2. ASSUME NEW l, NEW v, Goto(i, l, v), l \notin {"create", "record", "release"},
               pc[i] # "record",
               Present => Present', now' = now, spoiled' = spoiled,
               \A a \in AlertIds : alerts'[a].by = alerts[a].by
        PROVE  Goal
    <3>1. Fresh' => Fresh
      BY <2>2, Zenon DEF Fresh
    <3>2. Owner(i) /\ Fresh' => Present'
      BY <2>2, <3>1, <1>0 DEF CannotCreate
    <3>3. QED
      BY <2>0, <2>2, <3>1, <3>2, <1>0, BurstAfterStep
  <2>3. CASE Acquire(i)
    <3>1. /\ pc[i] = "lock" /\ dedupe' = dedupe /\ alerts' = alerts /\ now' = now
      BY <2>3 DEF Acquire, Stay
    <3>2. CASE RedisFails /\ Goto(i, "create", [loc[i] EXCEPT !.at = now]) /\ spoiled' = TRUE
      <4>1. ~Fresh'
        BY <3>2, Zenon DEF Fresh
      <4>2. QED
        BY <2>1, <3>1, <3>2, <4>1 DEF BurstInv
    <3>3. CASE \E l, v : Goto(i, l, v) /\ l \in {"get", "panicked"} /\ spoiled' = spoiled
      <4>1. PICK l, v : Goto(i, l, v) /\ l \in {"get", "panicked"} /\ spoiled' = spoiled
        BY <3>3
      <4>2. QED
        BY <2>1, <2>2, <3>1, <4>1 DEF BurstInv, Present
    <3>4. QED
      <4>1. \/ Goto(i, "get", loc[i]) /\ UNCHANGED spoiled
            \/ Goto(i, "panicked", NoLocal) /\ UNCHANGED spoiled
            \/ RedisFails /\ Goto(i, "create", [loc[i] EXCEPT !.at = now]) /\ spoiled' = TRUE
        BY <2>3, Zenon DEF Acquire
      <4>2. QED
        BY <3>2, <3>3, <4>1
  <2>4. CASE Get(i)
    <3>1. /\ pc[i] = "get" /\ dedupe' = dedupe /\ alerts' = alerts /\ now' = now
      BY <2>4 DEF Get, Stay, redis
    <3>2. PICK v : Goto(i, "release", v)
      BY <2>4 DEF Get
    <3>3. GoodRecords'
      BY <2>1, <3>1, <3>2
    <3>4. CASE spoiled' = TRUE
      <4>1. ~Fresh'
        BY <3>4, Zenon DEF Fresh
      <4>2. QED
        BY <3>3, <4>1 DEF BurstInv
    <3>5. CASE InWindow /\ spoiled' = spoiled
               /\ Goto(i, "release", [loc[i] EXCEPT !.id  = dedupe.id,
                                                    !.esc = ShouldEscalate(loc[i].sev)])
      <4>1. Fresh' => Fresh
        BY <3>1, <3>5, Zenon DEF Fresh
      <4>2. [loc[i] EXCEPT !.id = dedupe.id, !.esc = ShouldEscalate(loc[i].sev)].id # Null
        BY <3>5, <2>0 DEF InWindow, Present, Locals
      <4>3. Present /\ Present'
        BY <3>1, <3>5 DEF InWindow, Present
      <4>4. Goal
        BY <2>0, <3>1, <3>5, <4>1, <4>2, <4>3, <1>0, BurstAfterStep
      <4>5. QED
        BY <3>3, <4>4 DEF BurstInv
    <3>6. CASE ~InWindow /\ spoiled' = spoiled
      <4>1. Fresh' => Fresh
        BY <3>1, <3>6, Zenon DEF Fresh
      <4>2. Fresh => now <= Window
        BY Zenon DEF Fresh
      <4>3. dedupe.last \in Nat
        BY <1>b DEF DedupeRecord
      <4>4. Fresh => ~Present
        BY <3>6, <4>2, <4>3, <1>b DEF InWindow
      <4>5. Fresh' => ~Owner(i)
        BY <4>1, <4>4, <3>1, <1>0 DEF CannotCreate
      <4>6. Present => Present'
        BY <3>1 DEF Present
      <4>7. Goal
        BY <2>0, <3>1, <3>2, <4>1, <4>5, <4>6, <1>0, BurstAfterStep
      <4>8. QED
        BY <3>3, <4>7 DEF BurstInv
    <3>7. QED
      <4>1. \/ /\ InWindow /\ spoiled' = spoiled
               /\ Goto(i, "release", [loc[i] EXCEPT !.id  = dedupe.id,
                                                    !.esc = ShouldEscalate(loc[i].sev)])
            \/ ~InWindow /\ spoiled' = spoiled
            \/ spoiled' = TRUE
        BY <2>4, Zenon DEF Get
      <4>2. QED
        BY <3>4, <3>5, <3>6, <4>1
  <2>5. CASE Release(i)
    <3>1. /\ pc[i] = "release" /\ dedupe' = dedupe /\ alerts' = alerts /\ now' = now
      BY <2>5 DEF Release, Stay
    <3>2. spoiled' = spoiled
      BY <2>5, Zenon DEF Release
    <3>3. Goto(i, IF loc[i].id = Null THEN "create" ELSE "count", [loc[i] EXCEPT !.at = now])
      BY <2>5 DEF Release
    <3>4. Fresh' => Fresh
      BY <3>1, <3>2, Zenon DEF Fresh
    <3>5. Owner(i) /\ Fresh' => loc[i].id # Null /\ Present'
      BY <3>1, <3>4, <1>0 DEF CannotCreate, Present
    <3>6. Present => Present'
      BY <3>1 DEF Present
    <3>7. Goal
      BY <2>0, <3>1, <3>3, <3>4, <3>5, <3>6, <1>0, BurstAfterStep
    <3>8. GoodRecords'
      BY <2>1, <3>1, <3>3
    <3>9. QED
      BY <3>7, <3>8 DEF BurstInv
  <2>6. CASE Create(i)
    <3>1. /\ pc[i] = "create" /\ dedupe' = dedupe /\ now' = now
      BY <2>6 DEF Create, Stay, redis
    <3>2. CASE Goto(i, "idle", NoLocal) /\ spoiled' = TRUE
      <4>1. ~Fresh'
        BY <3>2, Zenon DEF Fresh
      <4>2. QED
        BY <2>1, <3>1, <3>2, <4>1 DEF BurstInv
    <3>3. CASE Goto(i, "idle", NoLocal) /\ alerts' = alerts /\ spoiled' = spoiled
      BY <2>1, <2>2, <3>1, <3>3 DEF BurstInv, Present
    <3>4. ASSUME NEW a \in AlertIds, spoiled' = spoiled,
                 alerts' = [alerts EXCEPT ![a] =
                             [status |-> "active", sev |-> loc[i].sev, count |-> 1,
                              at |-> loc[i].at, by |-> i]],
                 Goto(i, "record", [loc[i] EXCEPT !.id = a])
          PROVE  BurstInv'
      <4>1. [status |-> "active", sev |-> loc[i].sev, count |-> 1, at |-> loc[i].at, by |-> i]
              \in AlertRow
        BY <2>0 DEF AlertRow, Locals, Status
      <4>2. Goal
        BY <3>1, <3>4, <4>1, CreateKeepsBurst
      <4>3. [loc[i] EXCEPT !.id = a].id # Null
        BY <2>0, DedupAssumption DEF Locals
      <4>4. Present' => dedupe'.exp >= RecordTTL
        BY <3>1, <1>0 DEF Present, GoodRecords
      <4>5. GoodRecords'
        BY <2>0, <3>4, <4>3, <4>4, <1>0, RecordsAfterStep
      <4>6. QED
        BY <4>2, <4>5 DEF BurstInv
    <3>5. QED
      <4>1. \/ Goto(i, "idle", NoLocal) /\ spoiled' = TRUE
            \/ Goto(i, "idle", NoLocal) /\ alerts' = alerts /\ spoiled' = spoiled
            \/ \E a \in AlertIds :
                 /\ alerts' = [alerts EXCEPT ![a] =
                                [status |-> "active", sev |-> loc[i].sev, count |-> 1,
                                 at |-> loc[i].at, by |-> i]]
                 /\ Goto(i, "record", [loc[i] EXCEPT !.id = a]) /\ spoiled' = spoiled
        BY <2>6, Zenon DEF Create
      <4>2. QED
        BY <3>2, <3>3, <3>4, <4>1
  <2>7. CASE Record(i)
    <3>1. /\ pc[i] = "record" /\ alerts' = alerts /\ now' = now /\ Goto(i, "idle", NoLocal)
      BY <2>7 DEF Record, Stay
    <3>2. CASE spoiled' = TRUE /\ dedupe' = dedupe
      <4>1. ~Fresh'
        BY <3>2, Zenon DEF Fresh
      <4>2. QED
        BY <2>1, <3>1, <3>2, <4>1 DEF BurstInv
    <3>3. CASE /\ spoiled' = spoiled
               /\ dedupe' = [id |-> loc[i].id, count |-> 1, last |-> now,
                             escalated |-> FALSE, exp |-> now + RecordTTL]
      <4>1. dedupe'.id # Null /\ dedupe'.exp = now + RecordTTL
        BY <3>1, <3>3, <1>0 DEF GoodRecords
      <4>2. Present'
        BY <4>1 DEF Present
      <4>3. Fresh' => Fresh
        BY <3>1, <3>3, Zenon DEF Fresh
      <4>4. Goal
        BY <2>0, <3>1, <4>2, <4>3, <1>0, BurstAfterStep
      <4>5. GoodRecords'
        BY <2>0, <3>1, <4>1, <1>0, <1>b, RecordsAfterStep
      <4>6. QED
        BY <4>4, <4>5 DEF BurstInv
    <3>4. QED
      <4>1. \/ spoiled' = TRUE /\ dedupe' = dedupe
            \/ /\ spoiled' = spoiled
               /\ dedupe' = [id |-> loc[i].id, count |-> 1, last |-> now,
                             escalated |-> FALSE, exp |-> now + RecordTTL]
        BY <2>7, Zenon DEF Record
      <4>2. QED
        BY <3>2, <3>3, <4>1
  <2>8. CASE Count(i) \/ Update(i) \/ Escalate(i)
    <3>1. /\ pc[i] # "record" /\ dedupe' = dedupe /\ now' = now
      BY <2>8 DEF Count, Update, Escalate, Stay, redis
    <3>2. spoiled' = spoiled
      BY <2>8, Zenon DEF Count, Update, Escalate
    <3>3. PICK l, v : Goto(i, l, v) /\ l \in {"update", "idle", "touchGet", "markGet"}
      BY <2>8 DEF Count, Update, Escalate
    <3>4. \A a \in AlertIds : alerts'[a].by = alerts[a].by
      <4>1. CASE Count(i)
        BY <4>1 DEF Count
      <4>2. CASE Update(i)
        BY <4>2, <1>b DEF Update, AlertRow
      <4>3. CASE Escalate(i)
        BY <4>3, <1>b DEF Escalate, AlertRow
      <4>4. QED
        BY <2>8, <4>1, <4>2, <4>3
    <3>5. QED
      BY <2>1, <2>2, <3>1, <3>2, <3>3, <3>4 DEF BurstInv, Present
  <2>9. CASE TouchGet(i) \/ MarkGet(i)
    <3>1. /\ pc[i] # "record" /\ dedupe' = dedupe /\ now' = now /\ alerts' = alerts
      BY <2>9 DEF TouchGet, MarkGet, Stay, redis
    <3>2. spoiled' = spoiled
      BY <2>9, Zenon DEF TouchGet, MarkGet
    <3>3. PICK l, v : /\ Goto(i, l, v)
                      /\ \/ l \in {"escalate", "idle"}
                         \/ l \in {"touchSet", "markSet"} /\ v.copy.id # Null
      <4>1. /\ [loc[i] EXCEPT !.copy = [dedupe EXCEPT !.last = now,
                                                      !.count = dedupe.count + 1]].copy.id
                 = dedupe.id
            /\ [loc[i] EXCEPT !.copy = [dedupe EXCEPT !.escalated = TRUE]].copy.id = dedupe.id
        BY <2>0, <1>b DEF Locals, DedupeRecord
      <4>2. QED
        BY <2>9, <4>1 DEF TouchGet, MarkGet, AfterTouch, Present
    <3>4. Present' => dedupe'.exp >= RecordTTL
      BY <3>1, <1>0 DEF Present, GoodRecords
    <3>5. GoodRecords'
      BY <2>0, <3>3, <3>4, <1>0, RecordsAfterStep
    <3>6. Goal
      BY <2>2, <3>1, <3>2, <3>3 DEF Present
    <3>7. QED
      BY <3>5, <3>6 DEF BurstInv
  <2>10. CASE TouchSet(i) \/ MarkSet(i)
    <3>1. /\ pc[i] \in {"touchSet", "markSet"} /\ now' = now /\ alerts' = alerts
      BY <2>10 DEF TouchSet, MarkSet, Stay
    <3>2. spoiled' = spoiled
      BY <2>10, Zenon DEF TouchSet, MarkSet
    <3>3. PICK l, v : Goto(i, l, v) /\ l \in {"escalate", "idle"}
      BY <2>10 DEF TouchSet, MarkSet, AfterTouch
    <3>4. \/ dedupe' = dedupe
          \/ dedupe'.id # Null /\ dedupe'.exp = now + RecordTTL
      BY <2>10, <2>0, <3>1, <1>0 DEF TouchSet, MarkSet, GoodRecords, DedupeRecord
    <3>5. (Present => Present') /\ (Present' => dedupe'.exp >= RecordTTL)
      BY <3>4, <1>0, <1>b DEF Present, GoodRecords
    <3>6. GoodRecords'
      BY <2>0, <3>3, <3>5, <1>0, RecordsAfterStep
    <3>7. Goal
      BY <2>2, <3>1, <3>2, <3>3, <3>5
    <3>8. QED
      BY <3>6, <3>7 DEF BurstInv
  <2>11. CASE RemoveDedupeInfo(i)
    <3>1. /\ pc[i] # "record" /\ now' = now /\ alerts' = alerts /\ Goto(i, "silence", NoLocal)
      BY <2>11 DEF RemoveDedupeInfo, Stay
    <3>2. CASE dedupe' = NoDedupe /\ spoiled' = TRUE
      <4>1. ~Fresh'
        BY <3>2, Zenon DEF Fresh
      <4>2. ~Present'
        BY <3>2, <1>b DEF Present
      <4>3. GoodRecords'
        BY <2>0, <3>1, <4>2, <1>0, RecordsAfterStep
      <4>4. QED
        BY <4>1, <4>3 DEF BurstInv
    <3>3. CASE dedupe' = dedupe /\ spoiled' = spoiled
      BY <2>1, <2>2, <3>1, <3>3 DEF BurstInv, Present
    <3>4. QED
      <4>1. (dedupe' = NoDedupe /\ spoiled' = TRUE) \/ (dedupe' = dedupe /\ spoiled' = spoiled)
        BY <2>11, Zenon DEF RemoveDedupeInfo
      <4>2. QED
        BY <3>2, <3>3, <4>1
  <2>12. CASE SetSilentPeriod(i)
    <3>1. /\ pc[i] # "record" /\ dedupe' = dedupe /\ now' = now /\ alerts' = alerts
          /\ Goto(i, "idle", NoLocal)
      BY <2>12 DEF SetSilentPeriod, Stay
    <3>2. spoiled' = spoiled
      BY <2>12, Zenon DEF SetSilentPeriod
    <3>3. QED
      BY <2>1, <2>2, <3>1, <3>2 DEF BurstInv, Present
  <2>13. QED
    BY <1>1, <2>3, <2>4, <2>5, <2>6, <2>7, <2>8, <2>9, <2>10, <2>11, <2>12 DEF Work
<1>2. ASSUME NEW p \in Procs, NEW l, NEW v, Goto(p, l, v),
             l \notin {"create", "record", "release", "touchSet", "markSet"},
             p \in Instances => pc[p] # "record" \/ ~Fresh', now' = now, dedupe' = dedupe,
             Fresh' => Fresh,
             \A a \in AlertIds : alerts'[a].by = alerts[a].by
      PROVE  BurstInv'
  <2>1. (Present => Present') /\ (Present' => dedupe'.exp >= RecordTTL)
    BY <1>2, <1>0 DEF Present, GoodRecords
  <2>2. GoodRecords'
    BY <1>2, <2>1, <1>0, RecordsAfterStep
  <2>3. p \in Instances /\ Owner(p) /\ Fresh' => Present'
    BY <1>2, <2>1, <1>0 DEF CannotCreate
  <2>4. Goal
    BY <1>2, <2>1, <2>3, <1>0, BurstAfterStep
  <2>5. QED
    BY <2>2, <2>4 DEF BurstInv
<1>3. ASSUME NEW i \in Instances, (\E s \in IssueSeverities : Detect(i, s)) \/ Resolve(i)
      PROVE  BurstInv'
  <2>1. /\ pc[i] # "record" /\ dedupe' = dedupe /\ now' = now
    BY <1>3 DEF Detect, Resolve, redis, Stay
  <2>2. spoiled' = spoiled
    BY <1>3, Zenon DEF Detect, Resolve
  <2>3. Fresh' => Fresh
    BY <2>1, <2>2, Zenon DEF Fresh
  <2>4. PICK l, v : Goto(i, l, v) /\ l \in {"lock", "remove", "idle"}
    BY <1>3 DEF Detect, Resolve
  <2>5. \A a \in AlertIds : alerts'[a].by = alerts[a].by
    BY <1>3, <1>b DEF Detect, Resolve, AlertRow
  <2>6. QED
    BY <1>2, <1>a, <2>1, <2>3, <2>4, <2>5
<1>4. ASSUME NEW t \in Tasks, \E s \in IssueSeverities : TaskCheck(t, s) PROVE BurstInv'
  <2>1. dedupe' = dedupe /\ now' = now /\ alerts' = alerts
    BY <1>4 DEF TaskCheck, redis
  <2>2. spoiled' = spoiled
    BY <1>4, Zenon DEF TaskCheck
  <2>3. Fresh' => Fresh
    BY <2>1, <2>2, Zenon DEF Fresh
  <2>4. PICK v : Goto(t, "insert", v)
    BY <1>4 DEF TaskCheck
  <2>5. t \in Procs /\ t \notin Instances
    BY DedupAssumption DEF Procs
  <2>6. QED
    BY <1>2, <2>1, <2>3, <2>4, <2>5
<1>5. ASSUME NEW t \in Tasks, TaskInsert(t) PROVE BurstInv'
  <2>1. dedupe' = dedupe /\ now' = now /\ Goto(t, "idle", NoLocal)
    BY <1>5 DEF TaskInsert, redis, Stay
  <2>2. spoiled' = spoiled
    BY <1>5, Zenon DEF TaskInsert
  <2>3. Fresh' => Fresh
    BY <2>1, <2>2, Zenon DEF Fresh
  <2>4. t \in Procs /\ t \notin Instances
    BY DedupAssumption DEF Procs
  <2>5. \A a \in AlertIds : alerts'[a].by = alerts[a].by \/ alerts'[a].by = t
    BY <1>5, <1>b DEF TaskInsert
  <2>6. (Present => Present') /\ (Present' => dedupe'.exp >= RecordTTL)
    BY <2>1, <1>0 DEF Present, GoodRecords
  <2>7. GoodRecords'
    BY <2>1, <2>4, <2>6, <1>0, RecordsAfterStep
  <2>8. ASSUME Fresh' PROVE CannotCreate' /\ Single'
    <3>1. CannotCreate /\ Single
      BY <2>3, <2>8, <1>0
    <3>2. \A j \in Instances : Owner(j)' => Owner(j)
      BY <2>4, <2>5 DEF Owner
    <3>3. \A j \in Instances : pc'[j] = pc[j] /\ loc'[j] = loc[j]
      BY <2>1, <2>4, GotoEffect DEF Procs
    <3>4. CannotCreate'
      BY <3>1, <3>2, <3>3, <2>6 DEF CannotCreate
    <3>5. Single'
      BY <3>1, <2>4, <2>5 DEF Single
    <3>6. QED
      BY <3>4, <3>5
  <2>9. QED
    BY <2>7, <2>8 DEF BurstInv
<1>6. ASSUME NEW p \in Procs, Crash(p) \/ Restart(p) PROVE BurstInv'
  <2>1. dedupe' = dedupe /\ now' = now /\ alerts' = alerts
    BY <1>6 DEF Crash, Restart, redis, Stay
  <2>2. PICK l : Goto(p, l, NoLocal) /\ l \in {"down", "idle"}
    BY <1>6 DEF Crash, Restart
  <2>3. Fresh' => Fresh
    BY <1>6, <2>1, Zenon DEF Fresh, Crash, Restart
  <2>4. pc[p] # "record" \/ ~Fresh'
    <3>1. pc[p] = "record" => spoiled' = (spoiled \/ pc[p] = "record")
      BY <1>6, Zenon DEF Crash, Restart
    <3>2. QED
      BY <3>1, Zenon DEF Fresh
  <2>5. QED
    BY <1>2, <2>1, <2>2, <2>3, <2>4
<1>7. CASE (\E a \in AlertIds : Acknowledge(a)) \/ UNCHANGED vars
  <2>1. dedupe' = dedupe /\ now' = now /\ pc' = pc /\ loc' = loc
    BY <1>7 DEF Acknowledge, vars, redis, Stay
  <2>2. spoiled' = spoiled
    BY <1>7, Zenon DEF Acknowledge, vars
  <2>3. \A a \in AlertIds : alerts'[a].by = alerts[a].by
    BY <1>7, <1>b DEF Acknowledge, vars, AlertRow
  <2>4. Fresh' => Fresh
    BY <2>1, <2>2, Zenon DEF Fresh
  <2>5. GoodRecords'
    BY <2>1, <1>0 DEF GoodRecords, Present, RecordTTL
  <2>6. CannotCreate /\ Single => CannotCreate' /\ Single'
    BY <2>1, <2>3 DEF CannotCreate, Single, Owner, Present
  <2>7. QED
    BY <2>4, <2>5, <2>6, <1>0 DEF BurstInv
<1>8. CASE Tick
  <2>1. /\ now' = now + 1 /\ alerts' = alerts /\ pc' = pc /\ loc' = loc
        /\ dedupe' = IF dedupe.exp > now + 1 THEN dedupe ELSE NoDedupe
    BY <1>8 DEF Tick
  <2>2. spoiled' = spoiled
    BY <1>8, Zenon DEF Tick
  <2>3. Fresh' => now' <= Window /\ ~spoiled
    BY <2>2, Zenon DEF Fresh
  <2>4. now' <= Window => now <= Window /\ now + 1 < RecordTTL
    BY <2>1, <1>b, DedupAssumption DEF RecordTTL
  <2>5. Fresh' => Fresh
    BY <2>3, <2>4, Zenon DEF Fresh
  <2>6. now' <= Window /\ Present => Present'
    <3>1. Present => dedupe.exp \in Nat /\ dedupe.exp >= RecordTTL
      BY <1>0, <1>b DEF GoodRecords, DedupeRecord
    <3>2. QED
      BY <2>1, <2>4, <3>1, <1>b DEF Present
  <2>7. GoodRecords'
    BY <2>1, <1>0, <1>b DEF GoodRecords, Present, RecordTTL
  <2>8. ASSUME Fresh' PROVE CannotCreate' /\ Single'
    <3>1. CannotCreate /\ Single /\ (Present => Present')
      BY <2>3, <2>5, <2>6, <2>8, <1>0
    <3>2. QED
      BY <2>1, <3>1 DEF CannotCreate, Single, Owner
  <2>9. QED
    BY <2>7, <2>8 DEF BurstInv
<1>9. QED
  BY <1>1, <1>3, <1>4, <1>5, <1>6, <1>7, <1>8 DEF Next

(* While nothing has cost the key its record, an instance inserts at most  *)
(* one alert of it in the first window: the duplicates that a race of      *)
(* instances makes are never more than the instances.                      *)
THEOREM BurstCorrect == Spec => []BurstBound
<1>1. Init => BurstInv
  <2> SUFFICES ASSUME Init PROVE BurstInv
    OBVIOUS
  <2>1. ~Present /\ \A i \in Instances : pc[i] = "idle" /\ ~Owner(i)
    BY DedupAssumption DEF Init, Present, NoDedupe, NoRow, Owner, Procs
  <2>2. Single
    BY DedupAssumption DEF Init, NoRow, Single
  <2>3. QED
    BY <2>1, <2>2 DEF BurstInv, GoodRecords, CannotCreate
<1>2. TypeOK /\ TypeOK' /\ BurstInv /\ [Next]_vars => BurstInv'
  BY BurstStep
<1>3. BurstInv => BurstBound
  BY Zenon DEF BurstInv, BurstBound, Fresh, Single
<1>4. QED
  BY <1>1, <1>2, <1>3, TypeCorrect, PTL DEF Spec

-----------------------------------------------------------------------------
(* The lock.  Time passes only while no instance is deciding, so a lock    *)
(* does not expire in the hands of its holder; the others find it taken.   *)
LockInv == LockExclusive /\ \A i \in Instances : pc[i] \in Deciding => lock # 0

LEMMA LockInvStep ==
  ASSUME "stall" \notin Faults, TypeOK, LockInv, [Next]_vars
  PROVE  LockInv'
<1>1. ASSUME NEW p \in Procs, NEW l, NEW v, Goto(p, l, v), l \notin Deciding, lock' = lock
      PROVE  LockInv'
  BY <1>1, GotoEffect DEF LockInv, LockExclusive, Procs
<1>2. ASSUME NEW i \in Instances, Work(i) PROVE LockInv'
  <2>0. i \in Procs
    BY DEF Procs
  <2>1. CASE Acquire(i)
    <3>1. CASE lock = 0 /\ lock' = LockUntil /\ Goto(i, "get", loc[i])
      <4>1. \A j \in Instances : pc[j] \notin Deciding
        BY <3>1 DEF LockInv
      <4>2. \A j \in Instances : pc'[j] \in Deciding => j = i
        BY <2>0, <3>1, <4>1, GotoEffect DEF Procs
      <4>3. lock' # 0
        BY <3>1, DedupAssumption DEF DedupAssumption, LockUntil, TypeOK
      <4> QED BY <4>2, <4>3 DEF LockInv, LockExclusive
    <3>2. CASE lock' = lock /\ \E l \in {"panicked", "create"} : \E v : Goto(i, l, v)
      BY <1>1, <2>0, <3>2 DEF Deciding
    <3>3. CASE lock = 0 /\ lock' = LockUntil /\ \E v : Goto(i, "create", v)
      <4>1. \A j \in Instances : pc[j] \notin Deciding
        BY <3>3 DEF LockInv
      <4>2. \A j \in Instances : pc'[j] \notin Deciding
        BY <2>0, <3>3, <4>1, GotoEffect DEF Procs, Deciding
      <4> QED BY <4>2 DEF LockInv, LockExclusive
    <3> QED BY <2>1, <3>1, <3>2, <3>3 DEF Acquire
  <2>2. CASE Get(i)
    <3>1. pc[i] \in Deciding /\ lock' = lock /\ \E v : Goto(i, "release", v)
      BY <2>2 DEF Get, Deciding, redis
    <3> QED BY <2>0, <3>1, GotoEffect DEF LockInv, LockExclusive, Procs
  <2>3. CASE Release(i)
    <3>1. pc[i] \in Deciding /\ \E l \in {"create", "count"} : \E v : Goto(i, l, v)
      BY <2>3 DEF Release, Deciding
    <3>2. \A j \in Instances : pc'[j] \notin Deciding
      BY <2>0, <3>1, GotoEffect DEF LockInv, LockExclusive, Procs, Deciding
    <3> QED BY <3>2 DEF LockInv, LockExclusive
  <2>4. CASE Create(i) \/ Record(i) \/ Count(i) \/ Update(i)
    <3>1. lock' = lock /\ \E l \in {"record", "idle", "update", "touchGet"} : \E v : Goto(i, l, v)
      BY <2>4 DEF Create, Record, Count, Update, redis
    <3> QED BY <1>1, <2>0, <3>1 DEF Deciding
  <2>5. CASE TouchGet(i) \/ TouchSet(i) \/ Escalate(i) \/ MarkGet(i) \/ MarkSet(i)
    <3>1. lock' = lock /\ \E l \in {"touchSet", "escalate", "idle", "markGet", "markSet"} : \E v : Goto(i, l, v)
      BY <2>5 DEF TouchGet, TouchSet, Escalate, MarkGet, MarkSet, AfterTouch, redis
    <3> QED BY <1>1, <2>0, <3>1 DEF Deciding
  <2>6. CASE RemoveDedupeInfo(i) \/ SetSilentPeriod(i)
    <3>1. lock' = lock /\ \E l \in {"silence", "idle"} : \E v : Goto(i, l, v)
      BY <2>6 DEF RemoveDedupeInfo, SetSilentPeriod
    <3> QED BY <1>1, <2>0, <3>1 DEF Deciding
  <2> QED BY <1>2, <2>1, <2>2, <2>3, <2>4, <2>5, <2>6 DEF Work
<1>3. ASSUME NEW i \in Instances, \E s \in IssueSeverities : Detect(i, s) PROVE LockInv'
  BY <1>1, <1>3 DEF Detect, redis, Deciding, Procs
<1>4. ASSUME NEW i \in Instances, Resolve(i) PROVE LockInv'
  BY <1>1, <1>4 DEF Resolve, redis, Deciding, Procs
<1>5. ASSUME NEW t \in Tasks, (\E s \in IssueSeverities : TaskCheck(t, s)) \/ TaskInsert(t)
      PROVE  LockInv'
  <2>1. lock' = lock /\ \E l \in {"insert", "idle"} : \E v : Goto(t, l, v)
    BY <1>5 DEF TaskCheck, TaskInsert, redis
  <2> QED BY <1>1, <2>1 DEF Deciding, Procs
<1>6. ASSUME NEW p \in Procs, Crash(p) \/ Restart(p) PROVE LockInv'
  BY <1>1, <1>6 DEF Crash, Restart, redis, Deciding
<1>7. CASE Tick
  <2>1. pc' = pc /\ \A i \in Instances : pc[i] \notin Deciding
    BY <1>7 DEF Tick, Deciding, Procs
  <2> QED BY <2>1 DEF LockInv, LockExclusive
<1>8. CASE UNCHANGED vars \/ \E a \in AlertIds : Acknowledge(a)
  BY <1>8 DEF vars, redis, Acknowledge, LockInv, LockExclusive
<1> QED BY <1>2, <1>3, <1>4, <1>5, <1>6, <1>7, <1>8 DEF Next

(* When no process stalls, any number of instances take turns at deciding  *)
(* about the key, whatever Redis, the database and crashes do: no DEL      *)
(* deletes the lock of another instance.  That two alerts are created all  *)
(* the same comes from the lock being released before the INSERT.          *)
THEOREM LockExcludes ==
  ASSUME "stall" \notin Faults
  PROVE  Spec => []LockExclusive
<1>1. Init => LockInv
  BY DEF Init, LockInv, LockExclusive, Deciding, Procs
<1>2. TypeOK /\ LockInv /\ [Next]_vars => LockInv'
  BY LockInvStep
<1>3. LockInv => LockExclusive
  BY DEF LockInv
<1> QED BY <1>1, <1>2, <1>3, TypeCorrect, PTL DEF Spec

-----------------------------------------------------------------------------
(* One alert-service instance, as docker-compose starts it, and a Redis    *)
(* that answers.  The promises of the deduplication that racing instances  *)
(* and lost answers break hold then; each proof says which of the other    *)
(* faults its promise survives.                                            *)
Alone == \E i : Instances = {i}

(* What the steps of an instance do to its own place in the code and to    *)
(* what is shared, when Redis does not fail.                               *)
Moves(i, l, v) == pc'[i] = l /\ loc'[i] = IF l = "idle" THEN NoLocal ELSE v
Waits(i)       == pc'[i] = pc[i] /\ loc'[i] = loc[i]
NewRow(p)      == [status |-> "active", sev |-> loc[p].sev, count |-> 1,
                   at |-> loc[p].at, by |-> p]
Inserts(a, p)  == ~Exists(a) /\ alerts' = [alerts EXCEPT ![a] = NewRow(p)]
Same           == UNCHANGED <<alerts, dedupe, now>>

LEMMA CheckEffects ==
  ASSUME TypeOK, ~RedisFails, NEW i \in Instances
  PROVE  /\ \A s \in IssueSeverities : Detect(i, s) =>
              /\ pc[i] = "idle" /\ silent = 0 /\ Same /\ silent' = silent
              /\ Moves(i, "lock", [NoLocal EXCEPT !.sev = s])
         /\ Acquire(i) =>
              /\ pc[i] = "lock" /\ Same /\ silent' = silent
              /\ Moves(i, "get", loc[i]) \/ Moves(i, "panicked", NoLocal)
         /\ Get(i) =>
              /\ pc[i] = "get" /\ Same /\ silent' = silent
              /\ \/ /\ InWindow
                    /\ Moves(i, "release", [loc[i] EXCEPT !.id  = dedupe.id,
                                                          !.esc = ShouldEscalate(loc[i].sev)])
                 \/ ~InWindow /\ Moves(i, "release", loc[i])
         /\ Release(i) =>
              /\ pc[i] = "release" /\ Same /\ silent' = silent
              /\ Moves(i, IF loc[i].id = Null THEN "create" ELSE "count",
                       [loc[i] EXCEPT !.at = now])
         /\ Create(i) =>
              /\ pc[i] = "create" /\ UNCHANGED <<dedupe, now>> /\ silent' = silent
              /\ \/ \E a \in AlertIds : /\ Inserts(a, i)
                                        /\ \/ Moves(i, "record", [loc[i] EXCEPT !.id = a])
                                           \/ AnswerLost /\ Moves(i, "idle", NoLocal)
                 \/ alerts' = alerts /\ Moves(i, "idle", NoLocal)
         /\ Record(i) =>
              /\ pc[i] = "record" /\ UNCHANGED <<alerts, now>> /\ silent' = silent
              /\ dedupe' = [id |-> loc[i].id, count |-> 1, last |-> now,
                            escalated |-> FALSE, exp |-> now + RecordTTL]
              /\ Moves(i, "idle", NoLocal)
<1>1. i \in Procs
  BY DEF Procs
<1>2. \A l, v : Goto(i, l, v) => Moves(i, l, v)
  BY <1>1, GotoEffect DEF Moves
<1>3. \A s \in IssueSeverities : Detect(i, s) =>
        /\ pc[i] = "idle" /\ silent = 0 /\ Same /\ silent' = silent
        /\ Moves(i, "lock", [NoLocal EXCEPT !.sev = s])
  BY <1>2 DEF Detect, NotSilenced, Same, redis
<1>4. Acquire(i) => /\ pc[i] = "lock" /\ Same /\ silent' = silent
                    /\ Moves(i, "get", loc[i]) \/ Moves(i, "panicked", NoLocal)
  BY <1>2 DEF Acquire, Same, Stay
<1>5. Get(i) =>
        /\ pc[i] = "get" /\ Same /\ silent' = silent
        /\ \/ /\ InWindow
              /\ Moves(i, "release", [loc[i] EXCEPT !.id  = dedupe.id,
                                                    !.esc = ShouldEscalate(loc[i].sev)])
           \/ ~InWindow /\ Moves(i, "release", loc[i])
  BY <1>2 DEF Get, Same, Stay, redis
<1>6. Release(i) =>
        /\ pc[i] = "release" /\ Same /\ silent' = silent
        /\ Moves(i, IF loc[i].id = Null THEN "create" ELSE "count", [loc[i] EXCEPT !.at = now])
  BY <1>2 DEF Release, Same, Stay
<1>7. Create(i) =>
        /\ pc[i] = "create" /\ UNCHANGED <<dedupe, now>> /\ silent' = silent
        /\ \/ \E a \in AlertIds : /\ Inserts(a, i)
                                  /\ \/ Moves(i, "record", [loc[i] EXCEPT !.id = a])
                                     \/ AnswerLost /\ Moves(i, "idle", NoLocal)
           \/ alerts' = alerts /\ Moves(i, "idle", NoLocal)
  BY <1>2 DEF Create, Stay, redis, Inserts, NewRow
<1>8. Record(i) =>
        /\ pc[i] = "record" /\ UNCHANGED <<alerts, now>> /\ silent' = silent
        /\ dedupe' = [id |-> loc[i].id, count |-> 1, last |-> now,
                      escalated |-> FALSE, exp |-> now + RecordTTL]
        /\ Moves(i, "idle", NoLocal)
  BY <1>2 DEF Record, Stay
<1> QED BY <1>3, <1>4, <1>5, <1>6, <1>7, <1>8

LEMMA UpdateEffects ==
  ASSUME TypeOK, ~RedisFails, NEW i \in Instances
  PROVE  /\ Count(i) =>
              /\ pc[i] = "count" /\ Same /\ silent' = silent
              /\ Moves(i, "update", [loc[i] EXCEPT !.count = dedupe.count + 1])
         /\ Update(i) =>
              /\ pc[i] = "update" /\ UNCHANGED <<dedupe, now>> /\ silent' = silent
              /\ \/ /\ alerts' = [alerts EXCEPT ![loc[i].id].count = loc[i].count]
                    /\ Moves(i, "touchGet", loc[i]) \/ (AnswerLost /\ Moves(i, "idle", NoLocal))
                 \/ alerts' = alerts /\ Moves(i, "idle", NoLocal)
         /\ TouchGet(i) =>
              /\ pc[i] = "touchGet" /\ Same /\ silent' = silent
              /\ \/ /\ Present
                    /\ Moves(i, "touchSet",
                             [loc[i] EXCEPT !.copy = [dedupe EXCEPT !.last = now,
                                                                    !.count = dedupe.count + 1]])
                 \/ ~Present /\ Moves(i, AfterTouch(i), loc[i])
         /\ TouchSet(i) =>
              /\ pc[i] = "touchSet" /\ UNCHANGED <<alerts, now>> /\ silent' = silent
              /\ dedupe' = [loc[i].copy EXCEPT !.exp = now + RecordTTL]
              /\ Moves(i, AfterTouch(i), [loc[i] EXCEPT !.copy = NoDedupe])
         /\ Escalate(i) =>
              /\ pc[i] = "escalate" /\ UNCHANGED <<dedupe, now>> /\ silent' = silent
              /\ \/ /\ alerts' = [alerts EXCEPT ![loc[i].id].sev = EscalateSeverity(loc[i].sev)]
                    /\ Moves(i, "markGet", loc[i]) \/ (AnswerLost /\ Moves(i, "idle", NoLocal))
                 \/ alerts' = alerts /\ Moves(i, "idle", NoLocal)
         /\ MarkGet(i) =>
              /\ pc[i] = "markGet" /\ Same /\ silent' = silent
              /\ \/ /\ Present
                    /\ Moves(i, "markSet",
                             [loc[i] EXCEPT !.copy = [dedupe EXCEPT !.escalated = TRUE]])
                 \/ ~Present /\ Moves(i, "idle", NoLocal)
         /\ MarkSet(i) =>
              /\ pc[i] = "markSet" /\ UNCHANGED <<alerts, now>> /\ silent' = silent
              /\ dedupe' = [loc[i].copy EXCEPT !.exp = now + RecordTTL]
              /\ Moves(i, "idle", NoLocal)
<1>1. i \in Procs
  BY DEF Procs
<1>2. \A l, v : Goto(i, l, v) => Moves(i, l, v)
  BY <1>1, GotoEffect DEF Moves
<1>3. Count(i) => /\ pc[i] = "count" /\ Same /\ silent' = silent
                  /\ Moves(i, "update", [loc[i] EXCEPT !.count = dedupe.count + 1])
  BY <1>2 DEF Count, Same, Stay, redis
<1>4. Update(i) =>
        /\ pc[i] = "update" /\ UNCHANGED <<dedupe, now>> /\ silent' = silent
        /\ \/ /\ alerts' = [alerts EXCEPT ![loc[i].id].count = loc[i].count]
              /\ Moves(i, "touchGet", loc[i]) \/ (AnswerLost /\ Moves(i, "idle", NoLocal))
           \/ alerts' = alerts /\ Moves(i, "idle", NoLocal)
  BY <1>2 DEF Update, Stay, redis
<1>5. TouchGet(i) =>
        /\ pc[i] = "touchGet" /\ Same /\ silent' = silent
        /\ \/ /\ Present
              /\ Moves(i, "touchSet",
                       [loc[i] EXCEPT !.copy = [dedupe EXCEPT !.last = now,
                                                              !.count = dedupe.count + 1]])
           \/ ~Present /\ Moves(i, AfterTouch(i), loc[i])
  BY <1>2 DEF TouchGet, Same, Stay, redis
<1>6. TouchSet(i) =>
        /\ pc[i] = "touchSet" /\ UNCHANGED <<alerts, now>> /\ silent' = silent
        /\ dedupe' = [loc[i].copy EXCEPT !.exp = now + RecordTTL]
        /\ Moves(i, AfterTouch(i), [loc[i] EXCEPT !.copy = NoDedupe])
  BY <1>2 DEF TouchSet, Stay
<1>7. Escalate(i) =>
        /\ pc[i] = "escalate" /\ UNCHANGED <<dedupe, now>> /\ silent' = silent
        /\ \/ /\ alerts' = [alerts EXCEPT ![loc[i].id].sev = EscalateSeverity(loc[i].sev)]
              /\ Moves(i, "markGet", loc[i]) \/ (AnswerLost /\ Moves(i, "idle", NoLocal))
           \/ alerts' = alerts /\ Moves(i, "idle", NoLocal)
  BY <1>2 DEF Escalate, Stay, redis
<1>8. MarkGet(i) =>
        /\ pc[i] = "markGet" /\ Same /\ silent' = silent
        /\ \/ /\ Present
              /\ Moves(i, "markSet", [loc[i] EXCEPT !.copy = [dedupe EXCEPT !.escalated = TRUE]])
           \/ ~Present /\ Moves(i, "idle", NoLocal)
  BY <1>2 DEF MarkGet, Same, Stay, redis
<1>9. MarkSet(i) =>
        /\ pc[i] = "markSet" /\ UNCHANGED <<alerts, now>> /\ silent' = silent
        /\ dedupe' = [loc[i].copy EXCEPT !.exp = now + RecordTTL]
        /\ Moves(i, "idle", NoLocal)
  BY <1>2 DEF MarkSet, Stay
<1> QED BY <1>3, <1>4, <1>5, <1>6, <1>7, <1>8, <1>9

LEMMA ResolveEffects ==
  ASSUME TypeOK, ~RedisFails, NEW i \in Instances
  PROVE  /\ Resolve(i) =>
              /\ pc[i] = "idle" /\ UNCHANGED <<dedupe, now>> /\ silent' = silent
              /\ alerts' = [a \in AlertIds |-> IF alerts[a].status = "active"
                                               THEN [alerts[a] EXCEPT !.status = "resolved"]
                                               ELSE alerts[a]]
              /\ Moves(i, "remove", NoLocal) \/ (AnswerLost /\ Moves(i, "idle", NoLocal))
         /\ RemoveDedupeInfo(i) =>
              /\ pc[i] = "remove" /\ UNCHANGED <<alerts, now>> /\ silent' = silent
              /\ dedupe' = NoDedupe /\ Moves(i, "silence", NoLocal)
         /\ SetSilentPeriod(i) => pc[i] = "silence" /\ Same /\ Moves(i, "idle", NoLocal)
         /\ Crash(i) =>
              "crash" \in Faults /\ Same /\ silent' = silent /\ Moves(i, "down", NoLocal)
         /\ Restart(i) =>
              /\ pc[i] \in {"down", "panicked"} /\ Same /\ silent' = silent
              /\ Moves(i, "idle", NoLocal)
<1>1. i \in Procs
  BY DEF Procs
<1>2. \A l, v : Goto(i, l, v) => Moves(i, l, v)
  BY <1>1, GotoEffect DEF Moves
<1>3. Resolve(i) =>
        /\ pc[i] = "idle" /\ UNCHANGED <<dedupe, now>> /\ silent' = silent
        /\ alerts' = [a \in AlertIds |-> IF alerts[a].status = "active"
                                         THEN [alerts[a] EXCEPT !.status = "resolved"]
                                         ELSE alerts[a]]
        /\ Moves(i, "remove", NoLocal) \/ (AnswerLost /\ Moves(i, "idle", NoLocal))
  BY <1>2 DEF Resolve, Stay, redis
<1>4. RemoveDedupeInfo(i) =>
        /\ pc[i] = "remove" /\ UNCHANGED <<alerts, now>> /\ silent' = silent
        /\ dedupe' = NoDedupe /\ Moves(i, "silence", NoLocal)
  BY <1>2 DEF RemoveDedupeInfo, Stay
<1>5. SetSilentPeriod(i) => pc[i] = "silence" /\ Same /\ Moves(i, "idle", NoLocal)
  BY <1>2 DEF SetSilentPeriod, Same, Stay
<1>6. Crash(i) => "crash" \in Faults /\ Same /\ silent' = silent /\ Moves(i, "down", NoLocal)
  BY <1>2 DEF Crash, Same, Stay, redis
<1>7. Restart(i) =>
        /\ pc[i] \in {"down", "panicked"} /\ Same /\ silent' = silent /\ Moves(i, "idle", NoLocal)
  BY <1>2 DEF Restart, Same, Stay, redis
<1> QED BY <1>3, <1>4, <1>5, <1>6, <1>7

(* With one instance i, a step is one of i, or one beside it: a task, the  *)
(* administrator or the clock.                                             *)
Runs(i) ==
  \/ \E s \in IssueSeverities : Detect(i, s)
  \/ Resolve(i) \/ Work(i) \/ Crash(i) \/ Restart(i)

Acknowledges(a) == Exists(a) /\ alerts' = [alerts EXCEPT ![a].status = "acknowledged"]

Beside(i) ==
  /\ Waits(i)
  /\ \/ UNCHANGED <<dedupe, now, silent, alerts>>
     \/ /\ UNCHANGED <<dedupe, now, silent>>
        /\ \/ \E t \in Tasks, a \in AlertIds : Inserts(a, t)
           \/ \E a \in AlertIds : Acknowledges(a)
     \/ /\ now' = now + 1 /\ alerts' = alerts
        /\ silent' = silent \/ silent' = 0
        /\ \/ dedupe' = dedupe
           \/ dedupe' = NoDedupe /\ dedupe.exp <= now + 1
        /\ "stall" \in Faults \/ pc[i] \in {"idle", "down", "panicked"}

LEMMA SoloStep ==
  ASSUME TypeOK, Alone, NEW i \in Instances, [Next]_vars
  PROVE  Runs(i) \/ Beside(i)
<1>0. i \in Procs /\ \A t \in Tasks : t \in Procs /\ t # i
  BY DedupAssumption DEF Procs
<1>1. ASSUME NEW t \in Tasks, NEW l, NEW v, Goto(t, l, v) PROVE Waits(i)
  BY <1>0, <1>1, GotoEffect DEF Waits
<1>2. ASSUME NEW j \in Instances,
             (\E s \in IssueSeverities : Detect(j, s)) \/ Resolve(j) \/ Work(j)
      PROVE  Runs(i)
  <2>1. j = i
    BY DEF Alone
  <2> QED BY <1>2, <2>1 DEF Runs
<1>3. ASSUME NEW t \in Tasks, NEW s \in IssueSeverities, TaskCheck(t, s) PROVE Beside(i)
  BY <1>1, <1>3 DEF TaskCheck, Beside, redis
<1>4. ASSUME NEW t \in Tasks, TaskInsert(t) PROVE Beside(i)
  <2>1. Waits(i)
    BY <1>1, <1>4 DEF TaskInsert
  <2>2. UNCHANGED <<dedupe, now, silent>>
    BY <1>4 DEF TaskInsert, redis, Stay
  <2>3. alerts' = alerts \/ \E a \in AlertIds : Inserts(a, t)
    BY <1>4 DEF TaskInsert, Inserts, NewRow
  <2> QED BY <2>1, <2>2, <2>3 DEF Beside
<1>5. ASSUME NEW a \in AlertIds, Acknowledge(a) PROVE Beside(i)
  BY <1>5 DEF Acknowledge, Acknowledges, Beside, Waits, redis, Stay
<1>6. ASSUME NEW p \in Procs, Crash(p) \/ Restart(p) PROVE Runs(i) \/ Beside(i)
  <2>1. CASE p \in Instances
    <3>1. p = i
      BY <2>1 DEF Alone
    <3> QED BY <1>6, <3>1 DEF Runs
  <2>2. CASE p \in Tasks
    <3>1. Waits(i)
      BY <1>1, <1>6, <2>2 DEF Crash, Restart
    <3> QED BY <1>6, <3>1 DEF Crash, Restart, Beside, redis, Stay
  <2> QED BY <2>1, <2>2 DEF Procs
<1>7. CASE Tick
  <2>1. dedupe' = dedupe \/ (dedupe' = NoDedupe /\ dedupe.exp <= now + 1)
    BY <1>7 DEF Tick, TypeOK, DedupeRecord
  <2>2. /\ Waits(i) /\ now' = now + 1 /\ alerts' = alerts
        /\ silent' = silent \/ silent' = 0
        /\ "stall" \in Faults \/ pc[i] \in {"idle", "down", "panicked"}
    BY <1>0, <1>7 DEF Tick, Waits
  <2> QED BY <2>1, <2>2 DEF Beside
<1>8. CASE UNCHANGED vars
  BY <1>8 DEF vars, redis, Beside, Waits
<1> QED BY <1>2, <1>3, <1>4, <1>5, <1>6, <1>7, <1>8 DEF Next

(* What a statement leaves in the rows, column by column. *)
LEMMA CountWritten ==
  ASSUME TypeOK, NEW x, NEW n, alerts' = [alerts EXCEPT ![x].count = n], NEW a \in AlertIds
  PROVE  /\ alerts'[a].count = IF a = x THEN n ELSE alerts[a].count
         /\ alerts'[a].status = alerts[a].status /\ alerts'[a].sev = alerts[a].sev
         /\ alerts'[a].at = alerts[a].at /\ alerts'[a].by = alerts[a].by
<1>1. alerts[a] \in AlertRow
  BY DEF TypeOK
<1>2. alerts'[a] = IF a = x THEN [alerts[a] EXCEPT !.count = n] ELSE alerts[a]
  BY DEF TypeOK
<1> QED BY <1>1, <1>2 DEF AlertRow

LEMMA SevWritten ==
  ASSUME TypeOK, NEW x, NEW n, alerts' = [alerts EXCEPT ![x].sev = n], NEW a \in AlertIds
  PROVE  /\ alerts'[a].sev = IF a = x THEN n ELSE alerts[a].sev
         /\ alerts'[a].status = alerts[a].status /\ alerts'[a].count = alerts[a].count
         /\ alerts'[a].at = alerts[a].at /\ alerts'[a].by = alerts[a].by
<1>1. alerts[a] \in AlertRow
  BY DEF TypeOK
<1>2. alerts'[a] = IF a = x THEN [alerts[a] EXCEPT !.sev = n] ELSE alerts[a]
  BY DEF TypeOK
<1> QED BY <1>1, <1>2 DEF AlertRow

LEMMA StatusWritten ==
  ASSUME TypeOK, NEW x, NEW n, alerts' = [alerts EXCEPT ![x].status = n], NEW a \in AlertIds
  PROVE  /\ alerts'[a].status = IF a = x THEN n ELSE alerts[a].status
         /\ alerts'[a].sev = alerts[a].sev /\ alerts'[a].count = alerts[a].count
         /\ alerts'[a].at = alerts[a].at /\ alerts'[a].by = alerts[a].by
<1>1. alerts[a] \in AlertRow
  BY DEF TypeOK
<1>2. alerts'[a] = IF a = x THEN [alerts[a] EXCEPT !.status = n] ELSE alerts[a]
  BY DEF TypeOK
<1> QED BY <1>1, <1>2 DEF AlertRow

LEMMA RowInserted ==
  ASSUME TypeOK, NEW x \in AlertIds, NEW p, Inserts(x, p)
  PROVE  \A a \in AlertIds :
           IF a = x
           THEN /\ alerts'[a].status = "active" /\ alerts'[a].sev = loc[p].sev
                /\ alerts'[a].count = 1 /\ alerts'[a].at = loc[p].at /\ alerts'[a].by = p
           ELSE alerts'[a] = alerts[a]
BY DEF Inserts, NewRow, TypeOK

LEMMA RowsResolved ==
  ASSUME TypeOK, NEW i, Resolve(i), NEW a \in AlertIds
  PROVE  /\ alerts'[a].status = IF alerts[a].status = "active" THEN "resolved" ELSE alerts[a].status
         /\ alerts'[a].sev = alerts[a].sev /\ alerts'[a].count = alerts[a].count
         /\ alerts'[a].at = alerts[a].at /\ alerts'[a].by = alerts[a].by
<1>1. alerts[a] \in AlertRow
  BY DEF TypeOK
<1>2. alerts'[a] = IF alerts[a].status = "active" THEN [alerts[a] EXCEPT !.status = "resolved"]
                   ELSE alerts[a]
  BY DEF Resolve
<1> QED BY <1>1, <1>2 DEF AlertRow

-----------------------------------------------------------------------------
(* The silent mark stays absent while a check that found it absent goes    *)
(* on; a row that was never inserted has no creator.                       *)
Blank        == \A a \in AlertIds : ~Exists(a) => alerts[a].by \notin Instances
NotMarked(i) == pc[i] \in {"lock", "get", "release", "create"} => silent = 0
SilentInv    == Blank /\ \A i \in Instances : NotMarked(i)

LEMMA BlankStep ==
  ASSUME TypeOK, Blank, [Next]_vars
  PROVE  Blank'
<1> USE DEF Exists, Stay, redis, TypeOK, Blank
<1>1. ASSUME NEW i \in Instances, Work(i) PROVE Blank'
  <2>1. CASE Acquire(i) \/ Get(i) \/ Release(i) \/ Record(i) \/ Count(i)
    BY <2>1 DEF Acquire, Get, Release, Record, Count
  <2>2. CASE Create(i)
    <3>1. alerts' = alerts \/ \E a \in AlertIds : Inserts(a, i)
      BY <2>2 DEF Create, Inserts, NewRow
    <3> QED BY <3>1, RowInserted
  <2>3. CASE Update(i)
    <3>1. alerts' = alerts \/ alerts' = [alerts EXCEPT ![loc[i].id].count = loc[i].count]
      BY <2>3 DEF Update
    <3> QED BY <3>1, CountWritten
  <2>4. CASE TouchGet(i) \/ TouchSet(i) \/ MarkGet(i) \/ MarkSet(i)
    BY <2>4 DEF TouchGet, TouchSet, MarkGet, MarkSet
  <2>5. CASE Escalate(i)
    <3>1. \/ alerts' = alerts
          \/ alerts' = [alerts EXCEPT ![loc[i].id].sev = EscalateSeverity(loc[i].sev)]
      BY <2>5 DEF Escalate
    <3> QED BY <3>1, SevWritten
  <2>6. CASE RemoveDedupeInfo(i) \/ SetSilentPeriod(i)
    BY <2>6 DEF RemoveDedupeInfo, SetSilentPeriod
  <2> QED BY <1>1, <2>1, <2>2, <2>3, <2>4, <2>5, <2>6 DEF Work
<1>2. ASSUME NEW i \in Instances, (\E s \in IssueSeverities : Detect(i, s)) \/ Resolve(i)
      PROVE  Blank'
  BY <1>2, RowsResolved DEF Detect
<1>3. ASSUME NEW t \in Tasks, (\E s \in IssueSeverities : TaskCheck(t, s)) \/ TaskInsert(t)
      PROVE  Blank'
  <2>1. alerts' = alerts \/ \E a \in AlertIds : Inserts(a, t)
    BY <1>3 DEF TaskCheck, TaskInsert, Inserts, NewRow
  <2> QED BY <2>1, RowInserted
<1>4. ASSUME NEW a \in AlertIds, Acknowledge(a) PROVE Blank'
  BY <1>4, StatusWritten DEF Acknowledge
<1>5. ASSUME NEW p \in Procs, Crash(p) \/ Restart(p) PROVE Blank'
  BY <1>5 DEF Crash, Restart
<1>6. CASE Tick \/ UNCHANGED vars
  BY <1>6 DEF Tick, vars
<1> QED BY <1>1, <1>2, <1>3, <1>4, <1>5, <1>6 DEF Next

LEMMA SilentStep ==
  ASSUME Alone, ~RedisFails, TypeOK, SilentInv, [Next]_vars
  PROVE  SilentInv'
<1>1. ASSUME NEW i \in Instances PROVE NotMarked(i)'
  <2>0. NotMarked(i)
    BY DEF SilentInv
  <2>1. CASE Beside(i)
    BY <2>0, <2>1 DEF Beside, Waits, NotMarked
  <2>2. CASE Work(i)
    BY <2>0, <2>2, CheckEffects, UpdateEffects, ResolveEffects
    DEF Work, NotMarked, Moves, AfterTouch, Same
  <2>3. CASE \E s \in IssueSeverities : Detect(i, s)
    BY <2>3, CheckEffects DEF Moves, NotMarked
  <2>4. CASE Resolve(i) \/ Crash(i) \/ Restart(i)
    BY <2>4, ResolveEffects DEF Moves, NotMarked
  <2> QED BY <2>1, <2>2, <2>3, <2>4, SoloStep DEF Runs
<1> QED BY <1>1, BlankStep DEF SilentInv

(* With one instance and a Redis that answers, no alert is created while   *)
(* the silent mark is set: only this instance sets the mark, and never     *)
(* between its look at the mark and its INSERT.  Crashes, stalls and       *)
(* database errors do not matter.                                          *)
THEOREM SilentPeriodRespected ==
  ASSUME Alone, ~RedisFails
  PROVE  Spec => SilentRespected
<1>1. Init => SilentInv
  BY DedupAssumption
  DEF Init, SilentInv, Blank, NotMarked, NoRow, Exists, DedupAssumption, Procs
<1>2. TypeOK /\ SilentInv /\ [Next]_vars => SilentInv'
  BY SilentStep
<1>3. TypeOK /\ SilentInv /\ [Next]_vars =>
        [\A a \in AlertIds : ~Exists(a) /\ alerts'[a].by \in Instances => silent = 0]_vars
  <2> SUFFICES ASSUME TypeOK, SilentInv, [Next]_vars, NEW a \in AlertIds,
                      ~Exists(a), alerts'[a].by \in Instances
               PROVE  silent = 0
    OBVIOUS
  <2>1. alerts[a].by \notin Instances
    BY DEF SilentInv, Blank
  <2>2. PICK i \in Instances : i = alerts'[a].by
    OBVIOUS
  <2>3. CASE Beside(i)
    <3>1. \A t \in Tasks : t \notin Instances
      BY DedupAssumption DEF DedupAssumption
    <3> QED BY <2>1, <2>2, <2>3, <3>1 DEF Beside, Inserts, NewRow, Acknowledges, TypeOK, Exists
  <2>4. CASE Create(i)
    BY <2>4, CheckEffects DEF SilentInv, NotMarked
  <2>5. CASE Update(i) \/ Escalate(i) \/ Resolve(i)
    <3>1. CASE Update(i)
      <4>1. alerts' = alerts \/ alerts' = [alerts EXCEPT ![loc[i].id].count = loc[i].count]
        BY <3>1 DEF Update
      <4> QED BY <2>1, <2>2, <4>1, CountWritten
    <3>2. CASE Escalate(i)
      <4>1. alerts' = alerts \/ alerts' = [alerts EXCEPT ![loc[i].id].sev = EscalateSeverity(loc[i].sev)]
        BY <3>2 DEF Escalate
      <4> QED BY <2>1, <2>2, <4>1, SevWritten
    <3>3. CASE Resolve(i)
      BY <2>1, <3>3, RowsResolved
    <3> QED BY <2>5, <3>1, <3>2, <3>3
  <2>6. alerts' = alerts => silent = 0
    BY <2>1
  <2>7. CASE Work(i)
    BY <2>4, <2>5, <2>6, <2>7, CheckEffects, UpdateEffects, ResolveEffects DEF Work, Same
  <2>8. CASE (\E s \in IssueSeverities : Detect(i, s)) \/ Crash(i) \/ Restart(i)
    BY <2>6, <2>8, CheckEffects, ResolveEffects DEF Same
  <2> QED BY <2>3, <2>5, <2>7, <2>8, SoloStep DEF Runs
<1> QED BY <1>1, <1>2, <1>3, TypeCorrect, PTL DEF Spec, SilentRespected

-----------------------------------------------------------------------------
(* The locals an instance goes on with.                                    *)
LEMMA LocalsWritten ==
  ASSUME NEW v \in Locals, NEW x
  PROVE  /\ [v EXCEPT !.id = x].copy = v.copy /\ [v EXCEPT !.id = x].id = x
         /\ [v EXCEPT !.id = x].sev = v.sev /\ [v EXCEPT !.id = x].esc = v.esc
         /\ [v EXCEPT !.id = x].at = v.at
         /\ [v EXCEPT !.at = x].copy = v.copy /\ [v EXCEPT !.at = x].id = v.id
         /\ [v EXCEPT !.at = x].sev = v.sev /\ [v EXCEPT !.at = x].esc = v.esc
         /\ [v EXCEPT !.at = x].at = x
         /\ [v EXCEPT !.count = x].copy = v.copy /\ [v EXCEPT !.count = x].id = v.id
         /\ [v EXCEPT !.count = x].sev = v.sev /\ [v EXCEPT !.count = x].esc = v.esc
         /\ [v EXCEPT !.count = x].count = x
         /\ [v EXCEPT !.copy = x].copy = x /\ [v EXCEPT !.copy = x].id = v.id
         /\ [v EXCEPT !.copy = x].sev = v.sev /\ [v EXCEPT !.copy = x].esc = v.esc
BY DEF Locals

LEMMA DecisionWritten ==
  ASSUME NEW v \in Locals, NEW x, NEW y
  PROVE  /\ [v EXCEPT !.id = x, !.esc = y].copy = v.copy
         /\ [v EXCEPT !.id = x, !.esc = y].id = x /\ [v EXCEPT !.id = x, !.esc = y].esc = y
         /\ [v EXCEPT !.id = x, !.esc = y].sev = v.sev
BY DEF Locals

LEMMA RecordWritten ==
  ASSUME NEW d \in DedupeRecord, NEW x, NEW y
  PROVE  /\ [d EXCEPT !.last = x, !.count = y].id = d.id
         /\ [d EXCEPT !.last = x, !.count = y].count = y
         /\ [d EXCEPT !.last = x, !.count = y].last = x
         /\ [d EXCEPT !.last = x, !.count = y].escalated = d.escalated
         /\ [d EXCEPT !.escalated = TRUE].id = d.id
         /\ [d EXCEPT !.escalated = TRUE].count = d.count
         /\ [d EXCEPT !.escalated = TRUE].last = d.last
         /\ [d EXCEPT !.escalated = TRUE].escalated = TRUE
         /\ [d EXCEPT !.exp = x].id = d.id /\ [d EXCEPT !.exp = x].count = d.count
         /\ [d EXCEPT !.exp = x].last = d.last /\ [d EXCEPT !.exp = x].exp = x
         /\ [d EXCEPT !.exp = x].escalated = d.escalated
BY DEF DedupeRecord

LEMMA NothingFields ==
  /\ NoLocal.id = Null /\ NoLocal.esc = FALSE /\ NoLocal.copy = NoDedupe
  /\ NoDedupe.id = Null /\ NoLocal \in Locals
  /\ \A s : [NoLocal EXCEPT !.sev = s].id = Null /\ [NoLocal EXCEPT !.sev = s].esc = FALSE
            /\ [NoLocal EXCEPT !.sev = s].sev = s /\ [NoLocal EXCEPT !.sev = s].copy = NoDedupe
BY NullTypes DEF NoLocal, NoDedupe

(* Nothing that a detection may be merged into is resolved: not the alert  *)
(* of the record, unless the instance is about to remove the record, nor   *)
(* the alert or the copy of the record the instance works with.            *)
Open(id)      == id # Null => alerts[id].status # "resolved"
Clean(d, l, v) == /\ l # "remove" => Open(d.id)
                  /\ Open(v.id) /\ Open(v.copy.id)
                  /\ l \in {"count", "update"} => v.id # Null
OpenInv       == \A i \in Instances : Clean(dedupe, pc[i], loc[i])

LEMMA OpenStep ==
  ASSUME Alone, ~RedisFails, "crash" \notin Faults, ~AnswerLost, TypeOK, OpenInv, [Next]_vars
  PROVE  OpenInv'
<1> SUFFICES ASSUME NEW i \in Instances PROVE Clean(dedupe, pc[i], loc[i])'
  BY DEF OpenInv
<1>1. /\ Clean(dedupe, pc[i], loc[i]) /\ loc[i] \in Locals /\ dedupe \in DedupeRecord
      /\ loc[i].copy \in DedupeRecord
      /\ {loc[i].id, loc[i].copy.id, dedupe.id} \subseteq AlertIds \cup {Null}
  BY DEF OpenInv, TypeOK, Locals, DedupeRecord, Procs
<1> DEFINE Keeps == \A a \in AlertIds :
                      alerts[a].status # "resolved" => alerts'[a].status # "resolved"
<1>2. ASSUME Keeps, Clean(dedupe', pc'[i], loc'[i]) PROVE Clean(dedupe, pc[i], loc[i])'
  <2>1. {dedupe'.id, loc'[i].id, loc'[i].copy.id} \subseteq AlertIds \cup {Null}
    BY StepType DEF TypeOK, Locals, DedupeRecord, Procs
  <2> QED BY <1>2, <2>1 DEF Clean, Open
<1>3. alerts' = alerts => Keeps
  OBVIOUS
<1>4. \A a \in AlertIds, p \in Procs : Inserts(a, p) => Keeps
  BY RowInserted
<1>5. \A l, v : Moves(i, l, v) /\ Clean(dedupe', l, v) => Clean(dedupe', pc'[i], loc'[i])
  BY NothingFields DEF Moves, Clean, Open
<1>6. CASE Beside(i)
  <2>1. \A a \in AlertIds : Acknowledges(a) => Keeps
    BY StatusWritten DEF Acknowledges
  <2>2. Keeps /\ Waits(i) /\ (dedupe' = dedupe \/ dedupe' = NoDedupe)
    BY <1>3, <1>4, <1>6, <2>1 DEF Beside, Procs
  <2> QED BY <1>1, <1>2, <2>2, NothingFields DEF Clean, Open, Waits
<1>7. ASSUME NEW s \in IssueSeverities, Detect(i, s) PROVE Clean(dedupe, pc[i], loc[i])'
  <2>1. Clean(dedupe, "lock", [NoLocal EXCEPT !.sev = s])
    BY <1>1, <1>7, CheckEffects, NothingFields DEF Clean, Open
  <2> QED BY <1>2, <1>3, <1>5, <1>7, <2>1, CheckEffects DEF Same
<1>8. CASE Acquire(i)
  <2>1. Clean(dedupe, "get", loc[i]) /\ Clean(dedupe, "panicked", NoLocal)
    BY <1>1, <1>8, CheckEffects, NothingFields DEF Clean, Open
  <2> QED BY <1>2, <1>3, <1>5, <1>8, <2>1, CheckEffects DEF Same
<1>9. CASE Get(i)
  <2>1. pc[i] = "get"
    BY <1>9, CheckEffects
  <2>2. \A y \in BOOLEAN : Clean(dedupe, "release", [loc[i] EXCEPT !.id = dedupe.id, !.esc = y])
    BY <1>1, <2>1 DEF Clean, Open, Locals
  <2>3. Clean(dedupe, "release", loc[i]) /\ ShouldEscalate(loc[i].sev) \in BOOLEAN
    BY <1>1, <2>1 DEF Clean, ShouldEscalate
  <2> QED BY <1>2, <1>3, <1>5, <1>9, <2>2, <2>3, CheckEffects DEF Same
<1>10. CASE Release(i)
  <2>1. pc[i] = "release"
    BY <1>10, CheckEffects
  <2>2. Clean(dedupe, IF loc[i].id = Null THEN "create" ELSE "count", [loc[i] EXCEPT !.at = now])
    BY <1>1, <2>1 DEF Clean, Open, Locals
  <2> QED BY <1>2, <1>3, <1>5, <1>10, <2>2, CheckEffects DEF Same
<1>11. CASE Create(i)
  <2>1. pc[i] = "create" /\ dedupe' = dedupe
    BY <1>11, CheckEffects
  <2>2. CASE alerts' = alerts /\ Moves(i, "idle", NoLocal)
    <3>1. Clean(dedupe, "idle", NoLocal)
      BY <1>1, <2>1, NothingFields DEF Clean, Open
    <3> QED BY <1>2, <1>3, <1>5, <2>1, <2>2, <3>1
  <2>3. ASSUME NEW a \in AlertIds, Inserts(a, i), Moves(i, "record", [loc[i] EXCEPT !.id = a])
        PROVE  Clean(dedupe, pc[i], loc[i])'
    <3>1. Keeps /\ i \in Procs
      BY <1>4, <2>3 DEF Procs
    <3>2. alerts[a].status # "resolved"
      BY <2>3 DEF Inserts, Exists
    <3>3. Clean(dedupe, "record", [loc[i] EXCEPT !.id = a])
      BY <1>1, <2>1, <3>2 DEF Clean, Open, Locals
    <3> QED BY <1>2, <1>5, <2>1, <2>3, <3>1, <3>3
  <2> QED BY <1>11, <2>2, <2>3, CheckEffects
<1>12. CASE Record(i)
  <2>1. /\ pc[i] = "record" /\ alerts' = alerts /\ Moves(i, "idle", NoLocal)
        /\ dedupe' = [id |-> loc[i].id, count |-> 1, last |-> now,
                      escalated |-> FALSE, exp |-> now + RecordTTL]
    BY <1>12, CheckEffects
  <2>2. dedupe'.id = loc[i].id
    BY <2>1
  <2>3. Clean(dedupe', "idle", NoLocal)
    BY <1>1, <2>1, <2>2, NothingFields DEF Clean, Open
  <2> QED BY <1>2, <1>3, <1>5, <2>1, <2>3
<1>13. CASE Count(i)
  <2>1. pc[i] = "count"
    BY <1>13, UpdateEffects
  <2>2. Clean(dedupe, "update", [loc[i] EXCEPT !.count = dedupe.count + 1])
    BY <1>1, <2>1 DEF Clean, Open, Locals
  <2> QED BY <1>2, <1>3, <1>5, <1>13, <2>2, UpdateEffects DEF Same
<1>14. CASE Update(i) \/ Escalate(i)
  <2>1. \/ alerts' = alerts
        \/ alerts' = [alerts EXCEPT ![loc[i].id].count = loc[i].count]
        \/ alerts' = [alerts EXCEPT ![loc[i].id].sev = EscalateSeverity(loc[i].sev)]
    BY <1>14 DEF Update, Escalate
  <2>2. Keeps
    BY <2>1, CountWritten, SevWritten
  <2>3. /\ pc[i] \in {"update", "escalate"} /\ dedupe' = dedupe
        /\ \/ Moves(i, "touchGet", loc[i]) \/ Moves(i, "markGet", loc[i])
           \/ Moves(i, "idle", NoLocal)
    BY <1>14, UpdateEffects
  <2>4. /\ Clean(dedupe, "touchGet", loc[i]) /\ Clean(dedupe, "markGet", loc[i])
        /\ Clean(dedupe, "idle", NoLocal)
    BY <1>1, <2>3, NothingFields DEF Clean, Open
  <2> QED BY <1>2, <1>5, <2>2, <2>3, <2>4
<1>15. CASE TouchGet(i)
  <2>1. pc[i] = "touchGet"
    BY <1>15, UpdateEffects
  <2> DEFINE d == [dedupe EXCEPT !.last = now, !.count = dedupe.count + 1]
  <2>2. d.id = dedupe.id
    BY <1>1 DEF DedupeRecord
  <2>3. \A x : x.id = dedupe.id => Clean(dedupe, "touchSet", [loc[i] EXCEPT !.copy = x])
    BY <1>1, <2>1 DEF Clean, Open, Locals
  <2>4. Clean(dedupe, AfterTouch(i), loc[i])
    BY <1>1, <2>1 DEF Clean, Open, AfterTouch
  <2> QED BY <1>2, <1>3, <1>5, <1>15, <2>2, <2>3, <2>4, UpdateEffects DEF Same
<1>16. CASE MarkGet(i)
  <2>1. pc[i] = "markGet"
    BY <1>16, UpdateEffects
  <2> DEFINE d == [dedupe EXCEPT !.escalated = TRUE]
  <2>2. d.id = dedupe.id
    BY <1>1 DEF DedupeRecord
  <2>3. \A x : x.id = dedupe.id => Clean(dedupe, "markSet", [loc[i] EXCEPT !.copy = x])
    BY <1>1, <2>1 DEF Clean, Open, Locals
  <2>4. Clean(dedupe, "idle", NoLocal)
    BY <1>1, <2>1, NothingFields DEF Clean, Open
  <2> QED BY <1>2, <1>3, <1>5, <1>16, <2>2, <2>3, <2>4, UpdateEffects DEF Same
<1>17. CASE TouchSet(i) \/ MarkSet(i)
  <2>1. /\ pc[i] \in {"touchSet", "markSet"} /\ alerts' = alerts
        /\ dedupe' = [loc[i].copy EXCEPT !.exp = now + RecordTTL]
        /\ \/ Moves(i, AfterTouch(i), [loc[i] EXCEPT !.copy = NoDedupe])
           \/ Moves(i, "idle", NoLocal)
    BY <1>17, UpdateEffects
  <2>2. dedupe'.id = loc[i].copy.id
    BY <1>1, <2>1 DEF DedupeRecord
  <2>3. Clean(dedupe', AfterTouch(i), [loc[i] EXCEPT !.copy = NoDedupe])
    BY <1>1, <2>1, <2>2, NothingFields DEF Clean, Open, Locals, AfterTouch
  <2>4. Clean(dedupe', "idle", NoLocal)
    BY <1>1, <2>1, <2>2, NothingFields DEF Clean, Open
  <2> QED BY <1>2, <1>3, <1>5, <2>1, <2>3, <2>4
<1>18. CASE Resolve(i)
  <2>1. dedupe' = dedupe /\ Moves(i, "remove", NoLocal)
    BY <1>18, ResolveEffects
  <2> QED BY <2>1, NothingFields DEF Clean, Open, Moves
<1>19. CASE RemoveDedupeInfo(i) \/ SetSilentPeriod(i) \/ Restart(i)
  <2>1. /\ pc[i] # "remove" \/ dedupe' = NoDedupe
        /\ alerts' = alerts /\ (dedupe' = dedupe \/ dedupe' = NoDedupe)
        /\ Moves(i, "silence", NoLocal) \/ Moves(i, "idle", NoLocal)
    BY <1>19, ResolveEffects DEF Same
  <2>2. Clean(dedupe', "silence", NoLocal) /\ Clean(dedupe', "idle", NoLocal)
    BY <1>1, <2>1, NothingFields DEF Clean, Open
  <2> QED BY <1>2, <1>3, <1>5, <2>1, <2>2
<1>20. ~Crash(i)
  BY DEF Crash
<1> QED BY <1>6, <1>7, <1>8, <1>9, <1>10, <1>11, <1>12, <1>13, <1>14, <1>15, <1>16, <1>17, <1>18,
           <1>19, <1>20, SoloStep DEF Runs, Work

(* With one instance that is not killed and a Redis that answers, a        *)
(* detection is never merged into a resolved alert: ResolveDeviceAlerts    *)
(* has removed the record before the next check.  A statement that fails   *)
(* without doing anything and an instance that stalls do not matter; one   *)
(* that commits and answers with an error does (~AnswerLost): after such   *)
(* an UPDATE of the resolution the record stays.                           *)
THEOREM DetectionMergedIntoOpen ==
  ASSUME Alone, ~RedisFails, "crash" \notin Faults, ~AnswerLost
  PROVE  Spec => []MergedIntoOpen
<1>1. Init => OpenInv
  BY NothingFields DEF Init, OpenInv, Clean, Open, Procs
<1>2. TypeOK /\ OpenInv /\ [Next]_vars => OpenInv'
  BY OpenStep
<1>3. TypeOK /\ OpenInv => MergedIntoOpen
  BY DEF OpenInv, Clean, Open, MergedIntoOpen
<1> QED BY <1>1, <1>2, <1>3, TypeCorrect, PTL DEF Spec

-----------------------------------------------------------------------------
(* The record d and its row on the way through updateExistingAlert, for an *)
(* instance at l with locals v: the row is one ahead of the record from    *)
(* UpdateOccurrence to RecordAlert.                                        *)
Ahead(n)          == {n, n + 1}
Agree(r, d, l, v) ==
  /\ d.id # Null => r[d.id].count \in Ahead(d.count)
  /\ l \in {"lock", "get"} => v.id = Null
  /\ l = "record" => v.id # Null /\ r[v.id].count = 1
  /\ l \in {"count", "update"} => v.id # Null
  /\ l \in {"release", "count", "update"} /\ d.id # Null => v.id \in {Null, d.id}
  /\ l = "update" /\ d.id # Null => v.count = d.count + 1
  /\ l = "touchGet" /\ d.id # Null => r[d.id].count = d.count + 1
  /\ l = "touchSet" => v.copy.id # Null /\ r[v.copy.id].count = v.copy.count
  /\ l = "markSet" => v.copy.id # Null /\ r[v.copy.id].count \in Ahead(v.copy.count)
CountInv == \A i \in Instances : Agree(alerts, dedupe, pc[i], loc[i])

LEMMA CountStep ==
  ASSUME Alone, ~RedisFails, TypeOK, DedupeNamesAlert, CountInv, [Next]_vars
  PROVE  CountInv'
<1> SUFFICES ASSUME NEW i \in Instances PROVE Agree(alerts', dedupe', pc'[i], loc'[i])
  BY DEF CountInv
<1>1. /\ Agree(alerts, dedupe, pc[i], loc[i]) /\ loc[i] \in Locals /\ dedupe \in DedupeRecord
      /\ loc[i].copy \in DedupeRecord
      /\ {loc[i].id, loc[i].copy.id, dedupe.id} \subseteq AlertIds \cup {Null}
      /\ loc[i].count \in Nat /\ loc[i].copy.count \in Nat /\ dedupe.count \in Nat
  BY DEF CountInv, TypeOK, Locals, DedupeRecord, Procs
<1> DEFINE Kept(x) == x # Null => alerts'[x].count = alerts[x].count
           Keeps   == Kept(dedupe.id) /\ Kept(loc[i].id) /\ Kept(loc[i].copy.id)
           Gone(d) == Agree(alerts', d, "idle", NoLocal)
<1>2. ASSUME \A a \in AlertIds : Exists(a) => alerts'[a].count = alerts[a].count PROVE Keeps
  BY <1>1, <1>2 DEF DedupeNamesAlert, Present
<1>3. alerts' = alerts => Keeps
  BY <1>1
<1>4. \A a \in AlertIds, p \in Procs : Inserts(a, p) => Keeps
  BY <1>2, RowInserted DEF Inserts
<1>5. \A l, v : Moves(i, l, v) /\ Agree(alerts', dedupe', l, v)
                  => Agree(alerts', dedupe', pc'[i], loc'[i])
  BY DEF Moves, Agree
<1>6. Keeps => /\ Agree(alerts', dedupe, "idle", NoLocal) /\ Agree(alerts', NoDedupe, "idle", NoLocal)
               /\ Agree(alerts', dedupe, pc[i], loc[i]) /\ Agree(alerts', NoDedupe, pc[i], loc[i])
  BY <1>1, NothingFields DEF Agree
<1>7. CASE Beside(i)
  <2>1. \A a \in AlertIds : Acknowledges(a) => Keeps
    BY <1>2, StatusWritten DEF Acknowledges
  <2>2. Keeps /\ Waits(i) /\ (dedupe' = dedupe \/ dedupe' = NoDedupe)
    BY <1>3, <1>4, <1>7, <2>1 DEF Beside, Procs
  <2> QED BY <1>6, <2>2 DEF Waits
<1>8. ASSUME NEW s \in IssueSeverities, Detect(i, s) PROVE Agree(alerts', dedupe', pc'[i], loc'[i])
  <2>1. Keeps /\ dedupe' = dedupe /\ Moves(i, "lock", [NoLocal EXCEPT !.sev = s])
    BY <1>3, <1>8, CheckEffects DEF Same
  <2>2. Agree(alerts', dedupe, "lock", [NoLocal EXCEPT !.sev = s])
    BY <1>6, <2>1, NothingFields DEF Agree
  <2> QED BY <1>5, <2>1, <2>2
<1>9. CASE Acquire(i)
  <2>1. /\ Keeps /\ dedupe' = dedupe /\ pc[i] = "lock"
        /\ Moves(i, "get", loc[i]) \/ Moves(i, "panicked", NoLocal)
    BY <1>3, <1>9, CheckEffects DEF Same
  <2>2. Agree(alerts', dedupe, "get", loc[i]) /\ Agree(alerts', dedupe, "panicked", NoLocal)
    BY <1>6, <2>1 DEF Agree
  <2> QED BY <1>5, <2>1, <2>2
<1>10. CASE Get(i)
  <2>1. Keeps /\ dedupe' = dedupe /\ pc[i] = "get"
    BY <1>3, <1>10, CheckEffects DEF Same
  <2>2. \A y \in BOOLEAN : Agree(alerts', dedupe, "release", [loc[i] EXCEPT !.id = dedupe.id, !.esc = y])
    BY <1>1, <1>6, <2>1 DEF Agree, Locals
  <2>3. Agree(alerts', dedupe, "release", loc[i]) /\ ShouldEscalate(loc[i].sev) \in BOOLEAN
    BY <1>6, <2>1 DEF Agree, ShouldEscalate
  <2> QED BY <1>5, <1>10, <2>1, <2>2, <2>3, CheckEffects
<1>11. CASE Release(i)
  <2>1. Keeps /\ dedupe' = dedupe /\ pc[i] = "release"
    BY <1>3, <1>11, CheckEffects DEF Same
  <2>2. Agree(alerts', dedupe, IF loc[i].id = Null THEN "create" ELSE "count", [loc[i] EXCEPT !.at = now])
    BY <1>1, <1>6, <2>1 DEF Agree, Locals
  <2> QED BY <1>5, <1>11, <2>1, <2>2, CheckEffects
<1>12. CASE Create(i)
  <2>1. pc[i] = "create" /\ dedupe' = dedupe
    BY <1>12, CheckEffects
  <2>2. CASE alerts' = alerts /\ Moves(i, "idle", NoLocal)
    BY <1>3, <1>5, <1>6, <2>1, <2>2
  <2>3. ASSUME NEW a \in AlertIds, Inserts(a, i), Moves(i, "record", [loc[i] EXCEPT !.id = a])
        PROVE  Agree(alerts', dedupe', pc'[i], loc'[i])
    <3>1. Keeps /\ alerts'[a].count = 1 /\ a # Null
      BY <1>4, <2>3, RowInserted, DedupAssumption DEF Procs, DedupAssumption
    <3>2. Agree(alerts', dedupe, "record", [loc[i] EXCEPT !.id = a])
      BY <1>1, <1>6, <2>1, <3>1 DEF Agree, Locals
    <3> QED BY <1>5, <2>1, <2>3, <3>2
  <2>4. ASSUME NEW a \in AlertIds, Inserts(a, i), Moves(i, "idle", NoLocal)
        PROVE  Agree(alerts', dedupe', pc'[i], loc'[i])
    <3>1. Keeps
      BY <1>4, <2>4 DEF Procs
    <3> QED BY <1>5, <1>6, <2>1, <2>4, <3>1
  <2> QED BY <1>12, <2>2, <2>3, <2>4, CheckEffects
<1>13. CASE Record(i)
  <2>1. /\ pc[i] = "record" /\ Keeps /\ Moves(i, "idle", NoLocal)
        /\ dedupe' = [id |-> loc[i].id, count |-> 1, last |-> now,
                      escalated |-> FALSE, exp |-> now + RecordTTL]
    BY <1>3, <1>13, CheckEffects
  <2>2. dedupe'.id = loc[i].id /\ dedupe'.count = 1
    BY <2>1
  <2>3. Gone(dedupe')
    BY <1>1, <2>1, <2>2 DEF Agree, Ahead
  <2> QED BY <1>5, <2>1, <2>3
<1>14. CASE Count(i)
  <2>1. /\ Keeps /\ dedupe' = dedupe /\ pc[i] = "count"
        /\ Moves(i, "update", [loc[i] EXCEPT !.count = dedupe.count + 1])
    BY <1>3, <1>14, UpdateEffects DEF Same
  <2>2. Agree(alerts', dedupe, "update", [loc[i] EXCEPT !.count = dedupe.count + 1])
    BY <1>1, <1>6, <2>1 DEF Agree, Locals
  <2> QED BY <1>5, <2>1, <2>2
<1>15. CASE Update(i)
  <2>1. pc[i] = "update" /\ dedupe' = dedupe
    BY <1>15, UpdateEffects
  <2>2. CASE alerts' = alerts /\ Moves(i, "idle", NoLocal)
    BY <1>3, <1>5, <1>6, <2>1, <2>2
  <2>3. CASE alerts' = [alerts EXCEPT ![loc[i].id].count = loc[i].count] /\ Moves(i, "touchGet", loc[i])
    <3>1. loc[i].id \in AlertIds
      BY <1>1, <2>1 DEF Agree
    <3>2. alerts'[loc[i].id].count = loc[i].count
      BY <2>3, <3>1 DEF TypeOK, AlertRow
    <3>3. dedupe.id # Null => alerts'[dedupe.id].count = dedupe.count + 1
      BY <1>1, <2>1, <3>1, <3>2 DEF Agree
    <3>4. Agree(alerts', dedupe, "touchGet", loc[i])
      BY <1>1, <2>1, <3>3 DEF Agree, Ahead
    <3> QED BY <1>5, <2>1, <2>3, <3>4
  <2>4. CASE alerts' = [alerts EXCEPT ![loc[i].id].count = loc[i].count] /\ Moves(i, "idle", NoLocal)
    <3>1. loc[i].id \in AlertIds
      BY <1>1, <2>1 DEF Agree
    <3>2. alerts'[loc[i].id].count = loc[i].count
      BY <2>4, <3>1 DEF TypeOK, AlertRow
    <3>3. dedupe.id # Null => alerts'[dedupe.id].count = dedupe.count + 1
      BY <1>1, <2>1, <3>1, <3>2 DEF Agree
    <3>4. Agree(alerts', dedupe, "idle", NoLocal)
      BY <1>1, <2>1, <3>3 DEF Agree, Ahead
    <3> QED BY <1>5, <2>1, <2>4, <3>4
  <2> QED BY <1>15, <2>2, <2>3, <2>4, UpdateEffects
<1>16. CASE TouchGet(i)
  <2> DEFINE d == [dedupe EXCEPT !.last = now, !.count = dedupe.count + 1]
  <2>1. Keeps /\ dedupe' = dedupe /\ pc[i] = "touchGet"
    BY <1>3, <1>16, UpdateEffects DEF Same
  <2>2. d.id = dedupe.id /\ d.count = dedupe.count + 1
    BY <1>1 DEF DedupeRecord
  <2>3. \A x : x.id = dedupe.id /\ x.count = dedupe.count + 1 /\ Present
                 => Agree(alerts', dedupe, "touchSet", [loc[i] EXCEPT !.copy = x])
    BY <1>1, <1>6, <2>1 DEF Agree, Locals, Present
  <2>4. Agree(alerts', dedupe, AfterTouch(i), loc[i])
    BY <1>6, <2>1 DEF Agree, AfterTouch
  <2> HIDE DEF d
  <2>5. Present => Agree(alerts', dedupe, "touchSet", [loc[i] EXCEPT !.copy = d])
    BY <2>2, <2>3
  <2> QED BY <1>5, <1>16, <2>1, <2>4, <2>5, UpdateEffects DEF d
<1>17. CASE TouchSet(i)
  <2>1. /\ pc[i] = "touchSet" /\ Keeps
        /\ dedupe' = [loc[i].copy EXCEPT !.exp = now + RecordTTL]
        /\ Moves(i, AfterTouch(i), [loc[i] EXCEPT !.copy = NoDedupe])
    BY <1>3, <1>17, UpdateEffects
  <2>2. dedupe'.id = loc[i].copy.id /\ dedupe'.count = loc[i].copy.count
    BY <1>1, <2>1 DEF DedupeRecord
  <2>3. Agree(alerts', dedupe', AfterTouch(i), [loc[i] EXCEPT !.copy = NoDedupe])
    BY <1>1, <2>1, <2>2 DEF Agree, Ahead, AfterTouch
  <2> QED BY <1>5, <2>1, <2>3
<1>18. CASE Escalate(i)
  <2>1. /\ pc[i] = "escalate" /\ dedupe' = dedupe
        /\ Moves(i, "markGet", loc[i]) \/ Moves(i, "idle", NoLocal)
        /\ \/ alerts' = alerts
           \/ alerts' = [alerts EXCEPT ![loc[i].id].sev = EscalateSeverity(loc[i].sev)]
    BY <1>18, UpdateEffects
  <2>2. Keeps
    BY <1>2, <1>3, <2>1, SevWritten
  <2>3. Agree(alerts', dedupe, "markGet", loc[i])
    BY <1>6, <2>1, <2>2 DEF Agree
  <2> QED BY <1>5, <1>6, <2>1, <2>2, <2>3
<1>19. CASE MarkGet(i)
  <2> DEFINE d == [dedupe EXCEPT !.escalated = TRUE]
  <2>1. Keeps /\ dedupe' = dedupe /\ pc[i] = "markGet"
    BY <1>3, <1>19, UpdateEffects DEF Same
  <2>2. d.id = dedupe.id /\ d.count = dedupe.count
    BY <1>1 DEF DedupeRecord
  <2>3. \A x : x.id = dedupe.id /\ x.count = dedupe.count /\ Present
                 => Agree(alerts', dedupe, "markSet", [loc[i] EXCEPT !.copy = x])
    BY <1>1, <1>6, <2>1 DEF Agree, Locals, Present
  <2> HIDE DEF d
  <2>4. Present => Agree(alerts', dedupe, "markSet", [loc[i] EXCEPT !.copy = d])
    BY <2>2, <2>3
  <2> QED BY <1>5, <1>6, <1>19, <2>1, <2>4, UpdateEffects DEF d
<1>20. CASE MarkSet(i)
  <2>1. /\ pc[i] = "markSet" /\ Keeps /\ Moves(i, "idle", NoLocal)
        /\ dedupe' = [loc[i].copy EXCEPT !.exp = now + RecordTTL]
    BY <1>3, <1>20, UpdateEffects
  <2>2. dedupe'.id = loc[i].copy.id /\ dedupe'.count = loc[i].copy.count
    BY <1>1, <2>1 DEF DedupeRecord
  <2>3. Gone(dedupe')
    BY <1>1, <2>1, <2>2 DEF Agree
  <2> QED BY <1>5, <2>1, <2>3
<1>21. CASE Resolve(i) \/ RemoveDedupeInfo(i) \/ SetSilentPeriod(i) \/ Crash(i) \/ Restart(i)
  <2>1. \/ Resolve(i)
        \/ alerts' = alerts
    BY <1>21, ResolveEffects DEF Same
  <2>2. Keeps
    BY <1>2, <1>3, <2>1, RowsResolved
  <2>3. /\ dedupe' = dedupe \/ dedupe' = NoDedupe
        /\ \E l \in {"remove", "silence", "idle", "down"} : Moves(i, l, NoLocal)
    BY <1>21, ResolveEffects DEF Same
  <2>4. \A l \in {"remove", "silence", "idle", "down"} : Agree(alerts', dedupe', l, NoLocal)
    BY <1>6, <2>2, <2>3 DEF Agree
  <2> QED BY <1>5, <2>3, <2>4
<1> QED BY <1>7, <1>8, <1>9, <1>10, <1>11, <1>12, <1>13, <1>14, <1>15, <1>16, <1>17, <1>18,
           <1>19, <1>20, <1>21, SoloStep DEF Runs, Work

(* With one instance and a Redis that answers, the count of the record and *)
(* of its row never differ by more than the occurrence being written,      *)
(* whatever the database, crashes and stalls do: the two are written one   *)
(* after the other and nobody else writes either.                          *)
THEOREM CountsNeverDrift ==
  ASSUME Alone, ~RedisFails
  PROVE  Spec => []CountsAgree
<1>1. Init => CountInv
  BY NothingFields DEF Init, CountInv, Agree, Procs
<1>2. TypeOK /\ DedupeNamesAlert /\ CountInv /\ [Next]_vars => CountInv'
  BY CountStep
<1>3. CountInv => CountsAgree
  BY DEF Alone, CountInv, Agree, Ahead, CountsAgree, Present
<1> QED BY <1>1, <1>2, <1>3, TypeCorrect, NamesCorrect, PTL DEF Spec

-----------------------------------------------------------------------------
(* An escalation that was decided, by an instance at l with locals v, has  *)
(* a row with more than Threshold occurrences before it gets to the        *)
(* severity.                                                               *)
Earned(r, d, l, v) ==
  /\ l \in {"lock", "get"} => ~v.esc
  /\ l \in {"release", "count"} /\ v.esc =>
       d.id # Null /\ v.id = d.id /\ d.count >= Threshold
  /\ l = "update" /\ v.esc => v.id # Null /\ v.count > Threshold
  /\ l \in {"touchGet", "touchSet"} /\ v.esc => v.id # Null /\ r[v.id].count > Threshold
  /\ l = "escalate" => v.id # Null /\ r[v.id].count > Threshold
EarnedInv == \A i \in Instances : Earned(alerts, dedupe, pc[i], loc[i])

LEMMA EarnedStep ==
  ASSUME Alone, ~RedisFails, "stall" \notin Faults, TypeOK, DedupeNamesAlert, EarnedInv,
         [Next]_vars
  PROVE  EarnedInv'
<1> SUFFICES ASSUME NEW i \in Instances PROVE Earned(alerts', dedupe', pc'[i], loc'[i])
  BY DEF EarnedInv
<1>1. /\ Earned(alerts, dedupe, pc[i], loc[i]) /\ loc[i] \in Locals /\ dedupe \in DedupeRecord
      /\ {loc[i].id, dedupe.id} \subseteq AlertIds \cup {Null} /\ loc[i].esc \in BOOLEAN
      /\ loc[i].count \in Nat /\ dedupe.count \in Nat /\ Threshold \in Nat
  BY DedupAssumption DEF EarnedInv, TypeOK, Locals, DedupeRecord, Procs, DedupAssumption
<1> DEFINE Keeps == loc[i].id # Null => alerts'[loc[i].id].count = alerts[loc[i].id].count
<1>2. ASSUME \A a \in AlertIds : Exists(a) => alerts'[a].count = alerts[a].count PROVE Keeps
  BY <1>1, <1>2 DEF DedupeNamesAlert
<1>3. alerts' = alerts => Keeps
  BY <1>1
<1>4. \A a \in AlertIds, p \in Procs : Inserts(a, p) => Keeps
  BY <1>2, RowInserted DEF Inserts
<1>5. \A l, v : Moves(i, l, v) /\ Earned(alerts', dedupe', l, v)
                  => Earned(alerts', dedupe', pc'[i], loc'[i])
  BY DEF Moves, Earned
<1>6. Keeps => Earned(alerts', dedupe, pc[i], loc[i])
  BY <1>1 DEF Earned
<1>7. \A l \in {"idle", "panicked", "remove", "silence", "down", "record", "markGet", "markSet"} :
        \A d, v : Earned(alerts', d, l, v)
  BY DEF Earned
<1>8. CASE Beside(i)
  <2>1. \A a \in AlertIds : Acknowledges(a) => Keeps
    BY <1>2, StatusWritten DEF Acknowledges
  <2>2. Waits(i) /\ Keeps
    BY <1>3, <1>4, <1>8, <2>1 DEF Beside, Procs
  <2>3. dedupe' = dedupe \/ pc[i] \in {"idle", "down", "panicked"}
    BY <1>8 DEF Beside
  <2> QED BY <1>6, <1>7, <2>2, <2>3 DEF Waits
<1>9. ASSUME NEW s \in IssueSeverities, Detect(i, s)
      PROVE  Earned(alerts', dedupe', pc'[i], loc'[i])
  <2>1. Moves(i, "lock", [NoLocal EXCEPT !.sev = s])
    BY <1>9, CheckEffects
  <2>2. Earned(alerts', dedupe', "lock", [NoLocal EXCEPT !.sev = s])
    BY NothingFields DEF Earned
  <2> QED BY <1>5, <2>1, <2>2
<1>10. CASE Acquire(i)
  <2>1. /\ Keeps /\ dedupe' = dedupe /\ pc[i] = "lock"
        /\ Moves(i, "get", loc[i]) \/ Moves(i, "panicked", NoLocal)
    BY <1>3, <1>10, CheckEffects DEF Same
  <2>2. Earned(alerts', dedupe, "get", loc[i])
    BY <1>1, <2>1 DEF Earned
  <2> QED BY <1>5, <1>7, <2>1, <2>2
<1>11. CASE Get(i)
  <2>1. dedupe' = dedupe /\ pc[i] = "get"
    BY <1>11, CheckEffects DEF Same
  <2>2. ~loc[i].esc /\ Earned(alerts', dedupe, "release", loc[i])
    BY <1>1, <2>1 DEF Earned
  <2>3. \A y \in BOOLEAN : InWindow /\ (y => dedupe.count >= Threshold) =>
          Earned(alerts', dedupe, "release", [loc[i] EXCEPT !.id = dedupe.id, !.esc = y])
    BY <1>1 DEF Earned, Locals, InWindow, Present
  <2>4. /\ ShouldEscalate(loc[i].sev) \in BOOLEAN
        /\ ShouldEscalate(loc[i].sev) => dedupe.count >= Threshold
    BY DEF ShouldEscalate
  <2> QED BY <1>5, <1>11, <2>1, <2>2, <2>3, <2>4, CheckEffects
<1>12. CASE Release(i)
  <2>1. dedupe' = dedupe /\ pc[i] = "release"
    BY <1>12, CheckEffects DEF Same
  <2>2. Earned(alerts', dedupe, IF loc[i].id = Null THEN "create" ELSE "count",
               [loc[i] EXCEPT !.at = now])
    BY <1>1, <2>1 DEF Earned, Locals
  <2> QED BY <1>5, <1>12, <2>1, <2>2, CheckEffects
<1>13. CASE Create(i)
  BY <1>5, <1>7, <1>13, CheckEffects
<1>14. CASE Count(i)
  <2>1. /\ dedupe' = dedupe /\ pc[i] = "count"
        /\ Moves(i, "update", [loc[i] EXCEPT !.count = dedupe.count + 1])
    BY <1>14, UpdateEffects DEF Same
  <2>2. Earned(alerts', dedupe, "update", [loc[i] EXCEPT !.count = dedupe.count + 1])
    BY <1>1, <2>1 DEF Earned, Locals
  <2> QED BY <1>5, <2>1, <2>2
<1>15. CASE Update(i)
  <2>1. pc[i] = "update" /\ dedupe' = dedupe
    BY <1>15, UpdateEffects
  <2>2. CASE Moves(i, "idle", NoLocal)
    BY <1>5, <1>7, <2>2
  <2>3. CASE alerts' = [alerts EXCEPT ![loc[i].id].count = loc[i].count] /\ Moves(i, "touchGet", loc[i])
    <3>1. loc[i].id \in AlertIds => alerts'[loc[i].id].count = loc[i].count
      BY <2>3 DEF TypeOK, AlertRow
    <3>2. Earned(alerts', dedupe, "touchGet", loc[i])
      BY <1>1, <2>1, <3>1 DEF Earned
    <3> QED BY <1>5, <2>1, <2>3, <3>2
  <2> QED BY <1>15, <2>2, <2>3, UpdateEffects
<1>16. CASE TouchGet(i)
  <2>1. Keeps /\ dedupe' = dedupe /\ pc[i] = "touchGet"
    BY <1>3, <1>16, UpdateEffects DEF Same
  <2>2. \A x : Earned(alerts', dedupe, "touchSet", [loc[i] EXCEPT !.copy = x])
    BY <1>1, <1>6, <2>1 DEF Earned, Locals
  <2>3. Earned(alerts', dedupe, AfterTouch(i), loc[i])
    BY <1>6, <2>1 DEF Earned, AfterTouch
  <2> QED BY <1>5, <1>16, <2>1, <2>2, <2>3, UpdateEffects
<1>17. CASE TouchSet(i)
  <2>1. /\ pc[i] = "touchSet" /\ Keeps
        /\ Moves(i, AfterTouch(i), [loc[i] EXCEPT !.copy = NoDedupe])
    BY <1>3, <1>17, UpdateEffects
  <2>2. Earned(alerts', dedupe', AfterTouch(i), [loc[i] EXCEPT !.copy = NoDedupe])
    BY <1>1, <1>6, <2>1 DEF Earned, Locals, AfterTouch
  <2> QED BY <1>5, <2>1, <2>2
<1>18. CASE Record(i) \/ Escalate(i) \/ MarkGet(i) \/ MarkSet(i)
  <2>1. \E l \in {"idle", "markGet", "markSet"} : \E v : Moves(i, l, v)
    BY <1>18, CheckEffects, UpdateEffects
  <2> QED BY <1>5, <1>7, <2>1
<1>19. CASE Resolve(i) \/ RemoveDedupeInfo(i) \/ SetSilentPeriod(i) \/ Crash(i) \/ Restart(i)
  <2>1. \E l \in {"remove", "silence", "idle", "down"} : Moves(i, l, NoLocal)
    BY <1>19, ResolveEffects
  <2> QED BY <1>5, <1>7, <2>1
<1> QED BY <1>8, <1>9, <1>10, <1>11, <1>12, <1>13, <1>14, <1>15, <1>16, <1>17, <1>18, <1>19,
           SoloStep DEF Runs, Work

(* Only an escalation changes the severity of a stored alert.              *)
LEMMA SeverityChange ==
  ASSUME Alone, ~RedisFails, TypeOK, [Next]_vars, NEW a \in AlertIds, Exists(a),
         alerts'[a].sev # alerts[a].sev
  PROVE  \E i \in Instances :
           /\ pc[i] = "escalate" /\ a = loc[i].id
           /\ alerts' = [alerts EXCEPT ![a].sev = EscalateSeverity(loc[i].sev)]
<1>1. PICK i \in Instances : TRUE
  BY DEF Alone
<1>2. ~Beside(i)
  BY StatusWritten, RowInserted DEF Beside, Inserts, Acknowledges
<1>3. Escalate(i)
  <2>1. ~Resolve(i)
    BY RowsResolved
  <2>2. ~Create(i)
    <3>1. Create(i) => alerts' = alerts \/ \E b \in AlertIds : Inserts(b, i)
      BY CheckEffects
    <3> QED BY <3>1, RowInserted DEF Inserts
  <2>3. ~Update(i)
    <3>1. Update(i) => alerts' = alerts
                         \/ alerts' = [alerts EXCEPT ![loc[i].id].count = loc[i].count]
      BY UpdateEffects
    <3> QED BY <3>1, CountWritten
  <2>4. alerts' # alerts
    OBVIOUS
  <2> QED BY <1>2, <2>1, <2>2, <2>3, <2>4, SoloStep, CheckEffects, UpdateEffects, ResolveEffects
          DEF Runs, Work, Same
<1>4. pc[i] = "escalate" /\ alerts' = [alerts EXCEPT ![loc[i].id].sev = EscalateSeverity(loc[i].sev)]
  BY <1>3, UpdateEffects
<1>5. a = loc[i].id
  BY <1>4, SevWritten
<1> QED BY <1>4, <1>5

(* With one instance that does not stall and a Redis that answers, a       *)
(* severity changes only after more than Threshold occurrences have been   *)
(* written to the row.  A failed UPDATE, an UPDATE whose answer is lost or *)
(* a crash on the way ends the check before the severity.                  *)
THEOREM EscalationEarned ==
  ASSUME Alone, ~RedisFails, "stall" \notin Faults
  PROVE  Spec => EscalatedAfterThreshold
<1>1. Init => EarnedInv
  BY DEF Init, EarnedInv, Earned, Procs
<1>2. TypeOK /\ DedupeNamesAlert /\ EarnedInv /\ [Next]_vars => EarnedInv'
  BY EarnedStep
<1>3. TypeOK /\ EarnedInv /\ [Next]_vars =>
        [\A a \in AlertIds : Exists(a) /\ alerts'[a].sev # alerts[a].sev
                               => alerts[a].count > Threshold]_vars
  <2> SUFFICES ASSUME TypeOK, EarnedInv, [Next]_vars, NEW a \in AlertIds,
                      Exists(a), alerts'[a].sev # alerts[a].sev
               PROVE  alerts[a].count > Threshold
    OBVIOUS
  <2>1. PICK i \in Instances : pc[i] = "escalate" /\ a = loc[i].id
    BY SeverityChange
  <2> QED BY <2>1 DEF EarnedInv, Earned
<1> QED BY <1>1, <1>2, <1>3, TypeCorrect, NamesCorrect, PTL DEF Spec, EscalatedAfterThreshold

-----------------------------------------------------------------------------
(* Until an alert is escalated its row has the severity of an issue, and   *)
(* the record d says so; from the escalation on the record is marked       *)
(* before the instance, at l with locals v, starts another check.          *)
StepsUp     == \A s, t \in IssueSeverities :
                 s # "critical" => SevRank(EscalateSeverity(s)) >= SevRank(t)
Plain(r, a) == a # Null /\ r[a].sev \in IssueSeverities
Marked(r, d, l, v) ==
  /\ l \notin {"markGet", "markSet"} => (d.id # Null /\ ~d.escalated => Plain(r, d.id))
  /\ l \in {"lock", "get", "release", "create", "count", "update", "touchGet", "touchSet",
            "escalate"} => v.sev \in IssueSeverities
  /\ l \in {"lock", "get"} => ~v.esc
  /\ l \in {"release", "count", "update", "touchGet", "touchSet"} /\ v.esc =>
       Plain(r, v.id) /\ v.sev # "critical"
  /\ l = "escalate" => Plain(r, v.id) /\ v.sev # "critical"
  /\ l = "record" => Plain(r, v.id)
  /\ l = "touchSet" => v.copy.escalated \/ Plain(r, v.copy.id)
  /\ l = "markSet" => v.copy.escalated
MarkedInv == \A i \in Instances : Marked(alerts, dedupe, pc[i], loc[i])

LEMMA MarkedStep ==
  ASSUME Alone, ~RedisFails, "crash" \notin Faults, ~AnswerLost, TypeOK, DedupeNamesAlert,
         MarkedInv, [Next]_vars
  PROVE  MarkedInv'
<1> SUFFICES ASSUME NEW i \in Instances PROVE Marked(alerts', dedupe', pc'[i], loc'[i])
  BY DEF MarkedInv
<1>1. /\ Marked(alerts, dedupe, pc[i], loc[i]) /\ loc[i] \in Locals /\ dedupe \in DedupeRecord
      /\ loc[i].copy \in DedupeRecord /\ loc[i].esc \in BOOLEAN
      /\ dedupe.escalated \in BOOLEAN /\ loc[i].copy.escalated \in BOOLEAN
      /\ {loc[i].id, loc[i].copy.id, dedupe.id} \subseteq AlertIds \cup {Null}
  BY DEF MarkedInv, TypeOK, Locals, DedupeRecord, Procs
<1> DEFINE Kept(x) == x # Null => alerts'[x].sev = alerts[x].sev
           Keeps   == Kept(dedupe.id) /\ Kept(loc[i].id) /\ Kept(loc[i].copy.id)
<1>2. ASSUME \A a \in AlertIds : Exists(a) => alerts'[a].sev = alerts[a].sev PROVE Keeps
  BY <1>1, <1>2 DEF DedupeNamesAlert, Present
<1>3. alerts' = alerts => Keeps
  BY <1>1
<1>4. \A a \in AlertIds, p \in Procs : Inserts(a, p) => Keeps
  BY <1>2, RowInserted DEF Inserts
<1>5. \A l, v : Moves(i, l, v) /\ Marked(alerts', dedupe', l, v)
                  => Marked(alerts', dedupe', pc'[i], loc'[i])
  BY DEF Moves, Marked
<1>6. Keeps => Marked(alerts', dedupe, pc[i], loc[i]) /\ Marked(alerts', NoDedupe, pc[i], loc[i])
  BY <1>1, NothingFields DEF Marked, Plain
<1>7. \A l \in {"idle", "panicked", "remove", "silence", "down"} : \A d, v, w :
        /\ Marked(alerts', d, "idle", w) => Marked(alerts', d, l, v)
        /\ d.id = Null \/ d.escalated => Marked(alerts', d, l, v)
  BY DEF Marked
<1>8. \A d : Keeps /\ d = dedupe /\ pc[i] \notin {"markGet", "markSet"} =>
        Marked(alerts', d, "idle", NoLocal)
  BY <1>6 DEF Marked
<1>9. CASE Beside(i)
  <2>1. \A a \in AlertIds : Acknowledges(a) => Keeps
    BY <1>2, StatusWritten DEF Acknowledges
  <2>2. Keeps /\ Waits(i) /\ (dedupe' = dedupe \/ dedupe' = NoDedupe)
    BY <1>3, <1>4, <1>9, <2>1 DEF Beside, Procs
  <2> QED BY <1>6, <2>2 DEF Waits
<1>10. ASSUME NEW s \in IssueSeverities, Detect(i, s)
       PROVE  Marked(alerts', dedupe', pc'[i], loc'[i])
  <2>1. Keeps /\ dedupe' = dedupe /\ Moves(i, "lock", [NoLocal EXCEPT !.sev = s]) /\ pc[i] = "idle"
    BY <1>3, <1>10, CheckEffects DEF Same
  <2>2. Marked(alerts', dedupe, "lock", [NoLocal EXCEPT !.sev = s])
    BY <1>6, <2>1, NothingFields DEF Marked
  <2> QED BY <1>5, <2>1, <2>2
<1>11. CASE Acquire(i)
  <2>1. /\ Keeps /\ dedupe' = dedupe /\ pc[i] = "lock"
        /\ Moves(i, "get", loc[i]) \/ Moves(i, "panicked", NoLocal)
    BY <1>3, <1>11, CheckEffects DEF Same
  <2>2. Marked(alerts', dedupe, "get", loc[i]) /\ Marked(alerts', dedupe, "panicked", NoLocal)
    BY <1>6, <2>1 DEF Marked
  <2> QED BY <1>5, <2>1, <2>2
<1>12. CASE Get(i)
  <2>1. Keeps /\ dedupe' = dedupe /\ pc[i] = "get"
    BY <1>3, <1>12, CheckEffects DEF Same
  <2>2. Marked(alerts', dedupe, "release", loc[i])
    BY <1>6, <2>1 DEF Marked
  <2>3. \A y \in BOOLEAN : InWindow /\ (y => ~dedupe.escalated /\ loc[i].sev # "critical") =>
          Marked(alerts', dedupe, "release", [loc[i] EXCEPT !.id = dedupe.id, !.esc = y])
    BY <1>1, <1>6, <2>1 DEF Marked, Locals, InWindow, Present
  <2>4. /\ ShouldEscalate(loc[i].sev) \in BOOLEAN
        /\ ShouldEscalate(loc[i].sev) => ~dedupe.escalated /\ loc[i].sev # "critical"
    BY DEF ShouldEscalate
  <2> QED BY <1>5, <1>12, <2>1, <2>2, <2>3, <2>4, CheckEffects
<1>13. CASE Release(i)
  <2>1. Keeps /\ dedupe' = dedupe /\ pc[i] = "release"
    BY <1>3, <1>13, CheckEffects DEF Same
  <2>2. Marked(alerts', dedupe, IF loc[i].id = Null THEN "create" ELSE "count",
               [loc[i] EXCEPT !.at = now])
    BY <1>1, <1>6, <2>1 DEF Marked, Locals
  <2> QED BY <1>5, <1>13, <2>1, <2>2, CheckEffects
<1>14. CASE Create(i)
  <2>1. pc[i] = "create" /\ dedupe' = dedupe
    BY <1>14, CheckEffects
  <2>2. CASE alerts' = alerts /\ Moves(i, "idle", NoLocal)
    BY <1>3, <1>5, <1>8, <2>1, <2>2
  <2>3. ASSUME NEW a \in AlertIds, Inserts(a, i), Moves(i, "record", [loc[i] EXCEPT !.id = a])
        PROVE  Marked(alerts', dedupe', pc'[i], loc'[i])
    <3>1. Keeps /\ alerts'[a].sev = loc[i].sev /\ a # Null
      BY <1>4, <2>3, RowInserted, DedupAssumption DEF Procs, DedupAssumption
    <3>2. Marked(alerts', dedupe, "record", [loc[i] EXCEPT !.id = a])
      BY <1>1, <1>6, <2>1, <3>1 DEF Marked, Plain, Locals
    <3> QED BY <1>5, <2>1, <2>3, <3>2
  <2> QED BY <1>14, <2>2, <2>3, CheckEffects
<1>15. CASE Record(i)
  <2>1. /\ pc[i] = "record" /\ Keeps /\ Moves(i, "idle", NoLocal)
        /\ dedupe' = [id |-> loc[i].id, count |-> 1, last |-> now,
                      escalated |-> FALSE, exp |-> now + RecordTTL]
    BY <1>3, <1>15, CheckEffects
  <2>2. dedupe'.id = loc[i].id
    BY <2>1
  <2>3. Marked(alerts', dedupe', "idle", NoLocal)
    BY <1>6, <2>1, <2>2 DEF Marked
  <2> QED BY <1>5, <2>1, <2>3
<1>16. CASE Count(i)
  <2>1. /\ Keeps /\ dedupe' = dedupe /\ pc[i] = "count"
        /\ Moves(i, "update", [loc[i] EXCEPT !.count = dedupe.count + 1])
    BY <1>3, <1>16, UpdateEffects DEF Same
  <2>2. \A x : Marked(alerts', dedupe, "update", [loc[i] EXCEPT !.count = x])
    BY <1>1, <1>6, <2>1 DEF Marked, Locals
  <2> QED BY <1>5, <2>1, <2>2
<1>17. CASE Update(i)
  <2>1. /\ pc[i] = "update" /\ dedupe' = dedupe
        /\ Moves(i, "touchGet", loc[i]) \/ Moves(i, "idle", NoLocal)
        /\ \/ alerts' = alerts
           \/ alerts' = [alerts EXCEPT ![loc[i].id].count = loc[i].count]
    BY <1>17, UpdateEffects
  <2>2. Keeps
    BY <1>2, <1>3, <2>1, CountWritten
  <2>3. Marked(alerts', dedupe, "touchGet", loc[i])
    BY <1>6, <2>1, <2>2 DEF Marked
  <2> QED BY <1>5, <1>8, <2>1, <2>2, <2>3
<1>18. CASE TouchGet(i)
  <2> DEFINE d == [dedupe EXCEPT !.last = now, !.count = dedupe.count + 1]
  <2>1. Keeps /\ dedupe' = dedupe /\ pc[i] = "touchGet"
    BY <1>3, <1>18, UpdateEffects DEF Same
  <2>2. d.id = dedupe.id /\ d.escalated = dedupe.escalated
    BY <1>1 DEF DedupeRecord
  <2>3. \A x : x.id = dedupe.id /\ x.escalated = dedupe.escalated /\ Present
                 => Marked(alerts', dedupe, "touchSet", [loc[i] EXCEPT !.copy = x])
    BY <1>1, <1>6, <2>1 DEF Marked, Locals, Present
  <2>4. Marked(alerts', dedupe, AfterTouch(i), loc[i])
    BY <1>6, <2>1 DEF Marked, AfterTouch
  <2> HIDE DEF d
  <2>5. Present => Marked(alerts', dedupe, "touchSet", [loc[i] EXCEPT !.copy = d])
    BY <2>2, <2>3
  <2> QED BY <1>5, <1>18, <2>1, <2>4, <2>5, UpdateEffects DEF d
<1>19. CASE TouchSet(i)
  <2>1. /\ pc[i] = "touchSet" /\ Keeps
        /\ dedupe' = [loc[i].copy EXCEPT !.exp = now + RecordTTL]
        /\ Moves(i, AfterTouch(i), [loc[i] EXCEPT !.copy = NoDedupe])
    BY <1>3, <1>19, UpdateEffects
  <2>2. dedupe'.id = loc[i].copy.id /\ dedupe'.escalated = loc[i].copy.escalated
    BY <1>1, <2>1 DEF DedupeRecord
  <2>3. Marked(alerts', dedupe', AfterTouch(i), [loc[i] EXCEPT !.copy = NoDedupe])
    BY <1>1, <1>6, <2>1, <2>2 DEF Marked, Locals, AfterTouch
  <2> QED BY <1>5, <2>1, <2>3
<1>20. CASE Escalate(i)
  <2>1. /\ pc[i] = "escalate" /\ dedupe' = dedupe
        /\ Moves(i, "markGet", loc[i]) \/ (alerts' = alerts /\ Moves(i, "idle", NoLocal))
    BY <1>20, UpdateEffects
  <2>2. Marked(alerts', dedupe, "markGet", loc[i])
    BY DEF Marked
  <2> QED BY <1>3, <1>5, <1>8, <2>1, <2>2
<1>21. CASE MarkGet(i)
  <2> DEFINE d == [dedupe EXCEPT !.escalated = TRUE]
  <2>1. dedupe' = dedupe /\ pc[i] = "markGet"
    BY <1>21, UpdateEffects DEF Same
  <2>2. d.escalated
    BY <1>1 DEF DedupeRecord
  <2>3. \A x : x.escalated => Marked(alerts', dedupe, "markSet", [loc[i] EXCEPT !.copy = x])
    BY <1>1 DEF Marked, Locals
  <2>4. ~Present => Marked(alerts', dedupe, "idle", NoLocal)
    BY <1>7 DEF Present
  <2> HIDE DEF d
  <2>5. Marked(alerts', dedupe, "markSet", [loc[i] EXCEPT !.copy = d])
    BY <2>2, <2>3
  <2> QED BY <1>5, <1>21, <2>1, <2>4, <2>5, UpdateEffects DEF d
<1>22. CASE MarkSet(i)
  <2>1. /\ pc[i] = "markSet" /\ Moves(i, "idle", NoLocal)
        /\ dedupe' = [loc[i].copy EXCEPT !.exp = now + RecordTTL]
    BY <1>22, UpdateEffects
  <2>2. dedupe'.escalated
    BY <1>1, <2>1 DEF DedupeRecord, Marked
  <2> QED BY <1>5, <1>7, <2>1, <2>2
<1>23. CASE Resolve(i) \/ RemoveDedupeInfo(i) \/ SetSilentPeriod(i) \/ Restart(i)
  <2>1. Resolve(i) \/ alerts' = alerts
    BY <1>23, ResolveEffects DEF Same
  <2>2. Keeps
    BY <1>2, <1>3, <2>1, RowsResolved
  <2>3. /\ dedupe' = dedupe \/ dedupe' = NoDedupe
        /\ pc[i] \notin {"markGet", "markSet"}
        /\ \E l \in {"remove", "silence", "idle", "down"} : Moves(i, l, NoLocal)
    BY <1>23, ResolveEffects DEF Same, SetSilentPeriod
  <2>4. Marked(alerts', dedupe', "idle", NoLocal)
    BY <1>7, <1>8, <2>2, <2>3, NothingFields
  <2> QED BY <1>5, <1>7, <2>3, <2>4
<1>24. ~Crash(i)
  BY DEF Crash
<1> QED BY <1>9, <1>10, <1>11, <1>12, <1>13, <1>14, <1>15, <1>16, <1>17, <1>18, <1>19, <1>20,
           <1>21, <1>22, <1>23, <1>24, SoloStep DEF Runs, Work

(* With one instance that is not killed and a Redis that answers, no step  *)
(* lowers a severity, provided one step up from any severity the checker   *)
(* gives to the key is as high as any other: the new severity is computed  *)
(* from the issue, not from the row, and the mark in the record keeps it   *)
(* from being computed twice.  A severity written by an UPDATE whose       *)
(* answer is lost is not marked, hence ~AnswerLost.                        *)
THEOREM SeverityOnlyRaised ==
  ASSUME Alone, ~RedisFails, "crash" \notin Faults, ~AnswerLost, StepsUp
  PROVE  Spec => SeverityNeverLowered
<1>1. Init => MarkedInv
  BY NothingFields DEF Init, MarkedInv, Marked, Procs
<1>2. TypeOK /\ DedupeNamesAlert /\ MarkedInv /\ [Next]_vars => MarkedInv'
  BY MarkedStep
<1>3. TypeOK /\ MarkedInv /\ [Next]_vars =>
        [\A a \in AlertIds : Exists(a) => SevRank(alerts'[a].sev) >= SevRank(alerts[a].sev)]_vars
  <2> SUFFICES ASSUME TypeOK, MarkedInv, [Next]_vars, NEW a \in AlertIds, Exists(a)
               PROVE  SevRank(alerts'[a].sev) >= SevRank(alerts[a].sev)
    OBVIOUS
  <2>1. SevRank(alerts[a].sev) \in Nat
    BY DEF SevRank
  <2>2. CASE alerts'[a].sev = alerts[a].sev
    BY <2>1, <2>2
  <2>3. CASE alerts'[a].sev # alerts[a].sev
    <3>1. PICK i \in Instances : pc[i] = "escalate" /\ a = loc[i].id
                 /\ alerts' = [alerts EXCEPT ![a].sev = EscalateSeverity(loc[i].sev)]
      BY <2>3, SeverityChange
    <3>2. alerts'[a].sev = EscalateSeverity(loc[i].sev)
      BY <3>1 DEF TypeOK, AlertRow
    <3>3. loc[i].sev \in IssueSeverities \ {"critical"} /\ alerts[a].sev \in IssueSeverities
      BY <3>1 DEF MarkedInv, Marked, Plain
    <3> QED BY <3>2, <3>3 DEF StepsUp
  <2> QED BY <2>2, <2>3
<1> QED BY <1>1, <1>2, <1>3, TypeCorrect, NamesCorrect, PTL DEF Spec, SeverityNeverLowered

-----------------------------------------------------------------------------
(* At time n every active alert is more than a window old, or the record d *)
(* is at least as young, or the instance, at l with locals v, is about to  *)
(* record it; an instance about to create an alert finds only the first    *)
(* kind.                                                                   *)
Active(r, a) == r[a].status = "active"
Old(r, a, t) == t > r[a].at + Window
Apart(r)     == \A a, b \in AlertIds : a # b /\ Active(r, a) /\ Active(r, b) =>
                  Old(r, a, r[b].at) \/ Old(r, b, r[a].at)
Seen(r, d, l, v, n, a) ==
  /\ r[a].at <= n
  /\ Old(r, a, n) \/ (d.id # Null /\ r[a].at <= d.last) \/ (l = "record" /\ v.id = a)
  /\ l \in {"touchSet", "markSet"} => Old(r, a, n) \/ r[a].at <= v.copy.last
  /\ l = "release" /\ v.id = Null => Old(r, a, n)
  /\ l = "create" => Old(r, a, v.at)
  /\ l # "remove"
Dated(d, l, v, n) ==
  /\ d.id # Null => d.last <= n /\ d.last + RecordTTL <= d.exp
  /\ l = "record" => v.id # Null
  /\ l = "create" => v.at <= n
  /\ l \in {"touchSet", "markSet"} => v.copy.id # Null /\ v.copy.last <= n
Covered(r, d, l, v, n) ==
  Dated(d, l, v, n) /\ \A a \in AlertIds : Active(r, a) => Seen(r, d, l, v, n, a)
WindowInv == Apart(alerts) /\ \A i \in Instances : Covered(alerts, dedupe, pc[i], loc[i], now)

LEMMA WindowStep ==
  ASSUME Alone, ~RedisFails, "crash" \notin Faults, ~AnswerLost, Tasks = {}, TypeOK, WindowInv,
         [Next]_vars
  PROVE  WindowInv'
<1> PICK i \in Instances : Instances = {i}
  BY DEF Alone
<1> DEFINE Goal == Apart(alerts') /\ Covered(alerts', dedupe', pc'[i], loc'[i], now')
<1> SUFFICES Goal
  BY DEF WindowInv, Covered, Dated, Seen, Active, Old, Apart
<1>1. /\ Covered(alerts, dedupe, pc[i], loc[i], now) /\ Apart(alerts)
      /\ loc[i] \in Locals /\ dedupe \in DedupeRecord /\ loc[i].copy \in DedupeRecord
      /\ {loc[i].id, loc[i].copy.id, dedupe.id} \subseteq AlertIds \cup {Null}
      /\ {now, loc[i].at, dedupe.last, dedupe.exp, loc[i].copy.last} \subseteq Nat
      /\ \A a \in AlertIds : alerts[a].at \in Nat
  BY DEF WindowInv, TypeOK, Locals, DedupeRecord, AlertRow, Procs
<1>2. Window \in Nat \ {0} /\ RecordTTL = 2 * Window
  BY DedupAssumption DEF DedupAssumption, RecordTTL
<1> DEFINE Keeps == \A a \in AlertIds :
                      Active(alerts', a) => Active(alerts, a) /\ alerts'[a].at = alerts[a].at
<1>3. Keeps => Apart(alerts')
  BY <1>1 DEF Apart, Old
<1>4. ASSUME Keeps, Covered(alerts, dedupe', pc'[i], loc'[i], now') PROVE Goal
  <2>1. \A a \in AlertIds : Active(alerts', a) =>
          Seen(alerts', dedupe', pc'[i], loc'[i], now', a)
    BY <1>4 DEF Covered, Seen, Old
  <2> QED BY <1>3, <1>4, <2>1 DEF Covered
<1>5. alerts' = alerts => Keeps
  OBVIOUS
<1>6. \A l, v : Moves(i, l, v) /\ Covered(alerts, dedupe', l, v, now')
                  => Covered(alerts, dedupe', pc'[i], loc'[i], now')
  BY DEF Moves, Covered, Dated, Seen
<1>7. pc[i] # "record" =>
        \A l \in {"idle", "panicked", "silence", "down", "lock", "get", "count", "update",
                  "touchGet", "escalate", "markGet"} :
          \A v : Covered(alerts, dedupe, l, v, now)
  BY <1>1 DEF Covered, Dated, Seen
<1>8. CASE Beside(i)
  <2>1. Keeps
    <3>1. \A a \in AlertIds : Acknowledges(a) => Keeps
      BY StatusWritten DEF Acknowledges, Active
    <3> QED BY <1>5, <1>8, <3>1 DEF Beside
  <2>2. CASE dedupe' = dedupe /\ now' = now
    BY <1>1, <1>4, <1>8, <2>1, <2>2 DEF Beside, Waits
  <2>3. CASE now' = now + 1 /\ (dedupe' = dedupe \/ (dedupe' = NoDedupe /\ dedupe.exp <= now + 1))
    <3>1. Dated(dedupe', pc[i], loc[i], now')
      BY <1>1, <2>3, NothingFields DEF Covered, Dated
    <3>2. ASSUME NEW a \in AlertIds, Active(alerts, a)
          PROVE  Seen(alerts, dedupe', pc[i], loc[i], now', a)
      <4>1. Seen(alerts, dedupe, pc[i], loc[i], now, a) /\ Dated(dedupe, pc[i], loc[i], now)
        BY <1>1, <3>2 DEF Covered
      <4>2. Old(alerts, a, now) => Old(alerts, a, now')
        BY <1>1, <1>2, <2>3 DEF Old
      <4>3. CASE dedupe' = dedupe
        BY <1>1, <2>3, <4>1, <4>2, <4>3 DEF Seen
      <4>4. CASE dedupe' = NoDedupe /\ dedupe.exp <= now + 1
        <5>1. dedupe.id # Null /\ alerts[a].at <= dedupe.last => Old(alerts, a, now')
          BY <1>1, <1>2, <2>3, <4>1, <4>4 DEF Dated, Old
        <5> QED BY <1>1, <2>3, <4>1, <4>2, <5>1 DEF Seen
      <4> QED BY <2>3, <4>3, <4>4
    <3> QED BY <1>4, <1>8, <2>1, <3>1, <3>2 DEF Beside, Waits, Covered
  <2> QED BY <1>8, <2>2, <2>3 DEF Beside
<1>9. ASSUME NEW s \in IssueSeverities, Detect(i, s) PROVE Goal
  BY <1>4, <1>5, <1>6, <1>7, <1>9, CheckEffects DEF Same
<1>10. CASE Acquire(i)
  BY <1>4, <1>5, <1>6, <1>7, <1>10, CheckEffects DEF Same
<1>11. CASE Get(i)
  <2>1. alerts' = alerts /\ dedupe' = dedupe /\ now' = now /\ pc[i] = "get"
    BY <1>11, CheckEffects DEF Same
  <2>2. ASSUME NEW y \in BOOLEAN, InWindow
        PROVE  Covered(alerts, dedupe, "release", [loc[i] EXCEPT !.id = dedupe.id, !.esc = y], now)
    <3> DEFINE w == [loc[i] EXCEPT !.id = dedupe.id, !.esc = y]
    <3>1. w.id = dedupe.id
      BY <1>1 DEF Locals
    <3> HIDE DEF w
    <3>2. w.id # Null
      BY <2>2, <3>1 DEF InWindow, Present
    <3>3. Covered(alerts, dedupe, "release", w, now)
      BY <1>1, <2>1, <3>2 DEF Covered, Dated, Seen
    <3> QED BY <3>3 DEF w
  <2>3. ~InWindow => Covered(alerts, dedupe, "release", loc[i], now)
    <3>1. ASSUME ~InWindow, NEW a \in AlertIds, Active(alerts, a) PROVE Old(alerts, a, now)
      <4>1. Seen(alerts, dedupe, "get", loc[i], now, a) /\ Dated(dedupe, "get", loc[i], now)
        BY <1>1, <2>1, <3>1 DEF Covered
      <4> QED BY <1>1, <1>2, <3>1, <4>1 DEF InWindow, Present, Seen, Dated, Old
    <3> QED BY <1>1, <2>1, <3>1 DEF Covered, Dated, Seen
  <2>4. ShouldEscalate(loc[i].sev) \in BOOLEAN
    BY DEF ShouldEscalate
  <2> QED BY <1>4, <1>5, <1>6, <1>11, <2>1, <2>2, <2>3, <2>4, CheckEffects
<1>12. CASE Release(i)
  <2>1. alerts' = alerts /\ dedupe' = dedupe /\ now' = now /\ pc[i] = "release"
    BY <1>12, CheckEffects DEF Same
  <2>2. [loc[i] EXCEPT !.at = now].at = now
    BY <1>1 DEF Locals
  <2>3. \A w : loc[i].id = Null /\ w.at = now => Covered(alerts, dedupe, "create", w, now)
    BY <1>1, <2>1 DEF Covered, Dated, Seen
  <2>4. Covered(alerts, dedupe, IF loc[i].id = Null THEN "create" ELSE "count",
                [loc[i] EXCEPT !.at = now], now)
    BY <1>7, <2>1, <2>2, <2>3
  <2> QED BY <1>4, <1>5, <1>6, <1>12, <2>1, <2>4, CheckEffects
<1>13. CASE Create(i)
  <2>1. pc[i] = "create" /\ dedupe' = dedupe /\ now' = now
    BY <1>13, CheckEffects
  <2>2. CASE alerts' = alerts /\ Moves(i, "idle", NoLocal)
    BY <1>4, <1>5, <1>6, <1>7, <2>1, <2>2
  <2>3. ASSUME NEW x \in AlertIds, Inserts(x, i), Moves(i, "record", [loc[i] EXCEPT !.id = x])
        PROVE  Goal
    <3>1. /\ alerts'[x].status = "active" /\ alerts'[x].at = loc[i].at
          /\ \A a \in AlertIds : a # x => alerts'[a] = alerts[a]
      BY <2>3, RowInserted
    <3>2. /\ loc[i].at <= now
          /\ \A a \in AlertIds : Active(alerts, a) =>
               Old(alerts, a, loc[i].at) /\ Seen(alerts, dedupe, "create", loc[i], now, a)
      BY <1>1, <2>1 DEF Covered, Dated, Seen
    <3>3. Apart(alerts')
      BY <1>1, <3>1, <3>2 DEF Apart, Active, Old
    <3>4. pc'[i] = "record" /\ loc'[i].id = x
      BY <1>1, <2>3 DEF Moves, Locals
    <3>5. Dated(dedupe, "record", loc'[i], now)
      BY <1>1, <3>4, DedupAssumption DEF Covered, Dated, DedupAssumption
    <3>6. ASSUME NEW a \in AlertIds, Active(alerts', a)
          PROVE  Seen(alerts', dedupe, "record", loc'[i], now, a)
      BY <1>1, <3>1, <3>2, <3>4, <3>6 DEF Seen, Active, Old
    <3> QED BY <2>1, <3>3, <3>4, <3>5, <3>6 DEF Covered
  <2> QED BY <1>13, <2>2, <2>3, CheckEffects
<1>14. CASE Record(i)
  <2>1. /\ pc[i] = "record" /\ alerts' = alerts /\ now' = now /\ Moves(i, "idle", NoLocal)
        /\ dedupe' = [id |-> loc[i].id, count |-> 1, last |-> now,
                      escalated |-> FALSE, exp |-> now + RecordTTL]
    BY <1>14, CheckEffects
  <2>2. dedupe'.id = loc[i].id /\ dedupe'.last = now /\ dedupe'.exp = now + RecordTTL
    BY <2>1
  <2>3. Covered(alerts, dedupe', "idle", NoLocal, now)
    BY <1>1, <1>2, <2>1, <2>2 DEF Covered, Dated, Seen
  <2> QED BY <1>4, <1>5, <1>6, <2>1, <2>3
<1>15. CASE Count(i)
  BY <1>4, <1>5, <1>6, <1>7, <1>15, UpdateEffects DEF Same
<1>16. CASE Update(i) \/ Escalate(i)
  <2>1. /\ pc[i] # "record" /\ dedupe' = dedupe /\ now' = now
        /\ \E l \in {"touchGet", "markGet", "idle"} : \E v : Moves(i, l, v)
        /\ \/ alerts' = alerts
           \/ alerts' = [alerts EXCEPT ![loc[i].id].count = loc[i].count]
           \/ alerts' = [alerts EXCEPT ![loc[i].id].sev = EscalateSeverity(loc[i].sev)]
    BY <1>16, UpdateEffects
  <2>2. Keeps
    BY <2>1, CountWritten, SevWritten DEF Active
  <2> QED BY <1>4, <1>6, <1>7, <2>1, <2>2
<1>17. CASE TouchGet(i)
  <2> DEFINE d == [dedupe EXCEPT !.last = now, !.count = dedupe.count + 1]
             w == [loc[i] EXCEPT !.copy = d]
  <2>1. alerts' = alerts /\ dedupe' = dedupe /\ now' = now /\ pc[i] = "touchGet"
    BY <1>17, UpdateEffects DEF Same
  <2>2. d.id = dedupe.id /\ d.last = now
    BY <1>1 DEF DedupeRecord
  <2> HIDE DEF d
  <2>3. w.copy = d
    BY <1>1 DEF Locals
  <2> HIDE DEF w
  <2>4. Present => Covered(alerts, dedupe, "touchSet", w, now)
    BY <1>1, <2>1, <2>2, <2>3 DEF Covered, Dated, Seen, Present
  <2>5. Covered(alerts, dedupe, AfterTouch(i), loc[i], now)
    BY <1>7, <2>1 DEF AfterTouch
  <2> QED BY <1>4, <1>5, <1>6, <1>17, <2>1, <2>4, <2>5, UpdateEffects DEF d, w
<1>18. CASE MarkGet(i)
  <2> DEFINE d == [dedupe EXCEPT !.escalated = TRUE]
             w == [loc[i] EXCEPT !.copy = d]
  <2>1. alerts' = alerts /\ dedupe' = dedupe /\ now' = now /\ pc[i] = "markGet"
    BY <1>18, UpdateEffects DEF Same
  <2>2. d.id = dedupe.id /\ d.last = dedupe.last
    BY <1>1 DEF DedupeRecord
  <2> HIDE DEF d
  <2>3. w.copy = d
    BY <1>1 DEF Locals
  <2> HIDE DEF w
  <2>4. Present => Covered(alerts, dedupe, "markSet", w, now)
    BY <1>1, <2>1, <2>2, <2>3 DEF Covered, Dated, Seen, Present
  <2>5. Covered(alerts, dedupe, "idle", NoLocal, now)
    BY <1>7, <2>1
  <2> QED BY <1>4, <1>5, <1>6, <1>18, <2>1, <2>4, <2>5, UpdateEffects DEF d, w
<1>19. CASE TouchSet(i) \/ MarkSet(i)
  <2>1. /\ pc[i] \in {"touchSet", "markSet"} /\ alerts' = alerts /\ now' = now
        /\ dedupe' = [loc[i].copy EXCEPT !.exp = now + RecordTTL]
        /\ \E l \in {"escalate", "idle"} : \E v : Moves(i, l, v)
    BY <1>19, UpdateEffects DEF AfterTouch
  <2>2. /\ dedupe'.id = loc[i].copy.id /\ dedupe'.last = loc[i].copy.last
        /\ dedupe'.exp = now + RecordTTL
    BY <1>1, <2>1 DEF DedupeRecord
  <2>3. \A l \in {"escalate", "idle"} : \A v : Covered(alerts, dedupe', l, v, now)
    BY <1>1, <1>2, <2>1, <2>2 DEF Covered, Dated, Seen
  <2> QED BY <1>4, <1>5, <1>6, <2>1, <2>3
<1>20. CASE Resolve(i)
  <2>1. dedupe' = dedupe /\ now' = now /\ Moves(i, "remove", NoLocal)
    BY <1>20, ResolveEffects
  <2>2. \A a \in AlertIds : ~Active(alerts', a)
    BY <1>20, RowsResolved DEF Active
  <2>3. Apart(alerts') /\ Covered(alerts', dedupe, "remove", NoLocal, now)
    BY <1>1, <2>2 DEF Apart, Covered, Dated
  <2> QED BY <2>1, <2>3 DEF Moves
<1>21. CASE RemoveDedupeInfo(i)
  <2>1. /\ pc[i] = "remove" /\ alerts' = alerts /\ now' = now /\ dedupe' = NoDedupe
        /\ Moves(i, "silence", NoLocal)
    BY <1>21, ResolveEffects
  <2>2. Covered(alerts, NoDedupe, "silence", NoLocal, now)
    BY <1>1, <2>1, NothingFields DEF Covered, Dated, Seen
  <2> QED BY <1>4, <1>5, <1>6, <2>1, <2>2
<1>22. CASE SetSilentPeriod(i) \/ Restart(i)
  BY <1>4, <1>5, <1>6, <1>7, <1>22, ResolveEffects DEF Same
<1>23. ~Crash(i)
  BY DEF Crash
<1> QED BY <1>8, <1>9, <1>10, <1>11, <1>12, <1>13, <1>14, <1>15, <1>16, <1>17, <1>18, <1>19, <1>20,
           <1>21, <1>22, <1>23, SoloStep DEF Runs, Work

(* With one instance that is not killed, a Redis that answers and no task  *)
(* of the background-worker inserting beside it, two active alerts are     *)
(* more than a window apart, also when statements fail without doing       *)
(* anything or the instance stalls while its record expires.  An INSERT    *)
(* that commits and answers with an error leaves a row without a record,   *)
(* hence ~AnswerLost.                                                      *)
THEOREM WindowRespected ==
  ASSUME Alone, ~RedisFails, "crash" \notin Faults, ~AnswerLost, Tasks = {}
  PROVE  Spec => []OnePerWindow
<1>1. Init => WindowInv
  BY NothingFields DEF Init, WindowInv, Apart, Covered, Dated, Active, NoRow, Procs
<1>2. TypeOK /\ WindowInv /\ [Next]_vars => WindowInv'
  BY WindowStep
<1>3. WindowInv => OnePerWindow
  BY DEF WindowInv, Apart, Active, Old, OnePerWindow
<1> QED BY <1>1, <1>2, <1>3, TypeCorrect, PTL DEF Spec
=============================================================================
