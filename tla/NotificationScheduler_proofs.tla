-------------------- MODULE NotificationScheduler_proofs --------------------
(***************************************************************************)
(* Proofs about the notification scheduler, for any number of tasks and    *)
(* workers and any capacity and rate: a task that was scheduled and is not *)
(* processed is in exactly one place.                                      *)
(***************************************************************************)
EXTENDS NotificationScheduler, FiniteSetTheorems, SequenceTheorems, TLAPS

Busy       == {"allow", "limited", "process"}
Places     == Busy \cup {"select", "exited"}
Held(t)    == \E w \in Workers : wtask[w] = t
Occurs(q, t) == \E k \in 1..Len(q) : q[k] = t
NoneTwice(q) == \A j, k \in 1..Len(q) : q[j] = q[k] => j = k

(* What holds between steps, beside the types: a worker has a task exactly *)
(* while it works on one; no task is twice in the channel, in the channel  *)
(* and with a worker, or with two workers; and the tasks that are          *)
(* somewhere are those scheduled and not processed.                        *)
TasksHeld  == \A w \in Workers : wtask[w] # Null <=> wpc[w] \in Busy
TasksApart ==
  \A w \in Workers : wtask[w] # Null =>
    /\ ~Occurs(taskChan, wtask[w])
    /\ \A v \in Workers \ {w} : wtask[v] # wtask[w]
Outstanding ==
  \A t \in Tasks : done[t] = "scheduled" <=> Occurs(taskChan, t) \/ Held(t)

SchedulerInv ==
  /\ TypeOK /\ TasksHeld /\ NoneTwice(taskChan) /\ TasksApart /\ Outstanding

-----------------------------------------------------------------------------
(* A channel without repetitions, when a new element enters it and when    *)
(* its first one leaves.                                                   *)
LEMMA Appended ==
  ASSUME NEW S, NEW q \in Seq(S), NEW e \in S, NoneTwice(q), ~Occurs(q, e)
  PROVE  /\ Append(q, e) \in Seq(S) /\ Len(Append(q, e)) = Len(q) + 1
         /\ NoneTwice(Append(q, e))
         /\ \A d : Occurs(Append(q, e), d) <=> Occurs(q, d) \/ d = e
<1> DEFINE r == Append(q, e)
<1>1. Len(q) \in Nat
  BY LenProperties
<1>2. /\ r \in Seq(S) /\ Len(r) = Len(q) + 1
      /\ \A k \in 1..Len(q) : r[k] = q[k]
      /\ r[Len(q) + 1] = e
  BY <1>1, AppendProperties
<1> HIDE DEF r
<1>3. \A k \in 1..Len(q) : q[k] # e
  BY DEF Occurs
<1>4. /\ \A k \in 1..Len(r) : k \in 1..Len(q) \/ k = Len(q) + 1
      /\ 1..Len(q) \subseteq 1..Len(r) /\ Len(q) + 1 \in 1..Len(r)
  BY <1>1, <1>2
<1>5. NoneTwice(r)
  BY <1>2, <1>3, <1>4 DEF NoneTwice
<1>6. \A d : Occurs(r, d) <=> Occurs(q, d) \/ d = e
  BY <1>2, <1>4 DEF Occurs
<1> QED BY <1>2, <1>5, <1>6 DEF r

LEMMA TakenOff ==
  ASSUME NEW S, NEW q \in Seq(S), NoneTwice(q), q # << >>
  PROVE  /\ Tail(q) \in Seq(S) /\ Len(Tail(q)) <= Len(q)
         /\ Head(q) \in S /\ Occurs(q, Head(q))
         /\ NoneTwice(Tail(q))
         /\ \A d : Occurs(Tail(q), d) <=> Occurs(q, d) /\ d # Head(q)
<1> DEFINE r == Tail(q)
<1>1. Len(q) \in Nat \ {0}
  BY EmptySeq
<1>2. /\ Head(q) \in S /\ Head(q) = q[1]
      /\ r \in Seq(S) /\ Len(r) = Len(q) - 1
      /\ \A k \in 1..Len(r) : r[k] = q[k + 1]
  BY <1>1, HeadTailProperties
<1> HIDE DEF r
<1>3. /\ \A k \in 1..Len(r) : k + 1 \in 1..Len(q) /\ k + 1 # 1
      /\ 1 \in 1..Len(q)
      /\ \A k \in 1..Len(q) : k # 1 => k - 1 \in 1..Len(r) /\ (k - 1) + 1 = k
  BY <1>1, <1>2
<1>4. NoneTwice(r)
  BY <1>2, <1>3 DEF NoneTwice
<1>5. ASSUME NEW d PROVE Occurs(r, d) <=> Occurs(q, d) /\ d # Head(q)
  <2>1. ASSUME NEW k \in 1..Len(r), r[k] = d PROVE Occurs(q, d) /\ d # Head(q)
    <3>1. k + 1 \in 1..Len(q) /\ k + 1 # 1 /\ q[k + 1] = d
      BY <1>2, <1>3, <2>1
    <3>2. q[k + 1] # q[1]
      BY <1>3, <3>1 DEF NoneTwice
    <3> QED BY <1>2, <3>1, <3>2 DEF Occurs
  <2>2. ASSUME NEW k \in 1..Len(q), q[k] = d, d # Head(q) PROVE Occurs(r, d)
    <3>1. k - 1 \in 1..Len(r) /\ r[k - 1] = d
      BY <1>2, <1>3, <2>2
    <3> QED BY <3>1 DEF Occurs
  <2> QED BY <2>1, <2>2 DEF Occurs
<1>6. Occurs(q, Head(q))
  BY <1>2, <1>3 DEF Occurs
<1> QED BY <1>1, <1>2, <1>4, <1>5, <1>6 DEF r

(* What a worker does leaves the others alone.                             *)
LEMMA AtEffect ==
  ASSUME TypeOK, NEW w \in Workers, NEW l \in Places, NEW t \in Tasks \cup {Null}, At(w, l, t)
  PROVE  /\ wpc' \in [Workers -> Places] /\ wtask' \in [Workers -> Tasks \cup {Null}]
         /\ wpc'[w] = l /\ wtask'[w] = t
         /\ \A v \in Workers \ {w} : wpc'[v] = wpc[v] /\ wtask'[v] = wtask[v]
  BY DEF TypeOK, At, Places, Busy

(* The task of a busy worker.                                              *)
LEMMA TaskOf ==
  ASSUME SchedulerInv, NEW w \in Workers, wpc[w] \in Busy
  PROVE  /\ wtask[w] \in Tasks /\ wtask[w] # Null
         /\ ~Occurs(taskChan, wtask[w]) /\ Held(wtask[w])
         /\ \A v \in Workers \ {w} : wtask[v] # wtask[w]
<1>1. wtask[w] # Null /\ wtask[w] \in Tasks
  BY DEF SchedulerInv, TasksHeld, TypeOK
<1> QED BY <1>1 DEF SchedulerInv, TasksApart, Held

-----------------------------------------------------------------------------
(* Every action keeps the invariant.                                       *)
LEMMA SchedulerInvInit == ASSUME Init PROVE SchedulerInv
<1>1. << >> \in Seq(Tasks) /\ Len(<< >>) = 0
  BY EmptySeq
<1>2. TypeOK
  <2>1. tokens \in 0..RateLimit /\ Len(taskChan) <= Capacity /\ taskChan \in Seq(Tasks)
    BY <1>1, SchedulerAssumption DEF Init
  <2>2. due \in BOOLEAN /\ cancelled \in BOOLEAN
    BY DEF Init
  <2> QED BY <2>1, <2>2 DEF Init, TypeOK
<1>3. \A t : ~Occurs(taskChan, t)
  BY <1>1 DEF Init, Occurs
<1>4. NoneTwice(taskChan)
  BY <1>1 DEF Init, NoneTwice
<1>5. TasksHeld /\ TasksApart
  BY DEF Init, TasksHeld, TasksApart, Busy
<1>6. Outstanding
  BY <1>3, SchedulerAssumption DEF Init, Outstanding, Held
<1> QED BY <1>2, <1>4, <1>5, <1>6 DEF SchedulerInv

LEMMA ScheduleInv ==
  ASSUME SchedulerInv, NEW t \in Tasks, Schedule(t)
  PROVE  SchedulerInv'
<1>0. /\ UNCHANGED <<tokens, due, wpc, wtask, cancelled>> /\ done[t] = "new"
      /\ ~Occurs(taskChan, t) /\ ~Held(t)
  BY DEF Schedule, SchedulerInv, Outstanding
<1>1. CASE Full
  <2>1. taskChan' = taskChan /\ done' = [done EXCEPT ![t] = "dropped"]
    BY <1>1 DEF Schedule
  <2>2. TypeOK'
    BY <1>0, <2>1 DEF SchedulerInv, TypeOK
  <2>3. Outstanding'
    BY <1>0, <2>1 DEF SchedulerInv, TypeOK, Outstanding, Held
  <2> QED BY <1>0, <2>1, <2>2, <2>3 DEF SchedulerInv, TasksHeld, TasksApart
<1>2. CASE ~Full
  <2>1. taskChan' = Append(taskChan, t) /\ done' = [done EXCEPT ![t] = "scheduled"]
    BY <1>2 DEF Schedule
  <2>2. /\ taskChan' \in Seq(Tasks) /\ Len(taskChan') = Len(taskChan) + 1
        /\ NoneTwice(taskChan') /\ \A d : Occurs(taskChan', d) <=> Occurs(taskChan, d) \/ d = t
    BY <1>0, <2>1, Appended DEF SchedulerInv, TypeOK
  <2>3. TypeOK'
    <3>1. Len(taskChan') <= Capacity
      BY <1>2, <2>2, SchedulerAssumption, LenProperties DEF Full, SchedulerInv, TypeOK
    <3>2. done' \in [Tasks -> {"new", "dropped", "scheduled", "processed"}]
      BY <2>1 DEF SchedulerInv, TypeOK
    <3> QED BY <1>0, <2>2, <3>1, <3>2 DEF SchedulerInv, TypeOK
  <2>4. TasksApart'
    BY <1>0, <2>2 DEF SchedulerInv, TasksApart, Held
  <2>5. Outstanding'
    <3>1. \A d \in Tasks : done'[d] = IF d = t THEN "scheduled" ELSE done[d]
      BY <2>1 DEF SchedulerInv, TypeOK
    <3>2. \A d \in Tasks : Held(d)' <=> Held(d)
      BY <1>0 DEF Held
    <3> QED BY <2>2, <3>1, <3>2 DEF SchedulerInv, Outstanding
  <2> QED BY <1>0, <2>2, <2>3, <2>4, <2>5 DEF SchedulerInv, TasksHeld
<1> QED BY <1>1, <1>2

LEMMA ReceiveInv ==
  ASSUME SchedulerInv, NEW w \in Workers, Receive(w)
  PROVE  SchedulerInv'
<1>1. PICK t : t = Head(taskChan)
  OBVIOUS
<1>2. /\ At(w, "allow", t) /\ taskChan' = Tail(taskChan) /\ taskChan # << >>
      /\ wpc[w] = "select" /\ UNCHANGED <<tokens, due, cancelled, done>>
  BY <1>1 DEF Receive
<1>3. /\ taskChan' \in Seq(Tasks) /\ Len(taskChan') <= Len(taskChan)
      /\ t \in Tasks /\ Occurs(taskChan, t) /\ NoneTwice(taskChan')
      /\ \A d : Occurs(taskChan', d) <=> Occurs(taskChan, d) /\ d # t
  BY <1>1, <1>2, TakenOff DEF SchedulerInv, TypeOK
<1>4. /\ wpc' \in [Workers -> Places] /\ wtask' \in [Workers -> Tasks \cup {Null}]
      /\ wpc'[w] = "allow" /\ wtask'[w] = t /\ wtask[w] = Null
      /\ \A v \in Workers \ {w} : wpc'[v] = wpc[v] /\ wtask'[v] = wtask[v]
  BY <1>2, <1>3, AtEffect DEF SchedulerInv, TasksHeld, Places, Busy
<1>5. t # Null /\ \A v \in Workers : wtask[v] # t
  BY <1>3, SchedulerAssumption DEF SchedulerInv, TasksApart
<1>6. TypeOK'
  <2>1. Len(taskChan') <= Capacity
    BY <1>3, SchedulerAssumption, LenProperties DEF SchedulerInv, TypeOK
  <2> QED BY <1>2, <1>3, <1>4, <2>1 DEF SchedulerInv, TypeOK, Places, Busy
<1>7. TasksHeld' /\ TasksApart'
  BY <1>3, <1>4, <1>5 DEF SchedulerInv, TasksHeld, TasksApart, Busy
<1>8. Outstanding'
  <2>1. \A d \in Tasks : Held(d)' <=> Held(d) \/ d = t
    BY <1>4, SchedulerAssumption DEF Held
  <2> QED BY <1>2, <1>3, <2>1 DEF SchedulerInv, Outstanding
<1> QED BY <1>3, <1>6, <1>7, <1>8 DEF SchedulerInv

(* A worker that keeps its task, or has none before and after.             *)
LEMMA GoOnInv ==
  ASSUME SchedulerInv, NEW w \in Workers, NEW l \in Places, wtask[w] # Null <=> l \in Busy,
         At(w, l, wtask[w]), tokens' \in 0..RateLimit, due' \in BOOLEAN,
         UNCHANGED <<taskChan, cancelled, done>>
  PROVE  SchedulerInv'
<1>1. wtask[w] \in Tasks \cup {Null}
  BY DEF SchedulerInv, TypeOK
<1>2. /\ wpc' \in [Workers -> Places] /\ wpc'[w] = l
      /\ \A v \in Workers : wtask'[v] = wtask[v]
      /\ \A v \in Workers \ {w} : wpc'[v] = wpc[v]
      /\ wtask' \in [Workers -> Tasks \cup {Null}]
  BY <1>1, AtEffect DEF SchedulerInv
<1>3. TypeOK'
  BY <1>2 DEF SchedulerInv, TypeOK, Places, Busy
<1>4. TasksHeld' /\ TasksApart' /\ Outstanding'
  BY <1>2 DEF SchedulerInv, TasksHeld, TasksApart, Outstanding, Held
<1> QED BY <1>3, <1>4 DEF SchedulerInv

LEMMA AllowInv == ASSUME SchedulerInv, NEW w \in Workers, Allow(w) PROVE SchedulerInv'
<1>1. wtask[w] # Null
  BY DEF Allow, SchedulerInv, TasksHeld, Busy
<1>2. Refilled \in 0..RateLimit
  BY SchedulerAssumption DEF Refilled, SchedulerInv, TypeOK
<1>3. tokens' \in 0..RateLimit
  BY <1>2, SchedulerAssumption DEF Allow, HasToken
<1>4. PICK l \in {"process", "limited"} : At(w, l, wtask[w])
  BY DEF Allow
<1> QED BY <1>1, <1>3, <1>4, GoOnInv DEF Allow, Places, Busy

LEMMA ExitInv == ASSUME SchedulerInv, NEW w \in Workers, Exit(w) PROVE SchedulerInv'
<1>1. wtask[w] = Null
  BY DEF Exit, SchedulerInv, TasksHeld, Busy
<1>2. tokens' \in 0..RateLimit /\ due' \in BOOLEAN
  BY DEF Exit, SchedulerInv, TypeOK
<1> QED BY <1>1, <1>2, GoOnInv DEF Exit, Places, Busy

(* A worker that hands its task on: into the channel, or done with.        *)
LEMMA HandsOn ==
  ASSUME SchedulerInv, NEW w \in Workers, wpc[w] \in Busy, At(w, "select", Null)
  PROVE  /\ wpc' \in [Workers -> Places] /\ wtask' \in [Workers -> Tasks \cup {Null}]
         /\ wtask'[w] = Null /\ \A v \in Workers \ {w} : wtask'[v] = wtask[v]
         /\ TasksHeld' /\ \A d \in Tasks : Held(d)' <=> Held(d) /\ d # wtask[w]
<1>1. /\ wpc' \in [Workers -> Places] /\ wtask' \in [Workers -> Tasks \cup {Null}]
      /\ wpc'[w] = "select" /\ wtask'[w] = Null
      /\ \A v \in Workers \ {w} : wpc'[v] = wpc[v] /\ wtask'[v] = wtask[v]
  BY AtEffect DEF SchedulerInv, Places, Busy
<1>2. TasksHeld'
  BY <1>1 DEF SchedulerInv, TasksHeld, Busy
<1>3. \A d \in Tasks : Held(d)' <=> Held(d) /\ d # wtask[w]
  BY <1>1, TaskOf, SchedulerAssumption DEF Held
<1> QED BY <1>1, <1>2, <1>3

LEMMA RequeueInv == ASSUME SchedulerInv, NEW w \in Workers, Requeue(w) PROVE SchedulerInv'
<1>0. wpc[w] \in Busy
  BY DEF Requeue, Busy
<1>1. PICK t \in Tasks : /\ t = wtask[w] /\ t # Null /\ ~Occurs(taskChan, t) /\ Held(t)
                        /\ \A v \in Workers \ {w} : wtask[v] # t
  BY <1>0, TaskOf
<1>2. /\ At(w, "select", Null) /\ taskChan' = Append(taskChan, t) /\ ~Full
      /\ UNCHANGED <<tokens, due, cancelled, done>>
  BY <1>1 DEF Requeue
<1>3. /\ taskChan' \in Seq(Tasks) /\ Len(taskChan') = Len(taskChan) + 1
      /\ NoneTwice(taskChan') /\ \A d : Occurs(taskChan', d) <=> Occurs(taskChan, d) \/ d = t
  BY <1>1, <1>2, Appended DEF SchedulerInv, TypeOK
<1>4. /\ wpc' \in [Workers -> Places] /\ wtask' \in [Workers -> Tasks \cup {Null}]
      /\ wtask'[w] = Null /\ \A v \in Workers \ {w} : wtask'[v] = wtask[v]
      /\ TasksHeld' /\ \A d \in Tasks : Held(d)' <=> Held(d) /\ d # t
  BY <1>0, <1>1, <1>2, HandsOn
<1>5. TypeOK'
  <2>1. Len(taskChan') <= Capacity
    BY <1>2, <1>3, SchedulerAssumption, LenProperties DEF Full, SchedulerInv, TypeOK
  <2> QED BY <1>2, <1>3, <1>4, <2>1 DEF SchedulerInv, TypeOK, Places, Busy
<1>6. TasksApart'
  BY <1>1, <1>3, <1>4 DEF SchedulerInv, TasksApart
<1>7. Outstanding'
  BY <1>1, <1>2, <1>3, <1>4 DEF SchedulerInv, Outstanding
<1> QED BY <1>3, <1>4, <1>5, <1>6, <1>7 DEF SchedulerInv

LEMMA ProcessInv == ASSUME SchedulerInv, NEW w \in Workers, ProcessTask(w) PROVE SchedulerInv'
<1>0. wpc[w] \in Busy
  BY DEF ProcessTask, Busy
<1>1. PICK t \in Tasks : /\ t = wtask[w] /\ t # Null /\ ~Occurs(taskChan, t)
                        /\ \A v \in Workers \ {w} : wtask[v] # t
  BY <1>0, TaskOf
<1>2. /\ At(w, "select", Null) /\ done' = [done EXCEPT ![t] = "processed"]
      /\ UNCHANGED <<taskChan, tokens, due, cancelled>>
  BY <1>1 DEF ProcessTask
<1>3. /\ wpc' \in [Workers -> Places] /\ wtask' \in [Workers -> Tasks \cup {Null}]
      /\ wtask'[w] = Null /\ \A v \in Workers \ {w} : wtask'[v] = wtask[v]
      /\ TasksHeld' /\ \A d \in Tasks : Held(d)' <=> Held(d) /\ d # t
  BY <1>0, <1>1, <1>2, HandsOn
<1>4. done' \in [Tasks -> {"new", "dropped", "scheduled", "processed"}]
      /\ \A d \in Tasks : done'[d] = IF d = t THEN "processed" ELSE done[d]
  BY <1>2 DEF SchedulerInv, TypeOK
<1>5. TypeOK'
  BY <1>2, <1>3, <1>4 DEF SchedulerInv, TypeOK, Places, Busy
<1>6. TasksApart'
  BY <1>2, <1>3 DEF SchedulerInv, TasksApart
<1>7. Outstanding'
  BY <1>1, <1>2, <1>3, <1>4 DEF SchedulerInv, Outstanding
<1> QED BY <1>2, <1>3, <1>5, <1>6, <1>7 DEF SchedulerInv

(* Every step of the callers, the workers, the limiter and the shutdown    *)
(* keeps the invariant.                                                    *)
THEOREM SchedulerInvStep == ASSUME SchedulerInv, [Next]_svars PROVE SchedulerInv'
<1>1. ASSUME NEW t \in Tasks, Schedule(t) PROVE SchedulerInv'
  BY <1>1, ScheduleInv
<1>2. ASSUME NEW w \in Workers, Step(w) \/ Exit(w) PROVE SchedulerInv'
  BY <1>2, ReceiveInv, AllowInv, RequeueInv, ProcessInv, ExitInv DEF Step
<1>3. CASE IntervalPasses \/ Cancel \/ UNCHANGED svars
  <2>1. /\ UNCHANGED <<taskChan, tokens, wpc, wtask, done>>
        /\ due' \in BOOLEAN /\ cancelled' \in BOOLEAN
    BY <1>3 DEF IntervalPasses, Cancel, svars, SchedulerInv, TypeOK
  <2>2. TypeOK'
    BY <2>1 DEF SchedulerInv, TypeOK
  <2> QED BY <2>1, <2>2 DEF SchedulerInv, TasksHeld, TasksApart, Outstanding, Held
<1> QED BY <1>1, <1>2, <1>3 DEF Next

(* The invariant holds in every state of Schedule and its workers.         *)
THEOREM SchedulerInvariant == Spec => []SchedulerInv
  BY SchedulerInvInit, SchedulerInvStep, PTL DEF Spec

(* Every state has its types: the blocking send of a denied task never     *)
(* puts more than Capacity tasks into the channel, nor does the limiter    *)
(* give more tokens than it has.                                           *)
THEOREM SchedulerTypeCorrect == Spec => []TypeOK
<1>1. SchedulerInv => TypeOK
  BY DEF SchedulerInv
<1> QED BY <1>1, SchedulerInvariant, PTL

-----------------------------------------------------------------------------
(* A scheduled task is in exactly one place until it is processed; any     *)
(* other task is in none.                                                  *)
LEMMA AtMostOne ==
  ASSUME NEW S, NEW x, S \subseteq {x}
  PROVE  Cardinality(S) = IF S = {} THEN 0 ELSE 1
<1>1. S = {} \/ S = {x}
  OBVIOUS
<1> QED BY <1>1, FS_EmptySet, FS_Singleton

LEMMA OnePlaceHolds == ASSUME SchedulerInv PROVE OnePlace
<1> SUFFICES ASSUME NEW t \in Tasks
             PROVE  Cardinality({k \in 1..Len(taskChan) : taskChan[k] = t})
                      + Cardinality({w \in Workers : wtask[w] = t})
                      = IF done[t] = "scheduled" THEN 1 ELSE 0
  BY DEF OnePlace
<1> DEFINE Q == {k \in 1..Len(taskChan) : taskChan[k] = t}
           H == {w \in Workers : wtask[w] = t}
<1>1. PICK j : Q \subseteq {j}
  <2>1. \A j, k \in Q : j = k
    BY DEF SchedulerInv, NoneTwice
  <2> QED BY <2>1
<1>2. PICK w : H \subseteq {w}
  <2>1. \A v, w \in H : v = w
    BY SchedulerAssumption DEF SchedulerInv, TasksApart
  <2> QED BY <2>1
<1>3. Q = {} \/ H = {}
  BY SchedulerAssumption DEF SchedulerInv, TasksApart, Occurs
<1>4. done[t] = "scheduled" <=> Q # {} \/ H # {}
  BY DEF SchedulerInv, Outstanding, Held, Occurs
<1>5. /\ Cardinality(Q) = IF Q = {} THEN 0 ELSE 1
      /\ Cardinality(H) = IF H = {} THEN 0 ELSE 1
  BY <1>1, <1>2, AtMostOne
<1> HIDE DEF Q, H
<1>6. Cardinality(Q) + Cardinality(H) = IF done[t] = "scheduled" THEN 1 ELSE 0
  BY <1>3, <1>4, <1>5
<1> QED BY <1>6 DEF Q, H

(* A scheduled task is in the channel or with one worker, in one place     *)
(* exactly, until it is processed: putting a denied task back neither      *)
(* doubles nor loses it.                                                   *)
THEOREM TaskInOnePlace == Spec => []OnePlace
  BY OnePlaceHolds, SchedulerInvariant, PTL
=============================================================================
