----------------------- MODULE NotificationScheduler -----------------------
(***************************************************************************)
(* The notification scheduler of alert-service without its rule engine:    *)
(* Schedule puts a task into a bounded channel without blocking; workers   *)
(* take tasks, ask the rate limiter, and put a denied task back with a     *)
(* send that BLOCKS while the channel is full.  processTask reaches no     *)
(* notifier: the list of recipients and the webhook URL are empty          *)
(* constants in the code, so its retry branch cannot run and a task it     *)
(* takes is simply done.                                                   *)
(***************************************************************************)
EXTENDS Naturals, Sequences, FiniteSets

CONSTANTS
  Tasks,     \* calls of Schedule
  Workers,
  Null,      \* a worker holds no task
  Capacity,  \* of taskChan
  RateLimit  \* maxRequests of the limiter

ASSUME SchedulerAssumption ==
  Capacity \in Nat \ {0} /\ RateLimit \in Nat \ {0} /\ Null \notin Tasks

VARIABLES
  taskChan,
  tokens, due,  \* the limiter; due: its interval has passed since lastRefill
  wpc, wtask,
  cancelled,    \* the context of Start
  done          \* what became of each task

svars == <<taskChan, tokens, due, wpc, wtask, cancelled, done>>

Full == Len(taskChan) >= Capacity

Init ==
  /\ taskChan = << >> /\ tokens = RateLimit /\ due = FALSE
  /\ wpc = [w \in Workers |-> "select"] /\ wtask = [w \in Workers |-> Null]
  /\ cancelled = FALSE
  /\ done = [t \in Tasks |-> "new"]

At(w, l, t) == wpc' = [wpc EXCEPT ![w] = l] /\ wtask' = [wtask EXCEPT ![w] = t]

-----------------------------------------------------------------------------
(* scheduleTraditional: a full channel drops the task; the caller is told  *)
(* that all is well.                                                       *)
Schedule(t) ==
  /\ done[t] = "new"
  /\ IF Full THEN done' = [done EXCEPT ![t] = "dropped"] /\ UNCHANGED taskChan
     ELSE /\ done' = [done EXCEPT ![t] = "scheduled"]
          /\ taskChan' = Append(taskChan, t)
  /\ UNCHANGED <<tokens, due, wpc, wtask, cancelled>>

(* The two cases of the worker's select. *)
Receive(w) ==
  /\ wpc[w] = "select" /\ taskChan # << >>
  /\ At(w, "allow", Head(taskChan))
  /\ taskChan' = Tail(taskChan)
  /\ UNCHANGED <<tokens, due, cancelled, done>>

ExitsWithWork(w) ==
  /\ wpc[w] = "select" /\ cancelled /\ taskChan # << >>
  /\ At(w, "exited", Null)
  /\ UNCHANGED <<taskChan, tokens, due, cancelled, done>>

Exit(w) ==
  /\ wpc[w] = "select" /\ cancelled
  /\ At(w, "exited", Null)
  /\ UNCHANGED <<taskChan, tokens, due, cancelled, done>>

(* rateLimiter.Allow: refill when the interval has passed, then take one.  *)
NeverRefilled == tokens
Refilled      == IF due THEN RateLimit ELSE tokens

HasToken == Refilled > 0

Allow(w) ==
  /\ wpc[w] = "allow"
  /\ due' = FALSE
  /\ IF HasToken
     THEN At(w, "process", wtask[w]) /\ tokens' = Refilled - 1
     ELSE At(w, "limited", wtask[w]) /\ tokens' = Refilled
  /\ UNCHANGED <<taskChan, cancelled, done>>

(* The delayed taskChan <- task, which does not watch the context.         *)
RequeueAndProcess(w) ==
  /\ wpc[w] = "limited" /\ ~Full
  /\ taskChan' = Append(taskChan, wtask[w])
  /\ At(w, "process", wtask[w])
  /\ UNCHANGED <<tokens, due, cancelled, done>>

Requeue(w) ==
  /\ wpc[w] = "limited" /\ ~Full
  /\ taskChan' = Append(taskChan, wtask[w])
  /\ At(w, "select", Null)
  /\ UNCHANGED <<tokens, due, cancelled, done>>

ProcessTask(w) ==
  /\ wpc[w] = "process"
  /\ done' = [done EXCEPT ![wtask[w]] = "processed"]
  /\ At(w, "select", Null)
  /\ UNCHANGED <<taskChan, tokens, due, cancelled>>

IntervalPasses ==
  /\ due' = TRUE
  /\ UNCHANGED <<taskChan, tokens, wpc, wtask, cancelled, done>>

Cancel ==
  /\ ~cancelled
  /\ cancelled' = TRUE
  /\ UNCHANGED <<taskChan, tokens, due, wpc, wtask, done>>

Step(w) == Receive(w) \/ Allow(w) \/ Requeue(w) \/ ProcessTask(w)

Next ==
  \/ (\E t \in Tasks : Schedule(t)) \/ IntervalPasses \/ Cancel
  \/ \E w \in Workers : Step(w) \/ Exit(w)

Spec == Init /\ [][Next]_svars

(* Time passes and every goroutine that can go on does: a select with one  *)
(* ready case takes it.                                                    *)
Fairness ==
  /\ WF_svars(IntervalPasses)
  /\ \A w \in Workers : WF_svars(Step(w)) /\ WF_svars(Exit(w))
FairSpec == Spec /\ Fairness

-----------------------------------------------------------------------------
TypeOK ==
  /\ taskChan \in Seq(Tasks) /\ Len(taskChan) <= Capacity
  /\ tokens \in 0..RateLimit /\ due \in BOOLEAN /\ cancelled \in BOOLEAN
  /\ wpc \in [Workers -> {"select", "allow", "limited", "process", "exited"}]
  /\ wtask \in [Workers -> Tasks \cup {Null}]
  /\ done \in [Tasks -> {"new", "dropped", "scheduled", "processed"}]

(* A scheduled task is in exactly one place, a worker's hands or one slot  *)
(* of the channel, until it is processed: no requeue loses or doubles it.  *)
OnePlace ==
  \A t \in Tasks :
    Cardinality({k \in 1..Len(taskChan) : taskChan[k] = t})
      + Cardinality({w \in Workers : wtask[w] = t})
      = IF done[t] = "scheduled" THEN 1 ELSE 0

(* The jam of the blocking requeue: the channel is full and every worker   *)
(* that is left waits for room in it.  Nobody takes a task out any more.   *)
Jammed ==
  /\ Full
  /\ \A w \in Workers : wpc[w] \in {"limited", "exited"}
  /\ \E w \in Workers : wpc[w] = "limited"

(* Every task the channel took is processed once the limiter lets it,      *)
(* however often it is denied and put back, also through a full channel:   *)
(* only a shutdown or the jam leaves it waiting.                           *)
EveryTaskProcessed ==
  \A t \in Tasks :
    done[t] = "scheduled" ~> done[t] = "processed" \/ cancelled \/ Jammed

(* After cancel every worker returns, one that was putting a task back     *)
(* included, unless the workers that are left are jammed.                  *)
WorkersExit == \A w \in Workers : cancelled ~> wpc[w] = "exited" \/ Jammed

(* "Reschedule after a delay": a denied task goes back into the channel.   *)
Rescheduled ==
  \A w \in Workers : wpc[w] = "limited" ~> wpc[w] # "limited" \/ cancelled
=============================================================================
