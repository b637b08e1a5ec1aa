------------------------ MODULE EmailNotifier_proofs ------------------------
(***************************************************************************)
(* Proofs about the email notifier, for any number of emails and workers,  *)
(* any queue, rate and retry limit, and with Stop and panics: an email is  *)
(* in one place, the rate is respected, and the delivery promise is kept.  *)
(***************************************************************************)
EXTENDS EmailNotifier, FiniteSetTheorems, SequenceTheorems, TLAPS

Busy    == {"allow", "limited", "send", "retry"}
Placing == Busy \cup {"select", "exited"}
Held(e) == \E w \in Workers : wtask[w] = e

(* What holds between steps, beside the types: a worker has a task exactly *)
(* while it works on one; ...                                              *)
TasksHeld == \A w \in Workers : wtask[w] # Null <=> wpc[w] \in Busy

(* ... no two places of the queue have the same email, no worker has one   *)
(* that is in the queue or that another worker has; ...                    *)
QueueApart == \A j, k \in 1..Len(queue) : queue[j] = queue[k] => j = k

TasksApart ==
  \A w \in Workers : wtask[w] # Null =>
    /\ ~InQueue(wtask[w])
    /\ \A v \in Workers \ {w} : wtask[v] # wtask[w]

(* ... an email that is somewhere has no outcome yet; ...                  *)
NotSettled == \A e \in Emails : InQueue(e) \/ Held(e) => outcome[e] = "none"

(* ... an email without an outcome was offered as often as it was retried; *)
AttemptsCounted == \A e \in Emails : outcome[e] = "none" => attempts[e] = retries[e]

(* ... and what was admitted since the last refill has left the bucket.    *)
TokensLeft == burst + tokens <= RateLimit

EmailInv ==
  /\ TypeOK /\ TasksHeld /\ QueueApart /\ TasksApart /\ NotSettled
  /\ AttemptsCounted /\ TokensLeft

-----------------------------------------------------------------------------
(* The queue.                                                              *)
LEMMA Appended ==
  ASSUME TypeOK, QueueApart, NEW e \in Emails, ~InQueue(e), queue' = Append(queue, e)
  PROVE  /\ queue' \in Seq(Emails) /\ Len(queue') = Len(queue) + 1
         /\ QueueApart' /\ \A d : InQueue(d)' <=> InQueue(d) \/ d = e
<1>1. /\ queue \in Seq(Emails) /\ Len(queue) \in Nat
  BY LenProperties DEF TypeOK
<1>2. /\ queue' \in Seq(Emails) /\ Len(queue') = Len(queue) + 1
      /\ \A k \in 1..Len(queue) : queue'[k] = queue[k]
      /\ queue'[Len(queue) + 1] = e
  BY <1>1, AppendProperties
<1>3. \A k \in 1..Len(queue) : queue[k] # e
  BY DEF InQueue
<1>4. \A k \in 1..Len(queue') : k \in 1..Len(queue) \/ k = Len(queue) + 1
  BY <1>1, <1>2
<1>5. 1..Len(queue) \subseteq 1..Len(queue') /\ Len(queue) + 1 \in 1..Len(queue')
  BY <1>1, <1>2
<1>6. QueueApart'
  BY <1>2, <1>3, <1>4 DEF QueueApart
<1>7. \A d : InQueue(d)' <=> InQueue(d) \/ d = e
  BY <1>2, <1>4, <1>5 DEF InQueue
<1> QED BY <1>2, <1>6, <1>7

LEMMA TakenOff ==
  ASSUME TypeOK, QueueApart, queue # << >>, queue' = Tail(queue)
  PROVE  /\ queue' \in Seq(Emails) /\ Len(queue') <= Len(queue)
         /\ Head(queue) \in Emails /\ InQueue(Head(queue))
         /\ QueueApart' /\ \A d : InQueue(d)' <=> InQueue(d) /\ d # Head(queue)
<1>1. /\ queue \in Seq(Emails) /\ Len(queue) \in Nat \ {0}
  BY EmptySeq DEF TypeOK
<1>2. /\ Head(queue) \in Emails /\ Head(queue) = queue[1]
      /\ queue' \in Seq(Emails) /\ Len(queue') = Len(queue) - 1
      /\ \A k \in 1..Len(queue') : queue'[k] = queue[k + 1]
  BY <1>1, HeadTailProperties
<1>3. \A k \in 1..Len(queue') : k + 1 \in 1..Len(queue) /\ k + 1 # 1
  BY <1>1, <1>2
<1>4. 1 \in 1..Len(queue) /\ \A k \in 1..Len(queue) : k # 1 => k - 1 \in 1..Len(queue') /\ (k - 1) + 1 = k
  BY <1>1, <1>2
<1>5. QueueApart'
  BY <1>2, <1>3 DEF QueueApart
<1>6. ASSUME NEW d PROVE InQueue(d)' <=> InQueue(d) /\ d # Head(queue)
  <2>1. InQueue(d)' => InQueue(d) /\ d # Head(queue)
    BY <1>2, <1>3, <1>4 DEF InQueue, QueueApart
  <2>2. InQueue(d) /\ d # Head(queue) => InQueue(d)'
    BY <1>2, <1>4 DEF InQueue
  <2> QED BY <2>1, <2>2
<1>7. InQueue(Head(queue))
  BY <1>2, <1>4 DEF InQueue
<1> QED BY <1>1, <1>2, <1>5, <1>6, <1>7

(* What a worker does leaves the others alone.                             *)
LEMMA WorkEffect ==
  ASSUME TypeOK, NEW w \in Workers, NEW l \in Placing, NEW e \in Emails \cup {Null}, Work(w, l, e)
  PROVE  /\ wpc' \in [Workers -> Placing] /\ wtask' \in [Workers -> Emails \cup {Null}]
         /\ wpc'[w] = l /\ wtask'[w] = e
         /\ \A v \in Workers \ {w} : wpc'[v] = wpc[v] /\ wtask'[v] = wtask[v]
  BY DEF TypeOK, Work, Placing, Busy

(* The task of a busy worker.                                              *)
LEMMA TaskOf ==
  ASSUME EmailInv, NEW w \in Workers, wpc[w] \in Busy
  PROVE  /\ wtask[w] \in Emails /\ wtask[w] # Null /\ Held(wtask[w])
         /\ ~InQueue(wtask[w]) /\ outcome[wtask[w]] = "none"
         /\ \A v \in Workers \ {w} : wtask[v] # wtask[w]
         /\ attempts[wtask[w]] = retries[wtask[w]]
<1>1. wtask[w] # Null /\ wtask[w] \in Emails
  BY DEF EmailInv, TasksHeld, TypeOK
<1> QED BY <1>1 DEF EmailInv, TasksApart, NotSettled, AttemptsCounted, Held
-----------------------------------------------------------------------------
(* Every action keeps the invariant.                                       *)
LEMMA EmailInvInit == ASSUME Init PROVE EmailInv
<1>1. TypeOK
  <2>1. << >> \in Seq(Emails) /\ Len(<< >>) = 0
    BY EmptySeq
  <2>2. /\ stats \in [sent : Nat, failed : Nat, retried : Nat]
        /\ clean \in BOOLEAN /\ crashed \in BOOLEAN
    BY DEF Init
  <2>3. /\ tokens \in 0..RateLimit /\ burst \in Nat /\ Len(queue) <= QueueSize
        /\ retries \in [Emails -> 0..MaxRetries]
    BY <2>1, EmailAssumption DEF Init
  <2> QED BY <2>1, <2>2, <2>3 DEF Init, TypeOK
<1>2. TasksHeld
  BY DEF Init, TasksHeld, Busy
<1>3. /\ \A e \in Emails : ~InQueue(e) /\ ~Held(e)
      /\ QueueApart
  BY EmptySeq, EmailAssumption DEF Init, InQueue, Held, QueueApart
<1>4. TasksApart /\ NotSettled /\ AttemptsCounted
  BY <1>3 DEF Init, TasksApart, NotSettled, AttemptsCounted
<1>5. TokensLeft
  BY EmailAssumption DEF Init, TokensLeft
<1> QED BY <1>1, <1>2, <1>3, <1>4, <1>5 DEF EmailInv

(* Neither a panic nor Stop touches queue, workers or bucket.              *)
Idles == UNCHANGED <<queue, tokens, workers, retries, stats, history, burst>>

LEMMA IdleInv ==
  ASSUME EmailInv, Idles, stopper' \in {"running", "waiting", "returned"},
         clean' \in BOOLEAN, crashed' \in BOOLEAN
  PROVE  EmailInv'
<1>1. TypeOK'
  BY DEF EmailInv, Idles, workers, history, TypeOK
<1>2. /\ TasksHeld' /\ QueueApart' /\ TasksApart' /\ NotSettled' /\ AttemptsCounted' /\ TokensLeft'
  BY DEF EmailInv, Idles, workers, history, TasksHeld, QueueApart, TasksApart, NotSettled,
         AttemptsCounted, TokensLeft, InQueue, Held
<1> QED BY <1>1, <1>2 DEF EmailInv

LEMMA PanicInv == ASSUME EmailInv, Panic PROVE EmailInv'
  BY IdleInv DEF Panic, Idles, EmailInv, TypeOK

LEMMA SendAlertInv ==
  ASSUME EmailInv, NEW e \in Emails, SendAlert(e)
  PROVE  EmailInv'
<1>0. outcome[e] = "none" /\ ~InQueue(e) /\ ~Held(e)
  <2>1. outcome[e] # "new"
    BY DEF EmailInv, TypeOK
  <2> QED BY <2>1 DEF SendAlert, Fate, HeldBy, Held
<1>1. CASE Closed
  BY <1>1, PanicInv DEF SendAlert
<1>2. CASE ~Closed /\ Len(queue) < QueueSize
  <2>1. /\ queue' = Append(queue, e)
        /\ UNCHANGED <<tokens, wpc, wtask, retries, stats, stopper, clean, crashed, outcome,
                       attempts, delivered, burst>>
    BY <1>2 DEF SendAlert, workers
  <2>2. /\ queue' \in Seq(Emails) /\ Len(queue') = Len(queue) + 1 /\ QueueApart'
        /\ \A d : InQueue(d)' <=> InQueue(d) \/ d = e
    BY <1>0, <2>1, Appended DEF EmailInv
  <2>3. TypeOK'
    <3>1. Len(queue') <= QueueSize
      BY <1>2, <2>2, EmailAssumption, LenProperties DEF EmailInv, TypeOK
    <3> QED BY <2>1, <2>2, <3>1 DEF EmailInv, TypeOK
  <2>4. TasksApart' /\ NotSettled'
    BY <1>0, <2>1, <2>2 DEF EmailInv, TasksApart, NotSettled, Held
  <2> QED BY <2>1, <2>2, <2>3, <2>4 DEF EmailInv, TasksHeld, AttemptsCounted, TokensLeft
<1>3. CASE ~Closed /\ ~(Len(queue) < QueueSize)
  <2>1. /\ outcome' = [outcome EXCEPT ![e] = "rejected"]
        /\ UNCHANGED <<queue, tokens, wpc, wtask, retries, stats, stopper, clean, crashed,
                       attempts, delivered, burst>>
    BY <1>3 DEF SendAlert, workers
  <2>2. TypeOK'
    BY <2>1 DEF EmailInv, TypeOK
  <2>3. NotSettled' /\ AttemptsCounted'
    BY <1>0, <2>1 DEF EmailInv, TypeOK, NotSettled, AttemptsCounted, InQueue, Held
  <2> QED BY <2>1, <2>2, <2>3 DEF EmailInv, TasksHeld, QueueApart, TasksApart, TokensLeft, InQueue
<1> QED BY <1>1, <1>2, <1>3

LEMMA TakeInv ==
  ASSUME EmailInv, NEW w \in Workers, Take(w)
  PROVE  EmailInv'
<1>1. CASE queue = << >>
  BY <1>1, PanicInv DEF Take
<1>2. CASE queue # << >>
  <2> DEFINE e == Head(queue)
  <2>1. /\ Work(w, "allow", e) /\ queue' = Tail(queue)
        /\ UNCHANGED <<tokens, retries, stats, stopper, clean, crashed, outcome, attempts,
                       delivered, burst>>
    BY <1>2 DEF Take, history
  <2>2. /\ queue' \in Seq(Emails) /\ Len(queue') <= Len(queue) /\ e \in Emails /\ InQueue(e)
        /\ QueueApart' /\ \A d : InQueue(d)' <=> InQueue(d) /\ d # e
    BY <1>2, <2>1, TakenOff DEF EmailInv
  <2> HIDE DEF e
  <2>3. /\ wpc' \in [Workers -> Placing] /\ wtask' \in [Workers -> Emails \cup {Null}]
        /\ wpc'[w] = "allow" /\ wtask'[w] = e
        /\ \A v \in Workers \ {w} : wpc'[v] = wpc[v] /\ wtask'[v] = wtask[v]
    BY <2>1, <2>2, WorkEffect DEF EmailInv, Placing, Busy
  <2>4. \A v \in Workers : wtask[v] # e
    BY <2>2, EmailAssumption DEF EmailInv, TasksApart
  <2>5. TypeOK'
    <3>1. Len(queue') <= QueueSize
      BY <2>2, EmailAssumption, LenProperties DEF EmailInv, TypeOK
    <3> QED BY <2>1, <2>2, <2>3, <3>1 DEF EmailInv, TypeOK, Placing, Busy
  <2>6. TasksHeld'
    BY <2>2, <2>3, EmailAssumption DEF EmailInv, TasksHeld, Busy
  <2>7. TasksApart'
    BY <2>2, <2>3, <2>4 DEF EmailInv, TasksApart
  <2>8. NotSettled'
    BY <2>1, <2>2, <2>3 DEF EmailInv, NotSettled, Held
  <2> QED BY <2>1, <2>2, <2>5, <2>6, <2>7, <2>8 DEF EmailInv, AttemptsCounted, TokensLeft
<1> QED BY <1>1, <1>2

(* A worker that goes on with its task, or gives it up.                    *)
LEMMA WorkInv ==
  ASSUME EmailInv, NEW w \in Workers, NEW l \in Placing, NEW e \in {wtask[w], Null},
         e # Null <=> l \in Busy, Work(w, l, e), UNCHANGED queue
  PROVE  /\ TasksHeld' /\ QueueApart' /\ TasksApart'
         /\ wpc' \in [Workers -> Placing] /\ wtask' \in [Workers -> Emails \cup {Null}]
         /\ \A d \in Emails : Held(d)' <=> Held(d) /\ (d = wtask[w] => d = e)
         /\ \A d : InQueue(d)' <=> InQueue(d)
<1>1. e \in Emails \cup {Null}
  BY DEF EmailInv, TypeOK
<1>2. /\ wpc' \in [Workers -> Placing] /\ wtask' \in [Workers -> Emails \cup {Null}]
      /\ wpc'[w] = l /\ wtask'[w] = e
      /\ \A v \in Workers \ {w} : wpc'[v] = wpc[v] /\ wtask'[v] = wtask[v]
  BY <1>1, WorkEffect DEF EmailInv
<1>3. QueueApart' /\ \A d : InQueue(d)' <=> InQueue(d)
  BY DEF EmailInv, QueueApart, InQueue
<1>4. TasksHeld'
  BY <1>2 DEF EmailInv, TasksHeld
<1>5. TasksApart'
  BY <1>2, <1>3 DEF EmailInv, TasksApart
<1>6. ASSUME NEW d \in Emails PROVE Held(d)' <=> Held(d) /\ (d = wtask[w] => d = e)
  <2>1. d # Null
    BY EmailAssumption
  <2> QED BY <1>2, <2>1 DEF EmailInv, TasksApart, Held
<1> QED BY <1>2, <1>3, <1>4, <1>5, <1>6

LEMMA ExitInv == ASSUME EmailInv, NEW w \in Workers, Exit(w) PROVE EmailInv'
<1>1. /\ TasksHeld' /\ QueueApart' /\ TasksApart'
      /\ wpc' \in [Workers -> Placing] /\ wtask' \in [Workers -> Emails \cup {Null}]
      /\ \A d \in Emails : Held(d)' <=> Held(d) /\ (d = wtask[w] => d = Null)
      /\ \A d : InQueue(d)' <=> InQueue(d)
  BY WorkInv DEF Exit, Placing, Busy
<1>2. UNCHANGED <<queue, tokens, retries, stats, stopper, clean, crashed, outcome, attempts,
                  delivered, burst>>
  BY DEF Exit, history
<1>3. TypeOK' /\ NotSettled'
  BY <1>1, <1>2 DEF EmailInv, TypeOK, Placing, Busy, NotSettled
<1> QED BY <1>1, <1>2, <1>3 DEF EmailInv, AttemptsCounted, TokensLeft

LEMMA AllowInv == ASSUME EmailInv, NEW w \in Workers, Allow(w) PROVE EmailInv'
<1>0. PICK l \in {"send", "limited"} : Work(w, l, wtask[w])
  BY DEF Allow
<1>1. wtask[w] # Null
  BY DEF Allow, EmailInv, TasksHeld, Busy
<1>2. /\ TasksHeld' /\ QueueApart' /\ TasksApart'
      /\ wpc' \in [Workers -> Placing] /\ wtask' \in [Workers -> Emails \cup {Null}]
      /\ \A d \in Emails : Held(d)' <=> Held(d)
      /\ \A d : InQueue(d)' <=> InQueue(d)
  BY <1>0, <1>1, WorkInv DEF Allow, Placing, Busy
<1>3. UNCHANGED <<queue, retries, stats, stopper, clean, crashed, outcome, attempts, delivered>>
  BY DEF Allow, history
<1>4. tokens' \in 0..RateLimit /\ burst' \in Nat /\ TokensLeft'
  BY EmailAssumption DEF Allow, EmailInv, TypeOK, TokensLeft
<1>5. TypeOK' /\ NotSettled'
  BY <1>2, <1>3, <1>4 DEF EmailInv, TypeOK, Placing, Busy, NotSettled
<1> QED BY <1>2, <1>3, <1>4, <1>5 DEF EmailInv, AttemptsCounted
LEMMA RequeueInv == ASSUME EmailInv, NEW w \in Workers, Requeue(w) PROVE EmailInv'
<1> DEFINE e == wtask[w]
<1>0. wpc[w] \in Busy
  BY DEF Requeue, Busy
<1>1. /\ e \in Emails /\ e # Null /\ ~InQueue(e) /\ outcome[e] = "none" /\ Held(e)
      /\ \A v \in Workers \ {w} : wtask[v] # e
  BY <1>0, TaskOf
<1>2. CASE Closed
  BY <1>2, PanicInv DEF Requeue
<1>3. CASE ~Closed
  <2>1. /\ Work(w, "select", Null)
        /\ UNCHANGED <<tokens, retries, stats, stopper, clean, crashed, attempts, delivered, burst>>
    BY <1>3 DEF Requeue
  <2>2. /\ wpc' \in [Workers -> Placing] /\ wtask' \in [Workers -> Emails \cup {Null}]
        /\ wpc'[w] = "select" /\ wtask'[w] = Null
        /\ \A v \in Workers \ {w} : wpc'[v] = wpc[v] /\ wtask'[v] = wtask[v]
    BY <2>1, WorkEffect DEF EmailInv, Placing, Busy
  <2>3. /\ \A d \in Emails : Held(d)' <=> Held(d) /\ d # e
        /\ TasksHeld'
    BY <1>1, <2>2, EmailAssumption DEF EmailInv, TasksHeld, Held, Busy
  <2>4. CASE Len(queue) < QueueSize
    <3>1. queue' = Append(queue, e) /\ outcome' = outcome
      BY <1>3, <2>4 DEF Requeue
    <3>2. /\ queue' \in Seq(Emails) /\ Len(queue') = Len(queue) + 1 /\ QueueApart'
          /\ \A d : InQueue(d)' <=> InQueue(d) \/ d = e
      BY <1>1, <3>1, Appended DEF EmailInv
    <3>3. Len(queue') <= QueueSize
      BY <2>4, <3>2, EmailAssumption, LenProperties DEF EmailInv, TypeOK
    <3>4. TypeOK'
      BY <2>1, <2>2, <3>1, <3>2, <3>3 DEF EmailInv, TypeOK, Placing, Busy
    <3>5. TasksApart'
      BY <1>1, <2>2, <3>2 DEF EmailInv, TasksApart
    <3>6. NotSettled'
      BY <1>1, <2>3, <3>1, <3>2 DEF EmailInv, NotSettled
    <3> QED BY <2>1, <2>3, <3>1, <3>2, <3>4, <3>5, <3>6 DEF EmailInv, AttemptsCounted, TokensLeft
  <2>5. CASE ~(Len(queue) < QueueSize)
    <3>1. queue' = queue /\ outcome' = [outcome EXCEPT ![e] = "dropped"]
      BY <1>3, <2>5 DEF Requeue
    <3>2. QueueApart' /\ \A d : InQueue(d)' <=> InQueue(d)
      BY <3>1 DEF EmailInv, QueueApart, InQueue
    <3>3. TypeOK'
      BY <1>1, <2>1, <2>2, <3>1 DEF EmailInv, TypeOK, Placing, Busy
    <3>4. TasksApart'
      BY <1>1, <2>2, <3>2 DEF EmailInv, TasksApart
    <3>5. NotSettled' /\ AttemptsCounted'
      BY <1>1, <2>1, <2>3, <3>1, <3>2 DEF EmailInv, TypeOK, NotSettled, AttemptsCounted
    <3> QED BY <2>1, <2>3, <3>2, <3>3, <3>4, <3>5 DEF EmailInv, TokensLeft
  <2> QED BY <2>4, <2>5
<1> QED BY <1>2, <1>3

LEMMA SentInv == ASSUME EmailInv, NEW w \in Workers, Sent(w) PROVE EmailInv'
<1> DEFINE e == wtask[w]
<1>0. wpc[w] \in Busy
  BY DEF Sent, Busy
<1>1. /\ e \in Emails /\ e # Null /\ ~InQueue(e) /\ outcome[e] = "none"
  BY <1>0, TaskOf
<1>2. /\ TasksHeld' /\ QueueApart' /\ TasksApart'
      /\ wpc' \in [Workers -> Placing] /\ wtask' \in [Workers -> Emails \cup {Null}]
      /\ \A d \in Emails : Held(d)' <=> Held(d) /\ (d = e => d = Null)
      /\ \A d : InQueue(d)' <=> InQueue(d)
  BY WorkInv DEF Sent, Placing, Busy
<1>3. /\ attempts' = [attempts EXCEPT ![e] = @ + 1] /\ delivered' = Copied(e)
      /\ outcome' = [outcome EXCEPT ![e] = "sent"] /\ stats' = [stats EXCEPT !.sent = @ + 1]
      /\ UNCHANGED <<queue, tokens, retries, stopper, clean, crashed, burst>>
  BY DEF Sent
<1>4. TypeOK'
  <2>1. attempts' \in [Emails -> Nat] /\ delivered' \in [Emails -> Nat]
    BY <1>1, <1>3 DEF EmailInv, TypeOK, Copied
  <2>2. outcome' \in [Emails -> {"none", "rejected", "sent", "failed", "dropped"}]
    BY <1>1, <1>3 DEF EmailInv, TypeOK
  <2>3. stats' \in [sent : Nat, failed : Nat, retried : Nat]
    <3>1. stats \in [sent : Nat, failed : Nat, retried : Nat]
      BY DEF EmailInv, TypeOK
    <3> QED BY <1>3, <3>1
  <2> QED BY <1>2, <1>3, <2>1, <2>2, <2>3 DEF EmailInv, TypeOK, Placing, Busy
<1>5. NotSettled' /\ AttemptsCounted'
  BY <1>1, <1>2, <1>3 DEF EmailInv, TypeOK, NotSettled, AttemptsCounted
<1> QED BY <1>2, <1>3, <1>4, <1>5 DEF EmailInv, TokensLeft

LEMMA SendErrorInv == ASSUME EmailInv, NEW w \in Workers, SendError(w) PROVE EmailInv'
<1> DEFINE e == wtask[w]
<1>0. wpc[w] \in Busy
  BY DEF SendError, Busy
<1>1. /\ e \in Emails /\ e # Null /\ ~InQueue(e) /\ outcome[e] = "none" /\ attempts[e] = retries[e]
  BY <1>0, TaskOf
<1>2. PICK l \in {"retry", "select"} :
        /\ Work(w, l, IF l = "retry" THEN e ELSE Null)
        /\ l = "retry"  => /\ retries[e] < MaxRetries /\ outcome' = outcome
                           /\ retries' = [retries EXCEPT ![e] = @ + 1]
        /\ l = "select" => /\ outcome' = [outcome EXCEPT ![e] = "failed"] /\ retries' = retries
  BY DEF SendError, MayRetry
<1>3. /\ TasksHeld' /\ QueueApart' /\ TasksApart'
      /\ wpc' \in [Workers -> Placing] /\ wtask' \in [Workers -> Emails \cup {Null}]
      /\ \A d \in Emails : Held(d)' <=> Held(d) /\ (d = e => l = "retry")
      /\ \A d : InQueue(d)' <=> InQueue(d)
  BY <1>1, <1>2, WorkInv DEF SendError, Placing, Busy
<1>4. /\ attempts' = [attempts EXCEPT ![e] = @ + 1]
      /\ UNCHANGED <<queue, tokens, stopper, clean, crashed, burst>>
  BY DEF SendError
<1>5. /\ delivered' \in [Emails -> Nat]
      /\ stats' \in [sent : Nat, failed : Nat, retried : Nat]
  <2>1. Copied(e) \in [Emails -> Nat] /\ delivered \in [Emails -> Nat]
    BY <1>1 DEF EmailInv, TypeOK, Copied
  <2>2. delivered' \in {delivered, Copied(e)}
    BY DEF SendError
  <2>3. stats \in [sent : Nat, failed : Nat, retried : Nat]
    BY DEF EmailInv, TypeOK
  <2> DEFINE f == stats.failed + 1
             r == IF MayRetry(e) THEN stats.retried + 1 ELSE stats.retried
  <2>4. f \in Nat /\ r \in Nat
    BY <2>3
  <2>5. stats' = [stats EXCEPT !.failed = f, !.retried = r]
    BY DEF SendError, FailureStats
  <2> HIDE DEF f, r
  <2>6. stats' \in [sent : Nat, failed : Nat, retried : Nat]
    BY <2>3, <2>4, <2>5
  <2> QED BY <2>1, <2>2, <2>6
<1>6. TypeOK'
  <2>1. retries' \in [Emails -> 0..MaxRetries]
    <3>1. retries \in [Emails -> 0..MaxRetries] /\ MaxRetries \in Nat
      BY EmailAssumption DEF EmailInv, TypeOK
    <3>2. CASE l = "retry"
      <4>1. retries[e] \in 0..MaxRetries /\ retries[e] < MaxRetries
        BY <1>1, <1>2, <3>1, <3>2
      <4>2. retries[e] + 1 \in 0..MaxRetries
        BY <3>1, <4>1
      <4> QED BY <1>2, <3>1, <3>2, <4>2
    <3>3. CASE l = "select"
      BY <1>2, <3>1, <3>3
    <3> QED BY <3>2, <3>3
  <2>2. attempts' \in [Emails -> Nat]
    BY <1>1, <1>4 DEF EmailInv, TypeOK
  <2>3. outcome' \in [Emails -> {"none", "rejected", "sent", "failed", "dropped"}]
    BY <1>1, <1>2 DEF EmailInv, TypeOK
  <2> QED BY <1>3, <1>4, <1>5, <2>1, <2>2, <2>3 DEF EmailInv, TypeOK, Placing, Busy
<1>7. NotSettled' /\ AttemptsCounted'
  <2>1. CASE l = "retry"
    BY <1>1, <1>2, <1>3, <1>4, <2>1 DEF EmailInv, TypeOK, NotSettled, AttemptsCounted
  <2>2. CASE l = "select"
    BY <1>1, <1>2, <1>3, <1>4, <2>2 DEF EmailInv, TypeOK, NotSettled, AttemptsCounted
  <2> QED BY <2>1, <2>2
<1> QED BY <1>3, <1>4, <1>6, <1>7 DEF EmailInv, TokensLeft

LEMMA RefillInv == ASSUME EmailInv, RefillTokens PROVE EmailInv'
<1>1. /\ tokens' = RateLimit /\ burst' = 0
      /\ UNCHANGED <<queue, wpc, wtask, retries, stats, stopper, clean, crashed, outcome, attempts,
                     delivered>>
  BY DEF RefillTokens, workers, history
<1>2. TypeOK' /\ TokensLeft'
  BY <1>1, EmailAssumption DEF EmailInv, TypeOK, TokensLeft
<1> QED BY <1>1, <1>2
  DEF EmailInv, TasksHeld, QueueApart, TasksApart, NotSettled, AttemptsCounted, InQueue, Held

(* Every step of callers, workers, limiter and Stop keeps the invariant:   *)
(* a task is in the queue or with the one worker that took it.             *)
THEOREM EmailInvStep == ASSUME EmailInv, [Next]_evars PROVE EmailInv'
<1>1. ASSUME NEW e \in Emails, SendAlert(e) PROVE EmailInv'
  BY <1>1, SendAlertInv
<1>2. ASSUME NEW w \in Workers, Step(w) PROVE EmailInv'
  BY <1>2, TakeInv, ExitInv, AllowInv, RequeueInv, SentInv, SendErrorInv DEF Step
<1>3. CASE RefillTokens
  BY <1>3, RefillInv
<1>4. CASE StopCancel
  BY <1>4, IdleInv DEF StopCancel, Idles, EmailInv, TypeOK
<1>5. CASE StopReturn
  <2>1. /\ Idles /\ stopper' = "returned" /\ clean' \in BOOLEAN /\ crashed' \in BOOLEAN
    BY <1>5 DEF StopReturn, Idles, EmailInv, TypeOK
  <2> QED BY <2>1, IdleInv
<1>6. CASE UNCHANGED evars
  BY <1>6, IdleInv DEF evars, Idles, EmailInv, TypeOK
<1> QED BY <1>1, <1>2, <1>3, <1>4, <1>5, <1>6 DEF Next

(* The invariant holds in every state.                                     *)
THEOREM EmailInvariant == Spec => []EmailInv
  BY EmailInvInit, EmailInvStep, PTL DEF Spec

(* Every state has its types; the queue never exceeds its size nor a       *)
(* task's retry count the limit.                                           *)
THEOREM EmailTypeCorrect == Spec => []TypeOK
<1>1. EmailInv => TypeOK
  BY DEF EmailInv
<1> QED BY <1>1, EmailInvariant, PTL

-----------------------------------------------------------------------------
(* The statistics.  A try that was counted is one of the tries so far.     *)
StatsInv == IsFiniteSet(Tries) /\ StatsAgree

LEMMA EndedFinite == ASSUME IsFiniteSet(Emails), NEW how PROVE IsFiniteSet(Ended(how))
  BY FS_Subset DEF Ended

(* One more call of the provider is one more try.                          *)
LEMMA OneMoreTry ==
  ASSUME attempts \in [Emails -> Nat], NEW e \in Emails, IsFiniteSet(Tries),
         attempts' = [attempts EXCEPT ![e] = @ + 1]
  PROVE  IsFiniteSet(Tries') /\ Cardinality(Tries') = Cardinality(Tries) + 1
<1> DEFINE x == <<e, attempts[e] + 1>>
<1>1. Tries' = Tries \cup {x}
  <2>1. 1..attempts'[e] = (1..attempts[e]) \cup {attempts[e] + 1} /\ attempts[e] \in Nat
    <3>1. attempts'[e] = attempts[e] + 1 /\ attempts[e] \in Nat
      OBVIOUS
    <3> QED BY <3>1
  <2>2. \A d \in Emails : d # e => attempts'[d] = attempts[d]
    OBVIOUS
  <2>3. \A p : p \in Tries <=> \E d \in Emails : \E n \in 1..attempts[d] : p = <<d, n>>
    BY DEF Tries
  <2>4. \A p : p \in Tries' <=> \E d \in Emails : \E n \in 1..attempts'[d] : p = <<d, n>>
    BY DEF Tries
  <2>5. ASSUME NEW p PROVE p \in Tries' <=> p \in Tries \/ p = x
    <3>1. ASSUME NEW d \in Emails, NEW n \in 1..attempts'[d], p = <<d, n>>
          PROVE  p \in Tries \/ p = x
      <4>1. d # e => n \in 1..attempts[d]
        BY <2>2
      <4>2. d = e => n \in 1..attempts[d] \/ n = attempts[e] + 1
        BY <2>1
      <4> QED BY <2>3, <3>1, <4>1, <4>2
    <3>2. ASSUME NEW d \in Emails, NEW n \in 1..attempts[d], p = <<d, n>>
          PROVE  p \in Tries'
      <4>1. n \in 1..attempts'[d]
        BY <2>1, <2>2
      <4> QED BY <2>4, <3>2, <4>1
    <3>3. attempts[e] + 1 \in 1..attempts'[e]
      BY <2>1
    <3> QED BY <2>3, <2>4, <3>1, <3>2, <3>3
  <2> QED BY <2>5
<1>2. x \notin Tries
  <2>1. \A p : p \in Tries => \E d \in Emails : \E n \in 1..attempts[d] : p = <<d, n>>
    BY DEF Tries
  <2>2. attempts[e] \in Nat
    OBVIOUS
  <2>3. attempts[e] + 1 \notin 1..attempts[e]
    BY <2>2
  <2> QED BY <2>1, <2>3
<1> HIDE DEF x
<1>3. IsFiniteSet(Tries \cup {x}) /\ Cardinality(Tries \cup {x}) = Cardinality(Tries) + 1
  BY <1>2, FS_AddElement
<1> QED BY <1>1, <1>3

(* An email that ends one way is counted there, and nowhere else.          *)
LEMMA OneMoreEnded ==
  ASSUME IsFiniteSet(Emails), TypeOK, NEW e \in Emails, outcome[e] = "none", NEW end,
         outcome' = [outcome EXCEPT ![e] = end], end # "none"
  PROVE  /\ Cardinality(Ended(end)') = Cardinality(Ended(end)) + 1
         /\ \A how : how \notin {"none", end} => Ended(how)' = Ended(how)
<1>1. /\ outcome'[e] = end /\ \A d \in Emails : d # e => outcome'[d] = outcome[d]
  BY DEF TypeOK
<1>2. Ended(end)' = Ended(end) \cup {e} /\ e \notin Ended(end)
  BY <1>1 DEF Ended
<1>3. Cardinality(Ended(end) \cup {e}) = Cardinality(Ended(end)) + 1
  BY <1>2, EndedFinite, FS_AddElement
<1>4. ASSUME NEW how, how \notin {"none", end} PROVE Ended(how)' = Ended(how)
  BY <1>1, <1>4 DEF Ended
<1>5. Cardinality(Ended(end)') = Cardinality(Ended(end)) + 1
  BY <1>2, <1>3
<1> QED BY <1>4, <1>5

(* What makes no call and neither sends nor gives up leaves them alone.    *)
LEMMA StatsAside ==
  ASSUME StatsInv, stats' = stats, attempts' = attempts,
         \A how \in {"sent", "failed"} : Ended(how)' = Ended(how)
  PROVE  StatsInv'
<1>1. Tries' = Tries
  BY DEF Tries
<1> QED BY <1>1 DEF StatsInv, StatsAgree

LEMMA StatsInvStep ==
  ASSUME IsFiniteSet(Emails), EmailInv, StatsInv, [Next]_evars
  PROVE  StatsInv'
<1>1. /\ Cardinality(Ended("sent")) \in Nat /\ Cardinality(Ended("failed")) \in Nat
      /\ Cardinality(Tries) \in Nat
  BY EndedFinite, FS_CardinalityType DEF StatsInv
<1>2. /\ stats \in [sent : Nat, failed : Nat, retried : Nat] /\ attempts \in [Emails -> Nat]
      /\ TypeOK
  BY DEF EmailInv, TypeOK
<1>3. ASSUME stats' = stats, attempts' = attempts, outcome' = outcome PROVE StatsInv'
  BY <1>3, StatsAside DEF Ended
<1>4. ASSUME NEW e \in Emails, SendAlert(e) PROVE StatsInv'
  <2>1. CASE outcome' = [outcome EXCEPT ![e] = "rejected"]
    <3>1. outcome[e] = "none"
      BY <1>2, <1>4 DEF SendAlert, Fate, TypeOK
    <3>2. stats' = stats /\ attempts' = attempts
      BY <1>4 DEF SendAlert, Panic, history
    <3>3. TypeOK
      BY <1>2
    <3>4. \A how \in {"sent", "failed"} : Ended(how)' = Ended(how)
      BY <2>1, <3>1, <3>3, OneMoreEnded
    <3> QED BY <3>2, <3>4, StatsAside
  <2>2. CASE outcome' = outcome
    BY <1>3, <1>4, <2>2 DEF SendAlert, Panic, history
  <2> QED BY <1>4, <2>1, <2>2 DEF SendAlert, Panic, history
<1>5. ASSUME NEW w \in Workers, Take(w) \/ Exit(w) \/ Allow(w) PROVE StatsInv'
  BY <1>3, <1>5 DEF Take, Exit, Allow, Panic, history
<1>6. ASSUME NEW w \in Workers, Requeue(w) PROVE StatsInv'
  <2>1. CASE outcome' = [outcome EXCEPT ![wtask[w]] = "dropped"] /\ ~Closed
    <3>1. /\ wtask[w] \in Emails /\ outcome[wtask[w]] = "none"
      BY <1>6, TaskOf DEF Requeue, Busy
    <3>2. stats' = stats /\ attempts' = attempts
      BY <1>6, <2>1 DEF Requeue
    <3>3. TypeOK
      BY <1>2
    <3>4. \A how \in {"sent", "failed"} : Ended(how)' = Ended(how)
      <4>1. PICK d : d = wtask[w]
        OBVIOUS
      <4> QED BY <2>1, <3>1, <3>3, <4>1, OneMoreEnded
    <3> QED BY <3>2, <3>4, StatsAside
  <2>2. CASE outcome' = outcome
    BY <1>3, <1>6, <2>2 DEF Requeue, Panic, history
  <2> QED BY <1>6, <2>1, <2>2 DEF Requeue, Panic, history
<1>7. ASSUME NEW w \in Workers, Sent(w) PROVE StatsInv'
  <2> DEFINE e == wtask[w]
  <2>1. e \in Emails /\ outcome[e] = "none"
    BY <1>7, TaskOf DEF Sent, Busy
  <2>2. /\ attempts' = [attempts EXCEPT ![e] = @ + 1]
        /\ outcome' = [outcome EXCEPT ![e] = "sent"]
        /\ stats' = [stats EXCEPT !.sent = @ + 1]
    BY <1>7 DEF Sent
  <2>3. IsFiniteSet(Tries') /\ Cardinality(Tries') = Cardinality(Tries) + 1
    BY <1>2, <2>1, <2>2, OneMoreTry DEF StatsInv
  <2>4. /\ Cardinality(Ended("sent")') = Cardinality(Ended("sent")) + 1
        /\ Ended("failed")' = Ended("failed")
    <3>1. outcome' = [outcome EXCEPT ![e] = "sent"] /\ TypeOK
      BY <1>2, <2>2
    <3> HIDE DEF e
    <3> QED BY <2>1, <3>1, OneMoreEnded
  <2>5. /\ stats'.sent = stats.sent + 1 /\ stats'.failed = stats.failed
        /\ stats'.retried = stats.retried
    BY <1>2, <2>2
  <2> QED BY <1>1, <1>2, <2>3, <2>4, <2>5 DEF StatsInv, StatsAgree
<1>8. ASSUME NEW w \in Workers, SendError(w) PROVE StatsInv'
  <2> DEFINE e == wtask[w]
  <2>1. e \in Emails /\ outcome[e] = "none"
    BY <1>8, TaskOf DEF SendError, Busy
  <2>2. attempts' = [attempts EXCEPT ![e] = @ + 1]
    BY <1>8 DEF SendError
  <2>3. IsFiniteSet(Tries') /\ Cardinality(Tries') = Cardinality(Tries) + 1
    BY <1>2, <2>1, <2>2, OneMoreTry DEF StatsInv
  <2>4. /\ stats'.sent = stats.sent /\ stats'.failed = stats.failed + 1
        /\ stats'.retried = IF MayRetry(e) THEN stats.retried + 1 ELSE stats.retried
    <3>1. stats' = [stats EXCEPT !.failed = @ + 1,
                                 !.retried = IF MayRetry(e) THEN @ + 1 ELSE @]
      BY <1>8 DEF SendError, FailureStats
    <3> QED BY <1>2, <3>1
  <2>5. CASE MayRetry(e)
    <3>1. outcome' = outcome
      BY <1>8, <2>5 DEF SendError
    <3>2. \A how : Ended(how)' = Ended(how)
      BY <3>1 DEF Ended
    <3> QED BY <1>1, <1>2, <2>3, <2>4, <2>5, <3>2 DEF StatsInv, StatsAgree
  <2>6. CASE ~MayRetry(e)
    <3>1. outcome' = [outcome EXCEPT ![e] = "failed"]
      BY <1>8, <2>6 DEF SendError
    <3>2. /\ Cardinality(Ended("failed")') = Cardinality(Ended("failed")) + 1
          /\ Ended("sent")' = Ended("sent")
      <4>1. TypeOK
        BY <1>2
      <4> HIDE DEF e
      <4> QED BY <2>1, <3>1, <4>1, OneMoreEnded
    <3> QED BY <1>1, <1>2, <2>3, <2>4, <2>6, <3>2 DEF StatsInv, StatsAgree
  <2> QED BY <2>5, <2>6
<1>9. CASE RefillTokens \/ StopCancel \/ StopReturn \/ UNCHANGED evars
  BY <1>3, <1>9 DEF RefillTokens, StopCancel, StopReturn, evars, history
<1> QED BY <1>4, <1>5, <1>6, <1>7, <1>8, <1>9 DEF Next, Step

(* The statistics add up in every state, for any finite set of emails: no  *)
(* interleaving of workers, retries and Stop counts a call twice or not at *)
(* all, and an email counts as sent or as given up once.                   *)
THEOREM EmailStatsAgree ==
  ASSUME IsFiniteSet(Emails)
  PROVE  Spec => []StatsAgree
<1>1. Init => StatsInv
  <2> SUFFICES ASSUME Init PROVE StatsInv
    OBVIOUS
  <2>1. \A e \in Emails : 1..attempts[e] = {}
    BY DEF Init
  <2>2. Tries = {} /\ Ended("sent") = {} /\ Ended("failed") = {}
    BY <2>1 DEF Init, Tries, Ended
  <2>3. stats.sent = 0 /\ stats.failed = 0 /\ stats.retried = 0
    BY DEF Init
  <2> QED BY <2>2, <2>3, FS_EmptySet DEF StatsInv, StatsAgree
<1>2. EmailInv /\ StatsInv /\ [Next]_evars => StatsInv'
  BY StatsInvStep
<1>3. StatsInv => StatsAgree
  BY DEF StatsInv
<1> QED BY <1>1, <1>2, <1>3, EmailInvariant, PTL DEF Spec

-----------------------------------------------------------------------------
(* An email is in one place, in every state: the places of the queue and   *)
(* the workers that have it are at most one, none once it is settled.      *)
LEMMA AtMostOne ==
  ASSUME NEW S, NEW x, S \subseteq {x}
  PROVE  Cardinality(S) = IF S = {} THEN 0 ELSE 1
<1>1. S = {} \/ S = {x}
  OBVIOUS
<1> QED BY <1>1, FS_EmptySet, FS_Singleton

LEMMA OnePlaceHolds == ASSUME EmailInv PROVE OnePlace
<1> SUFFICES ASSUME NEW e \in Emails
             PROVE  Cardinality({k \in 1..Len(queue) : queue[k] = e}) + Cardinality(HeldBy(e))
                      <= IF outcome[e] = "none" THEN 1 ELSE 0
  BY DEF OnePlace
<1> DEFINE Q == {k \in 1..Len(queue) : queue[k] = e}
<1>1. PICK j : Q \subseteq {j}
  <2>1. \A j, k \in Q : j = k
    BY DEF EmailInv, QueueApart
  <2> QED BY <2>1
<1>2. PICK w : HeldBy(e) \subseteq {w}
  <2>1. \A v, w \in HeldBy(e) : v = w
    BY EmailAssumption DEF EmailInv, TasksApart, HeldBy
  <2> QED BY <2>1
<1>3. Q = {} \/ HeldBy(e) = {}
  BY EmailAssumption DEF EmailInv, TasksApart, HeldBy, InQueue
<1>4. outcome[e] # "none" => Q = {} /\ HeldBy(e) = {}
  BY DEF EmailInv, NotSettled, Held, HeldBy, InQueue
<1>5. /\ Cardinality(Q) = IF Q = {} THEN 0 ELSE 1
      /\ Cardinality(HeldBy(e)) = IF HeldBy(e) = {} THEN 0 ELSE 1
  BY <1>1, <1>2, AtMostOne
<1> HIDE DEF Q
<1>6. Cardinality(Q) + Cardinality(HeldBy(e)) <= IF outcome[e] = "none" THEN 1 ELSE 0
  BY <1>3, <1>4, <1>5
<1> QED BY <1>6 DEF Q

(* A mail is in the queue once, or with one worker, and nowhere once it is *)
(* settled: retries and the full queue neither double a task nor revive it.*)
THEOREM EmailInOnePlace == Spec => []OnePlace
  BY OnePlaceHolds, EmailInvariant, PTL

(* Between two refills no more than RateLimit calls of the provider are    *)
(* admitted, whatever the workers do in between.                           *)
THEOREM EmailRateRespected == Spec => []RateRespected
<1>1. EmailInv => RateRespected
  BY EmailAssumption DEF EmailInv, TypeOK, TokensLeft, RateRespected
<1> QED BY <1>1, EmailInvariant, PTL
-----------------------------------------------------------------------------
(* The delivery promise.  Every step of the notifier is one of             *)
(* EmailDelivery or leaves what it speaks of alone.                        *)
Fates == [e \in Emails |-> Fate(e)]
Given == <<Fates, attempts, delivered>>

LEMMA FateIs ==
  ASSUME NEW e \in Emails
  PROVE  Fate(e) = IF outcome[e] # "none" THEN outcome[e]
                   ELSE IF InQueue(e) \/ Held(e) THEN "accepted" ELSE "new"
  BY DEF Fate, HeldBy, Held

LEMMA FateIsNext ==
  ASSUME NEW e \in Emails
  PROVE  Fate(e)' = IF outcome'[e] # "none" THEN outcome'[e]
                    ELSE IF InQueue(e)' \/ Held(e)' THEN "accepted" ELSE "new"
  BY DEF Fate, HeldBy, Held

LEMMA SameFates ==
  ASSUME outcome' = outcome,
         \A d \in Emails : (InQueue(d) \/ Held(d))' <=> InQueue(d) \/ Held(d)
  PROVE  Fates' = Fates
<1>1. \A d \in Emails : Fate(d)' = Fate(d)
  BY FateIs, FateIsNext
<1> QED BY <1>1 DEF Fates

LEMMA OneFate ==
  ASSUME NEW e \in Emails, NEW f,
         \A d \in Emails \ {e} : outcome'[d] = outcome[d],
         \A d \in Emails \ {e} : (InQueue(d) \/ Held(d))' <=> InQueue(d) \/ Held(d),
         Fate(e)' = f
  PROVE  Fates' = [Fates EXCEPT ![e] = f]
<1>1. ASSUME NEW d \in Emails, d # e PROVE Fate(d)' = Fate(d)
  <2>1. outcome'[d] = outcome[d]
    BY <1>1
  <2>2. (InQueue(d) \/ Held(d))' <=> InQueue(d) \/ Held(d)
    BY <1>1
  <2> QED BY <2>1, <2>2, FateIs, FateIsNext
<1> QED BY <1>1 DEF Fates

LEMMA IdleKeeps == ASSUME Idles PROVE Given' = Given
<1>1. outcome' = outcome /\ \A d : (InQueue(d) \/ Held(d))' <=> InQueue(d) \/ Held(d)
  BY DEF Idles, workers, history, InQueue, Held
<1>2. Fates' = Fates
  BY <1>1, SameFates
<1> QED BY <1>2 DEF Idles, history, Given

LEMMA PanicKeeps == ASSUME Panic PROVE Given' = Given
  BY IdleKeeps DEF Panic, Idles

LEMMA SendAlertDelivers ==
  ASSUME EmailInv, NEW e \in Emails, SendAlert(e)
  PROVE  Delivery!DNext \/ Given' = Given
<1>1. CASE Closed
  BY <1>1, PanicKeeps DEF SendAlert
<1>2. CASE ~Closed
  <2>1. Fate(e) = "new" /\ UNCHANGED <<wtask, attempts, delivered>>
    BY <1>2 DEF SendAlert, workers
  <2>2. outcome[e] = "none" /\ ~InQueue(e) /\ ~Held(e)
    BY <2>1, FateIs DEF EmailInv, TypeOK
  <2>3. \E f \in {"accepted", "rejected"} : Fates' = [Fates EXCEPT ![e] = f]
    <3>1. CASE Len(queue) < QueueSize
      <4>1. queue' = Append(queue, e) /\ outcome' = outcome
        BY <1>2, <3>1 DEF SendAlert
      <4>2. \A d : InQueue(d)' <=> InQueue(d) \/ d = e
        BY <2>2, <4>1, Appended DEF EmailInv
      <4>3. Fate(e)' = "accepted"
        BY <2>2, <4>1, <4>2, FateIsNext
      <4>4. \A d \in Emails : Held(d)' <=> Held(d)
        BY <2>1 DEF Held
      <4> QED BY <4>1, <4>2, <4>3, <4>4, OneFate
    <3>2. CASE ~(Len(queue) < QueueSize)
      <4>1. queue' = queue /\ outcome' = [outcome EXCEPT ![e] = "rejected"]
        BY <1>2, <3>2 DEF SendAlert
      <4>2. \A d \in Emails : /\ InQueue(d)' <=> InQueue(d)
                              /\ Held(d)' <=> Held(d)
                              /\ outcome'[d] = IF d = e THEN "rejected" ELSE outcome[d]
        BY <2>1, <4>1 DEF InQueue, Held, EmailInv, TypeOK
      <4>3. Fate(e)' = "rejected"
        BY <4>2, FateIsNext
      <4> QED BY <4>2, <4>3, OneFate
    <3> QED BY <3>1, <3>2
  <2>4. Delivery!Submit(e)
    BY <2>1, <2>3 DEF Delivery!Submit, Fates
  <2> QED BY <2>4 DEF Delivery!DNext
<1> QED BY <1>1, <1>2

LEMMA TakeKeeps ==
  ASSUME EmailInv, NEW w \in Workers, Take(w)
  PROVE  Given' = Given
<1>1. CASE queue = << >>
  BY <1>1, PanicKeeps DEF Take
<1>2. CASE queue # << >>
  <2> DEFINE e == Head(queue)
  <2>1. /\ Work(w, "allow", e) /\ queue' = Tail(queue)
        /\ UNCHANGED <<outcome, attempts, delivered>>
    BY <1>2 DEF Take, history
  <2>2. e \in Emails /\ InQueue(e) /\ \A d : InQueue(d)' <=> InQueue(d) /\ d # e
    BY <1>2, <2>1, TakenOff DEF EmailInv
  <2> HIDE DEF e
  <2>3. wtask'[w] = e /\ \A v \in Workers \ {w} : wtask'[v] = wtask[v]
    BY <2>1, <2>2, WorkEffect DEF EmailInv, Placing, Busy
  <2>4. wtask[w] = Null
    <3>1. wpc[w] = "select"
      BY DEF Take
    <3> QED BY <3>1 DEF EmailInv, TasksHeld, Busy
  <2>5. \A d \in Emails : (InQueue(d) \/ Held(d))' <=> InQueue(d) \/ Held(d)
    BY <2>2, <2>3, <2>4, EmailAssumption DEF Held
  <2> QED BY <2>1, <2>5, SameFates DEF Given
<1> QED BY <1>1, <1>2

LEMMA ExitAllowKeeps ==
  ASSUME EmailInv, NEW w \in Workers, Exit(w) \/ Allow(w)
  PROVE  Given' = Given
<1>1. UNCHANGED <<queue, outcome, attempts, delivered>>
  BY DEF Exit, Allow, history
<1>2. \A d \in Emails : Held(d)' <=> Held(d)
  <2>1. CASE Exit(w)
    <3>1. wtask[w] = Null /\ wpc[w] = "select"
      BY <2>1 DEF Exit, EmailInv, TasksHeld, Busy
    <3>2. \A d \in Emails : Held(d)' <=> Held(d) /\ (d = wtask[w] => d = Null)
      BY <2>1, <1>1, WorkInv DEF Exit, Placing, Busy
    <3> QED BY <3>1, <3>2, EmailAssumption
  <2>2. CASE Allow(w)
    <3>1. PICK l \in {"send", "limited"} : Work(w, l, wtask[w])
      BY <2>2 DEF Allow
    <3>2. wtask[w] # Null
      BY <2>2 DEF Allow, EmailInv, TasksHeld, Busy
    <3> QED BY <1>1, <3>1, <3>2, WorkInv DEF Placing, Busy
  <2> QED BY <2>1, <2>2
<1>3. \A d \in Emails : (InQueue(d) \/ Held(d))' <=> InQueue(d) \/ Held(d)
  BY <1>1, <1>2 DEF InQueue
<1> QED BY <1>1, <1>3, SameFates DEF Given

LEMMA RequeueDelivers ==
  ASSUME EmailInv, NEW w \in Workers, Requeue(w)
  PROVE  Delivery!DNext \/ Given' = Given
<1>0. wpc[w] \in Busy
  BY DEF Requeue, Busy
<1>1. PICK e \in Emails :
        /\ e = wtask[w] /\ e # Null /\ ~InQueue(e) /\ outcome[e] = "none" /\ Held(e)
        /\ \A v \in Workers \ {w} : wtask[v] # e
  BY <1>0, TaskOf
<1>2. CASE Closed
  BY <1>2, PanicKeeps DEF Requeue
<1>3. CASE ~Closed
  <2>1. Work(w, "select", Null) /\ UNCHANGED <<attempts, delivered>>
    BY <1>3 DEF Requeue
  <2>2. wtask'[w] = Null /\ \A v \in Workers \ {w} : wtask'[v] = wtask[v]
    BY <2>1, WorkEffect DEF EmailInv, Placing, Busy
  <2>3. \A d \in Emails : Held(d)' <=> Held(d) /\ d # e
    BY <1>1, <2>2, EmailAssumption DEF Held
  <2>4. CASE Len(queue) < QueueSize
    <3>1. queue' = Append(queue, e) /\ outcome' = outcome
      BY <1>1, <1>3, <2>4 DEF Requeue
    <3>2. \A d : InQueue(d)' <=> InQueue(d) \/ d = e
      BY <1>1, <3>1, Appended DEF EmailInv
    <3>3. Fates' = Fates
      BY <1>1, <2>3, <3>1, <3>2, SameFates
    <3> QED BY <2>1, <3>3 DEF Given
  <2>5. CASE ~(Len(queue) < QueueSize)
    <3>1. queue' = queue /\ outcome' = [outcome EXCEPT ![e] = "dropped"]
      BY <1>1, <1>3, <2>5 DEF Requeue
    <3>2. \A d \in Emails : /\ InQueue(d)' <=> InQueue(d)
                            /\ outcome'[d] = IF d = e THEN "dropped" ELSE outcome[d]
      BY <3>1 DEF InQueue, EmailInv, TypeOK
    <3>3. Fate(e) = "accepted" /\ Fate(e)' = "dropped"
      BY <1>1, <3>2, FateIs, FateIsNext
    <3>4. Fates' = [Fates EXCEPT ![e] = "dropped"]
      BY <1>1, <2>3, <3>2, <3>3, OneFate
    <3>5. Delivery!Drop(e)
      BY <1>1, <2>1, <3>3, <3>4 DEF Delivery!Drop, Fates
    <3> QED BY <1>1, <3>5 DEF Delivery!DNext
  <2> QED BY <2>4, <2>5
<1> QED BY <1>2, <1>3
(* An offer of the email a worker has: from here on nobody has it, or the  *)
(* same worker still does.                                                 *)
LEMMA OfferDelivers ==
  ASSUME EmailInv, NEW w \in Workers, Sent(w) \/ SendError(w)
  PROVE  Delivery!DNext
<1>0. wpc[w] \in Busy
  BY DEF Sent, SendError, Busy
<1>1. PICK e \in Emails :
        /\ e = wtask[w] /\ e # Null /\ ~InQueue(e) /\ outcome[e] = "none" /\ Held(e)
        /\ attempts[e] = retries[e] /\ \A v \in Workers \ {w} : wtask[v] # e
  BY <1>0, TaskOf
<1>2. /\ MaxRetries \in Nat /\ retries[e] \in 0..MaxRetries
      /\ attempts' = [attempts EXCEPT ![e] = @ + 1]
      /\ queue' = queue
  BY <1>1, EmailAssumption DEF EmailInv, TypeOK, Sent, SendError
<1>3. Fate(e) = "accepted" /\ attempts[e] < MaxRetries + 1
  BY <1>1, <1>2, FateIs
<1>4. ASSUME NEW l \in {"select", "retry"}, Work(w, l, IF l = "retry" THEN e ELSE Null)
      PROVE  \A d \in Emails : (InQueue(d) \/ Held(d))' <=> (InQueue(d) \/ Held(d)) /\ (d = e => l = "retry")
  <2>1. \A d \in Emails : Held(d)' <=> Held(d) /\ (d = e => l = "retry")
    BY <1>1, <1>2, <1>4, WorkInv DEF Placing, Busy
  <2>2. \A d \in Emails : InQueue(d)' <=> InQueue(d)
    BY <1>2 DEF InQueue
  <2> QED BY <1>1, <2>1, <2>2
<1>5. CASE Sent(w)
  <2>1. /\ Work(w, "select", Null) /\ outcome' = [outcome EXCEPT ![e] = "sent"]
        /\ delivered' = Delivery!Copied(e)
    BY <1>1, <1>5 DEF Sent, Copied, Delivery!Copied
  <2>2. \A d \in Emails : outcome'[d] = IF d = e THEN "sent" ELSE outcome[d]
    BY <2>1 DEF EmailInv, TypeOK
  <2>3. Fate(e)' = "sent"
    BY <2>2, FateIsNext
  <2>4. Fates' = [Fates EXCEPT ![e] = "sent"]
    BY <1>4, <2>1, <2>2, <2>3, OneFate
  <2>5. Delivery!Offer(e)
    BY <1>1, <1>2, <1>3, <2>1, <2>4 DEF Delivery!Offer, Fates
  <2> QED BY <2>5 DEF Delivery!DNext
<1>6. CASE SendError(w)
  <2>1. delivered' \in {delivered, Delivery!Copied(e)}
    BY <1>1, <1>6 DEF SendError, Copied, Delivery!Copied
  <2>2. CASE MayRetry(e)
    <3>1. Work(w, "retry", e) /\ outcome' = outcome
      BY <1>1, <1>6, <2>2 DEF SendError
    <3>2. Fates' = Fates
      BY <1>4, <3>1, SameFates
    <3>3. attempts[e] + 1 # MaxRetries + 1
      BY <1>1, <1>2, <2>2 DEF MayRetry
    <3>4. Fates' = [Fates EXCEPT ![e] = @]
      BY <3>2 DEF Fates
    <3>5. Delivery!Offer(e)
      BY <1>1, <1>2, <1>3, <2>1, <3>3, <3>4 DEF Delivery!Offer, Fates
    <3> QED BY <3>5 DEF Delivery!DNext
  <2>3. CASE ~MayRetry(e)
    <3>1. Work(w, "select", Null) /\ outcome' = [outcome EXCEPT ![e] = "failed"]
      BY <1>1, <1>6, <2>3 DEF SendError
    <3>2. \A d \in Emails : outcome'[d] = IF d = e THEN "failed" ELSE outcome[d]
      BY <3>1 DEF EmailInv, TypeOK
    <3>3. Fate(e)' = "failed"
      BY <3>2, FateIsNext
    <3>4. Fates' = [Fates EXCEPT ![e] = "failed"]
      BY <1>4, <3>1, <3>2, <3>3, OneFate
    <3>5. attempts[e] + 1 = MaxRetries + 1
      BY <1>1, <1>2, <2>3 DEF MayRetry
    <3>6. Delivery!Offer(e)
      BY <1>1, <1>2, <1>3, <2>1, <3>4, <3>5 DEF Delivery!Offer, Fates
    <3> QED BY <3>6 DEF Delivery!DNext
  <2> QED BY <2>2, <2>3
<1> QED BY <1>5, <1>6

(* The notifier implements EmailDelivery: whatever is queued, denied by    *)
(* the limiter, retried, stopped or lost in a panic, an email is offered   *)
(* to the provider at most MaxRetries + 1 times, and never once its fate   *)
(* is settled.                                                             *)
THEOREM EmailKeepsPromise == Spec => KeepsPromise
<1>1. Init => Delivery!DInit
  <2> SUFFICES ASSUME Init PROVE Delivery!DInit
    OBVIOUS
  <2>1. \A e \in Emails : ~InQueue(e) /\ ~Held(e) /\ outcome[e] = "none"
    BY EmptySeq, EmailAssumption DEF Init, InQueue, Held
  <2>2. \A e \in Emails : Fate(e) = "new"
    BY <2>1, FateIs
  <2> QED BY <2>2 DEF Init, Delivery!DInit
<1>2. EmailInv /\ [Next]_evars => [Delivery!DNext]_(Delivery!dvars)
  <2> SUFFICES ASSUME EmailInv, [Next]_evars PROVE Delivery!DNext \/ Given' = Given
    BY DEF Delivery!dvars, Given, Fates
  <2>1. ASSUME NEW e \in Emails, SendAlert(e) PROVE Delivery!DNext \/ Given' = Given
    BY <2>1, SendAlertDelivers
  <2>2. ASSUME NEW w \in Workers, Step(w) PROVE Delivery!DNext \/ Given' = Given
    BY <2>2, TakeKeeps, ExitAllowKeeps, RequeueDelivers, OfferDelivers DEF Step
  <2>3. CASE RefillTokens \/ StopCancel \/ StopReturn \/ UNCHANGED evars
    <3>1. UNCHANGED <<queue, wtask, outcome, attempts, delivered>>
      BY <2>3 DEF RefillTokens, StopCancel, StopReturn, evars, workers, history
    <3>2. \A d : (InQueue(d) \/ Held(d))' <=> InQueue(d) \/ Held(d)
      BY <3>1 DEF InQueue, Held
    <3> QED BY <3>1, <3>2, SameFates DEF Given
  <2> QED BY <2>1, <2>2, <2>3 DEF Next
<1> QED BY <1>1, <1>2, EmailInvariant, PTL DEF Spec, KeepsPromise, Delivery!DSpec

(* What EmailDelivery bounds, the notifier does, as its steps are those of *)
(* EmailDelivery.                                                          *)
LEMMA BoundedStep ==
  ASSUME TypeOK, Delivery!Bounded, [Delivery!DNext]_(Delivery!dvars)
  PROVE  Delivery!Bounded'
<1> DEFINE Delivers == Provider = "smtp"
           More(d)  == IF Delivers THEN delivered[d] + 1 ELSE delivered[d]
<1>1. /\ attempts \in [Emails -> Nat] /\ delivered \in [Emails -> Nat] /\ MaxRetries \in Nat
      /\ \A e \in Emails : Fates[e] = Fate(e) /\ Fates'[e] = Fate(e)'
      /\ Fates \in [Emails -> {Fate(e) : e \in Emails}]
  BY EmailAssumption DEF TypeOK, Fates
<1>2. \A e \in Emails :
        /\ attempts[e] <= MaxRetries + 1 /\ delivered[e] <= attempts[e]
        /\ Fates[e] \in {"new", "rejected"} => attempts[e] = 0
        /\ IF Delivers THEN Fates[e] = "sent" => delivered[e] > 0 ELSE delivered[e] = 0
        /\ Fates[e] = "failed" => attempts[e] = MaxRetries + 1
  BY DEF Delivery!Bounded, Fates
<1>3. SUFFICES \A e \in Emails :
        /\ attempts'[e] <= MaxRetries + 1 /\ delivered'[e] <= attempts'[e]
        /\ Fates'[e] \in {"new", "rejected"} => attempts'[e] = 0
        /\ IF Delivers THEN Fates'[e] = "sent" => delivered'[e] > 0 ELSE delivered'[e] = 0
        /\ Fates'[e] = "failed" => attempts'[e] = MaxRetries + 1
  BY <1>1 DEF Delivery!Bounded
<1>4. CASE UNCHANGED Delivery!dvars
  <2>1. Fates' = Fates /\ attempts' = attempts /\ delivered' = delivered
    BY <1>4 DEF Delivery!dvars, Fates
  <2> QED BY <1>2, <2>1
<1>5. ASSUME NEW d \in Emails, Delivery!Submit(d)
      PROVE  /\ attempts' = attempts /\ delivered' = delivered /\ Fates[d] = "new"
             /\ \E f \in {"accepted", "rejected"} : Fates' = [Fates EXCEPT ![d] = f]
  BY <1>5 DEF Delivery!Submit, Fates
<1>6. ASSUME NEW d \in Emails, Delivery!Drop(d)
      PROVE  /\ attempts' = attempts /\ delivered' = delivered
             /\ Fates' = [Fates EXCEPT ![d] = "dropped"]
  BY <1>6 DEF Delivery!Drop, Fates
<1>7. ASSUME NEW d \in Emails, Delivery!Offer(d)
      PROVE  /\ Fates[d] = "accepted" /\ attempts[d] < MaxRetries + 1
             /\ attempts' = [attempts EXCEPT ![d] = @ + 1]
             /\ \/ /\ Fates' = [Fates EXCEPT ![d] = "sent"]
                   /\ delivered' = [delivered EXCEPT ![d] = More(d)]
                \/ /\ Fates' = [Fates EXCEPT ![d] = IF attempts[d] + 1 = MaxRetries + 1
                                                   THEN "failed" ELSE Fates[d]]
                   /\ delivered' \in {delivered, [delivered EXCEPT ![d] = More(d)]}
  BY <1>7 DEF Delivery!Offer, Delivery!Copied, Fates
<1> HIDE DEF Fates
<1>8. CASE \E d \in Emails : Delivery!Submit(d) \/ Delivery!Drop(d)
  <2>1. PICK d \in Emails : Delivery!Submit(d) \/ Delivery!Drop(d)
    BY <1>8
  <2>2. PICK f \in {"accepted", "rejected", "dropped"} :
          /\ attempts' = attempts /\ delivered' = delivered /\ Fates' = [Fates EXCEPT ![d] = f]
          /\ f # "dropped" => Fates[d] = "new"
    BY <1>5, <1>6, <2>1
  <2> QED BY <1>1, <1>2, <2>2
<1>9. CASE \E d \in Emails : Delivery!Offer(d)
  <2>1. PICK d \in Emails : Delivery!Offer(d)
    BY <1>9
  <2> TAKE e \in Emails
  <2>2. CASE e # d
    <3>1. attempts'[e] = attempts[e] /\ delivered'[e] = delivered[e] /\ Fates'[e] = Fates[e]
      BY <1>1, <1>7, <2>1, <2>2
    <3> QED BY <1>2, <3>1
  <2>3. CASE e = d
    <3>1. /\ Fates[e] = "accepted" /\ attempts[e] < MaxRetries + 1 /\ delivered[e] <= attempts[e]
          /\ attempts[e] \in Nat /\ delivered[e] \in Nat /\ attempts'[e] = attempts[e] + 1
      BY <1>1, <1>2, <1>7, <2>1, <2>3
    <3>2. \/ Fates'[e] = "sent" /\ delivered'[e] = More(e)
          \/ /\ Fates'[e] = IF attempts[e] + 1 = MaxRetries + 1 THEN "failed" ELSE "accepted"
             /\ delivered'[e] \in {delivered[e], More(e)}
      BY <1>1, <1>7, <2>1, <2>3
    <3>3. IF Delivers THEN Fates[e] = "sent" => delivered[e] > 0 ELSE delivered[e] = 0
      BY <1>2, <2>3
    <3> QED BY <1>1, <3>1, <3>2, <3>3
  <2> QED BY <2>2, <2>3
<1> QED BY <1>4, <1>8, <1>9 DEF Delivery!DNext

(* The provider is called for an email, and copies of it are taken, at     *)
(* most MaxRetries + 1 times; a refused one is never offered, and one given *)
(* up has had every retry: whatever workers, requeues, the rate limiter    *)
(* and Stop do.  A sent one was taken if the provider is SMTP with a       *)
(* password; with any other there is no copy of any email.                 *)
THEOREM EmailOffersBounded == Spec => []Delivery!Bounded
<1>1. Delivery!DInit => Delivery!Bounded
  BY EmailAssumption DEF Delivery!DInit, Delivery!Bounded
<1>2. TypeOK /\ Delivery!Bounded /\ [Delivery!DNext]_(Delivery!dvars) => Delivery!Bounded'
  BY BoundedStep
<1> QED BY <1>1, <1>2, EmailKeepsPromise, EmailTypeCorrect, PTL DEF KeepsPromise, Delivery!DSpec

=============================================================================
