--------------------------- MODULE EmailNotifier ---------------------------
(***************************************************************************)
(* The email notifier of alert-service: a bounded channel of tasks, a pool *)
(* of workers, a token bucket refilled by a ticker, retries that put the   *)
(* task back into the channel, and Stop.  A task is a pointer: the worker  *)
(* that holds it changes its retry count in place.                         *)
(***************************************************************************)
EXTENDS Naturals, Sequences, FiniteSets

CONSTANTS
  Emails,      \* tasks SendAlert may be asked to send
  Workers,     \* the worker goroutines
  Null,        \* a worker holds no task
  QueueSize, RateLimit, MaxRetries,
  SlowProvider, \* a call of the provider may outlast Stop's 30 seconds
  Provider     \* "smtp"; "mute": SMTP without a password, whose Send returns nil
               \* and sends nothing; "stub": the others, which are not implemented

ASSUME EmailAssumption ==
  /\ QueueSize \in Nat \ {0} /\ RateLimit \in Nat \ {0} /\ MaxRetries \in Nat
  /\ Null \notin Emails /\ SlowProvider \in BOOLEAN
  /\ Provider \in {"smtp", "mute", "stub"}

VARIABLES
  queue,      \* the channel: a FIFO of tasks
  tokens,     \* the token bucket
  wpc, wtask, \* what each worker is doing, and with which task
  retries,    \* task.Retries
  stats,      \* EmailStats
  stopper,    \* Stop: not called, waiting for the workers, returned
  clean,      \* Stop returned because all workers had finished
  crashed,    \* a panic no goroutine recovers from ended the process
  outcome,    \* history: what the caller or the log was told of each email
  attempts, delivered, \* history: provider calls and copies taken
  burst       \* history: provider calls admitted since the last refill

workers == <<wpc, wtask>>
history == <<outcome, attempts, delivered>>
evars   == <<queue, tokens, workers, retries, stats, stopper, clean, crashed, history, burst>>

-----------------------------------------------------------------------------
InQueue(e) == \E k \in 1..Len(queue) : queue[k] = e
HeldBy(e)  == {w \in Workers : wtask[w] = e}
Fate(e)    == IF outcome[e] # "none" THEN outcome[e]
              ELSE IF InQueue(e) \/ HeldBy(e) # {} THEN "accepted" ELSE "new"
Closed     == stopper = "returned"

Init ==
  /\ queue = << >> /\ tokens = RateLimit
  /\ wpc = [w \in Workers |-> "select"] /\ wtask = [w \in Workers |-> Null]
  /\ retries = [e \in Emails |-> 0]
  /\ stats = [sent |-> 0, failed |-> 0, retried |-> 0]
  /\ stopper = "running" /\ clean = FALSE /\ crashed = FALSE
  /\ outcome = [e \in Emails |-> "none"]
  /\ attempts = [e \in Emails |-> 0] /\ delivered = [e \in Emails |-> 0]
  /\ burst = 0

(* An unrecovered panic in any goroutine. *)
Panic ==
  /\ crashed' = TRUE
  /\ UNCHANGED <<queue, tokens, workers, retries, stats, stopper, clean, history, burst>>

Work(w, l, e) == wpc' = [wpc EXCEPT ![w] = l] /\ wtask' = [wtask EXCEPT ![w] = e]

(* SendAlert: enqueue, or tell the caller that the queue is full.  The     *)
(* channel is closed when Stop has returned.                               *)
SendAlert(e) ==
  /\ ~crashed /\ Fate(e) = "new"
  /\ IF Closed THEN Panic
     ELSE /\ IF Len(queue) < QueueSize
             THEN queue' = Append(queue, e) /\ UNCHANGED outcome
             ELSE outcome' = [outcome EXCEPT ![e] = "rejected"] /\ UNCHANGED queue
          /\ UNCHANGED <<tokens, workers, retries, stats, stopper, clean, crashed,
                         attempts, delivered, burst>>

(* The worker's select: a task if there is one; a nil task, which sendEmail *)
(* dereferences, from a channel closed and drained.                        *)
Take(w) ==
  /\ ~crashed /\ wpc[w] = "select"
  /\ IF queue # << >>
     THEN /\ Work(w, "allow", Head(queue))
          /\ queue' = Tail(queue)
          /\ UNCHANGED <<tokens, retries, stats, stopper, clean, crashed, history, burst>>
     ELSE Closed /\ Panic

(* The other case of the select, once Stop has cancelled the context.      *)
Exit(w) ==
  /\ ~crashed /\ wpc[w] = "select" /\ stopper # "running"
  /\ Work(w, "exited", Null)
  /\ UNCHANGED <<queue, tokens, retries, stats, stopper, clean, crashed, history, burst>>

(* rateLimiter.Allow. *)
AllowForFree(w) ==
  /\ ~crashed /\ wpc[w] = "allow"
  /\ Work(w, "send", wtask[w])
  /\ burst' = burst + 1
  /\ UNCHANGED <<queue, tokens, retries, stats, stopper, clean, crashed, history>>

Allow(w) ==
  /\ ~crashed /\ wpc[w] = "allow"
  /\ IF tokens > 0
     THEN /\ tokens' = tokens - 1 /\ burst' = burst + 1
          /\ Work(w, "send", wtask[w])
     ELSE /\ Work(w, "limited", wtask[w])
          /\ UNCHANGED <<tokens, burst>>
  /\ UNCHANGED <<queue, retries, stats, stopper, clean, crashed, history>>

(* After the delay of a second or of RetryDelay: back into the queue, or   *)
(* dropped with an error in the log when it is full.                       *)
RequeueAndKeep(w) ==
  /\ ~crashed /\ wpc[w] \in {"limited", "retry"}
  /\ queue' = Append(queue, wtask[w])
  /\ Work(w, "allow", wtask[w])
  /\ UNCHANGED <<tokens, retries, stats, stopper, clean, crashed, history, burst>>

RequeueOrForget(w) ==
  /\ ~crashed /\ wpc[w] \in {"limited", "retry"}
  /\ queue' = IF Len(queue) < QueueSize THEN Append(queue, wtask[w]) ELSE queue
  /\ Work(w, "select", Null)
  /\ UNCHANGED <<tokens, retries, stats, stopper, clean, crashed, history, burst>>

Requeue(w) ==
  /\ ~crashed /\ wpc[w] \in {"limited", "retry"}
  /\ IF Closed THEN Panic
     ELSE /\ IF Len(queue) < QueueSize
             THEN queue' = Append(queue, wtask[w]) /\ UNCHANGED outcome
             ELSE outcome' = [outcome EXCEPT ![wtask[w]] = "dropped"] /\ UNCHANGED queue
          /\ Work(w, "select", Null)
          /\ UNCHANGED <<tokens, retries, stats, stopper, clean, crashed,
                         attempts, delivered, burst>>

(* sendEmail and handleSendSuccess: an email that is skipped for want of a *)
(* password counts as sent.                                                *)
Copied(e) == [delivered EXCEPT ![e] = IF Provider = "smtp" THEN @ + 1 ELSE @]

Sent(w) ==
  /\ ~crashed /\ wpc[w] = "send" /\ Provider # "stub"
  /\ attempts'  = [attempts  EXCEPT ![wtask[w]] = @ + 1]
  /\ delivered' = Copied(wtask[w])
  /\ outcome'   = [outcome   EXCEPT ![wtask[w]] = "sent"]
  /\ stats' = [stats EXCEPT !.sent = @ + 1]
  /\ Work(w, "select", Null)
  /\ UNCHANGED <<queue, tokens, retries, stopper, clean, crashed, burst>>

(* sendEmail and handleSendError.  An SMTP error does not say whether the  *)
(* server took the email.                                                  *)
RetriesOnceMore(e) == retries[e] <= MaxRetries
MayRetry(e)        == retries[e] < MaxRetries

FailureStats(again) ==
  [stats EXCEPT !.failed = @ + 1, !.retried = IF again THEN @ + 1 ELSE @]

SendError(w) ==
  LET e == wtask[w] IN
  /\ ~crashed /\ wpc[w] = "send" /\ Provider # "mute"
  /\ attempts' = [attempts EXCEPT ![e] = @ + 1]
  /\ delivered' \in {delivered, Copied(e)}
  /\ \/ /\ MayRetry(e)
        /\ retries' = [retries EXCEPT ![e] = @ + 1]
        /\ Work(w, "retry", e)
        /\ UNCHANGED outcome
     \/ /\ ~MayRetry(e)
        /\ outcome' = [outcome EXCEPT ![e] = "failed"]
        /\ Work(w, "select", Null)
        /\ UNCHANGED retries
  /\ stats' = FailureStats(MayRetry(e))
  /\ UNCHANGED <<queue, tokens, stopper, clean, crashed, burst>>

(* The ticker of the rate limiter; Stop ends it. *)
RefillTokens ==
  /\ ~crashed /\ ~Closed
  /\ tokens' = RateLimit /\ burst' = 0
  /\ UNCHANGED <<queue, workers, retries, stats, stopper, clean, crashed, history>>

-----------------------------------------------------------------------------
(* Stop cancels the context, waits for the workers, at most 30 seconds,    *)
(* stops the limiter and closes the channel.                               *)
StopCancel ==
  /\ ~crashed /\ stopper = "running"
  /\ stopper' = "waiting"
  /\ UNCHANGED <<queue, tokens, workers, retries, stats, clean, crashed, history, burst>>

StopReturn ==
  /\ ~crashed /\ stopper = "waiting"
  /\ \/ /\ \A w \in Workers : wpc[w] = "exited"
        /\ clean' = TRUE
     \/ /\ SlowProvider /\ \E w \in Workers : wpc[w] # "exited"
        /\ UNCHANGED clean
  /\ stopper' = "returned"
  /\ UNCHANGED <<queue, tokens, workers, retries, stats, crashed, history, burst>>

Step(w) == Take(w) \/ Exit(w) \/ Allow(w) \/ Requeue(w) \/ Sent(w) \/ SendError(w)

Next ==
  \/ (\E e \in Emails : SendAlert(e)) \/ (\E w \in Workers : Step(w)) \/ RefillTokens
  \/ StopCancel \/ StopReturn

Spec == Init /\ [][Next]_evars

(* Every worker goes on (a select with a ready case takes one, a call of   *)
(* the provider returns) and the ticker ticks; nobody has to call Stop or  *)
(* SendAlert.                                                              *)
Fairness == WF_evars(RefillTokens) /\ \A w \in Workers : WF_evars(Step(w))
FairSpec == Spec /\ Fairness

-----------------------------------------------------------------------------
TypeOK ==
  /\ queue \in Seq(Emails) /\ Len(queue) <= QueueSize /\ tokens \in 0..RateLimit
  /\ wpc \in [Workers -> {"select", "allow", "limited", "send", "retry", "exited"}]
  /\ wtask \in [Workers -> Emails \cup {Null}]
  /\ retries \in [Emails -> 0..MaxRetries]
  /\ stats \in [sent : Nat, failed : Nat, retried : Nat]
  /\ stopper \in {"running", "waiting", "returned"}
  /\ clean \in BOOLEAN /\ crashed \in BOOLEAN /\ burst \in Nat
  /\ outcome \in [Emails -> {"none", "rejected", "sent", "failed", "dropped"}]
  /\ attempts \in [Emails -> Nat] /\ delivered \in [Emails -> Nat]

(* An email is in one place: never twice in the queue, never both queued   *)
(* and held, never with two workers that would send it at the same time,   *)
(* and nowhere once the caller or the log has been told its fate.          *)
OnePlace ==
  \A e \in Emails :
    LET places == Cardinality({k \in 1..Len(queue) : queue[k] = e}) + Cardinality(HeldBy(e))
    IN  places <= IF outcome[e] = "none" THEN 1 ELSE 0

(* EmailConfig.RateLimit: between two refills no more than RateLimit calls *)
(* of the provider are admitted, however the workers interleave.           *)
RateRespected == burst <= RateLimit

(* The statistics add up: sent counts the emails that were sent, a failure *)
(* was retried or gave its email up, and every call of the provider was    *)
(* counted once.                                                           *)
Ended(how) == {e \in Emails : outcome[e] = how}
Tries      == UNION {{e} \X (1..attempts[e]) : e \in Emails}
StatsAgree ==
  /\ stats.sent = Cardinality(Ended("sent"))
  /\ stats.failed = stats.retried + Cardinality(Ended("failed"))
  /\ stats.sent + stats.failed = Cardinality(Tries)

(* Unless Stop is called, every email the queue took is settled: the       *)
(* requeues of the limiter and of the retries do not go on for ever, and   *)
(* no email gets stuck or is forgotten between queue and workers.          *)
EveryEmailSettles ==
  \A e \in Emails :
    Fate(e) = "accepted" ~> Fate(e) \in {"sent", "failed", "dropped"} \/ stopper # "running"

(* The notifier implements the delivery promise of EmailDelivery, in which *)
(* only an SMTP provider with a password reaches a mail system.            *)
Delivery == INSTANCE EmailDelivery
              WITH MaxAttempts <- MaxRetries + 1, Delivers <- Provider = "smtp",
                   fate <- [e \in Emails |-> Fate(e)]
KeepsPromise == Delivery!DSpec

(* Stop: it waits until the queued tasks have been processed (at most 30   *)
(* seconds); "All email tasks completed" is logged when it did not time    *)
(* out.                                                                    *)
StopDrains == clean => \A e \in Emails : Fate(e) # "accepted"

(* A task that the limiter denied or the provider failed is put back into  *)
(* the queue.                                                              *)
NeverDropped == \A e \in Emails : outcome[e] # "dropped"

(* "Email sent successfully" is logged, and counted as TotalSent, of an    *)
(* email that a mail system has.                                           *)
SentIsDelivered == \A e \in Emails : outcome[e] = "sent" => delivered[e] > 0

(* Stop is a graceful shutdown: a worker that comes back from a slow       *)
(* provider after it, or a caller that still sends, does not bring the     *)
(* process down.                                                           *)
StopGraceful == ~crashed
=============================================================================
