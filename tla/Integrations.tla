---------------------------- MODULE Integrations ----------------------------
(***************************************************************************)
(* The integration manager of alert-service and its five platform          *)
(* adapters: one alert, callers that send, resolve and update it, check    *)
(* the platforms, read the metrics or change the registered platforms, and *)
(* the manager's RWMutex.                                                  *)
(*                                                                         *)
(* A Go RWMutex: Lock announces the writer, which then waits for the       *)
(* readers to leave; a reader that comes meanwhile waits; Unlock admits    *)
(* the readers that wait before the next writer.                           *)
(***************************************************************************)
EXTENDS Naturals, FiniteSets

CONSTANTS
  Callers,     \* goroutines that use the manager
  Platforms,   \* the platforms that can be registered: of Chats, "pagerduty", "opsgenie"
  MaxRetries,  \* RetryConfig.MaxRetries
  MaxCalls,    \* bound: the calls of one caller
  Null

Chats == {"slack", "discord", "teams"}

VARIABLES
  configs,   \* whether each platform is registered and enabled, Null when not registered
  metrics,   \* the counters of each registered platform
  mu,        \* the lock: its readers and its announced writer
  call,      \* what each caller does
  sender,    \* the goroutines of each call, one per platform
  shown      \* external: what each platform shows of the alert

vars == <<configs, metrics, mu, call, sender, shown>>

Statuses == {"acknowledged", "resolved", "active"}
Answers  == {"200", "204", "2xx", "429", "4xx", "5xx", "lost"}
Good2xx  == {"200", "204", "2xx"}
Zero     == [total |-> 0, success |-> 0, failure |-> 0]
Idle     == [op |-> Null, at |-> "idle", arg |-> Null, made |-> 0]
Absent   == [at |-> "none", tries |-> 0, result |-> Null]

Init ==
  /\ configs \in [Platforms -> {TRUE, FALSE, Null}]
  /\ metrics = [p \in Platforms |-> IF configs[p] = Null THEN Null ELSE Zero]
  /\ mu = [readers |-> {}, writer |-> Null]
  /\ call = [c \in Callers |-> Idle]
  /\ sender = [c \in Callers |-> [p \in Platforms |-> Absent]]
  /\ shown = [p \in Platforms |-> "nothing"]

Enabled == {p \in Platforms : configs[p] = TRUE}

-----------------------------------------------------------------------------
(* The answers each adapter takes for success of an operation.             *)
Slack(op)     == IF op = "update" THEN Answers \ {"lost"} ELSE {"200"}
Teams(op)     == IF op = "update" THEN Answers \ {"lost"} ELSE {"200"}
Discord(op)   == IF op = "update" THEN Answers \ {"lost"} ELSE {"200", "204"}
PagerDuty(op) == IF op = "update" THEN Answers \ {"lost"} ELSE Good2xx
Opsgenie(op)  == Good2xx

Success(p, op) ==
  CASE p = "slack"     -> Slack(op)
    [] p = "teams"     -> Teams(op)
    [] p = "discord"   -> Discord(op)
    [] p = "pagerduty" -> PagerDuty(op)
    [] p = "opsgenie"  -> Opsgenie(op)

(* An error of SendAlert may be worth a retry.                             *)
Verdict(p, op, a) ==
  IF a \in Success(p, op) THEN "ok"
  ELSE IF op = "send" /\ a \in {"429", "5xx", "lost"} THEN "retry" ELSE "failed"

(* What a platform is asked to show: PagerDuty and Opsgenie know of no     *)
(* other change than an acknowledgement and a resolution.                  *)
Ask(p, s) == IF p \notin Chats /\ s = "active" THEN "nothing" ELSE s

(* External: the platform answers.  It has done what it was asked when it  *)
(* says so, and may have when the answer is lost.                          *)
Reaches(p, s, a) ==
  \/ a \in Good2xx \cup {"lost"} /\ s # "health" /\ shown' = [shown EXCEPT ![p] = s]
  \/ (a \notin Good2xx \/ s = "health") /\ UNCHANGED shown

-----------------------------------------------------------------------------
(* The lock, taken by callers and by the goroutines of SendAlert.          *)
RLock(c) ==
  /\ mu.writer = Null
  /\ mu' = [mu EXCEPT !.readers = @ \cup {c}]
RUnlock(c) == mu' = [mu EXCEPT !.readers = @ \ {c}]

Announce(t) == mu.writer = Null /\ mu' = [mu EXCEPT !.writer = t]
Holds(t)    == mu.writer = t /\ mu.readers = {}
Unlock      == mu' = [readers |-> {c \in Callers : call[c].at = "rlock"}, writer |-> Null]

Writes == {"register", "unregister"}
Reads  == {"send", "resolve", "update", "health", "metrics"}
Become(c, s) == call' = [call EXCEPT ![c] = s]

Call(c, op, arg) ==
  /\ call[c].at = "idle" /\ call[c].made < MaxCalls
  /\ Become(c, [op |-> op, at |-> IF op \in Writes THEN "lock" ELSE "rlock", arg |-> arg,
                made |-> call[c].made + 1])
  /\ UNCHANGED <<configs, metrics, mu, sender, shown>>

Lock(c) ==
  /\ call[c].at = "lock"
  /\ Announce(c) /\ Become(c, [call[c] EXCEPT !.at = "locked"])
  /\ UNCHANGED <<configs, metrics, sender, shown>>

(* Register validates the configuration and replaces what is there;        *)
(* Unregister removes it.                                                  *)
Done(c) == Become(c, [call[c] EXCEPT !.op = Null, !.at = "idle", !.arg = Null])

Register(c) ==
  LET p == call[c].arg.platform IN
  /\ call[c].at = "locked" /\ Holds(c) /\ call[c].op = "register"
  /\ \/ /\ configs' = [configs EXCEPT ![p] = call[c].arg.enabled]
        /\ metrics' = [metrics EXCEPT ![p] = Zero]
     \/ UNCHANGED <<configs, metrics>>        \* ValidateConfig refuses it
  /\ Unlock /\ Done(c)
  /\ UNCHANGED <<sender, shown>>

Unregister(c) ==
  /\ call[c].at = "locked" /\ Holds(c) /\ call[c].op = "unregister"
  /\ configs' = [configs EXCEPT ![call[c].arg.platform] = Null]
  /\ metrics' = [metrics EXCEPT ![call[c].arg.platform] = Null]
  /\ Unlock /\ Done(c)
  /\ UNCHANGED <<sender, shown>>

(* Enter covers RLock, and being admitted by an Unlock: the readers are    *)
(* admitted while their call still waits.                                  *)
Start(op) == IF op = "send" THEN "send" ELSE "ask"

Enter(c) ==
  /\ call[c].at = "rlock"
  /\ IF c \in mu.readers THEN UNCHANGED mu ELSE RLock(c)
  /\ Become(c, [call[c] EXCEPT !.at = "inside"])
  /\ sender' = [sender EXCEPT ![c] = [p \in Platforms |->
       IF p \in Enabled /\ call[c].op # "metrics"
       THEN [Absent EXCEPT !.at = Start(call[c].op)] ELSE Absent]]
  /\ UNCHANGED <<configs, metrics, shown>>

(* Every operation that reads waits for all its goroutines and leaves.     *)
Finished(c) == \A p \in Platforms : sender[c][p].at \in {"none", "done"}

Return(c) ==
  /\ call[c].at = "inside" /\ Finished(c)
  /\ RUnlock(c) /\ Done(c)
  /\ sender' = [sender EXCEPT ![c] = [p \in Platforms |-> Absent]]
  /\ UNCHANGED <<configs, metrics, shown>>

-----------------------------------------------------------------------------
(* ResolveAlert, UpdateAlert and HealthCheck: one request each, none when  *)
(* there is nothing to ask.                                                *)
Request(c, p) ==
  CASE call[c].op = "resolve" -> "resolved"
    [] call[c].op = "update"  -> Ask(p, call[c].arg)
    [] OTHER                  -> "health"

(* UpdateAlert to "resolved" is ResolveAlert.                              *)
Operation(c) == IF Request(c, "slack") = "resolved" THEN "resolve" ELSE call[c].op

(* HealthCheck asks one platform after the other, the others all at once.  *)
MayAsk(c) == call[c].op = "health" => \A q \in Platforms : sender[c][q].at # "asking"

AskPlatform(c, p) ==
  /\ sender[c][p].at = "ask" /\ MayAsk(c)
  /\ sender' = [sender EXCEPT ![c][p].at = IF Request(c, p) = "nothing" THEN "done" ELSE "asking"]
  /\ UNCHANGED <<configs, metrics, mu, call, shown>>

PlatformAnswers(c, p, a) ==
  /\ sender[c][p].at = "asking"
  /\ Reaches(p, Request(c, p), a)
  /\ sender' = [sender EXCEPT ![c][p] =
       [@ EXCEPT !.at = "done", !.result = Verdict(p, Operation(c), a)]]
  /\ UNCHANGED <<configs, metrics, mu, call>>

(* sendWithRetry: send, count, and send again after a failure that is      *)
(* worth it, unless the context has ended meanwhile.                       *)
Attempt(c, p, a) ==
  /\ sender[c][p].at = "send"
  /\ Reaches(p, "active", a)
  /\ sender' = [sender EXCEPT ![c][p] =
       [at |-> "lock", tries |-> @.tries + 1, result |-> Verdict(p, "send", a)]]
  /\ UNCHANGED <<configs, metrics, mu, call>>

(* updateMetrics takes the write lock.                                     *)
UpdateMetricsLock(c, p) ==
  /\ sender[c][p].at = "lock"
  /\ Announce(<<c, p>>)
  /\ sender' = [sender EXCEPT ![c][p].at = "locked"]
  /\ UNCHANGED <<configs, metrics, call, shown>>

Again(s) == s.result = "retry" /\ s.tries <= MaxRetries

UpdateMetrics(c, p) ==
  LET s == sender[c][p] IN
  /\ s.at = "locked" /\ Holds(<<c, p>>)
  /\ metrics' = [metrics EXCEPT ![p].total = @ + 1,
                                ![p].success = IF s.result = "ok" THEN @ + 1 ELSE @,
                                ![p].failure = IF s.result = "ok" THEN @ ELSE @ + 1]
  /\ Unlock
  /\ sender' = [sender EXCEPT ![c][p].at = IF Again(s) THEN "backoff" ELSE "done"]
  /\ UNCHANGED <<configs, call, shown>>

Backoff(c, p) ==
  /\ sender[c][p].at = "backoff"
  /\ \E next \in {"send", "done"} : sender' = [sender EXCEPT ![c][p].at = next]
  /\ UNCHANGED <<configs, metrics, mu, call, shown>>

-----------------------------------------------------------------------------
CallerStep(c) == Lock(c) \/ Register(c) \/ Unregister(c) \/ Enter(c) \/ Return(c)

SenderStep(c, p) ==
  \/ AskPlatform(c, p) \/ UpdateMetricsLock(c, p) \/ UpdateMetrics(c, p) \/ Backoff(c, p)
  \/ \E a \in Answers : PlatformAnswers(c, p, a) \/ Attempt(c, p, a)

Calls(c) ==
  \/ \E op \in {"send", "resolve", "health", "metrics"} : Call(c, op, Null)
  \/ \E s \in Statuses : Call(c, "update", s)
  \/ \E p \in Platforms, e \in BOOLEAN : Call(c, "register", [platform |-> p, enabled |-> e])
  \/ \E p \in Platforms : Call(c, "unregister", [platform |-> p])

Next == \E c \in Callers : CallerStep(c) \/ Calls(c) \/ \E p \in Platforms : SenderStep(c, p)

Spec == Init /\ [][Next]_vars

(* Goroutines run, platforms answer (the HTTP clients have a timeout), and *)
(* a lock that can be had is had.                                          *)
FairSpec ==
  /\ Spec
  /\ \A c \in Callers : SF_vars(CallerStep(c))
  /\ \A c \in Callers, p \in Platforms : SF_vars(SenderStep(c, p))

-----------------------------------------------------------------------------
(* SendAlert returns once a platform has the alert ("部分成功也视为成功").   *)
SendReturns ==
  \A c \in Callers : (call[c].op = "send" /\ call[c].at = "inside") ~> call[c].at = "idle"

(* An update that an adapter reports as done is shown by its platform, or  *)
(* another call has changed what it shows.                                 *)
UpdateShown ==
  [][\A c \in Callers, p \in Platforms :
       (sender[c][p].at = "asking" /\ sender'[c][p].result = "ok" /\ Request(c, p) # "health")
         => shown'[p] = Request(c, p)]_vars

(* A platform that shows the alert as resolved does not show it as active  *)
(* again: a message that is sent late must not undo a resolution.          *)
ResolvedStaysResolved ==
  [][\A p \in Platforms : shown[p] = "resolved" => shown'[p] # "active"]_vars
=============================================================================
