----------------------------- MODULE RuleEngine -----------------------------
(***************************************************************************)
(* The notification rule engine of alert-service.  The check loop hands it *)
(* the alerts of unhealthy devices one after the other; Process matches    *)
(* the loaded rules, runs each matched rule's actions under its rate limit *)
(* and then escalates the alert if it has waited long enough.  One         *)
(* goroutine does all of this and sleeps between the retries of an action, *)
(* while administrators acknowledge alerts and the reload ticker replaces  *)
(* the rules.                                                              *)
(*                                                                         *)
(* Time is kept as ages, which all grow at Tick up to MaxAge; of tokens it *)
(* is enough to know how many there are of each age.  Conditions are the   *)
(* set of alerts they match; a rule restricted to hours of the day         *)
(* ("timed") may match or not.                                             *)
(***************************************************************************)
EXTENDS Integers, Sequences, FiniteSets, SequencesExt

CONSTANTS
  CheckOrder,  \* the alerts, in the order CheckAll reports their devices
  DeviceOf,    \* alert -> its device, Null when it has none
  Files,       \* what the rules file can contain: sets of rules
  Retries,     \* MaxRetries of the retry policies
  FaultyNet,   \* an attempt of an action may fail
  Null,
  MaxAge       \* bound: ages stop growing here

Alerts == Range(CheckOrder)
Ages   == 0 .. MaxAge - 1
RuleIds == {r.id : r \in UNION Files}

(* What a rules file may say; a number below zero acts as zero does.       *)
RateLimit  == [max : Nat, win : Nat, scope : {"", "per_rule", "per_device", "global"}]
Escalation == [on : BOOLEAN, wait : Nat, to : Seq(BOOLEAN), every : Nat, max : Nat]
Rule       == [id : STRING, enabled : BOOLEAN, prio : Nat, matches : SUBSET Alerts,
               timed : BOOLEAN, actions : Seq(BOOLEAN), limit : RateLimit \cup {Null},
               esc : Escalation \cup {Null}]

ASSUME EngineAssumption ==
  /\ Null \notin Alerts /\ MaxAge \in Nat /\ Retries \in Nat /\ FaultyNet \in BOOLEAN
  /\ Files \subseteq SUBSET Rule
  /\ \A f \in Files : \A r \in f :
       /\ r.limit # Null => r.limit.win <= MaxAge
       /\ r.esc # Null => r.esc.wait <= MaxAge /\ r.esc.every <= MaxAge

VARIABLES
  file, loaded, \* the rules file, and Engine.rules parsed from it
  trackers,     \* Engine.rateLimiters: a partial function of keys
  escalations,  \* Engine.escalations: a partial function of alerts
  acked,        \* alerts acknowledged in the database
  reported,     \* alerts whose device is still unhealthy
  todo,         \* alerts of the issues left in this round of the check loop
  pc, cur,      \* where Process is, and its local variables
  admitted,     \* history: the admissions of each rule and scope, by age
  rounds, late, \* history: the rounds of each alert and rule that escalates it;
                \* the alert's rounds that ended after it was acknowledged
  told, ran     \* history: alerts whose escalation reached someone; rules run

engine  == <<trackers, escalations>>
history == <<admitted, rounds, late, told, ran>>
rvars   == <<file, loaded, engine, acked, reported, todo, pc, cur, history>>

-----------------------------------------------------------------------------
NoWork == [alert |-> Null, acked |-> FALSE, rules |-> {}, rule |-> Null,
           acts |-> << >>, try |-> 0, since |-> 0, heard |-> FALSE]

Capped(n) == IF n < MaxAge THEN n ELSE MaxAge

(* Tokens: how many there are of each age; Members has one member for      *)
(* each.  What is older than MaxAge is in no window.                       *)
Members(ages)    == UNION {{g} \X (1 .. ages[g]) : g \in Ages}
Number(ages)     == Cardinality(Members(ages))
NoTokens         == [g \in Ages |-> 0]
OneMore(ages)    == [g \in Ages |-> IF g = 0 THEN ages[g] + 1 ELSE ages[g]]
Older(ages)      == [g \in Ages |-> IF g = 0 THEN 0 ELSE ages[g - 1]]
Within(ages, w)  == [g \in Ages |-> IF g < w THEN ages[g] ELSE 0]

(* A map entry written: Go's m[key] = value. *)
Put(m, key, v) == [k \in DOMAIN m \cup {key} |-> IF k = key THEN v ELSE m[k]]
Delete(m, key) == [k \in DOMAIN m \ {key} |-> m[k]]

(* initializeDefaults: rules and their actions are enabled by default, and *)
(* a field that is false cannot be told from one that is absent.  The      *)
(* actions under escalate_to get no defaults.                              *)
Normalize(r) ==
  [r EXCEPT !.enabled = TRUE,
            !.actions = [k \in DOMAIN @ |-> TRUE],
            !.prio    = IF @ = 0 THEN 100 ELSE @,
            !.limit   = IF @ # Null /\ @.scope = "" THEN [@ EXCEPT !.scope = "per_rule"] ELSE @]

Parsed(f) == {Normalize(r) : r \in f}

(* getRateLimitKey. *)
OneKey(r, a) == <<"global">>
LimitKey(r, a) ==
  CASE r.limit.scope = "global" -> <<"global">>
    [] r.limit.scope = "per_device" ->
         IF DeviceOf[a] = Null THEN <<"global">> ELSE <<"device", DeviceOf[a]>>
    [] OTHER -> <<"rule", r.id>>

(* checkRateLimit: the tracker of the key, made with the limits of the     *)
(* rule that needs it first.                                               *)
TrackerFor(r, a) ==
  IF LimitKey(r, a) \in DOMAIN trackers THEN trackers[LimitKey(r, a)]
  ELSE [max |-> r.limit.max, win |-> r.limit.win, tokens |-> NoTokens]

(* RateLimitTracker.Allow: the tokens still in the window, and one more.   *)
Allows(t) == Number(Within(t.tokens, t.win)) < t.max

Init ==
  /\ file \in Files /\ loaded = Parsed(file)
  /\ trackers = [k \in {} |-> Null] /\ escalations = [a \in {} |-> Null]
  /\ acked = {} /\ reported = Alerts /\ todo = {}
  /\ pc = "idle" /\ cur = NoWork
  /\ admitted = [k \in {} |-> NoTokens]
  /\ rounds = [a \in Alerts |-> [id \in RuleIds |-> 0]] /\ late = [a \in Alerts |-> 0]
  /\ told = {} /\ ran = {}

Idle      == pc' = "idle" /\ cur' = NoWork
Env       == UNCHANGED <<file, loaded, acked, reported>>
NoHistory == UNCHANGED history

-----------------------------------------------------------------------------
(* runCheckLoop: the ticker fires and CheckAll lists the issues. *)
CheckAll ==
  /\ pc = "idle" /\ todo = {} /\ reported # {}
  /\ todo' = reported
  /\ UNCHANGED <<engine, pc, cur>> /\ Env /\ NoHistory

(* Process: the first alert left, as GenerateAlert has just read it, and   *)
(* the rules that match, copied under the read lock.                       *)
First(a) == \A m, n \in DOMAIN CheckOrder :
              CheckOrder[m] = a /\ CheckOrder[n] \in todo => m <= n
Process(a) ==
  /\ pc = "idle" /\ a \in todo /\ First(a)
  /\ todo' = todo \ {a}
  /\ LET always == {r \in loaded : r.enabled /\ a \in r.matches /\ ~r.timed}
         timed  == {r \in loaded : r.enabled /\ a \in r.matches /\ r.timed}
     IN  \E extra \in SUBSET timed :
           IF always \cup extra = {} THEN UNCHANGED <<pc, cur>>
           ELSE /\ pc' = "rule"
                /\ cur' = [NoWork EXCEPT !.alert = a, !.acked = a \in acked,
                                         !.rules = always \cup extra]
  /\ UNCHANGED engine /\ Env /\ NoHistory

(* executeRule on the matched rules, the smallest priority number first: a *)
(* rule over its limit is skipped, another starts its actions.             *)
ExecuteRule(r) ==
  LET a == cur.alert
      t == TrackerFor(r, a)
      k == LimitKey(r, a)
      h == <<r.id, k>>
  IN
  /\ pc = "rule" /\ r \in cur.rules
  /\ \A q \in cur.rules : r.prio <= q.prio
  /\ IF r.limit # Null /\ ~Allows(t)
     THEN /\ cur' = [cur EXCEPT !.rules = @ \ {r}]
          /\ trackers' = Put(trackers, k, [t EXCEPT !.tokens = Within(@, t.win)])
          /\ UNCHANGED <<pc, admitted, ran>>
     ELSE /\ cur' = [cur EXCEPT !.rules = @ \ {r}, !.rule = r,
                                !.acts = SelectSeq(r.actions, LAMBDA on : on)]
          /\ pc' = "act" /\ ran' = ran \cup {r.id}
          /\ IF r.limit = Null THEN UNCHANGED <<trackers, admitted>>
             ELSE /\ trackers' = Put(trackers, k,
                                     [t EXCEPT !.tokens = OneMore(Within(@, t.win))])
                  /\ admitted' = Put(admitted, h,
                       OneMore(IF h \in DOMAIN admitted THEN admitted[h] ELSE NoTokens))
  /\ UNCHANGED <<escalations, todo, rounds, late, told>> /\ Env

(* Execute, by whatever channel: a disabled action fails, an enabled one   *)
(* when its receiver does not take it.                                     *)
Execute(action, ok) == IF ok THEN action ELSE FaultyNet \/ ~action

(* ExecuteWithRetry: one attempt of the action at the head.  A disabled    *)
(* action fails like an unreachable one, and is retried like it.           *)
Attempt(ok) ==
  /\ pc \in {"act", "escalating"} /\ cur.acts # << >>
  /\ Execute(Head(cur.acts), ok)
  /\ cur' = IF ok \/ cur.try = Retries
            THEN [cur EXCEPT !.acts = Tail(@), !.try = 0, !.heard = @ \/ ok]
            ELSE [cur EXCEPT !.try = @ + 1]
  /\ UNCHANGED <<engine, todo, pc>> /\ Env /\ NoHistory

(* setEscalationState: the first rule to get here keeps the alert.         *)
RestartsClock(a, r) ==
  Put(escalations, a, [rule |-> r.id, first |-> 0, last |-> 0, count |-> 0])
WithEscalation(a, r) ==
  IF a \in DOMAIN escalations THEN escalations
  ELSE Put(escalations, a, [rule |-> r.id, first |-> 0, last |-> 0, count |-> 0])

RuleDone ==
  /\ pc = "act" /\ cur.acts = << >>
  /\ escalations' = IF cur.rule.esc # Null /\ cur.rule.esc.on
                    THEN WithEscalation(cur.alert, cur.rule) ELSE escalations
  /\ pc' = "rule" /\ cur' = [cur EXCEPT !.rule = Null, !.heard = FALSE]
  /\ UNCHANGED <<trackers, todo>> /\ Env /\ NoHistory

(* processEscalations up to the actions. *)
Escalating(s) == {r \in loaded : r.id = s.rule /\ r.esc # Null /\ r.esc.on}

IgnoresMaximum(s, e) ==
  /\ s.first >= e.wait
  /\ e.every > 0 => s.last >= e.every
Due(s, e) ==
  /\ s.first >= e.wait
  /\ e.every > 0 => s.last >= e.every /\ (e.max > 0 => s.count < e.max)

IgnoresAck(a) ==
  /\ pc = "rule" /\ cur.rules = {} /\ a = cur.alert
  /\ UNCHANGED escalations
  /\ IF a \in DOMAIN escalations
        /\ \E r \in Escalating(escalations[a]) : Due(escalations[a], r.esc)
     THEN \E r \in Escalating(escalations[a]) :
            pc' = "escalating" /\ cur' = [cur EXCEPT !.acts = r.esc.to]
     ELSE Idle
  /\ UNCHANGED <<trackers, todo>> /\ Env /\ NoHistory

ProcessEscalations(a) ==
  /\ pc = "rule" /\ cur.rules = {} /\ a = cur.alert
  /\ escalations' = IF cur.acked THEN Delete(escalations, a) ELSE escalations
  /\ IF ~cur.acked /\ a \in DOMAIN escalations
        /\ \E r \in Escalating(escalations[a]) : Due(escalations[a], r.esc)
     THEN \E r \in Escalating(escalations[a]) :
            pc' = "escalating" /\ cur' = [cur EXCEPT !.acts = r.esc.to]
     ELSE Idle
  /\ UNCHANGED <<trackers, todo>> /\ Env /\ NoHistory

(* The round counts, whether or not an action succeeded; it counts from    *)
(* the moment it began.                                                    *)
EscalationDone(a) ==
  /\ pc = "escalating" /\ cur.acts = << >> /\ a = cur.alert
  /\ escalations' = [escalations EXCEPT ![a].last = cur.since, ![a].count = @ + 1]
  /\ rounds' = [rounds EXCEPT ![a][escalations[a].rule] = @ + 1]
  /\ late'   = [late EXCEPT ![a] = IF a \in acked THEN @ + 1 ELSE @]
  /\ told'   = IF cur.heard THEN told \cup {a} ELSE told
  /\ Idle
  /\ UNCHANGED <<trackers, todo, admitted, ran>> /\ Env

-----------------------------------------------------------------------------
(* LoadRules, from the reload ticker: the parsed rules replace the old     *)
(* ones; trackers and escalation states stay.  A file that does not parse  *)
(* changes nothing.                                                        *)
LoadRules(f) ==
  /\ <<file, loaded>> # <<f, Parsed(f)>>
  /\ file' = f /\ loaded' = Parsed(f)
  /\ UNCHANGED <<engine, acked, reported, todo, pc, cur>> /\ NoHistory

Acknowledge(a) ==
  /\ a \notin acked
  /\ acked' = acked \cup {a}
  /\ UNCHANGED <<file, loaded, engine, reported, todo, pc, cur>> /\ NoHistory

Recover(a) ==
  /\ a \in reported
  /\ reported' = reported \ {a}
  /\ UNCHANGED <<file, loaded, engine, acked, todo, pc, cur>> /\ NoHistory

Tick ==
  /\ trackers' = [k \in DOMAIN trackers |-> [trackers[k] EXCEPT !.tokens = Older(@)]]
  /\ escalations' = [a \in DOMAIN escalations |->
                       [escalations[a] EXCEPT !.first = Capped(@ + 1), !.last = Capped(@ + 1)]]
  /\ cur' = IF pc = "escalating" THEN [cur EXCEPT !.since = Capped(@ + 1)] ELSE cur
  /\ admitted' = [h \in DOMAIN admitted |-> Older(admitted[h])]
  /\ UNCHANGED <<file, loaded, acked, reported, todo, pc, rounds, late, told, ran>>

Loop ==
  \/ CheckAll \/ RuleDone
  \/ \E r \in cur.rules : ExecuteRule(r)
  \/ \E ok \in BOOLEAN : Attempt(ok)
  \/ \E a \in Alerts : Process(a) \/ ProcessEscalations(a) \/ EscalationDone(a)

Next ==
  \/ Loop
  \/ \E f \in Files : LoadRules(f)
  \/ \E a \in Alerts : Acknowledge(a) \/ Recover(a)
  \/ Tick

Spec     == Init /\ [][Next]_rvars

(* The check loop's goroutine runs and time passes. *)
FairSpec == Spec /\ WF_rvars(Loop) /\ WF_rvars(Tick)

-----------------------------------------------------------------------------
TypeOK ==
  /\ file \in Files /\ loaded = Parsed(file)
  /\ \A k \in DOMAIN trackers : Number(trackers[k].tokens) <= trackers[k].max
  /\ \A a \in DOMAIN escalations :
       a \in Alerts /\ escalations[a].first \in 0..MaxAge /\ escalations[a].last \in 0..MaxAge
  /\ acked \subseteq Alerts /\ reported \subseteq Alerts /\ told \subseteq Alerts
  /\ pc \in {"idle", "rule", "act", "escalating"}
  /\ cur.alert \in Alerts \cup {Null} /\ cur.try \in 0..Retries

(* RateLimit: within its window a rule runs at most max_notifications      *)
(* times per scope, by its own limits, whatever other rules run, however   *)
(* long the actions take and whenever the rules are loaded again.          *)
KeepsLimit(h, q) == Number(Within(admitted[h], q.limit.win)) <= q.limit.max
RateRespected ==
  \A r \in loaded : r.limit # Null =>
    \A h \in DOMAIN admitted : h[1] = r.id => KeepsLimit(h, r)

(* Escalation.max_repeat: a rule escalates an alert at most so many times, *)
(* whatever is forgotten and recorded again when the alert is              *)
(* acknowledged, and whichever rule is the first to get hold of it.        *)
RepeatBound ==
  \A r \in loaded : r.esc # Null /\ r.esc.on /\ r.esc.max > 0 =>
    \A a \in Alerts : rounds[a][r.id] <= r.esc.max

(* Acknowledging stops the escalation: only the round of the Process that  *)
(* had read the alert before can still end after it.                       *)
AckStops == \A a \in Alerts : late[a] <= 1

(* "If the alert is acknowledged, no more escalation." *)
NotAfterAck == \A a \in Alerts : late[a] = 0

(* A rule that its file disables does not run. *)
DisabledSilent == \A r \in file : ~r.enabled => r.id \notin ran

(* "Unacknowledged alerts are escalated": an alert that a loaded rule      *)
(* matches and escalates reaches somebody of the next level, unless it is  *)
(* acknowledged or its device recovers.                                    *)
EscalationDelivered ==
  \A a \in Alerts :
    (\E r \in loaded : a \in r.matches /\ r.esc # Null /\ r.esc.on)
      ~> (a \in told \/ a \in acked \/ a \notin reported)
=============================================================================
