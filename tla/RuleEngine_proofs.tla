-------------------------- MODULE RuleEngine_proofs --------------------------
(***************************************************************************)
(* Proofs about the notification rule engine: for any rules files, any     *)
(* alerts and devices, any number of retries and any failing actions; and  *)
(* about the matcher it calls, for any lists of rules and nested groups.   *)
(***************************************************************************)
EXTENDS RuleEngine, RuleMatcher, FiniteSetTheorems, WellFoundedInduction, TLAPS

(* The local variables of Process: the alert it works on, as it was read.  *)
Work == {"alert", "acked", "rules", "rule", "acts", "try", "since", "heard"}

CurOK == DOMAIN cur = Work /\ cur.acked \in BOOLEAN

(* What Process has read of an alert stays true of it: an acknowledgement  *)
(* is never taken back; only a Process that read the alert before it was   *)
(* acknowledged gets to escalate it.                                       *)
ReadOK ==
  /\ cur.acked => cur.alert \in acked
  /\ pc = "escalating" => ~cur.acked

(* A late round is the first one after the acknowledgement, and the next   *)
(* Process of the alert has read that it is acknowledged.                  *)
LateOK ==
  /\ late \in [Alerts -> {0, 1}]
  /\ \A a \in Alerts : late[a] = 1 => a \in acked /\ (cur.alert = a => cur.acked)

AckInv == CurOK /\ ReadOK /\ LateOK

LEMMA NoWorkFields ==
  DOMAIN NoWork = Work /\ NoWork.alert = Null /\ NoWork.acked = FALSE /\ Null \notin Alerts
BY EngineAssumption DEF NoWork, Work, EngineAssumption

LEMMA AckInvInit == Init => AckInv
<1> SUFFICES ASSUME Init PROVE AckInv
  OBVIOUS
<1>1. CurOK
  BY NoWorkFields DEF Init, CurOK
<1>2. ReadOK
  BY NoWorkFields DEF Init, ReadOK
<1>3. LateOK
  BY DEF Init, LateOK
<1> QED BY <1>1, <1>2, <1>3 DEF AckInv

(* Process goes on with the alert as it read it.                           *)
LEMMA SameAlert ==
  ASSUME AckInv, DOMAIN cur' = Work, cur'.alert = cur.alert, cur'.acked = cur.acked,
         pc' = "escalating" => ~cur.acked, acked \subseteq acked', UNCHANGED late
  PROVE  AckInv'
<1>1. CurOK' /\ ReadOK'
  BY DEF AckInv, CurOK, ReadOK
<1>2. LateOK'
  BY DEF AckInv, LateOK
<1> QED BY <1>1, <1>2 DEF AckInv

(* Process is over, or another one begins.                                 *)
LEMMA ProcessOver ==
  ASSUME AckInv, Idle, UNCHANGED <<acked, late>>
  PROVE  AckInv'
<1>1. CurOK'
  BY NoWorkFields DEF Idle, CurOK
<1>2. ReadOK'
  BY NoWorkFields DEF Idle, ReadOK
<1>3. LateOK'
  <2>1. \A a \in Alerts : cur'.alert # a
    BY NoWorkFields DEF Idle
  <2> QED BY <2>1 DEF AckInv, LateOK
<1> QED BY <1>1, <1>2, <1>3 DEF AckInv

LEMMA AckInvProcess == ASSUME AckInv, NEW a, Process(a) PROVE AckInv'
<1>1. CASE UNCHANGED <<pc, cur>>
  BY <1>1, SameAlert DEF Process, AckInv, CurOK, ReadOK, Env, NoHistory, history
<1>2. ASSUME NEW rules, pc' = "rule",
             cur' = [NoWork EXCEPT !.alert = a, !.acked = a \in acked, !.rules = rules]
      PROVE  AckInv'
  <2>1. PICK read : read = (a \in acked)
    OBVIOUS
  <2>2. read \in BOOLEAN /\ (read <=> a \in acked)
    <3>1. (a \in acked) \in BOOLEAN
      BY SMT
    <3>2. read \in BOOLEAN
      BY <2>1, <3>1, Zenon
    <3>3. read <=> a \in acked
      BY <2>1, Zenon
    <3> QED BY <3>2, <3>3
  <2>3. cur' = [NoWork EXCEPT !.alert = a, !.acked = read, !.rules = rules]
    BY <1>2, <2>1
  <2>4. DOMAIN cur' = Work /\ cur'.alert = a /\ cur'.acked = read
    BY <2>3, NoWorkFields DEF Work
  <2>5. acked' = acked /\ late' = late
    BY DEF Process, Env, NoHistory, history
  <2>6. CurOK' /\ ReadOK'
    BY <1>2, <2>2, <2>4, <2>5 DEF CurOK, ReadOK
  <2>7. LateOK'
    BY <2>2, <2>4, <2>5 DEF AckInv, LateOK
  <2> QED BY <2>6, <2>7 DEF AckInv
<1> QED BY <1>1, <1>2 DEF Process

LEMMA AckInvExecuteRule == ASSUME AckInv, NEW r, ExecuteRule(r) PROVE AckInv'
<1>1. DOMAIN cur = Work /\ cur.acked \in BOOLEAN
  BY DEF AckInv, CurOK
<1>2. PICK rest : rest = cur.rules \ {r}
  OBVIOUS
<1>3. PICK acts : acts = SelectSeq(r.actions, LAMBDA on : on)
  OBVIOUS
<1>4. \/ cur' = [cur EXCEPT !.rules = rest] /\ pc' = pc
      \/ cur' = [cur EXCEPT !.rules = rest, !.rule = r, !.acts = acts] /\ pc' = "act"
  BY <1>2, <1>3 DEF ExecuteRule
<1>5. DOMAIN cur' = Work /\ cur'.alert = cur.alert /\ cur'.acked = cur.acked
  BY <1>1, <1>4 DEF Work
<1>6. pc' # "escalating"
  BY <1>4 DEF ExecuteRule
<1> QED BY <1>5, <1>6, SameAlert DEF ExecuteRule, Env

LEMMA AckInvAttempt == ASSUME AckInv, NEW ok, Attempt(ok) PROVE AckInv'
<1>1. DOMAIN cur = Work
  BY DEF AckInv, CurOK
<1>2. PICK t, h : t = Tail(cur.acts) /\ h = (cur.heard \/ ok)
  OBVIOUS
<1>3. PICK n : n = cur.try + 1
  OBVIOUS
<1>4. \/ cur' = [cur EXCEPT !.acts = t, !.try = 0, !.heard = h]
      \/ cur' = [cur EXCEPT !.try = n]
  BY <1>2, <1>3 DEF Attempt
<1>5. DOMAIN cur' = Work /\ cur'.alert = cur.alert /\ cur'.acked = cur.acked
  BY <1>1, <1>4 DEF Work
<1> QED BY <1>5, SameAlert DEF Attempt, Env, NoHistory, history, AckInv, ReadOK

LEMMA AckInvRuleDone == ASSUME AckInv, RuleDone PROVE AckInv'
<1>1. DOMAIN cur = Work
  BY DEF AckInv, CurOK
<1>2. DOMAIN cur' = Work /\ cur'.alert = cur.alert /\ cur'.acked = cur.acked
  BY <1>1 DEF RuleDone, Work
<1> QED BY <1>2, SameAlert DEF RuleDone, Env, NoHistory, history

LEMMA AckInvProcessEscalations == ASSUME AckInv, NEW a, ProcessEscalations(a) PROVE AckInv'
<1>1. acked' = acked /\ late' = late /\ DOMAIN cur = Work
  BY DEF ProcessEscalations, Env, NoHistory, history, AckInv, CurOK
<1>2. CASE Idle
  BY <1>1, <1>2, ProcessOver
<1>3. ASSUME NEW r, ~cur.acked, pc' = "escalating", cur' = [cur EXCEPT !.acts = r.esc.to]
      PROVE  AckInv'
  <2>1. DOMAIN cur' = Work /\ cur'.alert = cur.alert /\ cur'.acked = cur.acked
    BY <1>1, <1>3 DEF Work
  <2> QED BY <1>1, <1>3, <2>1, SameAlert
<1> QED BY <1>2, <1>3 DEF ProcessEscalations

(* The round that ends had read the alert before it was acknowledged, so   *)
(* none ended after the acknowledgement yet.                               *)
LEMMA AckInvEscalationDone == ASSUME AckInv, NEW a \in Alerts, EscalationDone(a) PROVE AckInv'
<1>1. acked' = acked /\ Idle /\ cur.alert = a /\ ~cur.acked /\ cur.acked \in BOOLEAN
  BY DEF EscalationDone, Env, AckInv, CurOK, ReadOK
<1>2. late \in [Alerts -> {0, 1}] /\ late[a] = 0
  BY <1>1 DEF AckInv, LateOK
<1>3. \/ late' = late
      \/ a \in acked /\ late' = [late EXCEPT ![a] = 1]
  <2>1. CASE a \in acked
    BY <1>2, <2>1 DEF EscalationDone
  <2>2. CASE a \notin acked
    BY <1>2, <2>2 DEF EscalationDone
  <2> QED BY <2>1, <2>2
<1>4. CurOK'
  BY <1>1, NoWorkFields DEF Idle, CurOK
<1>5. ReadOK'
  BY <1>1, NoWorkFields DEF Idle, ReadOK
<1>6. LateOK'
  <2>1. \A b \in Alerts : cur'.alert # b
    BY <1>1, NoWorkFields DEF Idle
  <2>2. late' \in [Alerts -> {0, 1}]
    BY <1>2, <1>3
  <2>3. \A b \in Alerts : late'[b] = 1 => b \in acked
    BY <1>2, <1>3 DEF AckInv, LateOK
  <2> QED BY <1>1, <2>1, <2>2, <2>3 DEF LateOK
<1> QED BY <1>4, <1>5, <1>6 DEF AckInv

LEMMA AckInvTick == ASSUME AckInv, Tick PROVE AckInv'
<1>1. DOMAIN cur = Work
  BY DEF AckInv, CurOK
<1>2. DOMAIN cur' = Work /\ cur'.alert = cur.alert /\ cur'.acked = cur.acked
  BY <1>1 DEF Tick, Work
<1> QED BY <1>2, SameAlert DEF Tick, AckInv, ReadOK

(* Every step keeps what the engine has read and how late it is.           *)
THEOREM AckInvStep == AckInv /\ [Next]_rvars => AckInv'
<1> SUFFICES ASSUME AckInv, [Next]_rvars PROVE AckInv'
  OBVIOUS
<1>0. CurOK /\ ReadOK
  BY DEF AckInv
<1>1. CASE CheckAll
  BY <1>0, <1>1, SameAlert DEF CheckAll, Env, NoHistory, history, CurOK, ReadOK
<1>2. ASSUME NEW a \in Alerts, Process(a) PROVE AckInv'
  BY <1>2, AckInvProcess
<1>3. CASE RuleDone
  BY <1>3, AckInvRuleDone
<1>4. ASSUME NEW r \in cur.rules, ExecuteRule(r) PROVE AckInv'
  BY <1>4, AckInvExecuteRule
<1>5. ASSUME NEW ok \in BOOLEAN, Attempt(ok) PROVE AckInv'
  BY <1>5, AckInvAttempt
<1>6. ASSUME NEW a \in Alerts, ProcessEscalations(a) PROVE AckInv'
  BY <1>6, AckInvProcessEscalations
<1>7. ASSUME NEW a \in Alerts, EscalationDone(a) PROVE AckInv'
  BY <1>7, AckInvEscalationDone
<1>8. ASSUME NEW f \in Files, LoadRules(f) PROVE AckInv'
  BY <1>0, <1>8, SameAlert DEF LoadRules, NoHistory, history, CurOK, ReadOK
<1>9. ASSUME NEW a \in Alerts, Acknowledge(a) PROVE AckInv'
  BY <1>0, <1>9, SameAlert DEF Acknowledge, NoHistory, history, CurOK, ReadOK
<1>10. ASSUME NEW a \in Alerts, Recover(a) PROVE AckInv'
  BY <1>0, <1>10, SameAlert DEF Recover, NoHistory, history, CurOK, ReadOK
<1>11. CASE Tick
  BY <1>11, AckInvTick
<1>12. CASE UNCHANGED rvars
  BY <1>0, <1>12, SameAlert DEF rvars, history, CurOK, ReadOK
<1> QED BY <1>1, <1>2, <1>3, <1>4, <1>5, <1>6, <1>7, <1>8, <1>9, <1>10, <1>11, <1>12 DEF Next, Loop

(* Who escalates an alert has read it before it was acknowledged.          *)
THEOREM AckInvariant == Spec => []AckInv
BY AckInvInit, AckInvStep, PTL DEF Spec

(* Acknowledging an alert stops its escalation (processEscalations): after *)
(* it, only the round of the Process that had read the alert before can    *)
(* still end, however often an action is retried meanwhile.                *)
THEOREM AcknowledgingStops == Spec => []AckStops
<1>1. AckInv => AckStops
  BY DEF AckInv, LateOK, AckStops
<1> QED BY <1>1, AckInvariant, PTL

-----------------------------------------------------------------------------
(* The rules of all files, as they are parsed, and what is loaded and      *)
(* matched of them.                                                        *)
Known == {Normalize(r) : r \in UNION Files}

KnownOK ==
  /\ loaded \subseteq Known /\ cur.rules \subseteq Known
  /\ pc # "idle" => cur.alert \in Alerts

LEMMA KnownTyped ==
  ASSUME NEW r \in Known
  PROVE  r.limit \in RateLimit \cup {Null} /\ r.esc \in Escalation \cup {Null}
<1>1. PICK q \in Rule : r = Normalize(q)
  BY EngineAssumption DEF EngineAssumption, Known
<1>2. PICK on : on = [k \in DOMAIN q.actions |-> TRUE]
  OBVIOUS
<1>3. PICK prio : prio = IF q.prio = 0 THEN 100 ELSE q.prio
  OBVIOUS
<1>4. PICK limit : limit = IF q.limit # Null /\ q.limit.scope = ""
                           THEN [q.limit EXCEPT !.scope = "per_rule"] ELSE q.limit
  OBVIOUS
<1>5. r = [q EXCEPT !.enabled = TRUE, !.actions = on, !.prio = prio, !.limit = limit]
  BY <1>1, <1>2, <1>3, <1>4 DEF Normalize
<1>6. q.limit \in RateLimit \cup {Null} /\ q.esc \in Escalation \cup {Null}
  BY DEF Rule
<1>7. r.limit = limit /\ r.esc = q.esc
  BY <1>5 DEF Rule
<1>8. limit \in RateLimit \cup {Null}
  BY <1>4, <1>6 DEF RateLimit
<1> QED BY <1>6, <1>7, <1>8

LEMMA ParsedKnown == ASSUME NEW f \in Files PROVE Parsed(f) \subseteq Known
BY DEF Parsed, Known

LEMMA KnownInit == ASSUME Init PROVE KnownOK
BY ParsedKnown DEF Init, KnownOK, NoWork

LEMMA KnownStep == ASSUME AckInv, KnownOK, [Next]_rvars PROVE KnownOK'
<1>0. DOMAIN cur = Work
  BY DEF AckInv, CurOK
<1>1. ASSUME loaded' = loaded, Idle PROVE KnownOK'
  BY <1>1 DEF KnownOK, Idle, NoWork
<1>2. ASSUME loaded' = loaded, cur'.rules \subseteq cur.rules, cur'.alert = cur.alert, pc # "idle"
      PROVE  KnownOK'
  BY <1>2 DEF KnownOK
<1>3. ASSUME loaded' = loaded, UNCHANGED <<pc, cur>> PROVE KnownOK'
  BY <1>3 DEF KnownOK
<1>4. CASE CheckAll
  BY <1>3, <1>4 DEF CheckAll, Env
<1>5. ASSUME NEW a \in Alerts, Process(a) PROVE KnownOK'
  <2>1. ASSUME NEW rules, rules \subseteq loaded, pc' = "rule",
               cur' = [NoWork EXCEPT !.alert = a, !.acked = a \in acked, !.rules = rules]
        PROVE  KnownOK'
    <3>1. cur'.rules = rules /\ cur'.alert = a
      BY <2>1 DEF NoWork
    <3> QED BY <1>5, <2>1, <3>1 DEF KnownOK, Process, Env
  <2>2. PICK always, timed :
          /\ always \subseteq loaded /\ timed \subseteq loaded
          /\ \E extra \in SUBSET timed :
               IF always \cup extra = {} THEN UNCHANGED <<pc, cur>>
               ELSE /\ pc' = "rule"
                    /\ cur' = [NoWork EXCEPT !.alert = a, !.acked = a \in acked, !.rules = always \cup extra]
    BY <1>5 DEF Process
  <2>3. CASE UNCHANGED <<pc, cur>>
    BY <1>3, <1>5, <2>3 DEF Process, Env
  <2> QED BY <2>1, <2>2, <2>3
<1>6. CASE RuleDone
  <2>1. cur'.rules = cur.rules /\ cur'.alert = cur.alert
    BY <1>0, <1>6 DEF RuleDone, Work
  <2> QED BY <1>2, <1>6, <2>1 DEF RuleDone, Env
<1>7. ASSUME NEW r \in cur.rules, ExecuteRule(r) PROVE KnownOK'
  <2>1. PICK acts : acts = SelectSeq(r.actions, LAMBDA on : on)
    OBVIOUS
  <2>2. PICK rest : rest = cur.rules \ {r}
    OBVIOUS
  <2>3. cur' = [cur EXCEPT !.rules = rest] \/ cur' = [cur EXCEPT !.rules = rest, !.rule = r, !.acts = acts]
    BY <1>7, <2>1, <2>2 DEF ExecuteRule
  <2>4. cur'.rules = rest /\ cur'.alert = cur.alert
    BY <1>0, <2>3 DEF Work
  <2> QED BY <1>2, <1>7, <2>2, <2>4 DEF ExecuteRule, Env
<1>8. ASSUME NEW ok \in BOOLEAN, Attempt(ok) PROVE KnownOK'
  <2>1. PICK t, h, n : t = Tail(cur.acts) /\ h = (cur.heard \/ ok) /\ n = cur.try + 1
    OBVIOUS
  <2>2. cur' = [cur EXCEPT !.acts = t, !.try = 0, !.heard = h] \/ cur' = [cur EXCEPT !.try = n]
    BY <1>8, <2>1 DEF Attempt
  <2>3. cur'.rules = cur.rules /\ cur'.alert = cur.alert
    BY <1>0, <2>2 DEF Work
  <2> QED BY <1>2, <1>8, <2>3 DEF Attempt, Env
<1>9. ASSUME NEW a \in Alerts, ProcessEscalations(a) PROVE KnownOK'
  <2>1. CASE Idle
    BY <1>1, <1>9, <2>1 DEF ProcessEscalations, Env
  <2>2. ASSUME NEW r, cur' = [cur EXCEPT !.acts = r.esc.to] PROVE KnownOK'
    <3>1. cur'.rules = cur.rules /\ cur'.alert = cur.alert
      BY <1>0, <2>2 DEF Work
    <3> QED BY <1>2, <1>9, <3>1 DEF ProcessEscalations, Env
  <2> QED BY <1>9, <2>1, <2>2 DEF ProcessEscalations
<1>10. ASSUME NEW a \in Alerts, EscalationDone(a) PROVE KnownOK'
  BY <1>1, <1>10 DEF EscalationDone, Env
<1>11. ASSUME NEW f \in Files, LoadRules(f) PROVE KnownOK'
  BY <1>11, ParsedKnown DEF LoadRules, KnownOK
<1>12. ASSUME NEW a \in Alerts, Acknowledge(a) \/ Recover(a) PROVE KnownOK'
  BY <1>3, <1>12 DEF Acknowledge, Recover
<1>13. CASE Tick
  <2>1. cur'.rules = cur.rules /\ cur'.alert = cur.alert
    BY <1>0, <1>13 DEF Tick, Work
  <2> QED BY <1>13, <2>1 DEF Tick, KnownOK
<1>14. CASE UNCHANGED rvars
  BY <1>3, <1>14 DEF rvars
<1> QED BY <1>4, <1>5, <1>6, <1>7, <1>8, <1>9, <1>10, <1>11, <1>12, <1>13, <1>14 DEF Next, Loop

-----------------------------------------------------------------------------
(* The maximum number of rounds.  A rule comes and goes with the file; the *)
(* bound needs that one with a maximum keeps it, and has an interval.  The *)
(* rules of a file need not agree with each other.                         *)
Escalators == {r \in Known : r.esc # Null /\ r.esc.on}

MaximaKept ==
  \A q, r \in Escalators :
    q.id = r.id /\ r.esc.max > 0 => q.esc.max = r.esc.max /\ q.esc.every > 0

State == {"rule", "first", "last", "count"}
EscalationsOK ==
  /\ DOMAIN escalations \subseteq Alerts
  /\ \A a \in DOMAIN escalations : DOMAIN escalations[a] = State /\ escalations[a].count \in Nat

(* As long as Process may not have read that an alert is acknowledged, its *)
(* escalation was never forgotten: it has counted all rounds of the alert, *)
(* and they were all of the rule that owns it.                             *)
Unread(a)  == a \notin acked \/ (cur.alert = a /\ ~cur.acked)
Counted(a) ==
  \A id \in RuleIds :
    rounds[a][id] = IF a \in DOMAIN escalations /\ escalations[a].rule = id
                    THEN escalations[a].count ELSE 0
RoundsOK ==
  /\ rounds \in [Alerts -> [RuleIds -> Nat]]
  /\ \A a \in Alerts : Unread(a) => Counted(a)

BelowMaximum ==
  \A r \in Escalators : r.esc.max > 0 =>
    /\ \A a \in Alerts : rounds[a][r.id] <= r.esc.max
    /\ pc = "escalating" /\ escalations[cur.alert].rule = r.id => rounds[cur.alert][r.id] < r.esc.max

EscalatingOK ==
  pc = "escalating" => cur.alert \in DOMAIN escalations /\ escalations[cur.alert].rule \in RuleIds

RoundsInv == AckInv /\ KnownOK /\ EscalationsOK /\ RoundsOK /\ BelowMaximum /\ EscalatingOK

(* A rule keeps its id when it is parsed.                                  *)
LEMMA KnownIds == ASSUME NEW r \in Known PROVE r.id \in RuleIds
<1>1. PICK f \in Files : \E q \in f : r = Normalize(q)
  BY DEF Known
<1>2. PICK q \in f : r = Normalize(q)
  BY <1>1
<1>3. q \in Rule
  BY EngineAssumption DEF EngineAssumption
<1>4. PICK on, prio, limit : r = [q EXCEPT !.enabled = TRUE, !.actions = on, !.prio = prio, !.limit = limit]
  BY <1>2 DEF Normalize
<1>5. r.id = q.id
  BY <1>3, <1>4 DEF Rule
<1> QED BY <1>5 DEF RuleIds

LEMMA RoundsInvInit == ASSUME Init PROVE RoundsInv
<1>1. AckInv /\ KnownOK
  BY AckInvInit, KnownInit
<1>2. EscalationsOK /\ RoundsOK /\ EscalatingOK
  BY DEF Init, EscalationsOK, RoundsOK, Counted, EscalatingOK
<1>3. BelowMaximum
  <2>1. \A r \in Escalators : r.esc.max \in Nat /\ r.id \in RuleIds
    BY KnownTyped, KnownIds DEF Escalators, Escalation
  <2> QED BY <2>1 DEF Init, BelowMaximum
<1> QED BY <1>1, <1>2, <1>3 DEF RoundsInv

(* Steps that leave escalations and rounds alone and begin no round.       *)
LEMMA RoundsKept ==
  ASSUME RoundsInv, AckInv', KnownOK', UNCHANGED <<escalations, rounds>>,
         pc' = "escalating" => pc = "escalating" /\ cur'.alert = cur.alert,
         \A a \in Alerts : Unread(a)' => Unread(a)
  PROVE  RoundsInv'
<1>1. EscalationsOK' /\ EscalatingOK' /\ BelowMaximum'
  BY DEF RoundsInv, EscalationsOK, EscalatingOK, BelowMaximum
<1>2. RoundsOK'
  BY DEF RoundsInv, RoundsOK, Counted
<1> QED BY <1>1, <1>2 DEF RoundsInv

LEMMA RoundsRuleDone == ASSUME RoundsInv, AckInv', KnownOK', RuleDone PROVE RoundsInv'
<1>1. PICK a : a = cur.alert
  OBVIOUS
<1>2. a \in Alerts /\ DOMAIN cur = Work
  BY <1>1 DEF RuleDone, RoundsInv, KnownOK, AckInv, CurOK
<1>3. cur'.alert = a /\ cur'.acked = cur.acked /\ acked' = acked /\ rounds' = rounds /\ pc' = "rule"
  BY <1>1, <1>2 DEF RuleDone, Work, Env, NoHistory, history
<1>4. CASE escalations' = escalations
  <2>1. \A b \in Alerts : Unread(b)' => Unread(b)
    BY <1>1, <1>3 DEF Unread
  <2> QED BY <1>3, <1>4, <2>1, RoundsKept
<1>5. ASSUME NEW id, a \notin DOMAIN escalations,
             escalations' = Put(escalations, a, [rule |-> id, first |-> 0, last |-> 0, count |-> 0])
      PROVE  RoundsInv'
  <2>1. /\ DOMAIN escalations' = DOMAIN escalations \cup {a}
        /\ escalations'[a] = [rule |-> id, first |-> 0, last |-> 0, count |-> 0]
        /\ \A b \in DOMAIN escalations : escalations'[b] = escalations[b]
    BY <1>5 DEF Put
  <2>2. EscalationsOK'
    BY <1>2, <2>1 DEF RoundsInv, EscalationsOK, State
  <2>3. RoundsOK'
    <3> SUFFICES ASSUME NEW b \in Alerts, Unread(b)' PROVE Counted(b)'
      BY <1>3 DEF RoundsInv, RoundsOK
    <3>1. Unread(b)
      BY <1>1, <1>3 DEF Unread
    <3>2. Counted(b)
      BY <3>1 DEF RoundsInv, RoundsOK
    <3>3. CASE b = a
      BY <1>3, <1>5, <2>1, <3>2, <3>3 DEF Counted
    <3>4. CASE b # a
      <4>1. DOMAIN escalations' \ {a} = DOMAIN escalations \ {a}
        BY <2>1
      <4> QED BY <1>3, <2>1, <3>2, <3>4, <4>1 DEF Counted
    <3> QED BY <3>3, <3>4
  <2>4. EscalatingOK' /\ BelowMaximum'
    BY <1>3 DEF RoundsInv, EscalatingOK, BelowMaximum
  <2> QED BY <2>2, <2>3, <2>4 DEF RoundsInv
<1> QED BY <1>1, <1>4, <1>5 DEF RuleDone, WithEscalation

(* A round begins below the maximum, because all rounds were counted; the  *)
(* escalation of an alert that was read as acknowledged is forgotten.      *)
LEMMA RoundsProcessEscalations ==
  ASSUME MaximaKept, RoundsInv, AckInv', KnownOK', NEW a \in Alerts, ProcessEscalations(a)
  PROVE  RoundsInv'
<1>1. acked' = acked /\ rounds' = rounds /\ a = cur.alert /\ pc = "rule" /\ DOMAIN cur = Work
  BY DEF ProcessEscalations, Env, NoHistory, history, RoundsInv, AckInv, CurOK
<1>2. ASSUME NEW r \in Escalating(escalations[a]), ~cur.acked, a \in DOMAIN escalations,
             \E q \in Escalating(escalations[a]) : Due(escalations[a], q.esc),
             pc' = "escalating", cur' = [cur EXCEPT !.acts = r.esc.to], escalations' = escalations
      PROVE  RoundsInv'
  <2>1. cur'.alert = a /\ cur'.acked = cur.acked
    BY <1>1, <1>2 DEF Work
  <2>2. PICK q \in Escalating(escalations[a]) : Due(escalations[a], q.esc)
    BY <1>2
  <2>3. q \in Escalators /\ q.id = escalations[a].rule /\ q.id \in RuleIds
    BY <2>2, KnownIds DEF Escalating, Escalators, RoundsInv, KnownOK
  <2>4. Unread(a) /\ Counted(a)
    BY <1>1, <1>2 DEF Unread, RoundsInv, RoundsOK
  <2>5. \A s \in Escalators : s.esc.max > 0 /\ escalations[a].rule = s.id => rounds[a][s.id] < s.esc.max
    <3> SUFFICES ASSUME NEW s \in Escalators, s.esc.max > 0, escalations[a].rule = s.id
                 PROVE  rounds[a][s.id] < s.esc.max
      OBVIOUS
    <3>1. q.esc.max = s.esc.max /\ q.esc.max > 0 /\ q.esc.every > 0
      BY <2>3 DEF MaximaKept
    <3>2. escalations[a].count < q.esc.max
      BY <2>2, <3>1 DEF Due
    <3>3. rounds[a][s.id] = escalations[a].count
      BY <1>2, <2>3, <2>4 DEF Counted
    <3> QED BY <3>1, <3>2, <3>3
  <2>6. BelowMaximum'
    BY <1>1, <1>2, <2>1, <2>5 DEF RoundsInv, BelowMaximum
  <2>7. EscalationsOK' /\ EscalatingOK'
    BY <1>2, <2>1, <2>3 DEF RoundsInv, EscalationsOK, EscalatingOK
  <2>8. RoundsOK'
    BY <1>1, <1>2, <2>1 DEF RoundsInv, RoundsOK, Unread, Counted
  <2> QED BY <2>6, <2>7, <2>8 DEF RoundsInv
<1>3. ASSUME Idle, escalations' = IF cur.acked THEN Delete(escalations, a) ELSE escalations
      PROVE  RoundsInv'
  <2>1. \A b \in Alerts : Unread(b)' => b \notin acked /\ Unread(b)
    BY <1>1, <1>3, NoWorkFields DEF Idle, Unread
  <2>2. CASE escalations' = escalations
    BY <1>1, <1>3, <2>1, <2>2, RoundsKept DEF Idle
  <2>3. CASE cur.acked /\ escalations' = Delete(escalations, a)
    <3>1. a \in acked
      BY <1>1, <2>3 DEF RoundsInv, AckInv, ReadOK
    <3>2. DOMAIN escalations' = DOMAIN escalations \ {a}
          /\ \A b \in DOMAIN escalations \ {a} : escalations'[b] = escalations[b]
      BY <2>3 DEF Delete
    <3>3. EscalationsOK'
      BY <3>2 DEF RoundsInv, EscalationsOK
    <3>4. RoundsOK'
      <4> SUFFICES ASSUME NEW b \in Alerts, Unread(b)' PROVE Counted(b)'
        BY <1>1 DEF RoundsInv, RoundsOK
      <4>1. b # a /\ Counted(b)
        BY <2>1, <3>1 DEF RoundsInv, RoundsOK
      <4> QED BY <1>1, <3>2, <4>1 DEF Counted
    <3>5. EscalatingOK' /\ BelowMaximum'
      BY <1>1, <1>3 DEF Idle, RoundsInv, EscalatingOK, BelowMaximum
    <3> QED BY <3>3, <3>4, <3>5 DEF RoundsInv
  <2> QED BY <1>3, <2>2, <2>3
<1>4. CASE ~cur.acked /\ a \in DOMAIN escalations
           /\ \E q \in Escalating(escalations[a]) : Due(escalations[a], q.esc)
  BY <1>2, <1>4 DEF ProcessEscalations
<1>5. CASE ~(~cur.acked /\ a \in DOMAIN escalations
             /\ \E q \in Escalating(escalations[a]) : Due(escalations[a], q.esc))
  BY <1>3, <1>5 DEF ProcessEscalations
<1> QED BY <1>4, <1>5

LEMMA RoundsEscalationDone ==
  ASSUME RoundsInv, AckInv', KnownOK', NEW a \in Alerts, EscalationDone(a)
  PROVE  RoundsInv'
<1>1. acked' = acked /\ a = cur.alert /\ pc = "escalating" /\ Idle /\ ~cur.acked
  BY DEF EscalationDone, Env, RoundsInv, AckInv, ReadOK
<1> DEFINE own == escalations[a].rule
<1>2. /\ a \in DOMAIN escalations /\ DOMAIN escalations[a] = State /\ escalations[a].count \in Nat
      /\ own \in RuleIds
  BY <1>1 DEF RoundsInv, EscalatingOK, EscalationsOK
<1>3. /\ DOMAIN escalations' = DOMAIN escalations
      /\ DOMAIN escalations'[a] = State /\ escalations'[a].count = escalations[a].count + 1
      /\ escalations'[a].rule = own
      /\ \A b \in DOMAIN escalations : b # a => escalations'[b] = escalations[b]
  <2>1. PICK since : since = cur.since
    OBVIOUS
  <2>2. PICK n : n = escalations[a].count + 1
    OBVIOUS
  <2>3. PICK s : s = [escalations[a] EXCEPT !.last = since, !.count = n]
    OBVIOUS
  <2>4. escalations' = [escalations EXCEPT ![a] = s]
    BY <1>2, <2>1, <2>2, <2>3 DEF EscalationDone, State
  <2>5. DOMAIN s = State /\ s.count = n /\ s.rule = own
    BY <1>2, <2>3 DEF State
  <2> QED BY <1>2, <2>2, <2>4, <2>5
<1>4. /\ rounds' \in [Alerts -> [RuleIds -> Nat]]
      /\ \A b \in Alerts, id \in RuleIds :
           /\ rounds[b][id] \in Nat
           /\ rounds'[b][id] = IF b = a /\ id = own THEN rounds[b][id] + 1 ELSE rounds[b][id]
  <2>1. rounds \in [Alerts -> [RuleIds -> Nat]] /\ rounds' = [rounds EXCEPT ![a][own] = @ + 1]
    BY DEF RoundsInv, RoundsOK, EscalationDone
  <2> HIDE DEF own
  <2> QED BY <1>2, <2>1
<1>5. EscalationsOK'
  BY <1>2, <1>3 DEF RoundsInv, EscalationsOK
<1>6. Counted(a)
  BY <1>1 DEF RoundsInv, RoundsOK, Unread
<1>7. RoundsOK'
  <2> SUFFICES ASSUME NEW b \in Alerts, Unread(b)' PROVE Counted(b)'
    BY <1>4 DEF RoundsOK
  <2>1. Unread(b)
    BY <1>1, NoWorkFields DEF Idle, Unread
  <2>2. Counted(b)
    BY <2>1 DEF RoundsInv, RoundsOK
  <2> SUFFICES ASSUME NEW id \in RuleIds
               PROVE  rounds'[b][id] = IF b \in DOMAIN escalations' /\ escalations'[b].rule = id
                                       THEN escalations'[b].count ELSE 0
    BY DEF Counted
  <2>3. CASE b = a
    BY <1>2, <1>3, <1>4, <1>6, <2>3 DEF Counted
  <2>4. CASE b # a
    BY <1>3, <1>4, <2>2, <2>4 DEF Counted
  <2> QED BY <2>3, <2>4
<1>8. BelowMaximum'
  <2> SUFFICES ASSUME NEW r \in Escalators, r.esc.max > 0
               PROVE  /\ \A b \in Alerts : rounds'[b][r.id] <= r.esc.max
                      /\ pc' # "escalating"
    BY DEF BelowMaximum
  <2>1. /\ own = r.id => rounds[a][r.id] < r.esc.max
        /\ \A b \in Alerts : rounds[b][r.id] <= r.esc.max
    BY <1>1 DEF RoundsInv, BelowMaximum
  <2>2. r.esc.max \in Nat /\ r.id \in RuleIds
    BY KnownTyped, KnownIds DEF Escalators, Escalation
  <2> HIDE DEF own
  <2>3. \A b \in Alerts : rounds'[b][r.id] <= r.esc.max
    BY <1>4, <2>1, <2>2
  <2> QED BY <1>1, <2>3 DEF Idle
<1>9. EscalatingOK'
  BY <1>1 DEF Idle, EscalatingOK
<1> QED BY <1>5, <1>7, <1>8, <1>9 DEF RoundsInv

LEMMA RoundsTick == ASSUME RoundsInv, AckInv', KnownOK', Tick PROVE RoundsInv'
<1>1. acked' = acked /\ rounds' = rounds /\ pc' = pc /\ DOMAIN cur = Work
  BY DEF Tick, RoundsInv, AckInv, CurOK
<1>2. cur'.alert = cur.alert /\ cur'.acked = cur.acked
  BY <1>1 DEF Tick, Work
<1>3. DOMAIN escalations' = DOMAIN escalations
  BY DEF Tick
<1>4. ASSUME NEW a \in DOMAIN escalations
      PROVE  /\ DOMAIN escalations'[a] = State /\ escalations'[a].count = escalations[a].count
             /\ escalations'[a].rule = escalations[a].rule
  <2>1. DOMAIN escalations[a] = State
    BY DEF RoundsInv, EscalationsOK
  <2>2. PICK m, n : m = Capped(escalations[a].first + 1) /\ n = Capped(escalations[a].last + 1)
    OBVIOUS
  <2>3. escalations'[a] = [escalations[a] EXCEPT !.first = m, !.last = n]
    BY <2>1, <2>2 DEF Tick, State
  <2> QED BY <2>1, <2>3 DEF State
<1>5. EscalationsOK'
  BY <1>3, <1>4 DEF RoundsInv, EscalationsOK
<1>6. RoundsOK'
  BY <1>1, <1>2, <1>3, <1>4 DEF RoundsInv, RoundsOK, Unread, Counted
<1>7. EscalatingOK' /\ BelowMaximum'
  BY <1>1, <1>2, <1>3, <1>4 DEF RoundsInv, EscalatingOK, BelowMaximum
<1> QED BY <1>5, <1>6, <1>7 DEF RoundsInv

(* Every step keeps count of the rounds, when maxima are kept.             *)
THEOREM RoundsInvStep == MaximaKept /\ RoundsInv /\ [Next]_rvars => RoundsInv'
<1> SUFFICES ASSUME MaximaKept, RoundsInv, [Next]_rvars PROVE RoundsInv'
  OBVIOUS
<1>0. AckInv' /\ KnownOK'
  BY AckInvStep, KnownStep DEF RoundsInv
<1>00. DOMAIN cur = Work
  BY DEF RoundsInv, AckInv, CurOK
<1>1. CASE CheckAll
  BY <1>0, <1>1, RoundsKept DEF CheckAll, Env, NoHistory, history, engine, Unread
<1>2. ASSUME NEW a \in Alerts, Process(a) PROVE RoundsInv'
  <2>1. acked' = acked /\ UNCHANGED <<escalations, rounds>> /\ pc = "idle"
    BY <1>2 DEF Process, Env, NoHistory, history, engine
  <2>2. CASE UNCHANGED <<pc, cur>>
    BY <1>0, <2>1, <2>2, RoundsKept DEF Unread
  <2>3. ASSUME NEW rules, pc' = "rule",
               cur' = [NoWork EXCEPT !.alert = a, !.acked = a \in acked, !.rules = rules]
        PROVE  RoundsInv'
    <3>1. cur'.alert = a /\ cur'.acked = (a \in acked)
      BY <2>3 DEF NoWork
    <3>2. cur'.acked <=> a \in acked
      BY <3>1, Zenon
    <3>3. \A b \in Alerts : Unread(b)' => Unread(b)
      BY <2>1, <3>1, <3>2 DEF Unread
    <3> QED BY <1>0, <2>1, <2>3, <3>3, RoundsKept
  <2> QED BY <1>2, <2>2, <2>3 DEF Process
<1>3. CASE RuleDone
  BY <1>0, <1>3, RoundsRuleDone
<1>4. ASSUME NEW r \in cur.rules, ExecuteRule(r) PROVE RoundsInv'
  <2>1. PICK acts : acts = SelectSeq(r.actions, LAMBDA on : on)
    OBVIOUS
  <2>2. PICK rest : rest = cur.rules \ {r}
    OBVIOUS
  <2>3. \/ cur' = [cur EXCEPT !.rules = rest] /\ pc' = pc
        \/ cur' = [cur EXCEPT !.rules = rest, !.rule = r, !.acts = acts] /\ pc' = "act"
    BY <1>4, <2>1, <2>2 DEF ExecuteRule
  <2>4. cur'.acked = cur.acked /\ cur'.alert = cur.alert /\ pc' # "escalating"
    BY <1>00, <1>4, <2>3 DEF Work, ExecuteRule
  <2>5. acked' = acked /\ UNCHANGED <<escalations, rounds>>
    BY <1>4 DEF ExecuteRule, Env
  <2> QED BY <1>0, <2>4, <2>5, RoundsKept DEF Unread
<1>5. ASSUME NEW ok \in BOOLEAN, Attempt(ok) PROVE RoundsInv'
  <2>1. PICK t, h, n : t = Tail(cur.acts) /\ h = (cur.heard \/ ok) /\ n = cur.try + 1
    OBVIOUS
  <2>2. cur' = [cur EXCEPT !.acts = t, !.try = 0, !.heard = h] \/ cur' = [cur EXCEPT !.try = n]
    BY <1>5, <2>1 DEF Attempt
  <2>3. cur'.acked = cur.acked /\ cur'.alert = cur.alert
    BY <1>00, <2>2 DEF Work
  <2>4. acked' = acked /\ UNCHANGED <<escalations, rounds, pc>>
    BY <1>5 DEF Attempt, Env, NoHistory, history, engine
  <2> QED BY <1>0, <2>3, <2>4, RoundsKept DEF Unread
<1>6. ASSUME NEW a \in Alerts, ProcessEscalations(a) PROVE RoundsInv'
  BY <1>0, <1>6, RoundsProcessEscalations
<1>7. ASSUME NEW a \in Alerts, EscalationDone(a) PROVE RoundsInv'
  BY <1>0, <1>7, RoundsEscalationDone
<1>8. ASSUME NEW f \in Files, LoadRules(f) PROVE RoundsInv'
  BY <1>0, <1>8, RoundsKept DEF LoadRules, NoHistory, history, engine, Unread
<1>9. ASSUME NEW a \in Alerts, Acknowledge(a) \/ Recover(a) PROVE RoundsInv'
  BY <1>0, <1>9, RoundsKept DEF Acknowledge, Recover, NoHistory, history, engine, Unread
<1>10. CASE Tick
  BY <1>0, <1>10, RoundsTick
<1>11. CASE UNCHANGED rvars
  BY <1>0, <1>11, RoundsKept DEF rvars, history, engine, Unread
<1> QED BY <1>1, <1>2, <1>3, <1>4, <1>5, <1>6, <1>7, <1>8, <1>9, <1>10, <1>11 DEF Next, Loop

(* A rule escalates an alert at most max_repeat times (processEscalations),*)
(* also when the engine forgets the escalation and a new one begins, with  *)
(* whatever other rules there are: if a rule with a maximum has an         *)
(* interval, without which the code does not look at the maximum, and      *)
(* reloads do not change it.  The rules of alert-rules.yaml are such.      *)
THEOREM EscalationBounded ==
  ASSUME MaximaKept
  PROVE  Spec => []RepeatBound
<1>1. RoundsInv => RepeatBound
  BY DEF RepeatBound, RoundsInv, BelowMaximum, KnownOK, Escalators
<1>2. RoundsInv /\ [Next]_rvars => RoundsInv'
  BY RoundsInvStep
<1> QED BY <1>1, <1>2, RoundsInvInit, PTL DEF Spec

-----------------------------------------------------------------------------
(* Tokens by their age.                                                    *)
Counts == [Ages -> Nat]

LEMMA MembersFinite ==
  ASSUME NEW t \in Counts
  PROVE  IsFiniteSet(Members(t)) /\ Number(t) \in Nat
<1> DEFINE row == [g \in Ages |-> {g} \X (1 .. t[g])]
           rows == {{g} \X (1 .. t[g]) : g \in Ages}
<1>1. IsFiniteSet(Ages)
  <2>1. 0 \in Int /\ MaxAge - 1 \in Int /\ Ages = 0 .. MaxAge - 1
    BY EngineAssumption DEF Ages
  <2> HIDE DEF Ages
  <2> QED BY <2>1, FS_Interval
<1>2. row \in Surjection(Ages, rows)
  BY DEF Surjection
<1>3. IsFiniteSet(rows)
  <2> HIDE DEF row, rows
  <2> QED BY <1>1, <1>2, FS_Surjection
<1>4. \A T \in rows : IsFiniteSet(T)
  <2> SUFFICES ASSUME NEW g \in Ages PROVE IsFiniteSet({g} \X (1 .. t[g]))
    OBVIOUS
  <2>0. t[g] \in Nat
    BY DEF Counts
  <2>1. IsFiniteSet(1 .. t[g])
    BY <2>0, FS_Interval
  <2>2. IsFiniteSet({g})
    BY FS_Singleton
  <2> QED BY <2>1, <2>2, FS_Product
<1>5. IsFiniteSet(UNION rows)
  <2> HIDE DEF rows
  <2> QED BY <1>3, <1>4, FS_UNION
<1>6. IsFiniteSet(Members(t))
  BY <1>5 DEF Members
<1> QED BY <1>6, FS_CardinalityType DEF Number

LEMMA IsMember ==
  ASSUME NEW t
  PROVE  \A g, i : <<g, i>> \in Members(t) <=> g \in Ages /\ i \in 1 .. t[g]
BY DEF Members

LEMMA MembersArePairs ==
  ASSUME NEW t, NEW x \in Members(t)
  PROVE  \E g \in Ages : \E i \in 1 .. t[g] : x = <<g, i>>
BY DEF Members

(* Fewer of every age are fewer.                                           *)
LEMMA NumberMonotone ==
  ASSUME NEW s \in Counts, NEW t \in Counts, \A g \in Ages : s[g] <= t[g]
  PROVE  Number(s) <= Number(t)
<1>1. ASSUME NEW x \in Members(s) PROVE x \in Members(t)
  <2>1. PICK g \in Ages : \E i \in 1 .. s[g] : x = <<g, i>>
    BY MembersArePairs
  <2>2. PICK i \in 1 .. s[g] : x = <<g, i>>
    BY <2>1
  <2>3. i \in 1 .. t[g]
    BY DEF Counts
  <2> QED BY <2>2, <2>3, IsMember
<1> QED BY <1>1, MembersFinite, FS_Subset DEF Number

LEMMA NumberOneMore ==
  ASSUME NEW t \in Counts
  PROVE  OneMore(t) \in Counts /\ Number(OneMore(t)) <= Number(t) + 1
<1>1. OneMore(t) \in Counts
  BY DEF OneMore, Counts
<1>2. PICK s \in Counts : s = OneMore(t)
  BY <1>1
<1>3. CASE 0 \in Ages
  <2>1. PICK n \in Nat : n = t[0]
    BY <1>3 DEF Counts
  <2>2. s[0] = n + 1 /\ \A g \in Ages : g # 0 => s[g] = t[g]
    BY <1>2, <1>3, <2>1 DEF OneMore
  <2>3. Members(s) \subseteq Members(t) \cup {<<0, n + 1>>}
    <3> SUFFICES ASSUME NEW x \in Members(s) PROVE x \in Members(t) \cup {<<0, n + 1>>}
      OBVIOUS
    <3>1. PICK g \in Ages : \E i \in 1 .. s[g] : x = <<g, i>>
      BY MembersArePairs
    <3>2. PICK i \in 1 .. s[g] : x = <<g, i>>
      BY <3>1
    <3>3. i \in 1 .. t[g] \/ (g = 0 /\ i = n + 1)
      BY <2>1, <2>2
    <3> QED BY <3>2, <3>3, IsMember
  <2>4. /\ IsFiniteSet(Members(t) \cup {<<0, n + 1>>})
        /\ Cardinality(Members(t) \cup {<<0, n + 1>>}) <= Cardinality(Members(t)) + 1
    <3>1. IsFiniteSet(Members(t)) /\ Cardinality(Members(t)) \in Nat
      BY MembersFinite DEF Number
    <3>2. /\ IsFiniteSet(Members(t) \cup {<<0, n + 1>>})
          /\ \/ Cardinality(Members(t) \cup {<<0, n + 1>>}) = Cardinality(Members(t))
             \/ Cardinality(Members(t) \cup {<<0, n + 1>>}) = Cardinality(Members(t)) + 1
      BY <3>1, FS_AddElement
    <3> QED BY <3>1, <3>2
  <2>5. Cardinality(Members(s)) <= Cardinality(Members(t) \cup {<<0, n + 1>>})
    BY <2>3, <2>4, FS_Subset
  <2>6. Number(s) <= Number(t) + 1
    <3>1. Cardinality(Members(t) \cup {<<0, n + 1>>}) \in Nat
      BY <2>4, FS_CardinalityType
    <3> QED BY <2>4, <2>5, <3>1, MembersFinite DEF Number
  <2> QED BY <1>1, <1>2, <2>6
<1>4. CASE 0 \notin Ages
  <2>1. \A g \in Ages : s[g] = t[g]
    BY <1>2, <1>4 DEF OneMore
  <2>2. \A g \in Ages : s[g] <= t[g] /\ t[g] \in Nat
    BY <2>1 DEF Counts
  <2>3. Number(s) <= Number(t)
    BY <2>2, NumberMonotone
  <2> QED BY <1>1, <1>2, <2>3, MembersFinite
<1> QED BY <1>3, <1>4

LEMMA WithinType ==
  ASSUME NEW t \in Counts, NEW w \in Nat
  PROVE  /\ Within(t, w) \in Counts
         /\ \A g \in Ages : Within(t, w)[g] <= t[g] /\ (g < w => Within(t, w)[g] = t[g])
         /\ Within(Within(t, w), w) = Within(t, w)
<1>1. Within(t, w) \in Counts /\ \A g \in Ages : t[g] \in Nat
  BY DEF Within, Counts
<1>2. \A g \in Ages : Within(t, w)[g] <= t[g] /\ (g < w => Within(t, w)[g] = t[g])
  BY <1>1 DEF Within
<1>3. Within(Within(t, w), w) = Within(t, w)
  BY DEF Within
<1> QED BY <1>1, <1>2, <1>3

LEMMA OlderType ==
  ASSUME NEW t \in Counts
  PROVE  /\ Older(t) \in Counts
         /\ \A g \in Ages : g # 0 => g - 1 \in Ages /\ Older(t)[g] = t[g - 1]
         /\ 0 \in Ages => Older(t)[0] = 0
<1>1. ASSUME NEW g \in Ages, g # 0 PROVE g - 1 \in Ages
  BY <1>1, EngineAssumption DEF Ages, EngineAssumption
<1> QED BY <1>1 DEF Older, Counts

(* No token enters a window because time passes.                           *)
LEMMA NumberAges ==
  ASSUME NEW t \in Counts, NEW w \in Nat
  PROVE  Number(Within(Older(t), w)) <= Number(Within(t, w))
<1>1. PICK s : s = Within(Older(t), w)
  OBVIOUS
<1>2. PICK u : u = Within(t, w)
  OBVIOUS
<1>3. s \in Counts /\ u \in Counts
  BY <1>1, <1>2, OlderType, WithinType
<1>4. PICK younger : younger = [x \in Members(s) |-> <<x[1] - 1, x[2]>>]
  OBVIOUS
<1>5. ASSUME NEW x \in Members(s)
      PROVE  /\ younger[x] \in Members(u)
             /\ x[1] \in Ages /\ x = <<x[1], x[2]>> /\ younger[x] = <<x[1] - 1, x[2]>>
  <2>1. PICK g \in Ages : \E i \in 1 .. s[g] : x = <<g, i>>
    BY MembersArePairs
  <2>2. PICK i \in 1 .. s[g] : x = <<g, i>>
    BY <2>1
  <2>3. s[g] \in Nat /\ s[g] > 0
    BY <1>3, <2>2 DEF Counts
  <2>4. g < w /\ s[g] = Older(t)[g]
    BY <1>1, <2>3 DEF Within
  <2>5. g # 0
    BY <2>3, <2>4, OlderType
  <2>6. g - 1 \in Ages /\ s[g] = t[g - 1]
    BY <2>4, <2>5, OlderType
  <2>7. g - 1 < w
    BY <2>4 DEF Ages
  <2>8. u[g - 1] = s[g]
    BY <1>2, <2>6, <2>7 DEF Within
  <2>9. <<g - 1, i>> \in Members(u)
    BY <2>2, <2>6, <2>8, IsMember
  <2> QED BY <1>4, <2>2, <2>9
<1>6. younger \in Injection(Members(s), Members(u))
  <2>1. younger \in [Members(s) -> Members(u)]
    BY <1>4, <1>5
  <2>2. ASSUME NEW x \in Members(s), NEW y \in Members(s), younger[x] = younger[y] PROVE x = y
    <3>1. x[1] - 1 = y[1] - 1 /\ x[2] = y[2]
      BY <1>5, <2>2
    <3>2. x[1] = y[1]
      BY <1>5, <3>1 DEF Ages
    <3> QED BY <1>5, <3>1, <3>2
  <2> QED BY <2>1, <2>2 DEF Injection, IsInjective
<1> QED BY <1>1, <1>2, <1>3, <1>6, MembersFinite, FS_Injection DEF Number

LEMMA NoTokensNumber == NoTokens \in Counts /\ Number(NoTokens) = 0
<1>1. NoTokens \in Counts
  BY DEF NoTokens, Counts
<1>2. Members(NoTokens) = {}
  <2> SUFFICES ASSUME NEW x \in Members(NoTokens) PROVE FALSE
    OBVIOUS
  <2>1. PICK g \in Ages : \E i \in 1 .. NoTokens[g] : x = <<g, i>>
    BY MembersArePairs
  <2> QED BY <2>1 DEF NoTokens
<1> QED BY <1>1, <1>2, FS_EmptySet DEF Number

-----------------------------------------------------------------------------
(* The rate limits.  A tracker keeps the limits of the rule that needed it *)
(* first and outlives it, so what a rule is held to are the limits of one  *)
(* of the rules that use the same key; they are its own when all of those  *)
(* have its limits, whatever the rest of the files says.                   *)
Limited == {r \in Known : r.limit # Null}
KeysFor(r) == {LimitKey(r, a) : a \in Alerts}
KeysOf(id) == UNION {KeysFor(s) : s \in {q \in Limited : q.id = id}}

Agreed(r) ==
  \A q \in Limited : KeysFor(q) \cap KeysOf(r.id) # {} =>
    q.limit.max = r.limit.max /\ q.limit.win = r.limit.win

SharedLimit ==
  \A h \in DOMAIN admitted : \E q \in Limited : h[2] \in KeysFor(q) /\ KeepsLimit(h, q)

OwnLimit ==
  \A r \in loaded : r.limit # Null /\ Agreed(r) =>
    \A h \in DOMAIN admitted : h[1] = r.id => KeepsLimit(h, r)

(* A tracker has the limits of a rule, and holds no more in its window.    *)
Tracker == [max : Nat, win : Nat, tokens : Counts]
TrackerOK(k) ==
  /\ trackers[k] \in Tracker
  /\ \E r \in Limited : /\ k \in KeysFor(r)
                        /\ trackers[k].max = r.limit.max /\ trackers[k].win = r.limit.win
  /\ Number(Within(trackers[k].tokens, trackers[k].win)) <= trackers[k].max
TrackersOK == \A k \in DOMAIN trackers : TrackerOK(k)

(* What a rule was admitted under a key is among the tokens of the key, as *)
(* long as it is in the window.                                            *)
AdmittedOK ==
  \A h \in DOMAIN admitted :
    /\ admitted[h] \in Counts
    /\ \E r \in Limited : h[1] = r.id /\ h[2] \in KeysFor(r)
    /\ h[2] \in DOMAIN trackers
    /\ \A g \in Ages : g < trackers[h[2]].win => admitted[h][g] <= trackers[h[2]].tokens[g]

LimitsInv == AckInv /\ KnownOK /\ TrackersOK /\ AdmittedOK

LEMMA LimitsInvInit == ASSUME Init PROVE LimitsInv
<1>1. AckInv /\ KnownOK
  BY AckInvInit, KnownInit
<1> QED BY <1>1 DEF Init, TrackersOK, AdmittedOK, LimitsInv

LEMMA LimitsKept ==
  ASSUME LimitsInv, AckInv', KnownOK', UNCHANGED <<trackers, admitted>>
  PROVE  LimitsInv'
BY DEF LimitsInv, TrackersOK, TrackerOK, AdmittedOK, Number, Members

(* A rule over its limit, and one that takes a token.                      *)
LEMMA LimitsExecuteRule ==
  ASSUME LimitsInv, AckInv', KnownOK', NEW r \in cur.rules, ExecuteRule(r)
  PROVE  LimitsInv'
<1>1. CASE r.limit = Null
  BY <1>1, LimitsKept DEF ExecuteRule
<1>2. CASE r.limit # Null
  <2> DEFINE a == cur.alert
             k == LimitKey(r, cur.alert)
             t == TrackerFor(r, cur.alert)
  <2>1. r \in Limited /\ r.limit \in RateLimit /\ a \in Alerts /\ k \in KeysFor(r)
    BY <1>2, KnownTyped DEF ExecuteRule, LimitsInv, KnownOK, Limited, KeysFor
  <2>2. r.limit.max \in Nat /\ r.limit.win \in Nat
    BY <2>1 DEF RateLimit
  <2>3. /\ t \in Tracker
        /\ \E q \in Limited : k \in KeysFor(q) /\ t.max = q.limit.max /\ t.win = q.limit.win
    <3>1. CASE k \in DOMAIN trackers
      <4>1. t = trackers[k] /\ TrackerOK(k)
        BY <3>1 DEF TrackerFor, LimitsInv, TrackersOK
      <4> QED BY <4>1 DEF TrackerOK
    <3>2. CASE k \notin DOMAIN trackers
      <4>1. t = [max |-> r.limit.max, win |-> r.limit.win, tokens |-> NoTokens]
        BY <3>2 DEF TrackerFor
      <4> QED BY <2>1, <2>2, <4>1, NoTokensNumber DEF Tracker
    <3> QED BY <3>1, <3>2
  <2>4. k \in DOMAIN trackers => t = trackers[k]
    BY DEF TrackerFor
  <2>5. PICK w : w = Within(t.tokens, t.win)
    OBVIOUS
  <2>6. /\ w \in Counts /\ Within(w, t.win) = w
        /\ \A g \in Ages : g < t.win => w[g] = t.tokens[g]
        /\ Number(w) \in Nat
    BY <2>3, <2>5, WithinType, MembersFinite DEF Tracker
  <2>7. PICK key, old : key = k /\ old = t
    OBVIOUS
  <2> HIDE DEF k, t
  <2>8. ASSUME NEW s \in Tracker, s.max = old.max, s.win = old.win,
               \A g \in Ages : g < old.win => s.tokens[g] >= old.tokens[g],
               Number(Within(s.tokens, s.win)) <= s.max,
               trackers' = Put(trackers, key, s)
        PROVE  /\ TrackersOK'
               /\ DOMAIN trackers' = DOMAIN trackers \cup {key}
               /\ trackers'[key] = s
               /\ \A h \in DOMAIN admitted :
                    /\ h[2] \in DOMAIN trackers'
                    /\ \A g \in Ages : g < trackers'[h[2]].win =>
                         admitted[h][g] <= trackers'[h[2]].tokens[g]
    <3>1. DOMAIN trackers' = DOMAIN trackers \cup {key} /\ trackers'[key] = s
          /\ \A j \in DOMAIN trackers : j # key => trackers'[j] = trackers[j]
      BY <2>8 DEF Put
    <3>2. TrackerOK(key)'
      <4>1. \E q \in Limited : /\ key \in KeysFor(q)
                               /\ s.max = q.limit.max /\ s.win = q.limit.win
        BY <2>1, <2>3, <2>7, <2>8
      <4> QED BY <2>8, <3>1, <4>1 DEF TrackerOK, Number, Members
    <3>3. ASSUME NEW j \in DOMAIN trackers, j # key PROVE TrackerOK(j)'
      <4>1. TrackerOK(j) /\ trackers'[j] = trackers[j]
        BY <3>1, <3>3 DEF LimitsInv, TrackersOK
      <4> QED BY <4>1 DEF TrackerOK, Number, Members
    <3>4. TrackersOK'
      BY <3>1, <3>2, <3>3 DEF TrackersOK
    <3>5. ASSUME NEW h \in DOMAIN admitted
          PROVE  /\ h[2] \in DOMAIN trackers'
                 /\ \A g \in Ages : g < trackers'[h[2]].win =>
                      admitted[h][g] <= trackers'[h[2]].tokens[g]
      <4>1. /\ h[2] \in DOMAIN trackers /\ admitted[h] \in Counts
            /\ \A g \in Ages : g < trackers[h[2]].win => admitted[h][g] <= trackers[h[2]].tokens[g]
        BY DEF LimitsInv, AdmittedOK
      <4>2. CASE h[2] = key
        <5>1. old = trackers[key] /\ old \in Tracker
          BY <2>3, <2>4, <2>7, <4>1, <4>2
        <5>2. \A g \in Ages : admitted[h][g] \in Nat /\ s.tokens[g] \in Nat /\ old.tokens[g] \in Nat
          BY <4>1, <5>1 DEF Counts, Tracker
        <5> QED BY <2>8, <3>1, <4>1, <4>2, <5>1, <5>2
      <4>3. CASE h[2] # key
        BY <3>1, <4>1, <4>3
      <4> QED BY <4>2, <4>3
    <3> QED BY <3>1, <3>4, <3>5
  <2>9. CASE ~Allows(t)
    <3>1. PICK s : s = [old EXCEPT !.tokens = w]
      OBVIOUS
    <3>2. s \in Tracker /\ s.max = old.max /\ s.win = old.win /\ s.tokens = w
      BY <2>3, <2>6, <2>7, <3>1 DEF Tracker
    <3>3. trackers' = Put(trackers, key, s) /\ admitted' = admitted
      <4>1. trackers' = Put(trackers, k, [t EXCEPT !.tokens = Within(@, t.win)]) /\ admitted' = admitted
        BY <1>2, <2>9 DEF ExecuteRule, k, t
      <4>2. [t EXCEPT !.tokens = Within(@, t.win)] = s
        BY <2>3, <2>5, <2>7, <3>1 DEF Tracker
      <4> QED BY <2>7, <4>1, <4>2
    <3>4. Number(Within(s.tokens, s.win)) <= s.max
      <4>1. CASE k \in DOMAIN trackers
        <5>1. TrackerOK(key) /\ trackers[key] = old
          BY <2>4, <2>7, <4>1 DEF LimitsInv, TrackersOK
        <5> QED BY <2>5, <2>6, <2>7, <3>2, <5>1 DEF TrackerOK
      <4>2. CASE k \notin DOMAIN trackers
        <5>1. t.tokens = NoTokens
          BY <4>2 DEF TrackerFor, k, t
        <5>2. w = NoTokens
          BY <2>5, <5>1 DEF NoTokens, Within
        <5> QED BY <2>3, <2>6, <2>7, <3>2, <5>2, NoTokensNumber DEF Tracker
      <4> QED BY <4>1, <4>2
    <3>5. \A g \in Ages : g < old.win => s.tokens[g] >= old.tokens[g]
      BY <2>6, <2>7, <3>2 DEF Counts
    <3>6. TrackersOK' /\ AdmittedOK'
      <4>1. /\ TrackersOK'
            /\ \A h \in DOMAIN admitted :
                 /\ h[2] \in DOMAIN trackers'
                 /\ \A g \in Ages : g < trackers'[h[2]].win =>
                      admitted[h][g] <= trackers'[h[2]].tokens[g]
        BY <2>8, <3>2, <3>3, <3>4, <3>5
      <4> QED BY <3>3, <4>1 DEF LimitsInv, AdmittedOK
    <3> QED BY <3>6 DEF LimitsInv
  <2>10. CASE Allows(t)
    <3>1. PICK s : s = [old EXCEPT !.tokens = OneMore(w)]
      OBVIOUS
    <3>2. s \in Tracker /\ s.max = old.max /\ s.win = old.win /\ s.tokens = OneMore(w)
      BY <2>3, <2>6, <2>7, <3>1, NumberOneMore DEF Tracker
    <3>3. PICK h : h = <<r.id, key>>
      OBVIOUS
    <3>4. PICK had : had = IF h \in DOMAIN admitted THEN admitted[h] ELSE NoTokens
      OBVIOUS
    <3>5. trackers' = Put(trackers, key, s) /\ admitted' = Put(admitted, h, OneMore(had))
      <4>1. /\ trackers' = Put(trackers, k, [t EXCEPT !.tokens = OneMore(Within(@, t.win))])
            /\ admitted' = Put(admitted, <<r.id, k>>,
                 OneMore(IF <<r.id, k>> \in DOMAIN admitted THEN admitted[<<r.id, k>>] ELSE NoTokens))
        BY <1>2, <2>10 DEF ExecuteRule, k, t
      <4>2. [t EXCEPT !.tokens = OneMore(Within(@, t.win))] = s
        BY <2>3, <2>5, <2>7, <3>1 DEF Tracker
      <4> QED BY <2>7, <3>3, <3>4, <4>1, <4>2
    <3>6. Number(Within(s.tokens, s.win)) <= s.max
      <4>1. OneMore(w) \in Counts /\ Number(OneMore(w)) <= Number(w) + 1 /\ Number(OneMore(w)) \in Nat
        BY <2>6, NumberOneMore, MembersFinite
      <4>2. Within(OneMore(w), s.win) \in Counts
            /\ Number(Within(OneMore(w), s.win)) <= Number(OneMore(w))
            /\ Number(Within(OneMore(w), s.win)) \in Nat
        <5>1. s.win \in Nat
          BY <3>2 DEF Tracker
        <5> QED BY <4>1, <5>1, WithinType, NumberMonotone, MembersFinite
      <4>3. Number(w) < s.max /\ s.max \in Nat
        BY <2>5, <2>7, <2>10, <3>2 DEF Allows, Tracker
      <4> QED BY <2>6, <3>2, <4>1, <4>2, <4>3
    <3>7. \A g \in Ages : g < old.win => s.tokens[g] >= old.tokens[g]
      <4>1. \A g \in Ages : g < old.win => w[g] = old.tokens[g] /\ w[g] \in Nat
        BY <2>6, <2>7 DEF Counts
      <4> QED BY <3>2, <4>1 DEF OneMore
    <3>8. /\ TrackersOK' /\ DOMAIN trackers' = DOMAIN trackers \cup {key} /\ trackers'[key] = s
          /\ \A i \in DOMAIN admitted :
               /\ i[2] \in DOMAIN trackers'
               /\ \A g \in Ages : g < trackers'[i[2]].win =>
                    admitted[i][g] <= trackers'[i[2]].tokens[g]
      BY <2>8, <3>2, <3>5, <3>6, <3>7
    <3>9. DOMAIN admitted' = DOMAIN admitted \cup {h} /\ admitted'[h] = OneMore(had)
          /\ \A i \in DOMAIN admitted : i # h => admitted'[i] = admitted[i]
      BY <3>5 DEF Put
    <3>10. had \in Counts /\ \A g \in Ages : g < old.win => had[g] <= old.tokens[g]
      <4>0. h[2] = key /\ old \in Tracker
        BY <2>3, <2>7, <3>3
      <4>1. CASE h \in DOMAIN admitted
        <5>1. /\ key \in DOMAIN trackers /\ admitted[h] \in Counts
              /\ \A g \in Ages : g < trackers[key].win => admitted[h][g] <= trackers[key].tokens[g]
          BY <4>0, <4>1 DEF LimitsInv, AdmittedOK
        <5>2. trackers[key] = old
          BY <2>4, <2>7, <5>1
        <5> QED BY <3>4, <4>1, <5>1, <5>2
      <4>2. CASE h \notin DOMAIN admitted
        <5>1. had = NoTokens
          BY <3>4, <4>2
        <5>2. \A g \in Ages : had[g] = 0 /\ old.tokens[g] \in Nat
          BY <4>0, <5>1 DEF NoTokens, Tracker, Counts
        <5> QED BY <5>1, <5>2, NoTokensNumber
      <4> QED BY <4>1, <4>2
    <3>11. OneMore(had) \in Counts /\ \A g \in Ages : g < s.win => OneMore(had)[g] <= s.tokens[g]
      <4>1. OneMore(had) \in Counts
        BY <3>10, NumberOneMore
      <4>2. \A g \in Ages : g < old.win => had[g] <= w[g] /\ had[g] \in Nat /\ w[g] \in Nat
        BY <2>6, <2>7, <3>10 DEF Counts
      <4>3. \A g \in Ages : g < old.win => OneMore(had)[g] <= OneMore(w)[g]
        BY <4>2 DEF OneMore
      <4> QED BY <3>2, <4>1, <4>3
    <3>12. AdmittedOK'
      <4> SUFFICES ASSUME NEW i \in DOMAIN admitted'
                   PROVE  /\ admitted'[i] \in Counts
                          /\ \E q \in Limited : i[1] = q.id /\ i[2] \in KeysFor(q)
                          /\ i[2] \in DOMAIN trackers'
                          /\ \A g \in Ages : g < trackers'[i[2]].win =>
                               admitted'[i][g] <= trackers'[i[2]].tokens[g]
        BY DEF AdmittedOK
      <4>1. CASE i = h
        <5>1. h[1] = r.id /\ h[2] = key
          BY <3>3
        <5> QED BY <2>1, <2>7, <3>8, <3>9, <3>11, <4>1, <5>1
      <4>2. CASE i # h
        BY <3>8, <3>9, <4>2 DEF LimitsInv, AdmittedOK
      <4> QED BY <4>1, <4>2
    <3> QED BY <3>8, <3>12 DEF LimitsInv
  <2> QED BY <2>9, <2>10
<1> QED BY <1>1, <1>2

LEMMA LimitsTick == ASSUME LimitsInv, AckInv', KnownOK', Tick PROVE LimitsInv'
<1>1. ASSUME NEW k \in DOMAIN trackers
      PROVE  /\ trackers'[k] \in Tracker /\ trackers'[k].max = trackers[k].max
             /\ trackers'[k].win = trackers[k].win
             /\ trackers'[k].tokens = Older(trackers[k].tokens)
             /\ trackers[k] \in Tracker
  <2>1. trackers[k] \in Tracker
    BY DEF LimitsInv, TrackersOK, TrackerOK
  <2>2. PICK older : older = Older(trackers[k].tokens)
    OBVIOUS
  <2>3. older \in Counts
    BY <2>1, <2>2, OlderType DEF Tracker
  <2>4. trackers'[k] = [trackers[k] EXCEPT !.tokens = older]
    BY <2>1, <2>2 DEF Tick, Tracker
  <2> QED BY <2>1, <2>2, <2>3, <2>4 DEF Tracker
<1>2. DOMAIN trackers' = DOMAIN trackers
  BY DEF Tick
<1>3. TrackersOK'
  <2> SUFFICES ASSUME NEW k \in DOMAIN trackers
               PROVE  /\ trackers'[k] \in Tracker
                      /\ \E r \in Limited : /\ k \in KeysFor(r) /\ trackers'[k].max = r.limit.max
                                            /\ trackers'[k].win = r.limit.win
                      /\ Number(Within(trackers'[k].tokens, trackers'[k].win)) <= trackers'[k].max
    BY <1>2 DEF TrackersOK, TrackerOK, Number, Members
  <2>1. \E r \in Limited : /\ k \in KeysFor(r) /\ trackers'[k].max = r.limit.max
                           /\ trackers'[k].win = r.limit.win
    BY <1>1 DEF LimitsInv, TrackersOK, TrackerOK
  <2>2. PICK t, w, m : t = trackers[k].tokens /\ w = trackers[k].win /\ m = trackers[k].max
    OBVIOUS
  <2>3. t \in Counts /\ w \in Nat /\ m \in Nat
    BY <1>1, <2>2 DEF Tracker
  <2>4. Number(Within(t, w)) <= m
    BY <2>2 DEF LimitsInv, TrackersOK, TrackerOK
  <2>5. Number(Within(Older(t), w)) <= Number(Within(t, w))
    BY <2>3, NumberAges
  <2>6. Number(Within(Older(t), w)) \in Nat /\ Number(Within(t, w)) \in Nat
    BY <2>3, OlderType, WithinType, MembersFinite
  <2>7. Number(Within(Older(t), w)) <= m
    BY <2>3, <2>4, <2>5, <2>6
  <2> QED BY <1>1, <2>1, <2>2, <2>7
<1>4. DOMAIN admitted' = DOMAIN admitted /\ \A h \in DOMAIN admitted : admitted'[h] = Older(admitted[h])
  BY DEF Tick
<1>5. AdmittedOK'
  <2> SUFFICES ASSUME NEW h \in DOMAIN admitted
               PROVE  /\ admitted'[h] \in Counts
                      /\ \E r \in Limited : h[1] = r.id /\ h[2] \in KeysFor(r)
                      /\ h[2] \in DOMAIN trackers'
                      /\ \A g \in Ages : g < trackers'[h[2]].win =>
                           admitted'[h][g] <= trackers'[h[2]].tokens[g]
    BY <1>4 DEF AdmittedOK
  <2>1. /\ admitted[h] \in Counts /\ h[2] \in DOMAIN trackers
        /\ \E r \in Limited : h[1] = r.id /\ h[2] \in KeysFor(r)
        /\ \A g \in Ages : g < trackers[h[2]].win => admitted[h][g] <= trackers[h[2]].tokens[g]
    BY DEF LimitsInv, AdmittedOK
  <2>2. PICK t, w : t = trackers[h[2]].tokens /\ w = trackers[h[2]].win
    OBVIOUS
  <2>3. t \in Counts /\ w \in Nat /\ trackers'[h[2]].tokens = Older(t) /\ trackers'[h[2]].win = w
    BY <1>1, <2>1, <2>2 DEF Tracker
  <2>4. PICK f : f = admitted[h]
    OBVIOUS
  <2>5. ASSUME NEW g \in Ages, g < w PROVE Older(f)[g] <= Older(t)[g]
    <3>1. CASE g = 0
      BY <2>1, <2>3, <2>4, <3>1, OlderType
    <3>2. CASE g # 0
      <4>1. g - 1 \in Ages /\ Older(f)[g] = f[g - 1] /\ Older(t)[g] = t[g - 1]
        BY <2>1, <2>3, <2>4, <3>2, OlderType
      <4>2. g - 1 < w
        BY <2>3, <2>5 DEF Ages
      <4> QED BY <2>1, <2>2, <2>4, <4>1, <4>2
    <3> QED BY <3>1, <3>2
  <2>6. Older(f) \in Counts
    BY <2>1, <2>4, OlderType
  <2> QED BY <1>2, <1>4, <2>1, <2>3, <2>4, <2>5, <2>6
<1> QED BY <1>3, <1>5 DEF LimitsInv

(* Every step keeps the trackers and what they admitted.                   *)
THEOREM LimitsInvStep == LimitsInv /\ [Next]_rvars => LimitsInv'
<1> SUFFICES ASSUME LimitsInv, [Next]_rvars PROVE LimitsInv'
  OBVIOUS
<1>0. AckInv' /\ KnownOK'
  BY AckInvStep, KnownStep DEF LimitsInv
<1>1. ASSUME UNCHANGED <<trackers, admitted>> PROVE LimitsInv'
  BY <1>0, <1>1, LimitsKept
<1>2. ASSUME NEW r \in cur.rules, ExecuteRule(r) PROVE LimitsInv'
  BY <1>0, <1>2, LimitsExecuteRule
<1>3. CASE Tick
  BY <1>0, <1>3, LimitsTick
<1>4. CASE CheckAll \/ RuleDone \/ (\E ok \in BOOLEAN : Attempt(ok))
  BY <1>1, <1>4 DEF CheckAll, RuleDone, Attempt, NoHistory, history, engine
<1>5. ASSUME NEW a \in Alerts, Process(a) \/ ProcessEscalations(a) \/ EscalationDone(a) PROVE LimitsInv'
  BY <1>1, <1>5 DEF Process, ProcessEscalations, EscalationDone, NoHistory, history, engine
<1>6. ASSUME NEW f \in Files, LoadRules(f) PROVE LimitsInv'
  BY <1>1, <1>6 DEF LoadRules, NoHistory, history, engine
<1>7. ASSUME NEW a \in Alerts, Acknowledge(a) \/ Recover(a) PROVE LimitsInv'
  BY <1>1, <1>7 DEF Acknowledge, Recover, NoHistory, history, engine
<1>8. CASE UNCHANGED rvars
  BY <1>1, <1>8 DEF rvars, history, engine
<1> QED BY <1>2, <1>3, <1>4, <1>5, <1>6, <1>7, <1>8 DEF Next, Loop

(* Per scope, a rule runs at most max_notifications times in a window      *)
(* (checkRateLimit, Allow), whatever other rules run, however long actions *)
(* take and whenever the rules are loaded again.  Whatever the files say,  *)
(* the limit is that of one of the rules that use the key; it is the       *)
(* rule's own as soon as those rules all have the same.                    *)
THEOREM RateKept == Spec => [](SharedLimit /\ OwnLimit)
<1>1. ASSUME LimitsInv, NEW h \in DOMAIN admitted, NEW p \in Limited,
             trackers[h[2]].max = p.limit.max, trackers[h[2]].win = p.limit.win
      PROVE  KeepsLimit(h, p)
  <2>1. PICK k, w, t, f : k = h[2] /\ w = p.limit.win /\ t = trackers[k].tokens /\ f = admitted[h]
    OBVIOUS
  <2>2. k \in DOMAIN trackers /\ TrackerOK(k)
    BY <1>1, <2>1 DEF LimitsInv, AdmittedOK, TrackersOK
  <2>3. trackers[k].win = w /\ trackers[k].max = p.limit.max /\ w \in Nat /\ p.limit.max \in Nat
        /\ t \in Counts /\ f \in Counts
    BY <1>1, <2>1, <2>2 DEF TrackerOK, Tracker, LimitsInv, AdmittedOK
  <2>4. \A g \in Ages : g < w => f[g] <= t[g]
    BY <1>1, <2>1, <2>3 DEF LimitsInv, AdmittedOK
  <2>5. \A g \in Ages : Within(f, w)[g] <= Within(t, w)[g]
    BY <2>3, <2>4 DEF Within, Counts
  <2>6. Number(Within(f, w)) <= Number(Within(t, w))
    BY <2>3, <2>5, WithinType, NumberMonotone
  <2>7. Number(Within(t, w)) <= p.limit.max
    BY <2>1, <2>2, <2>3 DEF TrackerOK
  <2>8. Number(Within(f, w)) \in Nat /\ Number(Within(t, w)) \in Nat
    BY <2>3, WithinType, MembersFinite
  <2>9. Number(Within(f, w)) <= p.limit.max
    BY <2>3, <2>6, <2>7, <2>8
  <2> QED BY <2>1, <2>9 DEF KeepsLimit
<1>2. ASSUME LimitsInv, NEW h \in DOMAIN admitted
      PROVE  \E p \in Limited : /\ h[2] \in KeysFor(p)
                               /\ trackers[h[2]].max = p.limit.max /\ trackers[h[2]].win = p.limit.win
  BY <1>2 DEF LimitsInv, AdmittedOK, TrackersOK, TrackerOK
<1>3. LimitsInv => SharedLimit
  BY <1>1, <1>2 DEF SharedLimit
<1>4. LimitsInv => OwnLimit
  <2> SUFFICES ASSUME LimitsInv, NEW r \in loaded, r.limit # Null, Agreed(r),
                      NEW h \in DOMAIN admitted, h[1] = r.id
               PROVE  KeepsLimit(h, r)
    BY DEF OwnLimit
  <2>1. r \in Limited
    BY DEF LimitsInv, KnownOK, Limited
  <2>2. PICK q \in Limited : r.id = q.id /\ h[2] \in KeysFor(q)
    BY DEF LimitsInv, AdmittedOK
  <2>3. PICK p \in Limited : /\ h[2] \in KeysFor(p)
                             /\ trackers[h[2]].max = p.limit.max /\ trackers[h[2]].win = p.limit.win
    BY <1>2
  <2>4. h[2] \in KeysOf(r.id)
    BY <2>2 DEF KeysOf
  <2>5. p.limit.max = r.limit.max /\ p.limit.win = r.limit.win
    BY <2>3, <2>4 DEF Agreed
  <2> QED BY <1>1, <2>1, <2>3, <2>5
<1>5. LimitsInv /\ [Next]_rvars => LimitsInv'
  BY LimitsInvStep
<1> QED BY <1>3, <1>4, <1>5, LimitsInvInit, PTL DEF Spec

-----------------------------------------------------------------------------
(* The types.  A tracker holds no more tokens than its maximum at all, not *)
(* only in its window, since old ones are dropped before one is added.     *)
TokensOK ==
  \A k \in DOMAIN trackers :
    trackers[k] \in Tracker /\ Number(trackers[k].tokens) <= trackers[k].max

Span == 0 .. MaxAge
Standing == pc = "escalating" => cur.alert \in DOMAIN escalations
AgesOK ==
  /\ Standing /\ cur.since \in Span
  /\ \A a \in DOMAIN escalations :
       /\ a \in Alerts /\ DOMAIN escalations[a] = State
       /\ escalations[a].first \in Span /\ escalations[a].last \in Span

PlacesOK ==
  /\ file \in Files /\ loaded = Parsed(file)
  /\ acked \subseteq Alerts /\ reported \subseteq Alerts /\ told \subseteq Alerts
  /\ pc \in {"idle", "rule", "act", "escalating"}
  /\ cur.alert \in Alerts \cup {Null} /\ cur.try \in 0 .. Retries

TypesInv == AckInv /\ KnownOK /\ TokensOK /\ AgesOK /\ PlacesOK

LEMMA NumberOlder ==
  ASSUME NEW t \in Counts
  PROVE  Older(t) \in Counts /\ Number(Older(t)) <= Number(t)
<1>1. Older(t) \in Counts /\ MaxAge \in Nat
  BY OlderType, EngineAssumption DEF EngineAssumption
<1>2. ASSUME NEW s \in Counts PROVE Within(s, MaxAge) = s
  <2>1. \A g \in Ages : g < MaxAge
    BY <1>1 DEF Ages
  <2>2. \A g \in Ages : Within(s, MaxAge)[g] = s[g]
    BY <2>1 DEF Within
  <2>3. Within(s, MaxAge) \in Counts
    BY <1>1, WithinType
  <2> QED BY <2>2, <2>3 DEF Counts
<1>3. Within(Older(t), MaxAge) = Older(t) /\ Within(t, MaxAge) = t
  BY <1>1, <1>2
<1>4. Number(Within(Older(t), MaxAge)) <= Number(Within(t, MaxAge))
  BY <1>1, NumberAges
<1> QED BY <1>1, <1>3, <1>4

LEMMA TokensExecuteRule ==
  ASSUME TypesInv, NEW r \in cur.rules, r.limit # Null, ExecuteRule(r)
  PROVE  TokensOK'
<1> DEFINE k == LimitKey(r, cur.alert)
           t == TrackerFor(r, cur.alert)
<1>1. r.limit \in RateLimit
  BY KnownTyped DEF TypesInv, KnownOK
<1>2. t \in Tracker /\ Number(t.tokens) <= t.max
  <2>1. CASE k \in DOMAIN trackers
    BY <2>1 DEF TrackerFor, TypesInv, TokensOK
  <2>2. CASE k \notin DOMAIN trackers
    <3>1. t = [max |-> r.limit.max, win |-> r.limit.win, tokens |-> NoTokens]
      BY <2>2 DEF TrackerFor
    <3>2. r.limit.max \in Nat /\ r.limit.win \in Nat
      BY <1>1 DEF RateLimit
    <3> QED BY <3>1, <3>2, NoTokensNumber DEF Tracker
  <2> QED BY <2>1, <2>2
<1>3. PICK w : w = Within(t.tokens, t.win)
  OBVIOUS
<1>4. /\ w \in Counts /\ Number(w) \in Nat /\ Number(w) <= t.max /\ t.max \in Nat
      /\ OneMore(w) \in Counts /\ Number(OneMore(w)) \in Nat
      /\ Number(OneMore(w)) <= Number(w) + 1
  <2>1. t.tokens \in Counts /\ t.win \in Nat /\ t.max \in Nat
    BY <1>2 DEF Tracker
  <2>2. w \in Counts /\ \A g \in Ages : w[g] <= t.tokens[g]
    BY <1>3, <2>1, WithinType
  <2>3. Number(w) <= Number(t.tokens) /\ Number(w) \in Nat /\ Number(t.tokens) \in Nat
    BY <2>1, <2>2, NumberMonotone, MembersFinite
  <2>4. OneMore(w) \in Counts /\ Number(OneMore(w)) <= Number(w) + 1
    BY <2>2, NumberOneMore
  <2>5. Number(OneMore(w)) \in Nat
    BY <2>4, MembersFinite
  <2> QED BY <1>2, <2>1, <2>2, <2>3, <2>4, <2>5
<1>5. Allows(t) => Number(OneMore(w)) <= t.max
  <2>1. Allows(t) => Number(w) < t.max
    BY <1>3 DEF Allows
  <2> QED BY <1>4, <2>1
<1>6. PICK c : c = IF Allows(t) THEN OneMore(w) ELSE w
  OBVIOUS
<1>7. c \in Counts /\ Number(c) <= t.max
  BY <1>4, <1>5, <1>6
<1>8. PICK s : s = [t EXCEPT !.tokens = c]
  OBVIOUS
<1>9. s \in Tracker /\ Number(s.tokens) <= s.max
  BY <1>2, <1>7, <1>8 DEF Tracker
<1>10. trackers' = Put(trackers, k, s)
  <2>1. trackers' = IF Allows(t) THEN Put(trackers, k, [t EXCEPT !.tokens = OneMore(Within(@, t.win))])
                    ELSE Put(trackers, k, [t EXCEPT !.tokens = Within(@, t.win)])
    BY DEF ExecuteRule
  <2>2. /\ Allows(t) => [t EXCEPT !.tokens = OneMore(Within(@, t.win))] = s
        /\ ~Allows(t) => [t EXCEPT !.tokens = Within(@, t.win)] = s
    BY <1>2, <1>3, <1>6, <1>8 DEF Tracker
  <2> QED BY <2>1, <2>2
<1> HIDE DEF k, t
<1>11. DOMAIN trackers' = DOMAIN trackers \cup {k} /\ trackers'[k] = s
       /\ \A j \in DOMAIN trackers : j # k => trackers'[j] = trackers[j]
  BY <1>10 DEF Put
<1> QED BY <1>9, <1>11 DEF TypesInv, TokensOK, Number, Members

LEMMA TokensTick == ASSUME TypesInv, Tick PROVE TokensOK'
<1> SUFFICES ASSUME NEW k \in DOMAIN trackers
             PROVE  trackers'[k] \in Tracker /\ Number(trackers'[k].tokens) <= trackers'[k].max
  BY DEF Tick, TokensOK, Number, Members
<1>1. PICK t \in Tracker : t = trackers[k] /\ Number(t.tokens) <= t.max
  BY DEF TypesInv, TokensOK
<1>2. PICK older : older = Older(t.tokens)
  OBVIOUS
<1>3. t.tokens \in Counts /\ t.max \in Nat
  BY DEF Tracker
<1>4. older \in Counts /\ Number(older) <= Number(t.tokens)
  BY <1>2, <1>3, NumberOlder
<1>5. Number(older) \in Nat /\ Number(t.tokens) \in Nat
  BY <1>3, <1>4, MembersFinite
<1>6. trackers'[k] = [t EXCEPT !.tokens = older]
  BY <1>1, <1>2 DEF Tick, Tracker
<1>7. trackers'[k] \in Tracker /\ trackers'[k].tokens = older /\ trackers'[k].max = t.max
  BY <1>4, <1>6 DEF Tracker
<1> QED BY <1>1, <1>3, <1>4, <1>5, <1>7

LEMMA TokensStep == ASSUME TypesInv, [Next]_rvars PROVE TokensOK'
<1>1. ASSUME UNCHANGED trackers PROVE TokensOK'
  BY <1>1 DEF TypesInv, TokensOK, Number, Members
<1>2. ASSUME NEW r \in cur.rules, ExecuteRule(r) PROVE TokensOK'
  <2>1. CASE r.limit = Null
    BY <1>1, <1>2, <2>1 DEF ExecuteRule
  <2> QED BY <1>2, <2>1, TokensExecuteRule
<1>3. CASE CheckAll \/ RuleDone \/ (\E ok \in BOOLEAN : Attempt(ok))
  BY <1>1, <1>3 DEF CheckAll, RuleDone, Attempt, engine
<1>4. ASSUME NEW a \in Alerts, Process(a) \/ ProcessEscalations(a) \/ EscalationDone(a) PROVE TokensOK'
  BY <1>1, <1>4 DEF Process, ProcessEscalations, EscalationDone, engine
<1>5. ASSUME NEW f \in Files, LoadRules(f) PROVE TokensOK'
  BY <1>1, <1>5 DEF LoadRules, engine
<1>6. ASSUME NEW a \in Alerts, Acknowledge(a) \/ Recover(a) PROVE TokensOK'
  BY <1>1, <1>6 DEF Acknowledge, Recover, engine
<1>7. CASE UNCHANGED rvars
  BY <1>1, <1>7 DEF rvars, engine
<1> QED BY <1>2, <1>3, <1>4, <1>5, <1>6, <1>7, TokensTick DEF Next, Loop

(* What each step makes of the local variables.                            *)
LEMMA CurStep ==
  ASSUME TypesInv, [Next]_rvars
  PROVE  /\ cur'.alert \in Alerts \cup {Null} /\ cur'.try \in 0 .. Retries
         /\ cur'.since \in Span
         /\ pc' \in {"idle", "rule", "act", "escalating"}
         /\ pc' = "escalating" /\ pc # "escalating" =>
              \E a \in Alerts : ProcessEscalations(a) /\ cur'.alert = a /\ a \in DOMAIN escalations
                                /\ escalations' = escalations
         /\ pc' = "escalating" /\ pc = "escalating" => cur'.alert = cur.alert
<1> DEFINE Goal == /\ cur'.alert \in Alerts \cup {Null} /\ cur'.try \in 0 .. Retries
                   /\ cur'.since \in Span
<1>0. /\ DOMAIN cur = Work /\ cur.alert \in Alerts \cup {Null} /\ cur.try \in 0 .. Retries
      /\ cur.since \in Span /\ pc \in {"idle", "rule", "act", "escalating"}
      /\ Retries \in Nat /\ MaxAge \in Nat
  BY EngineAssumption DEF EngineAssumption, TypesInv, AckInv, CurOK, AgesOK, PlacesOK
<1>1. ASSUME cur' = NoWork PROVE Goal
  BY <1>0, <1>1 DEF NoWork, Span
<1>2. ASSUME UNCHANGED <<pc, cur>> PROVE Goal /\ pc' = pc /\ cur'.alert = cur.alert
  BY <1>0, <1>2
<1>3. ASSUME NEW r \in cur.rules, ExecuteRule(r) PROVE Goal /\ pc' \in {"rule", "act"}
  <2>1. PICK rest, acts : rest = cur.rules \ {r} /\ acts = SelectSeq(r.actions, LAMBDA on : on)
    OBVIOUS
  <2>2. \/ cur' = [cur EXCEPT !.rules = rest] /\ pc' = pc
        \/ cur' = [cur EXCEPT !.rules = rest, !.rule = r, !.acts = acts] /\ pc' = "act"
    BY <1>3, <2>1 DEF ExecuteRule
  <2>3. pc = "rule"
    BY <1>3 DEF ExecuteRule
  <2> QED BY <1>0, <2>2, <2>3 DEF Work
<1>4. ASSUME NEW ok \in BOOLEAN, Attempt(ok) PROVE Goal /\ pc' = pc /\ cur'.alert = cur.alert
  <2>1. PICK t, h, n : t = Tail(cur.acts) /\ h = (cur.heard \/ ok) /\ n = cur.try + 1
    OBVIOUS
  <2>2. /\ pc' = pc
        /\ \/ cur' = [cur EXCEPT !.acts = t, !.try = 0, !.heard = h]
           \/ cur.try # Retries /\ cur' = [cur EXCEPT !.try = n]
    BY <1>4, <2>1 DEF Attempt
  <2>3. cur.try # Retries => n \in 0 .. Retries
    BY <1>0, <2>1
  <2>4. CASE cur' = [cur EXCEPT !.acts = t, !.try = 0, !.heard = h]
    <3>1. /\ cur'.alert = cur.alert /\ cur'.try = 0 /\ cur'.since = cur.since
      BY <1>0, <2>4 DEF Work
    <3> QED BY <1>0, <2>2, <3>1
  <2>5. CASE cur.try # Retries /\ cur' = [cur EXCEPT !.try = n]
    <3>1. /\ cur'.alert = cur.alert /\ cur'.try = n /\ cur'.since = cur.since
      BY <1>0, <2>5 DEF Work
    <3> QED BY <1>0, <2>2, <2>3, <2>5, <3>1
  <2> QED BY <2>2, <2>4, <2>5
<1>5. ASSUME RuleDone PROVE Goal /\ pc' = "rule"
  BY <1>0, <1>5 DEF RuleDone, Work
<1>6. ASSUME NEW a \in Alerts, Process(a) PROVE Goal /\ pc' \in {"idle", "rule"}
  <2>1. \/ UNCHANGED <<pc, cur>>
        \/ /\ pc' = "rule"
           /\ \E rules : cur' = [NoWork EXCEPT !.alert = a, !.acked = a \in acked, !.rules = rules]
    BY <1>6 DEF Process
  <2>2. ASSUME NEW rules, cur' = [NoWork EXCEPT !.alert = a, !.acked = a \in acked, !.rules = rules]
        PROVE  Goal
    BY <1>0, <2>2 DEF NoWork, Span
  <2>3. pc = "idle"
    BY <1>6 DEF Process
  <2> QED BY <1>2, <2>1, <2>2, <2>3
<1>7. ASSUME NEW a \in Alerts, ProcessEscalations(a)
      PROVE  /\ Goal /\ pc' \in {"idle", "escalating"}
             /\ pc' = "escalating" =>
                  cur'.alert = a /\ a \in DOMAIN escalations /\ escalations' = escalations
  <2>1. a = cur.alert
    BY <1>7 DEF ProcessEscalations
  <2>2. \/ Idle
        \/ /\ pc' = "escalating" /\ a \in DOMAIN escalations /\ escalations' = escalations
           /\ \E to : cur' = [cur EXCEPT !.acts = to]
    BY <1>7 DEF ProcessEscalations
  <2>3. ASSUME NEW to, cur' = [cur EXCEPT !.acts = to] PROVE Goal /\ cur'.alert = a
    BY <1>0, <2>1, <2>3 DEF Work
  <2> QED BY <1>1, <2>2, <2>3 DEF Idle
<1>8. ASSUME NEW a \in Alerts, EscalationDone(a) PROVE Goal /\ pc' = "idle"
  BY <1>1, <1>8 DEF EscalationDone, Idle
<1>9. ASSUME Tick PROVE Goal /\ pc' = pc /\ cur'.alert = cur.alert
  <2>1. PICK n : n = Capped(cur.since + 1)
    OBVIOUS
  <2>2. n \in Span
    BY <1>0, <2>1 DEF Capped, Span
  <2>3. pc' = pc /\ (cur' = cur \/ cur' = [cur EXCEPT !.since = n])
    BY <1>9, <2>1 DEF Tick
  <2> QED BY <1>0, <2>2, <2>3 DEF Work
<1>10. ASSUME \/ CheckAll \/ UNCHANGED rvars
              \/ \E f \in Files : LoadRules(f)
              \/ \E a \in Alerts : Acknowledge(a) \/ Recover(a)
       PROVE  UNCHANGED <<pc, cur>>
  BY <1>10 DEF CheckAll, rvars, LoadRules, Acknowledge, Recover
<1> HIDE DEF Goal
<1>11. ASSUME \/ Tick \/ \E ok \in BOOLEAN : Attempt(ok)
              \/ CheckAll \/ UNCHANGED rvars
              \/ \E f \in Files : LoadRules(f)
              \/ \E a \in Alerts : Acknowledge(a) \/ Recover(a)
       PROVE  Goal /\ pc' = pc /\ cur'.alert = cur.alert
  BY <1>2, <1>4, <1>9, <1>10, <1>11
<1>12. ASSUME \/ RuleDone \/ \E r \in cur.rules : ExecuteRule(r)
              \/ \E a \in Alerts : Process(a) \/ EscalationDone(a)
       PROVE  Goal /\ pc' \in {"idle", "rule", "act"}
  BY <1>3, <1>5, <1>6, <1>8, <1>12
<1>13. CASE Tick \/ CheckAll \/ UNCHANGED rvars \/ (\E ok \in BOOLEAN : Attempt(ok))
            \/ (\E f \in Files : LoadRules(f)) \/ \E a \in Alerts : Acknowledge(a) \/ Recover(a)
  BY <1>0, <1>11, <1>13 DEF Goal
<1>14. CASE RuleDone \/ (\E r \in cur.rules : ExecuteRule(r))
            \/ \E a \in Alerts : Process(a) \/ EscalationDone(a)
  BY <1>12, <1>14 DEF Goal
<1>15. CASE \E a \in Alerts : ProcessEscalations(a)
  <2>1. PICK a \in Alerts : ProcessEscalations(a)
    BY <1>15
  <2>2. pc = "rule"
    BY <2>1 DEF ProcessEscalations
  <2> QED BY <1>7, <2>1, <2>2 DEF Goal
<1> QED BY <1>13, <1>14, <1>15 DEF Next, Loop

(* The states of the escalations after each step.                          *)
LEMMA EscalationsStep ==
  ASSUME TypesInv, [Next]_rvars
  PROVE  /\ \A a \in DOMAIN escalations' :
              /\ a \in Alerts /\ DOMAIN escalations'[a] = State
              /\ escalations'[a].first \in Span /\ escalations'[a].last \in Span
         /\ (\E a \in Alerts : ProcessEscalations(a)) \/ DOMAIN escalations \subseteq DOMAIN escalations'
<1> DEFINE Typed(e) == /\ DOMAIN e = State /\ e.first \in Span /\ e.last \in Span
<1>0. /\ \A a \in DOMAIN escalations : a \in Alerts /\ Typed(escalations[a])
      /\ cur.since \in Span /\ MaxAge \in Nat
  BY EngineAssumption DEF EngineAssumption, TypesInv, AgesOK
<1>1. ASSUME RuleDone
      PROVE  /\ \A a \in DOMAIN escalations' : a \in Alerts /\ Typed(escalations'[a])
             /\ DOMAIN escalations \subseteq DOMAIN escalations'
  <2>1. PICK a \in Alerts : a = cur.alert
    BY <1>1 DEF RuleDone, TypesInv, KnownOK
  <2>2. PICK e : e = [rule |-> cur.rule.id, first |-> 0, last |-> 0, count |-> 0]
    OBVIOUS
  <2>3. escalations' = escalations \/ escalations' = Put(escalations, a, e)
    BY <1>1, <2>1, <2>2 DEF RuleDone, WithEscalation
  <2>4. Typed(e)
    BY <1>0, <2>2 DEF State, Span
  <2> QED BY <1>0, <2>3, <2>4 DEF Put
<1>2. ASSUME NEW a \in Alerts, ProcessEscalations(a)
      PROVE  \A b \in DOMAIN escalations' : b \in Alerts /\ Typed(escalations'[b])
  <2>1. escalations' = escalations \/ escalations' = Delete(escalations, a)
    BY <1>2 DEF ProcessEscalations
  <2> QED BY <1>0, <2>1 DEF Delete
<1>3. ASSUME NEW a \in Alerts, EscalationDone(a)
      PROVE  /\ \A b \in DOMAIN escalations' : b \in Alerts /\ Typed(escalations'[b])
             /\ DOMAIN escalations \subseteq DOMAIN escalations'
  <2>1. a \in DOMAIN escalations /\ Typed(escalations[a])
    BY <1>0, <1>3 DEF EscalationDone, TypesInv, AgesOK, Standing
  <2>2. PICK since, n : since = cur.since /\ n = escalations[a].count + 1
    OBVIOUS
  <2>3. PICK s : s = [escalations[a] EXCEPT !.last = since, !.count = n]
    OBVIOUS
  <2>4. escalations' = [escalations EXCEPT ![a] = s]
    BY <1>3, <2>1, <2>2, <2>3 DEF EscalationDone, State
  <2>5. Typed(s)
    BY <1>0, <2>1, <2>2, <2>3 DEF State
  <2> QED BY <1>0, <2>1, <2>4, <2>5
<1>4. ASSUME Tick
      PROVE  /\ \A a \in DOMAIN escalations' : a \in Alerts /\ Typed(escalations'[a])
             /\ DOMAIN escalations \subseteq DOMAIN escalations'
  <2>1. DOMAIN escalations' = DOMAIN escalations
    BY <1>4 DEF Tick
  <2>2. ASSUME NEW a \in DOMAIN escalations PROVE Typed(escalations'[a])
    <3>1. PICK m, n : m = Capped(escalations[a].first + 1) /\ n = Capped(escalations[a].last + 1)
      OBVIOUS
    <3>2. m \in Span /\ n \in Span
      BY <1>0, <3>1 DEF Capped, Span
    <3>3. escalations'[a] = [escalations[a] EXCEPT !.first = m, !.last = n]
      BY <1>0, <1>4, <3>1 DEF Tick, State
    <3> QED BY <1>0, <3>2, <3>3 DEF State
  <2> QED BY <1>0, <2>1, <2>2
<1>5. ASSUME \/ CheckAll \/ UNCHANGED rvars
             \/ \E r \in cur.rules : ExecuteRule(r)
             \/ \E ok \in BOOLEAN : Attempt(ok)
             \/ \E f \in Files : LoadRules(f)
             \/ \E a \in Alerts : Process(a) \/ Acknowledge(a) \/ Recover(a)
      PROVE  UNCHANGED escalations
  BY <1>5 DEF CheckAll, rvars, ExecuteRule, Attempt, LoadRules, Process, Acknowledge, Recover, engine
<1> HIDE DEF Typed
<1>6. \A a \in DOMAIN escalations' : a \in Alerts /\ Typed(escalations'[a])
  BY <1>0, <1>1, <1>2, <1>3, <1>4, <1>5 DEF Next, Loop
<1>7. (\E a \in Alerts : ProcessEscalations(a)) \/ DOMAIN escalations \subseteq DOMAIN escalations'
  BY <1>1, <1>3, <1>4, <1>5 DEF Next, Loop
<1> QED BY <1>6, <1>7 DEF Typed

LEMMA AgesStep == ASSUME TypesInv, [Next]_rvars PROVE AgesOK'
<1>1. /\ cur'.since \in Span
      /\ \A a \in DOMAIN escalations' :
           /\ a \in Alerts /\ DOMAIN escalations'[a] = State
           /\ escalations'[a].first \in Span /\ escalations'[a].last \in Span
  BY CurStep, EscalationsStep
<1>2. Standing'
  <2> SUFFICES ASSUME pc' = "escalating" PROVE cur'.alert \in DOMAIN escalations'
    BY DEF Standing
  <2>1. CASE pc # "escalating"
    BY <2>1, CurStep
  <2>2. CASE pc = "escalating"
    <3>1. cur'.alert = cur.alert /\ cur.alert \in DOMAIN escalations
      BY <2>2, CurStep DEF TypesInv, AgesOK, Standing
    <3>2. ~\E a \in Alerts : ProcessEscalations(a)
      BY <2>2 DEF ProcessEscalations
    <3> QED BY <3>1, <3>2, EscalationsStep
  <2> QED BY <2>1, <2>2
<1> QED BY <1>1, <1>2 DEF AgesOK, Span

LEMMA PlacesStep == ASSUME TypesInv, [Next]_rvars PROVE PlacesOK'
<1>0. /\ file \in Files /\ loaded = Parsed(file)
      /\ acked \subseteq Alerts /\ reported \subseteq Alerts /\ told \subseteq Alerts
  BY DEF TypesInv, PlacesOK
<1>1. file' \in Files /\ loaded' = Parsed(file')
  <2>1. UNCHANGED <<file, loaded>> \/ \E f \in Files : LoadRules(f)
    BY DEF Next, Loop, CheckAll, RuleDone, ExecuteRule, Attempt, Process, ProcessEscalations,
           EscalationDone, Acknowledge, Recover, Tick, Env, rvars
  <2> QED BY <1>0, <2>1 DEF LoadRules, Parsed
<1>2. acked' \subseteq Alerts /\ reported' \subseteq Alerts /\ told' \subseteq Alerts
  BY <1>0 DEF Next, Loop, CheckAll, RuleDone, ExecuteRule, Attempt, Process, ProcessEscalations,
              EscalationDone, LoadRules, Acknowledge, Recover, Tick, Env, NoHistory, history, rvars
<1> QED BY <1>1, <1>2, CurStep DEF PlacesOK

(* The engine's state is what its types say: the rules are those of the    *)
(* file that was read last, escalations belong to alerts, no action is     *)
(* tried more often than its policy says, and no tracker is over its       *)
(* maximum, whatever the rules disagree about.                             *)
THEOREM EngineTypes == Spec => []TypeOK
<1>1. Init => TypesInv
  <2> SUFFICES ASSUME Init PROVE TypesInv
    OBVIOUS
  <2>1. AckInv /\ KnownOK
    BY AckInvInit, KnownInit
  <2>2. TokensOK
    BY DEF Init, TokensOK
  <2>3. Retries \in Nat /\ MaxAge \in Nat
    BY EngineAssumption DEF EngineAssumption
  <2>4. AgesOK
    BY <2>3 DEF Init, AgesOK, Standing, NoWork, Span
  <2>5. PlacesOK
    BY <2>3 DEF Init, PlacesOK, NoWork
  <2> QED BY <2>1, <2>2, <2>4, <2>5 DEF TypesInv
<1>2. TypesInv /\ [Next]_rvars => TypesInv'
  BY AckInvStep, KnownStep, TokensStep, AgesStep, PlacesStep DEF TypesInv
<1>3. TypesInv => TypeOK
  BY DEF TypesInv, TokensOK, AgesOK, PlacesOK, Span, TypeOK
<1> QED BY <1>1, <1>2, <1>3, PTL DEF Spec
-----------------------------------------------------------------------------
(***************************************************************************)
(* The matcher.  Induction over nested groups is by the least level of     *)
(* nesting of a counterexample: a group whose own groups are none.         *)
(***************************************************************************)

(* Numbers have a least one in each set: the one fact the inductions need. *)
LEMMA LeastNumber ==
  ASSUME NEW T, T \subseteq Nat, T # {}
  PROVE  \E n \in T : \A m \in T : n <= m
<1> DEFINE R == {ss \in Nat \X Nat : ss[1] < ss[2]}
<1>1. IsWellFoundedOn(R, Nat)
  BY NatLessThanWellFounded DEF OpToRel
<1>2. \A n, m \in Nat : <<m, n>> \in R <=> m < n
  OBVIOUS
<1> HIDE DEF R
<1>3. \E n \in T : \A m \in T : ~ (<<m, n>> \in R)
  BY <1>1, WFMin
<1>4. ASSUME NEW n \in T, \A m \in T : ~ (<<m, n>> \in R)
      PROVE  \A m \in T : n <= m
  <2> SUFFICES ASSUME NEW m \in T PROVE n <= m
    OBVIOUS
  <2>1. n \in Nat /\ m \in Nat /\ ~ (<<m, n>> \in R)
    BY <1>4
  <2> QED BY <2>1, <1>2
<1> QED BY <1>3, <1>4

(* Nested groups: a set of groups has one with none of its groups in it.   *)
LEMMA InnermostGroup ==
  ASSUME NEW T, T \subseteq Conditions, T # {}
  PROVE  \E c \in T : \A s \in Groups(c) : s \notin T
<1> DEFINE D == {Depth[c] : c \in T}
<1>1. D \subseteq Nat /\ D # {}
  BY MatcherAssumption DEF MatcherAssumption
<1>2. PICK n \in D : \A m \in D : n <= m
  <2> HIDE DEF D
  <2> QED BY <1>1, LeastNumber
<1>3. PICK c \in T : Depth[c] = n
  OBVIOUS
<1>4. \A s \in Groups(c) : Depth[s] < Depth[c] /\ Depth[s] \in Nat /\ Depth[c] \in Nat
  BY <1>3, MatcherAssumption DEF MatcherAssumption
<1>5. \A s \in Groups(c) : s \notin T
  BY <1>2, <1>3, <1>4
<1> QED BY <1>5

(* The definition of Meaning, for any function of the groups.              *)
HoldsIn(h, c, x) ==
  /\ \A s \in c.allOf : h[s]
  /\ c.anyOf # {} => \E s \in c.anyOf : h[s]
  /\ \A s \in c.noneOf : ~h[s]
  /\ Fields(c, x) /\ (c.time # Nothing => InRange(c.time, x))

Settled(h, x, n) == \A c \in Conditions : Depth[c] <= n => h[c] = HoldsIn(h, c, x)

(* One more level of nesting.                                              *)
LEMMA OneMoreLevel ==
  ASSUME NEW x, NEW n \in Nat, NEW h, n # 0 => Settled(h, x, n - 1)
  PROVE  Settled([c \in Conditions |-> HoldsIn(h, c, x)], x, n)
<1> DEFINE g == [c \in Conditions |-> HoldsIn(h, c, x)]
<1> SUFFICES ASSUME NEW c \in Conditions, Depth[c] <= n
             PROVE  g[c] = HoldsIn(g, c, x)
  BY DEF Settled
<1>1. \A s \in Groups(c) : s \in Conditions /\ n # 0 /\ Depth[s] <= n - 1
  BY MatcherAssumption DEF MatcherAssumption
<1>2. \A s \in Groups(c) : h[s] = HoldsIn(h, s, x) /\ g[s] = HoldsIn(h, s, x)
  BY <1>1 DEF Settled
<1>3. \A s \in Groups(c) : g[s] = h[s]
  BY <1>2
<1>4. HoldsIn(g, c, x) = HoldsIn(h, c, x)
  <2> HIDE DEF g
  <2> QED BY <1>3 DEF HoldsIn, Groups
<1>5. g[c] = HoldsIn(h, c, x)
  OBVIOUS
<1> QED BY <1>4, <1>5

(* So some function satisfies the definition at every level.               *)
LEMMA MeaningExists ==
  ASSUME NEW x
  PROVE  \E h : h = [c \in Conditions |-> HoldsIn(h, c, x)]
<1> DEFINE T == {n \in Nat : ~ \E h : Settled(h, x, n)}
<1>1. T = {}
  <2> SUFFICES ASSUME T # {} PROVE FALSE
    OBVIOUS
  <2>1. PICK n \in T : \A m \in T : n <= m
    <3>1. T \subseteq Nat
      OBVIOUS
    <3> HIDE DEF T
    <3> QED BY <3>1, LeastNumber
  <2>2. n \in Nat /\ (n # 0 => n - 1 \in Nat /\ n - 1 \notin T)
    BY <2>1
  <2>3. PICK h : n # 0 => Settled(h, x, n - 1)
    BY <2>2
  <2>4. Settled([c \in Conditions |-> HoldsIn(h, c, x)], x, n)
    BY <2>2, <2>3, OneMoreLevel
  <2> QED BY <2>1, <2>4
<1>2. PICK h : Settled(h, x, Nesting)
  <2>1. Nesting \in Nat
    BY MatcherAssumption DEF MatcherAssumption
  <2>2. Nesting \notin T
    BY <1>1
  <2> QED BY <2>1, <2>2
<1>3. \A c \in Conditions : h[c] = HoldsIn(h, c, x)
  BY <1>2, MatcherAssumption DEF MatcherAssumption, Settled
<1> DEFINE g == [c \in Conditions |-> HoldsIn(h, c, x)]
<1>4. \A c \in Conditions : g[c] = h[c]
  BY <1>3
<1>5. \A c \in Conditions : HoldsIn(g, c, x) = HoldsIn(h, c, x)
  <2> SUFFICES ASSUME NEW c \in Conditions PROVE HoldsIn(g, c, x) = HoldsIn(h, c, x)
    OBVIOUS
  <2>1. \A s \in Groups(c) : g[s] = h[s]
    BY <1>4, MatcherAssumption DEF MatcherAssumption
  <2> HIDE DEF g
  <2> QED BY <2>1 DEF HoldsIn, Groups
<1>6. g = [c \in Conditions |-> HoldsIn(g, c, x)]
  BY <1>5
<1> QED BY <1>6

(* Meaning is such a function: what it says of a group follows from what   *)
(* it says of the groups inside.                                           *)
LEMMA MeaningDefined ==
  ASSUME NEW x, NEW c \in Conditions
  PROVE  Meaning(x)[c] = HoldsIn(Meaning(x), c, x)
BY MeaningExists DEF Meaning, HoldsIn

(* The same for the tags a group asks for.                                 *)
AsksIn(h, c)    == c.tags \cup UNION {h[s] : s \in c.allOf}
SettledTags(h, n) == \A c \in Conditions : Depth[c] <= n => h[c] = AsksIn(h, c)

LEMMA OneMoreLevelOfTags ==
  ASSUME NEW n \in Nat, NEW h, n # 0 => SettledTags(h, n - 1)
  PROVE  SettledTags([c \in Conditions |-> AsksIn(h, c)], n)
<1> DEFINE g == [c \in Conditions |-> AsksIn(h, c)]
<1> SUFFICES ASSUME NEW c \in Conditions, Depth[c] <= n
             PROVE  g[c] = AsksIn(g, c)
  BY DEF SettledTags
<1>1. \A s \in c.allOf : s \in Conditions /\ n # 0 /\ Depth[s] <= n - 1
  BY MatcherAssumption DEF MatcherAssumption, Groups
<1>2. \A s \in c.allOf : h[s] = AsksIn(h, s) /\ g[s] = AsksIn(h, s)
  BY <1>1 DEF SettledTags
<1>3. \A s \in c.allOf : g[s] = h[s]
  BY <1>2
<1>4. AsksIn(g, c) = AsksIn(h, c)
  <2> HIDE DEF g
  <2>1. {g[s] : s \in c.allOf} = {h[s] : s \in c.allOf}
    BY <1>3
  <2> QED BY <2>1 DEF AsksIn
<1>5. g[c] = AsksIn(h, c)
  OBVIOUS
<1> QED BY <1>4, <1>5

(* TagsAsked is what its definition says.                                  *)
LEMMA TagsAskedDefined ==
  ASSUME NEW c \in Conditions
  PROVE  TagsAsked[c] = c.tags \cup UNION {TagsAsked[s] : s \in c.allOf}
<1>1. \E h : h = [b \in Conditions |-> AsksIn(h, b)]
  <2> DEFINE T == {n \in Nat : ~ \E h : SettledTags(h, n)}
  <2>1. T = {}
    <3> SUFFICES ASSUME T # {} PROVE FALSE
      OBVIOUS
    <3>1. PICK n \in T : \A m \in T : n <= m
      <4>1. T \subseteq Nat
        OBVIOUS
      <4> HIDE DEF T
      <4> QED BY <4>1, LeastNumber
    <3>2. n \in Nat /\ (n # 0 => n - 1 \in Nat /\ n - 1 \notin T)
      BY <3>1
    <3>3. PICK h : n # 0 => SettledTags(h, n - 1)
      BY <3>2
    <3>4. SettledTags([b \in Conditions |-> AsksIn(h, b)], n)
      BY <3>2, <3>3, OneMoreLevelOfTags
    <3> QED BY <3>1, <3>4
  <2>2. PICK h : SettledTags(h, Nesting)
    <3>1. Nesting \in Nat
      BY MatcherAssumption DEF MatcherAssumption
    <3>2. Nesting \notin T
      BY <2>1
    <3> QED BY <3>1, <3>2
  <2>3. \A b \in Conditions : h[b] = AsksIn(h, b)
    BY <2>2, MatcherAssumption DEF MatcherAssumption, SettledTags
  <2> DEFINE g == [b \in Conditions |-> AsksIn(h, b)]
  <2>4. \A b \in Conditions : g[b] = h[b]
    BY <2>3
  <2>5. \A b \in Conditions : AsksIn(g, b) = AsksIn(h, b)
    <3> SUFFICES ASSUME NEW b \in Conditions PROVE AsksIn(g, b) = AsksIn(h, b)
      OBVIOUS
    <3>1. \A s \in b.allOf : g[s] = h[s]
      BY <2>4, MatcherAssumption DEF MatcherAssumption, Groups
    <3> HIDE DEF g
    <3>2. {g[s] : s \in b.allOf} = {h[s] : s \in b.allOf}
      BY <3>1
    <3> QED BY <3>2 DEF AsksIn
  <2>6. g = [b \in Conditions |-> AsksIn(g, b)]
    BY <2>5
  <2> QED BY <2>6
<1>2. TagsAsked = [b \in Conditions |-> AsksIn(TagsAsked, b)]
  BY <1>1 DEF TagsAsked, AsksIn
<1> QED BY <1>2 DEF AsksIn

(* A group that holds for an alert whose device was found asks only for    *)
(* tags of the device.                                                     *)
LEMMA AskedTagsHeld ==
  ASSUME NEW x, x.found
  PROVE  \A c \in Conditions : Meaning(x)[c] => TagsAsked[c] \subseteq x.tags
<1> DEFINE T == {c \in Conditions : Meaning(x)[c] /\ ~(TagsAsked[c] \subseteq x.tags)}
<1> SUFFICES ASSUME T # {} PROVE FALSE
  OBVIOUS
<1>1. PICK c \in T : \A s \in Groups(c) : s \notin T
  <2>1. T \subseteq Conditions
    OBVIOUS
  <2> HIDE DEF T
  <2> QED BY <2>1, InnermostGroup
<1>2. c \in Conditions /\ Meaning(x)[c] /\ \A s \in c.allOf : s \in Conditions
  BY MatcherAssumption DEF MatcherAssumption, Groups
<1>3. HoldsIn(Meaning(x), c, x)
  BY <1>2, MeaningDefined
<1>4. \A s \in c.allOf : TagsAsked[s] \subseteq x.tags
  BY <1>1, <1>2, <1>3 DEF HoldsIn, Groups
<1>5. c.tags \subseteq x.tags
  BY <1>3 DEF HoldsIn, Fields
<1>6. TagsAsked[c] \subseteq x.tags
  BY <1>2, <1>4, <1>5, TagsAskedDefined
<1> QED BY <1>6

(* The characters of a time, and the minute they stand for.                *)
LEMMA Characters ==
  ASSUME NEW m \in OfDay
  PROVE  \E a \in 0 .. 2, b \in 0 .. 9, c \in 0 .. 5, d \in 0 .. 9 :
           Format(m) = <<a, b, 10, c, d>> /\ m = 600 * a + 60 * b + 10 * c + d
<1> DEFINE h == m \div 60
           n == m % 60
<1>1. Format(m) = <<h \div 10, h % 10, 10, n \div 10, n % 10>>
  BY DEF Format
<1>2. /\ h \div 10 \in 0 .. 2 /\ h % 10 \in 0 .. 9 /\ n \div 10 \in 0 .. 5 /\ n % 10 \in 0 .. 9
      /\ m = 60 * h + n /\ h = 10 * (h \div 10) + (h % 10) /\ n = 10 * (n \div 10) + (n % 10)
      /\ h \in Nat /\ n \in Nat
  <2>1. h \in 0 .. 23 /\ n \in 0 .. 59 /\ m = 60 * h + n
    BY DEF OfDay
  <2>2. \A q \in 0 .. 59 : q \div 10 \in 0 .. 5 /\ q % 10 \in 0 .. 9 /\ q = 10 * (q \div 10) + (q % 10)
    OBVIOUS
  <2>3. \A q \in 0 .. 23 : q \div 10 \in 0 .. 2
    OBVIOUS
  <2> HIDE DEF h, n
  <2> QED BY <2>1, <2>2, <2>3
<1> DEFINE a == h \div 10
           b == h % 10
           c == n \div 10
           d == n % 10
<1>3. a \in 0 .. 2 /\ b \in 0 .. 9 /\ c \in 0 .. 5 /\ d \in 0 .. 9 /\ Format(m) = <<a, b, 10, c, d>>
  BY <1>1, <1>2
<1>4. m = 60 * h + n /\ h = 10 * a + b /\ n = 10 * c + d
  BY <1>2
<1> HIDE DEF a, b, c, d, h, n
<1>5. m = 600 * a + 60 * b + 10 * c + d
  BY <1>3, <1>4
<1> QED BY <1>3, <1>5

(* Minutes reads back what Format wrote.                                   *)
LEMMA MinutesOfFormat ==
  ASSUME NEW m \in OfDay
  PROVE  Minutes(Format(m)) = m
<1>1. PICK a \in 0 .. 2, b \in 0 .. 9, c \in 0 .. 5, d \in 0 .. 9 :
        Format(m) = <<a, b, 10, c, d>> /\ m = 600 * a + 60 * b + 10 * c + d
  BY Characters
<1>2. Minutes(<<a, b, 10, c, d>>) = 60 * (10 * a + b) + 10 * c + d
  BY DEF Minutes
<1>3. 60 * (10 * a + b) + 10 * c + d = 600 * a + 60 * b + 10 * c + d
  OBVIOUS
<1> QED BY <1>1, <1>2, <1>3

(* Times written with two digits: their order as texts is their order, as  *)
(* the first difference decides.                                           *)
LEMMA TextsAreTimes ==
  ASSUME NEW m \in OfDay, NEW n \in OfDay
  PROVE  TextLeq(Format(m), Format(n)) <=> m <= n
<1>1. PICK a \in 0 .. 2, b \in 0 .. 9, c \in 0 .. 5, d \in 0 .. 9 :
        Format(m) = <<a, b, 10, c, d>> /\ m = 600 * a + 60 * b + 10 * c + d
  BY Characters
<1>2. PICK e \in 0 .. 2, f \in 0 .. 9, g \in 0 .. 5, h \in 0 .. 9 :
        Format(n) = <<e, f, 10, g, h>> /\ n = 600 * e + 60 * f + 10 * g + h
  BY Characters
<1>3. m <= n <=> \/ a < e
                 \/ a = e /\ b < f
                 \/ a = e /\ b = f /\ c < g
                 \/ a = e /\ b = f /\ c = g /\ d <= h
  BY <1>1, <1>2
<1>4. TextLeq(<<a, b, 10, c, d>>, <<e, f, 10, g, h>>)
        <=> \/ a < e
            \/ a = e /\ b < f
            \/ a = e /\ b = f /\ c < g
            \/ a = e /\ b = f /\ c = g /\ d <= h
  <2> DEFINE s == <<a, b, 10, c, d>>
             t == <<e, f, 10, g, h>>
             Differ(k) == /\ \A p \in 1 .. k - 1 : p <= Len(t) /\ s[p] = t[p]
                          /\ k <= Len(s) => k <= Len(t) /\ s[k] < t[k]
  <2>0. TextLeq(s, t) <=> \E k \in 1 .. 6 : Differ(k)
    BY DEF TextLeq
  <2>1. Differ(1) <=> a < e
    OBVIOUS
  <2>2. Differ(2) <=> a = e /\ b < f
    OBVIOUS
  <2>3. ~Differ(3)
    OBVIOUS
  <2>4. Differ(4) <=> a = e /\ b = f /\ c < g
    OBVIOUS
  <2>5. Differ(5) <=> a = e /\ b = f /\ c = g /\ d < h
    OBVIOUS
  <2>6. Differ(6) <=> a = e /\ b = f /\ c = g /\ d = h
    OBVIOUS
  <2>7. (\E k \in 1 .. 6 : Differ(k)) <=> Differ(1) \/ Differ(2) \/ Differ(3) \/ Differ(4) \/ Differ(5) \/ Differ(6)
    <3>1. 1 .. 6 = {1, 2, 3, 4, 5, 6}
      OBVIOUS
    <3> HIDE DEF Differ
    <3> QED BY <3>1
  <2> QED BY <2>0, <2>1, <2>2, <2>3, <2>4, <2>5, <2>6, <2>7
<1>5. TextLeq(Format(m), Format(n)) <=> TextLeq(<<a, b, 10, c, d>>, <<e, f, 10, g, h>>)
  BY <1>1, <1>2
<1> QED BY <1>3, <1>4, <1>5

(* A time with one digit is the other one without its first character.     *)
LEMMA OneDigitCharacters ==
  ASSUME NEW m \in 0 .. 599
  PROVE  \E b \in 0 .. 9, c \in 0 .. 5, d \in 0 .. 9 :
           OneDigit(m) = <<b, 10, c, d>> /\ m = 60 * b + 10 * c + d
<1>1. PICK n \in OfDay : n = m
  BY DEF OfDay
<1>2. PICK a \in 0 .. 2, b \in 0 .. 9, c \in 0 .. 5, d \in 0 .. 9 :
        Format(n) = <<a, b, 10, c, d>> /\ n = 600 * a + 60 * b + 10 * c + d
  BY Characters
<1>3. a = 0
  BY <1>1, <1>2
<1>4. m = 60 * b + 10 * c + d
  BY <1>1, <1>2, <1>3
<1>5. OneDigit(m) = <<b, 10, c, d>>
  <2>1. Tail(<<a, b, 10, c, d>>) = <<b, 10, c, d>>
    OBVIOUS
  <2> QED BY <1>1, <1>2, <2>1 DEF OneDigit
<1> QED BY <1>2, <1>4, <1>5

(* Where a time stands.                                                    *)
LEMMA StandsOfFormat ==
  ASSUME NEW m \in OfDay
  PROVE  Stands(Format(m)) = 2 * m
<1>1. PICK a \in 0 .. 2, b \in 0 .. 9, c \in 0 .. 5, d \in 0 .. 9 :
        Format(m) = <<a, b, 10, c, d>> /\ m = 600 * a + 60 * b + 10 * c + d
  BY Characters
<1>2. Format(m)[2] # 10
  BY <1>1
<1> QED BY <1>2, MinutesOfFormat DEF Stands

LEMMA StandsOfOneDigit ==
  ASSUME NEW b \in 0 .. 9, NEW c \in 0 .. 5, NEW d \in 0 .. 9
  PROVE  /\ Minutes(<<b, 10, c, d>>) = 60 * b + 10 * c + d
         /\ Stands(<<b, 10, c, d>>) = IF b < 2 THEN 1200 * (b + 1) - 1 ELSE 2879
BY DEF Minutes, Stands

LEMMA StandsBetween ==
  ASSUME NEW m \in 0 .. 599
  PROVE  Stands(OneDigit(m)) \in {1199, 2399, 2879}
<1>1. PICK b \in 0 .. 9, c \in 0 .. 5, d \in 0 .. 9 :
        OneDigit(m) = <<b, 10, c, d>> /\ m = 60 * b + 10 * c + d
  BY OneDigitCharacters
<1>2. Stands(<<b, 10, c, d>>) = IF b < 2 THEN 1200 * (b + 1) - 1 ELSE 2879
  BY DEF Stands
<1>3. (IF b < 2 THEN 1200 * (b + 1) - 1 ELSE 2879) \in {1199, 2399, 2879}
  BY <1>1
<1> QED BY <1>1, <1>2, <1>3

(* A text of four characters before one of five, the other way round, and  *)
(* two of four.                                                            *)
LEMMA OneDigitBefore ==
  ASSUME NEW m \in 0 .. 599, NEW n \in OfDay
  PROVE  TextLeq(OneDigit(m), Format(n)) <=> Stands(OneDigit(m)) < 2 * n
<1>1. PICK b \in 0 .. 9, c \in 0 .. 5, d \in 0 .. 9 :
        OneDigit(m) = <<b, 10, c, d>> /\ m = 60 * b + 10 * c + d
  BY OneDigitCharacters
<1>2. PICK e \in 0 .. 2, f \in 0 .. 9, g \in 0 .. 5, h \in 0 .. 9 :
        Format(n) = <<e, f, 10, g, h>> /\ n = 600 * e + 60 * f + 10 * g + h
  BY Characters
<1> DEFINE s == <<b, 10, c, d>>
           t == <<e, f, 10, g, h>>
           Differ(k) == /\ \A p \in 1 .. k - 1 : p <= Len(t) /\ s[p] = t[p]
                        /\ k <= Len(s) => k <= Len(t) /\ s[k] < t[k]
<1>3. TextLeq(s, t) <=> b < e
  <2>1. TextLeq(s, t) <=> \E k \in 1 .. 5 : Differ(k)
    BY DEF TextLeq
  <2>2. Differ(1) <=> b < e
    OBVIOUS
  <2>3. ~Differ(2)
    OBVIOUS
  <2>4. \A k \in 3 .. 5 : ~Differ(k)
    <3>1. s[2] # t[2]
      OBVIOUS
    <3> QED BY <3>1
  <2>5. \A k \in 1 .. 5 : k = 1 \/ k = 2 \/ k \in 3 .. 5
    OBVIOUS
  <2> HIDE DEF Differ
  <2> QED BY <2>1, <2>2, <2>3, <2>4, <2>5
<1>4. n \in 600 * e .. 600 * e + 599 /\ n <= 1439
  BY <1>2 DEF OfDay
<1>5. Stands(s) = IF b < 2 THEN 1200 * (b + 1) - 1 ELSE 2879
  BY DEF Stands
<1>6. b < e <=> Stands(s) < 2 * n
  <2> HIDE DEF s
  <2> QED BY <1>4, <1>5
<1> QED BY <1>1, <1>2, <1>3, <1>6

LEMMA OneDigitAfter ==
  ASSUME NEW m \in 0 .. 599, NEW n \in OfDay
  PROVE  TextLeq(Format(n), OneDigit(m)) <=> 2 * n < Stands(OneDigit(m))
<1>1. PICK b \in 0 .. 9, c \in 0 .. 5, d \in 0 .. 9 :
        OneDigit(m) = <<b, 10, c, d>> /\ m = 60 * b + 10 * c + d
  BY OneDigitCharacters
<1>2. PICK e \in 0 .. 2, f \in 0 .. 9, g \in 0 .. 5, h \in 0 .. 9 :
        Format(n) = <<e, f, 10, g, h>> /\ n = 600 * e + 60 * f + 10 * g + h
  BY Characters
<1> DEFINE s == <<e, f, 10, g, h>>
           t == <<b, 10, c, d>>
           Differ(k) == /\ \A p \in 1 .. k - 1 : p <= Len(t) /\ s[p] = t[p]
                        /\ k <= Len(s) => k <= Len(t) /\ s[k] < t[k]
<1>3. TextLeq(s, t) <=> e <= b
  <2>1. TextLeq(s, t) <=> \E k \in 1 .. 6 : Differ(k)
    BY DEF TextLeq
  <2>2. Differ(1) <=> e < b
    OBVIOUS
  <2>3. Differ(2) <=> e = b
    OBVIOUS
  <2>4. \A k \in 3 .. 6 : ~Differ(k)
    <3>1. s[2] # t[2]
      OBVIOUS
    <3> QED BY <3>1
  <2>5. \A k \in 1 .. 6 : k = 1 \/ k = 2 \/ k \in 3 .. 6
    OBVIOUS
  <2> HIDE DEF Differ
  <2> QED BY <2>1, <2>2, <2>3, <2>4, <2>5
<1>4. n \in 600 * e .. 600 * e + 599 /\ n <= 1439
  BY <1>2 DEF OfDay
<1>5. Stands(t) = IF b < 2 THEN 1200 * (b + 1) - 1 ELSE 2879
  BY DEF Stands
<1>6. e <= b <=> 2 * n < Stands(t)
  <2> HIDE DEF t
  <2> QED BY <1>4, <1>5
<1> QED BY <1>1, <1>2, <1>3, <1>6

LEMMA OneDigitEach ==
  ASSUME NEW m \in 0 .. 599, NEW n \in 0 .. 599
  PROVE  TextLeq(OneDigit(m), OneDigit(n)) <=> NotAfter(OneDigit(m), OneDigit(n))
<1>1. PICK b \in 0 .. 9, c \in 0 .. 5, d \in 0 .. 9 :
        OneDigit(m) = <<b, 10, c, d>> /\ m = 60 * b + 10 * c + d
  BY OneDigitCharacters
<1>2. PICK f \in 0 .. 9, g \in 0 .. 5, h \in 0 .. 9 :
        OneDigit(n) = <<f, 10, g, h>> /\ n = 60 * f + 10 * g + h
  BY OneDigitCharacters
<1> DEFINE s == <<b, 10, c, d>>
           t == <<f, 10, g, h>>
           Differ(k) == /\ \A p \in 1 .. k - 1 : p <= Len(t) /\ s[p] = t[p]
                        /\ k <= Len(s) => k <= Len(t) /\ s[k] < t[k]
<1>3. TextLeq(s, t) <=> \/ b < f
                        \/ b = f /\ c < g
                        \/ b = f /\ c = g /\ d <= h
  <2>0. TextLeq(s, t) <=> \E k \in 1 .. 5 : Differ(k)
    BY DEF TextLeq
  <2>1. Differ(1) <=> b < f
    OBVIOUS
  <2>2. ~Differ(2)
    OBVIOUS
  <2>3. Differ(3) <=> b = f /\ c < g
    OBVIOUS
  <2>4. Differ(4) <=> b = f /\ c = g /\ d < h
    OBVIOUS
  <2>5. Differ(5) <=> b = f /\ c = g /\ d = h
    OBVIOUS
  <2>6. (\E k \in 1 .. 5 : Differ(k)) <=> Differ(1) \/ Differ(2) \/ Differ(3) \/ Differ(4) \/ Differ(5)
    <3>1. 1 .. 5 = {1, 2, 3, 4, 5}
      OBVIOUS
    <3> HIDE DEF Differ
    <3> QED BY <3>1
  <2> QED BY <2>0, <2>1, <2>2, <2>3, <2>4, <2>5, <2>6
<1>4. /\ Minutes(s) = m /\ Stands(s) = IF b < 2 THEN 1200 * (b + 1) - 1 ELSE 2879
      /\ Minutes(t) = n /\ Stands(t) = IF f < 2 THEN 1200 * (f + 1) - 1 ELSE 2879
  <2>1. /\ Minutes(s) = 60 * b + 10 * c + d
        /\ Stands(s) = IF b < 2 THEN 1200 * (b + 1) - 1 ELSE 2879
    BY DEF Minutes, Stands
  <2>2. /\ Minutes(t) = 60 * f + 10 * g + h
        /\ Stands(t) = IF f < 2 THEN 1200 * (f + 1) - 1 ELSE 2879
    BY DEF Minutes, Stands
  <2> HIDE DEF s, t
  <2> QED BY <1>1, <1>2, <2>1, <2>2
<1>5. m <= n <=> \/ b < f
                 \/ b = f /\ c < g
                 \/ b = f /\ c = g /\ d <= h
  BY <1>1, <1>2
<1>6. NotAfter(s, t) <=> m <= n
  <2>1. b < f => Stands(s) <= Stands(t)
    <3> HIDE DEF s, t
    <3> QED BY <1>4
  <2>2. Stands(s) < Stands(t) => b < f
    <3> HIDE DEF s, t
    <3> QED BY <1>4
  <2>3. b < f => m <= n
    BY <1>5
  <2>4. b > f => ~(m <= n)
    BY <1>5
  <2>5. b = f => Stands(s) = Stands(t)
    <3> HIDE DEF s, t
    <3> QED BY <1>4
  <2>6. Stands(s) \in Int /\ Stands(t) \in Int
    <3> HIDE DEF s, t
    <3> QED BY <1>4
  <2> HIDE DEF s, t
  <2> QED BY <1>4, <2>1, <2>2, <2>3, <2>4, <2>5, <2>6 DEF NotAfter
<1> QED BY <1>1, <1>2, <1>3, <1>5, <1>6

(* So the order of accepted times as texts is the order of their places.   *)
LEMMA TextOrder ==
  ASSUME NEW s \in Accepted, NEW t \in Accepted
  PROVE  TextLeq(s, t) <=> NotAfter(s, t)
<1>1. \A m \in 0 .. 599 : Stands(OneDigit(m)) \in {1199, 2399, 2879}
  BY StandsBetween
<1>2. \A m \in OfDay : m \in Int /\ 2 * m # 1199 /\ 2 * m # 2399 /\ 2 * m # 2879
  BY DEF OfDay
<1>3. (\E m \in OfDay : s = Format(m)) \/ \E m \in 0 .. 599 : s = OneDigit(m)
  BY DEF Accepted
<1>4. (\E n \in OfDay : t = Format(n)) \/ \E n \in 0 .. 599 : t = OneDigit(n)
  BY DEF Accepted
<1>5. ASSUME NEW m \in OfDay, NEW n \in OfDay, s = Format(m), t = Format(n)
      PROVE  TextLeq(s, t) <=> NotAfter(s, t)
  <2>1. Stands(s) = 2 * m /\ Stands(t) = 2 * n /\ Minutes(s) = m /\ Minutes(t) = n
    BY <1>5, StandsOfFormat, MinutesOfFormat
  <2>2. TextLeq(s, t) <=> m <= n
    BY <1>5, TextsAreTimes
  <2>3. m \in Int /\ n \in Int
    BY <1>2
  <2> QED BY <2>1, <2>2, <2>3 DEF NotAfter
<1>6. ASSUME NEW m \in 0 .. 599, NEW n \in OfDay, s = OneDigit(m), t = Format(n)
      PROVE  TextLeq(s, t) <=> NotAfter(s, t)
  <2>1. Stands(s) \in {1199, 2399, 2879} /\ Stands(t) = 2 * n
    BY <1>1, <1>6, StandsOfFormat
  <2>2. Stands(s) # Stands(t)
    BY <1>2, <2>1
  <2>3. TextLeq(s, t) <=> Stands(s) < 2 * n
    BY <1>6, OneDigitBefore
  <2> QED BY <2>1, <2>2, <2>3 DEF NotAfter
<1>7. ASSUME NEW m \in OfDay, NEW n \in 0 .. 599, s = Format(m), t = OneDigit(n)
      PROVE  TextLeq(s, t) <=> NotAfter(s, t)
  <2>1. Stands(t) \in {1199, 2399, 2879} /\ Stands(s) = 2 * m
    BY <1>1, <1>7, StandsOfFormat
  <2>2. Stands(s) # Stands(t)
    BY <1>2, <2>1
  <2>3. TextLeq(s, t) <=> 2 * m < Stands(t)
    BY <1>7, OneDigitAfter
  <2> QED BY <2>1, <2>2, <2>3 DEF NotAfter
<1>8. ASSUME NEW m \in 0 .. 599, NEW n \in 0 .. 599, s = OneDigit(m), t = OneDigit(n)
      PROVE  TextLeq(s, t) <=> NotAfter(s, t)
  BY <1>8, OneDigitEach
<1> QED BY <1>3, <1>4, <1>5, <1>6, <1>7, <1>8

(* A time compared with a minute of the day.                               *)
LEMMA TimeAndMinute ==
  ASSUME NEW s \in Accepted, NEW m \in OfDay
  PROVE  /\ TextLeq(s, Format(m)) <=> Stands(s) <= 2 * m
         /\ TextLeq(Format(m), s) <=> 2 * m <= Stands(s)
<1>1. (\E n \in OfDay : s = Format(n)) \/ \E n \in 0 .. 599 : s = OneDigit(n)
  BY DEF Accepted
<1>2. m \in Int /\ 2 * m # 1199 /\ 2 * m # 2399 /\ 2 * m # 2879
  BY DEF OfDay
<1>3. ASSUME NEW n \in OfDay, s = Format(n)
      PROVE  /\ TextLeq(s, Format(m)) <=> Stands(s) <= 2 * m
             /\ TextLeq(Format(m), s) <=> 2 * m <= Stands(s)
  <2>1. Stands(s) = 2 * n /\ n \in Int
    BY <1>3, StandsOfFormat DEF OfDay
  <2> QED BY <1>2, <1>3, <2>1, TextsAreTimes
<1>4. ASSUME NEW n \in 0 .. 599, s = OneDigit(n)
      PROVE  /\ TextLeq(s, Format(m)) <=> Stands(s) <= 2 * m
             /\ TextLeq(Format(m), s) <=> 2 * m <= Stands(s)
  <2>1. Stands(s) \in {1199, 2399, 2879}
    BY <1>4, StandsBetween
  <2>2. TextLeq(s, Format(m)) <=> Stands(s) < 2 * m
    BY <1>4, OneDigitBefore
  <2>3. TextLeq(Format(m), s) <=> 2 * m < Stands(s)
    BY <1>4, OneDigitAfter
  <2> QED BY <1>2, <2>1, <2>2, <2>3
<1> QED BY <1>1, <1>3, <1>4

LEMMA OneDayOfWeek ==
  ASSUME NEW a \in Int, NEW d \in Int, NEW r \in Int, NEW q \in Int,
         a >= 0, a <= 6, d >= 0, d <= 6, r >= 0, r <= 1439, q >= 0, q <= 10079,
         q = 1440 * (a - d) + r \/ q = 1440 * (a - d) + r + 10080
  PROVE  (q <= 1439 => a = d) /\ (a = d => q = r)
OBVIOUS

LEMMA Remainders ==
  ASSUME NEW x \in Int, NEW y \in Int, NEW t, NEW q, y >= 0, y <= 8640,
         t = x % 10080, q = (x - y) % 10080
  PROVE  /\ t \in Int /\ t >= 0 /\ t <= 10079 /\ q \in Int /\ q >= 0 /\ q <= 10079
         /\ q = t - y \/ q = t - y + 10080
OBVIOUS

LEMMA DayAndMinute ==
  ASSUME NEW t \in Int, NEW a, NEW r, t >= 0, t <= 10079, a = t \div 1440, r = t % 1440
  PROVE  a \in Int /\ a >= 0 /\ a <= 6 /\ r \in Int /\ r >= 0 /\ r <= 1439 /\ t = 1440 * a + r
OBVIOUS

LEMMA Moment ==
  ASSUME NEW tr \in Ranges, NEW x \in Inputs
  PROVE  x.now \in Int /\ x.offset[Location(tr)] \in Int
<1>1. x.now \in OfWeek /\ \A z \in Zones \cup {Nothing} : x.offset[z] \in -1439 .. 1439
  BY MatcherAssumption DEF MatcherAssumption
<1>2. x.now \in Int
  <2>1. PICK n \in OfWeek : n = x.now
    BY <1>1
  <2>2. n \in Int
    BY DEF OfWeek
  <2> QED BY <2>1, <2>2
<1>3. PICK z \in Zones \cup {Nothing} : z = Location(tr)
  BY DEF Location
<1>4. PICK o \in -1439 .. 1439 : o = x.offset[z]
  BY <1>1
<1>5. x.offset[z] \in Int
  <2>1. o \in Int
    OBVIOUS
  <2> QED BY <1>4, <2>1
<1>6. x.offset[Location(tr)] \in Int
  BY <1>3, <1>5
<1> QED BY <1>2, <1>6

(* The local time is in the day that began last, and in no other.          *)
LEMMA DayOfWeek ==
  ASSUME NEW tr \in Ranges, NEW w \in Inputs, NEW d \in 0 .. 6
  PROVE  /\ LocalTime(tr, w) \div 1440 \in 0 .. 6 /\ LocalTime(tr, w) % 1440 \in OfDay
         /\ Since(d, tr, w) \in OfDay <=> LocalTime(tr, w) \div 1440 = d
         /\ Since(d, tr, w) \in OfDay => Since(d, tr, w) = LocalTime(tr, w) % 1440
<1>1. PICK now \in Int, off \in Int : now = w.now /\ off = w.offset[Location(tr)]
  BY Moment
<1>2. PICK t, q : t = LocalTime(tr, w) /\ q = Since(d, tr, w)
  OBVIOUS
<1>3. t = (now + off) % 10080 /\ q = (now - (1440 * d - off)) % 10080
  BY <1>1, <1>2 DEF LocalTime, Since
<1>4. d \in Int /\ d >= 0 /\ d <= 6
  OBVIOUS
<1>5. PICK x \in Int : x = now + off
  OBVIOUS
<1>6. PICK y \in Int : y = 1440 * d /\ y >= 0 /\ y <= 8640
  BY <1>4
<1>7. now - (1440 * d - off) = x - y
  BY <1>4, <1>5, <1>6
<1>8. t = x % 10080 /\ q = (x - y) % 10080
  BY <1>3, <1>5, <1>7
<1>9. /\ t \in Int /\ t >= 0 /\ t <= 10079 /\ q \in Int /\ q >= 0 /\ q <= 10079
      /\ q = t - y \/ q = t - y + 10080
  BY <1>6, <1>8, Remainders
<1>10. PICK a, r : a = t \div 1440 /\ r = t % 1440
  OBVIOUS
<1>11. a \in Int /\ a >= 0 /\ a <= 6 /\ r \in Int /\ r >= 0 /\ r <= 1439 /\ t = 1440 * a + r
  BY <1>9, <1>10, DayAndMinute
<1>12. q = 1440 * (a - d) + r \/ q = 1440 * (a - d) + r + 10080
  BY <1>4, <1>6, <1>9, <1>11
<1>13. (q <= 1439 => a = d) /\ (a = d => q = r)
  BY <1>4, <1>9, <1>11, <1>12, OneDayOfWeek
<1>14. q \in OfDay <=> q <= 1439
  BY <1>9 DEF OfDay
<1>15. (q \in OfDay <=> a = d) /\ (q \in OfDay => q = r)
  BY <1>11, <1>13, <1>14
<1>16. a \in 0 .. 6 /\ r \in OfDay
  BY <1>11 DEF OfDay
<1> QED BY <1>2, <1>10, <1>15, <1>16

(* A range is an interval of the days it names, in its zone.               *)
LEMMA RangeIsInterval ==
  ASSUME NEW tr \in Ranges, NEW x \in Inputs
  PROVE  MatchTimeRange(tr, x) <=> InRange(tr, x)
<1> DEFINE t == LocalTime(tr, x)
           m == t % 1440
           days == IF tr.days = {} THEN 0 .. 6 ELSE tr.days
           At(n) == Between(2 * n, Stands(tr.start), Stands(tr.end), NotAfter(tr.start, tr.end))
<1>1. tr.start \in Accepted /\ tr.end \in Accepted /\ tr.days \subseteq 0 .. 6
  BY MatcherAssumption DEF MatcherAssumption
<1>2. m \in OfDay /\ t \div 1440 \in 0 .. 6
      /\ \A d \in 0 .. 6 : /\ Since(d, tr, x) \in OfDay <=> t \div 1440 = d
                           /\ Since(d, tr, x) \in OfDay => Since(d, tr, x) = m
  <2>1. 0 \in 0 .. 6
    OBVIOUS
  <2> QED BY <2>1, DayOfWeek
<1>3. InRange(tr, x) <=> \E d \in days : Since(d, tr, x) \in OfDay /\ At(Since(d, tr, x))
  BY DEF InRange
<1>4. days \subseteq 0 .. 6
  BY <1>1
<1> HIDE DEF t, m, days, At
<1>5. InRange(tr, x) <=> t \div 1440 \in days /\ At(m)
  BY <1>4, <1>2, <1>3
<1> USE DEF At
<1>6. /\ TextLeq(tr.start, tr.end) <=> NotAfter(tr.start, tr.end)
      /\ TextLeq(tr.start, Format(m)) <=> Stands(tr.start) <= 2 * m
      /\ TextLeq(Format(m), tr.end) <=> 2 * m <= Stands(tr.end)
  BY <1>1, <1>2, TextOrder, TimeAndMinute
<1>7. At(m) <=> IF TextLeq(tr.start, tr.end)
                THEN TextLeq(tr.start, Format(m)) /\ TextLeq(Format(m), tr.end)
                ELSE TextLeq(tr.start, Format(m)) \/ TextLeq(Format(m), tr.end)
  BY <1>6 DEF Between
<1>8. t \div 1440 \in days <=> (tr.days # {} => t \div 1440 \in tr.days)
  BY <1>2 DEF days
<1> HIDE DEF At
<1> QED BY <1>5, <1>7, <1>8 DEF MatchTimeRange, t, m

Frames == [of : Conditions, yes : SUBSET Conditions, no : SUBSET Conditions]

(* What a call has been heard is what the groups mean.                      *)
FrameOK(f) == /\ \A s \in f.yes : Meaning(in)[s]
              /\ \A s \in f.no : ~Meaning(in)[s]

InPlace == in \in Inputs /\ at \in {"match", "sort", "done"} /\ next \in 1 .. Len(in.rules) + 1

CallsOK ==
  /\ calls \in Seq(Frames)
  /\ \A k \in 1 .. Len(calls) : FrameOK(calls[k])
  /\ calls # << >> =>
       /\ at = "match" /\ next <= Len(in.rules)
       /\ in.rules[next].enabled /\ ~Silenced(in.rules[next], in)
       /\ calls[1].of = in.rules[next].cond

(* The rules seen so far that apply are those that were appended, once.    *)
Chosen == {n \in 1 .. next - 1 : Applies(in.rules[n], in)}
MatchedOK ==
  /\ matched \in Seq(1 .. next - 1)
  /\ Result = Chosen
  /\ \A k, m \in 1 .. Len(matched) : matched[k] = matched[m] => k = m
  /\ at # "match" => next = Len(in.rules) + 1

(* A call that may answer answers what its group means: it has heard of    *)
(* all the groups its answer depends on.                                   *)
LEMMA Verdicts ==
  ASSUME InPlace, NEW f \in Frames, FrameOK(f)
  PROVE  (Holds(f) => Meaning(in)[f.of]) /\ (Fails(f) => ~Meaning(in)[f.of])
<1> DEFINE c == f.of
<1>1. c \in Conditions /\ in \in Inputs
  BY DEF Frames, InPlace
<1>2. Meaning(in)[c] = HoldsIn(Meaning(in), c, in)
  BY <1>1, MeaningDefined
<1>3. InTime(c, in) <=> (c.time # Nothing => InRange(c.time, in))
  <2>1. c.time \in Ranges \cup {Nothing}
    BY <1>1, MatcherAssumption DEF MatcherAssumption
  <2>2. CASE c.time # Nothing
    BY <1>1, <2>1, <2>2, RangeIsInterval DEF InTime
  <2>3. CASE c.time = Nothing
    BY <2>3 DEF InTime
  <2> QED BY <2>2, <2>3
<1>4. ASSUME Holds(f) PROVE Meaning(in)[c]
  BY <1>2, <1>3, <1>4 DEF Holds, AllHold, AnyHolds, HoldsIn, FrameOK
<1>5. ASSUME Fails(f) PROVE ~Meaning(in)[c]
  BY <1>2, <1>3, <1>5 DEF Fails, AllHold, AnyHolds, HoldsIn, FrameOK
<1> QED BY <1>4, <1>5

(* Match tests silence and conditions as the rule means them.              *)
LEMMA SilenceMeant ==
  ASSUME InPlace, NEW n \in 1 .. Len(in.rules)
  PROVE  Applies(in.rules[n], in) <=>
           /\ in.rules[n].enabled /\ ~Silenced(in.rules[n], in)
           /\ Meaning(in)[in.rules[n].cond]
<1>1. in.rules[n].silence.ranges \subseteq Ranges /\ in \in Inputs
  BY MatcherAssumption DEF MatcherAssumption, InPlace
<1>2. \A tr \in in.rules[n].silence.ranges : MatchTimeRange(tr, in) <=> InRange(tr, in)
  BY <1>1, RangeIsInterval
<1> QED BY <1>2 DEF Applies, Silenced

(* The calls are right and the list has what applies, whatever the order.  *)
MatchInv == InPlace /\ CallsOK /\ MatchedOK

(* It holds when MatchMultiple is called.                                  *)
LEMMA MatchInvInit == MatchInit => MatchInv
<1> SUFFICES ASSUME MatchInit PROVE MatchInv
  OBVIOUS
<1>1. in \in Inputs /\ Len(in.rules) \in Nat
  BY MatcherAssumption DEF MatcherAssumption, MatchInit
<1>2. InPlace
  BY <1>1 DEF MatchInit, InPlace
<1>3. CallsOK
  BY DEF MatchInit, CallsOK
<1>4. MatchedOK
  BY <1>1 DEF MatchInit, MatchedOK, Result, Chosen
<1> QED BY <1>2, <1>3, <1>4 DEF MatchInv

(* The top call, and what an answer says of it.                            *)
LEMMA TopCall ==
  ASSUME MatchInv, calls # << >>
  PROVE  /\ Len(calls) \in Nat \ {0} /\ Last(calls) \in Frames /\ Last(calls) = calls[Len(calls)]
         /\ \A v \in BOOLEAN : Answers(v) => (v <=> Meaning(in)[Last(calls).of])
<1>1. Len(calls) \in Nat \ {0} /\ Last(calls) = calls[Len(calls)] /\ Last(calls) \in Frames
  BY DEF MatchInv, CallsOK, Last
<1>2. FrameOK(Last(calls))
  BY <1>1 DEF MatchInv, CallsOK
<1>3. (Holds(Last(calls)) => Meaning(in)[Last(calls).of]) /\ (Fails(Last(calls)) => ~Meaning(in)[Last(calls).of])
  BY <1>1, <1>2, Verdicts DEF MatchInv
<1> QED BY <1>1, <1>3 DEF Answers

(* A step of the calls that leaves the rules and the result alone.         *)
LEMMA OnlyCalls ==
  ASSUME MatchInv, UNCHANGED <<in, at, next, matched>>
  PROVE  InPlace' /\ MatchedOK'
<1>1. InPlace'
  BY DEF MatchInv, InPlace
<1>2. MatchedOK'
  BY DEF MatchInv, MatchedOK, Result, Chosen
<1> QED BY <1>1, <1>2

(* Match skips a rule that does not apply, or asks about its conditions.   *)
LEMMA BeginKeeps ==
  ASSUME MatchInv, Begin
  PROVE  MatchInv'
<1> DEFINE r == in.rules[next]
<1>0. next \in 1 .. Len(in.rules) /\ Len(in.rules) \in Nat /\ in \in Inputs /\ r.cond \in Conditions
  BY MatcherAssumption DEF MatchInv, InPlace, Begin, MatcherAssumption
<1>1. CASE r.enabled /\ ~Silenced(r, in)
  <2>1. calls' = <<Called(r.cond)>> /\ UNCHANGED <<in, at, next, matched>> /\ at = "match"
    BY <1>1 DEF Begin
  <2>2. Called(r.cond) \in Frames /\ FrameOK(Called(r.cond)) /\ Called(r.cond).of = r.cond
    BY <1>0 DEF Called, Frames, FrameOK
  <2>3. CallsOK'
    <3>1. calls' \in Seq(Frames) /\ Len(calls') = 1 /\ calls'[1] = Called(r.cond)
      BY <2>1, <2>2
    <3>2. \A k \in 1 .. Len(calls') : FrameOK(calls[k])'
      BY <2>1, <2>2, <3>1 DEF FrameOK
    <3>3. in'.rules[next'].enabled /\ ~Silenced(in'.rules[next'], in') /\ at' = "match"
          /\ next' <= Len(in'.rules) /\ calls'[1].of = in'.rules[next'].cond
      BY <1>0, <1>1, <2>1, <2>2, <3>1
    <3> QED BY <3>1, <3>2, <3>3 DEF CallsOK
  <2> QED BY <2>1, <2>3, OnlyCalls DEF MatchInv
<1>2. CASE ~(r.enabled /\ ~Silenced(r, in))
  <2>1. calls = << >> /\ next' = next + 1 /\ UNCHANGED <<in, at, calls, matched>> /\ at = "match"
    BY <1>2 DEF Begin
  <2>2. ~Applies(r, in)
    BY <1>0, <1>2, SilenceMeant DEF MatchInv
  <2>3. InPlace'
    BY <1>0, <2>1 DEF MatchInv, InPlace
  <2>4. CallsOK'
    BY <2>1 DEF MatchInv, CallsOK
  <2>5. Chosen' = Chosen
    BY <1>0, <2>1, <2>2 DEF Chosen
  <2>6. matched' \in Seq(1 .. next' - 1)
    BY <1>0, <2>1 DEF MatchInv, MatchedOK
  <2>7. MatchedOK'
    BY <2>1, <2>5, <2>6 DEF MatchInv, MatchedOK, Result
  <2> QED BY <2>3, <2>4, <2>7 DEF MatchInv
<1> QED BY <1>1, <1>2

(* A new call has heard nothing yet.                                       *)
LEMMA AskKeeps ==
  ASSUME MatchInv, Ask
  PROVE  MatchInv'
<1>1. PICK c \in Asks(Last(calls)) : calls' = Append(calls, Called(c))
  BY DEF Ask
<1>2. Len(calls) \in Nat \ {0} /\ Last(calls) = calls[Len(calls)] /\ Last(calls) \in Frames
  BY DEF MatchInv, CallsOK, Last, Ask
<1>3. c \in Conditions
  <2>1. c \in Groups(Last(calls).of)
    BY DEF Asks, Groups
  <2> QED BY <1>2, <2>1, MatcherAssumption DEF MatcherAssumption, Frames
<1>4. Called(c) \in Frames /\ FrameOK(Called(c))
  BY <1>3 DEF Called, Frames, FrameOK
<1>5. UNCHANGED <<in, at, next, matched>>
  BY DEF Ask
<1>6. CallsOK'
  <2>1. calls' \in Seq(Frames) /\ Len(calls') = Len(calls) + 1 /\ calls'[Len(calls) + 1] = Called(c)
    BY <1>1, <1>2, <1>4 DEF MatchInv, CallsOK
  <2>2. \A k \in 1 .. Len(calls) : calls'[k] = calls[k]
    BY <1>1, <1>2 DEF MatchInv, CallsOK
  <2>3. \A k \in 1 .. Len(calls') : FrameOK(calls'[k])
    BY <1>2, <1>4, <1>5, <2>1, <2>2 DEF MatchInv, CallsOK, FrameOK
  <2>4. \A k \in 1 .. Len(calls') : FrameOK(calls[k])'
    BY <1>5, <2>3 DEF FrameOK
  <2>5. calls # << >> /\ calls'[1] = calls[1]
    BY <1>2, <2>2 DEF Ask
  <2> QED BY <1>5, <2>1, <2>4, <2>5 DEF MatchInv, CallsOK
<1> QED BY <1>5, <1>6, OnlyCalls DEF MatchInv

(* The caller hears what the group means.                                  *)
LEMMA AnswerGroupKeeps ==
  ASSUME MatchInv, AnswerGroup
  PROVE  MatchInv'
<1> DEFINE n == Len(calls)
           top == Last(calls)
           heard(v) == Told(calls[n - 1], top.of, v)
<1>1. n \in Nat /\ n > 1 /\ calls # << >> /\ calls \in Seq(Frames)
  BY DEF MatchInv, CallsOK, AnswerGroup
<1>2. PICK v \in BOOLEAN :
        Answers(v) /\ calls' = [k \in 1 .. n - 1 |-> IF k = n - 1 THEN heard(v) ELSE calls[k]]
  BY DEF AnswerGroup
<1>3. top \in Frames /\ (v <=> Meaning(in)[top.of])
  BY <1>1, <1>2, TopCall
<1>4. calls[n - 1] \in Frames /\ FrameOK(calls[n - 1])
  BY <1>1 DEF MatchInv, CallsOK
<1>5. heard(v) \in Frames /\ FrameOK(heard(v)) /\ heard(v).of = calls[n - 1].of
  BY <1>3, <1>4 DEF Told, Frames, FrameOK
<1>6. UNCHANGED <<in, at, next, matched>>
  BY DEF AnswerGroup
<1>7. CallsOK'
  <2> HIDE DEF heard, top
  <2>1. calls' \in Seq(Frames) /\ Len(calls') = n - 1
    <3>1. \A k \in 1 .. n - 1 : (IF k = n - 1 THEN heard(v) ELSE calls[k]) \in Frames
      BY <1>1, <1>5
    <3> QED BY <1>1, <1>2, <3>1
  <2>2. \A k \in 1 .. n - 1 : FrameOK(calls'[k])
    BY <1>1, <1>2, <1>5 DEF MatchInv, CallsOK
  <2>3. calls'[1].of = calls[1].of /\ n - 1 >= 1
    BY <1>1, <1>2, <1>5
  <2>4. \A k \in 1 .. n - 1 : FrameOK(calls[k])'
    BY <2>2, <1>6 DEF FrameOK
  <2> QED BY <1>1, <1>6, <2>1, <2>3, <2>4 DEF MatchInv, CallsOK
<1> QED BY <1>6, <1>7, OnlyCalls DEF MatchInv

(* The rule is appended exactly when it applies.                           *)
LEMMA AnswerMatchKeeps ==
  ASSUME MatchInv, AnswerMatch
  PROVE  MatchInv'
<1>1. Len(calls) = 1 /\ calls # << >> /\ Last(calls) = calls[1]
  <2>1. Len(calls) = 1
    BY DEF AnswerMatch
  <2> QED BY <2>1 DEF Last
<1>2. PICK v \in BOOLEAN : Answers(v) /\ matched' = IF v THEN Append(matched, next) ELSE matched
  BY DEF AnswerMatch
<1>3. /\ UNCHANGED <<in, at>> /\ calls' = << >> /\ next' = next + 1 /\ at = "match"
      /\ next \in 1 .. Len(in.rules) /\ Len(in.rules) \in Nat /\ in \in Inputs
  BY <1>1, MatcherAssumption DEF MatcherAssumption, MatchInv, CallsOK, InPlace, AnswerMatch
<1>4. v <=> Applies(in.rules[next], in)
  <2>1. v <=> Meaning(in)[Last(calls).of]
    BY <1>1, <1>2, TopCall
  <2>2. Last(calls).of = in.rules[next].cond
    BY <1>1 DEF MatchInv, CallsOK
  <2>3. in.rules[next].enabled /\ ~Silenced(in.rules[next], in)
    BY <1>1 DEF MatchInv, CallsOK
  <2> QED BY <1>3, <2>1, <2>2, <2>3, SilenceMeant DEF MatchInv
<1>5. InPlace'
  BY <1>3 DEF MatchInv, InPlace
<1>6. CallsOK'
  BY <1>3 DEF CallsOK
<1>7. /\ matched \in Seq(1 .. next - 1) /\ Result = Chosen
      /\ \A k, m \in 1 .. Len(matched) : matched[k] = matched[m] => k = m
  BY DEF MatchInv, MatchedOK
<1>8. MatchedOK'
  <2>1. CASE v
    <3>1. matched' = Append(matched, next)
      BY <1>2, <2>1
    <3>2. /\ matched' \in Seq(1 .. next) /\ Len(matched') = Len(matched) + 1 /\ Len(matched) \in Nat
          /\ matched'[Len(matched) + 1] = next
          /\ \A k \in 1 .. Len(matched) : matched'[k] = matched[k] /\ matched[k] \in 1 .. next - 1
      BY <1>3, <1>7, <3>1
    <3>3. Result' = Result \cup {next}
      BY <3>2 DEF Result
    <3>4. Chosen' = Chosen \cup {next}
      BY <1>3, <1>4, <2>1 DEF Chosen
    <3>5. \A k, m \in 1 .. Len(matched') : matched'[k] = matched'[m] => k = m
      <4> SUFFICES ASSUME NEW k \in 1 .. Len(matched'), NEW m \in 1 .. Len(matched'),
                          matched'[k] = matched'[m]
                   PROVE  k = m
        OBVIOUS
      <4>1. CASE k = Len(matched) + 1 \/ m = Len(matched) + 1
        BY <1>3, <3>2, <4>1
      <4>2. CASE k # Len(matched) + 1 /\ m # Len(matched) + 1
        BY <1>7, <3>2, <4>2
      <4> QED BY <4>1, <4>2
    <3> QED BY <1>3, <1>7, <3>2, <3>3, <3>4, <3>5 DEF MatchedOK
  <2>2. CASE ~v
    <3>1. matched' = matched
      BY <1>2, <2>2
    <3>2. Chosen' = Chosen
      BY <1>3, <1>4, <2>2 DEF Chosen
    <3>3. matched \in Seq(1 .. next)
      BY <1>3, <1>7
    <3> QED BY <1>3, <1>7, <3>1, <3>2, <3>3 DEF MatchedOK, Result
  <2> QED BY <2>1, <2>2
<1> QED BY <1>5, <1>6, <1>8 DEF MatchInv

(* All rules have been seen when the sort begins.                          *)
LEMMA SortBeginsKeeps ==
  ASSUME MatchInv, SortBegins
  PROVE  MatchInv'
<1>1. /\ at' = "sort" /\ UNCHANGED <<in, next, calls, matched>> /\ calls = << >>
      /\ next = Len(in.rules) + 1
  BY MatcherAssumption DEF MatcherAssumption, MatchInv, InPlace, SortBegins
<1>2. InPlace'
  BY <1>1 DEF MatchInv, InPlace
<1>3. CallsOK'
  BY <1>1 DEF CallsOK
<1>4. MatchedOK'
  BY <1>1 DEF MatchInv, MatchedOK, Result, Chosen
<1> QED BY <1>2, <1>3, <1>4 DEF MatchInv

(* An exchange keeps what is in the list.                                  *)
LEMMA Exchange ==
  ASSUME NEW S, NEW s \in Seq(S), NEW p \in 1 .. Len(s), NEW q \in 1 .. Len(s)
  PROVE  LET t == [s EXCEPT ![p] = s[q], ![q] = s[p]]
         IN  /\ t \in Seq(S) /\ Len(t) = Len(s)
             /\ \A k \in 1 .. Len(s) : t[k] = IF k = q THEN s[p] ELSE IF k = p THEN s[q] ELSE s[k]
             /\ {t[k] : k \in 1 .. Len(t)} = {s[k] : k \in 1 .. Len(s)}
             /\ (\A k, m \in 1 .. Len(s) : s[k] = s[m] => k = m)
                  => \A k, m \in 1 .. Len(t) : t[k] = t[m] => k = m
<1> DEFINE t == [s EXCEPT ![p] = s[q], ![q] = s[p]]
<1>1. t \in Seq(S) /\ Len(t) = Len(s)
  OBVIOUS
<1>2. \A k \in 1 .. Len(s) : t[k] = IF k = q THEN s[p] ELSE IF k = p THEN s[q] ELSE s[k]
  OBVIOUS
<1> HIDE DEF t
<1>3. {t[k] : k \in 1 .. Len(t)} = {s[k] : k \in 1 .. Len(s)}
  <2>1. \A k \in 1 .. Len(t) : \E m \in 1 .. Len(s) : t[k] = s[m]
    BY <1>1, <1>2
  <2>2. t[p] = s[q] /\ t[q] = s[p] /\ \A k \in 1 .. Len(s) : k # p /\ k # q => t[k] = s[k]
    BY <1>2
  <2>3. \A k \in 1 .. Len(s) : \E m \in 1 .. Len(t) : s[k] = t[m]
    BY <1>1, <2>2
  <2>4. {t[k] : k \in 1 .. Len(t)} \subseteq {s[k] : k \in 1 .. Len(s)}
    BY <2>1
  <2>5. {s[k] : k \in 1 .. Len(s)} \subseteq {t[k] : k \in 1 .. Len(t)}
    BY <2>3
  <2> QED BY <2>4, <2>5
<1>4. ASSUME \A k, m \in 1 .. Len(s) : s[k] = s[m] => k = m
      PROVE  \A k, m \in 1 .. Len(t) : t[k] = t[m] => k = m
  BY <1>1, <1>2, <1>4
<1> USE DEF t
<1> QED BY <1>1, <1>2, <1>3, <1>4

(* The sort: what is before left is in order, with nothing smaller behind  *)
(* it, and between left and right nothing is smaller than what is at left. *)
Listed == /\ InPlace
          /\ matched \in Seq(1 .. next - 1)
          /\ calls # << >> => at = "match" /\ next <= Len(in.rules)
Places == /\ left \in Nat \ {0} /\ right \in Nat /\ left < right
          /\ at = "match" => left = 1 /\ right = 2
Ordered == at # "match" =>
  /\ \A k, m \in 1 .. Len(matched) : k < left /\ k <= m => Prio(matched[k]) <= Prio(matched[m])
  /\ \A m \in 1 .. Len(matched) : left < m /\ m < right => Prio(matched[left]) <= Prio(matched[m])
SortInv == Listed /\ Places /\ Ordered /\ MatchedAreSorted

(* What is listed are rules, with priorities.                              *)
LEMMA Priorities ==
  ASSUME Listed
  PROVE  /\ Len(matched) \in Nat /\ Len(in.rules) \in Nat /\ next \in Nat \ {0} /\ in \in Inputs
         /\ \A k \in 1 .. Len(matched) : matched[k] \in 1 .. next - 1 /\ Prio(matched[k]) \in Nat
<1>1. Len(matched) \in Nat /\ Len(in.rules) \in Nat /\ next \in Nat \ {0} /\ in \in Inputs
  BY MatcherAssumption DEF MatcherAssumption, Listed, InPlace
<1>2. \A k \in 1 .. Len(matched) : matched[k] \in 1 .. next - 1
  <2> DEFINE S == 1 .. next - 1
  <2>1. matched \in Seq(S)
    BY DEF Listed
  <2> HIDE DEF S
  <2>2. \A k \in 1 .. Len(matched) : matched[k] \in S
    BY <2>1
  <2> QED BY <2>2 DEF S
<1>3. \A n \in 1 .. next - 1 : Prio(n) \in Nat
  BY <1>1, MatcherAssumption DEF MatcherAssumption, Listed, InPlace, Prio
<1> QED BY <1>1, <1>2, <1>3

(* Nothing is listed at first.                                             *)
LEMMA SortInvInit == MatchInit => SortInv
<1> SUFFICES ASSUME MatchInit PROVE SortInv
  OBVIOUS
<1>1. in \in Inputs /\ Len(in.rules) \in Nat
  BY MatcherAssumption DEF MatcherAssumption, MatchInit
<1>2. Listed
  BY <1>1 DEF MatchInit, Listed, InPlace
<1>3. Places /\ Ordered /\ MatchedAreSorted
  BY DEF MatchInit, Places, Ordered, MatchedAreSorted
<1> QED BY <1>2, <1>3 DEF SortInv

(* While rules are matched, the sort has not begun.                        *)
LEMMA StillMatching ==
  ASSUME SortInv, Listed', at' = "match", UNCHANGED <<left, right>>, at = "match"
  PROVE  SortInv'
BY DEF SortInv, Places, Ordered, MatchedAreSorted

(* After a comparison, what is at left is not above what was compared.     *)
LEMMA CompareSorts ==
  ASSUME SortInv, Compare
  PROVE  SortInv'
<1> DEFINE L == Len(matched)
           swapped == [matched EXCEPT ![left] = matched[right], ![right] = matched[left]]
           P(k) == Prio(matched[k])
<1>1. /\ at = "sort" /\ right <= L /\ right' = right + 1 /\ UNCHANGED <<in, at, next, calls, left>>
      /\ matched' = IF P(right) < P(left) THEN swapped ELSE matched
  BY DEF Compare
<1>2. /\ L \in Nat /\ left \in 1 .. L /\ right \in 1 .. L /\ left < right
      /\ \A k \in 1 .. L : P(k) \in Nat
  BY <1>1, Priorities DEF SortInv, Places
<1>3. /\ \A k, m \in 1 .. L : k < left /\ k <= m => P(k) <= P(m)
      /\ \A m \in 1 .. L : left < m /\ m < right => P(left) <= P(m)
  BY <1>1 DEF SortInv, Ordered
<1>4. Places' /\ MatchedAreSorted'
  BY <1>1, <1>2 DEF SortInv, Places, MatchedAreSorted
<1>5. matched \in Seq(1 .. next - 1)
  BY DEF SortInv, Listed
<1>6. /\ swapped \in Seq(1 .. next - 1) /\ Len(swapped) = L
      /\ \A k \in 1 .. L : swapped[k] = IF k = right THEN matched[left]
                                        ELSE IF k = left THEN matched[right] ELSE matched[k]
  <2> DEFINE S == 1 .. next - 1
  <2>1. matched \in Seq(S) /\ left \in 1 .. Len(matched) /\ right \in 1 .. Len(matched)
    BY <1>2, <1>5
  <2> HIDE DEF S
  <2>2. /\ swapped \in Seq(S) /\ Len(swapped) = L
        /\ \A k \in 1 .. L : swapped[k] = IF k = right THEN matched[left]
                                          ELSE IF k = left THEN matched[right] ELSE matched[k]
    BY <2>1, Exchange
  <2> QED BY <2>2 DEF S
<1>7. Listed'
  BY <1>1, <1>5, <1>6 DEF SortInv, Listed, InPlace
<1>8. Ordered'
  <2> DEFINE Q(k) == P(IF k = right THEN left ELSE IF k = left THEN right ELSE k)
  <2>1. CASE P(right) < P(left)
    <3>1. matched' = swapped /\ Len(matched') = L
      BY <1>1, <1>6, <2>1
    <3>2. \A k \in 1 .. L : Prio(matched[k])' = Q(k)
      BY <1>1, <1>2, <1>6, <3>1 DEF Prio
    <3>3. /\ Q(left) = P(right) /\ Q(right) = P(left)
          /\ \A k \in 1 .. L : k # left /\ k # right => Q(k) = P(k)
      BY <1>2
    <3> HIDE DEF P, Q, swapped
    <3>4. \A k, m \in 1 .. L : k < left /\ k <= m => Q(k) <= Q(m)
      BY <1>2, <1>3, <3>3
    <3>5. \A m \in 1 .. L : left < m /\ m < right + 1 => Q(left) <= Q(m)
      BY <1>2, <1>3, <2>1, <3>3
    <3> QED BY <1>1, <1>2, <3>1, <3>2, <3>4, <3>5 DEF Ordered
  <2>2. CASE ~(P(right) < P(left))
    <3>1. matched' = matched
      BY <1>1, <2>2
    <3>2. \A k \in 1 .. L : Prio(matched[k])' = P(k)
      BY <1>1, <3>1 DEF Prio
    <3>3. P(left) <= P(right)
      BY <1>2, <2>2
    <3> HIDE DEF P
    <3>4. \A m \in 1 .. L : left < m /\ m < right + 1 => P(left) <= P(m)
      BY <1>2, <1>3, <3>3
    <3> QED BY <1>1, <1>2, <1>3, <3>1, <3>2, <3>4 DEF Ordered
  <2> QED BY <2>1, <2>2
<1> QED BY <1>4, <1>7, <1>8 DEF SortInv

(* The place at left is settled when all behind it have been compared.     *)
LEMMA NextPlaceSorts ==
  ASSUME SortInv, NextPlace
  PROVE  SortInv'
<1> DEFINE L == Len(matched)
           P(k) == Prio(matched[k])
<1>1. at = "sort" /\ right > L /\ UNCHANGED <<in, next, calls, matched>>
  BY DEF NextPlace
<1>2. /\ L \in Nat /\ left \in Nat \ {0} /\ right \in Nat /\ left < right
      /\ \A k \in 1 .. L : P(k) \in Nat
  BY <1>1, Priorities DEF SortInv, Places
<1>3. /\ \A k, m \in 1 .. L : k < left /\ k <= m => P(k) <= P(m)
      /\ \A m \in 1 .. L : left < m /\ m < right => P(left) <= P(m)
  BY <1>1 DEF SortInv, Ordered
<1>4. \A k, m \in 1 .. L : k <= left /\ k <= m => P(k) <= P(m)
  <2> HIDE DEF P
  <2>1. ASSUME NEW k \in 1 .. L, NEW m \in 1 .. L, k = left, k <= m PROVE P(k) <= P(m)
    <3>1. CASE m = k
      BY <1>2, <3>1
    <3>2. CASE m > k
      BY <1>1, <1>2, <1>3, <2>1, <3>2
    <3> QED BY <1>2, <2>1, <3>1, <3>2
  <2> QED BY <1>2, <1>3, <2>1
<1>5. \A k \in 1 .. L : Prio(matched[k])' = P(k)
  BY <1>1 DEF Prio
<1>6. Listed'
  BY <1>1 DEF SortInv, Listed, InPlace, NextPlace
<1>7. CASE left < L
  <2>1. left' = left + 1 /\ right' = left + 2 /\ at' = at
    BY <1>7 DEF NextPlace
  <2>2. Places' /\ MatchedAreSorted'
    BY <1>1, <1>2, <2>1 DEF Places, MatchedAreSorted
  <2>3. Ordered'
    <3>1. \A k, m \in 1 .. L : k < left + 1 /\ k <= m => P(k) <= P(m)
      BY <1>2, <1>4
    <3>2. \A m \in 1 .. L : ~(left + 1 < m /\ m < left + 2)
      BY <1>2
    <3> HIDE DEF P
    <3> QED BY <1>1, <1>5, <2>1, <3>1, <3>2 DEF Ordered
  <2> QED BY <1>6, <2>2, <2>3 DEF SortInv
<1>8. CASE ~(left < L)
  <2>1. at' = "done" /\ UNCHANGED <<left, right>>
    BY <1>8 DEF NextPlace
  <2>2. Places'
    BY <1>2, <2>1 DEF Places
  <2> HIDE DEF P
  <2>3. \A k, m \in 1 .. L : k <= m => P(k) <= P(m)
    BY <1>2, <1>4, <1>8
  <2>4. MatchedAreSorted'
    BY <1>1, <1>5, <2>3 DEF MatchedAreSorted
  <2>5. Ordered'
    <3>1. \A m \in 1 .. L : ~(left < m)
      BY <1>2, <1>8
    <3> QED BY <1>1, <1>5, <2>1, <2>3, <3>1 DEF Ordered
  <2> QED BY <1>6, <2>2, <2>4, <2>5 DEF SortInv
<1> QED BY <1>7, <1>8

(* Every step keeps the order of what is sorted so far.                    *)
LEMMA SortInvStep == SortInv /\ [MatchNext]_mvars => SortInv'
<1> SUFFICES ASSUME SortInv, [MatchNext]_mvars PROVE SortInv'
  OBVIOUS
<1>0. /\ Len(in.rules) \in Nat /\ next \in Nat \ {0} /\ in \in Inputs
      /\ matched \in Seq(1 .. next - 1) /\ next <= Len(in.rules) + 1
  BY Priorities DEF SortInv, Listed, InPlace
<1>1. CASE Begin
  <2>1. CASE next' = next
    <3>1. Listed'
      BY <1>0, <1>1, <2>1 DEF Begin, SortInv, Listed, InPlace
    <3> QED BY <1>1, <3>1, StillMatching DEF Begin
  <2>2. CASE next' = next + 1 /\ calls' = calls
    <3>1. matched \in Seq(1 .. next)
      BY <1>0
    <3>2. Listed'
      BY <1>0, <1>1, <2>2, <3>1 DEF Begin, SortInv, Listed, InPlace
    <3> QED BY <1>1, <3>2, StillMatching DEF Begin
  <2> QED BY <1>1, <2>1, <2>2 DEF Begin
<1>2. CASE Ask
  <2>1. Listed' /\ at = "match"
    BY <1>2 DEF Ask, SortInv, Listed, InPlace
  <2> QED BY <1>2, <2>1, StillMatching DEF Ask
<1>3. CASE AnswerGroup
  <2>1. calls # << >>
    BY <1>3 DEF AnswerGroup
  <2>2. Listed' /\ at = "match"
    BY <1>3, <2>1 DEF AnswerGroup, SortInv, Listed, InPlace
  <2> QED BY <1>3, <2>2, StillMatching DEF AnswerGroup
<1>4. CASE AnswerMatch
  <2>1. calls # << >>
    BY <1>4 DEF AnswerMatch
  <2>2. at = "match" /\ next <= Len(in.rules) /\ next' = next + 1 /\ calls' = << >>
        /\ UNCHANGED <<in, at, left, right>> /\ (matched' = Append(matched, next) \/ matched' = matched)
    BY <1>4, <2>1 DEF AnswerMatch, SortInv, Listed
  <2>3. matched \in Seq(1 .. next) /\ Append(matched, next) \in Seq(1 .. next)
    BY <1>0
  <2>4. matched' \in Seq(1 .. next)
    BY <2>2, <2>3
  <2>5. next' - 1 = next /\ next' \in 1 .. Len(in.rules) + 1
    BY <1>0, <2>2
  <2>6. matched' \in Seq(1 .. next' - 1)
    BY <2>4, <2>5
  <2>7. Listed'
    BY <1>0, <2>2, <2>5, <2>6 DEF SortInv, Listed, InPlace
  <2> QED BY <2>2, <2>7, StillMatching
<1>5. CASE SortBegins
  <2>1. Listed'
    BY <1>5 DEF SortBegins, SortInv, Listed, InPlace
  <2>2. Places' /\ MatchedAreSorted'
    BY <1>5 DEF SortBegins, SortInv, Places, MatchedAreSorted
  <2>3. Ordered'
    <3>1. left' = 1 /\ right' = 2
      BY <1>5 DEF SortBegins, SortInv, Places
    <3> QED BY <3>1 DEF Ordered
  <2> QED BY <2>1, <2>2, <2>3 DEF SortInv
<1>6. CASE Compare
  BY <1>6, CompareSorts
<1>7. CASE NextPlace
  BY <1>7, NextPlaceSorts
<1>8. CASE UNCHANGED mvars
  BY <1>8 DEF mvars, SortInv, Listed, InPlace, Places, Ordered, MatchedAreSorted, Prio
<1> QED BY <1>1, <1>2, <1>3, <1>4, <1>5, <1>6, <1>7, <1>8 DEF MatchNext

(* MatchMultiple returns its rules in the order of their priorities, for   *)
(* any rules, whatever their conditions and times (the loops of            *)
(* matcher.go:286-293).                                                    *)
THEOREM MatcherSorts == MatchSpec => []MatchedAreSorted
<1>1. MatchSpec => []SortInv
  BY SortInvInit, SortInvStep, PTL DEF MatchSpec
<1>2. SortInv => MatchedAreSorted
  BY DEF SortInv
<1> QED BY <1>1, <1>2, PTL

(* An exchange changes neither the rules of the result nor their number.   *)
LEMMA CompareKeeps ==
  ASSUME SortInv, MatchInv, Compare
  PROVE  MatchInv'
<1> DEFINE swapped == [matched EXCEPT ![left] = matched[right], ![right] = matched[left]]
           S == 1 .. next - 1
<1>1. /\ UNCHANGED <<in, at, next, calls>> /\ (matched' = swapped \/ matched' = matched)
      /\ right <= Len(matched)
  BY DEF Compare
<1>2. left \in 1 .. Len(matched) /\ right \in 1 .. Len(matched) /\ matched \in Seq(S)
  BY <1>1, Priorities DEF SortInv, Places, Listed
<1>3. /\ Result = Chosen
      /\ \A k, m \in 1 .. Len(matched) : matched[k] = matched[m] => k = m
      /\ at # "match" => next = Len(in.rules) + 1
  BY DEF MatchInv, MatchedOK
<1>4. InPlace' /\ CallsOK'
  BY <1>1 DEF MatchInv, InPlace, CallsOK, FrameOK
<1>5. Chosen' = Chosen
  BY <1>1 DEF Chosen
<1>6. CASE matched' = matched
  BY <1>1, <1>2, <1>3, <1>4, <1>5, <1>6 DEF MatchInv, MatchedOK, Result
<1>7. CASE matched' = swapped
  <2> HIDE DEF S
  <2>1. /\ swapped \in Seq(S)
        /\ {swapped[k] : k \in 1 .. Len(swapped)} = {matched[k] : k \in 1 .. Len(matched)}
        /\ \A k, m \in 1 .. Len(swapped) : swapped[k] = swapped[m] => k = m
    BY <1>2, <1>3, Exchange
  <2> HIDE DEF swapped
  <2>2. Result' = Result
    BY <1>7, <2>1 DEF Result
  <2>3. S = 1 .. next' - 1
    BY <1>1 DEF S
  <2> QED BY <1>1, <1>3, <1>4, <1>5, <1>7, <2>1, <2>2, <2>3 DEF MatchInv, MatchedOK
<1> QED BY <1>1, <1>6, <1>7

(* Nor does the step to the next place.                                    *)
LEMMA NextPlaceKeeps ==
  ASSUME MatchInv, NextPlace
  PROVE  MatchInv'
<1>1. UNCHANGED <<in, next, calls, matched>> /\ at = "sort" /\ at' \in {"sort", "done"}
  BY DEF NextPlace
<1>2. calls = << >>
  BY <1>1 DEF MatchInv, CallsOK
<1>3. InPlace' /\ CallsOK'
  BY <1>1, <1>2 DEF MatchInv, InPlace, CallsOK
<1>4. MatchedOK'
  BY <1>1 DEF MatchInv, MatchedOK, Result, Chosen
<1> QED BY <1>3, <1>4 DEF MatchInv

(* Every step keeps what the calls have heard and what is listed.          *)
LEMMA MatchInvStep ==
  SortInv /\ MatchInv /\ [MatchNext]_mvars => MatchInv'
<1> SUFFICES ASSUME SortInv, MatchInv, [MatchNext]_mvars PROVE MatchInv'
  OBVIOUS
<1>1. CASE Begin
  BY <1>1, BeginKeeps
<1>2. CASE Ask
  BY <1>2, AskKeeps
<1>3. CASE AnswerGroup
  BY <1>3, AnswerGroupKeeps
<1>4. CASE AnswerMatch
  BY <1>4, AnswerMatchKeeps
<1>5. CASE SortBegins
  BY <1>5, SortBeginsKeeps
<1>6. CASE Compare
  BY <1>6, CompareKeeps
<1>7. CASE NextPlace
  BY <1>7, NextPlaceKeeps
<1>8. CASE UNCHANGED mvars
  BY <1>8 DEF mvars, MatchInv, InPlace, CallsOK, FrameOK, MatchedOK, Result, Chosen
<1> QED BY <1>1, <1>2, <1>3, <1>4, <1>5, <1>6, <1>7, <1>8 DEF MatchNext

(* The result, when the sort is done, is what the rules mean.              *)
LEMMA MatchInvAgrees ==
  ASSUME SortInv, MatchInv
  PROVE  MatcherAgrees
<1>1. MatchedAreSorted
  BY DEF SortInv
<1>2. ASSUME at = "done"
      PROVE  /\ Result = {n \in 1 .. Len(in.rules) : Applies(in.rules[n], in)}
             /\ \A k, m \in 1 .. Len(matched) : matched[k] = matched[m] => k = m
  <2>1. next = Len(in.rules) + 1 /\ Len(in.rules) \in Nat
    BY <1>2, Priorities DEF MatchInv, MatchedOK, SortInv
  <2>2. 1 .. next - 1 = 1 .. Len(in.rules)
    BY <2>1
  <2> QED BY <2>2 DEF MatchInv, MatchedOK, Chosen
<1>3. MatchedApply
  BY <1>2 DEF MatchedApply
<1>4. TagsRequiredWhenFound
  <2> SUFFICES ASSUME at = "done", in.found, NEW n \in Result
               PROVE  TagsAsked[in.rules[n].cond] \subseteq in.tags
    BY DEF TagsRequiredWhenFound, TagsRequired
  <2>1. n \in 1 .. Len(in.rules) /\ Applies(in.rules[n], in)
    BY <1>2
  <2>2. in.rules[n].cond \in Conditions /\ Meaning(in)[in.rules[n].cond]
    BY <2>1, MatcherAssumption DEF MatcherAssumption, SortInv, Listed, InPlace, Applies
  <2> QED BY <2>2, AskedTagsHeld
<1> QED BY <1>1, <1>3, <1>4 DEF MatcherAgrees

(* MatchMultiple returns each rule that applies once and no other, in      *)
(* order, for any lists of rules, groups nested to any depth, alerts,      *)
(* moments, zones and times that the parser accepts: the early returns of  *)
(* matchConditions, its conversions, its comparisons of text and the       *)
(* exchanges change nothing of what the rules mean (a time written with    *)
(* one digit for its hour stands where Stands says); and a rule that asks  *)
(* for tags at any depth of all_of is returned only for a device that has  *)
(* them, if the device was found.                                          *)
THEOREM MatcherCorrect == MatchSpec => []MatcherAgrees
<1>1. MatchSpec => []SortInv
  BY SortInvInit, SortInvStep, PTL DEF MatchSpec
<1>2. MatchSpec /\ []SortInv => []MatchInv
  BY MatchInvInit, MatchInvStep, PTL DEF MatchSpec
<1>3. SortInv /\ MatchInv => MatcherAgrees
  BY MatchInvAgrees
<1> QED BY <1>1, <1>2, <1>3, PTL
=============================================================================
