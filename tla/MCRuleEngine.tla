---------------------------- MODULE MCRuleEngine ----------------------------
(* Instances of RuleEngine for TLC: two alerts of two devices, and rules   *)
(* files in the manner of alert-rules.yaml.                                *)
EXTENDS RuleEngine

CONSTANTS a1, a2, d1, d2

Order   == <<a1, a2>>
Devices == [a \in {a1, a2} |-> IF a = a1 THEN d1 ELSE d2]

Basic   == [id |-> "r", enabled |-> TRUE, prio |-> 10, matches |-> {a1, a2},
            timed |-> FALSE, actions |-> <<TRUE>>, limit |-> Null, esc |-> Null]
Esc     == [on |-> TRUE, wait |-> 1, to |-> <<TRUE>>, every |-> 1, max |-> 1]
Lim(n, w, s) == [max |-> n, win |-> w, scope |-> s]

PerDevice == [Basic EXCEPT !.id = "dev", !.prio = 20, !.timed = TRUE,
                          !.limit = Lim(1, 2, "per_device")]
PerRule   == [Basic EXCEPT !.id = "rule", !.limit = Lim(2, 2, "")]
Strict    == [PerDevice EXCEPT !.id = "strict", !.prio = 30, !.timed = FALSE,
                               !.limit = Lim(1, 2, "per_device")]
Lax       == [PerDevice EXCEPT !.id = "lax", !.timed = FALSE,
                               !.limit = Lim(2, 2, "per_device")]
Escalate  == [Basic EXCEPT !.id = "esc", !.esc = Esc]
Twice     == [Escalate EXCEPT !.esc.max = 2]
NextOne   == [Escalate EXCEPT !.id = "next", !.prio = 20]
Limited   == [Escalate EXCEPT !.limit = Lim(1, 2, "per_rule")]
Forever   == [Basic EXCEPT !.id = "esc", !.esc = [Esc EXCEPT !.every = 0]]
Unlisted  == [Basic EXCEPT !.id = "esc", !.esc = [Esc EXCEPT !.to = <<FALSE>>]]
Off       == [Basic EXCEPT !.id = "off", !.enabled = FALSE]

LimitFiles    == {{PerDevice, PerRule}, {PerRule}}
AckFiles      == {{Twice, NextOne}, {[Twice EXCEPT !.timed = TRUE], NextOne}}
LostFiles     == {{Twice}, {NextOne}}
SharedFiles   == {{Lax, [Strict EXCEPT !.prio = 30]}}
LimitedFiles  == {{Limited}}
ForeverFiles  == {{Forever}}
UnlistedFiles == {{Unlisted}}
OffFiles      == {{Basic, Off}}
=============================================================================
