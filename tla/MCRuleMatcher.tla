--------------------------- MODULE MCRuleMatcher ---------------------------
(* Inputs of RuleMatcher for TLC. *)
EXTENDS RuleMatcher, FiniteSetsExt

Times == {60 * h + m : h \in {0, 1, 9, 10, 18, 20, 22}, m \in {0, 30, 59}}

AllDay     == [start |-> Format(0), end |-> Format(1439), days |-> {}, zone |-> Nothing]
NightRange == [AllDay EXCEPT !.start = Format(1320), !.end = Format(480), !.days = {1}]
Hours(T) == {Format(m) : m \in T} \cup {OneDigit(m) : m \in T \cap 0 .. 599}

(* Ranges of the server's own zone; ranges of other zones, one of them     *)
(* unknown to the server; and ranges with hours of one digit.              *)
SomeZones  == {"east", "west"}
SomeRanges ==
  {[AllDay EXCEPT !.start = Format(s), !.end = Format(e)] : s, e \in Times}
    \cup {[r EXCEPT !.zone = z] : r \in {NightRange, [AllDay EXCEPT !.days = {0, 2}]},
                                z \in {"east", "west", "unheard"}}
    \cup [start : Hours({0, 75, 540, 600}), end : Hours({90, 540, 545, 1080}), days : {{}}, zone : {Nothing}]
    \cup {NightRange}

(* Groups of the fields one by one, of two of them, and of those.          *)
Plain == [severity |-> {}, types |-> {}, devices |-> {}, tags |-> {}, messages |-> Nothing,
          metadata |-> {}, time |-> Nothing, allOf |-> {}, anyOf |-> {}, noneOf |-> {}]
Simple == {Plain, [Plain EXCEPT !.severity = {"high"}], [Plain EXCEPT !.types = {"offline"}],
           [Plain EXCEPT !.devices = {"d"}], [Plain EXCEPT !.devices = {"*"}],
           [Plain EXCEPT !.tags = {"prod"}], [Plain EXCEPT !.messages = {"m"}],
           [Plain EXCEPT !.messages = {}], [Plain EXCEPT !.metadata = {"k"}],
           [Plain EXCEPT !.time = NightRange], [Plain EXCEPT !.time = [NightRange EXCEPT !.zone = "east"]]}
Nested == {[Plain EXCEPT !.allOf = s] : s \in kSubset(2, Simple)}
            \cup {[Plain EXCEPT !.anyOf = s] : s \in kSubset(2, Simple)}
            \cup {[Plain EXCEPT !.noneOf = s] : s \in kSubset(1, Simple)}
Tagged  == [Plain EXCEPT !.tags = {"prod"}]
High    == [Plain EXCEPT !.severity = {"high"}]
NotHigh == [Plain EXCEPT !.noneOf = {High}]
Deeper == {[Plain EXCEPT !.allOf = {NotHigh, Tagged}], [Plain EXCEPT !.noneOf = {NotHigh}, !.tags = {"prod"}],
           [Plain EXCEPT !.anyOf = {NotHigh, Tagged}, !.noneOf = {High}]}

SomeConditions == Simple \cup Nested \cup Deeper
SomeDepth == [c \in SomeConditions |-> IF c \in Simple THEN 0 ELSE IF c \in Nested THEN 1 ELSE 2]

-----------------------------------------------------------------------------
(* The server is an hour ahead of UTC; the other zones are eight hours     *)
(* ahead and five and a half behind.                                       *)
SomeOffset == [z \in SomeZones \cup {Nothing} |->
                 CASE z = "east" -> 480 [] z = "west" -> -330 [] OTHER -> 60]

AnyAlert == [severity : {"high", "low"}, type : {"offline", "latency"}, device : {"d", Nothing},
             message : {"m", "n"}, metadata : {{}, {"k"}}, found : BOOLEAN, tags : {{}, {"prod"}},
             now : {1440 + 540, 1440 + 1320}, offset : {SomeOffset}]
(* No device is found for an alert without one, and none has no tags. *)
SomeAlerts == {x \in AnyAlert : (x.device = Nothing => ~x.found) /\ (~x.found => x.tags = {})}
OneAlert   == [severity |-> "high", type |-> "offline", device |-> "d", message |-> "m",
               metadata |-> {"k"}, found |-> TRUE, tags |-> {}, now |-> 0, offset |-> SomeOffset]

With(alert, rules) == alert @@ [rules |-> rules]
Always   == [prio |-> 1, enabled |-> TRUE, cond |-> Plain, silence |-> [on |-> FALSE, ranges |-> {}]]
At(m)    == [OneAlert EXCEPT !.now = m]

(* Minutes of Sunday, Monday and Tuesday about the bounds of the ranges,   *)
(* and the first and the last one of the week.                             *)
Moments == {1440 * d + m - 60 : d \in {1, 2}, m \in {0, 29, 30, 75, 539, 540, 541, 600, 1079, 1080, 1439}}
             \cup {0, 960, 2370, 10079}

(* A rule of one condition; a rule silent in one range; rules of any       *)
(* priorities, some of them disabled or silent.                            *)
CondInputs == {With(x, <<[Always EXCEPT !.cond = c]>>) : c \in SomeConditions, x \in SomeAlerts}
RangeInputs ==
  {With(At(m), <<[Always EXCEPT !.silence = [on |-> TRUE, ranges |-> {r}]]>>) :
     r \in Ranges, m \in Moments}
ManyRules == [prio : {1, 2, 3}, enabled : {TRUE}, cond : {Plain}, silence : {Always.silence}]
               \cup {[Always EXCEPT !.enabled = FALSE], [Always EXCEPT !.cond = NotHigh]}
SortInputs == {With(OneAlert, s) : s \in BoundedSeq(ManyRules, 4)}
SomeInputs == CondInputs \cup RangeInputs \cup SortInputs
=============================================================================
