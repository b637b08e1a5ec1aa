---------------------------- MODULE RuleMatcher ----------------------------
(***************************************************************************)
(* The matcher of the rule engine: one call of MatchMultiple, which tests  *)
(* the rules one after the other and sorts those that match.  The groups   *)
(* of conditions of a rule nest, and the calls of matchConditions with     *)
(* them: a call ends at the first test that fails.                         *)
(*                                                                         *)
(* A time of day is compared as TEXT in the code, so it is the sequence of *)
(* its characters' ranks here: a digit is its value, the colon 10 (it      *)
(* follows '9' in ASCII).  The moment of the call is a minute of the week  *)
(* in UTC, from Sunday's midnight, with the offset that each time zone has *)
(* at that moment.  Severities, types, devices, tags and messages are      *)
(* opaque; a message pattern is the set of messages it matches, empty when *)
(* it does not compile.                                                    *)
(***************************************************************************)
EXTENDS Integers, Sequences, SequencesExt

CONSTANTS Ranges,         \* ranges of the time of day, as the file has them
          Zones,          \* time zones that LoadLocation knows by name
          Conditions,     \* groups of conditions, with all those inside them
          Depth, Nesting, \* how deep a group nests, and a bound of it
          Inputs,         \* the rules, with the alert, its device and the time
          Nothing         \* no device / no restriction / the server's zone

VARIABLES in,          \* what MatchMultiple was called with
          at,          \* "match", "sort" or "done"
          next,        \* the rule that Match is called with
          calls,       \* the calls of matchConditions that have not returned
          matched,     \* the rules that match, by their place in the list
          left, right \* the places that the sort compares
mvars == <<in, at, next, calls, matched, left, right>>

Groups(c) == c.allOf \cup c.anyOf \cup c.noneOf

OfDay  == 0 .. 1439
OfWeek == 0 .. 10079

(* t.Format("15:04"): two digits, a colon, two digits.  A time of the      *)
(* rules file may have its hour written with one digit: time.Parse("15:04",*)
(* ...) of validateTimeRange takes it, and the text is kept as written.    *)
Format(m)   == LET h == m \div 60
                   n == m % 60
               IN  <<h \div 10, h % 10, 10, n \div 10, n % 10>>
OneDigit(m) == Tail(Format(m))
Accepted    == {Format(m) : m \in OfDay} \cup {OneDigit(m) : m \in 0 .. 599}

(* Groups of a file nest finitely deep; times are those validateTimeRange  *)
(* accepts, and no zone is a day away from UTC.                            *)
ASSUME MatcherAssumption ==
  /\ Nesting \in Nat
  /\ \A c \in Conditions :
       /\ Depth[c] \in 0 .. Nesting
       /\ \A s \in Groups(c) : s \in Conditions /\ Depth[s] < Depth[c]
       /\ c.time \in Ranges \cup {Nothing}
  /\ \A tr \in Ranges :
       /\ tr.start \in Accepted /\ tr.end \in Accepted
       /\ tr.days \subseteq 0 .. 6
  /\ \A x \in Inputs :
       /\ x.now \in OfWeek
       /\ \A z \in Zones \cup {Nothing} : x.offset[z] \in -1439 .. 1439
       /\ Len(x.rules) \in Nat
       /\ \A k \in 1 .. Len(x.rules) :
            /\ x.rules[k].prio \in Nat /\ x.rules[k].cond \in Conditions
            /\ x.rules[k].silence.ranges \subseteq Ranges

-----------------------------------------------------------------------------
(* Go's <= on strings: they agree up to where the first one ends or has    *)
(* the smaller character.                                                  *)
TextLeq(s, t) ==
  \E k \in 1 .. Len(s) + 1 :
    /\ \A p \in 1 .. k - 1 : p <= Len(t) /\ s[p] = t[p]
    /\ k <= Len(s) => k <= Len(t) /\ s[k] < t[k]

(* timestamp.In(loc): a name that LoadLocation does not know, which only    *)
(* the groups inside a rule's conditions get past the parser, leaves the   *)
(* server's own zone.                                                      *)
Location(tr)   == IF tr.zone \in Zones THEN tr.zone ELSE Nothing
LocalTime(tr, x) == (x.now + x.offset[Location(tr)]) % 10080

NoMidnight(tr, x) ==
  LET t   == LocalTime(tr, x)
      now == Format(t % 1440)
  IN  /\ tr.days # {} => t \div 1440 \in tr.days
      /\ TextLeq(tr.start, now) /\ TextLeq(now, tr.end)
MatchTimeRange(tr, x) ==
  LET t   == LocalTime(tr, x)
      now == Format(t % 1440)
  IN  /\ tr.days # {} => t \div 1440 \in tr.days
      /\ IF TextLeq(tr.start, tr.end)
         THEN TextLeq(tr.start, now) /\ TextLeq(now, tr.end)
         ELSE TextLeq(tr.start, now) \/ TextLeq(now, tr.end)

Silenced(r, x) == r.silence.on /\ \E tr \in r.silence.ranges : MatchTimeRange(tr, x)

(* What matchConditions tests itself.  The fields of an alert whose device *)
(* is unknown are not tested: DeviceIDs when the alert has none,           *)
(* DeviceTags when the repository did not return the device.               *)
Fields(c, x) ==
  /\ c.severity # {} => x.severity \in c.severity
  /\ c.types # {} => x.type \in c.types
  /\ c.devices # {} /\ x.device # Nothing => x.device \in c.devices \/ "*" \in c.devices
  /\ c.tags # {} /\ x.found => c.tags \subseteq x.tags
  /\ c.messages # Nothing => x.message \in c.messages
  /\ c.metadata \subseteq x.metadata
InTime(c, x) == c.time # Nothing => MatchTimeRange(c.time, x)

-----------------------------------------------------------------------------
(* A call of matchConditions, with the groups that were true and that were *)
(* not.  It goes through the groups of all_of, any_of and none_of in turn  *)
(* and then tests the fields.                                              *)
Called(c) == [of |-> c, yes |-> {}, no |-> {}]
Told(f, c, v) == IF v THEN [f EXCEPT !.yes = @ \cup {c}] ELSE [f EXCEPT !.no = @ \cup {c}]

AllHold(f)  == f.of.allOf \subseteq f.yes
AnyHolds(f) == f.of.anyOf = {} \/ f.of.anyOf \cap f.yes # {}

Asks(f) == IF ~AllHold(f) THEN f.of.allOf \ f.yes
           ELSE IF ~AnyHolds(f) THEN f.of.anyOf \ f.no
           ELSE f.of.noneOf \ f.no
Holds(f) == AllHold(f) /\ AnyHolds(f) /\ f.of.noneOf \subseteq f.no
              /\ Fields(f.of, in) /\ InTime(f.of, in)
Fails(f) ==
  \/ f.of.allOf \cap f.no # {}
  \/ AllHold(f) /\ f.of.anyOf # {} /\ f.of.anyOf \subseteq f.no
  \/ AllHold(f) /\ AnyHolds(f) /\ f.of.noneOf \cap f.yes # {}
  \/ AllHold(f) /\ AnyHolds(f) /\ f.of.noneOf \subseteq f.no
       /\ ~(Fields(f.of, in) /\ InTime(f.of, in))

Answers(v) == calls # << >> /\ IF v THEN Holds(Last(calls)) ELSE Fails(Last(calls))

MatchInit ==
  /\ in \in Inputs
  /\ at = "match" /\ next = 1 /\ calls = << >> /\ matched = << >> /\ left = 1 /\ right = 2

(* Match begins with the next rule: one that is disabled or silent now     *)
(* does not match, the conditions of another one are tested.               *)
Begin ==
  /\ at = "match" /\ calls = << >> /\ next <= Len(in.rules)
  /\ IF in.rules[next].enabled /\ ~Silenced(in.rules[next], in)
     THEN calls' = <<Called(in.rules[next].cond)>> /\ UNCHANGED next
     ELSE next' = next + 1 /\ UNCHANGED calls
  /\ UNCHANGED <<in, at, matched, left, right>>

(* matchConditions calls itself with a group, and answers its caller.      *)
Ask ==
  /\ calls # << >> /\ ~Fails(Last(calls))
  /\ \E c \in Asks(Last(calls)) : calls' = Append(calls, Called(c))
  /\ UNCHANGED <<in, at, next, matched, left, right>>
AnswerGroup ==
  /\ Len(calls) > 1
  /\ \E v \in BOOLEAN :
       /\ Answers(v)
       /\ calls' = [k \in 1 .. Len(calls) - 1 |->
                      IF k = Len(calls) - 1 THEN Told(calls[k], Last(calls).of, v) ELSE calls[k]]
  /\ UNCHANGED <<in, at, next, matched, left, right>>
AnswerMatch ==
  /\ Len(calls) = 1
  /\ \E v \in BOOLEAN : Answers(v) /\ matched' = IF v THEN Append(matched, next) ELSE matched
  /\ calls' = << >> /\ next' = next + 1
  /\ UNCHANGED <<in, at, left, right>>

(* MatchMultiple sorts by exchanging every pair that is out of order.      *)
Prio(n) == in.rules[n].prio
SortBegins ==
  /\ at = "match" /\ calls = << >> /\ next > Len(in.rules)
  /\ at' = "sort"
  /\ UNCHANGED <<in, next, calls, matched, left, right>>
Compare ==
  /\ at = "sort" /\ right <= Len(matched)
  /\ matched' = IF Prio(matched[right]) < Prio(matched[left])
                THEN [matched EXCEPT ![left] = matched[right], ![right] = matched[left]]
                ELSE matched
  /\ right' = right + 1
  /\ UNCHANGED <<in, at, next, calls, left>>
NextPlace ==
  /\ at = "sort" /\ right > Len(matched)
  /\ IF left < Len(matched) THEN left' = left + 1 /\ right' = left + 2 /\ UNCHANGED at
                         ELSE at' = "done" /\ UNCHANGED <<left, right>>
  /\ UNCHANGED <<in, next, calls, matched>>

MatchNext == Begin \/ Ask \/ AnswerGroup \/ AnswerMatch \/ SortBegins \/ Compare \/ NextPlace
MatchSpec == MatchInit /\ [][MatchNext]_mvars

-----------------------------------------------------------------------------
(* What a rules file means.  A range is the interval of the day from its  *)
(* start to its end, through midnight when it ends earlier than it starts, *)
(* on each of its days as they are counted in its zone.  A time written    *)
(* with two digits stands for its minute.  One written with one is not     *)
(* compared by its hour but by that digit: it stands after every time of   *)
(* two digits whose hour begins with it.  (In half minutes, so that it is  *)
(* between the minutes.)                                                   *)
Minutes(s) == LET colon == IF s[2] = 10 THEN 2 ELSE 3
                  hour  == IF colon = 2 THEN s[1] ELSE 10 * s[1] + s[2]
              IN  60 * hour + 10 * s[colon + 1] + s[colon + 2]
Stands(s)  == IF s[2] # 10 THEN 2 * Minutes(s)
              ELSE IF s[1] < 2 THEN 1200 * (s[1] + 1) - 1 ELSE 2879
NotAfter(s, t) ==
  Stands(s) < Stands(t) \/ (Stands(s) = Stands(t) /\ Minutes(s) <= Minutes(t))

(* Minutes since a day of the week began in the zone of the range.         *)
Since(d, tr, x) == (x.now - (1440 * d - x.offset[Location(tr)])) % 10080

(* A minute in an interval between two places, through midnight or not.    *)
Between(m, s, e, sameDay) ==
  IF sameDay THEN s <= m /\ m <= e ELSE s <= m \/ m <= e

InRange(tr, x) ==
  \E d \in IF tr.days = {} THEN 0 .. 6 ELSE tr.days :
    /\ Since(d, tr, x) \in OfDay
    /\ Between(2 * Since(d, tr, x), Stands(tr.start), Stands(tr.end), NotAfter(tr.start, tr.end))

(* A group holds when its fields, all groups of its all_of, one of its     *)
(* any_of and none of its none_of do.                                      *)
Meaning(x) ==
  LET holds[c \in Conditions] ==
        /\ \A s \in c.allOf : holds[s]
        /\ c.anyOf # {} => \E s \in c.anyOf : holds[s]
        /\ \A s \in c.noneOf : ~holds[s]
        /\ Fields(c, x) /\ (c.time # Nothing => InRange(c.time, x))
  IN  holds

Applies(r, x) ==
  /\ r.enabled
  /\ r.silence.on => \A tr \in r.silence.ranges : ~InRange(tr, x)
  /\ Meaning(x)[r.cond]

(* The tags a group asks for, itself or through its all_of groups.         *)
TagsAsked[c \in Conditions] == c.tags \cup UNION {TagsAsked[s] : s \in c.allOf}

Result == {matched[k] : k \in 1 .. Len(matched)}

(* MatchMultiple returns the rules that apply, each once: its early        *)
(* returns, its conversions to other zones, its comparisons of text and    *)
(* its exchanges neither lose nor add one.                                 *)
MatchedApply ==
  at = "done" =>
    /\ Result = {n \in 1 .. Len(in.rules) : Applies(in.rules[n], in)}
    /\ \A k, m \in 1 .. Len(matched) : matched[k] = matched[m] => k = m

(* The exchanges sort the matched rules by priority.                       *)
MatchedAreSorted ==
  at = "done" => \A k, m \in 1 .. Len(matched) : k <= m => Prio(matched[k]) <= Prio(matched[m])

(* A rule restricted to device tags, at whatever depth of all_of, matches  *)
(* only alerts of devices that have all of them.                           *)
TagsRequired ==
  at = "done" => \A n \in Result : TagsAsked[in.rules[n].cond] \subseteq in.tags

(* It does when the repository has returned the alert's device.            *)
TagsRequiredWhenFound == at = "done" /\ in.found => TagsRequired

(* "HH:MM": a rule does not match within a range in which it is silent, by *)
(* the clock and however the hours of the range are written.               *)
SilentByTheClock ==
  at = "done" =>
    \A n \in Result : in.rules[n].silence.on =>
      \A tr \in in.rules[n].silence.ranges :
        ~ \E d \in IF tr.days = {} THEN 0 .. 6 ELSE tr.days :
            LET s == Minutes(tr.start)
                e == Minutes(tr.end)
            IN  Since(d, tr, in) \in OfDay /\ Between(Since(d, tr, in), s, e, s <= e)

(* The matcher returns what its rules mean, in order, and only what has    *)
(* the tags asked for.                                                     *)
MatcherAgrees == MatchedApply /\ MatchedAreSorted /\ TagsRequiredWhenFound
=============================================================================
