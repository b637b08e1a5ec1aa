------------------------------ MODULE MCRules ------------------------------
(* The rule engine and the matcher it calls in one run: a behaviour is one *)
(* of the engine or a call of MatchMultiple.                               *)
EXTENDS MCRuleEngine, MCRuleMatcher

VARIABLE part

RulesInit ==
  /\ Init
  /\ \/ part = "engine" /\ at = "never"
        /\ in = 0 /\ next = 0 /\ calls = 0 /\ matched = 0 /\ left = 0 /\ right = 0
     \/ part = "matcher" /\ file = (CHOOSE f \in Files : TRUE) /\ MatchInit

RulesNext ==
  \/ part = "engine" /\ Next /\ UNCHANGED <<part, mvars>>
  \/ part = "matcher" /\ MatchNext /\ UNCHANGED <<part, rvars>>

RulesSpec == RulesInit /\ [][RulesNext]_<<part, mvars, rvars>>
=============================================================================
