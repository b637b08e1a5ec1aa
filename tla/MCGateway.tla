----------------------------- MODULE MCGateway -----------------------------
(* The three parts of the gateway that share nothing, the administration   *)
(* endpoints and the two rate limiters, checked in one run: a behaviour is *)
(* one of the console, one of the first limiter or one of the second.      *)
EXTENDS Console, RateLimiter, TLC

CONSTANTS c1, c2, c3, d1, d2, d3

VARIABLE part

Met    == {{d1, d2}, {d1, d3}}
\* A client of the global limit alone, a user's, and one that is whitelisted.
Scopes == (c1 :> <<"global">>) @@ (c2 :> <<"global", "user">>) @@ (c3 :> << >>)
OfUsers == [c \in {c1, c2, c3} |-> IF c = c3 THEN << >> ELSE <<"global", "user">>]
LimitOf == [global |-> 3, user |-> 1]
Present == {d1, d2}
Before  == {-1}
Symmetric == Permutations(Requests) \cup Permutations(Editors) \cup Permutations(Orgs)

GatewayInit == part \in {"console", "counting", "sliding"} /\ ConInit /\ LimInit

GatewayNext ==
  \/ part = "console" /\ ConNext /\ UNCHANGED <<part, limVars>>
  \/ part = "counting" /\ (KeysNext \/ Tick) /\ UNCHANGED <<part, conVars>>
  \/ part = "sliding" /\ (SlidingNext \/ Tick) /\ UNCHANGED <<part, conVars>>

GatewaySpec == GatewayInit /\ [][GatewayNext]_<<part, conVars, limVars>>
=============================================================================
