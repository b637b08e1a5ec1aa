---------------------------- MODULE RateLimiter ----------------------------
(***************************************************************************)
(* The two rate limiters of api-gateway's middleware on Redis.  The first  *)
(* counts each request under one key after the other (global, address,     *)
(* organization, user or device), by INCR and EXPIRE; the second keeps the *)
(* times of the requests it admitted (ZSET).                               *)
(*                                                                         *)
(* Time is a number of ticks that pass; what is older than the window does *)
(* not matter to either limiter, so ages are kept in place of times.       *)
(***************************************************************************)
EXTENDS Integers, Sequences, FiniteSets, FiniteSetsExt

CONSTANTS
  Requests,      \* requests in progress at a time
  Clients,
  KeysOf,        \* the keys each client is counted under; none when it is whitelisted
  Limit,         \* the limit of each key
  Window,        \* TTLRateLimit, and the window of the second limiter
  SlidingLimit,
  Replies,       \* what becomes of a pipeline: "done", "refused", "unknown", "half"
  Errors,        \* whether commands of the second limiter may fail
  MaxUnseen      \* bound: requests in a window that a failed ZCARD lets pass

Keys == DOMAIN Limit
Ages == 0 .. Window - 1

ASSUME LimiterAssumption ==
  /\ IsFiniteSet(Requests) /\ Window \in Nat \ {0} /\ SlidingLimit \in Nat \ {0}
  /\ \A k \in Keys : Limit[k] \in Nat \ {0}
  /\ KeysOf \in [Clients -> Seq(Keys)] /\ MaxUnseen \in Nat
  /\ Replies \subseteq {"done", "refused", "unknown", "half"} /\ Errors \subseteq BOOLEAN

VARIABLES
  counter,   \* the count of each key and the ticks until it expires
  zset,      \* how many requests recorded after a count have each age
  unseen,    \* the same of those recorded because the count had failed
  request,   \* what is left to do of each request
  granted,   \* history: how many requests of each age each key let pass
  rested,    \* history: ticks since each key was last used, at most Window
  bare       \* history: keys that have no expiry because an EXPIRE was lost

limVars == <<counter, zset, unseen, request, granted, rested, bare>>

NoKey  == [count |-> 0, ttl |-> 0]
Nobody == [at |-> "idle", keys |-> << >>, age |-> 0]
Never  == Window + 1    \* a key without an expiry

LimInit ==
  /\ counter = [k \in Keys |-> NoKey]
  /\ zset = [a \in Ages |-> 0] /\ unseen = [a \in Ages |-> 0]
  /\ request = [r \in Requests |-> Nobody]
  /\ granted = [k \in Keys |-> [a \in Ages |-> 0]]
  /\ rested = [k \in Keys |-> Window] /\ bare = {}

Becomes(r, s) == request' = [request EXCEPT ![r] = s]
Reaches(r, stage) == Becomes(r, [request[r] EXCEPT !.at = stage])

(* The middleware: a client without keys goes through.                     *)
Middleware(r, c) ==
  /\ request[r] = Nobody /\ KeysOf[c] # << >>
  /\ Becomes(r, [Nobody EXCEPT !.at = "count", !.keys = KeysOf[c]])
  /\ UNCHANGED <<counter, zset, unseen, granted, rested, bare>>

-----------------------------------------------------------------------------
(* IncrementRateLimit sends INCR and EXPIRE in one pipeline, which is no   *)
(* transaction: between the two Redis does the commands of other requests, *)
(* and the key may expire.  Counts above the limit are all alike.          *)
Capped(n, k) == IF n > Limit[k] THEN Limit[k] + 1 ELSE n
OldTTL(k)    == IF counter[k].count = 0 THEN Never ELSE counter[k].ttl
Exceeds(n, k) == n > Limit[k]

Key(r)   == Head(request[r].keys)
Midway   == {"within", "over"}    \* INCR was done, EXPIRE was not

Incr(r) ==
  LET k == Key(r) IN
  /\ request[r].at = "count"
  /\ counter' = [counter EXCEPT ![k] = [count |-> Capped(counter[k].count + 1, k), ttl |-> OldTTL(k)]]
  /\ rested' = [rested EXCEPT ![k] = 0]
  /\ Reaches(r, IF Exceeds(counter[k].count + 1, k) THEN "over" ELSE "within")
  /\ UNCHANGED <<zset, unseen, granted, bare>>

(* EXPIRE of a key that is gone does nothing, and that is no error.        *)
NoTTL     == Never
ExpireTTL == Window

Expire(r) ==
  LET k == Key(r) IN
  IF counter[k].count = 0 THEN UNCHANGED <<counter, rested, bare>>
  ELSE /\ counter' = [counter EXCEPT ![k].ttl = ExpireTTL]
       /\ rested' = [rested EXCEPT ![k] = 0]
       /\ bare' = bare \ {k}

(* A request that a key lets pass goes on to the next key, or to the       *)
(* handler; one over the limit is answered 429.                            *)
Counted(r) ==
  LET k == Key(r)
      rest == Tail(request[r].keys)
  IN
  /\ request[r].at \in Midway /\ Expire(r)
  /\ \/ /\ request[r].at = "over"
        /\ Reaches(r, "limited") /\ UNCHANGED granted
     \/ /\ request[r].at = "within"
        /\ granted' = [granted EXCEPT ![k][0] = @ + 1]
        /\ Becomes(r, [request[r] EXCEPT !.at = IF rest = << >> THEN "handled" ELSE "count",
                                         !.keys = rest])
  /\ UNCHANGED <<zset, unseen>>

(* A pipeline whose execution fails has done none of its commands, both,   *)
(* or the first.  The client of Redis sends it again, or gives up: then    *)
(* the request is answered 429 as well.                                    *)
Failed(r, reply) ==
  LET k == Key(r) IN
  /\ \/ /\ reply = "refused" /\ request[r].at = "count"
        /\ UNCHANGED <<counter, rested, bare>>
     \/ /\ reply = "unknown" /\ request[r].at \in Midway
        /\ Expire(r)
     \/ /\ reply = "half" /\ request[r].at \in Midway
        /\ bare' = IF counter[k].ttl = Never THEN bare \cup {k} ELSE bare
        /\ UNCHANGED <<counter, rested>>
  /\ Reaches(r, "count") \/ Reaches(r, "failed")
  /\ UNCHANGED <<zset, unseen, granted>>

Answer(r) ==
  /\ request[r].at \in {"failed", "limited", "handled"}
  /\ Becomes(r, Nobody)
  /\ UNCHANGED <<counter, zset, unseen, granted, rested, bare>>

-----------------------------------------------------------------------------
(* The sliding window: what has left the window is removed, what is in it  *)
(* is counted.  A count that fails lets the request pass.  (A removal that *)
(* fails only refuses more.)                                               *)
Members(f) == UNION {{a} \X (1 .. f[a]) : a \in Ages}
Total(f)   == Cardinality(Members(f))

AboveFull == Total(zset) + Total(unseen) > SlidingLimit
Full      == Total(zset) + Total(unseen) >= SlidingLimit

SlidingCheck(r, lost) ==
  /\ request[r] = Nobody
  /\ \/ ~lost /\ ~Full
     \/ lost /\ Total(unseen) + Cardinality({q \in Requests : request[q].at = "blind"}) < MaxUnseen
  /\ Becomes(r, [Nobody EXCEPT !.at = IF lost THEN "blind" ELSE "add"])
  /\ UNCHANGED <<counter, zset, unseen, granted, rested, bare>>

(* The request is recorded later, with the time of the check.              *)
Entered(f, r) == IF request[r].age \in Ages THEN [f EXCEPT ![request[r].age] = @ + 1] ELSE f

SlidingAdd(r, lost) ==
  /\ request[r].at \in {"add", "blind"}
  /\ zset' = IF ~lost /\ request[r].at = "add" THEN Entered(zset, r) ELSE zset
  /\ unseen' = IF ~lost /\ request[r].at = "blind" THEN Entered(unseen, r) ELSE unseen
  /\ Becomes(r, Nobody)
  /\ UNCHANGED <<counter, granted, rested, bare>>

-----------------------------------------------------------------------------
Older(f) == [a \in Ages |-> IF a = 0 THEN 0 ELSE f[a - 1]]
Older1(n) == IF n < Window THEN n + 1 ELSE Window

Tick ==
  /\ counter' = [k \in Keys |-> CASE counter[k].ttl = Never -> counter[k]
                                  [] counter[k].ttl \in {0, 1} -> NoKey
                                  [] OTHER -> [counter[k] EXCEPT !.ttl = @ - 1]]
  /\ zset' = Older(zset) /\ unseen' = Older(unseen)
  /\ granted' = [k \in Keys |-> Older(granted[k])]
  /\ rested' = [k \in Keys |-> Older1(rested[k])]
  /\ request' = [r \in Requests |-> IF request[r].at \in {"add", "blind"}
                                    THEN [request[r] EXCEPT !.age = Older1(@)] ELSE request[r]]
  /\ UNCHANGED bare

KeysNext ==
  \/ \E r \in Requests : Answer(r) \/ \E c \in Clients : Middleware(r, c)
  \/ \E r \in Requests : Incr(r) \/ ("done" \in Replies /\ Counted(r))
  \/ \E r \in Requests, reply \in Replies : Failed(r, reply)

SlidingNext ==
  \E r \in Requests, lost \in Errors : SlidingCheck(r, lost) \/ SlidingAdd(r, lost)

LimNext == KeysNext \/ SlidingNext \/ Tick

LimSpec == LimInit /\ [][LimNext]_limVars

-----------------------------------------------------------------------------
LimTypeOK ==
  /\ counter \in [Keys -> [count : Nat, ttl : 0 .. Never]]
  /\ \A k \in Keys : counter[k].count <= Limit[k] + 1 /\ (counter[k].count = 0 <=> counter[k].ttl = 0)
  /\ zset \in [Ages -> Nat] /\ unseen \in [Ages -> Nat]
  /\ granted \in [Keys -> [Ages -> Nat]] /\ rested \in [Keys -> 0 .. Window] /\ bare \subseteq Keys
  /\ \A r \in Requests :
       request[r].at \in Midway \cup {"idle", "count", "add", "blind", "failed", "limited", "handled"}

(* In any period of one window a key lets pass its limit and no more than  *)
(* one request beyond it for each that can be between INCR and EXPIRE when *)
(* the key expires: that one is counted under a key that is gone.          *)
WindowRespected == \A k \in Keys : Total(granted[k]) <= Limit[k] + Cardinality(Requests)

(* The second limiter counts first and records later: the requests that    *)
(* were admitted on a count and recorded exceed the limit by fewer than    *)
(* can check at the same time, whatever a failed count lets pass besides.  *)
SlidingBound == Total(zset) <= SlidingLimit + Cardinality(Requests) - 1

(* What the two limiters let pass in a window.                             *)
LimitsRespected == WindowRespected /\ SlidingBound

Using(k) == {r \in Requests : request[r].at \in Midway /\ Key(r) = k}

(* A request is found over the limit of a key only when the key was used   *)
(* less than a window ago, when another request that used it has yet to    *)
(* set its expiry, or when such an EXPIRE was lost.                        *)
OverForCause ==
  [][\A r \in Requests : request[r].at = "count" /\ request'[r].at = "over" =>
       rested[Key(r)] < Window \/ Using(Key(r)) # {} \/ Key(r) \in bare]_limVars

(* No key lets more requests pass in a window than its limit.              *)
WindowKept == \A k \in Keys : Total(granted[k]) <= Limit[k]

(* Who is answered 429 and waits as long as Retry-After says is served.    *)
RestedIsServed ==
  [][\A r \in Requests : request'[r].at \in {"limited", "failed"} /\ request'[r].at # request[r].at =>
       rested[Key(r)] < Window]_limVars

(* The second limiter admits no more than its limit in a window.           *)
SlidingRespected == Total(zset) + Total(unseen) <= SlidingLimit

(* A key shared by all clients is used up by requests that are served.     *)
OnlyServedCount ==
  [][\A r \in Requests : request[r].at = "count" /\ request'[r].at = "over" =>
       LET served == {KeysOf[c][Len(KeysOf[c])] : c \in {d \in Clients : KeysOf[d] # << >>}}
       IN Key(r) \notin served =>
            MapThenSumSet(LAMBDA j : Total(granted[j]), served) >= Limit[Key(r)]]_limVars
=============================================================================
