--------------------------- MODULE NatCoordinator ---------------------------
(***************************************************************************)
(* NATCoordinator and the other writers of device rows in api-gateway:     *)
(* RefreshVirtualNetworkTopology, the reports of devices and RevokeDevice. *)
(* Update saves the whole row as it was read, and inserts it again when it *)
(* is gone (gorm's Save).  The NAT cache is filled from the row or by a    *)
(* probe, which the code does not implement: it finds nothing.             *)
(***************************************************************************)
EXTENDS Integers, Sequences

CONSTANTS
  Handlers,   \* goroutines that serve requests
  Devices,
  Endpoints,  \* public endpoints that devices report
  None,       \* no endpoint
  Kinds,      \* the NAT types in the rows at the start
  TTL,        \* how long a probe result is good
  MaxTime,    \* bound: the clock
  Null

VARIABLES
  devices,    \* the row of each device, Null when there is none
  natCache,   \* the cached result of each device, or Null
  handler,    \* what each handler does, its devices, the row read, what it found
  now,
  lastIn      \* history: when each endpoint was last in the row of each device

natVars == <<devices, natCache, handler, now, lastIn>>

NatTypes == {"none", "full_cone", "restricted_cone", "port_restricted_cone", "symmetric",
             "unknown"}
Place(n, e)  == [nat |-> n, endpoint |-> e]
Unknown      == Place("unknown", None)
Row(p, o, u) == [place |-> p, online |-> o, updatedAt |-> u]
Result(p, u) == [place |-> p, probeTime |-> u]

Places == [nat : NatTypes, endpoint : Endpoints \cup {None}]

ASSUME NatAssumption ==
  /\ None \notin Endpoints /\ Kinds \subseteq NatTypes
  /\ TTL \in Nat \ {0} /\ MaxTime \in Nat
  /\ Null \notin Endpoints \cup 0 .. MaxTime
  /\ \A p \in Places, u \in 0 .. MaxTime :
       Result(p, u) # Null /\ \A o \in BOOLEAN : Row(p, o, u) # Null

Free == [at |-> "free", todo |-> << >>, row |-> Null, found |-> << >>]

(* A NAT type other than "unknown" has come into a row by other means:     *)
(* nothing here writes one.                                                *)
NatInit ==
  /\ devices \in [Devices -> {Row(p, FALSE, 0) : p \in {q \in Places : q.nat \in Kinds}}]
  /\ natCache = [d \in Devices |-> Null]
  /\ handler = [h \in Handlers |-> Free] /\ now = 0
  /\ lastIn = [d \in Devices |-> [e \in Endpoints |-> Null]]

(* Every write to the rows goes through SetRow, which keeps the history.   *)
EndpointIn(d) == IF devices[d] = Null THEN Null ELSE devices[d].place.endpoint
LastIn(d, e)  == IF EndpointIn(d) = e THEN now ELSE lastIn[d][e]
SetRow(d, r) ==
  /\ devices' = [devices EXCEPT ![d] = r]
  /\ lastIn' = [lastIn EXCEPT ![d] = [e \in Endpoints |-> LastIn(d, e)]]
Rows         == <<devices, lastIn>>
Become(h, s) == handler' = [handler EXCEPT ![h] = s]
Device(h)    == Head(handler[h].todo)
Good(c)      == c # Null /\ now - c.probeTime < TTL

-----------------------------------------------------------------------------
(* ProbeNATType, when no good result is cached: the result of the probe is *)
(* cached before anything else ...                                         *)
ProbeNATType(h, d) ==
  /\ handler[h] = Free /\ ~Good(natCache[d])
  /\ natCache' = [natCache EXCEPT ![d] = Result(Unknown, now)]
  /\ Become(h, [Free EXCEPT !.at = "probed", !.todo = <<d>>])
  /\ UNCHANGED <<Rows, now>>

(* ... then the row is read ...                                            *)
ProbeReads(h) ==
  /\ handler[h].at = "probed"
  /\ Become(h, IF devices[Device(h)] = Null THEN Free
               ELSE [handler[h] EXCEPT !.at = "save",
                                       !.row = [devices[Device(h)] EXCEPT !.place = Unknown]])
  /\ UNCHANGED <<Rows, natCache, now>>

(* UpdatePublicEndpoint reads it too, and changes the endpoint only.       *)
UpdatePublicEndpoint(h, d, e) ==
  /\ handler[h] = Free /\ devices[d] # Null
  /\ Become(h, [Free EXCEPT !.at = "endpoint", !.todo = <<d>>,
                            !.row = [devices[d] EXCEPT !.place.endpoint = e]])
  /\ UNCHANGED <<Rows, natCache, now>>

(* Both save what they read; an endpoint's cached result is then dropped.  *)
Save(h) ==
  /\ handler[h].at \in {"save", "endpoint"}
  /\ SetRow(Device(h), [handler[h].row EXCEPT !.updatedAt = now])
  /\ Become(h, IF handler[h].at = "save" THEN Free
               ELSE [handler[h] EXCEPT !.at = "invalidate", !.row = Null])
  /\ UNCHANGED <<natCache, now>>

SaveFails(h) ==
  /\ handler[h].at \in {"save", "endpoint"}
  /\ Become(h, Free)
  /\ UNCHANGED <<Rows, natCache, now>>

Invalidate(h) ==
  /\ handler[h].at = "invalidate"
  /\ natCache' = [natCache EXCEPT ![Device(h)] = Null]
  /\ Become(h, Free)
  /\ UNCHANGED <<Rows, now>>

-----------------------------------------------------------------------------
(* CoordinateHolePunching asks getNATResult for both devices in turn: it   *)
(* looks into the cache ...                                                *)
CoordinateHolePunching(h, a, b) ==
  /\ handler[h] = Free
  /\ Become(h, [Free EXCEPT !.at = "cache", !.todo = <<a, b>>])
  /\ UNCHANGED <<Rows, natCache, now>>

AnsweredOnce(s, p) == [at |-> "session", todo |-> Tail(s.todo), row |-> Null,
                       found |-> Append(s.found, p)]
Answered(s, p) == [at |-> IF Len(s.todo) = 1 THEN "session" ELSE "cache",
                   todo |-> Tail(s.todo), row |-> Null, found |-> Append(s.found, p)]

FromCache(h) ==
  LET c == natCache[Device(h)] IN
  /\ handler[h].at = "cache"
  /\ Become(h, IF Good(c) THEN Answered(handler[h], c.place)
                          ELSE [handler[h] EXCEPT !.at = "read"])
  /\ UNCHANGED <<Rows, natCache, now>>

(* ... then into the row, which may be gone ...                            *)
FromRow(h) ==
  /\ handler[h].at = "read"
  /\ Become(h, IF devices[Device(h)] = Null THEN Free
               ELSE [handler[h] EXCEPT !.at = "put", !.row = devices[Device(h)]])
  /\ UNCHANGED <<Rows, natCache, now>>

(* ... and caches what it read, as old as the row.                         *)
FreshResult(r) == Result(r.place, now)
RowResult(r)   == Result(r.place, r.updatedAt)

FillCache(h) ==
  /\ handler[h].at = "put"
  /\ natCache' = [natCache EXCEPT ![Device(h)] = RowResult(handler[h].row)]
  /\ Become(h, Answered(handler[h], handler[h].row.place))
  /\ UNCHANGED <<Rows, now>>

(* evaluateHolePunchingFeasibility: how two NAT types can be connected.    *)
Method(m, n) ==
  CASE "none" \in {m, n} -> "direct"
    [] "none" \notin {m, n} /\ "full_cone" \in {m, n} -> "stun"
    [] m = n /\ m \in {"restricted_cone", "port_restricted_cone"} -> "stun"
    [] OTHER -> "turn"

AnswersSession(h) ==
  /\ handler[h].at = "session"
  /\ Become(h, Free)
  /\ UNCHANGED <<Rows, natCache, now>>

(* CleanupExpiredSessions, from time to time.                              *)
CleanupExpiredSessions ==
  /\ \E d \in Devices : natCache[d] # Null /\ now - natCache[d].probeTime > TTL
  /\ natCache' = [d \in Devices |->
       IF natCache[d] # Null /\ now - natCache[d].probeTime > TTL THEN Null ELSE natCache[d]]
  /\ UNCHANGED <<Rows, handler, now>>

-----------------------------------------------------------------------------
(* RefreshVirtualNetworkTopology reads all rows and saves those online.    *)
RefreshVirtualNetworkTopology(h, d) ==
  /\ handler[h] = Free /\ devices[d] # Null /\ devices[d].online
  /\ Become(h, [Free EXCEPT !.at = "save", !.todo = <<d>>, !.row = devices[d]])
  /\ UNCHANGED <<Rows, natCache, now>>

(* SubmitDeviceMetrics: one UPDATE, whatever the row.                      *)
UpdateDeviceStatus(d, online) ==
  /\ devices[d] # Null
  /\ SetRow(d, [devices[d] EXCEPT !.online = online, !.updatedAt = now])
  /\ UNCHANGED <<natCache, handler, now>>

(* RevokeDevice marks the device offline (UpdateDeviceStatus) and deletes  *)
(* its row; the cache is not told.                                         *)
DeleteRow(d) ==
  /\ devices[d] # Null
  /\ SetRow(d, Null)
  /\ UNCHANGED <<natCache, handler, now>>

Tick == now < MaxTime /\ now' = now + 1 /\ UNCHANGED <<Rows, natCache, handler>>

HandlerStep(h) ==
  \/ ProbeReads(h) \/ Save(h) \/ SaveFails(h) \/ Invalidate(h)
  \/ FromCache(h) \/ FromRow(h) \/ FillCache(h) \/ AnswersSession(h)

NatNext ==
  \/ \E h \in Handlers : HandlerStep(h)
  \/ \E h \in Handlers, d \in Devices : ProbeNATType(h, d) \/ RefreshVirtualNetworkTopology(h, d)
  \/ \E h \in Handlers, d \in Devices : \E e \in Endpoints : UpdatePublicEndpoint(h, d, e)
  \/ \E h \in Handlers, a \in Devices, b \in Devices : CoordinateHolePunching(h, a, b)
  \/ \E d \in Devices : DeleteRow(d) \/ \E o \in BOOLEAN : UpdateDeviceStatus(d, o)
  \/ CleanupExpiredSessions
  \/ Tick

NatSpec == NatInit /\ [][NatNext]_natVars

-----------------------------------------------------------------------------
(* Rows and cached results are never younger than the clock; a session is  *)
(* answered when it has found both of its devices.                         *)
NatTypeOK ==
  /\ \A d \in Devices : devices[d] # Null => devices[d].place \in Places /\ devices[d].updatedAt \in 0 .. now
  /\ \A d \in Devices : natCache[d] # Null => natCache[d].probeTime \in 0 .. now
  /\ \A h \in Handlers :
       /\ handler[h].at \in {"cache", "read", "put", "session"} => Len(handler[h].todo) + Len(handler[h].found) = 2
       /\ handler[h].at = "session" <=> Len(handler[h].found) = 2
       /\ handler[h].at \in {"save", "endpoint", "put"} => handler[h].row # Null

(* An endpoint that getNATResult answers from the cache was in the row of  *)
(* its device less than TTL ago, whatever was saved, deleted, probed,      *)
(* invalidated and cached meanwhile.  (One it answers from the row was     *)
(* there when it read the row, however long ago that is when it answers.)  *)
FreshEndpoint ==
  [][\A h \in Handlers :
       (handler[h].at = "cache" /\ Len(handler'[h].found) > Len(handler[h].found)) =>
         LET d == Device(h)
             e == handler'[h].found[Len(handler'[h].found)].endpoint
         IN e # None => LastIn(d, e) # Null /\ now - LastIn(d, e) < TTL]_natVars

(* A device whose row is deleted has no row again: it registers anew, with *)
(* another id.                                                             *)
RevokedStaysGone == [][\A d \in Devices : devices[d] = Null => devices'[d] = Null]_natVars

(* What a device reported last is what its row says.                       *)
ReportSurvives ==
  [][\A d \in Devices : devices[d] # Null /\ devices'[d] # Null /\ handler' # handler =>
       devices'[d].online = devices[d].online]_natVars

(* Two devices are sent to a relay only when their rows call for one.      *)
TurnOnlyIfNeeded ==
  \A h \in Handlers : handler[h].at = "session" =>
    \A a, b \in Devices : devices[a] # Null /\ devices[b] # Null =>
      (Method(handler[h].found[1].nat, handler[h].found[2].nat) = "turn" =>
       Method(devices[a].place.nat, devices[b].place.nat) = "turn")
=============================================================================
