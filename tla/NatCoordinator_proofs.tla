------------------------ MODULE NatCoordinator_proofs ------------------------
(***************************************************************************)
(* Proofs about the NAT coordinator and the writers of device rows, for    *)
(* any number of handlers, devices and endpoints and any time to live: an  *)
(* endpoint that comes from the cache was in the row less than that ago.   *)
(***************************************************************************)
EXTENDS NatCoordinator, SequenceTheorems, TLAPS

Times       == 0 .. MaxTime
RowRecs     == [place : Places, online : BOOLEAN, updatedAt : Times]
CacheRecs   == [place : Places, probeTime : Times]
Alone       == {"probed", "save", "endpoint", "invalidate"}
InSession   == {"cache", "read", "put"}
Stations    == Alone \cup InSession \cup {"free", "session"}
HandlerRecs == [at : Stations, todo : Seq(Devices), row : RowRecs \cup {Null}, found : Seq(Places)]

(* The rows and their history.                                             *)
RowsOK ==
  /\ devices \in [Devices -> RowRecs \cup {Null}]
  /\ \A d \in Devices : devices[d] # Null => devices[d].updatedAt <= now
  /\ lastIn \in [Devices -> [Endpoints -> Times \cup {Null}]]
  /\ \A d \in Devices, e \in Endpoints : lastIn[d][e] # Null => lastIn[d][e] <= now

(* A handler that works on one device has that device to do and nothing    *)
(* found; a session has two devices, found or still to do; what is saved   *)
(* or cached has been read, and is not younger than the clock.             *)
Shaped(s, t) ==
  /\ s.at \in Alone => Len(s.todo) = 1
  /\ s.at \in Alone \cup {"free"} => Len(s.found) = 0
  /\ s.at \in InSession => Len(s.found) \in {0, 1} /\ Len(s.todo) + Len(s.found) = 2
  /\ s.at = "session" => Len(s.todo) = 0 /\ Len(s.found) = 2
  /\ s.at \in {"save", "endpoint", "put"} => s.row \in RowRecs /\ s.row.updatedAt <= t

(* The endpoint of a place found at some time was in the row of its device *)
(* then or later.                                                          *)
NotOlder(d, p, u) ==
  p.endpoint \in Endpoints => LastIn(d, p.endpoint) # Null /\ u <= LastIn(d, p.endpoint)

CacheOK ==
  /\ natCache \in [Devices -> CacheRecs \cup {Null}]
  /\ \A d \in Devices : natCache[d] # Null =>
       natCache[d].probeTime <= now /\ NotOlder(d, natCache[d].place, natCache[d].probeTime)

HandlersOK ==
  /\ handler \in [Handlers -> HandlerRecs]
  /\ \A h \in Handlers :
       /\ Shaped(handler[h], now)
       /\ handler[h].at = "put" => NotOlder(Device(h), handler[h].row.place, handler[h].row.updatedAt)

NatInv == now \in Times /\ RowsOK /\ CacheOK /\ HandlersOK

-----------------------------------------------------------------------------
(* A place that is not known has no endpoint.                              *)
LEMMA UnknownPlace == Unknown \in Places /\ Unknown.endpoint \notin Endpoints
  BY NatAssumption DEF Unknown, Place, Places, NatTypes

(* No row and no result is Null.                                           *)
LEMMA NullApart ==
  /\ Null \notin RowRecs /\ Null \notin CacheRecs /\ Null \notin Times /\ Null \notin Endpoints
  /\ Times \subseteq Nat /\ TTL \in Nat
<1>1. ASSUME Null \in RowRecs PROVE FALSE
  <2>1. /\ Null = Row(Null.place, Null.online, Null.updatedAt)
        /\ Null.place \in Places /\ Null.online \in BOOLEAN /\ Null.updatedAt \in 0 .. MaxTime
    BY <1>1 DEF RowRecs, Row, Times
  <2> QED BY <2>1, NatAssumption
<1>2. ASSUME Null \in CacheRecs PROVE FALSE
  <2>1. /\ Null = Result(Null.place, Null.probeTime)
        /\ Null.place \in Places /\ Null.probeTime \in 0 .. MaxTime
    BY <1>2 DEF CacheRecs, Result, Times
  <2> QED BY <2>1, NatAssumption
<1> QED BY <1>1, <1>2, NatAssumption DEF Times

(* The time an endpoint was last in a row is a time gone by, and never     *)
(* goes back: neither when a row is written or deleted nor when time       *)
(* passes.                                                                 *)
Grown ==
  \A d \in Devices, p \in Endpoints :
    LastIn(d, p) # Null => LastIn(d, p)' # Null /\ LastIn(d, p) <= LastIn(d, p)'

LEMMA LastInType ==
  ASSUME now \in Times, RowsOK, NEW d \in Devices, NEW p \in Endpoints
  PROVE  /\ LastIn(d, p) \in Times \cup {Null}
         /\ LastIn(d, p) # Null => LastIn(d, p) <= now
         /\ EndpointIn(d) = p => LastIn(d, p) = now
<1>1. now \in Nat
  BY NullApart
<1> QED BY <1>1 DEF RowsOK, LastIn

LEMMA RowWritten ==
  ASSUME NatInv, NEW d \in Devices, NEW r \in RowRecs \cup {Null}, r # Null => r.updatedAt <= now,
         SetRow(d, r), now' = now
  PROVE  RowsOK' /\ Grown
<1>1. /\ devices' \in [Devices -> RowRecs \cup {Null}] /\ devices'[d] = r
      /\ \A e \in Devices \ {d} : devices'[e] = devices[e]
  BY DEF NatInv, RowsOK, SetRow
<1>2. /\ lastIn'[d] = [p \in Endpoints |-> LastIn(d, p)]
      /\ \A e \in Devices \ {d} : lastIn'[e] = lastIn[e]
      /\ lastIn' = [lastIn EXCEPT ![d] = [p \in Endpoints |-> LastIn(d, p)]]
  BY DEF NatInv, RowsOK, SetRow
<1>3. \A p \in Endpoints : /\ LastIn(d, p) \in Times \cup {Null}
                           /\ LastIn(d, p) # Null => LastIn(d, p) <= now
  BY LastInType DEF NatInv
<1>4. lastIn' \in [Devices -> [Endpoints -> Times \cup {Null}]]
  <2>1. PICK f : f = [p \in Endpoints |-> LastIn(d, p)]
    OBVIOUS
  <2>2. f \in [Endpoints -> Times \cup {Null}]
    BY <1>3, <2>1
  <2>3. lastIn \in [Devices -> [Endpoints -> Times \cup {Null}]] /\ lastIn' = [lastIn EXCEPT ![d] = f]
    BY <1>2, <2>1 DEF NatInv, RowsOK
  <2> QED BY <2>2, <2>3
<1>5. ASSUME NEW e \in Devices, NEW p \in Endpoints, lastIn'[e][p] # Null PROVE lastIn'[e][p] <= now'
  <2>1. e = d => lastIn'[e][p] = LastIn(d, p)
    BY <1>2
  <2>2. e # d => lastIn'[e][p] = lastIn[e][p]
    BY <1>2
  <2> QED BY <1>3, <1>5, <2>1, <2>2 DEF NatInv, RowsOK
<1>6. RowsOK'
  BY <1>1, <1>4, <1>5 DEF NatInv, RowsOK
<1>7. Grown
  <2> SUFFICES ASSUME NEW e \in Devices, NEW p \in Endpoints, LastIn(e, p) # Null
               PROVE  LastIn(e, p)' # Null /\ LastIn(e, p) <= LastIn(e, p)'
    BY DEF Grown
  <2>0. /\ LastIn(e, p) \in Nat /\ LastIn(e, p) <= now /\ now \in Nat /\ now # Null
    BY LastInType, NullApart DEF NatInv
  <2>1. CASE e = d
    BY <1>2, <2>0, <2>1 DEF LastIn
  <2>2. CASE e # d
    <3>1. LastIn(e, p)' = LastIn(e, p)
      BY <1>1, <1>2, <2>2 DEF LastIn, EndpointIn
    <3> QED BY <2>0, <3>1
  <2> QED BY <2>1, <2>2
<1> QED BY <1>6, <1>7

LEMMA RowsKept ==
  ASSUME NatInv, UNCHANGED Rows, now' \in Times, now <= now'
  PROVE  RowsOK' /\ Grown
<1>0. now \in Nat /\ now' \in Nat /\ now' # Null /\ devices' = devices /\ lastIn' = lastIn
  BY NullApart DEF NatInv, Rows
<1>1. \A d \in Devices : devices[d] # Null => devices[d].updatedAt \in Nat
  BY NullApart DEF NatInv, RowsOK, RowRecs
<1>2. \A d \in Devices, p \in Endpoints : lastIn[d][p] # Null => lastIn[d][p] \in Nat
  BY NullApart DEF NatInv, RowsOK
<1>3. RowsOK'
  BY <1>0, <1>1, <1>2 DEF NatInv, RowsOK
<1>4. ASSUME NEW d \in Devices, NEW p \in Endpoints, LastIn(d, p) # Null
      PROVE  LastIn(d, p)' # Null /\ LastIn(d, p) <= LastIn(d, p)'
  <2>1. CASE EndpointIn(d) = p
    BY <1>0, <2>1 DEF LastIn, EndpointIn
  <2>2. CASE EndpointIn(d) # p
    BY <1>0, <1>2, <1>4, <2>2 DEF LastIn, EndpointIn
  <2> QED BY <2>1, <2>2
<1> QED BY <1>3, <1>4 DEF Grown

LEMMA GrownOld ==
  ASSUME now \in Times, RowsOK, RowsOK', now' \in Times, Grown,
         NEW d \in Devices, NEW p, NEW u \in Times, NotOlder(d, p, u)
  PROVE  NotOlder(d, p, u)'
<1> SUFFICES ASSUME NEW e \in Endpoints, e = p.endpoint PROVE LastIn(d, e)' # Null /\ u <= LastIn(d, e)'
  BY DEF NotOlder, LastIn, EndpointIn
<1>1. LastIn(d, e) # Null /\ u <= LastIn(d, e) /\ LastIn(d, e)' # Null /\ LastIn(d, e) <= LastIn(d, e)'
  BY DEF NotOlder, Grown
<1>2. LastIn(d, e) \in Nat /\ u \in Nat
  BY <1>1, LastInType, NullApart
<1>3. LastIn(d, e)' \in Nat
  <2>1. lastIn'[d][e] \in Times \cup {Null} /\ now' \in Times
    BY DEF RowsOK
  <2>2. LastIn(d, e)' = now' \/ LastIn(d, e)' = lastIn'[d][e]
    BY DEF LastIn
  <2> QED BY <1>1, <2>1, <2>2, NullApart
<1> QED BY <1>1, <1>2, <1>3

(* What a step has to do to keep the invariant: write rows that are not    *)
(* younger than the clock, cache what is in a row, and leave handlers in   *)
(* shape.                                                                  *)
CacheStep ==
  /\ natCache' \in [Devices -> CacheRecs \cup {Null}]
  /\ \A d \in Devices : natCache'[d] # Null =>
       \/ natCache'[d] = natCache[d]
       \/ /\ natCache'[d].probeTime <= now'
          /\ NotOlder(d, natCache'[d].place, natCache'[d].probeTime)

Moves(h) ==
  /\ handler'[h] \in HandlerRecs /\ Shaped(handler'[h], now')
  /\ handler'[h].at = "put" =>
       NotOlder(Head(handler'[h].todo), handler'[h].row.place, handler'[h].row.updatedAt)

HandlersStep ==
  /\ handler' \in [Handlers -> HandlerRecs]
  /\ \A h \in Handlers : handler'[h] = handler[h] \/ Moves(h)

LEMMA FirstToDo ==
  ASSUME NEW s \in HandlerRecs, NEW t, Shaped(s, t), s.at \in Alone \cup InSession
  PROVE  /\ Len(s.todo) \in {1, 2} /\ s.todo # << >> /\ Head(s.todo) \in Devices
         /\ Tail(s.todo) \in Seq(Devices) /\ Len(Tail(s.todo)) = Len(s.todo) - 1
<1>1. s.todo \in Seq(Devices) /\ s.found \in Seq(Places)
  BY DEF HandlerRecs
<1>2. Len(s.todo) \in {1, 2}
  <2>1. Len(s.todo) \in Nat /\ Len(s.found) \in Nat
    BY <1>1, LenProperties
  <2>2. CASE s.at \in Alone
    BY <2>2 DEF Shaped
  <2>3. CASE s.at \in InSession
    <3>1. Len(s.found) \in {0, 1} /\ Len(s.todo) + Len(s.found) = 2
      BY <2>3 DEF Shaped
    <3>2. \A m, n \in Nat : n \in {0, 1} /\ m + n = 2 => m \in {1, 2}
      OBVIOUS
    <3> QED BY <2>1, <3>1, <3>2
  <2> QED BY <2>2, <2>3
<1>3. s.todo # << >>
  BY <1>2, EmptySeq
<1> QED BY <1>1, <1>2, <1>3, HeadTailProperties

LEMMA InvKept ==
  ASSUME NatInv, now' \in Times, now <= now', RowsOK', Grown, CacheStep, HandlersStep
  PROVE  NatInv'
<1>0. now \in Nat /\ now' \in Nat
  BY NullApart DEF NatInv
<1>1. ASSUME NEW d \in Devices, NEW c \in CacheRecs, natCache'[d] = c
      PROVE  c.probeTime <= now' /\ NotOlder(d, c.place, c.probeTime)'
  <2>1. c.probeTime \in Times /\ c.probeTime \in Nat /\ c # Null
    BY NullApart DEF CacheRecs
  <2>2. c.probeTime <= now' /\ NotOlder(d, c.place, c.probeTime)
    <3>1. CASE natCache'[d] = natCache[d]
      <4>1. c.probeTime <= now /\ NotOlder(d, c.place, c.probeTime)
        BY <1>1, <2>1, <3>1 DEF NatInv, CacheOK
      <4> QED BY <1>0, <2>1, <4>1
    <3>2. CASE natCache'[d] # natCache[d]
      BY <1>1, <2>1, <3>2 DEF CacheStep
    <3> QED BY <3>1, <3>2
  <2>3. NotOlder(d, c.place, c.probeTime)'
    BY <2>1, <2>2, GrownOld DEF NatInv
  <2> QED BY <2>2, <2>3
<1>2. CacheOK'
  <2> SUFFICES ASSUME NEW d \in Devices, natCache'[d] # Null
               PROVE  /\ natCache'[d].probeTime <= now'
                      /\ natCache'[d].place.endpoint \in Endpoints =>
                           /\ LastIn(d, natCache[d].place.endpoint)' # Null
                           /\ natCache'[d].probeTime <= LastIn(d, natCache[d].place.endpoint)'
    BY DEF CacheStep, CacheOK, NotOlder
  <2>1. PICK c \in CacheRecs : c = natCache'[d]
    BY DEF CacheStep
  <2>2. c.probeTime <= now' /\ NotOlder(d, c.place, c.probeTime)'
    BY <1>1, <2>1
  <2> QED BY <2>1, <2>2 DEF NotOlder, LastIn, EndpointIn
<1>3. ASSUME NEW h \in Handlers, NEW s \in HandlerRecs, s = handler'[h]
      PROVE  /\ Shaped(s, now')
             /\ s.at = "put" => NotOlder(Head(s.todo), s.row.place, s.row.updatedAt)'
  <2>1. Shaped(s, now')
    <3>1. CASE handler'[h] = handler[h]
      <4>1. Shaped(s, now)
        BY <1>3, <3>1 DEF NatInv, HandlersOK
      <4>2. ASSUME NEW r \in RowRecs, r.updatedAt <= now PROVE r.updatedAt <= now'
        <5>1. PICK u \in Nat : u = r.updatedAt
          BY NullApart DEF RowRecs
        <5> QED BY <1>0, <4>2, <5>1
      <4>3. s.at \in {"save", "endpoint", "put"} => s.row \in RowRecs /\ s.row.updatedAt <= now'
        BY <4>1, <4>2 DEF Shaped
      <4> QED BY <4>1, <4>3 DEF Shaped
    <3>2. CASE Moves(h)
      BY <1>3, <3>2 DEF Moves
    <3> QED BY <3>1, <3>2 DEF HandlersStep
  <2>2. ASSUME s.at = "put" PROVE NotOlder(Head(s.todo), s.row.place, s.row.updatedAt)'
    <3>1. NotOlder(Head(s.todo), s.row.place, s.row.updatedAt)
      BY <1>3, <2>2 DEF HandlersStep, Moves, NatInv, HandlersOK, Device
    <3>2. Head(s.todo) \in Devices /\ s.row.updatedAt \in Times
      BY <2>1, <2>2, FirstToDo DEF InSession, Shaped, RowRecs
    <3> QED BY <3>1, <3>2, GrownOld DEF NatInv
  <2> QED BY <2>1, <2>2
<1>4. HandlersOK'
  <2> SUFFICES ASSUME NEW h \in Handlers
               PROVE  /\ Shaped(handler'[h], now')
                      /\ handler'[h].at = "put" =>
                           NotOlder(Device(h), handler[h].row.place, handler[h].row.updatedAt)'
    BY DEF HandlersStep, HandlersOK, Shaped
  <2>1. PICK s \in HandlerRecs : s = handler'[h]
    BY DEF HandlersStep
  <2>2. /\ Shaped(s, now')
        /\ s.at = "put" => NotOlder(Head(s.todo), s.row.place, s.row.updatedAt)'
    BY <1>3, <2>1
  <2> QED BY <2>1, <2>2 DEF NotOlder, LastIn, EndpointIn, Device
<1> QED BY <1>2, <1>4 DEF NatInv
-----------------------------------------------------------------------------
(* What a handler becomes.  The others are left alone, and nothing else    *)
(* has to be shown of a step that changes neither rows nor cache.          *)
Record(a, t, r, f) == [at |-> a, todo |-> t, row |-> r, found |-> f]

LEMMA GoesOn ==
  ASSUME NEW s \in HandlerRecs, NEW a \in Stations, NEW r \in RowRecs \cup {Null}
  PROVE  [s EXCEPT !.at = a, !.row = r] = Record(a, s.todo, r, s.found)
<1> DEFINE e == [s EXCEPT !.at = a, !.row = r]
<1>1. e \in HandlerRecs
  BY DEF HandlerRecs
<1>2. e.at = a /\ e.row = r /\ e.todo = s.todo /\ e.found = s.found
  BY DEF HandlerRecs
<1> HIDE DEF e
<1>3. e = Record(a, s.todo, r, s.found)
  BY <1>1, <1>2 DEF HandlerRecs, Record
<1> QED BY <1>3 DEF e

LEMMA FreeIsIdle == Free \in HandlerRecs /\ Free = Record("free", << >>, Null, << >>)
  BY EmptySeq DEF Free, Record, HandlerRecs, Stations

LEMMA TakesOn ==
  ASSUME NEW a \in Stations, NEW t \in Seq(Devices)
  PROVE  /\ [Free EXCEPT !.at = a, !.todo = t] = Record(a, t, Null, << >>)
         /\ \A r \in RowRecs \cup {Null} :
              [Free EXCEPT !.at = a, !.todo = t, !.row = r] = Record(a, t, r, << >>)
<1>1. PICK s \in HandlerRecs : s = Free
  BY FreeIsIdle
<1>2. s.row = Null /\ s.found = << >>
  BY <1>1 DEF Free
<1> DEFINE e == [s EXCEPT !.at = a, !.todo = t]
<1>3. e \in HandlerRecs
  BY DEF HandlerRecs
<1>4. e.at = a /\ e.todo = t /\ e.row = Null /\ e.found = << >>
  BY <1>2 DEF HandlerRecs
<1>5. ASSUME NEW r \in RowRecs \cup {Null}
      PROVE  [s EXCEPT !.at = a, !.todo = t, !.row = r] = Record(a, t, r, << >>)
  <2> DEFINE f == [s EXCEPT !.at = a, !.todo = t, !.row = r]
  <2>1. f \in HandlerRecs
    BY DEF HandlerRecs
  <2>2. f.at = a /\ f.todo = t /\ f.row = r /\ f.found = << >>
    BY <1>2 DEF HandlerRecs
  <2> HIDE DEF f
  <2>3. f = Record(a, t, r, << >>)
    BY <2>1, <2>2 DEF HandlerRecs, Record
  <2> QED BY <2>3 DEF f
<1> HIDE DEF e
<1>6. e = Record(a, t, Null, << >>)
  BY <1>3, <1>4 DEF HandlerRecs, Record
<1> QED BY <1>1, <1>5, <1>6 DEF e

LEMMA BecomeEffect ==
  ASSUME NatInv, NEW h \in Handlers, NEW s \in HandlerRecs, Become(h, s), Shaped(s, now'),
         s.at = "put" => NotOlder(Head(s.todo), s.row.place, s.row.updatedAt)
  PROVE  HandlersStep /\ handler'[h] = s /\ \A g \in Handlers \ {h} : handler'[g] = handler[g]
<1>1. /\ handler' \in [Handlers -> HandlerRecs] /\ handler'[h] = s
      /\ \A g \in Handlers \ {h} : handler'[g] = handler[g]
  BY DEF NatInv, HandlersOK, Become
<1>2. Moves(h)
  BY <1>1 DEF Moves
<1> QED BY <1>1, <1>2 DEF HandlersStep

LEMMA FreeEffect ==
  ASSUME NatInv, NEW h \in Handlers, Become(h, Free)
  PROVE  HandlersStep
<1>1. Free \in HandlerRecs /\ Free.at = "free" /\ Free.found = << >>
  BY EmptySeq DEF Free, HandlerRecs, Stations
<1>2. Shaped(Free, now')
  BY <1>1, EmptySeq DEF Shaped, Alone, InSession
<1> QED BY <1>1, <1>2, BecomeEffect

(* A handler that takes one device on.                                     *)
LEMMA AloneEffect ==
  ASSUME NatInv, NEW h \in Handlers, NEW a \in Alone, NEW d \in Devices, NEW r \in RowRecs \cup {Null},
         a \in {"save", "endpoint"} => r \in RowRecs /\ r.updatedAt <= now',
         Become(h, Record(a, <<d>>, r, << >>))
  PROVE  HandlersStep
<1> DEFINE s == Record(a, <<d>>, r, << >>)
<1>1. /\ s \in HandlerRecs /\ s.at = a /\ Len(s.todo) = 1 /\ Len(s.found) = 0 /\ s.row = r
  BY EmptySeq DEF Record, HandlerRecs, Stations
<1> HIDE DEF s
<1>2. Shaped(s, now') /\ s.at # "put"
  BY <1>1 DEF Shaped, Alone, InSession
<1> QED BY <1>1, <1>2, BecomeEffect DEF s

LEMMA HandlerOnly ==
  ASSUME NatInv, HandlersStep, UNCHANGED <<Rows, natCache, now>>
  PROVE  NatInv'
<1>1. now' \in Times /\ now <= now'
  BY NullApart DEF NatInv
<1>2. RowsOK' /\ Grown
  BY <1>1, RowsKept
<1>3. CacheStep
  BY DEF CacheStep, NatInv, CacheOK
<1> QED BY <1>1, <1>2, <1>3, InvKept

(* What the row of a device says of its place is as young as it can be.    *)
LEMMA RowNotOlder ==
  ASSUME NatInv, NEW d \in Devices, devices[d] # Null
  PROVE  /\ devices[d] \in RowRecs /\ devices[d].updatedAt <= now
         /\ NotOlder(d, devices[d].place, devices[d].updatedAt)
<1>1. devices[d] \in RowRecs /\ devices[d].updatedAt <= now
  BY DEF NatInv, RowsOK
<1>2. ASSUME devices[d].place.endpoint \in Endpoints
      PROVE  LastIn(d, devices[d].place.endpoint) = now /\ now # Null
  <2>1. EndpointIn(d) = devices[d].place.endpoint
    BY DEF EndpointIn
  <2> QED BY <1>2, <2>1, LastInType, NullApart DEF NatInv
<1> QED BY <1>1, <1>2 DEF NotOlder

LEMMA NatInvInit == ASSUME NatInit PROVE NatInv
<1>0. 0 \in Times /\ now = 0 /\ Null \notin Times
  BY NatAssumption, NullApart DEF NatInit, Times
<1>1. \A p \in Places : Row(p, FALSE, 0) \in RowRecs /\ Row(p, FALSE, 0).updatedAt = 0
  BY <1>0 DEF Row, RowRecs
<1>2. RowsOK
  <2>1. /\ devices \in [Devices -> RowRecs \cup {Null}]
        /\ \A d \in Devices : devices[d].updatedAt <= now
    <3>1. devices \in [Devices -> {Row(p, FALSE, 0) : p \in {q \in Places : q.nat \in Kinds}}]
      BY DEF NatInit
    <3>2. \A d \in Devices : devices[d] \in RowRecs /\ devices[d].updatedAt = 0
      BY <1>1, <3>1
    <3> QED BY <1>0, <3>1, <3>2
  <2>2. /\ lastIn \in [Devices -> [Endpoints -> Times \cup {Null}]]
        /\ \A d \in Devices, p \in Endpoints : lastIn[d][p] = Null
    BY DEF NatInit
  <2> QED BY <2>1, <2>2 DEF RowsOK
<1>3. CacheOK
  BY DEF NatInit, CacheOK
<1>4. HandlersOK
  <2>1. Free \in HandlerRecs /\ Free.at = "free" /\ Len(Free.found) = 0
    BY EmptySeq DEF Free, HandlerRecs, Stations
  <2>2. Shaped(Free, now)
    BY <2>1 DEF Shaped, Alone, InSession
  <2> QED BY <2>1, <2>2 DEF NatInit, HandlersOK
<1> QED BY <1>0, <1>2, <1>3, <1>4 DEF NatInv

LEMMA HandlerAt ==
  ASSUME NatInv, NEW h \in Handlers
  PROVE  handler[h] \in HandlerRecs /\ Shaped(handler[h], now)
  BY DEF NatInv, HandlersOK

(* A handler with one device to do.                                        *)
LEMMA AloneTodo ==
  ASSUME NatInv, NEW h \in Handlers, handler[h].at \in Alone
  PROVE  /\ Device(h) \in Devices /\ handler[h].todo = <<Device(h)>> /\ handler[h].found = << >>
<1>1. /\ handler[h] \in HandlerRecs /\ Shaped(handler[h], now)
  BY HandlerAt
<1>2. Len(handler[h].todo) = 1 /\ Len(handler[h].found) = 0 /\ Device(h) \in Devices
  BY <1>1, FirstToDo DEF Shaped, Device
<1>3. handler[h].todo \in Seq(Devices) /\ handler[h].found \in Seq(Places)
  BY <1>1 DEF HandlerRecs
<1>4. handler[h].found = << >>
  BY <1>2, <1>3, EmptySeq
<1>5. handler[h].todo = <<Device(h)>>
  BY <1>2, <1>3, SeqEqual DEF Device
<1> QED BY <1>2, <1>4, <1>5
-----------------------------------------------------------------------------
(* Every action keeps the invariant.                                       *)
LEMMA ProbeInv ==
  ASSUME NatInv, NEW h \in Handlers, NEW d \in Devices, ProbeNATType(h, d)
  PROVE  NatInv'
<1>1. /\ natCache' = [natCache EXCEPT ![d] = Result(Unknown, now)]
      /\ Become(h, Record("probed", <<d>>, Null, << >>))
      /\ UNCHANGED Rows /\ now' = now
  <2>1. "probed" \in Stations /\ <<d>> \in Seq(Devices)
    BY DEF Stations, Alone
  <2>2. [Free EXCEPT !.at = "probed", !.todo = <<d>>] = Record("probed", <<d>>, Null, << >>)
    BY <2>1, TakesOn
  <2> QED BY <2>2 DEF ProbeNATType
<1>2. HandlersStep
  BY <1>1, AloneEffect DEF Alone
<1>3. /\ Result(Unknown, now) \in CacheRecs /\ Result(Unknown, now).probeTime = now
      /\ Result(Unknown, now).place.endpoint \notin Endpoints /\ now <= now
  BY UnknownPlace, NullApart DEF Result, CacheRecs, NatInv
<1>4. CacheStep
  BY <1>1, <1>3 DEF CacheStep, NatInv, CacheOK, NotOlder
<1>5. RowsOK' /\ Grown
  BY <1>1, <1>3, RowsKept DEF NatInv
<1> QED BY <1>1, <1>2, <1>3, <1>4, <1>5, InvKept DEF NatInv

LEMMA ProbeReadsInv ==
  ASSUME NatInv, NEW h \in Handlers, ProbeReads(h)
  PROVE  NatInv'
<1>1. CASE devices[Device(h)] = Null
  BY <1>1, FreeEffect, HandlerOnly DEF ProbeReads
<1>2. CASE devices[Device(h)] # Null
  <2>1. PICK d \in Devices : d = Device(h) /\ handler[h].todo = <<d>> /\ handler[h].found = << >>
    BY AloneTodo DEF ProbeReads, Alone
  <2> DEFINE r == [devices[d] EXCEPT !.place = Unknown]
  <2>2. r \in RowRecs /\ r.updatedAt <= now
    BY <1>2, <2>1, RowNotOlder, UnknownPlace DEF RowRecs
  <2>3. Become(h, [handler[h] EXCEPT !.at = "save", !.row = r]) /\ UNCHANGED <<Rows, natCache, now>>
    BY <1>2, <2>1 DEF ProbeReads
  <2> HIDE DEF r
  <2>4. [handler[h] EXCEPT !.at = "save", !.row = r] = Record("save", <<d>>, r, << >>)
    <3>1. handler[h] \in HandlerRecs /\ "save" \in Stations
      BY HandlerAt DEF Stations, Alone
    <3>2. [handler[h] EXCEPT !.at = "save", !.row = r] = Record("save", handler[h].todo, r, handler[h].found)
      BY <2>2, <3>1, GoesOn
    <3> QED BY <2>1, <3>2
  <2>5. HandlersStep
    BY <2>2, <2>3, <2>4, AloneEffect DEF Alone
  <2> QED BY <2>3, <2>5, HandlerOnly
<1> QED BY <1>1, <1>2

LEMMA EndpointInv ==
  ASSUME NatInv, NEW h \in Handlers, NEW d \in Devices, NEW e \in Endpoints, UpdatePublicEndpoint(h, d, e)
  PROVE  NatInv'
<1> DEFINE r == [devices[d] EXCEPT !.place.endpoint = e]
<1>1. r \in RowRecs /\ r.updatedAt <= now
  BY RowNotOlder DEF UpdatePublicEndpoint, RowRecs, Places
<1>2. Become(h, Record("endpoint", <<d>>, r, << >>)) /\ UNCHANGED <<Rows, natCache, now>>
  <2>1. Become(h, [Free EXCEPT !.at = "endpoint", !.todo = <<d>>, !.row = r]) /\ UNCHANGED <<Rows, natCache, now>>
    BY DEF UpdatePublicEndpoint
  <2>2. "endpoint" \in Stations /\ <<d>> \in Seq(Devices)
    BY DEF Stations, Alone
  <2> HIDE DEF r
  <2>3. [Free EXCEPT !.at = "endpoint", !.todo = <<d>>, !.row = r] = Record("endpoint", <<d>>, r, << >>)
    BY <1>1, <2>2, TakesOn
  <2> QED BY <2>1, <2>3
<1> HIDE DEF r
<1>3. HandlersStep
  BY <1>1, <1>2, AloneEffect DEF Alone
<1> QED BY <1>2, <1>3, HandlerOnly

LEMMA RefreshInv ==
  ASSUME NatInv, NEW h \in Handlers, NEW d \in Devices, RefreshVirtualNetworkTopology(h, d)
  PROVE  NatInv'
<1>1. devices[d] \in RowRecs /\ devices[d].updatedAt <= now
  BY RowNotOlder DEF RefreshVirtualNetworkTopology
<1>2. Become(h, Record("save", <<d>>, devices[d], << >>)) /\ UNCHANGED <<Rows, natCache, now>>
  <2>1. PICK r \in RowRecs : r = devices[d]
    BY <1>1
  <2>2. "save" \in Stations /\ <<d>> \in Seq(Devices)
    BY DEF Stations, Alone
  <2>3. [Free EXCEPT !.at = "save", !.todo = <<d>>, !.row = r] = Record("save", <<d>>, r, << >>)
    BY <2>2, TakesOn
  <2>4. Become(h, [Free EXCEPT !.at = "save", !.todo = <<d>>, !.row = r]) /\ UNCHANGED <<Rows, natCache, now>>
    BY <2>1 DEF RefreshVirtualNetworkTopology
  <2> QED BY <2>1, <2>3, <2>4
<1>3. HandlersStep
  BY <1>1, <1>2, AloneEffect DEF Alone
<1> QED BY <1>2, <1>3, HandlerOnly

LEMMA SaveInv ==
  ASSUME NatInv, NEW h \in Handlers, Save(h)
  PROVE  NatInv'
<1>1. PICK d \in Devices : d = Device(h) /\ handler[h].todo = <<d>> /\ handler[h].found = << >>
  BY AloneTodo DEF Save, Alone
<1>2. PICK r : r = [handler[h].row EXCEPT !.updatedAt = now]
  OBVIOUS
<1>3. r \in RowRecs /\ r.updatedAt = now /\ now <= now
  <2>1. handler[h].row \in RowRecs
    BY HandlerAt DEF Save, Shaped
  <2> QED BY <1>2, <2>1, NullApart DEF RowRecs, NatInv
<1>4. SetRow(d, r) /\ natCache' = natCache /\ now' = now
  BY <1>1, <1>2 DEF Save
<1>5. RowsOK' /\ Grown
  BY <1>3, <1>4, RowWritten
<1>6. HandlersStep
  <2>1. CASE handler[h].at = "save"
    BY <2>1, FreeEffect DEF Save
  <2>2. CASE handler[h].at # "save"
    <3>1. Become(h, [handler[h] EXCEPT !.at = "invalidate", !.row = Null])
      BY <2>2 DEF Save
    <3>2. [handler[h] EXCEPT !.at = "invalidate", !.row = Null] = Record("invalidate", <<d>>, Null, << >>)
      <4>1. handler[h] \in HandlerRecs /\ "invalidate" \in Stations
        BY HandlerAt DEF Stations, Alone
      <4>2. [handler[h] EXCEPT !.at = "invalidate", !.row = Null]
              = Record("invalidate", handler[h].todo, Null, handler[h].found)
        BY <4>1, GoesOn
      <4> QED BY <1>1, <4>2
    <3> QED BY <3>1, <3>2, AloneEffect DEF Alone
  <2> QED BY <2>1, <2>2
<1>7. CacheStep
  BY <1>4 DEF CacheStep, NatInv, CacheOK
<1> QED BY <1>3, <1>4, <1>5, <1>6, <1>7, InvKept DEF NatInv

LEMMA InvalidateInv ==
  ASSUME NatInv, NEW h \in Handlers, Invalidate(h)
  PROVE  NatInv'
<1>1. natCache' = [natCache EXCEPT ![Device(h)] = Null] /\ Become(h, Free) /\ UNCHANGED Rows /\ now' = now
  BY DEF Invalidate
<1>2. HandlersStep
  BY <1>1, FreeEffect
<1>3. CacheStep
  BY <1>1 DEF CacheStep, NatInv, CacheOK
<1>4. now <= now'
  BY <1>1, NullApart DEF NatInv
<1>5. RowsOK' /\ Grown
  BY <1>1, <1>4, RowsKept DEF NatInv
<1> QED BY <1>1, <1>2, <1>3, <1>4, <1>5, InvKept DEF NatInv

LEMMA CleanupInv == ASSUME NatInv, CleanupExpiredSessions PROVE NatInv'
<1>1. /\ natCache' = [d \in Devices |->
         IF natCache[d] # Null /\ now - natCache[d].probeTime > TTL THEN Null ELSE natCache[d]]
      /\ UNCHANGED Rows /\ handler' = handler /\ now' = now
  BY DEF CleanupExpiredSessions
<1>2. HandlersStep
  BY <1>1 DEF HandlersStep, NatInv, HandlersOK
<1>3. CacheStep
  BY <1>1 DEF CacheStep, NatInv, CacheOK
<1>4. now <= now'
  BY <1>1, NullApart DEF NatInv
<1>5. RowsOK' /\ Grown
  BY <1>1, <1>4, RowsKept DEF NatInv
<1> QED BY <1>1, <1>2, <1>3, <1>4, <1>5, InvKept DEF NatInv

LEMMA RowInv ==
  ASSUME NatInv, NEW d \in Devices, DeleteRow(d) \/ \E o \in BOOLEAN : UpdateDeviceStatus(d, o)
  PROVE  NatInv'
<1>1. now <= now
  BY NullApart DEF NatInv
<1>2. PICK r \in RowRecs \cup {Null} : (r # Null => r.updatedAt <= now) /\ SetRow(d, r)
  <2>1. CASE DeleteRow(d)
    BY <2>1 DEF DeleteRow
  <2>2. ASSUME NEW o \in BOOLEAN, UpdateDeviceStatus(d, o)
        PROVE  \E r \in RowRecs \cup {Null} : (r # Null => r.updatedAt <= now) /\ SetRow(d, r)
    <3> DEFINE r == [devices[d] EXCEPT !.online = o, !.updatedAt = now]
    <3>1. r \in RowRecs /\ r.updatedAt = now
      BY <2>2, RowNotOlder DEF UpdateDeviceStatus, RowRecs, NatInv
    <3>2. SetRow(d, r)
      BY <2>2 DEF UpdateDeviceStatus
    <3> QED BY <1>1, <3>1, <3>2
  <2> QED BY <2>1, <2>2
<1>3. natCache' = natCache /\ handler' = handler /\ now' = now
  BY DEF DeleteRow, UpdateDeviceStatus
<1>4. RowsOK' /\ Grown
  BY <1>2, <1>3, RowWritten
<1>5. CacheStep /\ HandlersStep
  BY <1>3 DEF CacheStep, HandlersStep, NatInv, CacheOK, HandlersOK
<1> QED BY <1>1, <1>3, <1>4, <1>5, InvKept DEF NatInv

LEMMA TickInv == ASSUME NatInv, Tick \/ UNCHANGED natVars PROVE NatInv'
<1>1. now' \in Times /\ now <= now'
  BY NatAssumption DEF Tick, natVars, NatInv, Times
<1>2. UNCHANGED Rows /\ natCache' = natCache /\ handler' = handler
  BY DEF Tick, natVars, Rows
<1>3. RowsOK' /\ Grown
  BY <1>1, <1>2, RowsKept
<1>4. CacheStep /\ HandlersStep
  BY <1>2 DEF CacheStep, HandlersStep, NatInv, CacheOK, HandlersOK
<1> QED BY <1>1, <1>3, <1>4, InvKept

LEMMA ReleaseInv ==
  ASSUME NatInv, NEW h \in Handlers, SaveFails(h) \/ AnswersSession(h)
  PROVE  NatInv'
<1>1. Become(h, Free) /\ UNCHANGED <<Rows, natCache, now>>
  BY DEF SaveFails, AnswersSession
<1> QED BY <1>1, FreeEffect, HandlerOnly

LEMMA CoordinateInv ==
  ASSUME NatInv, NEW h \in Handlers, NEW a \in Devices, NEW b \in Devices,
         CoordinateHolePunching(h, a, b)
  PROVE  NatInv'
<1>1. "cache" \in Stations /\ <<a, b>> \in Seq(Devices)
  BY DEF Stations, InSession
<1>2. PICK s : s = Record("cache", <<a, b>>, Null, << >>)
  OBVIOUS
<1>3. Become(h, s) /\ UNCHANGED <<Rows, natCache, now>>
  <2>1. [Free EXCEPT !.at = "cache", !.todo = <<a, b>>] = s
    BY <1>1, <1>2, TakesOn
  <2> QED BY <2>1 DEF CoordinateHolePunching
<1>4. s \in HandlerRecs
  BY <1>1, <1>2, EmptySeq DEF Record, HandlerRecs
<1>5. s.at = "cache" /\ Len(s.todo) = 2 /\ Len(s.found) = 0
  BY <1>1, <1>2, EmptySeq DEF Record
<1>6. Shaped(s, now')
  BY <1>5 DEF Shaped, Alone, InSession
<1> QED BY <1>3, <1>4, <1>5, <1>6, BecomeEffect, HandlerOnly

(* A session that has found a place goes on to the next device or to its   *)
(* answer.                                                                 *)
LEMMA AnsweredEffect ==
  ASSUME NatInv, NEW h \in Handlers, handler[h].at \in InSession, NEW p \in Places,
         Become(h, Answered(handler[h], p))
  PROVE  /\ HandlersStep
         /\ handler'[h].found = Append(handler[h].found, p)
         /\ \A g \in Handlers \ {h} : handler'[g] = handler[g]
<1>1. PICK s \in HandlerRecs : s = handler[h]
  BY HandlerAt
<1>2. Shaped(s, now) /\ s.at \in InSession
  BY <1>1, HandlerAt
<1>3. /\ Len(s.todo) \in {1, 2} /\ Tail(s.todo) \in Seq(Devices) /\ Len(Tail(s.todo)) = Len(s.todo) - 1
      /\ Len(s.todo) + Len(s.found) = 2 /\ Len(s.found) \in {0, 1}
  BY <1>2, FirstToDo DEF Shaped
<1>4. /\ Append(s.found, p) \in Seq(Places) /\ Len(Append(s.found, p)) = Len(s.found) + 1
  BY AppendProperties DEF HandlerRecs
<1>5. PICK e : e = Answered(s, p)
  OBVIOUS
<1>6. /\ e.at \in {"cache", "session"} /\ (e.at = "session" <=> Len(s.todo) = 1)
      /\ e.todo = Tail(s.todo) /\ e.found = Append(s.found, p) /\ e.row = Null
  BY <1>5 DEF Answered
<1>7. e \in HandlerRecs
  BY <1>3, <1>4, <1>5 DEF Answered, HandlerRecs, Stations, InSession
<1>8. Shaped(e, now') /\ e.at # "put"
  <2>1. CASE Len(s.todo) = 1
    <3>1. e.at = "session" /\ Len(e.todo) = 0 /\ Len(e.found) = 2
      BY <1>3, <1>4, <1>6, <2>1
    <3> QED BY <3>1 DEF Shaped, Alone, InSession
  <2>2. CASE Len(s.todo) = 2
    <3>1. e.at = "cache" /\ Len(e.todo) = 1 /\ Len(e.found) = 1
      BY <1>3, <1>4, <1>6, <2>2
    <3> QED BY <3>1 DEF Shaped, Alone, InSession
  <2> QED BY <1>3, <2>1, <2>2
<1>9. Become(h, e)
  BY <1>1, <1>5
<1> QED BY <1>1, <1>6, <1>7, <1>8, <1>9, BecomeEffect

LEMMA FromCacheInv ==
  ASSUME NatInv, NEW h \in Handlers, FromCache(h)
  PROVE  NatInv'
<1>1. handler[h].at = "cache" /\ UNCHANGED <<Rows, natCache, now>>
  BY DEF FromCache
<1>2. PICK d \in Devices : d = Device(h)
  BY <1>1, HandlerAt, FirstToDo DEF InSession, Device
<1>3. CASE Good(natCache[d])
  <2>1. natCache[d] \in CacheRecs /\ Become(h, Answered(handler[h], natCache[d].place))
    BY <1>2, <1>3 DEF FromCache, Good, NatInv, CacheOK
  <2>2. natCache[d].place \in Places
    BY <2>1 DEF CacheRecs
  <2>3. HandlersStep
    BY <1>1, <2>1, <2>2, AnsweredEffect DEF InSession
  <2> QED BY <1>1, <2>3, HandlerOnly
<1>4. CASE ~Good(natCache[d])
  <2>1. PICK s \in HandlerRecs : s = handler[h] /\ Shaped(s, now) /\ s.at = "cache"
    BY <1>1, HandlerAt
  <2>2. PICK e : e = [s EXCEPT !.at = "read"]
    OBVIOUS
  <2>3. /\ e \in HandlerRecs /\ e.at = "read" /\ e.todo = s.todo /\ e.found = s.found
    BY <2>2 DEF HandlerRecs, Stations, InSession
  <2>4. Shaped(e, now')
    BY <2>1, <2>3 DEF Shaped, Alone, InSession
  <2>5. Become(h, e)
    BY <1>2, <1>4, <2>1, <2>2 DEF FromCache
  <2>6. HandlersStep
    BY <2>3, <2>4, <2>5, BecomeEffect
  <2> QED BY <1>1, <2>6, HandlerOnly
<1> QED BY <1>3, <1>4

LEMMA FromRowInv ==
  ASSUME NatInv, NEW h \in Handlers, FromRow(h)
  PROVE  NatInv'
<1>1. handler[h].at = "read" /\ UNCHANGED <<Rows, natCache, now>>
  BY DEF FromRow
<1>2. PICK d \in Devices : d = Device(h)
  BY <1>1, HandlerAt, FirstToDo DEF InSession, Device
<1>3. CASE devices[d] = Null
  BY <1>1, <1>2, <1>3, FreeEffect, HandlerOnly DEF FromRow
<1>4. CASE devices[d] # Null
  <2>1. PICK s \in HandlerRecs : s = handler[h] /\ Shaped(s, now) /\ s.at = "read"
    BY <1>1, HandlerAt
  <2>2. PICK r \in RowRecs : r = devices[d] /\ r.updatedAt <= now /\ NotOlder(d, r.place, r.updatedAt)
    BY <1>4, RowNotOlder
  <2>3. "put" \in Stations /\ s.todo \in Seq(Devices) /\ s.found \in Seq(Places)
    BY DEF HandlerRecs, Stations, InSession
  <2>4. PICK e : e = Record("put", s.todo, r, s.found)
    OBVIOUS
  <2>5. e \in HandlerRecs /\ e.at = "put" /\ e.row = r /\ e.todo = s.todo /\ e.found = s.found
    BY <2>3, <2>4 DEF Record, HandlerRecs
  <2>6. Become(h, e)
    <3>1. [s EXCEPT !.at = "put", !.row = r] = e
      BY <2>3, <2>4, GoesOn
    <3>2. Become(h, [s EXCEPT !.at = "put", !.row = r])
      BY <1>2, <1>4, <2>1, <2>2 DEF FromRow
    <3> QED BY <3>1, <3>2
  <2>7. Shaped(e, now')
    BY <1>1, <2>1, <2>2, <2>5 DEF Shaped, Alone, InSession
  <2>8. NotOlder(Head(e.todo), e.row.place, e.row.updatedAt)
    BY <1>2, <2>1, <2>2, <2>5 DEF Device
  <2>9. HandlersStep
    BY <2>5, <2>6, <2>7, <2>8, BecomeEffect
  <2> QED BY <1>1, <2>9, HandlerOnly
<1> QED BY <1>3, <1>4

LEMMA FillCacheInv ==
  ASSUME NatInv, NEW h \in Handlers, FillCache(h)
  PROVE  NatInv'
<1>1. handler[h].at = "put" /\ UNCHANGED Rows /\ now' = now
  BY DEF FillCache
<1>2. PICK d \in Devices : d = Device(h)
  BY <1>1, HandlerAt, FirstToDo DEF InSession, Device
<1>3. PICK r \in RowRecs : r = handler[h].row /\ r.updatedAt <= now /\ NotOlder(d, r.place, r.updatedAt)
  BY <1>1, <1>2, HandlerAt DEF NatInv, HandlersOK, Shaped
<1>4. /\ natCache' = [natCache EXCEPT ![d] = RowResult(r)]
      /\ Become(h, Answered(handler[h], r.place))
  BY <1>2, <1>3 DEF FillCache
<1>5. /\ RowResult(r) \in CacheRecs /\ RowResult(r).place = r.place /\ RowResult(r).probeTime = r.updatedAt
      /\ r.place \in Places
  BY DEF RowResult, Result, RowRecs, CacheRecs
<1>6. HandlersStep
  BY <1>1, <1>4, <1>5, AnsweredEffect DEF InSession
<1>7. CacheStep
  BY <1>1, <1>3, <1>4, <1>5 DEF CacheStep, NatInv, CacheOK
<1>8. now <= now'
  BY <1>1, NullApart DEF NatInv
<1>9. RowsOK' /\ Grown
  BY <1>1, <1>8, RowsKept DEF NatInv
<1> QED BY <1>1, <1>6, <1>7, <1>8, <1>9, InvKept DEF NatInv
-----------------------------------------------------------------------------
(* No action of a handler, of the other writers of rows or of the clock    *)
(* breaks the invariant ...                                                *)
THEOREM NatInvStep == ASSUME NatInv, [NatNext]_natVars PROVE NatInv'
<1>1. ASSUME NEW h \in Handlers, HandlerStep(h) PROVE NatInv'
  BY <1>1, ProbeReadsInv, SaveInv, ReleaseInv, InvalidateInv, FromCacheInv, FromRowInv, FillCacheInv
     DEF HandlerStep
<1>2. ASSUME NEW h \in Handlers, NEW d \in Devices,
             ProbeNATType(h, d) \/ RefreshVirtualNetworkTopology(h, d)
      PROVE  NatInv'
  BY <1>2, ProbeInv, RefreshInv
<1>3. ASSUME NEW h \in Handlers, NEW d \in Devices, NEW e \in Endpoints, UpdatePublicEndpoint(h, d, e)
      PROVE  NatInv'
  BY <1>3, EndpointInv
<1>4. ASSUME NEW h \in Handlers, NEW a \in Devices, NEW b \in Devices, CoordinateHolePunching(h, a, b)
      PROVE  NatInv'
  BY <1>4, CoordinateInv
<1>5. ASSUME NEW d \in Devices, DeleteRow(d) \/ \E o \in BOOLEAN : UpdateDeviceStatus(d, o)
      PROVE  NatInv'
  BY <1>5, RowInv
<1> QED BY <1>1, <1>2, <1>3, <1>4, <1>5, CleanupInv, TickInv DEF NatNext

(* ... which therefore holds in every state NATCoordinator can reach.      *)
THEOREM NatInvariant == NatSpec => []NatInv
<1>1. NatInit => NatInv
  BY NatInvInit
<1>2. NatInv /\ [NatNext]_natVars => NatInv'
  BY NatInvStep
<1> QED BY <1>1, <1>2, PTL DEF NatSpec

(* Rows and cached results are never younger than the clock, and a session *)
(* of CoordinateHolePunching is answered when both devices have been found.*)
THEOREM NatTypeCorrect == NatSpec => []NatTypeOK
<1>1. NatInv => NatTypeOK
  <2> SUFFICES ASSUME NatInv PROVE NatTypeOK
    OBVIOUS
  <2>1. \A d \in Devices : devices[d] # Null =>
          devices[d].place \in Places /\ devices[d].updatedAt \in 0 .. now
    <3> SUFFICES ASSUME NEW d \in Devices, devices[d] # Null
                 PROVE  devices[d].place \in Places /\ devices[d].updatedAt \in 0 .. now
      OBVIOUS
    <3>1. devices[d] \in RowRecs /\ devices[d].updatedAt <= now
      BY RowNotOlder
    <3> QED BY <3>1, NullApart DEF NatInv, RowRecs, Times
  <2>2. \A d \in Devices : natCache[d] # Null => natCache[d].probeTime \in 0 .. now
    <3> SUFFICES ASSUME NEW d \in Devices, natCache[d] # Null PROVE natCache[d].probeTime \in 0 .. now
      OBVIOUS
    <3>1. natCache[d] \in CacheRecs /\ natCache[d].probeTime <= now
      BY DEF NatInv, CacheOK
    <3> QED BY <3>1, NullApart DEF NatInv, CacheRecs, Times
  <2>3. ASSUME NEW h \in Handlers
        PROVE  /\ handler[h].at \in {"cache", "read", "put", "session"} =>
                    Len(handler[h].todo) + Len(handler[h].found) = 2
               /\ handler[h].at = "session" <=> Len(handler[h].found) = 2
               /\ handler[h].at \in {"save", "endpoint", "put"} => handler[h].row # Null
    <3>1. PICK s \in HandlerRecs : s = handler[h] /\ Shaped(s, now)
      BY HandlerAt
    <3>2. s.at \in Stations
      BY DEF HandlerRecs
    <3>3. s.at \in InSession \/ s.at = "session" => Len(s.todo) + Len(s.found) = 2
      <4>1. s.at \in InSession => Len(s.todo) + Len(s.found) = 2
        BY <3>1 DEF Shaped
      <4>2. s.at = "session" => Len(s.todo) = 0 /\ Len(s.found) = 2
        BY <3>1 DEF Shaped
      <4>3. ASSUME s.at = "session" PROVE Len(s.todo) + Len(s.found) = 2
        <5>1. PICK m, n \in Nat : m = Len(s.todo) /\ n = Len(s.found) /\ m = 0 /\ n = 2
          BY <4>2, <4>3
        <5> QED BY <5>1
      <4> QED BY <4>1, <4>3
    <3>4. s.at = "session" => Len(s.found) = 2
      BY <3>1 DEF Shaped
    <3>5. s.at # "session" => Len(s.found) # 2
      <4>1. s.at # "session" => Len(s.found) = 0 \/ Len(s.found) = 1
        BY <3>1, <3>2 DEF Shaped, Stations
      <4> QED BY <4>1
    <3>6. s.at \in {"save", "endpoint", "put"} => s.row # Null
      BY <3>1, NullApart DEF Shaped
    <3>7. handler[h].at \in {"cache", "read", "put", "session"} => s.at \in InSession \/ s.at = "session"
      BY <3>1 DEF InSession
    <3> QED BY <3>1, <3>3, <3>4, <3>5, <3>6, <3>7
  <2> QED BY <2>1, <2>2, <2>3 DEF NatTypeOK
<1> QED BY <1>1, NatInvariant, PTL

(* What getNATResult takes from the cache was in the row less than TTL     *)
(* before: a result is at most as old as the row it was made from, a row   *)
(* as the last time its endpoint was there, and an older one is not used.  *)
LEMMA FreshStep ==
  ASSUME NatInv, [NatNext]_natVars, NEW h \in Handlers, handler[h].at = "cache",
         Len(handler'[h].found) > Len(handler[h].found)
  PROVE  LET d == Device(h)
             e == handler'[h].found[Len(handler'[h].found)].endpoint
         IN e # None => LastIn(d, e) # Null /\ now - LastIn(d, e) < TTL
<1>1. Len(handler[h].found) \in Nat
  BY HandlerAt, LenProperties DEF HandlerRecs
<1>2. handler'[h] # handler[h] /\ handler'[h] # Free
  <2>1. ASSUME handler'[h] = handler[h] PROVE FALSE
    BY <1>1, <2>1
  <2>2. ASSUME handler'[h] = Free PROVE FALSE
    <3>1. Len(handler'[h].found) = 0
      BY <2>2 DEF Free
    <3> QED BY <1>1, <3>1
  <2> QED BY <2>1, <2>2
<1>3. FromCache(h)
  <2>1. \A g \in Handlers : \A s : Become(g, s) /\ g # h => handler'[h] = handler[h]
    BY DEF Become, NatInv, HandlersOK
  <2>2. handler' # handler
    BY <1>2
  <2>3. handler[h] # Free
    BY DEF Free
  <2>4. ASSUME NEW g \in Handlers, HandlerStep(g) PROVE FromCache(h)
    <3>1. PICK s : Become(g, s)
      BY <2>4 DEF HandlerStep, ProbeReads, Save, SaveFails, Invalidate, FromCache, FromRow, FillCache,
                  AnswersSession
    <3>2. g = h
      BY <1>2, <2>1, <3>1
    <3> QED BY <2>4, <3>2 DEF HandlerStep, ProbeReads, Save, SaveFails, Invalidate, FromRow, FillCache,
                              AnswersSession
  <2>5. ASSUME NEW g \in Handlers, NEW d \in Devices,
               ProbeNATType(g, d) \/ RefreshVirtualNetworkTopology(g, d)
               \/ (\E e \in Endpoints : UpdatePublicEndpoint(g, d, e))
               \/ (\E b \in Devices : CoordinateHolePunching(g, d, b))
        PROVE  FALSE
    <3>1. handler[g] = Free /\ \E s : Become(g, s)
      BY <2>5 DEF ProbeNATType, RefreshVirtualNetworkTopology, UpdatePublicEndpoint,
                  CoordinateHolePunching
    <3> QED BY <1>2, <2>1, <2>3, <3>1
  <2>6. ~(DeleteRow(Device(h))) /\ ~Tick /\ ~CleanupExpiredSessions
        /\ \A d \in Devices : ~DeleteRow(d) /\ \A o \in BOOLEAN : ~UpdateDeviceStatus(d, o)
    BY <2>2 DEF DeleteRow, Tick, CleanupExpiredSessions, UpdateDeviceStatus
  <2> QED BY <2>2, <2>4, <2>5, <2>6 DEF NatNext, natVars
<1>4. PICK d \in Devices : d = Device(h)
  BY HandlerAt, FirstToDo DEF InSession, Device
<1>5. PICK c : c = natCache[d]
  OBVIOUS
<1>6. Good(c)
  <2> SUFFICES ASSUME ~Good(c) PROVE FALSE
    OBVIOUS
  <2>1. PICK s \in HandlerRecs : s = handler[h]
    BY HandlerAt
  <2>2. [s EXCEPT !.at = "read"].found = s.found
    BY DEF HandlerRecs
  <2>3. handler'[h] = [s EXCEPT !.at = "read"]
    BY <1>3, <1>4, <1>5, <2>1 DEF FromCache, Become, NatInv, HandlersOK
  <2> QED BY <1>1, <2>1, <2>2, <2>3
<1>7. c \in CacheRecs /\ c.probeTime <= now /\ NotOlder(d, c.place, c.probeTime) /\ now - c.probeTime < TTL
  BY <1>5, <1>6 DEF Good, NatInv, CacheOK
<1>8. handler'[h].found = Append(handler[h].found, c.place)
  <2>1. Become(h, Answered(handler[h], c.place)) /\ c.place \in Places
    BY <1>3, <1>4, <1>5, <1>6, <1>7 DEF FromCache, CacheRecs
  <2> QED BY <2>1, AnsweredEffect DEF InSession
<1>9. handler'[h].found[Len(handler'[h].found)] = c.place
  <2>1. handler[h].found \in Seq(Places) /\ c.place \in Places
    BY <1>7, HandlerAt DEF HandlerRecs, CacheRecs
  <2> QED BY <1>8, <2>1, AppendProperties
<1>10. ASSUME NEW e, e = c.place.endpoint, e # None PROVE LastIn(d, e) # Null /\ now - LastIn(d, e) < TTL
  <2>1. e \in Endpoints /\ c.probeTime \in Nat /\ now \in Nat /\ TTL \in Nat
    BY <1>7, <1>10, NullApart DEF CacheRecs, Places, NatInv
  <2>2. LastIn(d, e) # Null /\ c.probeTime <= LastIn(d, e)
    BY <1>7, <1>10, <2>1 DEF NotOlder
  <2>3. LastIn(d, e) \in Nat
    BY <2>1, <2>2, LastInType, NullApart DEF NatInv
  <2> QED BY <1>7, <2>1, <2>2, <2>3
<1> QED BY <1>4, <1>9, <1>10

(* An endpoint that getNATResult takes from the cache was in the row of    *)
(* its device less than TTL before.  (What it reads from the row itself is *)
(* not bounded: the row may have changed when it answers.)                 *)
THEOREM NatFreshEndpoint == NatSpec => FreshEndpoint
<1>1. NatInv /\ [NatNext]_natVars =>
        [\A h \in Handlers :
           (handler[h].at = "cache" /\ Len(handler'[h].found) > Len(handler[h].found)) =>
             LET d == Device(h)
                 e == handler'[h].found[Len(handler'[h].found)].endpoint
             IN e # None => LastIn(d, e) # Null /\ now - LastIn(d, e) < TTL]_natVars
  BY FreshStep
<1> QED BY <1>1, NatInvariant, PTL DEF NatSpec, FreshEndpoint
=============================================================================
