------------------------ MODULE DeviceRegistry_proofs ------------------------
(***************************************************************************)
(* Proofs about device registration and the address pools, for any number  *)
(* of threads, handlers, networks, addresses and keys.                     *)
(***************************************************************************)
EXTENDS DeviceRegistry, FiniteSetTheorems, TLAPS

-----------------------------------------------------------------------------
(* The pools.  What holds between steps, beside the types: ...             *)
IsReleasing(t) == call[t].at = "release"

(* ... a thread in a call has a network; it waits for the pool of a        *)
(* network that has one, and loads that of a network that has none ...     *)
PlacesKnown ==
  \A t \in Threads :
    /\ call[t].at # "idle" => call[t].net \in Networks
    /\ call[t].at \in {"take", "release"} => call[t].net \in made
    /\ call[t].at \in {"load", "publish"} => call[t].net \notin made

(* ... rows have no address but the constant, and nothing is marked where  *)
(* there is no pool ...                                                    *)
RowsRead    == \A t \in Threads : call[t].at = "publish" => call[t].rows \subseteq {Constant}
EmptyBefore == \A n \in Networks \ made : ipPools[n] = {}

(* ... an address has one user ...                                         *)
OneUser == \A n \in Networks : \A x \in held[n], y \in held[n] : x[1] = y[1] => x = y

(* ... or one thread that releases it, which no longer has it.             *)
ReleasersApart ==
  \A t \in Threads : IsReleasing(t) =>
    /\ call[t].addr \in ipPools[call[t].net]
    /\ call[t].addr \notin HeldIn(call[t].net)
    /\ \A u \in Threads \ {t} :
         IsReleasing(u) /\ call[u].net = call[t].net => call[u].addr # call[t].addr

PoolInv == PoolTypeOK /\ PlacesKnown /\ RowsRead /\ EmptyBefore /\ OneUser /\ ReleasersApart
             /\ MarksMatch

(* The device rows change, which do not come from the pool.                *)
RowStep == UNCHANGED memory

LEMMA PoolInvInit == ASSUME PoolInit PROVE PoolInv
  BY PoolAssumption
  DEF PoolInit, PoolInv, PoolTypeOK, PlacesKnown, RowsRead, EmptyBefore, OneUser, ReleasersApart,
      MarksMatch, HeldIn, IsReleasing, Idle, At, Places

LEMMA RowInv == ASSUME PoolInv, RowStep PROVE PoolInv'
  BY DEF RowStep, memory, PoolInv, PoolTypeOK, PlacesKnown, RowsRead, EmptyBefore, OneUser,
         ReleasersApart, MarksMatch, HeldIn, Releasing, IsReleasing

LEMMA RestartInv == ASSUME PoolInv, PoolRestart PROVE PoolInv'
  BY PoolAssumption
  DEF PoolRestart, PoolInv, PoolTypeOK, PlacesKnown, RowsRead, EmptyBefore, OneUser,
      ReleasersApart, MarksMatch, HeldIn, IsReleasing, Idle, At, Places

(* What a thread does leaves the others alone.                             *)
CallRecords == [at : Places, net : Networks \cup {Null}, addr : Nat, rows : SUBSET Nat]

Moves(t, c) ==
  /\ call' \in [Threads -> CallRecords] /\ call'[t] = c
  /\ \A u \in Threads \ {t} : call'[u] = call[u]

LEMMA BecomeEffect ==
  ASSUME PoolTypeOK, NEW t \in Threads, NEW p \in Places, NEW n \in Networks \cup {Null},
         NEW a \in Nat, NEW S \in SUBSET Nat, Become(t, At(p, n, a, S))
  PROVE  Moves(t, At(p, n, a, S))
  BY DEF PoolTypeOK, CallRecords, Become, At, Moves

(* The same for the three ways in which the actions use it.                *)
LEMMA DoneEffect ==
  ASSUME PoolTypeOK, NEW t \in Threads, Done(t)
  PROVE  Moves(t, Idle)
  BY BecomeEffect DEF Done, Idle, Places

LEMMA GoEffect ==
  ASSUME PoolTypeOK, NEW t \in Threads, NEW p \in Places, Go(t, p)
  PROVE  Moves(t, At(p, call[t].net, call[t].addr, {}))
<1>1. call[t] \in CallRecords
  BY DEF PoolTypeOK, CallRecords
<1> QED BY <1>1, BecomeEffect DEF Go, CallRecords

(* The addresses being released are those of the threads that release.     *)
LEMMA ReleasingKept ==
  ASSUME NEW t \in Threads, NEW c, Moves(t, c), ~IsReleasing(t), c.at # "release"
  PROVE  \A n : Releasing(n)' = Releasing(n)
<1>1. \A n : {u \in Threads : call[u].at = "release" /\ call[u].net = n}'
               = {u \in Threads : call[u].at = "release" /\ call[u].net = n}
             /\ t \notin {u \in Threads : call[u].at = "release" /\ call[u].net = n}
  BY DEF Moves, IsReleasing
<1> QED BY <1>1 DEF Releasing, Moves

LEMMA ActionMoves ==
  ASSUME PoolTypeOK, PlacesKnown, NEW t \in Threads
  PROVE
    /\ \A n \in Asked : AllocateVirtualIP(t, n) => Moves(t, At("lookup", n, 0, {}))
    /\ Lookup(t) => Moves(t, At(IF call[t].net \in made THEN "take" ELSE "lock", call[t].net, call[t].addr, {}))
    /\ DoubleCheck(t) => Moves(t, At(IF call[t].net \in made THEN "take" ELSE "load", call[t].net, call[t].addr, {}))
    /\ FindByVirtualNetwork(t) => Moves(t, At("publish", call[t].net, 0, InRows(call[t].net)))
    /\ LoadFails(t) => Moves(t, Idle)
    /\ Publish(t) => Moves(t, At("take", call[t].net, call[t].addr, {}))
    /\ Allocate(t) => Moves(t, Idle)
    /\ ReleaseVirtualIP(t) => Moves(t, Idle)
    /\ \A n \in Asked : GivesUp(t, n) => \E x \in held[n] :
         /\ x[2] = t /\ Moves(t, At("release", n, x[1], {}))
         /\ held' = [held EXCEPT ![n] = @ \ {x}]
<1> USE PoolAssumption
<1>0. /\ call[t] \in CallRecords
      /\ {"lookup", "take", "lock", "load", "publish", "release"} \subseteq Places
      /\ \A n \in Networks : (\A x \in held[n] : x[1] \in Nat) /\ InRows(n) \subseteq Nat
  BY DEF PoolTypeOK, CallRecords, Places, InRows
<1>1. ASSUME NEW n \in Asked, AllocateVirtualIP(t, n) PROVE Moves(t, At("lookup", n, 0, {}))
  BY <1>0, <1>1, BecomeEffect DEF AllocateVirtualIP
<1>2. ASSUME Lookup(t) PROVE Moves(t, At(IF call[t].net \in made THEN "take" ELSE "lock", call[t].net, call[t].addr, {}))
  BY <1>0, <1>2, GoEffect DEF Lookup
<1>3. ASSUME DoubleCheck(t) PROVE Moves(t, At(IF call[t].net \in made THEN "take" ELSE "load", call[t].net, call[t].addr, {}))
  BY <1>0, <1>3, GoEffect DEF DoubleCheck
<1>4. ASSUME FindByVirtualNetwork(t) PROVE Moves(t, At("publish", call[t].net, 0, InRows(call[t].net)))
  BY <1>0, <1>4, BecomeEffect DEF FindByVirtualNetwork, PlacesKnown
<1>5. ASSUME LoadFails(t) PROVE Moves(t, Idle)
  BY <1>0, <1>5, DoneEffect DEF LoadFails
<1>6. ASSUME Publish(t) PROVE Moves(t, At("take", call[t].net, call[t].addr, {}))
  BY <1>0, <1>6, GoEffect DEF Publish
<1>7. ASSUME Allocate(t) PROVE Moves(t, Idle)
  BY <1>0, <1>7, DoneEffect DEF Allocate
<1>8. ASSUME ReleaseVirtualIP(t) PROVE Moves(t, Idle)
  BY <1>0, <1>8, DoneEffect DEF ReleaseVirtualIP
<1>9. ASSUME NEW n \in Asked, GivesUp(t, n)
      PROVE  \E x \in held[n] : /\ x[2] = t /\ Moves(t, At("release", n, x[1], {}))
                                /\ held' = [held EXCEPT ![n] = @ \ {x}]
  BY <1>0, <1>9, BecomeEffect DEF GivesUp
<1> QED BY <1>1, <1>2, <1>3, <1>4, <1>5, <1>6, <1>7, <1>8, <1>9

-----------------------------------------------------------------------------
(* Every step keeps the invariant; a part of it is nobody's business but   *)
(* the threads' that are at the places it speaks of.                       *)
LEMMA QuietInv ==
  ASSUME PoolInv, NEW t \in Threads,
         \/ \E n \in Asked : AllocateVirtualIP(t, n)
         \/ Lookup(t) \/ DoubleCheck(t) \/ LoadFails(t)
  PROVE  PoolInv'
<1> USE PoolAssumption
<1>1. PICK p \in {"lookup", "take", "lock", "load", "idle"},
           n \in Networks \cup {Null} :
        /\ \E a \in Nat : Moves(t, At(p, n, a, {}))
        /\ p # "idle" => n \in Networks
        /\ p = "take" => n \in made
        /\ p = "load" => n \notin made
  <2>1. CASE \E n \in Asked : AllocateVirtualIP(t, n)
    BY <2>1, ActionMoves DEF PoolInv
  <2>2. CASE Lookup(t)
    <3>1. call[t].net \in Networks /\ call[t].addr \in Nat
      BY <2>2 DEF PoolInv, PlacesKnown, Lookup, PoolTypeOK
    <3> QED BY <2>2, <3>1, ActionMoves DEF PoolInv
  <2>3. CASE DoubleCheck(t)
    <3>1. call[t].net \in Networks /\ call[t].addr \in Nat
      BY <2>3 DEF PoolInv, PlacesKnown, DoubleCheck, PoolTypeOK
    <3> QED BY <2>3, <3>1, ActionMoves DEF PoolInv
  <2>4. CASE LoadFails(t)
    BY <2>4, ActionMoves DEF PoolInv, Idle
  <2> QED BY <2>1, <2>2, <2>3, <2>4
<1>2. UNCHANGED <<made, ipPools, held>> /\ ~IsReleasing(t) /\ ~IsReleasing(t)'
  <2>1. UNCHANGED <<made, ipPools, held>> /\ call[t].at \in {"idle", "lookup", "lock", "load"}
    BY DEF AllocateVirtualIP, Lookup, DoubleCheck, LoadFails
  <2> QED BY <1>1, <2>1 DEF Moves, At, IsReleasing
<1>3. PoolTypeOK'
  <2>1. call \in [Threads -> CallRecords] /\ call' \in [Threads -> CallRecords]
    BY <1>1 DEF PoolInv, PoolTypeOK, Moves, CallRecords
  <2>2. /\ ipPoolMu' \in Threads \cup {Null}
        /\ \A u \in Threads : (call'[u].at \in {"load", "publish"}) <=> (ipPoolMu' = u)
    <3>1. CASE (\E m \in Asked : AllocateVirtualIP(t, m)) \/ Lookup(t)
      <4>1. UNCHANGED ipPoolMu /\ call[t].at \in {"idle", "lookup"} /\ call'[t].at \in {"lookup", "take", "lock"}
        <5>1. CASE Lookup(t)
          <6>1. UNCHANGED ipPoolMu /\ call[t].at = "lookup"
            BY <5>1 DEF Lookup
          <6>2. PICK q \in {"take", "lock"} : Moves(t, At(q, call[t].net, call[t].addr, {}))
            BY <5>1, ActionMoves DEF PoolInv
          <6> QED BY <6>1, <6>2 DEF Moves, At
        <5>2. ASSUME NEW m \in Asked, AllocateVirtualIP(t, m)
              PROVE  /\ UNCHANGED ipPoolMu /\ call[t].at \in {"idle", "lookup"}
                     /\ call'[t].at \in {"lookup", "take", "lock"}
          <6>1. UNCHANGED ipPoolMu /\ call[t].at = "idle"
            BY <5>2 DEF AllocateVirtualIP
          <6>2. Moves(t, At("lookup", m, 0, {}))
            BY <5>2, ActionMoves DEF PoolInv
          <6> QED BY <6>1, <6>2 DEF Moves, At
        <5> QED BY <3>1, <5>1, <5>2
      <4> QED BY <1>1, <4>1 DEF PoolInv, PoolTypeOK, Moves
    <3>2. CASE DoubleCheck(t)
      BY <3>2, <1>1, ActionMoves DEF PoolInv, PoolTypeOK, Moves, At, DoubleCheck
    <3>3. CASE LoadFails(t)
      BY <3>3, <1>1, ActionMoves DEF PoolInv, PoolTypeOK, Moves, At, Idle, LoadFails
    <3> QED BY <3>1, <3>2, <3>3
  <2> QED BY <1>2, <2>1, <2>2 DEF PoolInv, PoolTypeOK, CallRecords
<1>4. PlacesKnown'
  BY <1>1, <1>2 DEF PoolInv, PlacesKnown, Moves, At
<1>5. RowsRead' /\ EmptyBefore' /\ OneUser'
  BY <1>1, <1>2 DEF PoolInv, RowsRead, EmptyBefore, OneUser, Moves, At
<1>6. ReleasersApart'
  BY <1>1, <1>2 DEF PoolInv, ReleasersApart, Moves, IsReleasing, HeldIn
<1>7. MarksMatch'
  <2>1. \A m : Releasing(m)' = Releasing(m)
    BY <1>1, <1>2, ReleasingKept DEF At
  <2> QED BY <1>2, <2>1 DEF PoolInv, MarksMatch, HeldIn
<1> QED BY <1>3, <1>4, <1>5, <1>6, <1>7 DEF PoolInv

LEMMA ReadInv ==
  ASSUME PoolInv, NEW t \in Threads, FindByVirtualNetwork(t)
  PROVE  PoolInv'
<1> USE PoolAssumption
<1>1. Moves(t, At("publish", call[t].net, 0, InRows(call[t].net)))
  BY ActionMoves DEF PoolInv
<1>2. UNCHANGED <<made, ipPools, ipPoolMu, held>> /\ call[t].at = "load"
  BY DEF FindByVirtualNetwork
<1>3. PoolTypeOK'
  BY <1>1, <1>2 DEF PoolInv, PoolTypeOK, Moves, At, CallRecords
<1>4. PlacesKnown' /\ EmptyBefore' /\ OneUser'
  BY <1>1, <1>2 DEF PoolInv, PlacesKnown, EmptyBefore, OneUser, Moves, At
<1>5. RowsRead'
  BY <1>1, <1>2 DEF PoolInv, RowsRead, InRows, Moves, At
<1>6. ReleasersApart'
  BY <1>1, <1>2 DEF PoolInv, ReleasersApart, Moves, At, IsReleasing, HeldIn
<1>7. MarksMatch'
  <2>1. \A n : Releasing(n)' = Releasing(n)
    BY <1>1, <1>2, ReleasingKept DEF At, IsReleasing
  <2> QED BY <1>2, <2>1 DEF PoolInv, MarksMatch, HeldIn
<1> QED BY <1>3, <1>4, <1>5, <1>6, <1>7 DEF PoolInv

LEMMA PublishInv ==
  ASSUME PoolInv, NEW t \in Threads, Publish(t)
  PROVE  PoolInv'
<1> USE PoolAssumption
<1> DEFINE n == call[t].net
<1>1. Moves(t, At("take", n, call[t].addr, {}))
  BY ActionMoves DEF PoolInv
<1>2. /\ call[t].at = "publish" /\ n \in Networks /\ n \notin made
      /\ made' = made \cup {n} /\ ipPools' = [ipPools EXCEPT ![n] = call[t].rows]
      /\ ipPoolMu' = Null /\ UNCHANGED held /\ call[t].rows \subseteq {Constant}
  BY DEF Publish, PoolInv, PlacesKnown, RowsRead
<1>3. \A u \in Threads \ {t} : call[u].at \notin {"load", "publish"}
  BY <1>2 DEF PoolInv, PoolTypeOK
<1>4. ipPools' \in [Networks -> SUBSET Nat] /\ ipPools'[n] = call[t].rows
      /\ \A m \in Networks \ {n} : ipPools'[m] = ipPools[m]
  BY <1>2 DEF PoolInv, PoolTypeOK
<1>5. PoolTypeOK'
  BY <1>1, <1>2, <1>3, <1>4 DEF PoolInv, PoolTypeOK, Moves, At, CallRecords
<1>6. PlacesKnown' /\ RowsRead'
  BY <1>1, <1>2, <1>3 DEF PoolInv, PlacesKnown, RowsRead, Moves, At
<1>7. EmptyBefore' /\ OneUser'
  BY <1>2, <1>4 DEF PoolInv, EmptyBefore, OneUser
<1>8. ReleasersApart'
  <2>1. \A u \in Threads : IsReleasing(u)' => call'[u] = call[u] /\ IsReleasing(u) /\ u # t
    BY <1>1 DEF Moves, At, IsReleasing
  <2>2. \A u \in Threads : IsReleasing(u) => call[u].net \in Networks \ {n}
    BY <1>2 DEF PoolInv, PlacesKnown, IsReleasing
  <2> QED BY <1>2, <1>4, <2>1, <2>2 DEF PoolInv, ReleasersApart, HeldIn, IsReleasing
<1>9. MarksMatch'
  <2>1. \A m : Releasing(m)' = Releasing(m)
    BY <1>1, <1>2, ReleasingKept DEF At, IsReleasing
  <2>2. HeldIn(n) = {}
    BY <1>2 DEF PoolInv, EmptyBefore, MarksMatch
  <2>3. \A m \in Networks : HeldIn(m)' = HeldIn(m)
    BY <1>2 DEF HeldIn
  <2> QED BY <1>2, <1>4, <2>1, <2>2, <2>3 DEF PoolInv, MarksMatch
<1> QED BY <1>5, <1>6, <1>7, <1>8, <1>9 DEF PoolInv

LEMMA AllocateInv ==
  ASSUME PoolInv, NEW t \in Threads, Allocate(t)
  PROVE  PoolInv'
<1> USE PoolAssumption
<1> DEFINE n == call[t].net
<1>1. /\ call[t].at = "take" /\ n \in made /\ n \in Networks
      /\ UNCHANGED <<made, ipPoolMu>> /\ Moves(t, Idle)
  BY ActionMoves DEF Allocate, PoolInv, PlacesKnown
<1>2. \A m : Releasing(m)' = Releasing(m)
  BY <1>1, ReleasingKept DEF Idle, At, IsReleasing
<1>3. \A u \in Threads : IsReleasing(u)' => call'[u] = call[u] /\ IsReleasing(u)
  BY <1>1 DEF Moves, Idle, At, IsReleasing
<1>4. PlacesKnown' /\ RowsRead'
  BY <1>1 DEF PoolInv, PlacesKnown, RowsRead, Moves, Idle, At
<1>5. CASE UNCHANGED <<ipPools, held>>
  <2>1. PoolTypeOK'
    BY <1>1, <1>5 DEF PoolInv, PoolTypeOK, Moves, Idle, At, CallRecords
  <2>2. EmptyBefore' /\ OneUser' /\ ReleasersApart'
    BY <1>1, <1>3, <1>5
    DEF PoolInv, EmptyBefore, OneUser, ReleasersApart, HeldIn
  <2>3. MarksMatch'
    BY <1>2, <1>5 DEF PoolInv, MarksMatch, HeldIn
  <2> QED BY <1>4, <2>1, <2>2, <2>3 DEF PoolInv
<1>6. ASSUME NEW a \in Hosts(n) \ ipPools[n],
             ipPools' = [ipPools EXCEPT ![n] = @ \cup {a}],
             held' = [held EXCEPT ![n] = @ \cup {<<a, t>>}]
      PROVE  PoolInv'
  <2>1. /\ a \in Nat
        /\ ipPools' \in [Networks -> SUBSET Nat] /\ ipPools'[n] = ipPools[n] \cup {a}
        /\ \A m \in Networks \ {n} : ipPools'[m] = ipPools[m]
    BY <1>1, <1>6 DEF PoolInv, PoolTypeOK, Hosts
  <2>2. /\ held' \in [Networks -> SUBSET (Nat \X Threads)] /\ held'[n] = held[n] \cup {<<a, t>>}
        /\ \A m \in Networks \ {n} : held'[m] = held[m]
    BY <1>1, <1>6, <2>1 DEF PoolInv, PoolTypeOK
  <2>3. /\ a \notin HeldIn(n)
        /\ \A m \in Networks : HeldIn(m)' = IF m = n THEN HeldIn(m) \cup {a} ELSE HeldIn(m)
    <3>1. a \notin HeldIn(n)
      BY <1>1 DEF PoolInv, MarksMatch
    <3>2. {x[1] : x \in held[n] \cup {<<a, t>>}} = HeldIn(n) \cup {a}
      <4>1. \A S : {x[1] : x \in S \cup {<<a, t>>}} = {x[1] : x \in S} \cup {<<a, t>>[1]}
        OBVIOUS
      <4>2. <<a, t>>[1] = a
        OBVIOUS
      <4> QED BY <4>1, <4>2 DEF HeldIn
    <3>3. \A m \in Networks \ {n} : HeldIn(m)' = HeldIn(m)
      BY <2>2 DEF HeldIn
    <3>4. \A m \in Networks : m = n => HeldIn(m)' = {x[1] : x \in held[n] \cup {<<a, t>>}}
      BY <2>2 DEF HeldIn
    <3> QED BY <3>1, <3>2, <3>3, <3>4
  <2>4. PoolTypeOK'
    BY <1>1, <2>1, <2>2 DEF PoolInv, PoolTypeOK, Moves, Idle, At, CallRecords
  <2>5. EmptyBefore'
    BY <1>1, <2>1 DEF PoolInv, EmptyBefore
  <2>6. OneUser'
    BY <2>2, <2>3 DEF PoolInv, OneUser, HeldIn
  <2>7. ReleasersApart'
    <3>1. ASSUME NEW u \in Threads, IsReleasing(u), NEW m, m = call[u].net
          PROVE  call[u].addr \in ipPools'[m] /\ call[u].addr \notin HeldIn(m)'
      BY <1>1, <2>1, <2>3, <3>1 DEF PoolInv, PlacesKnown, ReleasersApart, IsReleasing
    <3>2. \A u, v \in Threads : IsReleasing(u) /\ IsReleasing(v) /\ u # v /\ call[u].net = call[v].net
            => call[u].addr # call[v].addr
      BY DEF PoolInv, ReleasersApart
    <3> QED BY <1>3, <3>1, <3>2 DEF ReleasersApart, HeldIn
  <2>8. MarksMatch'
    <3>1. \A m \in Networks : HeldIn(m)' \subseteq ipPools'[m]
      BY <2>1, <2>3 DEF PoolInv, MarksMatch
    <3>2. \A m \in Networks : ipPools'[m] \subseteq HeldIn(m)' \cup {Constant} \cup Releasing(m)'
      BY <1>2, <2>1, <2>3 DEF PoolInv, MarksMatch
    <3> QED BY <3>1, <3>2 DEF MarksMatch
  <2> QED BY <1>4, <2>4, <2>5, <2>6, <2>7, <2>8 DEF PoolInv
<1> QED BY <1>5, <1>6 DEF Allocate

LEMMA GivesUpInv ==
  ASSUME PoolInv, NEW t \in Threads, NEW n \in Asked, GivesUp(t, n)
  PROVE  PoolInv'
<1> USE PoolAssumption
<1>1. PICK x \in held[n] :
        x[2] = t /\ Moves(t, At("release", n, x[1], {})) /\ held' = [held EXCEPT ![n] = @ \ {x}]
  BY ActionMoves DEF PoolInv
<1>2. /\ call[t].at = "idle" /\ n \in Networks /\ x[1] \in HeldIn(n) /\ x[1] \in ipPools[n]
      /\ n \in made /\ UNCHANGED <<made, ipPools, ipPoolMu>>
  <2>1. x[1] \in HeldIn(n) /\ n \in Networks
    BY DEF HeldIn
  <2> QED BY <2>1 DEF GivesUp, PoolInv, MarksMatch, EmptyBefore
<1>3. /\ held' \in [Networks -> SUBSET (Nat \X Threads)] /\ held'[n] = held[n] \ {x}
      /\ \A m \in Networks \ {n} : held'[m] = held[m]
  BY <1>1, <1>2 DEF PoolInv, PoolTypeOK
<1>4. /\ HeldIn(n)' = HeldIn(n) \ {x[1]}
      /\ \A m \in Networks \ {n} : HeldIn(m)' = HeldIn(m)
  BY <1>2, <1>3 DEF PoolInv, OneUser, HeldIn
<1>5. PoolTypeOK' /\ PlacesKnown'
  <2>1. call'[t].at = "release" /\ call'[t].net = n
    BY <1>1 DEF Moves, At
  <2>2. PoolTypeOK'
    BY <1>1, <1>2, <1>3, <2>1 DEF PoolInv, PoolTypeOK, Moves, CallRecords
  <2>3. PlacesKnown'
    BY <1>1, <1>2, <2>1 DEF PoolInv, PlacesKnown, Moves
  <2> QED BY <2>2, <2>3
<1>6. RowsRead' /\ EmptyBefore' /\ OneUser'
  BY <1>1, <1>2, <1>3 DEF PoolInv, RowsRead, EmptyBefore, OneUser, Moves, At
<1>7. /\ IsReleasing(t)' /\ call'[t].net = n /\ call'[t].addr = x[1] /\ ~IsReleasing(t)
      /\ \A u \in Threads \ {t} : call'[u] = call[u] /\ (IsReleasing(u)' <=> IsReleasing(u))
  BY <1>1, <1>2 DEF Moves, At, IsReleasing
<1>8. ReleasersApart'
  <2>1. ASSUME NEW u \in Threads \ {t}, IsReleasing(u), NEW m, m = call[u].net
        PROVE  /\ call[u].addr \in ipPools[m] /\ call[u].addr \notin HeldIn(m)'
               /\ m = n => call[u].addr # x[1]
    BY <1>2, <1>4, <2>1 DEF PoolInv, PlacesKnown, ReleasersApart, IsReleasing
  <2>2. x[1] \notin HeldIn(n)'
    BY <1>4
  <2>3. \A u, v \in Threads : IsReleasing(u) /\ IsReleasing(v) /\ u # v /\ call[u].net = call[v].net
          => call[u].addr # call[v].addr
    BY DEF PoolInv, ReleasersApart
  <2> QED BY <1>2, <1>7, <2>1, <2>2, <2>3 DEF ReleasersApart, HeldIn
<1>9. MarksMatch'
  <2>1. \A m : Releasing(m) \subseteq Releasing(m)'
    BY <1>7 DEF Releasing, IsReleasing
  <2>2. x[1] \in Releasing(n)'
    BY <1>7 DEF Releasing, IsReleasing
  <2> QED BY <1>2, <1>4, <2>1, <2>2 DEF PoolInv, MarksMatch
<1> QED BY <1>5, <1>6, <1>8, <1>9 DEF PoolInv

LEMMA ReleaseInv ==
  ASSUME PoolInv, NEW t \in Threads, ReleaseVirtualIP(t)
  PROVE  PoolInv'
<1> USE PoolAssumption
<1> DEFINE n == call[t].net
           a == call[t].addr
<1>1. Moves(t, Idle)
  BY ActionMoves DEF PoolInv
<1>2. /\ call[t].at = "release" /\ n \in made /\ n \in Networks /\ a \notin HeldIn(n)
      /\ ipPools' = [ipPools EXCEPT ![n] = @ \ {a}]
      /\ UNCHANGED <<made, held, ipPoolMu>>
  BY DEF ReleaseVirtualIP, WithoutPool, PoolInv, PlacesKnown, ReleasersApart, IsReleasing
<1>3. /\ ipPools' \in [Networks -> SUBSET Nat] /\ ipPools'[n] = ipPools[n] \ {a}
      /\ \A m \in Networks \ {n} : ipPools'[m] = ipPools[m]
  BY <1>2 DEF PoolInv, PoolTypeOK
<1>4. PoolTypeOK' /\ PlacesKnown'
  BY <1>1, <1>2, <1>3 DEF PoolInv, PoolTypeOK, PlacesKnown, Moves, Idle, At, CallRecords
<1>5. RowsRead' /\ EmptyBefore' /\ OneUser'
  BY <1>1, <1>2, <1>3 DEF PoolInv, RowsRead, EmptyBefore, OneUser, Moves, Idle, At
<1>6. \A m \in Networks : HeldIn(m)' = HeldIn(m)
  BY <1>2 DEF HeldIn
<1>7. \A u \in Threads : IsReleasing(u)' <=> IsReleasing(u) /\ u # t
  BY <1>1 DEF Moves, Idle, At, IsReleasing
<1>8. \A u \in Threads \ {t} : call'[u] = call[u]
  BY <1>1 DEF Moves
<1>9. ReleasersApart'
  <2>1. ASSUME NEW u \in Threads \ {t}, IsReleasing(u), NEW m, m = call[u].net
        PROVE  call[u].addr \in ipPools'[m] /\ call[u].addr \notin HeldIn(m)'
    BY <1>2, <1>3, <1>6, <2>1 DEF PoolInv, PlacesKnown, ReleasersApart, IsReleasing
  <2>2. \A u, v \in Threads : IsReleasing(u) /\ IsReleasing(v) /\ u # v /\ call[u].net = call[v].net
          => call[u].addr # call[v].addr
    BY DEF PoolInv, ReleasersApart
  <2> QED BY <1>7, <1>8, <2>1, <2>2 DEF ReleasersApart, HeldIn
<1>10. MarksMatch'
  <2>1. \A m : \A b \in Releasing(m) : b \in Releasing(m)' \/ (m = n /\ b = a)
    BY <1>7, <1>8 DEF Releasing, IsReleasing
  <2> QED BY <1>2, <1>3, <1>6, <2>1 DEF PoolInv, MarksMatch
<1> QED BY <1>4, <1>5, <1>9, <1>10 DEF PoolInv

LEMMA PoolInvStep == ASSUME PoolInv, PoolStep PROVE PoolInv'
  BY QuietInv, ReadInv, PublishInv, AllocateInv, GivesUpInv, ReleaseInv
  DEF PoolStep, AllocateStep

-----------------------------------------------------------------------------
(* The promise.  An address is given to a thread, or taken back from it ... *)
LEMMA AllocateGives ==
  ASSUME PoolInv, NEW t \in Threads, Allocate(t)
  PROVE  Promise!ANext \/ UNCHANGED held
<1> USE PoolAssumption
<1> DEFINE n == call[t].net
<1>1. n \in Networks
  BY DEF Allocate, PoolInv, PlacesKnown
<1>2. CASE UNCHANGED held
  BY <1>2
<1>3. ASSUME NEW a \in Hosts(n) \ ipPools[n], held' = [held EXCEPT ![n] = @ \cup {<<a, t>>}]
      PROVE  Promise!ANext
  <2>1. a \in Promise!Hosts(n) \ Promise!InUse(n)
    BY <1>1, <1>3 DEF PoolInv, MarksMatch, HeldIn, Promise!InUse, Promise!Hosts, Hosts
  <2>2. Promise!Give(n, t)
    BY <1>3, <2>1 DEF Promise!Give
  <2> QED BY <1>1, <2>2 DEF Promise!ANext
<1> QED BY <1>2, <1>3 DEF Allocate

LEMMA GivesUpTakesBack ==
  ASSUME NEW t \in Threads, NEW n \in Asked, GivesUp(t, n)
  PROVE  Promise!ANext
  BY PoolAssumption DEF GivesUp, Promise!TakeBack, Promise!ANext

(* ... and the other steps change nothing in it.                           *)
LEMMA PoolStepPromised == ASSUME PoolInv, PoolStep PROVE Promise!ANext \/ UNCHANGED held
<1>1. ASSUME NEW t \in Threads, AllocateStep(t) PROVE Promise!ANext \/ UNCHANGED held
  BY <1>1, AllocateGives
  DEF AllocateStep, Lookup, DoubleCheck, FindByVirtualNetwork, LoadFails, Publish
<1>2. ASSUME NEW t \in Threads, ReleaseVirtualIP(t) PROVE UNCHANGED held
  BY <1>2 DEF ReleaseVirtualIP
<1>3. ASSUME NEW t \in Threads, NEW n \in Asked, AllocateVirtualIP(t, n) PROVE UNCHANGED held
  BY <1>3 DEF AllocateVirtualIP
<1> QED BY <1>1, <1>2, <1>3, GivesUpTakesBack DEF PoolStep

-----------------------------------------------------------------------------
(* The registration beside the pools: its steps change no more of their    *)
(* state than the device rows.                                             *)
LEMMA PoolPart ==
  ASSUME [Next]_regVars
  PROVE  PoolStep \/ PoolRestart \/ RowStep
<1>1. ASSUME NEW h \in Handlers, RegisterStep(h) PROVE RowStep
  BY <1>1 DEF RegisterStep, FindByPublicKey, Create, CreateFails, IncrementUsedCount, IncrementFails,
              poolVars, memory, RowStep
<1>2. ASSUME NEW h \in Handlers, NEW k \in Psks, NEW key \in PublicKeys, NEW n \in Networks,
             RegisterDevice(h, k, key, n)
      PROVE  RowStep
  BY <1>2 DEF RegisterDevice, poolVars, memory, RowStep
<1>3. ASSUME NEW r \in devices, RevokeDevice(r) PROVE RowStep
  BY <1>3 DEF RevokeDevice, RowStep
<1>4. ASSUME NEW k \in Psks, Expire(k) PROVE RowStep
  BY <1>4 DEF Expire, poolVars, memory, RowStep
<1>5. CASE UNCHANGED regVars
  BY <1>5 DEF regVars, poolVars, memory, RowStep
<1> QED BY <1>1, <1>2, <1>3, <1>4, <1>5 DEF Next, Restart

LEMMA PoolInvNext == ASSUME PoolInv, [Next]_regVars PROVE PoolInv'
  BY PoolPart, PoolInvStep, RestartInv, RowInv

(* Pools, their users and the calls in flight agree in every reachable     *)
(* state ...                                                               *)
THEOREM PoolsAgree == Spec => []PoolInv
<1>1. Init => PoolInv
  BY PoolInvInit DEF Init
<1>2. PoolInv /\ [Next]_regVars => PoolInv'
  BY PoolInvNext
<1> QED BY <1>1, <1>2, PTL DEF Spec

(* ... so that what a pool has marked is what is in use: whatever a user   *)
(* has is marked, and a mark is an address of a user, one being released,  *)
(* or the constant address of the device rows ...                          *)
THEOREM MarksKept == Spec => []MarksMatch
<1>1. PoolInv => MarksMatch
  BY DEF PoolInv
<1> QED BY <1>1, PoolsAgree, PTL

(* ... and the pools implement their promise: what a user has from a pool  *)
(* is not handed out again before it is given up, through first requests   *)
(* that race for the making of the pool, failed loads and restarts.        *)
THEOREM PromiseKept == Spec => NeverGivenTwice
<1>1. Init => Promise!AInit
  BY DEF Init, PoolInit, Promise!AInit
<1>2. ASSUME PoolInv, [Next]_regVars PROVE [Promise!ANext]_held
  <2>1. CASE PoolStep
    BY <1>2, <2>1, PoolStepPromised
  <2>2. CASE PoolRestart
    BY <2>2 DEF PoolRestart, Promise!ANext, Promise!Crash
  <2>3. CASE RowStep
    BY <2>3 DEF RowStep, memory
  <2> QED BY <1>2, <2>1, <2>2, <2>3, PoolPart
<1>3. Spec => []PoolInv
  BY PoolsAgree
<1> QED BY <1>1, <1>2, <1>3, PTL DEF Spec, NeverGivenTwice, Promise!ASpec

-----------------------------------------------------------------------------
(* The uses of a key.  Requests are counted by the key they have been      *)
(* admitted with: all of them, and those that have not created a device.   *)
Active(k)  == {h \in Handlers : request[h].at # "free" /\ request[h].psk = k}
Pending(k) == {h \in Handlers : request[h].at \in {"find", "create"} /\ request[h].psk = k}

Requests == [at : {"free", "find", "create", "count"}, psk : Psks \cup {Null},
             key : PublicKeys \cup {Null}, net : Networks \cup {Null}]

UsesTypeOK ==
  /\ request \in [Handlers -> Requests]
  /\ \A h \in Handlers : request[h].at # "free" => request[h].psk \in Psks
  /\ used \in [Psks -> Nat] /\ created \in [Psks -> Nat] /\ uncounted \in [Psks -> Nat]
  /\ late \in [Psks -> Nat] /\ expired \subseteq Psks

(* Every device is counted, or will be, or never.                          *)
AllCounted == \A k \in Psks : created[k] = used[k] + uncounted[k] + Cardinality(Counting(k))

(* The uses counted, and those that requests in progress will count.       *)
LimitHeld ==
  \A k \in Psks : MaxUses[k] # Null =>
    used[k] + Cardinality(Active(k)) <= MaxUses[k] + Cardinality(Handlers) - 1

(* Once a key has expired there are only the requests admitted before.     *)
LateFew ==
  \A k \in Psks : IF k \in expired THEN late[k] + Cardinality(Pending(k)) <= Cardinality(Handlers)
                  ELSE late[k] = 0

UsesInv == UsesTypeOK /\ AllCounted /\ LimitHeld /\ LateFew

(* Sets of handlers, and what a handler adds to one or takes from it.      *)
LEMMA HandlerSets ==
  ASSUME NEW S \in SUBSET Handlers
  PROVE  /\ Cardinality(S) \in Nat /\ Cardinality(Handlers) \in Nat /\ Cardinality(Handlers) >= 1
         /\ Cardinality(S) <= Cardinality(Handlers)
         /\ \A h \in Handlers :
              /\ Cardinality(S \cup {h}) = IF h \in S THEN Cardinality(S) ELSE Cardinality(S) + 1
              /\ Cardinality(S \ {h}) = IF h \in S THEN Cardinality(S) - 1 ELSE Cardinality(S)
              /\ h \notin S => Cardinality(S) <= Cardinality(Handlers) - 1
<1> USE RegistryAssumption
<1>1. /\ IsFiniteSet(S) /\ Cardinality(S) <= Cardinality(Handlers)
      /\ Cardinality(S) = Cardinality(Handlers) => Handlers = S
  BY FS_Subset
<1>2. Cardinality(S) \in Nat /\ Cardinality(Handlers) \in Nat
  BY <1>1, FS_CardinalityType
<1>3. Cardinality(Handlers) # 0
  BY FS_EmptySet
<1>4. ASSUME NEW h \in Handlers
      PROVE  /\ Cardinality(S \cup {h}) = IF h \in S THEN Cardinality(S) ELSE Cardinality(S) + 1
             /\ Cardinality(S \ {h}) = IF h \in S THEN Cardinality(S) - 1 ELSE Cardinality(S)
  BY <1>1, FS_AddElement, FS_RemoveElement
<1>5. ASSUME NEW h \in Handlers, h \notin S
      PROVE  Cardinality(S) <= Cardinality(Handlers) - 1
  BY <1>1, <1>2, <1>5
<1> QED BY <1>1, <1>2, <1>3, <1>4, <1>5

(* One handler goes on, or answers.                                        *)
LEMMA RequestMoves ==
  ASSUME UsesTypeOK, NEW h \in Handlers, NEW q \in Requests, request' = [request EXCEPT ![h] = q],
         NEW k \in Psks
  PROVE  /\ Active(k)' = IF q.at # "free" /\ q.psk = k THEN Active(k) \cup {h} ELSE Active(k) \ {h}
         /\ Pending(k)' = IF q.at \in {"find", "create"} /\ q.psk = k
                          THEN Pending(k) \cup {h} ELSE Pending(k) \ {h}
         /\ Counting(k)' = IF q.at = "count" /\ q.psk = k
                           THEN Counting(k) \cup {h} ELSE Counting(k) \ {h}
  BY DEF UsesTypeOK, Active, Pending, Counting

(* What a request counts for, as a number, and how the counts change with  *)
(* it: by what it is afterwards, less what it was.                         *)
One(q, at, k) == IF q.at \in at /\ q.psk = k THEN 1 ELSE 0
AtActive  == {"find", "create", "count"}
AtPending == {"find", "create"}
AtCount   == {"count"}

LEMMA CountsAreNat ==
  ASSUME NEW k \in Psks
  PROVE  /\ Cardinality(Active(k)) \in Nat /\ Cardinality(Pending(k)) \in Nat
         /\ Cardinality(Counting(k)) \in Nat /\ Cardinality(Handlers) \in Nat
         /\ Cardinality(Pending(k)) <= Cardinality(Handlers)
<1>1. Active(k) \in SUBSET Handlers /\ Pending(k) \in SUBSET Handlers /\ Counting(k) \in SUBSET Handlers
  BY DEF Active, Pending, Counting
<1> QED BY <1>1, HandlerSets

LEMMA CountsMove ==
  ASSUME UsesTypeOK, NEW h \in Handlers, NEW q \in Requests, request' = [request EXCEPT ![h] = q],
         NEW k \in Psks
  PROVE  /\ Cardinality(Active(k)') = Cardinality(Active(k)) + One(q, AtActive, k) - One(request[h], AtActive, k)
         /\ Cardinality(Pending(k)') = Cardinality(Pending(k)) + One(q, AtPending, k) - One(request[h], AtPending, k)
         /\ Cardinality(Counting(k)') = Cardinality(Counting(k)) + One(q, AtCount, k) - One(request[h], AtCount, k)
<1> DEFINE A == Active(k)
           P == Pending(k)
           C == Counting(k)
<1>1. request[h] \in Requests
  BY DEF UsesTypeOK
<1>2. A \in SUBSET Handlers /\ P \in SUBSET Handlers /\ C \in SUBSET Handlers
  BY DEF Active, Pending, Counting
<1>3. /\ h \in A <=> One(request[h], AtActive, k) = 1
      /\ h \in P <=> One(request[h], AtPending, k) = 1
      /\ h \in C <=> One(request[h], AtCount, k) = 1
  BY <1>1 DEF Active, Pending, Counting, One, AtActive, AtPending, AtCount, Requests
<1>4. /\ One(request[h], AtActive, k) \in {0, 1} /\ One(q, AtActive, k) \in {0, 1}
      /\ One(request[h], AtPending, k) \in {0, 1} /\ One(q, AtPending, k) \in {0, 1}
      /\ One(request[h], AtCount, k) \in {0, 1} /\ One(q, AtCount, k) \in {0, 1}
  BY DEF One
<1>5. /\ A' = IF One(q, AtActive, k) = 1 THEN A \cup {h} ELSE A \ {h}
      /\ P' = IF One(q, AtPending, k) = 1 THEN P \cup {h} ELSE P \ {h}
      /\ C' = IF One(q, AtCount, k) = 1 THEN C \cup {h} ELSE C \ {h}
  <2>1. /\ Active(k)' = IF q.at # "free" /\ q.psk = k THEN Active(k) \cup {h} ELSE Active(k) \ {h}
        /\ Pending(k)' = IF q.at \in {"find", "create"} /\ q.psk = k
                         THEN Pending(k) \cup {h} ELSE Pending(k) \ {h}
        /\ Counting(k)' = IF q.at = "count" /\ q.psk = k
                          THEN Counting(k) \cup {h} ELSE Counting(k) \ {h}
    BY RequestMoves
  <2>2. /\ One(q, AtActive, k) = 1 <=> q.at # "free" /\ q.psk = k
        /\ One(q, AtPending, k) = 1 <=> q.at \in {"find", "create"} /\ q.psk = k
        /\ One(q, AtCount, k) = 1 <=> q.at = "count" /\ q.psk = k
    BY DEF One, AtActive, AtPending, AtCount, Requests
  <2> QED BY <2>1, <2>2
<1>6. ASSUME NEW S \in SUBSET Handlers, NEW T, NEW was \in {0, 1}, NEW is \in {0, 1},
             h \in S <=> was = 1, T = IF is = 1 THEN S \cup {h} ELSE S \ {h}
      PROVE  Cardinality(T) = Cardinality(S) + is - was
  <2>1. /\ Cardinality(S) \in Nat
        /\ Cardinality(S \cup {h}) = IF h \in S THEN Cardinality(S) ELSE Cardinality(S) + 1
        /\ Cardinality(S \ {h}) = IF h \in S THEN Cardinality(S) - 1 ELSE Cardinality(S)
    BY HandlerSets
  <2> QED BY <1>6, <2>1
<1>7. Cardinality(A') = Cardinality(A) + One(q, AtActive, k) - One(request[h], AtActive, k)
  <2> HIDE DEF A
  <2> QED BY <1>2, <1>3, <1>4, <1>5, <1>6
<1>8. Cardinality(P') = Cardinality(P) + One(q, AtPending, k) - One(request[h], AtPending, k)
  <2> HIDE DEF P
  <2> QED BY <1>2, <1>3, <1>4, <1>5, <1>6
<1>9. Cardinality(C') = Cardinality(C) + One(q, AtCount, k) - One(request[h], AtCount, k)
  <2> HIDE DEF C
  <2> QED BY <1>2, <1>3, <1>4, <1>5, <1>6
<1> QED BY <1>7, <1>8, <1>9

LEMMA AnswerMoves ==
  ASSUME UsesTypeOK, NEW h \in Handlers, Answer(h)
  PROVE  /\ Waiting \in Requests /\ request' = [request EXCEPT ![h] = Waiting]
         /\ Waiting.at = "free"
  BY DEF Answer, Waiting, Requests

LEMMA ProceedMoves ==
  ASSUME UsesTypeOK, NEW h \in Handlers, NEW at \in {"create", "count"}, Proceed(h, at)
  PROVE  LET q == [at |-> at, psk |-> request[h].psk, key |-> request[h].key, net |-> request[h].net]
         IN  q \in Requests /\ request' = [request EXCEPT ![h] = q]
<1>1. request[h] \in Requests
  BY DEF UsesTypeOK
<1>2. [request[h] EXCEPT !.at = at]
        = [at |-> at, psk |-> request[h].psk, key |-> request[h].key, net |-> request[h].net]
  BY <1>1 DEF Requests
<1>3. request' = [request EXCEPT ![h] = [request[h] EXCEPT !.at = at]]
  BY DEF Proceed, UsesTypeOK
<1> QED BY <1>1, <1>2, <1>3 DEF Requests

LEMMA UsesInvInit == ASSUME Init PROVE UsesInv
<1> USE RegistryAssumption
<1>1. UsesTypeOK
  BY DEF Init, UsesTypeOK, Waiting, Requests
<1>2. ASSUME NEW k \in Psks PROVE Active(k) = {} /\ Pending(k) = {} /\ Counting(k) = {}
  BY DEF Init, Waiting, Active, Pending, Counting
<1>3. Cardinality({}) = 0 /\ Cardinality(Handlers) \in Nat /\ Cardinality(Handlers) >= 1
  BY FS_EmptySet, HandlerSets
<1>4. AllCounted /\ LateFew
  BY <1>2, <1>3 DEF Init, AllCounted, LateFew
<1>5. LimitHeld
  <2> SUFFICES ASSUME NEW k \in Psks, MaxUses[k] # Null
               PROVE  used[k] + Cardinality(Active(k)) <= MaxUses[k] + Cardinality(Handlers) - 1
    BY DEF LimitHeld
  <2>1. used[k] = 0 /\ MaxUses[k] \in Nat /\ Cardinality(Active(k)) = 0
    BY <1>2, <1>3 DEF Init
  <2> QED BY <1>3, <2>1
<1> QED BY <1>1, <1>4, <1>5 DEF UsesInv

LEMMA UsesInvStep == ASSUME UsesInv, [Next]_regVars PROVE UsesInv'
<1> USE RegistryAssumption DEF UsesInv
<1>0. \A k \in Psks : /\ Active(k) \in SUBSET Handlers /\ Pending(k) \in SUBSET Handlers
                      /\ Counting(k) \in SUBSET Handlers
                      /\ \A h \in Counting(k) \cup Pending(k) : h \in Active(k)
  BY DEF Active, Pending, Counting
<1>1. ASSUME NEW h \in Handlers, NEW k \in Psks, NEW key \in PublicKeys, NEW n \in Networks,
             RegisterDevice(h, k, key, n)
      PROVE  UsesInv'
  <2> DEFINE q == [at |-> "find", psk |-> k, key |-> key, net |-> n]
  <2>1. q \in Requests /\ request' = [request EXCEPT ![h] = q] /\ UNCHANGED <<used, expired, history>>
    BY <1>1 DEF RegisterDevice, Requests
  <2>2. UsesTypeOK'
    BY <2>1 DEF UsesTypeOK, history
  <2>3. request[h].at = "free" /\ IsValid(k)
    BY <1>1 DEF RegisterDevice, Waiting
  <2>4. \A j \in Psks : h \notin Active(j) /\ h \notin Pending(j) /\ h \notin Counting(j)
    BY <2>3 DEF Active, Pending, Counting
  <2>5. ASSUME NEW j \in Psks
        PROVE  /\ Cardinality(Counting(j)') = Cardinality(Counting(j))
               /\ Cardinality(Active(j)') = IF j = k THEN Cardinality(Active(j)) + 1 ELSE Cardinality(Active(j))
               /\ Cardinality(Pending(j)') = IF j = k THEN Cardinality(Pending(j)) + 1 ELSE Cardinality(Pending(j))
    <3>1. request[h].at = "free"
      BY <2>3
    <3>2. /\ Cardinality(Active(j)) \in Nat /\ Cardinality(Pending(j)) \in Nat
          /\ Cardinality(Counting(j)) \in Nat
      BY CountsAreNat
    <3>3. /\ Cardinality(Active(j)') = Cardinality(Active(j)) + One(q, AtActive, j) - One(request[h], AtActive, j)
          /\ Cardinality(Pending(j)') = Cardinality(Pending(j)) + One(q, AtPending, j) - One(request[h], AtPending, j)
          /\ Cardinality(Counting(j)') = Cardinality(Counting(j)) + One(q, AtCount, j) - One(request[h], AtCount, j)
      <4> HIDE DEF q
      <4> QED BY <2>1, CountsMove
    <3> QED BY <3>1, <3>2, <3>3 DEF One, AtActive, AtPending, AtCount
  <2>6. AllCounted'
    BY <2>1, <2>5 DEF AllCounted, history
  <2>7. LimitHeld'
    <3> SUFFICES ASSUME NEW j \in Psks, MaxUses[j] # Null
                 PROVE  used[j] + Cardinality(Active(j)') <= MaxUses[j] + Cardinality(Handlers) - 1
      BY <2>1 DEF LimitHeld
    <3>1. CASE j # k
      BY <2>5, <3>1 DEF LimitHeld
    <3>2. CASE j = k
      <4>1. used[k] < MaxUses[k] /\ Cardinality(Active(k)) <= Cardinality(Handlers) - 1
        BY <1>0, <2>3, <2>4, <3>2, HandlerSets DEF IsValid
      <4>2. used[k] \in Nat /\ MaxUses[k] \in Nat /\ Cardinality(Active(k)) \in Nat /\ Cardinality(Handlers) \in Nat
        BY <1>0, <3>2, HandlerSets DEF UsesTypeOK
      <4> QED BY <2>5, <3>2, <4>1, <4>2
    <3> QED BY <3>1, <3>2
  <2>8. LateFew'
    <3>1. k \notin expired
      BY <2>3 DEF IsValid
    <3> QED BY <2>1, <2>5, <3>1 DEF LateFew, history
  <2> QED BY <2>2, <2>6, <2>7, <2>8
<1>2. ASSUME NEW h \in Handlers, Answer(h), UNCHANGED <<used, expired, history>>,
             request[h].at \in {"find", "create"}
      PROVE  UsesInv'
  <2>1. UsesTypeOK'
    BY <1>2, AnswerMoves DEF UsesTypeOK, history
  <2>2. ASSUME NEW j \in Psks
        PROVE  /\ Cardinality(Counting(j)') = Cardinality(Counting(j))
               /\ Cardinality(Active(j)') <= Cardinality(Active(j)) /\ Cardinality(Active(j)') \in Nat
               /\ Cardinality(Pending(j)') <= Cardinality(Pending(j)) /\ Cardinality(Pending(j)') \in Nat
               /\ Cardinality(Active(j)) \in Nat /\ Cardinality(Pending(j)) \in Nat
    <3>1. Active(j)' \subseteq Active(j) /\ Pending(j)' \subseteq Pending(j) /\ Counting(j)' = Counting(j)
      <4>1. Active(j)' = Active(j) \ {h} /\ Pending(j)' = Pending(j) \ {h} /\ Counting(j)' = Counting(j) \ {h}
        BY <1>2, AnswerMoves, RequestMoves
      <4>2. h \notin Counting(j)
        BY <1>2 DEF Counting
      <4> QED BY <4>1, <4>2
    <3>2. IsFiniteSet(Active(j)) /\ IsFiniteSet(Pending(j))
      BY <1>0, FS_Subset
    <3> QED BY <3>1, <3>2, CountsAreNat, FS_Subset, FS_CardinalityType
  <2>3. Cardinality(Handlers) \in Nat
    BY HandlerSets
  <2>4. AllCounted' /\ LimitHeld' /\ LateFew'
    BY <1>2, <2>2, <2>3 DEF AllCounted, LimitHeld, LateFew, UsesTypeOK, history
  <2> QED BY <2>1, <2>4
<1>3. ASSUME NEW h \in Handlers, FindByPublicKey(h), Proceed(h, "create")
      PROVE  UsesInv'
  <2> DEFINE k == request[h].psk
             q == [at |-> "create", psk |-> k, key |-> request[h].key, net |-> request[h].net]
  <2>1. /\ q \in Requests /\ request' = [request EXCEPT ![h] = q]
        /\ UNCHANGED <<used, expired, history>> /\ request[h].at = "find" /\ k \in Psks
    BY <1>3, ProceedMoves DEF FindByPublicKey, UsesTypeOK
  <2>2. UsesTypeOK'
    BY <2>1 DEF UsesTypeOK, history
  <2>3. \A j \in Psks : /\ Active(j)' = Active(j) /\ Pending(j)' = Pending(j)
                        /\ Counting(j)' = Counting(j)
    BY <2>1, RequestMoves DEF Active, Pending, Counting
  <2>4. AllCounted' /\ LimitHeld' /\ LateFew'
    BY <2>1, <2>3 DEF AllCounted, LimitHeld, LateFew, history
  <2> QED BY <2>2, <2>4
<1>4. ASSUME NEW h \in Handlers, Create(h)
      PROVE  UsesInv'
  <2> DEFINE k == request[h].psk
             q == [at |-> "count", psk |-> k, key |-> request[h].key, net |-> request[h].net]
  <2>1. /\ q \in Requests /\ request' = [request EXCEPT ![h] = q]
        /\ UNCHANGED <<used, expired, uncounted>> /\ request[h].at = "create" /\ k \in Psks
        /\ created' = [created EXCEPT ![k] = @ + 1]
        /\ late' = IF k \in expired THEN [late EXCEPT ![k] = @ + 1] ELSE late
    BY <1>4, ProceedMoves DEF Create, UsesTypeOK
  <2>2. UsesTypeOK'
    BY <2>1 DEF UsesTypeOK
  <2>3. ASSUME NEW j \in Psks
        PROVE  /\ Cardinality(Active(j)') = Cardinality(Active(j))
               /\ Cardinality(Counting(j)') = IF j = k THEN Cardinality(Counting(j)) + 1 ELSE Cardinality(Counting(j))
               /\ Cardinality(Pending(j)') = IF j = k THEN Cardinality(Pending(j)) - 1 ELSE Cardinality(Pending(j))
               /\ Cardinality(Active(j)) \in Nat /\ Cardinality(Pending(j)) \in Nat
               /\ Cardinality(Counting(j)) \in Nat
    <3>1. /\ Cardinality(Active(j)) \in Nat /\ Cardinality(Pending(j)) \in Nat
          /\ Cardinality(Counting(j)) \in Nat
      BY CountsAreNat
    <3>2. /\ Cardinality(Active(j)') = Cardinality(Active(j)) + One(q, AtActive, j) - One(request[h], AtActive, j)
          /\ Cardinality(Pending(j)') = Cardinality(Pending(j)) + One(q, AtPending, j) - One(request[h], AtPending, j)
          /\ Cardinality(Counting(j)') = Cardinality(Counting(j)) + One(q, AtCount, j) - One(request[h], AtCount, j)
      <4> HIDE DEF q
      <4> QED BY <2>1, CountsMove
    <3> QED BY <2>1, <3>1, <3>2 DEF One, AtActive, AtPending, AtCount
  <2>4. AllCounted'
    BY <2>1, <2>3 DEF AllCounted, UsesTypeOK
  <2>5. LimitHeld'
    BY <2>1, <2>3 DEF LimitHeld
  <2>6. LateFew'
    <3> SUFFICES ASSUME NEW j \in Psks
                 PROVE  IF j \in expired THEN late'[j] + Cardinality(Pending(j)') <= Cardinality(Handlers)
                        ELSE late'[j] = 0
      BY <2>1 DEF LateFew
    <3>1. late[j] \in Nat /\ Cardinality(Handlers) \in Nat
      BY HandlerSets DEF UsesTypeOK
    <3>2. late'[j] = IF j = k /\ k \in expired THEN late[j] + 1 ELSE late[j]
      BY <2>1 DEF UsesTypeOK
    <3> QED BY <2>3, <3>1, <3>2 DEF LateFew
  <2> QED BY <2>2, <2>4, <2>5, <2>6
<1>5. ASSUME NEW h \in Handlers, IncrementUsedCount(h) \/ IncrementFails(h)
      PROVE  UsesInv'
  <2> DEFINE k == request[h].psk
  <2>1. /\ request' = [request EXCEPT ![h] = Waiting] /\ Waiting \in Requests /\ Waiting.at = "free"
        /\ request[h].at = "count" /\ k \in Psks /\ UNCHANGED <<expired, created, late>>
        /\ \/ used' = [used EXCEPT ![k] = @ + 1] /\ UNCHANGED uncounted
           \/ uncounted' = [uncounted EXCEPT ![k] = @ + 1] /\ UNCHANGED used
    BY <1>5, AnswerMoves DEF IncrementUsedCount, IncrementFails, UsesTypeOK, history
  <2>2. UsesTypeOK'
    BY <2>1 DEF UsesTypeOK
  <2>3. ASSUME NEW j \in Psks
        PROVE  /\ Cardinality(Active(j)') = IF j = k THEN Cardinality(Active(j)) - 1 ELSE Cardinality(Active(j))
               /\ Cardinality(Counting(j)') = IF j = k THEN Cardinality(Counting(j)) - 1 ELSE Cardinality(Counting(j))
               /\ Cardinality(Pending(j)') = Cardinality(Pending(j))
               /\ Cardinality(Active(j)) \in Nat /\ Cardinality(Counting(j)) \in Nat
    <3>1. /\ Cardinality(Active(j)) \in Nat /\ Cardinality(Pending(j)) \in Nat
          /\ Cardinality(Counting(j)) \in Nat
      BY CountsAreNat
    <3>2. /\ Cardinality(Active(j)') = Cardinality(Active(j)) + One(Waiting, AtActive, j) - One(request[h], AtActive, j)
          /\ Cardinality(Pending(j)') = Cardinality(Pending(j)) + One(Waiting, AtPending, j) - One(request[h], AtPending, j)
          /\ Cardinality(Counting(j)') = Cardinality(Counting(j)) + One(Waiting, AtCount, j) - One(request[h], AtCount, j)
      BY <2>1, CountsMove
    <3> QED BY <2>1, <3>1, <3>2 DEF One, AtActive, AtPending, AtCount
  <2>4. AllCounted'
    <3> SUFFICES ASSUME NEW j \in Psks
                 PROVE  created'[j] = used'[j] + uncounted'[j] + Cardinality(Counting(j)')
      BY DEF AllCounted
    <3>1. /\ used[j] \in Nat /\ uncounted[j] \in Nat /\ created'[j] = created[j]
          /\ created[j] = used[j] + uncounted[j] + Cardinality(Counting(j))
      BY <2>1 DEF UsesTypeOK, AllCounted
    <3>2. \/ used'[j] = (IF j = k THEN used[j] + 1 ELSE used[j]) /\ uncounted'[j] = uncounted[j]
          \/ uncounted'[j] = (IF j = k THEN uncounted[j] + 1 ELSE uncounted[j]) /\ used'[j] = used[j]
      BY <2>1 DEF UsesTypeOK
    <3> QED BY <2>3, <3>1, <3>2
  <2>5. LimitHeld'
    <3> SUFFICES ASSUME NEW j \in Psks, MaxUses[j] # Null
                 PROVE  used'[j] + Cardinality(Active(j)') <= MaxUses[j] + Cardinality(Handlers) - 1
      BY DEF LimitHeld
    <3>1. used[j] \in Nat /\ MaxUses[j] \in Nat /\ Cardinality(Handlers) \in Nat
      BY HandlerSets DEF UsesTypeOK
    <3>2. used'[j] <= IF j = k THEN used[j] + 1 ELSE used[j]
      BY <2>1 DEF UsesTypeOK
    <3>3. used'[j] \in Nat
      BY <2>2 DEF UsesTypeOK
    <3> QED BY <2>3, <3>1, <3>2, <3>3 DEF LimitHeld
  <2>6. LateFew'
    BY <2>1, <2>3 DEF LateFew
  <2> QED BY <2>2, <2>4, <2>5, <2>6
<1>6. ASSUME NEW k \in Psks, Expire(k)
      PROVE  UsesInv'
  <2>1. UNCHANGED <<request, used, history>> /\ k \notin expired /\ expired' = expired \cup {k}
    BY <1>6 DEF Expire
  <2>2. \A j \in Psks : UNCHANGED <<Active(j), Pending(j), Counting(j)>>
    BY <2>1 DEF Active, Pending, Counting
  <2>3. \A j \in Psks : /\ Cardinality(Pending(j)) <= Cardinality(Handlers)
                        /\ Cardinality(Pending(j)) \in Nat
    BY <1>0, HandlerSets
  <2> QED BY <2>1, <2>2, <2>3 DEF UsesTypeOK, AllCounted, LimitHeld, LateFew, history
<1>7. ASSUME Restart
      PROVE  UsesInv'
  <2>1. /\ request' = [h \in Handlers |-> Waiting] /\ Waiting \in Requests /\ Waiting.at = "free"
        /\ uncounted' = [j \in Psks |-> uncounted[j] + Cardinality(Counting(j))]
        /\ UNCHANGED <<used, expired, created, late>>
    BY <1>7 DEF Restart, Waiting, Requests
  <2>2. \A j \in Psks : /\ Cardinality(Counting(j)) \in Nat /\ Cardinality(Active(j)) \in Nat
                        /\ Cardinality(Pending(j)) \in Nat
    BY <1>0, HandlerSets
  <2>3. \A j \in Psks : Active(j)' = {} /\ Pending(j)' = {} /\ Counting(j)' = {}
    BY <2>1 DEF Active, Pending, Counting
  <2>4. Cardinality({}) = 0 /\ Cardinality(Handlers) \in Nat
    BY FS_EmptySet, HandlerSets
  <2>5. UsesTypeOK'
    BY <2>1, <2>2 DEF UsesTypeOK
  <2>6. ASSUME NEW j \in Psks
        PROVE  /\ Cardinality(Active(j)') = 0 /\ Cardinality(Pending(j)') = 0
               /\ Cardinality(Counting(j)') = 0
    <3>1. Active(j)' = {} /\ Pending(j)' = {} /\ Counting(j)' = {}
      BY <2>3
    <3> QED BY <2>4, <3>1
  <2>7. AllCounted'
    <3> SUFFICES ASSUME NEW j \in Psks
                 PROVE  created'[j] = used'[j] + uncounted'[j] + Cardinality(Counting(j)')
      BY DEF AllCounted
    <3>1. /\ used[j] \in Nat /\ uncounted[j] \in Nat /\ created'[j] = created[j] /\ used'[j] = used[j]
          /\ created[j] = used[j] + uncounted[j] + Cardinality(Counting(j))
          /\ uncounted'[j] = uncounted[j] + Cardinality(Counting(j))
      BY <2>1 DEF UsesTypeOK, AllCounted
    <3> QED BY <2>2, <2>6, <3>1
  <2>8. LimitHeld'
    <3> SUFFICES ASSUME NEW j \in Psks, MaxUses[j] # Null
                 PROVE  used'[j] + Cardinality(Active(j)') <= MaxUses[j] + Cardinality(Handlers) - 1
      BY DEF LimitHeld
    <3>1. /\ used'[j] = used[j] /\ used[j] \in Nat /\ MaxUses[j] \in Nat
          /\ used[j] + Cardinality(Active(j)) <= MaxUses[j] + Cardinality(Handlers) - 1
      BY <2>1 DEF UsesTypeOK, LimitHeld
    <3> QED BY <2>2, <2>4, <2>6, <3>1
  <2>9. LateFew'
    <3> SUFFICES ASSUME NEW j \in Psks
                 PROVE  IF j \in expired THEN late[j] + Cardinality(Pending(j)') <= Cardinality(Handlers)
                        ELSE late[j] = 0
      BY <2>1 DEF LateFew
    <3>1. /\ late[j] \in Nat
          /\ IF j \in expired THEN late[j] + Cardinality(Pending(j)) <= Cardinality(Handlers) ELSE late[j] = 0
      BY DEF UsesTypeOK, LateFew
    <3> QED BY <2>2, <2>4, <2>6, <3>1
  <2> QED BY <2>5, <2>7, <2>8, <2>9
<1>8. CASE UNCHANGED <<used, expired, request, history>>
  BY <1>8 DEF UsesTypeOK, AllCounted, LimitHeld, LateFew, Active, Pending, Counting, history
<1>9. ASSUME NEW h \in Handlers, RegisterStep(h) PROVE UsesInv'
  <2>1. CASE FindByPublicKey(h)
    BY <1>2, <1>3, <2>1 DEF FindByPublicKey
  <2>2. CASE CreateFails(h)
    BY <1>2, <2>2 DEF CreateFails
  <2> QED BY <1>4, <1>5, <1>9, <2>1, <2>2 DEF RegisterStep
<1>10. ASSUME NEW r \in devices, RevokeDevice(r) PROVE UsesInv'
  BY <1>8, <1>10 DEF RevokeDevice
<1>11. CASE UNCHANGED regVars
  BY <1>8, <1>11 DEF regVars
<1> QED BY <1>1, <1>6, <1>7, <1>8, <1>9, <1>10, <1>11 DEF Next

(* A key of limited uses admits no more than its uses, one for every       *)
(* request served beside another, and the uses that were never counted; an *)
(* expired one no more than there are handlers, for any number of them, of *)
(* keys and of devices.                                                    *)
THEOREM UsesBounded == Spec => []UsesBound
<1>1. Init => UsesInv
  BY UsesInvInit
<1>2. UsesInv /\ [Next]_regVars => UsesInv'
  BY UsesInvStep
<1>3. UsesInv => UsesBound
  <2> SUFFICES ASSUME UsesInv, NEW k \in Psks
               PROVE  /\ created[k] = used[k] + uncounted[k] + Cardinality(Counting(k))
                      /\ MaxUses[k] # Null =>
                           created[k] <= MaxUses[k] + (Cardinality(Handlers) - 1) + uncounted[k]
                      /\ late[k] <= Cardinality(Handlers)
    BY DEF UsesBound
  <2>1. Counting(k) \in SUBSET Active(k) /\ Active(k) \in SUBSET Handlers /\ Pending(k) \in SUBSET Handlers
    BY DEF Counting, Active, Pending
  <2>2. Cardinality(Counting(k)) <= Cardinality(Active(k))
    <3>1. IsFiniteSet(Active(k))
      BY <2>1, RegistryAssumption, FS_Subset
    <3> QED BY <2>1, <3>1, FS_Subset
  <2>3. /\ Cardinality(Counting(k)) \in Nat /\ Cardinality(Active(k)) \in Nat
        /\ Cardinality(Pending(k)) \in Nat /\ Cardinality(Handlers) \in Nat
    BY <2>1, HandlerSets
  <2>4. used[k] \in Nat /\ uncounted[k] \in Nat /\ late[k] \in Nat
    BY DEF UsesInv, UsesTypeOK
  <2>5. created[k] = used[k] + uncounted[k] + Cardinality(Counting(k))
    BY DEF UsesInv, AllCounted
  <2>6. ASSUME MaxUses[k] # Null
        PROVE  created[k] <= MaxUses[k] + (Cardinality(Handlers) - 1) + uncounted[k]
    <3>1. MaxUses[k] \in Nat
      BY <2>6, RegistryAssumption
    <3>2. used[k] + Cardinality(Active(k)) <= MaxUses[k] + Cardinality(Handlers) - 1
      BY <2>6 DEF UsesInv, LimitHeld
    <3> QED BY <2>2, <2>3, <2>4, <2>5, <3>1, <3>2
  <2>7. late[k] <= Cardinality(Handlers)
    BY <2>3, <2>4 DEF UsesInv, LateFew
  <2> QED BY <2>5, <2>6, <2>7
<1> QED BY <1>1, <1>2, <1>3, PTL DEF Spec

(* A request in progress knows the device it registers, as the rows do.    *)
DevicesTyped ==
  /\ devices \subseteq [key : PublicKeys, net : Networks]
  /\ \A h \in Handlers : request[h].at # "free" =>
       request[h].key \in PublicKeys /\ request[h].net \in Networks

LEMMA DevicesTypedStep == ASSUME UsesTypeOK, DevicesTyped, [Next]_regVars PROVE DevicesTyped'
<1>1. ASSUME NEW h \in Handlers, NEW k \in Psks, NEW key \in PublicKeys, NEW n \in Networks,
             RegisterDevice(h, k, key, n)
      PROVE  DevicesTyped'
  BY <1>1 DEF RegisterDevice, poolVars, DevicesTyped, UsesTypeOK
<1>2. ASSUME NEW h \in Handlers, Answer(h), UNCHANGED devices
      PROVE  DevicesTyped'
  BY <1>2 DEF Answer, Waiting, DevicesTyped, UsesTypeOK
<1>3. ASSUME NEW h \in Handlers, NEW at \in {"create", "count"}, Proceed(h, at),
             request[h].at # "free", devices' \subseteq [key : PublicKeys, net : Networks]
      PROVE  DevicesTyped'
  <2> DEFINE q == [at |-> at, psk |-> request[h].psk, key |-> request[h].key, net |-> request[h].net]
  <2>1. request' = [request EXCEPT ![h] = q]
    BY <1>3, ProceedMoves
  <2>2. ASSUME NEW g \in Handlers, request'[g].at # "free"
        PROVE  request'[g].key \in PublicKeys /\ request'[g].net \in Networks
    BY <1>3, <2>1, <2>2 DEF DevicesTyped, UsesTypeOK
  <2> QED BY <1>3, <2>2 DEF DevicesTyped
<1>4. ASSUME NEW h \in Handlers, RegisterStep(h) PROVE DevicesTyped'
  <2>1. CASE FindByPublicKey(h)
    BY <1>2, <1>3, <2>1 DEF FindByPublicKey, poolVars, DevicesTyped
  <2>2. CASE Create(h)
    <3>1. request[h].key \in PublicKeys /\ request[h].net \in Networks
      BY <2>2 DEF Create, DevicesTyped
    <3> QED BY <1>3, <2>2, <3>1 DEF Create, DevicesTyped
  <2>3. CASE CreateFails(h) \/ IncrementUsedCount(h) \/ IncrementFails(h)
    BY <1>2, <2>3 DEF CreateFails, IncrementUsedCount, IncrementFails, poolVars
  <2> QED BY <1>4, <2>1, <2>2, <2>3 DEF RegisterStep
<1>5. ASSUME NEW r \in devices, RevokeDevice(r) PROVE DevicesTyped'
  BY <1>5 DEF RevokeDevice, DevicesTyped
<1>6. ASSUME UNCHANGED <<request, devices>> PROVE DevicesTyped'
  BY <1>6 DEF DevicesTyped
<1>7. ASSUME NEW k \in Psks, Expire(k) PROVE DevicesTyped'
  BY <1>6, <1>7 DEF Expire, poolVars
<1>8. CASE PoolStep /\ UNCHANGED <<used, expired, request, history>>
  BY <1>6, <1>8 DEF PoolStep, AllocateStep, Lookup, DoubleCheck, FindByVirtualNetwork, LoadFails,
       Publish, Allocate, ReleaseVirtualIP, AllocateVirtualIP, GivesUp
<1>9. CASE Restart
  BY <1>9 DEF Restart, PoolRestart, Waiting, DevicesTyped
<1>10. CASE UNCHANGED regVars
  BY <1>6, <1>10 DEF regVars, poolVars
<1> QED BY <1>1, <1>4, <1>5, <1>7, <1>8, <1>9, <1>10 DEF Next

(* Every variable of registration and pools keeps its type; among them,    *)
(* the lock has an owner exactly while a thread loads a pool.              *)
THEOREM TypesKept == Spec => []TypeOK
<1>1. Init => UsesInv /\ DevicesTyped
  BY UsesInvInit DEF Init, PoolInit, Waiting, DevicesTyped
<1>2. UsesInv /\ DevicesTyped /\ [Next]_regVars => UsesInv' /\ DevicesTyped'
  BY UsesInvStep, DevicesTypedStep DEF UsesInv
<1>3. PoolInv /\ UsesInv /\ DevicesTyped => TypeOK
  BY DEF PoolInv, UsesInv, UsesTypeOK, DevicesTyped, Requests, TypeOK
<1>4. Spec => []PoolInv
  BY PoolsAgree
<1> QED BY <1>1, <1>2, <1>3, <1>4, PTL DEF Spec
=============================================================================
