---------------------------- MODULE AddressPool ----------------------------
(***************************************************************************)
(* The address pools of TopologyService.  A pool is made at the first      *)
(* request for its network, from the addresses of the device rows, and     *)
(* lives in memory.  The map of pools is guarded by a readers-writer lock  *)
(* that the maker of a pool holds across its database read; each pool has  *)
(* a mutex of its own.                                                     *)
(*                                                                         *)
(* No code of the repository asks a pool for an address or gives one back: *)
(* RegisterDevice takes a constant, RevokeDevice only deletes the row, and *)
(* topology.proto, which names both operations, has no server.  Their      *)
(* users, who live in the process and release only what they hold, are     *)
(* external; no row ever has an address because of them.                   *)
(***************************************************************************)
EXTENDS Integers, FiniteSets

CONSTANTS
  Threads,    \* goroutines that call the service
  Networks,
  Asked,      \* those whose pool is asked for addresses
  Low, High,  \* network and broadcast address of each network
  Constant,   \* the address that RegisterDevice gives to every device
  Null

ASSUME PoolAssumption ==
  /\ Low \in [Networks -> Nat] /\ High \in [Networks -> Nat]
  /\ \A n \in Networks : Low[n] <= High[n]
  /\ Constant \in Nat /\ Null \notin Threads /\ Null \notin Networks
  /\ Asked \subseteq Networks

VARIABLES
  made,       \* the networks that have a pool
  ipPools,    \* the allocated addresses of each pool
  ipPoolMu,   \* the thread that holds the write lock, or Null
  held,       \* external: the addresses users have from each pool, with the user
  devices,    \* device rows, all with the constant address, each of a network
  call        \* what each thread does: its place, network, address, rows read

poolVars == <<made, ipPools, ipPoolMu, held, devices, call>>
memory   == <<made, ipPools, ipPoolMu, held, call>>

At(place, n, a, rows) == [at |-> place, net |-> n, addr |-> a, rows |-> rows]
Idle   == At("idle", Null, 0, {})
Places == {"idle", "lookup", "lock", "load", "publish", "take", "release"}

PoolInit ==
  /\ made = {} /\ ipPools = [n \in Networks |-> {}] /\ ipPoolMu = Null
  /\ held = [n \in Networks |-> {}] /\ devices = {}
  /\ call = [t \in Threads |-> Idle]

(* The addresses in the rows of a network.                                 *)
InRows(n) == {Constant : r \in {x \in devices : x.net = n}}

Become(t, c) == call' = [call EXCEPT ![t] = c]
Go(t, place) == Become(t, At(place, call[t].net, call[t].addr, {}))
Done(t)      == Become(t, Idle)

-----------------------------------------------------------------------------
(* AllocateVirtualIP: the row of the network is read ...                   *)
AllocateVirtualIP(t, n) ==
  /\ call[t].at = "idle"
  /\ Become(t, At("lookup", n, 0, {}))
  /\ UNCHANGED <<made, ipPools, ipPoolMu, held, devices>>

(* ... getOrInitIPPool looks the pool up under the read lock ...           *)
Lookup(t) ==
  /\ call[t].at = "lookup" /\ ipPoolMu = Null
  /\ Go(t, IF call[t].net \in made THEN "take" ELSE "lock")
  /\ UNCHANGED <<made, ipPools, ipPoolMu, held, devices>>

NeverChecksAgain(t) ==
  /\ call[t].at = "lock" /\ ipPoolMu = Null
  /\ ipPoolMu' = t /\ Go(t, "load")
  /\ UNCHANGED <<made, ipPools, held, devices>>

(* ... once more under the write lock ...                                  *)
DoubleCheck(t) ==
  /\ call[t].at = "lock" /\ ipPoolMu = Null
  /\ IF call[t].net \in made
     THEN Go(t, "take") /\ UNCHANGED ipPoolMu
     ELSE Go(t, "load") /\ ipPoolMu' = t
  /\ UNCHANGED <<made, ipPools, held, devices>>

(* ... reads the rows of the network ...                                   *)
FindByVirtualNetwork(t) ==
  /\ call[t].at = "load"
  /\ Become(t, At("publish", call[t].net, 0, InRows(call[t].net)))
  /\ UNCHANGED <<made, ipPools, ipPoolMu, held, devices>>

KeepsLock(t) ==
  /\ call[t].at = "load"
  /\ Done(t)
  /\ UNCHANGED <<made, ipPools, ipPoolMu, held, devices>>

(* ... which may fail ...                                                  *)
LoadFails(t) ==
  /\ call[t].at = "load"
  /\ ipPoolMu' = Null /\ Done(t)
  /\ UNCHANGED <<made, ipPools, held, devices>>

(* ... and publishes the pool.                                             *)
Publish(t) ==
  /\ call[t].at = "publish"
  /\ made' = made \cup {call[t].net}
  /\ ipPools' = [ipPools EXCEPT ![call[t].net] = call[t].rows]
  /\ ipPoolMu' = Null /\ Go(t, "take")
  /\ UNCHANGED <<held, devices>>

(* Allocate: the first address after the network address that is neither   *)
(* the broadcast address nor taken.                                        *)
Hosts(n) == (Low[n] + 1) .. (High[n] - 1)

Allocate(t) ==
  LET n    == call[t].net
      free == Hosts(n) \ ipPools[n]
  IN
  /\ call[t].at = "take"
  /\ \/ free = {} /\ UNCHANGED <<ipPools, held>>
     \/ \E a \in free :
          /\ \A b \in free : a <= b
          /\ ipPools' = [ipPools EXCEPT ![n] = @ \cup {a}]
          /\ held' = [held EXCEPT ![n] = @ \cup {<<a, t>>}]
  /\ Done(t)
  /\ UNCHANGED <<made, ipPoolMu, devices>>

-----------------------------------------------------------------------------
(* A user has done with an address and calls for its release.              *)
GivesUp(t, n) ==
  /\ call[t].at = "idle"
  /\ \E x \in held[n] :
       /\ x[2] = t /\ held' = [held EXCEPT ![n] = @ \ {x}]
       /\ Become(t, At("release", n, x[1], {}))
  /\ UNCHANGED <<made, ipPools, ipPoolMu, devices>>

WithoutPool(t) ==
  LET n == call[t].net IN
  IF n \in made THEN [ipPools EXCEPT ![n] = @ \ {call[t].addr}] ELSE ipPools

ReleasesNothing(t) ==
  /\ call[t].at = "release" /\ ipPoolMu = Null
  /\ Done(t)
  /\ UNCHANGED <<made, ipPools, ipPoolMu, held, devices>>

(* ReleaseVirtualIP: nothing to do while there is no pool.                 *)
ReleaseVirtualIP(t) ==
  /\ call[t].at = "release" /\ ipPoolMu = Null
  /\ ipPools' = WithoutPool(t)
  /\ Done(t)
  /\ UNCHANGED <<made, ipPoolMu, held, devices>>

-----------------------------------------------------------------------------
(* The process ends and is started again, without pools and users.         *)
PoolRestart ==
  /\ made' = {} /\ ipPools' = [n \in Networks |-> {}] /\ ipPoolMu' = Null
  /\ held' = [n \in Networks |-> {}] /\ call' = [t \in Threads |-> Idle]
  /\ UNCHANGED devices

AllocateStep(t) == Lookup(t) \/ DoubleCheck(t) \/ FindByVirtualNetwork(t) \/ LoadFails(t)
                     \/ Publish(t) \/ Allocate(t)

PoolStep ==
  \/ \E t \in Threads : AllocateStep(t) \/ ReleaseVirtualIP(t)
  \/ \E t \in Threads, n \in Asked : AllocateVirtualIP(t, n) \/ GivesUp(t, n)

-----------------------------------------------------------------------------
PoolTypeOK ==
  /\ made \subseteq Networks /\ ipPools \in [Networks -> SUBSET Nat]
  /\ ipPoolMu \in Threads \cup {Null}
  /\ \A t \in Threads : call[t].at \in {"load", "publish"} <=> ipPoolMu = t
  /\ held \in [Networks -> SUBSET (Nat \X Threads)]
  /\ call \in [Threads -> [at : Places, net : Networks \cup {Null},
                           addr : Nat, rows : SUBSET Nat]]

(* The pool keeps its promise to its users, at every interleaving of first *)
(* requests, releases, failed loads and restarts: what one of them has is  *)
(* not handed out again.  Device rows are no users of it: an address that  *)
(* a row gets after the pool was made may be one that the pool hands out.  *)
Promise == INSTANCE AddressAllocator WITH given <- held, Users <- Threads
NeverGivenTwice == Promise!ASpec

HeldIn(n)    == {x[1] : x \in held[n]}
Releasing(n) == {call[t].addr : t \in {u \in Threads : call[u].at = "release" /\ call[u].net = n}}

(* What the pool has marked is what is in use, through the race for the    *)
(* making of a pool, calls in flight and restarts: whatever a user has is  *)
(* marked, and a mark is the constant address that rows had when the pool  *)
(* was made, an address of a user, or one that is being released.  So no   *)
(* release loses an address, and no pool is made over one in use.          *)
MarksMatch ==
  \A n \in Networks :
    /\ HeldIn(n) \subseteq ipPools[n]
    /\ ipPools[n] \subseteq HeldIn(n) \cup {Constant} \cup Releasing(n)

(* What the code does not keep.  "Release the address (called when a       *)
(* device is revoked)", says the comment of ReleaseVirtualIP: what is      *)
(* marked has a row, a user, or one who is releasing it.                   *)
RevokedFreed == \A n \in made : ipPools[n] \subseteq InRows(n) \cup HeldIn(n) \cup Releasing(n)

(* The address of a device row is no other user's.                         *)
RowsKeepTheirs == \A n \in Networks : InRows(n) \cap HeldIn(n) = {}
=============================================================================
