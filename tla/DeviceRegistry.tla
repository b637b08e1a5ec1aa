--------------------------- MODULE DeviceRegistry ---------------------------
(***************************************************************************)
(* Device registration of api-gateway beside the address pools of the same *)
(* process.  RegisterDevice tests a pre-shared key, creates a device row   *)
(* and counts the use of the key, in three database calls; it takes the    *)
(* address of every device from a constant and not from the pool.          *)
(***************************************************************************)
EXTENDS AddressPool

CONSTANTS
  Handlers,      \* requests served at a time
  Psks, MaxUses, \* pre-shared keys; Null when the uses are not limited
  PublicKeys,    \* keys of devices
  MaxCreated     \* bound: devices created with a key

ASSUME RegistryAssumption ==
  /\ IsFiniteSet(Handlers) /\ Handlers # {}
  /\ MaxUses \in [Psks -> Nat \cup {Null}] /\ Null \notin Nat /\ MaxCreated \in Nat

VARIABLES
  used,     \* used_count of each key
  expired,  \* keys after their expires_at
  request,  \* what each handler does
  created, uncounted, late \* history: devices created with each key, uses never
            \* counted, devices created after the key had expired

history  == <<created, uncounted, late>>
regVars  == <<poolVars, used, expired, request, history>>

Waiting == [at |-> "free", psk |-> Null, key |-> Null, net |-> Null]

Init ==
  /\ PoolInit /\ expired = {}
  /\ used = [k \in Psks |-> 0] /\ request = [h \in Handlers |-> Waiting]
  /\ created = [k \in Psks |-> 0] /\ uncounted = [k \in Psks |-> 0] /\ late = [k \in Psks |-> 0]

Answer(h)   == request' = [request EXCEPT ![h] = Waiting]
Proceed(h, at) == request' = [request EXCEPT ![h].at = at]

-----------------------------------------------------------------------------
AllowsOneMore(k) == k \notin expired /\ (MaxUses[k] = Null \/ used[k] <= MaxUses[k])

(* IsValid, on the row that FindByKeyHash has read.                        *)
IsValid(k) == k \notin expired /\ (MaxUses[k] = Null \/ used[k] < MaxUses[k])

RegisterDevice(h, k, key, n) ==
  /\ request[h] = Waiting /\ IsValid(k)
  /\ request' = [request EXCEPT ![h] = [at |-> "find", psk |-> k, key |-> key, net |-> n]]
  /\ UNCHANGED <<poolVars, used, expired, history>>

(* FindByPublicKey: a key that has a device is refused.                    *)
FindByPublicKey(h) ==
  /\ request[h].at = "find"
  /\ IF \E r \in devices : r.key = request[h].key THEN Answer(h) ELSE Proceed(h, "create")
  /\ UNCHANGED <<poolVars, used, expired, history>>

(* Create: public_key and (virtual_network_id, virtual_ip) are unique ...  *)
Create(h) ==
  LET q == request[h] IN
  /\ q.at = "create" /\ created[q.psk] < MaxCreated
  /\ \A r \in devices : r.key # q.key
  /\ Constant \notin InRows(q.net)
  /\ devices' = devices \cup {[key |-> q.key, net |-> q.net]}
  /\ created' = [created EXCEPT ![q.psk] = @ + 1]
  /\ late' = IF q.psk \in expired THEN [late EXCEPT ![q.psk] = @ + 1] ELSE late
  /\ Proceed(h, "count")
  /\ UNCHANGED <<memory, used, expired, uncounted>>

(* ... and platform is an enumeration, which has no "linux" of runtime.GOOS. *)
CreateFails(h) ==
  /\ request[h].at = "create"
  /\ Answer(h)
  /\ UNCHANGED <<poolVars, used, expired, history>>

(* IncrementUsedCount: used_count + 1 in one UPDATE ...                    *)
IncrementUsedCount(h) ==
  /\ request[h].at = "count"
  /\ used' = [used EXCEPT ![request[h].psk] = @ + 1]
  /\ Answer(h)
  /\ UNCHANGED <<poolVars, expired, history>>

(* ... whose error is only printed.                                        *)
IncrementFails(h) ==
  /\ request[h].at = "count"
  /\ uncounted' = [uncounted EXCEPT ![request[h].psk] = @ + 1]
  /\ Answer(h)
  /\ UNCHANGED <<poolVars, used, expired, created, late>>

(* RevokeDevice and AdminHandler.DeleteDevice delete the row; they neither *)
(* take the use of the key back nor call ReleaseVirtualIP.                 *)
RevokeDevice(r) ==
  /\ devices' = devices \ {r}
  /\ UNCHANGED <<memory, used, expired, request, history>>

Expire(k) ==
  /\ k \notin expired
  /\ expired' = expired \cup {k}
  /\ UNCHANGED <<poolVars, used, request, history>>

-----------------------------------------------------------------------------
Counting(k) == {h \in Handlers : request[h].at = "count" /\ request[h].psk = k}

(* The process ends and is started again: pools and requests are lost.     *)
Restart ==
  /\ request' = [h \in Handlers |-> Waiting]
  /\ uncounted' = [k \in Psks |-> uncounted[k] +
       Cardinality(Counting(k))]
  /\ PoolRestart
  /\ UNCHANGED <<used, expired, created, late>>

RegisterStep(h) == FindByPublicKey(h) \/ Create(h) \/ CreateFails(h) \/ IncrementUsedCount(h)
                     \/ IncrementFails(h)

Next ==
  \/ \E h \in Handlers : RegisterStep(h)
  \/ \E h \in Handlers, k \in Psks, key \in PublicKeys, n \in Networks :
       RegisterDevice(h, k, key, n)
  \/ \E r \in devices : RevokeDevice(r)
  \/ \E k \in Psks : Expire(k)
  \/ PoolStep /\ UNCHANGED <<used, expired, request, history>>
  \/ Restart

Spec == Init /\ [][Next]_regVars

-----------------------------------------------------------------------------
TypeOK ==
  /\ PoolTypeOK
  /\ devices \subseteq [key : PublicKeys, net : Networks]
  /\ used \in [Psks -> Nat] /\ expired \subseteq Psks
  /\ \A h \in Handlers : request[h].at \in {"free", "find", "create", "count"}

(* A key of limited uses admits as many devices as it has uses, one more   *)
(* for every other request served at the same time, and one more for every *)
(* use that was never counted; an expired key admits only those that had   *)
(* been tested before, so never more than there are handlers.              *)
UsesBound ==
  \A k \in Psks :
    /\ created[k] = used[k] + uncounted[k] + Cardinality(Counting(k))
    /\ MaxUses[k] # Null =>
         created[k] <= MaxUses[k] + (Cardinality(Handlers) - 1) + uncounted[k]
    /\ late[k] <= Cardinality(Handlers)
=============================================================================
