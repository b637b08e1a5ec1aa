-------------------------- MODULE WebSocket_proofs --------------------------
(***************************************************************************)
(* Proofs about both ends of the WebSocket.  The hub, for any number of    *)
(* connections and events and any capacities: no send on a closed channel  *)
(* and no second close of one.  The browser, for any number of pages and   *)
(* sockets: reconnecting does not multiply, and a client that was told to  *)
(* disconnect stays disconnected.                                          *)
(***************************************************************************)
EXTENDS WebSocketHub, WebSocketClient, FiniteSetTheorems, SequenceTheorems, TLAPS

Readers   == {"none", "read", "reply", "leaving", "closing", "done"}
Writers   == {"none", "select", "write", "done"}
Messages  == Events \cup {Reply}
Pending(q, c) == \E k \in 1..Len(q) : q[k] = c
NoneTwice(q)  == \A j, k \in 1..Len(q) : q[j] = q[k] => j = k

(* The channels of the hub and of the connections.                         *)
HubTypes ==
  /\ clients \subseteq Clients /\ open \subseteq Clients /\ cancelled \subseteq Clients
  /\ closed \subseteq Clients /\ gone \subseteq Clients /\ published \subseteq Events
  /\ register \in Seq(Clients) /\ unregister \in Seq(Clients)
  /\ broadcast \in Seq(Events) /\ Len(broadcast) <= BroadcastCap
  /\ send \in [Clients -> Seq(Messages)] /\ \A c \in Clients : Len(send[c]) <= SendCap
  /\ subs \in [Clients -> SUBSET Filters] /\ replies \in [Clients -> Nat]
  /\ reader \in [Clients -> Readers] /\ writer \in [Clients -> Writers]
  /\ writing \in [Clients -> Messages \cup {Null}]
  /\ \A c \in Clients : writing[c] # Null <=> writer[c] = "write"

(* A registration is made once: the client it announces is not in the map  *)
(* yet, and its Send is not closed.                                        *)
RegisteredOnce ==
  /\ NoneTwice(register)
  /\ \A c \in Clients : Pending(register, c) => c \notin clients \cup closed

(* Whoever was announced, or is in the map, or was in it, has its reader,  *)
(* which starts with the writer; and the reader is past its loop, so never *)
(* again at a send, before the client is unregistered and its Send closed. *)
ReaderStarted ==
  \A c \in Clients : Pending(register, c) \/ c \in clients \cup closed => reader[c] # "none"

PumpsTogether == \A c \in Clients : reader[c] = "none" => writer[c] = "none"

ReaderPast ==
  \A c \in Clients : Pending(unregister, c) \/ c \in closed => reader[c] \in {"closing", "done"}

(* The hub sends to the clients of its map only, and none of them is       *)
(* closed.                                                                 *)
HubInv ==
  /\ HubTypes /\ RegisteredOnce /\ ReaderStarted /\ PumpsTogether /\ ReaderPast
  /\ clients \cap closed = {} /\ ~panicked

-----------------------------------------------------------------------------
(* A channel when a client enters it and when its first one leaves.        *)
LEMMA Entered ==
  ASSUME NEW S, NEW q \in Seq(S), NEW e \in S
  PROVE  /\ Append(q, e) \in Seq(S) /\ Len(Append(q, e)) = Len(q) + 1
         /\ \A d : Pending(Append(q, e), d) <=> Pending(q, d) \/ d = e
         /\ NoneTwice(q) /\ ~Pending(q, e) => NoneTwice(Append(q, e))
<1> DEFINE r == Append(q, e)
<1>1. Len(q) \in Nat
  BY LenProperties
<1>2. /\ r \in Seq(S) /\ Len(r) = Len(q) + 1
      /\ \A k \in 1..Len(q) : r[k] = q[k]
      /\ r[Len(q) + 1] = e
  BY <1>1, AppendProperties
<1> HIDE DEF r
<1>3. /\ \A k \in 1..Len(r) : k \in 1..Len(q) \/ k = Len(q) + 1
      /\ 1..Len(q) \subseteq 1..Len(r) /\ Len(q) + 1 \in 1..Len(r)
  BY <1>1, <1>2
<1>4. ASSUME NoneTwice(q), ~Pending(q, e) PROVE NoneTwice(r)
  <2>1. \A k \in 1..Len(q) : q[k] # e
    BY <1>4 DEF Pending
  <2> QED BY <1>2, <1>3, <1>4, <2>1 DEF NoneTwice
<1>5. \A d : Pending(r, d) <=> Pending(q, d) \/ d = e
  BY <1>2, <1>3 DEF Pending
<1> QED BY <1>2, <1>4, <1>5 DEF r

LEMMA Served ==
  ASSUME NEW S, NEW q \in Seq(S), q # << >>
  PROVE  /\ Tail(q) \in Seq(S) /\ Len(Tail(q)) <= Len(q)
         /\ Head(q) \in S /\ Pending(q, Head(q))
         /\ \A d : Pending(Tail(q), d) => Pending(q, d)
         /\ NoneTwice(q) => NoneTwice(Tail(q)) /\ ~Pending(Tail(q), Head(q))
<1> DEFINE r == Tail(q)
<1>1. Len(q) \in Nat \ {0}
  BY EmptySeq
<1>2. /\ Head(q) \in S /\ Head(q) = q[1]
      /\ r \in Seq(S) /\ Len(r) = Len(q) - 1
      /\ \A k \in 1..Len(r) : r[k] = q[k + 1]
  BY <1>1, HeadTailProperties
<1> HIDE DEF r
<1>3. /\ \A k \in 1..Len(r) : k + 1 \in 1..Len(q) /\ k + 1 # 1
      /\ 1 \in 1..Len(q)
  BY <1>1, <1>2
<1>4. \A d : Pending(r, d) => Pending(q, d)
  BY <1>2, <1>3 DEF Pending
<1>5. ASSUME NoneTwice(q) PROVE NoneTwice(r) /\ ~Pending(r, Head(q))
  <2>1. NoneTwice(r)
    BY <1>2, <1>3, <1>5 DEF NoneTwice
  <2>2. ASSUME NEW k \in 1..Len(r) PROVE r[k] # Head(q)
    BY <1>2, <1>3, <1>5 DEF NoneTwice
  <2> QED BY <2>1, <2>2 DEF Pending
<1>6. Pending(q, Head(q))
  BY <1>2, <1>3 DEF Pending
<1> QED BY <1>1, <1>2, <1>4, <1>5, <1>6 DEF r

(* What a reader does leaves the others alone; so does a writer.           *)
LEMMA ReadsEffect ==
  ASSUME HubTypes, NEW c \in Clients, NEW l \in Readers, Reads(c, l)
  PROVE  /\ reader' \in [Clients -> Readers] /\ reader'[c] = l
         /\ \A d \in Clients \ {c} : reader'[d] = reader[d]
         /\ UNCHANGED <<writer, writing>>
  BY DEF Reads, HubTypes

LEMMA WritesEffect ==
  ASSUME HubTypes, NEW c \in Clients, NEW l \in Writers, NEW m \in Messages \cup {Null},
         m # Null <=> l = "write", Writes(c, l, m)
  PROVE  /\ writer' \in [Clients -> Writers] /\ writing' \in [Clients -> Messages \cup {Null}]
         /\ \A d \in Clients : writing'[d] # Null <=> writer'[d] = "write"
         /\ UNCHANGED reader
  BY DEF Writes, HubTypes

-----------------------------------------------------------------------------
(* Every action of the hub, of a reader, of a writer and of the monitor    *)
(* keeps the invariant.                                                    *)
LEMMA HubInvInit == ASSUME Init PROVE HubInv
<1>1. /\ \A S : << >> \in Seq(S)
      /\ Len(<< >>) = 0 /\ SendCap \in Nat /\ BroadcastCap \in Nat
  BY EmptySeq, HubAssumption
<1>2. HubTypes
  BY <1>1 DEF Init, HubTypes, Readers, Writers, Messages
<1>3. \A c : ~Pending(register, c) /\ ~Pending(unregister, c)
  BY <1>1 DEF Init, Pending
<1>4. NoneTwice(register)
  BY <1>1 DEF Init, NoneTwice
<1> QED BY <1>2, <1>3, <1>4 DEF Init, HubInv, RegisteredOnce, ReaderStarted, PumpsTogether, ReaderPast

LEMMA HandleWebSocketInv ==
  ASSUME HubInv, NEW c \in Clients, HandleWebSocket(c)
  PROVE  HubInv'
<1>1. /\ reader[c] = "none" /\ register' = Append(register, c) /\ open' = open \cup {c}
      /\ reader' = [reader EXCEPT ![c] = "read"] /\ writer' = [writer EXCEPT ![c] = "select"]
      /\ UNCHANGED <<clients, unregister, broadcast, cancelled, send, closed, subs, writing,
                     gone, replies, published, panicked>>
  BY DEF HandleWebSocket, bound
<1>2. ~Pending(register, c) /\ ~Pending(unregister, c) /\ c \notin clients \cup closed
  BY <1>1 DEF HubInv, ReaderStarted, ReaderPast
<1>3. /\ register' \in Seq(Clients) /\ NoneTwice(register')
      /\ \A d : Pending(register', d) <=> Pending(register, d) \/ d = c
  BY <1>1, <1>2, Entered DEF HubInv, HubTypes, RegisteredOnce
<1>4. /\ reader' \in [Clients -> Readers] /\ reader'[c] = "read"
      /\ \A d \in Clients \ {c} : reader'[d] = reader[d]
  BY <1>1 DEF HubInv, HubTypes, Readers
<1>5. HubTypes'
  <2>1. /\ writer' \in [Clients -> Writers] /\ writer'[c] = "select"
        /\ \A d \in Clients \ {c} : writer'[d] = writer[d]
    BY <1>1 DEF HubInv, HubTypes, Writers
  <2>2. writing[c] = Null
    BY <1>1 DEF HubInv, HubTypes, PumpsTogether
  <2>3. \A d \in Clients : writing'[d] # Null <=> writer'[d] = "write"
    BY <1>1, <2>1, <2>2 DEF HubInv, HubTypes
  <2> QED BY <1>1, <1>3, <1>4, <2>1, <2>3 DEF HubInv, HubTypes
<1>6. RegisteredOnce'
  BY <1>1, <1>2, <1>3 DEF HubInv, RegisteredOnce
<1>7. ReaderStarted' /\ ReaderPast'
  BY <1>1, <1>2, <1>3, <1>4 DEF HubInv, ReaderStarted, ReaderPast
<1>8. PumpsTogether'
  BY <1>1, <1>4 DEF HubInv, HubTypes, PumpsTogether
<1> QED BY <1>1, <1>5, <1>6, <1>7, <1>8 DEF HubInv

LEMMA HubRegisterInv == ASSUME HubInv, HubRegister PROVE HubInv'
<1>1. PICK c : c = Head(register)
  OBVIOUS
<1>2. /\ register # << >> /\ clients' = clients \cup {c} /\ register' = Tail(register)
      /\ UNCHANGED <<unregister, broadcast, open, cancelled, send, closed, subs, reader, writer,
                     writing, gone, replies, published, panicked>>
  BY <1>1 DEF HubRegister, pumps, bound
<1>3. /\ register' \in Seq(Clients) /\ c \in Clients /\ Pending(register, c)
      /\ \A d : Pending(register', d) => Pending(register, d)
      /\ NoneTwice(register') /\ ~Pending(register', c)
  BY <1>1, <1>2, Served DEF HubInv, HubTypes, RegisteredOnce
<1>4. HubTypes'
  BY <1>2, <1>3 DEF HubInv, HubTypes
<1>5. RegisteredOnce'
  BY <1>2, <1>3 DEF HubInv, RegisteredOnce
<1>6. ReaderStarted' /\ ReaderPast'
  BY <1>2, <1>3 DEF HubInv, ReaderStarted, ReaderPast
<1>7. clients' \cap closed' = {}
  BY <1>2, <1>3 DEF HubInv, RegisteredOnce
<1> QED BY <1>2, <1>4, <1>5, <1>6, <1>7 DEF HubInv, PumpsTogether

LEMMA HubUnregisterInv == ASSUME HubInv, HubUnregister PROVE HubInv'
<1>1. PICK c : c = Head(unregister)
  OBVIOUS
<1>2. /\ unregister # << >> /\ unregister' = Tail(unregister) /\ clients' = clients \ {c}
      /\ closed' = IF c \in clients THEN closed \cup {c} ELSE closed
      /\ panicked' = (panicked \/ (c \in clients /\ c \in closed))
      /\ UNCHANGED <<register, broadcast, open, cancelled, send, subs, reader, writer, writing,
                     gone, replies, published>>
  BY <1>1 DEF HubUnregister, pumps, bound
<1>3. /\ unregister' \in Seq(Clients) /\ c \in Clients /\ Pending(unregister, c)
      /\ \A d : Pending(unregister', d) => Pending(unregister, d)
  BY <1>1, <1>2, Served DEF HubInv, HubTypes
<1>4. HubTypes'
  BY <1>2, <1>3 DEF HubInv, HubTypes
<1>5. RegisteredOnce' /\ ReaderStarted'
  BY <1>2, <1>3 DEF HubInv, RegisteredOnce, ReaderStarted
<1>6. ReaderPast'
  BY <1>2, <1>3 DEF HubInv, ReaderPast
<1>7. clients' \cap closed' = {} /\ ~panicked'
  BY <1>2 DEF HubInv
<1> QED BY <1>2, <1>4, <1>5, <1>6, <1>7 DEF HubInv, PumpsTogether

LEMMA HubBroadcastInv == ASSUME HubInv, HubBroadcast PROVE HubInv'
<1>1. PICK e, to : e = Head(broadcast) /\ to = {c \in clients : Subscribed(c, e)}
  OBVIOUS
<1>2. /\ broadcast # << >> /\ broadcast' = Tail(broadcast)
      /\ send' = [c \in Clients |-> IF c \in to \ closed /\ Room(c)
                                    THEN Append(send[c], e) ELSE send[c]]
      /\ panicked' = (panicked \/ to \cap closed # {})
      /\ UNCHANGED <<clients, register, unregister, open, cancelled, closed, subs, reader, writer,
                     writing, gone, replies, published>>
  BY <1>1 DEF HubBroadcast, pumps, bound
<1>3. broadcast' \in Seq(Events) /\ Len(broadcast') <= Len(broadcast) /\ e \in Messages
  BY <1>1, <1>2, Served DEF HubInv, HubTypes, Messages
<1>4. ASSUME NEW c \in Clients
      PROVE  send'[c] \in Seq(Messages) /\ Len(send'[c]) <= SendCap
  <2>1. send[c] \in Seq(Messages) /\ Len(send[c]) <= SendCap /\ Len(send[c]) \in Nat /\ SendCap \in Nat
    BY HubAssumption, LenProperties DEF HubInv, HubTypes
  <2>2. Append(send[c], e) \in Seq(Messages) /\ Len(Append(send[c], e)) = Len(send[c]) + 1
    BY <1>3, <2>1, Entered
  <2>3. Room(c) => Len(send[c]) + 1 <= SendCap
    BY <2>1 DEF Room
  <2> QED BY <1>2, <2>1, <2>2, <2>3
<1>5. Len(broadcast') <= BroadcastCap
  BY <1>3, HubAssumption, LenProperties DEF HubInv, HubTypes
<1>6. HubTypes'
  <2>1. send' \in [Clients -> Seq(Messages)] /\ \A c \in Clients : Len(send'[c]) <= SendCap
    BY <1>2, <1>4
  <2> QED BY <1>2, <1>3, <1>5, <2>1 DEF HubInv, HubTypes
<1>7. ~panicked'
  BY <1>1, <1>2 DEF HubInv
<1> QED BY <1>2, <1>6, <1>7 DEF HubInv, RegisteredOnce, ReaderStarted, PumpsTogether, ReaderPast

LEMMA BroadcastInv == ASSUME HubInv, NEW e \in Events, Broadcast(e) PROVE HubInv'
<1>1. /\ published' = published \cup {e}
      /\ broadcast' = IF Len(broadcast) < BroadcastCap THEN Append(broadcast, e) ELSE broadcast
      /\ UNCHANGED <<clients, register, unregister, open, cancelled, send, closed, subs, reader,
                     writer, writing, gone, replies, panicked>>
  BY DEF Broadcast, pumps
<1>2. /\ broadcast \in Seq(Events) /\ Len(broadcast) \in Nat /\ Len(broadcast) <= BroadcastCap
      /\ BroadcastCap \in Nat
  BY HubAssumption, LenProperties DEF HubInv, HubTypes
<1>3. Append(broadcast, e) \in Seq(Events) /\ Len(Append(broadcast, e)) = Len(broadcast) + 1
  BY <1>2, Entered
<1>4. broadcast' \in Seq(Events) /\ Len(broadcast') <= BroadcastCap
  BY <1>1, <1>2, <1>3
<1>5. HubTypes'
  BY <1>1, <1>4 DEF HubInv, HubTypes
<1> QED BY <1>1, <1>5 DEF HubInv, RegisteredOnce, ReaderStarted, PumpsTogether, ReaderPast
(* The actions of the other goroutines leave the hub's map and its         *)
(* registrations alone, and move no reader back before its loop.           *)
LEMMA OthersInv ==
  ASSUME HubInv, HubTypes', UNCHANGED <<clients, register, closed>>, ~panicked',
         \A c \in Clients : reader'[c] = "none" => reader[c] = "none" /\ writer'[c] = "none",
         \A c \in Clients : reader[c] \in {"closing", "done"} => reader'[c] \in {"closing", "done"},
         \A c \in Clients : Pending(unregister', c) =>
            Pending(unregister, c) \/ reader'[c] \in {"closing", "done"}
  PROVE  HubInv'
<1>1. RegisteredOnce'
  BY DEF HubInv, RegisteredOnce
<1>2. ReaderStarted'
  BY DEF HubInv, ReaderStarted
<1>3. ReaderPast'
  BY DEF HubInv, ReaderPast
<1> QED BY <1>1, <1>2, <1>3 DEF HubInv, PumpsTogether

LEMMA ReaderInv ==
  ASSUME HubInv, NEW c \in Clients,
         HandleMessage(c) \/ SendReply(c) \/ ReadFails(c) \/ Leave(c) \/ CloseConn(c)
  PROVE  HubInv'
<1>1. PICK l \in Readers \ {"none"} :
        /\ Reads(c, l)
        /\ reader[c] \in {"closing", "done"} => l = "done"
        /\ unregister' = unregister \/ (unregister' = Append(unregister, c) /\ l = "closing")
  <2>1. HandleMessage(c) => Reads(c, "reply") /\ reader[c] = "read" /\ unregister' = unregister
    BY DEF HandleMessage, hub
  <2>2. SendReply(c) => Reads(c, "read") /\ reader[c] = "reply" /\ unregister' = unregister
    BY DEF SendReply, hub
  <2>3. ReadFails(c) => Reads(c, "leaving") /\ reader[c] = "read" /\ unregister' = unregister
    BY DEF ReadFails, hub
  <2>4. Leave(c) => Reads(c, "closing") /\ reader[c] = "leaving" /\ unregister' = Append(unregister, c)
    BY DEF Leave
  <2>5. CloseConn(c) => Reads(c, "done") /\ unregister' = unregister
    BY DEF CloseConn, hub
  <2> QED BY <2>1, <2>2, <2>3, <2>4, <2>5 DEF Readers
<1>2. /\ reader' \in [Clients -> Readers] /\ reader'[c] = l
      /\ \A d \in Clients \ {c} : reader'[d] = reader[d]
      /\ UNCHANGED <<writer, writing>>
  BY <1>1, ReadsEffect DEF HubInv
<1>3. /\ unregister' \in Seq(Clients)
      /\ \A d : Pending(unregister', d) => Pending(unregister, d) \/ (d = c /\ l = "closing")
  <2>1. unregister \in Seq(Clients)
    BY DEF HubInv, HubTypes
  <2>2. /\ Append(unregister, c) \in Seq(Clients)
        /\ \A d : Pending(Append(unregister, c), d) <=> Pending(unregister, d) \/ d = c
    BY <2>1, Entered
  <2>3. CASE unregister' = unregister
    BY <2>1, <2>3
  <2>4. CASE unregister' = Append(unregister, c) /\ l = "closing"
    BY <2>2, <2>4
  <2> QED BY <1>1, <2>3, <2>4
<1>4. /\ UNCHANGED <<clients, register, broadcast, closed, subs, gone, published>>
      /\ open' \subseteq Clients /\ cancelled' \subseteq Clients
      /\ replies' \in [Clients -> Nat]
  <2>1. replies \in [Clients -> Nat] /\ [replies EXCEPT ![c] = @ + 1] \in [Clients -> Nat]
    BY DEF HubInv, HubTypes
  <2>2. replies' \in {replies, [replies EXCEPT ![c] = @ + 1]}
    BY DEF HandleMessage, SendReply, ReadFails, Leave, CloseConn, bound
  <2>3. UNCHANGED <<clients, register, broadcast, closed, subs, gone, published>>
    BY DEF HandleMessage, SendReply, ReadFails, Leave, CloseConn, hub, bound
  <2>4. open' \subseteq open /\ cancelled' \subseteq cancelled \cup {c}
    BY DEF HandleMessage, SendReply, ReadFails, Leave, CloseConn
  <2>5. open' \subseteq Clients /\ cancelled' \subseteq Clients
    BY <2>4 DEF HubInv, HubTypes
  <2> QED BY <2>1, <2>2, <2>3, <2>5
<1>5. /\ ~panicked' /\ send' \in [Clients -> Seq(Messages)]
      /\ \A d \in Clients : Len(send'[d]) <= SendCap
  <2>1. CASE SendReply(c)
    <3>1. c \notin closed /\ send' = [send EXCEPT ![c] = Append(@, Reply)] /\ Room(c)
      BY <2>1 DEF SendReply, HubInv, ReaderPast
    <3>2. /\ send \in [Clients -> Seq(Messages)] /\ Len(send[c]) \in Nat /\ SendCap \in Nat
          /\ \A d \in Clients : Len(send[d]) <= SendCap
      BY HubAssumption, LenProperties DEF HubInv, HubTypes
    <3>3. Append(send[c], Reply) \in Seq(Messages) /\ Len(Append(send[c], Reply)) = Len(send[c]) + 1
      BY <3>2, Entered DEF Messages
    <3>4. Len(send[c]) + 1 <= SendCap
      BY <3>1, <3>2 DEF Room
    <3>5. /\ send' \in [Clients -> Seq(Messages)] /\ send'[c] = Append(send[c], Reply)
          /\ \A d \in Clients \ {c} : send'[d] = send[d]
      BY <3>1, <3>2, <3>3
    <3>6. ~panicked'
      BY <2>1, <3>1 DEF SendReply, HubInv
    <3> QED BY <3>2, <3>3, <3>4, <3>5, <3>6
  <2>2. CASE ~SendReply(c)
    <3>1. UNCHANGED <<send, panicked>>
      BY <2>2 DEF HandleMessage, ReadFails, Leave, CloseConn
    <3> QED BY <3>1 DEF HubInv, HubTypes
  <2> QED BY <2>1, <2>2
<1>6. HubTypes'
  BY <1>2, <1>3, <1>4, <1>5 DEF HubInv, HubTypes
<1>7. /\ \A d \in Clients : reader'[d] = "none" => reader[d] = "none" /\ writer'[d] = "none"
      /\ \A d \in Clients : reader[d] \in {"closing", "done"} => reader'[d] \in {"closing", "done"}
      /\ \A d \in Clients : Pending(unregister', d) =>
           Pending(unregister, d) \/ reader'[d] \in {"closing", "done"}
  BY <1>1, <1>2, <1>3 DEF HubInv, PumpsTogether
<1> QED BY <1>4, <1>5, <1>6, <1>7, OthersInv

LEMMA WriterInv ==
  ASSUME HubInv, NEW c \in Clients, WriterTakes(c) \/ WriteSucceeds(c) \/ WriterEnds(c)
  PROVE  HubInv'
<1>1. /\ UNCHANGED <<clients, register, unregister, broadcast, cancelled, closed, subs,
                     gone, replies, published, panicked>>
      /\ open' \subseteq Clients
  BY DEF WriterTakes, WriteSucceeds, WriterEnds, hub, bound, HubInv, HubTypes
<1>2. /\ send' \in [Clients -> Seq(Messages)] /\ \A d \in Clients : Len(send'[d]) <= SendCap
      /\ WriterTakes(c) => Head(send[c]) \in Messages
  <2>1. CASE WriterTakes(c)
    <3>1. send[c] # << >> /\ send' = [send EXCEPT ![c] = Tail(@)]
      BY <2>1 DEF WriterTakes
    <3>2. /\ send \in [Clients -> Seq(Messages)] /\ Len(send[c]) \in Nat /\ SendCap \in Nat
          /\ \A d \in Clients : Len(send[d]) <= SendCap
      BY HubAssumption, LenProperties DEF HubInv, HubTypes
    <3>3. /\ Tail(send[c]) \in Seq(Messages) /\ Len(Tail(send[c])) <= Len(send[c])
          /\ Head(send[c]) \in Messages
      BY <3>1, <3>2, Served
    <3>4. /\ send' \in [Clients -> Seq(Messages)] /\ send'[c] = Tail(send[c])
          /\ \A d \in Clients \ {c} : send'[d] = send[d]
      BY <3>1, <3>2, <3>3
    <3>5. Len(Tail(send[c])) <= SendCap
      BY <3>2, <3>3, LenProperties
    <3> QED BY <3>2, <3>3, <3>4, <3>5
  <2>2. CASE ~WriterTakes(c)
    <3>1. send' = send
      BY <2>2 DEF WriteSucceeds, WriterEnds
    <3> QED BY <2>2, <3>1 DEF HubInv, HubTypes
  <2> QED BY <2>1, <2>2
<1>3. /\ writer' \in [Clients -> Writers] /\ writing' \in [Clients -> Messages \cup {Null}]
      /\ \A d \in Clients : writing'[d] # Null <=> writer'[d] = "write"
      /\ UNCHANGED reader
  <2>1. CASE WriterTakes(c)
    <3>1. Writes(c, "write", Head(send[c])) /\ Head(send[c]) \in Messages
      BY <1>2, <2>1 DEF WriterTakes
    <3>2. Head(send[c]) # Null
      BY <3>1, HubAssumption DEF Messages
    <3> QED BY <3>1, <3>2, WritesEffect DEF HubInv, Writers
  <2>2. CASE WriteSucceeds(c)
    BY <2>2, WritesEffect DEF WriteSucceeds, HubInv, Writers
  <2>3. CASE WriterEnds(c)
    BY <2>3, WritesEffect DEF WriterEnds, HubInv, Writers
  <2> QED BY <2>1, <2>2, <2>3
<1>4. HubTypes'
  BY <1>1, <1>2, <1>3 DEF HubInv, HubTypes
<1>5. \A d \in Clients : reader'[d] = "none" => writer'[d] = "none"
  <2>1. reader[c] # "none"
    BY DEF WriterTakes, WriteSucceeds, WriterEnds, HubInv, PumpsTogether
  <2>2. \A d \in Clients \ {c} : writer'[d] = writer[d]
    BY DEF WriterTakes, WriteSucceeds, WriterEnds, Writes, HubInv, HubTypes
  <2> QED BY <1>3, <2>1, <2>2 DEF HubInv, PumpsTogether
<1> QED BY <1>1, <1>3, <1>4, <1>5, OthersInv DEF HubInv

LEMMA PeerInv ==
  ASSUME HubInv, NEW c \in Clients,
         \/ HandlerReturns(c) \/ PeerGone(c) \/ CheckClients(c)
         \/ \E f \in Filters : HandleSubscription(c, f)
         \/ UNCHANGED wvars
  PROVE  HubInv'
<1>1. /\ UNCHANGED <<clients, register, unregister, broadcast, closed, open, send, reader, writer,
                     writing, replies, published, panicked>>
      /\ cancelled' \subseteq Clients /\ gone' \subseteq Clients
  BY DEF HandlerReturns, PeerGone, CheckClients, HandleSubscription, wvars, hub, pumps, bound,
         HubInv, HubTypes
<1>2. subs' \in [Clients -> SUBSET Filters]
  <2>1. subs \in [Clients -> SUBSET Filters]
    BY DEF HubInv, HubTypes
  <2>2. ASSUME NEW f \in Filters, HandleSubscription(c, f) PROVE subs' \in [Clients -> SUBSET Filters]
    <3>1. PICK s \in {subs[c] \cup {f}, subs[c] \ {f}} : subs' = [subs EXCEPT ![c] = s]
      BY <2>2 DEF HandleSubscription
    <3>2. s \in SUBSET Filters
      BY <2>1
    <3> QED BY <2>1, <3>1, <3>2
  <2> QED BY <2>1, <2>2 DEF HandlerReturns, PeerGone, CheckClients, wvars
<1>3. HubTypes'
  BY <1>1, <1>2 DEF HubInv, HubTypes
<1> QED BY <1>1, <1>3, OthersInv DEF HubInv, PumpsTogether

(* Every step of the hub, the pumps, the monitor, the peers and of         *)
(* Broadcast keeps the invariant.                                          *)
THEOREM HubInvStep == ASSUME HubInv, [Next]_wvars PROVE HubInv'
<1>1. CASE Hub
  BY <1>1, HubRegisterInv, HubUnregisterInv, HubBroadcastInv DEF Hub
<1>2. ASSUME NEW c \in Clients, Peer(c) \/ HandlerReturns(c) \/ ReadFails(c) \/ Pump(c) \/ CheckClients(c)
      PROVE  HubInv'
  BY <1>2, HandleWebSocketInv, ReaderInv, WriterInv, PeerInv DEF Peer, Pump
<1>3. ASSUME NEW e \in Events, Broadcast(e) PROVE HubInv'
  BY <1>3, BroadcastInv
<1>4. CASE UNCHANGED wvars
  BY <1>4
  DEF wvars, hub, pumps, bound, HubInv, HubTypes, RegisteredOnce, ReaderStarted, PumpsTogether,
      ReaderPast
<1> QED BY <1>1, <1>2, <1>3, <1>4 DEF Next

(* The invariant holds in every state of the hub and its connections.      *)
THEOREM HubInvariant == Spec => []HubInv
  BY HubInvInit, HubInvStep, PTL DEF Spec

(* Every state of the hub has its types: no Send channel and no broadcast  *)
(* channel ever holds more than its capacity.                              *)
THEOREM HubTypeCorrect == Spec => []TypeOK
<1>1. HubInv => TypeOK
  BY DEF HubInv, HubTypes, TypeOK, Readers, Writers
<1> QED BY <1>1, HubInvariant, PTL

(* Send is closed at most once, and neither the hub nor the reader sends   *)
(* on it afterwards.                                                       *)
THEOREM HubNeverPanics == Spec => []NoPanic
<1>1. HubInv => NoPanic
  BY DEF HubInv, NoPanic
<1> QED BY <1>1, HubInvariant, PTL
-----------------------------------------------------------------------------
(* The browser.  A socket is in use from the moment it is opened for a     *)
(* page until its close has been handled.                                  *)
States == {"none", "connecting", "open", "closing"}
InUse  == {s \in Sockets : socket[s] # "none"}

BrowserTypes ==
  /\ kind \in {"client", "hook"} /\ mounted \subseteq Pages
  /\ socket \in [Sockets -> States] /\ IsFiniteSet(InUse)
  /\ ws \in Sockets \cup {NoSocket} /\ (ws # NoSocket => socket[ws] \in {"connecting", "open"})
  /\ isManualClose \in BOOLEAN /\ timerRef \in BOOLEAN
  /\ reconnectAttempts \in 0 .. MaxAttempts /\ timers \in Nat /\ mounts \in Nat
  /\ timerRef => kind = "hook" /\ timers > 0
  /\ isManualClose => kind = "client" /\ ws = NoSocket

(* What was opened for a page is a socket in use or a timer.               *)
OneChainPerMount == Cardinality(InUse) + timers <= mounts

(* While no page is shown the client has been told to disconnect, or it    *)
(* has done nothing yet.                                                   *)
ToldToStop ==
  kind = "client" /\ mounted = {} => isManualClose \/ (timers = 0 /\ InUse = {})

BrowserInv == BrowserTypes /\ OneChainPerMount /\ ToldToStop

LEMMA NewSocket ==
  ASSUME BrowserTypes, Connect
  PROVE  /\ socket' \in [Sockets -> States] /\ isManualClose' = FALSE
         /\ ws' \in Sockets /\ socket'[ws'] = "connecting"
         /\ IsFiniteSet(InUse') /\ Cardinality(InUse') = Cardinality(InUse) + 1
<1>1. PICK s \in Sockets : /\ socket[s] = "none" /\ ws' = s
                          /\ socket' = [socket EXCEPT ![s] = "connecting"]
  BY DEF Connect, Is
<1>2. /\ socket' \in [Sockets -> States] /\ socket'[s] = "connecting"
      /\ \A r \in Sockets \ {s} : socket'[r] = socket[r]
  BY <1>1 DEF BrowserTypes, States
<1>3. InUse' = InUse \cup {s} /\ s \notin InUse
  BY <1>1, <1>2 DEF InUse
<1>4. IsFiniteSet(InUse') /\ Cardinality(InUse') = Cardinality(InUse) + 1
  BY <1>3, FS_AddElement DEF BrowserTypes
<1> QED BY <1>1, <1>2, <1>4 DEF Connect

LEMMA ClosedSocket ==
  ASSUME BrowserTypes, NEW s \in Sockets, socket[s] # "none",
         socket' = [socket EXCEPT ![s] = "none"]
  PROVE  /\ socket' \in [Sockets -> States]
         /\ \A r \in Sockets \ {s} : socket'[r] = socket[r]
         /\ IsFiniteSet(InUse') /\ Cardinality(InUse') = Cardinality(InUse) - 1
         /\ Cardinality(InUse) \in Nat /\ InUse # {}
<1>1. /\ socket' \in [Sockets -> States] /\ socket'[s] = "none"
      /\ \A r \in Sockets \ {s} : socket'[r] = socket[r]
  BY DEF BrowserTypes, States
<1>2. InUse' = InUse \ {s} /\ s \in InUse
  BY <1>1 DEF InUse
<1>3. /\ IsFiniteSet(InUse') /\ Cardinality(InUse') = Cardinality(InUse) - 1
      /\ Cardinality(InUse) \in Nat
  BY <1>2, FS_RemoveElement, FS_CardinalityType DEF BrowserTypes
<1> QED BY <1>1, <1>2, <1>3

LEMMA BrowserInvInit == ASSUME ClientInit PROVE BrowserInv
<1>1. InUse = {}
  BY DEF ClientInit, InUse
<1>2. IsFiniteSet(InUse) /\ Cardinality(InUse) = 0
  BY <1>1, FS_EmptySet
<1>3. BrowserTypes
  <2>1. /\ kind \in {"client", "hook"} /\ reconnectAttempts \in 0 .. MaxAttempts
        /\ timers \in Nat /\ mounts \in Nat
    BY ClientAssumption DEF ClientInit
  <2>2. /\ isManualClose \in BOOLEAN /\ timerRef \in BOOLEAN /\ ~isManualClose /\ ~timerRef
    BY DEF ClientInit
  <2>3. /\ mounted \subseteq Pages /\ socket \in [Sockets -> States] /\ ws = NoSocket
    BY DEF ClientInit, States
  <2> QED BY <1>2, <2>1, <2>2, <2>3 DEF BrowserTypes
<1> QED BY <1>1, <1>2, <1>3 DEF ClientInit, BrowserInv, OneChainPerMount, ToldToStop

LEMMA MountInv ==
  ASSUME BrowserInv, NEW p \in Pages, Mount(p)
  PROVE  BrowserInv'
<1>1. /\ mounted' = mounted \cup {p} /\ mounts' = mounts + 1 /\ Connect
      /\ UNCHANGED <<kind, reconnectAttempts, timers, timerRef>>
  BY DEF Mount
<1>2. /\ socket' \in [Sockets -> States] /\ isManualClose' = FALSE
      /\ ws' \in Sockets /\ socket'[ws'] = "connecting"
      /\ IsFiniteSet(InUse') /\ Cardinality(InUse') = Cardinality(InUse) + 1
  BY <1>1, NewSocket DEF BrowserInv
<1>3. BrowserTypes'
  <2>1. mounted' \subseteq Pages /\ mounts' \in Nat
    BY <1>1 DEF BrowserInv, BrowserTypes
  <2>2. isManualClose' \in BOOLEAN /\ ~isManualClose'
    BY <1>2
  <2>3. /\ kind' \in {"client", "hook"} /\ reconnectAttempts' \in 0 .. MaxAttempts
        /\ timerRef' \in BOOLEAN /\ timers' \in Nat
        /\ timerRef' => kind' = "hook" /\ timers' > 0
    BY <1>1 DEF BrowserInv, BrowserTypes
  <2> QED BY <1>2, <2>1, <2>2, <2>3 DEF BrowserTypes
<1>4. OneChainPerMount'
  BY <1>1, <1>2, FS_CardinalityType DEF BrowserInv, BrowserTypes, OneChainPerMount
<1>5. ToldToStop'
  BY <1>1 DEF ToldToStop
<1> QED BY <1>3, <1>4, <1>5 DEF BrowserInv

LEMMA UnmountInv ==
  ASSUME BrowserInv, NEW p \in Pages, Unmount(p)
  PROVE  BrowserInv'
<1>1. /\ mounted' = mounted \ {p} /\ ws' = NoSocket /\ isManualClose' = (kind = "client")
      /\ socket' = [s \in Sockets |-> IF s = ws THEN "closing" ELSE socket[s]]
      /\ timers' = IF kind = "hook" /\ timerRef THEN timers - 1 ELSE timers
      /\ timerRef' = FALSE
      /\ UNCHANGED <<kind, mounts, reconnectAttempts>>
  BY DEF Unmount
<1>2. socket' \in [Sockets -> States]
  BY <1>1 DEF BrowserInv, BrowserTypes, States
<1>3. InUse' = InUse
  BY <1>1, ClientAssumption DEF BrowserInv, BrowserTypes, InUse
<1>4. timers' \in Nat /\ timers' <= timers
  BY <1>1 DEF BrowserInv, BrowserTypes
<1>5. BrowserTypes'
  BY <1>1, <1>2, <1>3, <1>4 DEF BrowserInv, BrowserTypes
<1>6. OneChainPerMount'
  BY <1>1, <1>3, <1>4, FS_CardinalityType DEF BrowserInv, BrowserTypes, OneChainPerMount
<1>7. ToldToStop'
  BY <1>1 DEF ToldToStop
<1> QED BY <1>5, <1>6, <1>7 DEF BrowserInv

LEMMA OnOpenInv ==
  ASSUME BrowserInv, NEW s \in Sockets, OnOpen(s)
  PROVE  BrowserInv' /\ Live' = Live
<1>1. /\ socket[s] = "connecting" /\ socket' = [socket EXCEPT ![s] = "open"]
      /\ reconnectAttempts' = 0
      /\ UNCHANGED <<kind, mounted, mounts, ws, isManualClose, timers, timerRef>>
  BY DEF OnOpen, browser
<1>2. /\ socket' \in [Sockets -> States] /\ socket'[s] = "open"
      /\ \A r \in Sockets \ {s} : socket'[r] = socket[r]
  BY <1>1 DEF BrowserInv, BrowserTypes, States
<1>3. InUse' = InUse /\ Live' = Live
  BY <1>1, <1>2 DEF InUse, Live, Is
<1>4. BrowserTypes'
  BY <1>1, <1>2, <1>3, ClientAssumption DEF BrowserInv, BrowserTypes
<1> QED BY <1>1, <1>3, <1>4 DEF BrowserInv, OneChainPerMount, ToldToStop

LEMMA OnCloseInv ==
  ASSUME BrowserInv, NEW s \in Sockets, socket[s] # "none", OnClose(s)
  PROVE  BrowserInv' /\ Live' \subseteq Live
<1>1. /\ socket' = [socket EXCEPT ![s] = "none"]
      /\ ws' = IF ws = s THEN NoSocket ELSE ws
      /\ UNCHANGED <<kind, mounted, mounts, isManualClose>>
  BY DEF OnClose, browser
<1>2. /\ socket' \in [Sockets -> States]
      /\ \A r \in Sockets \ {s} : socket'[r] = socket[r]
      /\ IsFiniteSet(InUse') /\ Cardinality(InUse') = Cardinality(InUse) - 1
      /\ Cardinality(InUse) \in Nat /\ InUse # {}
  BY <1>1, ClosedSocket DEF BrowserInv
<1>3. /\ timers' \in Nat /\ timers' <= timers + 1
      /\ timerRef' \in BOOLEAN /\ (timerRef' => kind = "hook" /\ timers' > 0)
      /\ reconnectAttempts' \in 0 .. MaxAttempts
  <2>1. /\ timers \in Nat /\ reconnectAttempts \in 0 .. MaxAttempts /\ MaxAttempts \in Nat
        /\ timerRef \in BOOLEAN /\ (timerRef => kind = "hook" /\ timers > 0)
        /\ kind \in {"client", "hook"}
    BY ClientAssumption DEF BrowserInv, BrowserTypes
  <2>2. CASE MayReconnect
    <3>1. /\ timers' = timers + 1 /\ timerRef' = (kind = "hook")
          /\ reconnectAttempts' = IF kind = "hook" THEN 0 ELSE reconnectAttempts + 1
      BY <2>2 DEF OnClose, Scheduled, SchedulesOne
    <3>2. kind # "hook" => reconnectAttempts < MaxAttempts
      BY <2>2 DEF MayReconnect
    <3> QED BY <2>1, <3>1, <3>2
  <2>3. CASE ~MayReconnect
    <3>1. UNCHANGED <<reconnectAttempts, timers, timerRef>>
      BY <2>3 DEF OnClose
    <3> QED BY <2>1, <3>1
  <2> QED BY <2>2, <2>3
<1>4. BrowserTypes'
  BY <1>1, <1>2, <1>3, ClientAssumption DEF BrowserInv, BrowserTypes
<1>5. OneChainPerMount'
  BY <1>1, <1>2, <1>3 DEF BrowserInv, BrowserTypes, OneChainPerMount
<1>6. ToldToStop'
  BY <1>1, <1>2 DEF BrowserInv, ToldToStop
<1>7. Live' \subseteq Live
  BY <1>1 DEF BrowserInv, BrowserTypes, Live, Is
<1> QED BY <1>4, <1>5, <1>6, <1>7 DEF BrowserInv

LEMMA TimerFiresInv ==
  ASSUME BrowserInv, TimerFires
  PROVE  /\ BrowserInv'
         /\ kind = "client" /\ mounted = {} => Live' = Live
<1>1. /\ timers > 0 /\ timers' = timers - 1
      /\ UNCHANGED <<kind, mounted, mounts, reconnectAttempts>>
  BY DEF TimerFires, browser
<1>2. /\ timers \in Nat /\ timers' \in Nat /\ timerRef' \in BOOLEAN
      /\ timerRef' => kind = "hook" /\ timers' > 0
  <2>1. timers \in Nat /\ timerRef \in BOOLEAN /\ (timerRef => kind = "hook")
    BY DEF BrowserInv, BrowserTypes
  <2>2. timers' \in Nat
    BY <1>1, <2>1
  <2>3. CASE timerRef' = FALSE
    <3>1. timerRef' \in BOOLEAN /\ ~timerRef'
      BY <2>3
    <3> QED BY <2>1, <2>2, <3>1
  <2>4. CASE timerRef' = timerRef /\ timers > (IF timerRef THEN 1 ELSE 0)
    <3>1. timerRef => timers' > 0
      <4>1. ASSUME timerRef PROVE timers > 1
        BY <2>4, <4>1
      <4> QED BY <1>1, <2>1, <4>1
    <3>2. timerRef' \in BOOLEAN /\ (timerRef' => timerRef)
      BY <2>1, <2>4
    <3> QED BY <2>1, <2>2, <3>1, <3>2
  <2> QED BY <2>3, <2>4 DEF TimerFires
<1>3. CASE StillWanted
  <2>1. /\ socket' \in [Sockets -> States] /\ isManualClose' = FALSE
        /\ ws' \in Sockets /\ socket'[ws'] = "connecting"
        /\ IsFiniteSet(InUse') /\ Cardinality(InUse') = Cardinality(InUse) + 1
    BY <1>3, NewSocket DEF TimerFires, BrowserInv
  <2>2. BrowserTypes'
    BY <1>1, <1>2, <2>1 DEF BrowserInv, BrowserTypes
  <2>3. OneChainPerMount'
    BY <1>1, <1>2, <2>1, FS_CardinalityType DEF BrowserInv, BrowserTypes, OneChainPerMount
  <2>4. ~(kind = "client" /\ mounted = {})
    BY <1>1, <1>2, <1>3 DEF StillWanted, FlagAgain, BrowserInv, ToldToStop
  <2> QED BY <1>1, <2>2, <2>3, <2>4 DEF BrowserInv, ToldToStop
<1>4. CASE ~StillWanted
  <2>1. UNCHANGED <<socket, ws, isManualClose>>
    BY <1>4 DEF TimerFires
  <2>2. InUse' = InUse /\ Live' = Live
    BY <2>1 DEF InUse, Live, Is
  <2>3. BrowserTypes'
    BY <1>1, <1>2, <2>1, <2>2 DEF BrowserInv, BrowserTypes
  <2>4. OneChainPerMount' /\ ToldToStop'
    BY <1>1, <1>2, <2>1, <2>2, FS_CardinalityType
    DEF BrowserInv, BrowserTypes, OneChainPerMount, ToldToStop
  <2> QED BY <2>2, <2>3, <2>4 DEF BrowserInv
<1> QED BY <1>3, <1>4

(* What every step of the browser does: it keeps the invariant, and with   *)
(* no page shown before or after it the client has no more live sockets.   *)
THEOREM BrowserStep ==
  ASSUME BrowserInv, [ClientNext]_clientVars
  PROVE  BrowserInv' /\ (kind = "client" /\ mounted = {} /\ mounted' = {} => Live' \subseteq Live)
<1>1. ASSUME NEW p \in Pages, Mount(p) PROVE BrowserInv' /\ mounted' # {}
  BY <1>1, MountInv DEF Mount
<1>2. ASSUME NEW p \in Pages, Unmount(p) PROVE BrowserInv' /\ mounted # {}
  BY <1>2, UnmountInv DEF Unmount
<1>3. ASSUME NEW s \in Sockets, SocketStep(s) PROVE BrowserInv' /\ Live' \subseteq Live
  <2>1. CASE OnOpen(s)
    BY <2>1, OnOpenInv
  <2>2. CASE Closes(s) \/ Fails(s)
    BY <2>2, OnCloseInv DEF Closes, Fails
  <2> QED BY <1>3, <2>1, <2>2 DEF SocketStep
<1>4. CASE TimerFires
  BY <1>4, TimerFiresInv
<1>5. ASSUME UNCHANGED <<browser, socket, ws, isManualClose, reconnectAttempts, timers, timerRef>>
      PROVE  BrowserInv' /\ Live' \subseteq Live
  <2>1. UNCHANGED <<kind, mounted, mounts, socket, ws, isManualClose, reconnectAttempts, timers, timerRef>>
    BY <1>5 DEF browser
  <2>2. InUse' = InUse /\ Live' = Live
    BY <2>1 DEF InUse, Live, Is
  <2>3. BrowserTypes'
    BY <2>1, <2>2 DEF BrowserInv, BrowserTypes
  <2> QED BY <2>1, <2>2, <2>3 DEF BrowserInv, OneChainPerMount, ToldToStop
<1>6. \A p \in Pages : Resubscribe(p) =>
        UNCHANGED <<browser, socket, ws, isManualClose, reconnectAttempts, timers, timerRef>>
  BY DEF Resubscribe
<1>7. UNCHANGED clientVars =>
        UNCHANGED <<browser, socket, ws, isManualClose, reconnectAttempts, timers, timerRef>>
  BY DEF clientVars
<1> QED BY <1>1, <1>2, <1>3, <1>4, <1>5, <1>6, <1>7 DEF ClientNext

(* The invariant holds in every state of the pages' WebSocket clients.     *)
THEOREM BrowserInvariant == ClientSpec => []BrowserInv
<1>1. BrowserInv /\ [ClientNext]_clientVars => BrowserInv'
  BY BrowserStep
<1> QED BY <1>1, BrowserInvInit, PTL DEF ClientSpec

LEMMA LiveInUse ==
  ASSUME BrowserTypes
  PROVE  Live \subseteq InUse /\ IsFiniteSet(Live) /\ Cardinality(Live) <= Cardinality(InUse)
<1>1. Live \subseteq InUse
  BY DEF Live, Is, InUse
<1> QED BY <1>1, FS_Subset DEF BrowserTypes

(* Reconnecting does not multiply: live sockets and timers together are    *)
(* never more than pages have been mounted, whatever fails or closes late. *)
THEOREM ClientChainsBounded == ClientSpec => []ChainsBounded
<1>1. BrowserInv => ChainsBounded
  BY LiveInUse, FS_CardinalityType DEF BrowserInv, BrowserTypes, OneChainPerMount, ChainsBounded
<1> QED BY <1>1, BrowserInvariant, PTL

(* The client knows no socket that has closed or is closing, and the hook  *)
(* remembers no timer that does not run.                                   *)
THEOREM ClientTypes == ClientSpec => []ClientTypeOK
<1>1. BrowserInv => ClientTypeOK
  <2> SUFFICES ASSUME BrowserInv PROVE ClientTypeOK
    OBVIOUS
  <2>1. ws \in Live \cup {NoSocket}
    BY DEF BrowserInv, BrowserTypes, Live, Is
  <2> QED BY <2>1 DEF BrowserInv, BrowserTypes, ClientTypeOK
<1> QED BY <1>1, BrowserInvariant, PTL

(* wsClient, told to disconnect, opens nothing while no page is shown:     *)
(* neither the close of a socket it had forgotten nor a timer that was     *)
(* already running brings it back.                                         *)
THEOREM ClientStaysDisconnected == ClientSpec => StaysDisconnected
<1>1. BrowserInv /\ [ClientNext]_clientVars => [kind = "client" => ~OpensUnseen]_clientVars
  <2> SUFFICES ASSUME BrowserInv, [ClientNext]_clientVars, kind = "client", OpensUnseen
               PROVE  FALSE
    OBVIOUS
  <2>1. Live' \subseteq Live
    BY BrowserStep DEF OpensUnseen
  <2>2. IsFiniteSet(Live)
    BY LiveInUse DEF BrowserInv
  <2>3. Cardinality(Live') <= Cardinality(Live) /\ Cardinality(Live) \in Nat /\ Cardinality(Live') \in Nat
    BY <2>1, <2>2, FS_Subset, FS_CardinalityType
  <2> QED BY <2>3 DEF OpensUnseen
<1> QED BY <1>1, BrowserInvariant, PTL DEF ClientSpec, StaysDisconnected
=============================================================================
