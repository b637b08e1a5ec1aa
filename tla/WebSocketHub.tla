---------------------------- MODULE WebSocketHub ----------------------------
(***************************************************************************)
(* The WebSocket hub of api-gateway.  Run is one goroutine that selects    *)
(* among three channels: registrations, unregistrations and broadcasts.    *)
(* Every connection has a reader and a writer goroutine, a bounded Send    *)
(* channel between them and the hub, and a context derived from the        *)
(* context of its HTTP request, which net/http cancels when the handler    *)
(* returns.  A heartbeat monitor cancels the context of silent peers.      *)
(***************************************************************************)
EXTENDS Naturals, Sequences, FiniteSets

CONSTANTS
  Clients,   \* connections
  Events,    \* broadcast messages, each published once
  Filters,   \* subscriptions a peer may ask for
  Matches,   \* the pairs <<filter, event>> for which filterMatches is true
  Reply,     \* a pong or an error message, which the reader itself sends
  Null,
  SendCap, BroadcastCap, \* capacities of Send and of broadcast
  MaxReplies \* bound: requests of each peer that are answered

ASSUME HubAssumption ==
  /\ SendCap \in Nat \ {0} /\ BroadcastCap \in Nat \ {0} /\ MaxReplies \in Nat
  /\ Matches \subseteq Filters \X Events /\ Reply \notin Events /\ Null \notin Events \cup {Reply}

VARIABLES
  clients,                       \* WebSocketHandler.clients
  register, unregister, broadcast, \* its channels
  open, cancelled,               \* connections open; contexts cancelled
  send, closed,                  \* Client.Send: its content, the closed ones
  subs,                          \* Client.Subscriptions
  reader, writer, writing,       \* the two goroutines and the message written
  gone,                          \* peers that do not answer any more
  replies, published,            \* bounds
  panicked                       \* a send on, or a second close of, a closed Send

hub   == <<clients, register, unregister, broadcast>>
pumps == <<reader, writer, writing>>
bound == <<gone, replies, published>>
wvars == <<hub, open, cancelled, send, closed, subs, pumps, bound, panicked>>

-----------------------------------------------------------------------------
Init ==
  /\ clients = {} /\ register = << >> /\ unregister = << >> /\ broadcast = << >>
  /\ open = {} /\ cancelled = {} /\ closed = {}
  /\ send = [c \in Clients |-> << >>] /\ subs = [c \in Clients |-> {}]
  /\ reader = [c \in Clients |-> "none"] /\ writer = [c \in Clients |-> "none"]
  /\ writing = [c \in Clients |-> Null]
  /\ gone = {} /\ replies = [c \in Clients |-> 0] /\ published = {} /\ panicked = FALSE

Room(c)      == Len(send[c]) < SendCap
Reads(c, l)  == reader' = [reader EXCEPT ![c] = l] /\ UNCHANGED <<writer, writing>>
Writes(c, l, m) == /\ writer' = [writer EXCEPT ![c] = l]
                   /\ writing' = [writing EXCEPT ![c] = m]
                   /\ UNCHANGED reader

(* HandleWebSocket: register, then start the two goroutines.               *)
HandleWebSocket(c) ==
  /\ reader[c] = "none"
  /\ open' = open \cup {c}
  /\ register' = Append(register, c)
  /\ reader' = [reader EXCEPT ![c] = "read"] /\ writer' = [writer EXCEPT ![c] = "select"]
  /\ UNCHANGED <<clients, unregister, broadcast, cancelled, send, closed, subs, writing,
                 bound, panicked>>

(* ... and return: net/http cancels the request's context.                 *)
HandlerReturns(c) ==
  /\ reader[c] # "none" /\ c \notin cancelled
  /\ cancelled' = cancelled \cup {c}
  /\ UNCHANGED <<hub, open, send, closed, subs, pumps, bound, panicked>>

-----------------------------------------------------------------------------
(* The cases of Run's select; a ready one is chosen at random.             *)
HubRegister ==
  /\ register # << >>
  /\ clients' = clients \cup {Head(register)} /\ register' = Tail(register)
  /\ UNCHANGED <<unregister, broadcast, open, cancelled, send, closed, subs, pumps, bound,
                 panicked>>

KeepsClient ==
  LET c == Head(unregister) IN
  /\ unregister # << >> /\ unregister' = Tail(unregister)
  /\ closed' = IF c \in clients THEN closed \cup {c} ELSE closed
  /\ panicked' = (panicked \/ (c \in clients /\ c \in closed))
  /\ UNCHANGED <<clients, register, broadcast, open, cancelled, send, subs, pumps, bound>>

HubUnregister ==
  LET c == Head(unregister) IN
  /\ unregister # << >> /\ unregister' = Tail(unregister)
  /\ clients' = clients \ {c}
  /\ closed' = IF c \in clients THEN closed \cup {c} ELSE closed
  /\ panicked' = (panicked \/ (c \in clients /\ c \in closed))
  /\ UNCHANGED <<register, broadcast, open, cancelled, send, subs, pumps, bound>>

(* broadcastMessage: to the subscribed clients with room in Send; the      *)
(* others miss the message.                                                *)
Subscribed(c, e) == \E f \in subs[c] : <<f, e>> \in Matches

WaitsForRoom ==
  LET e == Head(broadcast) IN
  /\ broadcast # << >>
  /\ \A c \in clients : Subscribed(c, e) => Room(c)
  /\ broadcast' = Tail(broadcast)
  /\ send' = [c \in Clients |-> IF c \in clients /\ Subscribed(c, e)
                                THEN Append(send[c], e) ELSE send[c]]
  /\ UNCHANGED <<clients, register, unregister, open, cancelled, closed, subs, pumps, bound,
                 panicked>>

HubBroadcast ==
  LET e  == Head(broadcast)
      to == {c \in clients : Subscribed(c, e)}
  IN
  /\ broadcast # << >> /\ broadcast' = Tail(broadcast)
  /\ send' = [c \in Clients |-> IF c \in to \ closed /\ Room(c)
                                THEN Append(send[c], e) ELSE send[c]]
  /\ panicked' = (panicked \/ to \cap closed # {})
  /\ UNCHANGED <<clients, register, unregister, open, cancelled, closed, subs, pumps, bound>>

(* Broadcast, called for each event received from Redis: a full channel    *)
(* drops it.                                                               *)
NeverDrops(e) ==
  /\ e \notin published
  /\ published' = published \cup {e}
  /\ broadcast' = Append(broadcast, e)
  /\ UNCHANGED <<clients, register, unregister, open, cancelled, send, closed, subs, pumps,
                 gone, replies, panicked>>

Broadcast(e) ==
  /\ e \notin published
  /\ published' = published \cup {e}
  /\ broadcast' = IF Len(broadcast) < BroadcastCap THEN Append(broadcast, e) ELSE broadcast
  /\ UNCHANGED <<clients, register, unregister, open, cancelled, send, closed, subs, pumps,
                 gone, replies, panicked>>

-----------------------------------------------------------------------------
(* readPump and handleMessage: a subscription is recorded ... *)
HandleSubscription(c, f) ==
  /\ reader[c] = "read" /\ c \in open \ gone
  /\ \E s \in {subs[c] \cup {f}, subs[c] \ {f}} : s # subs[c] /\ subs' = [subs EXCEPT ![c] = s]
  /\ UNCHANGED <<hub, open, cancelled, send, closed, pumps, bound, panicked>>

(* ... a ping, or a message that is not understood, is answered through    *)
(* Send ...                                                                *)
HandleMessage(c) ==
  /\ reader[c] = "read" /\ c \in open \ gone /\ replies[c] < MaxReplies
  /\ replies' = [replies EXCEPT ![c] = @ + 1]
  /\ Reads(c, "reply")
  /\ UNCHANGED <<hub, open, cancelled, send, closed, subs, gone, published, panicked>>

(* ... with a send that waits for room.                                    *)
SendReply(c) ==
  /\ reader[c] = "reply" /\ (Room(c) \/ c \in closed)
  /\ panicked' = (panicked \/ c \in closed)
  /\ send' = IF c \in closed THEN send ELSE [send EXCEPT ![c] = Append(@, Reply)]
  /\ Reads(c, "read")
  /\ UNCHANGED <<hub, open, cancelled, closed, subs, bound>>

(* ReadJSON fails: the peer closed, was silent for the read deadline, or   *)
(* the writer closed the connection.                                       *)
ReadFails(c) ==
  /\ reader[c] = "read"
  /\ Reads(c, "leaving")
  /\ UNCHANGED <<hub, open, cancelled, send, closed, subs, bound, panicked>>

(* The deferred calls, in their order: unregister; Close and cancel.       *)
Leave(c) ==
  /\ reader[c] = "leaving"
  /\ unregister' = Append(unregister, c)
  /\ Reads(c, "closing")
  /\ UNCHANGED <<clients, register, broadcast, open, cancelled, send, closed, subs, bound,
                 panicked>>

CloseConn(c) ==
  /\ reader[c] = "closing"
  /\ open' = open \ {c} /\ cancelled' = cancelled \cup {c}
  /\ Reads(c, "done")
  /\ UNCHANGED <<hub, send, closed, subs, bound, panicked>>

-----------------------------------------------------------------------------
(* writePump: the context, a message, a closed Send or a failed ping.      *)
WriterTakes(c) ==
  /\ writer[c] = "select" /\ send[c] # << >>
  /\ Writes(c, "write", Head(send[c]))
  /\ send' = [send EXCEPT ![c] = Tail(@)]
  /\ UNCHANGED <<hub, open, cancelled, closed, subs, bound, panicked>>

WriteSucceeds(c) ==
  /\ writer[c] = "write" /\ c \in open
  /\ Writes(c, "select", Null)
  /\ UNCHANGED <<hub, open, cancelled, send, closed, subs, bound, panicked>>

(* It returns, and its deferred Close closes the connection.               *)
WriterEnds(c) ==
  /\ \/ writer[c] = "select" /\ (c \in cancelled \/ (c \in closed /\ send[c] = << >>))
     \/ writer[c] = "select" /\ (c \in gone \/ c \notin open)  \* the ping fails
     \/ writer[c] = "write" /\ (c \in gone \/ c \notin open)   \* the message's deadline
  /\ open' = open \ {c}
  /\ Writes(c, "done", Null)
  /\ UNCHANGED <<hub, cancelled, send, closed, subs, bound, panicked>>

(* A peer vanishes without closing its connection. *)
PeerGone(c) ==
  /\ c \in open \ gone
  /\ gone' = gone \cup {c}
  /\ UNCHANGED <<hub, open, cancelled, send, closed, subs, pumps, replies, published, panicked>>

(* checkClients: a registered client without a pong for 90 seconds is      *)
(* cancelled.  Pongs are handled by the reader, so none is seen from a     *)
(* client whose reader waits for room in Send either.                      *)
Silent(c) == c \in gone \/ reader[c] = "reply"

CheckClients(c) ==
  /\ c \in clients \ cancelled /\ Silent(c)
  /\ cancelled' = cancelled \cup {c}
  /\ UNCHANGED <<hub, open, send, closed, subs, pumps, bound, panicked>>

Hub     == HubRegister \/ HubUnregister \/ HubBroadcast
Pump(c) == \/ SendReply(c) \/ Leave(c) \/ CloseConn(c)
           \/ WriterTakes(c) \/ WriteSucceeds(c) \/ WriterEnds(c)
Peer(c) == \/ HandleWebSocket(c) \/ HandleMessage(c) \/ PeerGone(c)
           \/ \E f \in Filters : HandleSubscription(c, f)

Next ==
  \/ Hub
  \/ \E c \in Clients : Peer(c) \/ HandlerReturns(c) \/ ReadFails(c) \/ Pump(c) \/ CheckClients(c)
  \/ \E e \in Events : Broadcast(e)

Spec == Init /\ [][Next]_wvars

(* Run serves each of its channels again and again (its select is fair),   *)
(* handlers return, the monitor's ticker ticks, pumps go on; a read of a   *)
(* connection that is closed or whose peer is gone fails at the latest     *)
(* with the read deadline.                                                 *)
Fairness ==
  /\ WF_wvars(HubRegister) /\ WF_wvars(HubUnregister) /\ WF_wvars(HubBroadcast)
  /\ \A c \in Clients :
       /\ WF_wvars(HandlerReturns(c)) /\ WF_wvars(CheckClients(c))
       /\ WF_wvars(SendReply(c)) /\ WF_wvars(Leave(c)) /\ WF_wvars(CloseConn(c))
       /\ WF_wvars(WriterTakes(c) \/ WriteSucceeds(c) \/ WriterEnds(c))
       /\ WF_wvars((c \notin open \/ c \in gone) /\ ReadFails(c))
FairSpec == Spec /\ Fairness

-----------------------------------------------------------------------------
TypeOK ==
  /\ clients \subseteq Clients /\ open \subseteq Clients /\ cancelled \subseteq Clients
  /\ closed \subseteq Clients /\ gone \subseteq Clients /\ published \subseteq Events
  /\ \A c \in Clients : Len(send[c]) <= SendCap /\ subs[c] \subseteq Filters
  /\ Len(broadcast) <= BroadcastCap
  /\ \A c \in Clients : /\ reader[c] \in {"none", "read", "reply", "leaving", "closing", "done"}
                        /\ writer[c] \in {"none", "select", "write", "done"}
                        /\ (writing[c] # Null) = (writer[c] = "write")

(* Send is closed by the hub while two other goroutines use it: it is      *)
(* closed at most once, and neither the hub nor the client's reader ever   *)
(* sends on it afterwards, in whatever order the channels are served.      *)
NoPanic == ~panicked

(* No client, however slow, keeps the hub from its channels: every         *)
(* registration and every unregistration is served, every event leaves the *)
(* broadcast channel.                                                      *)
HubResponds ==
  /\ register # << >> ~> register = << >>
  /\ unregister # << >> ~> unregister = << >>
  /\ broadcast # << >> ~> broadcast = << >>

(* A client that is in the map when its reader leaves is removed from it,  *)
(* and both its goroutines end: nothing of it stays behind.                *)
ClientForgotten ==
  \A c \in Clients :
    c \in clients /\ reader[c] = "leaving"
      ~> c \notin clients /\ reader[c] = "done" /\ writer[c] = "done"

(* GetClientCount, "the number of clients connected now": with no          *)
(* registration and no unregistration pending, every client of the map     *)
(* still has its reader.                                                   *)
CountsConnected ==
  register = << >> /\ unregister = << >> =>
    \A c \in clients : reader[c] \in {"read", "reply", "leaving"}

(* "No pong for more than this long means the connection is dead": a       *)
(* context is cancelled for a client that is silent or whose reader ends.  *)
CancelledForCause ==
  [][\A c \in cancelled' \ cancelled : Silent(c) \/ reader[c] = "closing"]_wvars

(* The monitor disconnects an unresponsive client: if it is in the map     *)
(* while its reader runs, it leaves the map.                               *)
UnresponsiveRemoved ==
  \A c \in Clients :
    c \in clients /\ c \in gone /\ reader[c] \in {"read", "reply"} ~> c \notin clients
=============================================================================
