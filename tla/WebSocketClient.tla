--------------------------- MODULE WebSocketClient ---------------------------
(***************************************************************************)
(* The browser's end of the WebSocket, of two kinds: wsClient, the one     *)
(* client that the update hooks of all pages share, and the hook           *)
(* useWebSocket, of which a page has its own.  Either opens a socket when  *)
(* a page mounts, closes the one it knows when a page goes, and opens      *)
(* another some time after a socket has closed.  The handlers of a socket  *)
(* stay with it when the client no longer knows it.                        *)
(***************************************************************************)
EXTENDS Naturals, FiniteSets

CONSTANTS
  Kinds,        \* those that are checked, of "client" and "hook"
  Pages,        \* pages that can be mounted
  TopicOf,      \* the event type each page subscribes to
  Sockets,      \* WebSocket objects, used again when they have closed
  MaxAttempts,  \* maxReconnectAttempts
  MaxMounts, MaxFailures, \* bounds: pages mounted; sockets that fail
  NoSocket

ASSUME ClientAssumption ==
  /\ Kinds \subseteq {"client", "hook"} /\ Sockets \subseteq Nat /\ NoSocket \notin Sockets
  /\ MaxAttempts \in Nat \ {0} /\ MaxMounts \in Nat /\ MaxFailures \in Nat

VARIABLES
  kind,
  mounted,       \* pages that are shown
  socket,        \* what each socket is doing
  ws,            \* the socket the client knows; NoSocket also when that one has closed
  isManualClose, \* of the client
  reconnectAttempts,
  timers,        \* how many timers run
  timerRef,      \* whether the timer the hook remembers is one of them
  sent,          \* the subscriptions sent on each socket
  mounts, failures \* how often, within the bounds

browser    == <<kind, mounted, mounts>>
clientVars == <<browser, socket, ws, isManualClose, reconnectAttempts, timers, timerRef, sent, failures>>

ClientInit ==
  /\ kind \in Kinds /\ mounted = {} /\ ws = NoSocket
  /\ socket = [s \in Sockets |-> "none"] /\ sent = [s \in Sockets |-> {}]
  /\ isManualClose = FALSE /\ reconnectAttempts = 0 /\ timers = 0 /\ timerRef = FALSE
  /\ mounts = 0 /\ failures = 0

Is(state) == {s \in Sockets : socket[s] = state}

-----------------------------------------------------------------------------
(* connect: a new socket, whatever became of the one before.               *)
Connect ==
  /\ \E s \in Is("none") :
       /\ \A r \in Is("none") : s <= r
       /\ socket' = [socket EXCEPT ![s] = "connecting"]
       /\ sent' = [sent EXCEPT ![s] = {}]
       /\ ws' = s
  /\ isManualClose' = FALSE

(* A page mounts: it connects, and then subscribes; send does nothing      *)
(* while the socket is not open.  A hook serves one page only, which goes  *)
(* and mounts again each time it is drawn with other callbacks.            *)
Mount(p) ==
  /\ p \notin mounted /\ mounts < MaxMounts
  /\ kind = "hook" => mounted = {}
  /\ mounted' = mounted \cup {p} /\ mounts' = mounts + 1
  /\ Connect
  /\ UNCHANGED <<kind, reconnectAttempts, timers, timerRef, failures>>

(* A page goes: disconnect marks the close as meant, or clears the timer   *)
(* of the hook.                                                            *)
Unmount(p) ==
  /\ p \in mounted
  /\ mounted' = mounted \ {p}
  /\ socket' = [s \in Sockets |-> IF s = ws THEN "closing" ELSE socket[s]]
  /\ ws' = NoSocket
  /\ isManualClose' = (kind = "client")
  /\ timers' = IF kind = "hook" /\ timerRef THEN timers - 1 ELSE timers
  /\ timerRef' = FALSE
  /\ UNCHANGED <<kind, mounts, reconnectAttempts, sent, failures>>

(* A page that is shown with another callback subscribes again.            *)
Resubscribe(p) ==
  /\ kind = "client" /\ p \in mounted
  /\ ws # NoSocket /\ socket[ws] = "open" /\ TopicOf[p] \notin sent[ws]
  /\ sent' = [sent EXCEPT ![ws] = @ \cup {TopicOf[p]}]
  /\ UNCHANGED <<browser, socket, ws, isManualClose, reconnectAttempts, timers, timerRef, failures>>

-----------------------------------------------------------------------------
OnOpen(s) ==
  /\ socket[s] = "connecting"
  /\ socket' = [socket EXCEPT ![s] = "open"]
  /\ reconnectAttempts' = 0
  /\ UNCHANGED <<browser, ws, isManualClose, timers, timerRef, sent, failures>>

(* onclose: the client looks at its flag, whichever socket has closed; the *)
(* hook has none.                                                          *)
GivesUpEarly == kind = "hook" \/ (~isManualClose /\ reconnectAttempts < 1)
MayReconnect == kind = "hook" \/ (~isManualClose /\ reconnectAttempts < MaxAttempts)

SchedulesOne == 1
SchedulesTwo == 2
Scheduled    == SchedulesOne

OnClose(s) ==
  /\ socket' = [socket EXCEPT ![s] = "none"]
  /\ ws' = IF ws = s THEN NoSocket ELSE ws
  /\ IF MayReconnect
     THEN /\ timers' = timers + Scheduled /\ timerRef' = (kind = "hook")
          /\ reconnectAttempts' = IF kind = "hook" THEN 0 ELSE reconnectAttempts + 1
     ELSE UNCHANGED <<reconnectAttempts, timers, timerRef>>
  /\ UNCHANGED <<browser, isManualClose, sent>>

Closes(s) == socket[s] = "closing" /\ OnClose(s) /\ UNCHANGED failures

(* External: a server that refuses, or a network that breaks.              *)
Fails(s) ==
  /\ socket[s] \in {"connecting", "open"} /\ failures < MaxFailures
  /\ OnClose(s)
  /\ failures' = failures + 1

(* A timer runs off: the client looks at its flag once more.               *)
FlagAgain   == kind = "hook" \/ ~isManualClose
FlagIgnored == TRUE
StillWanted == FlagAgain

TimerFires ==
  /\ timers > 0
  /\ timers' = timers - 1
  /\ \/ timerRef /\ timerRef' = FALSE
     \/ timers > (IF timerRef THEN 1 ELSE 0) /\ UNCHANGED timerRef
  /\ IF StillWanted THEN Connect ELSE UNCHANGED <<socket, sent, ws, isManualClose>>
  /\ UNCHANGED <<browser, reconnectAttempts, failures>>

SocketStep(s) == OnOpen(s) \/ Closes(s) \/ Fails(s)

ClientNext ==
  \/ \E p \in Pages : Mount(p) \/ Unmount(p) \/ Resubscribe(p)
  \/ \E s \in Sockets : SocketStep(s)
  \/ TimerFires

(* A socket opens or fails, a close ends and timers run off.               *)
ClientFairness ==
  /\ WF_clientVars(TimerFires)
  /\ \A s \in Sockets : WF_clientVars(SocketStep(s))

ClientSpec == ClientInit /\ [][ClientNext]_clientVars /\ ClientFairness

-----------------------------------------------------------------------------
Live == Is("connecting") \cup Is("open")

ClientTypeOK ==
  /\ mounted \subseteq Pages /\ ws \in Live \cup {NoSocket}
  /\ reconnectAttempts \in 0 .. MaxAttempts /\ timers \in Nat
  /\ timerRef => kind = "hook" /\ timers > 0
  /\ isManualClose => kind = "client" /\ ws = NoSocket

(* Reconnecting does not multiply: what was opened for a page is one       *)
(* socket or one timer, so there are never more of them than pages have    *)
(* been mounted.                                                           *)
ChainsBounded == Cardinality(Live) + timers <= mounts

(* wsClient opens nothing while no page is shown, whatever closes or runs  *)
(* off then.                                                               *)
OpensUnseen ==
  mounted = {} /\ mounted' = {} /\ Cardinality(Live') > Cardinality(Live)

StaysDisconnected == [][kind = "client" => ~OpensUnseen]_clientVars

(* A client that was not told to disconnect, and the hook of a page that   *)
(* is shown, get their connection back: here sockets fail less often than  *)
(* wsClient has attempts.                                                  *)
Wanted == IF kind = "client" THEN ~isManualClose ELSE TRUE

Reconnects ==
  (mounted # {} /\ Wanted) ~>
    (ws \in Is("open") \/ mounted = {} \/ ~Wanted)

(* "组件卸载时断开连接": no socket stays open after the last page has gone. *)
UnmountDisconnects == mounted = {} ~> (Live = {} \/ mounted # {})

(* The hook opens nothing after its disconnect either.                     *)
HookStaysDisconnected == [][kind = "hook" => ~OpensUnseen]_clientVars

(* The client has one connection at a time.                                *)
OneConnection == Cardinality(Is("open")) <= 1

(* What a page subscribes to is asked of the server.                       *)
SubscriptionSent ==
  kind = "client" /\ ws \in Is("open") => \A p \in mounted : TopicOf[p] \in sent[ws]
=============================================================================
