---------------------------- MODULE MCWebSocket ----------------------------
(* Both ends of the WebSocket in one run: a behaviour is one of the hub or *)
(* one of the browser's client.                                            *)
EXTENDS MCWebSocketHub, WebSocketClient

CONSTANTS p1, p2

VARIABLE part

Topics == (p1 :> "alerts") @@ (p2 :> "devices")

EndsInit ==
  /\ Init /\ ClientInit
  /\ part \in {"hub", "browser"}

EndsNext ==
  \/ part = "hub" /\ Next /\ UNCHANGED <<part, clientVars>>
  \/ part = "browser" /\ ClientNext /\ UNCHANGED <<part, wvars>>

EndsSpec ==
  EndsInit /\ [][EndsNext]_<<part, wvars, clientVars>> /\ Fairness /\ ClientFairness
=============================================================================
