--------------------------- MODULE MCWebSocketHub ---------------------------
(* Small instances of WebSocketHub: f1 is a subscription to one event type *)
(* of one device, f2 to everything of the organisation.                    *)
EXTENDS WebSocketHub, TLC

CONSTANTS e1, e2, f1, f2

OneEvent    == {<<f1, e1>>}
TwoEvents   == {<<f1, e1>>, <<f1, e2>>}
TwoFilters  == {<<f1, e1>>, <<f2, e1>>, <<f2, e2>>}
Symmetry    == Permutations(Clients)
=============================================================================
