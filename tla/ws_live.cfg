SPECIFICATION EndsSpec
CONSTANTS
  e1 = e1
  e2 = e2
  f1 = f1
  f2 = f2
  Clients = {c1}
  Events = {e1, e2}
  Filters = {f1, f2}
  Matches <- TwoFilters
  Reply = Reply
  Null = Null
  SendCap = 1
  BroadcastCap = 1
  MaxReplies = 2
  p1 = p1
  p2 = p2
  Kinds = {"client", "hook"}
  Pages = {p1, p2}
  TopicOf <- Topics
  Sockets = {1, 2, 3, 4, 5}
  MaxAttempts = 10
  MaxMounts = 3
  MaxFailures = 3
  NoSocket = 0
INVARIANTS
  TypeOK
  NoPanic
  ChainsBounded
PROPERTIES
  HubResponds
  ClientForgotten
  StaysDisconnected
  Reconnects
CHECK_DEADLOCK FALSE
