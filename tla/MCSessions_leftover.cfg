SPECIFICATION Spec
CHECK_DEADLOCK FALSE
CONSTANTS
 Clients = {c1, c2}
 tcp = tcp
 Channels = {tcp, websock}
 Via <- MCVia
 Workers <- MCWorkers
 Main = main
 Nobody = nobody
INVARIANT NoSessionsLeft
