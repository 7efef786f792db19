SPECIFICATION Spec
CONSTANTS
 Clients = {c1, c2}
 tcp = tcp
 Channels = {tcp, websock}
 Via <- MCVia
 Workers <- MCWorkers
 Main = main
 Nobody = nobody
CHECK_DEADLOCK FALSE
INVARIANTS ManagerInv OwnSession
PROPERTIES DepartedForgotten ShutdownEnds
