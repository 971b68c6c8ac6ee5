\* Two clients and one id.
CONSTANTS
    Server = server
    Clients = {c1, c2}
    MaxClients = 1
    MaxMessages = 20
    Posts = {p1}
    MaxSignals = 0
    Nothing = Nothing
SPECIFICATION Spec
INVARIANT EveryRequestAnswered
CHECK_DEADLOCK FALSE
