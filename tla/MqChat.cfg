\* Two clients, an id for each, a queue of two messages that fills up, one text
\* and one signal.
CONSTANTS
    Server = server
    Clients = {c1, c2}
    MaxClients = 2
    Capacity = 2
    MaxPosts = 1
    MaxSignals = 1
    Nothing = Nothing
SPECIFICATION Spec
INVARIANTS TypeOK
PROPERTIES ImplementsIdPool Delivered Shutdown
CHECK_DEADLOCK FALSE
