\* Two clients, an id for each, one text and one signal.  Four slots are enough
\* for a text to be delivered, and few enough for the buffer to fill up.
CONSTANTS
    Server = server
    Clients = {c1, c2}
    MaxClients = 2
    MaxMessages = 4
    Posts = {p1}
    MaxSignals = 1
    Nothing = Nothing
SPECIFICATION Spec
INVARIANTS TypeOK
PROPERTIES ImplementsIdPool Delivered 
CHECK_DEADLOCK FALSE
