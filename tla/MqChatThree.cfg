\* Three clients for two ids, two texts, a queue of two messages.
CONSTANTS
    Server = server
    Clients = {c1, c2, c3}
    MaxClients = 2
    Capacity = 2
    MaxPosts = 2
    MaxSignals = 0
    Nothing = Nothing
SPECIFICATION Spec
SYMMETRY ClientSymmetry
INVARIANTS OneOwnerPerId InOrder
CHECK_DEADLOCK FALSE
