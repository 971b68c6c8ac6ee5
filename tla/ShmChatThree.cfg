\* Three clients for two ids: a request is refused, ids are inherited, and a text
\* has readers other than the one who takes its writer's place.
CONSTANTS
    Server = server
    Clients = {c1, c2, c3}
    MaxClients = 2
    MaxMessages = 26
    Posts = {p1}
    MaxSignals = 0
    Nothing = Nothing
SPECIFICATION Spec
SYMMETRY ClientSymmetry
INVARIANTS OneOwnerPerId PrintedOnce
CHECK_DEADLOCK FALSE
