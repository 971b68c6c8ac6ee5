\* The server and one client on two slots, with two message types: the buffer is
\* found empty, with the wrong message, and full.  One process may be killed.
CONSTANTS
    Server = server
    Clients = {c1}
    Message <- MCMessage
    MaxMessages = 2
    MaxKills = 1
    Nothing = Nothing
SPECIFICATION Spec
INVARIANTS TypeOK MutualExclusion
PROPERTIES ImplementsMailbox EveryCallReturns
CHECK_DEADLOCK FALSE
