\* Ctrl-C while a process waits in semop.
CONSTANTS
    Server = server
    Clients = {c1}
    Message <- MCMessage
    MaxMessages = 2
    MaxKills = 0
    Nothing = Nothing
SPECIFICATION SpecInterrupted
INVARIANT OneInside
CHECK_DEADLOCK FALSE
