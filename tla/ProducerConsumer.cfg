\* A char of one bit and its sign, ids of two bits, queues of one message.
CONSTANTS
    c1 = c1
    c2 = c2
    s1 = s1
    s2 = s2
    Clients = {c1, c2}
    Servers = {s1, s2}
    Services = {v1, v2}
    CharMax = 0
    ShortSize = 4
    QueueCapacity = 1
    Surroundings <- MCSurroundings
    Nothing = Nothing
SPECIFICATION Spec
INVARIANTS TypeOK OneServerEver Accounted LockStep
PROPERTIES EveryRequestAnswered Shutdown
CHECK_DEADLOCK FALSE
