\* Goods in thousands; pools of one service; three attempts to find a reply.
CONSTANTS
    Nobody = Nobody
    Garbage = Garbage
    NULL = NULL
    NotDefined = NotDefined
    Nothing = Nothing
    Buyers = {b1, b2}
    Loader = Loader
    SHOPS = 2
    NEED = 2
    MaxLoad = 2
    CounterThreads = {t1, t2, t3}
    ITER_SIZE = 2
    MAX_CHILDS = 3
    MaxFailures = 2
    Numbers = {n1, n2}
    MAXSIZE = 3
    MaxDepth = 2
    Nodes = {a1, a2}
    PoolClients = {p1, p2, p3}
    POOL = 1
    ATTEMPTS = 3
    QueueCapacity = 1
    Bounds <- MCBounds
    TcpClients = {c1, c2}
    Parent = Parent
    Worker = Worker
SYMMETRY Symmetry
SPECIFICATION Spec
INVARIANTS TypeOK FairTrade Counted OneProcessPerJob ListsIntact Sessions NobodyLeft
CHECK_DEADLOCK FALSE
