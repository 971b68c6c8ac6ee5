\* Two clients and two buffers: clients wait for buffers and for the mutex,
\* the ring wraps around, and one process may be killed anywhere.
CONSTANTS
    Clients = {c1, c2}
    MaxBuffers = 2
    ClientMsgs = 3
    MaxKills = 1
    NoString = NoString
SPECIFICATION Spec
INVARIANTS TypeOK MutualExclusion NoBufferRace BufferAccounting
PROPERTIES ImplementsChannel EveryLinePrinted
CHECK_DEADLOCK FALSE
