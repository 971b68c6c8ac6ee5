\* The spooler is killed and started again while clients are attached.
CONSTANTS
    Clients = {c1, c2}
    MaxBuffers = 2
    ClientMsgs = 2
    MaxKills = 1
    NoString = NoString
SPECIFICATION SpecRestart
INVARIANT OneProducer
CHECK_DEADLOCK FALSE
