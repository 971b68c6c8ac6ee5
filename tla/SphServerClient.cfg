\* Three clients with two messages each against a server that prints five: the
\* sixth message meets the teardown.  One process may be killed.
CONSTANTS
    Clients = {c1, c2, c3}
    ServerMsgs = 5
    ClientMsgs = 2
    MaxKills = 1
    NoMessage = NoMessage
SPECIFICATION Spec
INVARIANTS TypeOK MutualExclusion UseAfterSetup
PROPERTIES ImplementsChannel Termination
CHECK_DEADLOCK FALSE
