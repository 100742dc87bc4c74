SPECIFICATION FairSpec
CONSTANTS
    Ports = {q1}
    Pids = {app, other}
    Routed = {app}
    i1 = i1
    i2 = i2
    IPs = {i1, i2}
    RemotePorts = {80, 443}
    Dests <- MCDests
    None = None
    MaxConns = 2
INVARIANTS TypeOK OnePath OwnDecision NoMisroute
PROPERTIES StaleDecisionSwept OrphanRelayClosed
CHECK_DEADLOCK FALSE
