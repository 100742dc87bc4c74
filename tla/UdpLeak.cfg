SPECIFICATION Spec
CONSTANTS
    Pids = {app}
    Protected = {}
    Apps = {app}
    Loops = {l1}
    None = None
    StartsSucceed = FALSE
    MaxFlows = 1
    MaxSockets = 1
    MaxOps = 4
    MaxMishaps = 0
INVARIANT NoLeakedSocket
CHECK_DEADLOCK FALSE
