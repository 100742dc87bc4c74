SPECIFICATION Spec
CONSTANTS
    Pids = {app, other, guard}
    Protected = {guard}
    Apps = {app}
    Loops = {l1, l2}
    None = None
    StartsSucceed = TRUE
    MaxFlows = 2
    MaxSockets = 2
    MaxOps = 2
    MaxMishaps = 1
INVARIANTS TypeOK NoLeakedSocket 
PROPERTY KeepsLiveFlow
SYMMETRY Symmetry
CHECK_DEADLOCK FALSE
