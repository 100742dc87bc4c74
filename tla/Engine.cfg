SPECIFICATION FairSpec
CONSTANTS
    Filters = {f1}
    MaxGen = 2
    MaxFaults = 2
    None = None
INVARIANTS TypeOK NoOrphan OldRunInstallsNothing
PROPERTY DeadCaptureRevived
CHECK_DEADLOCK FALSE
