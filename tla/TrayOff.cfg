SPECIFICATION Spec
CONSTANTS
    Apps = {a1}
    Clickers = {k1}
    Poll = poll
    Button = button
    Svc = svc
    Nobody = Nobody
    MaxOps = 3
    MaxMishaps = 0
INVARIANT OffLeavesNoPac
CHECK_DEADLOCK FALSE
