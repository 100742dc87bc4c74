SPECIFICATION Spec
CONSTANTS
    Clients = {c1}
    Watch = watch
    Closers = {}
    Nobody = nobody
    Apps = {a}
    MaxRebuilds = 2
    MaxStarts = 2
    MaxOps = 2
    MaxMishaps = 1
INVARIANT DisconnectHolds
