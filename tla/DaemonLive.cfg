SPECIFICATION FairSpec
CONSTANTS
    Clients = {c1}
    Watch = watch
    Closers = {stop}
    Nobody = nobody
    Apps = {a}
    MaxRebuilds = 2
    MaxStarts = 1
    MaxOps = 1
    MaxMishaps = 2
PROPERTIES DeadTunnelIsClosed InterceptionStarts
