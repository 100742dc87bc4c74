SPECIFICATION Spec
CONSTANTS
    Clients = {c1, c2}
    Watch = watch
    Closers = {}
    Nobody = nobody
    Apps = {a}
    MaxRebuilds = 2
    MaxStarts = 2
    MaxOps = 2
    MaxMishaps = 2
INVARIANTS TypeOK NoBypass SettledSelection SavedIsCurrent
PROPERTY GaveUpStaysDown
