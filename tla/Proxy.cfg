SPECIFICATION Spec
CONSTANTS
    Hosts <- MCHosts
    Rule <- MCRule
    BuiltIn <- MCBuiltIn
    Files <- MCFiles
    Fetched <- MCFetched
    Default = "direct"
    Conns = {c1}
    Apps = {app}
    Selected = {app}
    None = None
    MaxOps = 1
    MaxMishaps = 1
INVARIANTS TypeOK RoutesFollowRules
CHECK_DEADLOCK FALSE
PROPERTIES PublishesIntended CatchesUp
