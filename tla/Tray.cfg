SPECIFICATION Spec
CONSTANTS
    Apps = {a1}
    Clickers = {k1, k2}
    Poll = poll
    Button = button
    Svc = svc
    Nobody = Nobody
    MaxOps = 2
    MaxMishaps = 1
INVARIANTS TypeOK TogglesKept
CHECK_DEADLOCK FALSE
PROPERTIES PacFollows MenuFollows
