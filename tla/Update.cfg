SPECIFICATION Spec
CONSTANTS
    Builds = {1, 2, 3}
    Latest = 2
    Spares = {spare1, spare2}
    MaxChecks = 2
    MaxLaunches = 2
    MaxCrashes = 1
    MaxRefusals = 1
    None = None
    Blank = Blank
    Junk = Junk
INVARIANTS TypeOK ExeIsWhole CopySurvives BinaryKept 
CHECK_DEADLOCK FALSE
