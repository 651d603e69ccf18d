CONSTANTS
    m1 = m1
    m2 = m2
    Box <- MCBox
    Anonymous = {}
    Requests = {r1}
    MaxRequests = 1
    MaxErrors = 0
    MaxCrashes = 0
SPECIFICATION Spec
INVARIANT ImportedIsThere
CHECK_DEADLOCK FALSE
