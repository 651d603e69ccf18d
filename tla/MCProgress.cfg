CONSTANTS
    u1 = u1
    b1 = b1
    s1 = s1
    m1 = m1
    m2 = m2
    e1 = e1
    o1 = o1
    p1 = p1
    r1 = r1
    r2 = r2
    q1 = q1
    t1 = t1
    f1 = f1
    inbox = inbox
    work = work
    nothing = nothing
SPECIFICATION Spec
PROPERTIES
    RequestsEnd
    RoundGoesOn
    DraftsLearned
    OpsEnd
    AgreesInTheEnd
    IdeasBecomeTasks
\* every part has bounded events
CHECK_DEADLOCK FALSE
