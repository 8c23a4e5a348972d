CONSTANTS
    c1 = c1
    c2 = c2
    e1 = e1
    e2 = e2
    r1 = r1
    r2 = r2
    p1 = p1
    p2 = p2
    v1 = v1
    v2 = v2
    Users <- AllUsers
    Kind <- KindOfAll
    Processes <- MCProcesses
    Overrides <- MCOverrides
    Evaluations = {v1, v2}
    Owner <- MCOwner
    Needed = 2
    Hooks = 2
    NoValue = NoValue
SPECIFICATION EnginesSpec
INVARIANTS
    HeldIsReady
    NothingLeft
    EvaluationsSafe
