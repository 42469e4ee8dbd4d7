CONSTANTS
    s1 = s1
    s2 = s2
    s3 = s3
    r1 = r1
    r2 = r2
    Workers = {s1, s2, s3}
    Replicas = {r1, r2}
    Home <- MCHome
    Keys = {k}
    c = c
    d = d
    Conns = {c, d}
    Pool <- MCPool
    Mixes <- MCMixes
    Flights = {"pg", "noop"}
    Failing = {r2}
    Crashing = {r2}
    None = None
SPECIFICATION Spec
INVARIANTS  AnswersAreCurrent UploadsStayPrivate
PROPERTIES  EveryScanReturns
CHECK_DEADLOCK FALSE
