SPECIFICATION MCSpec
CONSTANTS
    N = 4
    None = None
    Triggers = {t1, t2, t3}
    Endpoints = {e1, e2, e3}
    Scopes = {s1, s2}
    Jobs = {j1, j2}
    Callers = {a1, a2, a3}
    Keys = {x1, x2, x3}
    Loaders = {l1, l2}
INVARIANTS RecordTellsTheTruth
PROPERTIES ReverseOrder WorkflowsFollowTheirPaths ReportedMeansDone  CachesCoherent 
CHECK_DEADLOCK FALSE
