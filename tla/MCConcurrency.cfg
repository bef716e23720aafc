SPECIFICATION MCSpec
CONSTANTS
    NoConn = NoConn
    Conns <- ClientConns
    Tasks = {t1, t2, t3, t4, t5}
    max_concurrent = 2
    max_queue = 2
    Requests = {1, 2}
    Layers = {"correlation", "tenant", "security", "metrics", "rate_limit", "webhook", "headers"}
    MaxLayers = 2
    Unset = Unset
    max_retries = 2
INVARIANTS PermitsAccounted  BroadcastsReachAll  ReportsTruthful
PROPERTIES WaitingEnds
CHECK_DEADLOCK FALSE
