SPECIFICATION MCSpec
CONSTANTS
    Calls = {c1, c2, c3}
    failure_threshold = 3
    success_threshold = 2
    timeout_seconds = 2
    max_hedges = 2
    max_attempts = 3
    attempt_timeout = 1
    base_delay = 1
    max_delay = 3
    MaxDeadline = 9
    None = None
    Tasks = {t1, t2, t3, t4}
    max_in_flight = 2
    limit = 2
    window_seconds = 3
    capacity = 3
    refill_rate = 1
    Clients = {k1, k2, k3}
    ttl_ms = 2
INVARIANTS AnswersEarned LimitsKept OneHolder
PROPERTIES OpensRightly EverythingEnds
CHECK_DEADLOCK FALSE
