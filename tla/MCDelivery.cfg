SPECIFICATION MCSpec
CONSTANTS
    Requests = {r1, r2, r3, r4}
    None = None
    Messages = {1, 2, 3}
    max_messages = 2
    MaxFailures = 2
    Kinds = {"retry", "timeout", "metrics", "audit", "uow", "authz"}
    MaxLength = 4
    max_attempts = 2
    MaxSessions = 4
    Publishers = {p1, p2, p3}
    Handlers = {h1, h2}
INVARIANTS NeverSwallowed AtMostOnce  
PROPERTIES  DeliveryEnds
CHECK_DEADLOCK FALSE
