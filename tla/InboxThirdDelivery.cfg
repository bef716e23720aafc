SPECIFICATION Spec
CONSTANTS
    Consumers = {c1}
    Messages = {m1}
    MaxDeliveries = 3
    None = None
INVARIANTS ExactlyOnce
CHECK_DEADLOCK FALSE
