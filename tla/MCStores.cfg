SPECIFICATION MCSpec
CONSTANTS
    Records = {m1, m2}
    Unwritten = {m2}
    Dispatchers = {d1}
    limit = 1
    Consumers = {c1, c2}
    MaxDeliveries = 3
    None = None
    Ids = {1, 2}
    Writers = {1, 2}
    Missing = Missing
    MaxEdits = 2
    Uploads = {1, 2}
    Keys = {1}
    max_size = 1
INVARIANTS InboxRemembers  EffectsHaveCauses 
PROPERTIES CausesTakeEffect
CHECK_DEADLOCK FALSE
