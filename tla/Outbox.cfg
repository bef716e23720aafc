SPECIFICATION FairSpec
CONSTANTS
    Records = {r1, r2}
    Dispatchers = {d1, d2}
    limit = 2
    None = None
INVARIANTS AtLeastOnce NoPhantomEvents
PROPERTIES EveryRecordSettles
CHECK_DEADLOCK FALSE
