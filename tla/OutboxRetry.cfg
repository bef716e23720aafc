SPECIFICATION FairSpec
CONSTANTS
    Records = {r1}
    Dispatchers = {d1}
    limit = 2
    None = None
PROPERTIES FailedIsRetried
CHECK_DEADLOCK FALSE
