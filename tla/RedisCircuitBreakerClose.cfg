SPECIFICATION RedisSpec
CONSTANTS
    Calls = {c1}
    failure_threshold = 3
    success_threshold = 3
    Absent = Absent
PROPERTIES ClosesOnSuccessThreshold
