SPECIFICATION RedisFairSpec
CONSTANTS
    Calls = {c1, c2, c3}
    failure_threshold = 2
    success_threshold = 3
    Absent = Absent
INVARIANTS ThresholdNeverBreached
PROPERTIES Recovers
