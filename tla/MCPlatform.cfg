SPECIFICATION MCSpec
CONSTANTS
    Writers = {w1, w2}
    MaxEvents = 3
    MaxBatch = 2
    None = None
    Callers = {1, 2, 3}
    Mails = {1, 2, 3}
    work <- Lists
    max_retries = 2
SYMMETRY WriterSymmetry
 
PROPERTIES     ImplementsEventLog
CHECK_DEADLOCK FALSE
