SPECIFICATION Spec
CONSTANTS
    Tasks = {t1, t2}
    max_concurrent = 1
    max_queue = 1
INVARIANTS FullOnlyAtCapacity
