SPECIFICATION Spec
CONSTANTS
    t1 = t1
    t2 = t2
    t3 = t3
    t4 = t4
    Records = {t1, t2, t3, t4}
    QueueSize = 2
INVARIANTS SinglePlace
PROPERTIES EventuallySettled KeepsPromise
