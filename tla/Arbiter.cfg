SPECIFICATION Spec
CONSTANTS
    Thread = {t1, t2, t3, t4}
    Address = {a1, a2}
    Priority = {0, 1}
    Value = {0, 1}
    Counts <- SignalCounts
INVARIANTS ListsExactlyWaiting
PROPERTIES WakesInOrder
SYMMETRY ThreadSymmetry
CHECK_DEADLOCK FALSE
