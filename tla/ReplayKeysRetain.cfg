SPECIFICATION KeySpec
CONSTANTS
    ReplayKey = {k1, k2}
    KeyThread = {t1, t2}
    KeyCapacity = 1
INVARIANTS RetainMakesRecoverable
CHECK_DEADLOCK FALSE
