SPECIFICATION MCSpec
CONSTANTS
    t1 = t1
    t2 = t2
    t3 = t3
    t4 = t4
    m1 = m1
    m2 = m2
    c1 = c1
    b1 = b1
    f1 = f1
    f2 = f2
    Threads = {t1, t2, t3, t4}
    Mutexes = {m1, m2}
    Conds = {c1}
    Barriers = {b1}
    MutexOf <- OneCond
    m_count <- TripleBarrier
    TryOwn = FALSE
SYMMETRY ThreadSymmetry
INVARIANTS
    Exclusion
    WaitsOnce
    NobodyForgotten
    FutexWaitsOnce
    NobodyStranded
CHECK_DEADLOCK FALSE
