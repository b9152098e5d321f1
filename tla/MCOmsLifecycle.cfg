SPECIFICATION Spec
CONSTANTS
    Gens = {g1, g2, g3}
    Tools = {t1, t2}
    MaxRecords = 2
    MaxInodes = 3
SYMMETRY Interchangeable
CHECK_DEADLOCK FALSE
INVARIANT
    HistoryKept
