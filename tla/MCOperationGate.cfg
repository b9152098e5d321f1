CONSTANTS
    Threads = {t1, t2, t3, t4}
    MaxGeneration = 2
SPECIFICATION Spec
INVARIANTS RecoveryAlone CohortCounted NoLostWakeup
PROPERTIES RecoveryAdmitted
