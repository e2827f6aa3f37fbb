CONSTANTS
    Tasks = {t1, t2, t3, t4}
    Locks = {1, 2, 3, 4, 5}
    CanAbort = TRUE
SPECIFICATION FairSpec
INVARIANTS TypeOK MutualExclusion
PROPERTY WaiterEnters
