CONSTANTS
    Op = {o1, o2}
    Trip = {t1}
    None = None
SPECIFICATION TrackingSpec
INVARIANT SignedOutMeansStopped
CHECK_DEADLOCK FALSE
