CONSTANTS
    Op = {o1, o2}
    Trip = {t1}
    None = None
SPECIFICATION TrackingSpec
SYMMETRY OperationSymmetry
INVARIANT TrackingInv
CHECK_DEADLOCK FALSE
