CONSTANTS
    Trip = {t1, t2}
    Driver = {d1, d2}
    Vehicle = {v1}
    Expense = {e1}
    User = {u1}
    Window <- TwoWindows
    Request = {r1, r2, r3}
    None = None
SPECIFICATION ScenesSpec
SYMMETRY FleetSymmetry
INVARIANTS FleetInv NoLockCycle
PROPERTIES RefinesRules CancelNeverMissesACancellableTrip
