CONSTANTS
    User = {u1}
    Driver = {d1}
    Session = {s1, s2}
    Family = {f1, f2}
    Request = {r1, r2}
    None = None
    Trip = {t1}
    Vehicle = {v1}
    Expense = {e1}
    Window <- OneWindow
    OperationalDriver = {d1, d2}
SPECIFICATION FairScenes
INVARIANTS SessionsInv OneReusePerToken
PROPERTIES RevocationIsFinal RefinesFamilies RequestsAnswered
