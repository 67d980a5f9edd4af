CONSTANTS
    Expense = {e1}
    Driver = {d1}
    User = {u1}
    Request = {r1, r2}
    Owner <- SoleOwner
    Declaration <- AnyFile
    None = None
SPECIFICATION Spec
SYMMETRY RequestSymmetry
PROPERTY NoAuthorizationOnceConfirmed
