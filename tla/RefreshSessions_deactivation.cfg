CONSTANTS
    User = {u1}
    Driver = {d1}
    Session = {s1, s2}
    Family = {f1}
    Request = {r1, r2}
    None = None
SPECIFICATION Spec
PROPERTY DeactivationLeavesNoSession
