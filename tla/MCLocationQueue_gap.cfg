CONSTANTS
    Owner = {o1, o2}
    Sample = {1, 2, 3, 4}
    MaxQueued = 2
    NoOwner = NoOwner
SPECIFICATION QueueSpec
SYMMETRY OwnerSymmetry
PROPERTY LossNeverSilent
