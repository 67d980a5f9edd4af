CONSTANTS
    Listed = {1, 2}
    PerPage = 1
    MaxAsked = 2
    Expense = {e1}
    Declaration = {x1, x2}
    None = None
    Opened = e1
    MaxPresses = 3
    Reviewed = e1
    Entity = {"vehicle", "job"}
    MaxNames = 2
    MaxCalls = 2
    MaxOthers = 1
    MaxPending = 2
    MaxOngoing = 2
    MaxDigits = 2
    MaxInt = 2
    MaxBytes = 2
    MaxRows = 1
    Null = Null
SPECIFICATION PartsSpec
SYMMETRY ScreenSymmetry
INVARIANTS
    ListInv ExpenseViewInv ExpensePageInv ScreensInv
PROPERTIES NothingTakenBack NothingUndone
CHECK_DEADLOCK FALSE
