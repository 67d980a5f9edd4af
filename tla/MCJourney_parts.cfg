CONSTANTS
    Sample = {1, 2, 3}
    Trip <- TripNames
    TripOf <- Journeys
    Late = {3}
    Call = {x1, x2}
    MaxQueued = 2
    MaxBatch = 2
    Nil = Nil
    Expense = {e1}
    Driver = {d1, d2}
    User = {u1}
    Request = {x1, x2}
    Owner <- SoleOwner
    Declaration <- PhotoOrThumbnail
    None = None
    Job = {j1}
    Worker = {x1, x2}
    LastDay = 2
    MaxEdits = 4
    Nobody = Nobody
    Candidate = {x1, x2}
    MaxSent = 2
    MaxReads = 1
    Position = {1, 2, 3}
    PageSize = 1
    MaxRun = 2
    Missing = Missing
    Instants = {0, 1}
    NotFinite = NotFinite
    Pole = 1
    Antimeridian = 2
    MaxAccuracy = 2
    Started = 1
    BatchLimit = 2
    MaxTaken = 3
SPECIFICATION PartsSpec
SYMMETRY JourneySymmetry
INVARIANTS JourneyInv DeliveryInv ReceiptsInv WorkshopInv
PROPERTIES DeliveryRefinesHistory RefinesReceiptRules WriterIsLinked
CHECK_DEADLOCK FALSE
