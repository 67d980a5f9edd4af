CONSTANTS
    Sample = {1, 2}
    Trip <- TripNames
    TripOf <- Journeys
    Late = {}
    Call = {c1}
    MaxQueued = 2
    MaxBatch = 1
    LastDelay = 1
    Nil = Nil
    None = None
    Request = {1, 2}
    Family = {f1}
    MaxTokens = 2
    MaxLate = 1
    Unborn = Unborn
    Ended = Ended
SPECIFICATION FairParts
INVARIANT TimerJustified
PROPERTIES
    ImplementsDelivery PokeHonoured EveryPassEnds QueueDrains TabsNeverReplay EveryFetchSettles
