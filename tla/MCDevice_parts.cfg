CONSTANTS
    Call = {c1, c2}
    Rotation = {r1, r2}
    Family = {f1, f2}
    MaxTokens = 2
    MaxLate = 1
    Unborn = Unborn
    Ended = Ended
    None = None
    Owner = {c1, c2}
    Sample = {1, 2, 3, 4}
    MaxQueued = 2
    NoOwner = NoOwner
    Driver = {d1, d2}
    MaxBatches = 2
    MaxEpoch = 5
    NoDriver = NoDriver
    Session = {1, 2, 3}
    JourneyOf <- Journeys
    Null = Null
    Callback = {c1, c2}
    Caller = {p1}
    Capture = {1, 2}
    TripOf <- OneTrip
    Nobody = Nobody
    Place = {0, 1, 2}
    Nowhere = Nowhere
    MinDisplacement = 2
    Heartbeat = 2
    MaxClock = 2
    MaxInbox = 1
SPECIFICATION PartsSpec
SYMMETRY DeviceSymmetry
INVARIANTS
    PhoneInv QueueInv CaptureInv NoRowBehindAStop
PROPERTIES
    ReplayNeedsALoss NoResurrection NoBatchBehindSignOut ResumeHonest
    SuppressionJustified
CHECK_DEADLOCK FALSE
