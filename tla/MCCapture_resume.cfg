CONSTANTS
    Session = {1, 2, 3, 4}
    JourneyOf <- Journeys
    Callback = {k1, k2}
    Caller = {p1}
    Null = Null
SPECIFICATION CaptureSpec
PROPERTY NeverToldTooEarly
CHECK_DEADLOCK FALSE
