SPECIFICATION Spec
CONSTANTS
    NumCores = 2
    MAX_SLICE_LENGTH = 2
    MinDelay = 1
    Overshoot = 1
    Ids = {a}
    Delays = {0, 1}
    Tears <- MCTears
    NoEvent = NoEvent
    MaxTicks = 6
    MaxScheduled = 2
INVARIANTS TypeOK OnTime DriftBounded
PROPERTIES TicksMonotone
