SPECIFICATION Spec
CONSTANTS
    None = None
    Routes = {r1, r2}
    PartySize = 2
    Balls = {1, 576}
    Goods = {17}
    MaxItems = 2
    SLOT_COUNT = 3
INVARIANTS TypeOK ItemsConserved OneCapturePerRoute
PROPERTIES OnlyFaintedDie
SYMMETRY RouteSymmetry
