SPECIFICATION Spec
CONSTANTS
    Client = {c1, c2, c3}
    Server = {v1, v2}
    Session = {s1, s2, s3, s4}
    Port = {p, h}
    Hle = {h}
    max_sessions = 2
    None = None
INVARIANTS RequestsAccounted SleepsOnlyWhenIdle ActiveSessionsExact
SYMMETRY NameSymmetry
CHECK_DEADLOCK FALSE
