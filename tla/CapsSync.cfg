SPECIFICATION Spec
CONSTANTS
    Node = {n1, n2}
    DhId = {h1}
    Conn = {c1, c2}
    NoConn = NoConn
    Asker = {n1, n2}
    MayFail = TRUE
    MaxTriggers = 2
    MaxOutside = 2
INVARIANTS RefreshOnce AnsweredOnRequest
SYMMETRY Alike
CHECK_DEADLOCK FALSE
