SPECIFICATION AnyLog
CONSTANTS
    a = a
    b = b
    u = u
    v = v
    Ids = {a, b}
    Kinds = {"claim"}
    Words = {u, v}
    NoId = NoId
    Absent = Absent
    MaxLines = 4
    MaxAt = 1
    Facts <- TwoFacts
INVARIANTS
    LastWriteWins
    ImportRetryConverges
CHECK_DEADLOCK FALSE
