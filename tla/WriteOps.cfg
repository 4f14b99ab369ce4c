SPECIFICATION Spec
CONSTANTS
    a = a
    b = b
    u = u
    w1 = w1
    w2 = w2
    v = v
    Ids = {a, b}
    Kinds = {"claim", "question"}
    Words = {u, v}
    NoId = NoId
    Absent = Absent
    Writers = {w1, w2}
    Facts <- ClaimAndQuestion
    MaxAt = 3
    MaxLines = 4
    MaxShared = 2
INVARIANTS
    HalvesComeInOrder
PROPERTIES
    UncontendedWriteBuilds
    SettledCorrectionTakesEffect
CHECK_DEADLOCK FALSE
SYMMETRY Alike
