SPECIFICATION Spec
CONSTANTS
    c = c
    d = d
    j = j
    h = h
    p = p
    q = q
    s = s
    t = t
    Ids = {c, d, j, h, p, q, s, t}
    None = None
    Corpora <- Evidence
    Restatements <- SomeRestatements
    Dates = {0, 1, 2}
    MaxRelations = 3
    MaxActs = 1
INVARIANTS
    RulingReachesConflict
CHECK_DEADLOCK FALSE
