SPECIFICATION Spec
CONSTANTS
    c1 = c1
    c2 = c2
    c3 = c3
    r1 = r1
    Requests = {r1}
    Declaring = {0}
    Edited = {"facts", "doc"}
    MaxEdits = 1
    NoScope = NoScope
    Unwatched = Unwatched
    Nobody = Nobody
    Clients = {c1, c2, c3}
    MaxWatchers = 2
    Buffer = 1
    NoWatcher = NoWatcher
INVARIANTS
    HitIsCurrentUnlessTorn
    RunningIsRegistered
    RunningIsWanted
    NoNoticeLost
SYMMETRY ClientSymmetry
CHECK_DEADLOCK FALSE
