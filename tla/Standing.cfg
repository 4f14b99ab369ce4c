SPECIFICATION StandingSpec
CONSTANTS
    c = c
    o = o
    s = s
    d = d
    ask = ask
    Ids = {c, d, o, s}
    None = None
    Alphabet <- SomeAlphabet
    Corpora <- SomeCorpora
    Restatements <- SomeRestatements
    Dates = {0, 1, 2}
    MaxRelations = 2
    MaxActs = 1
    one = one
    two = two
    Procs = {one, two}
    Names = {ask}
    Texts <- SomeTexts
    Syntax <- SomeTexts
    Library <- NoLibrary
    LastDay = 2
    MaxEdits = 3
SYMMETRY Interchangeable
INVARIANTS
    FreshWasAccepted
    OnlySourcesMoveUnsaid
CHECK_DEADLOCK FALSE
