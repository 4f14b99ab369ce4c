SPECIFICATION Spec
CONSTANTS
    c = c
    d = d
    j = j
    o = o
    P = P
    Ids = {c, d, j, o, P}
    None = None
    Alphabet <- SomeAlphabet
    Corpora <- SomeCorpora
    Restatements <- SomeRestatements
    Dates = {0, 1, 2, 3}
    MaxRelations = 3
    MaxActs = 1
    Syntax <- SomeSyntax
    Queries <- SomeQueries
    Library <- SomeLibrary
    Clocks = {0, 2, 14}
    Fragments <- SomeFragments
INVARIANTS
    AnswersMeanWhatTheySay
    DeadlinesMoveWithTheirBasis
    ScratchForetells
CHECK_DEADLOCK FALSE
