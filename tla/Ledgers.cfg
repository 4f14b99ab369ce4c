SPECIFICATION LedgersSpec
CONSTANTS
    c = c
    d = d
    f = f
    s = s
    t = t
    e = e
    h = h
    D = D
    ann = ann
    bot = bot
    Ids = {c, d, e, f, h, s, t}
    None = None
    Alphabet <- SomeAlphabet
    Corpora <- SomeCorpora
    Restatements = {}
    Dates = {0}
    MaxRelations = 3
    MaxActs = 1
    IndexTokens = 2
    MaxBucket = 4
    NearBudget = 4
    MaxNearReports = 2
    People = {ann}
    Machines = {bot}
    SpeakerClasses = {1}
    Rules <- SomeRules
    Declared <- SomeDeclared
    Syntax <- SomeSyntax
    Library <- NoLibrary
    Rewordings <- SomeRewordings
    FirstReading <- ReadAtFirst
    Readings <- SomeReadings
    Foldings <- SomeFoldings
    Ruled <- SomeRuled
    MaxTouches = 2
    MaxAccepts = 1
INVARIANTS
    SilencedIsWhatWasSeen
    VerdictStandsOverItsWords
    TwinsAreNamed
    ClustersAreThings
    DisputeIsCarried
PROPERTIES
    QueueShrinksByHand
    QueueKeepsItsOrder
CHECK_DEADLOCK FALSE
