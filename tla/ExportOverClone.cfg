SPECIFICATION Spec
CONSTANTS
    outer = outer
    matter = matter
    s1 = s1
    s2 = s2
    s3 = s3
    none = none
    p1 = p1
    p2 = p2
    NoFile = NoFile
    NoDoc = none
    Indexes <- MCIndexes
    MarkerDir <- MCMarkerDir
    WalkOrder <- MCWalkOrder
    DirLength <- MCDirLength
    Ids <- MCIds
    Scanners = {p1, p2}
    Entries <- MCEntries
    Corpora <- MCCorpora
    Contents <- MCContents
    Places <- MCPlaces
    MaxActs = 2
PROPERTIES
    ExportLosesNothing
CHECK_DEADLOCK FALSE
