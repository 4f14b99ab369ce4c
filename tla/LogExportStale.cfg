SPECIFICATION Spec
CONSTANTS
    e1 = e1
    e2 = e2
    m1 = m1
    NoFile = NoFile
    Torn = Torn
    Exporters = {e1, e2}
    Importers = {}
    Starts <- OnlyExported
    Leads = {0}
    MaxClock = 1
    MaxStore = 3
PROPERTIES
    ExportKeepsLines
