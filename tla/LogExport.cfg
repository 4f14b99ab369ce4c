SPECIFICATION Spec
CONSTANTS
    e1 = e1
    e2 = e2
    m1 = m1
    NoFile = NoFile
    Torn = Torn
    Exporters = {e1, e2}
    Importers = {m1}
    Starts <- AnyStart
    Leads = {0, 1}
    MaxClock = 2
    MaxStore = 3
INVARIANTS
    FileIsAPastStore
PROPERTIES
    UnracedExportExtends
SYMMETRY ExporterSymmetry
