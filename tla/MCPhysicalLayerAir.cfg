SPECIFICATION AirSpec
CONSTANTS
    Radios = {r1, r2, r3}
    Channels = {c1, c2}
    Tags = {0}
    Leads = {1, 2}
    Airtimes = {2, 3}
    Windows = {2, 4}
    SyncTime = 1
    IdleStep = 4
    BusyStep = 2
    NoPacket = NoPacket
SYMMETRY Symmetry
INVARIANTS NoBoundaryMissed AirCount BadMeansCollided ReportsAreClean OneReportPerWindow
PROPERTIES NothingMissed
