SPECIFICATION MCSpec
CONSTANTS
    Radios = {r1}
    Machines = {0, 1}
    Slot = 4
    Ifs = 1
    AdvAlign = 8
    FirstScan = 8
    Jitter = {0, 1}
    AdvTimes = {2}
    AdvIntervals = {6}
    ScanIntervals = {4}
    ScanWindows = {3}
    DefaultAdvTime = 2
    DefaultAdvInterval = 6
    EnableValues = {1}
    UnsetFlags = {0}
    UnsetClocks = {0}
    SyncTime = 1
    IdleStep = 8
    BusyStep = 4
    NoPacket = NoPacket
    Observer = r1
    MaxLag = 24
    MaxLead = 40
INVARIANTS CanAdvertise
