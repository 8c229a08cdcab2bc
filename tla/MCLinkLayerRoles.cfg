SPECIFICATION MCFairSpec
CONSTANTS
    Radios = {r1}
    Machines = {0, 1}
    Slot = 4
    Ifs = 1
    AdvAlign = 8
    FirstScan = 8
    Jitter = {0}
    AdvTimes = {2}
    AdvIntervals = {6}
    ScanIntervals = {4}
    ScanWindows = {2}
    DefaultAdvTime = 2
    DefaultAdvInterval = 6
    EnableValues = {1}
    UnsetFlags = {0, 2}
    UnsetClocks = {0, 20}
    SyncTime = 1
    IdleStep = 8
    BusyStep = 8
    NoPacket = NoPacket
    Observer = r1
    MaxLag = 8
    MaxLead = 40
INVARIANTS TypeOK FlagsMatchMachines
PROPERTIES ImplementsPhysicalLayer 
