SPECIFICATION MCFairSpec
CONSTANTS
    Radios = {r1, r2}
    Channels = {c1}
    Tags = {0}
    Leads = {1, 2}
    Airtimes = {2, 3}
    Windows <- MCWindows
    SyncTime = 1
    IdleStep = 4
    BusyStep = 2
    NoPacket = NoPacket
INVARIANTS TypeOK
PROPERTIES  PacketsEnd DeletionAcknowledged
