SPECIFICATION FairSpec
CONSTANTS
    Hosts = {h1, h2}
    Askers = {h1}
    Listeners = {h2}
    Resetting = {h1}
    Watched = {h1}
    BufferSize = 2
    PipeSize = 6
    PipeRoom = 2
    MaxBuffer = 0
INVARIANTS TypeOK NoSleepOnData WritesToLiving  EventsArriveWhole
  
