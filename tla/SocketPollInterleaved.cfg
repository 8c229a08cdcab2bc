SPECIFICATION Spec
CONSTANTS
    Hosts = {h1}
    Askers = {}
    Listeners = {h1}
    Resetting = {h1}
    Watched = {h1}
    BufferSize = 1
    PipeSize = 6
    PipeRoom = 2
    MaxBuffer = 0
INVARIANTS EventsArriveWhole
