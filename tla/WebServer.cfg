SPECIFICATION FairSpec
CONSTANTS
    Browsers = {b1}
    Pages = {index}
    Parts = {layout}
    Callbacks = {uptime}
    BufferSize = 3
    MaxTime = 1
    MaxEdits = 3
INVARIANTS TypeOK StaleIsNoticed NullPageWasUnnoticed
PROPERTIES WholeResponses RequestsEnd
