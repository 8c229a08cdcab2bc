SPECIFICATION FairSpec
CONSTANTS
    Program <- HostProgram
    OnTimer <- HostTimer
    Then <- HostThen
    Done = Done
    Report = Report
    Cuts = {1, 3}
    MaxReports = 1
INVARIANTS TypeOK OneCommandAtATime CallbackGetsItsEvent FollowUpsComeNext DoneIsLast
PROPERTIES CommandsAnswered
CHECK_DEADLOCK FALSE
