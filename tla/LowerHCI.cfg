SPECIFICATION Spec
CONSTANTS
    Opcodes = {"Set_Event_Mask", "Reset", "LE_Set_Event_Mask", "LE_Set_Advertise_Enable", "LE_Set_Scan_Enable", "LE_Set_Scan_Parameters", "Read_BD_ADDR", "Other"}
    EnableValues = {0, 1, 2}
    EventMasks = {{}, {"LE_Meta"}}
    LEEventMasks = {{}, {"LE_Advertising_Report"}}
    UnsetFlags = {0, 1, 2}
    MaxCommands = 2
    MaxEvents = 3
INVARIANTS TypeOK AnswersInOrder HostKnowsRoles 
