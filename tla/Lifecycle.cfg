SPECIFICATION FairSpec
CONSTANTS
    NChans = 2
    NULL = NULL
    AlignDevices = {TRUE, FALSE}
    DeviceCanFail = TRUE
INVARIANTS OneAtATime ThreadsFitDevice
PROPERTIES CommandsComplete ShutdownCompletes
