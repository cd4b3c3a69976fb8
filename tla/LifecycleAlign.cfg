SPECIFICATION Spec
CONSTANTS
    NChans = 2
    NULL = NULL
    AlignDevices = {TRUE}
    DeviceCanFail = TRUE
INVARIANT ThreadStartedOnce
