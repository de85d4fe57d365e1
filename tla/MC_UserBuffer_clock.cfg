CONSTANTS
    PageSize = 2
    VPages <- MC_VPages
    Frames <- MC_Frames
    PhysTop = 7
    Counts <- MC_Counts
    TsSize = 2
    MaxCalls = 2
SPECIFICATION Spec
\* Calls are bounded by MaxCalls; the process runs on afterwards.
CHECK_DEADLOCK FALSE
PROPERTY
    ClockConfined
