CONSTANTS
    NumApps = 3
    Sizes <- MC_Sizes
    Bases <- MC_Bases
    StepVals <- MC_StepVals
    Slot = 4
    ImageAt = 15
    MemTop = 30
    SumBelow <- MC_SumBelow
SPECIFICATION Spec
\* The loading loop ends (next() returned None) or an oversized app
\* panicked; the boot continues in Kernel from the loaded processes.
CHECK_DEADLOCK FALSE


INVARIANT
    SlicesStatic


