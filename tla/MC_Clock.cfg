CONSTANTS
    ReadMod = 268435456
    ProdMod = 268435456
    UsizeMod = 268435456
    Steps <- MC_Steps
    MaxTime = 26000
SPECIFICATION Spec

    
PROPERTIES
    ClockMonotone
