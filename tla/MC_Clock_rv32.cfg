CONSTANTS
    ReadMod = 65536
    ProdMod = 268435456
    UsizeMod = 65536
    Steps <- MC_Steps
    MaxTime = 26000
SPECIFICATION Spec
PROPERTIES
    ClockMonotone
