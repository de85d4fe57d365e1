CONSTANTS
    NApps = 3
    Candidates <- MC_Candidates
    Pages <- MC_Pages
    StackPages <- MC_StackPages
    PortalPage = "portal"
    PortalSlot <- MC_PortalSlot
    LogLevels = {"error", "info"}
SPECIFICATION Spec
INVARIANTS
    TypeOK
    HeadPresent
    PortalCrossing
    UserLinesStamped
    AllValidAppsRetired
    RetiredInTableOrder
PROPERTIES
    QueueOrder
    RunQueueSpec
    Termination
